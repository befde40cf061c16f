----------------------------- MODULE LockerPool -----------------------------
(***************************************************************************)
(* What src/cont/lockers.hh promises: a pool of cells handed out by key.   *)
(* A key is obtained when some cell is free and never while another client *)
(* has it ("Once a key has been obtained, another key to the same slot     *)
(* can't be obtained", lockers.hh:21), ERROR is the reply exactly when no  *)
(* cell is free, and what a client reads is what it stored last.           *)
(***************************************************************************)
CONSTANTS Key, Client, Cargo,
          ERROR,     \* the key returned when there is none to return
          Unset,     \* of a cell: its holder has stored nothing in it yet
          Void       \* the "reply" of a call that returns nothing

VARIABLES holds,     \* the keys each client has
          cargo,     \* what the holder of a key stored under it
          ret        \* what the latest call returned

poolVars == <<holds, cargo, ret>>

Available == Key \ UNION {holds[c] : c \in Client}

Init ==
    /\ holds = [c \in Client |-> {}]
    /\ cargo = [k \in Key |-> Unset]
    /\ ret = Void

Obtain(c, v) ==
    \E k \in Available :
        /\ holds' = [holds EXCEPT ![c] = @ \cup {k}]
        /\ cargo' = [cargo EXCEPT ![k] = v]
        /\ ret'   = k

Refuse ==
    /\ Available = {}
    /\ ret' = ERROR
    /\ UNCHANGED <<holds, cargo>>

Store(c, v) ==
    \E k \in holds[c] :
        /\ cargo' = [cargo EXCEPT ![k] = v]
        /\ ret' = v
        /\ UNCHANGED holds

\* Nothing is said of what a cell reads before its holder stored in it.
Fetch(c) ==
    /\ \E k \in holds[c] : cargo[k] # Unset => ret' = cargo[k]
    /\ UNCHANGED <<holds, cargo>>

Return(c) ==
    \E k \in holds[c] :
        /\ holds' = [holds EXCEPT ![c] = @ \ {k}]
        /\ cargo' = [cargo EXCEPT ![k] = Unset]
        /\ ret' = Void

Next ==
    \/ Refuse
    \/ \E c \in Client :
           \/ \E v \in Cargo \cup {Unset} : Obtain(c, v)
           \/ \E v \in Cargo : Store(c, v)
           \/ Fetch(c)
           \/ Return(c)

Spec == Init /\ [][Next]_poolVars
=============================================================================
