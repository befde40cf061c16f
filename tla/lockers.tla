------------------------------- MODULE lockers -------------------------------
(***************************************************************************)
(* The constant-time slot allocator of src/cont/lockers.hh: an array of    *)
(* cells and a stack of the keys of the free ones, used by several clients *)
(* in turn.  Asserts says whether assert() is compiled in, DEBUG whether   *)
(* that macro is defined (which only marks freed cells and popped stack    *)
(* entries).  A disciplined client uses a key only while it has it; others *)
(* may use again any key they ever got, and the ERROR they did not check.  *)
(***************************************************************************)
EXTENDS Integers

CONSTANTS MAX, Client, Cargo,
          ERROR, Unset, Void, Junk,
          Asserts, DEBUG, Disciplined

ASSUME MaxAssumption == MAX \in Nat
ASSUME ErrorAssumption == ERROR \notin 0 .. MAX - 1
ASSUME UnsetAssumption == Unset \notin Cargo
ASSUME ModeAssumption == Asserts \in BOOLEAN /\ DEBUG \in BOOLEAN /\ Disciplined \in BOOLEAN

\* Keeping the calls valid is the user's responsibility where nothing is
\* checked (lockers.hh:45-46).
ASSUME ResponsibilityAssumption == Asserts \/ Disciplined

Key     == 0 .. MAX - 1
Content == Cargo \cup {Junk}    \* Junk: uninitialised, or a DEBUG mark

VARIABLES slots, free_stack, end_free,
          aborted,  \* an assertion failed
          ret,      \* what the latest call returned
          holds,    \* history: the keys each client got and has not returned
          knows,    \* the keys an undisciplined client ever got
          stored    \* history: what was stored under a key since it was got

vars == <<slots, free_stack, end_free, aborted, ret, holds, knows, stored>>

\* Faulty variants of the definitions below are named for their fault; the
\* properties are checked to notice them.
full_early == end_free <= 1

empty == end_free = MAX
full  == end_free = 0

is_free(k) == \E i \in 0 .. end_free - 1 : free_stack[i] = k

\* The constructor pushes every key, in order, on an empty stack.
Init ==
    /\ slots = [k \in Key |-> Junk]
    /\ free_stack = [i \in Key |-> i]
    /\ end_free = MAX
    /\ aborted = FALSE
    /\ ret = Void
    /\ holds = [c \in Client |-> {}]
    /\ knows = [c \in Client |-> {}]
    /\ stored = [k \in Key |-> Unset]

\* The key _pop_free() takes off the stack, and the stack it leaves.
popped == free_stack[end_free - 1]

pop_free_undone ==
    /\ end_free' = end_free
    /\ free_stack' = IF DEBUG THEN [free_stack EXCEPT ![end_free - 1] = ERROR] ELSE free_stack

pop_free ==
    /\ end_free' = end_free - 1
    /\ free_stack' = IF DEBUG THEN [free_stack EXCEPT ![end_free - 1] = ERROR] ELSE free_stack

push_free(k) ==
    /\ free_stack' = [free_stack EXCEPT ![end_free] = k]
    /\ end_free' = end_free + 1
    /\ slots' = IF DEBUG THEN [slots EXCEPT ![k] = Junk] ELSE slots

\* The keys a client may pass to the container.
Usable(c) == IF Disciplined THEN holds[c] ELSE knows[c] \cup {ERROR}

\* A call runs past its assertions if they hold or are compiled out.
Passes(condition) == Asserts => condition

Abort(condition) ==
    /\ Asserts /\ ~condition
    /\ aborted' = TRUE
    /\ UNCHANGED <<slots, free_stack, end_free, ret, holds, knows, stored>>

Got(c, v) ==
    /\ holds' = [holds EXCEPT ![c] = @ \cup {popped}]
    /\ knows' = IF Disciplined THEN knows ELSE [knows EXCEPT ![c] = @ \cup {popped}]
    /\ stored' = [stored EXCEPT ![popped] = v]
    /\ ret' = popped

Refused ==
    /\ full
    /\ ret' = ERROR
    /\ UNCHANGED <<slots, free_stack, end_free, holds, knows, stored, aborted>>

\* get() is another name for it.
alloc(c) ==
    \/ Refused
    \/ /\ ~full
       /\ pop_free
       /\ Got(c, Unset)
       /\ UNCHANGED <<slots, aborted>>

store_by_position(c, v) ==
    \/ Refused
    \/ /\ ~full
       /\ pop_free
       /\ slots' = [slots EXCEPT ![end_free - 1] = v]
       /\ Got(c, v)
       /\ UNCHANGED aborted

\* store(cargo): alloc() and, unless that failed, store(slot, cargo).
store(c, v) ==
    \/ Refused
    \/ /\ ~full
       /\ pop_free
       /\ slots' = [slots EXCEPT ![popped] = v]
       /\ Got(c, v)
       /\ UNCHANGED aborted

HeldCheck_unsearched(k) == k # ERROR

HeldCheck(k) == k # ERROR /\ ~is_free(k)

\* store(slot, cargo)
store_at(c, k, v) ==
    \/ Abort(HeldCheck(k))
    \/ /\ Passes(HeldCheck(k))
       /\ slots' = [slots EXCEPT ![k] = v]
       /\ ret' = v
       /\ stored' = [stored EXCEPT ![k] = v]
       /\ UNCHANGED <<free_stack, end_free, aborted, holds, knows>>

\* operator[], which the caller may also assign through.
at(c, k) ==
    \/ Abort(~empty /\ HeldCheck(k))
    \/ /\ Passes(~empty /\ HeldCheck(k))
       /\ ret' = slots[k]
       /\ UNCHANGED <<slots, free_stack, end_free, aborted, holds, knows, stored>>

assign_at(c, k, v) ==
    \/ Abort(~empty /\ HeldCheck(k))
    \/ Passes(~empty /\ HeldCheck(k)) /\ store_at(c, k, v)

\* free(slot), also named release(): the cell is left as it is.
free(c, k) ==
    \/ Abort(~empty /\ HeldCheck(k))
    \/ /\ Passes(~empty /\ HeldCheck(k))
       /\ push_free(k)
       /\ holds' = [holds EXCEPT ![c] = @ \ {k}]
       /\ stored' = [stored EXCEPT ![k] = Unset]
       /\ ret' = Void
       /\ UNCHANGED <<aborted, knows>>

Next ==
    /\ ~aborted
    /\ \E c \in Client :
           \/ alloc(c)
           \/ \E v \in Cargo : store(c, v)
           \/ \E k \in Usable(c) :
                  \/ at(c, k)
                  \/ free(c, k)
                  \/ \E v \in Cargo : store_at(c, k, v) \/ assign_at(c, k, v)

Spec == Init /\ [][Next]_vars

Pool == INSTANCE LockerPool WITH cargo <- stored

-----------------------------------------------------------------------------
TypeInv ==
    /\ slots \in [Key -> Content]
    /\ free_stack \in [Key -> Key \cup {ERROR}]
    /\ end_free \in 0 .. MAX
    /\ aborted \in BOOLEAN
    /\ ret \in Key \cup Content \cup {ERROR, Void}
    /\ holds \in [Client -> SUBSET Key]
    /\ knows \in [Client -> SUBSET Key]
    /\ stored \in [Key -> Cargo \cup {Unset}]

\* The stack never holds a key twice, so no two alloc() calls can pop the same
\* cell: with assertions compiled in, whatever the clients do; without them,
\* if the clients are disciplined (lockers.hh:111-128, 223-246).
FreeKeysDistinct ==
    /\ \A i \in 0 .. end_free - 1 : free_stack[i] \in Key
    /\ \A i, j \in 0 .. end_free - 1 : i # j => free_stack[i] # free_stack[j]

\* "Once a key has been obtained, another key to the same slot can't be
\* obtained" (lockers.hh:21).
Exclusive == \A c, d \in Client : c # d => holds[c] \cap holds[d] = {}

\* No cell leaks: every key is either on the stack or with a client, not both,
\* so size() counts the keys the clients have.
FreeOrHeld == \A k \in Key : is_free(k) <=> \A c \in Client : k \notin holds[c]

\* Each key is in one place: on the stack, or with one client.
EachKeyOnce == Exclusive /\ FreeOrHeld

\* The cell of a key keeps what its holder stored there, through any number of
\* calls of the others ("exclusive use", lockers.hh:19-20).
CargoKept == \A k \in Key : stored[k] # Unset => slots[k] = stored[k]

\* No assertion stops a program whose clients are disciplined, whichever cells
\* they use in whichever order, a full or an empty pool included.
NeverAborts == ~aborted

\* Who keeps to the rules has its cells to itself, and is not stopped.
HoldersUndisturbed == CargoKept /\ NeverAborts

\* The allocator implements the pool.
ImplementsPool == Pool!Spec
=============================================================================
