--------------------------- MODULE LockersProofs ---------------------------
(***************************************************************************)
(* For every number of cells, clients and values: the free-key stack is    *)
(* sound in every build whose calls are checked or whose clients are       *)
(* disciplined, and with disciplined clients the allocator keeps each cell *)
(* exclusive and implements the pool.                                      *)
(***************************************************************************)
EXTENDS lockers, FiniteSetTheorems, TLAPS

Disciplines == Exclusive /\ FreeOrHeld /\ CargoKept /\ NeverAborts

IInv == TypeInv /\ FreeKeysDistinct /\ (Disciplined => Disciplines)

\* A stack of distinct keys that lacks some key has room for it.
LEMMA RoomOnStack ==
  ASSUME TypeInv, FreeKeysDistinct, NEW k \in Key, ~is_free(k)
  PROVE  end_free < MAX
<1> SUFFICES ASSUME end_free = MAX PROVE FALSE
  BY MaxAssumption DEF TypeInv
<1> DEFINE others == Key \ {k}
           stack == [i \in Key |-> free_stack[i]]
<1>1. IsFiniteSet(Key) /\ Cardinality(Key) = MAX
  BY MaxAssumption, FS_Interval DEF Key
<1>2. IsFiniteSet(others) /\ Cardinality(others) = MAX - 1
  BY <1>1, FS_RemoveElement
<1>3. stack \in [Key -> others]
  BY DEF FreeKeysDistinct, is_free, Key
<1>4. \E i, j \in Key : i # j /\ stack[i] = stack[j]
  <2> HIDE DEF stack, others
  <2> QED
    BY <1>1, <1>2, <1>3, FS_PigeonHole, MaxAssumption
<1> QED
  BY <1>4 DEF FreeKeysDistinct, Key

LEMMA InitInv == Init => IInv
<1> SUFFICES ASSUME Init PROVE IInv
  OBVIOUS
<1> USE MaxAssumption DEF Init, Key
<1>1. TypeInv
  <2>1. slots \in [Key -> Content] /\ stored \in [Key -> Cargo \cup {Unset}]
    BY DEF Content
  <2>2. free_stack \in [Key -> Key \cup {ERROR}] /\ end_free \in 0 .. MAX
    OBVIOUS
  <2>3. holds \in [Client -> SUBSET Key] /\ knows \in [Client -> SUBSET Key]
    OBVIOUS
  <2> QED
    BY <2>1, <2>2, <2>3 DEF TypeInv
<1>2. FreeKeysDistinct
  BY DEF FreeKeysDistinct
<1>3. FreeOrHeld
  BY DEF FreeOrHeld, is_free
<1>4. Exclusive /\ CargoKept /\ NeverAborts
  BY DEF Exclusive, CargoKept, NeverAborts
<1> QED
  BY <1>1, <1>2, <1>3, <1>4 DEF IInv, Disciplines

\* What taking a key off the stack does.
LEMMA PopInv ==
  ASSUME IInv, NEW c \in Client, NEW v \in Cargo \cup {Unset}, ~full, pop_free, Got(c, v)
  PROVE  /\ popped \in Key /\ is_free(popped)
         /\ (end_free \in 0 .. MAX /\ free_stack \in [Key -> Key \cup {ERROR}])'
         /\ FreeKeysDistinct'
         /\ \A k \in Key : (is_free(k))' <=> is_free(k) /\ k # popped
<1> USE MaxAssumption DEF IInv, TypeInv, full, Key
<1>0. /\ end_free \in 1 .. MAX /\ end_free' = end_free - 1
      /\ end_free - 1 \in 0 .. MAX - 1
  BY DEF pop_free
<1>1. popped \in Key /\ is_free(popped)
  BY <1>0 DEF FreeKeysDistinct, popped, is_free
<1>2. \A i \in 0 .. end_free' - 1 : free_stack'[i] = free_stack[i]
  BY <1>0 DEF pop_free
<1>3. (end_free \in 0 .. MAX /\ free_stack \in [Key -> Key \cup {ERROR}])'
  BY <1>0 DEF pop_free
<1>4. FreeKeysDistinct'
  BY <1>0, <1>2 DEF FreeKeysDistinct
<1>5. ASSUME NEW k \in Key
      PROVE  (is_free(k))' <=> is_free(k) /\ k # popped
  <2>1. (is_free(k))' <=> \E i \in 0 .. end_free - 2 : free_stack[i] = k
    BY <1>0, <1>2 DEF is_free
  <2>2. \A i \in 0 .. end_free - 2 : free_stack[i] # popped
    BY <1>0 DEF FreeKeysDistinct, popped
  <2>3. is_free(k) <=> k = popped \/ \E i \in 0 .. end_free - 2 : free_stack[i] = k
    BY <1>0 DEF is_free, popped
  <2> QED
    BY <2>1, <2>2, <2>3
<1> QED
  BY <1>1, <1>3, <1>4, <1>5

\* What putting a key back does.
LEMMA PushInv ==
  ASSUME IInv, NEW k \in Key, ~is_free(k), push_free(k)
  PROVE  /\ (end_free \in 0 .. MAX /\ free_stack \in [Key -> Key \cup {ERROR}])'
         /\ (slots \in [Key -> Content])'
         /\ FreeKeysDistinct'
         /\ \A j \in Key : (is_free(j))' <=> is_free(j) \/ j = k
         /\ \A j \in Key : j # k => slots'[j] = slots[j]
<1> USE MaxAssumption DEF Key
<1>0. end_free \in 0 .. MAX - 1 /\ end_free' = end_free + 1
  BY RoomOnStack DEF push_free, IInv, TypeInv
<1>1. (end_free \in 0 .. MAX /\ free_stack \in [Key -> Key \cup {ERROR}])'
  BY <1>0 DEF push_free, IInv, TypeInv
<1>2. (slots \in [Key -> Content])' /\ \A j \in Key : j # k => slots'[j] = slots[j]
  BY DEF push_free, IInv, TypeInv, Content
<1>3. /\ free_stack'[end_free] = k
      /\ \A i \in 0 .. end_free - 1 : free_stack'[i] = free_stack[i] /\ free_stack[i] # k
  BY <1>0 DEF push_free, IInv, TypeInv, is_free
<1>4. FreeKeysDistinct'
  BY <1>0, <1>3 DEF FreeKeysDistinct, IInv
<1>5. ASSUME NEW j \in Key
      PROVE  (is_free(j))' <=> is_free(j) \/ j = k
  BY <1>0, <1>3 DEF is_free
<1> QED
  BY <1>1, <1>2, <1>4, <1>5

\* A key that a client may use and that no assertion stops is one of ours and
\* not free; a disciplined client's key passes every check.
LEMMA UsableKey ==
  ASSUME IInv, NEW c \in Client, NEW k \in Usable(c)
  PROVE  /\ Passes(HeldCheck(k)) => k \in Key /\ ~is_free(k)
         /\ Disciplined => k \in holds[c] /\ k \in Key /\ ~empty /\ HeldCheck(k)
<1>1. ASSUME Disciplined
      PROVE  k \in holds[c] /\ k \in Key /\ ~is_free(k) /\ ~empty /\ HeldCheck(k)
  <2>1. k \in holds[c] /\ k \in Key /\ ~is_free(k)
    BY <1>1 DEF Usable, IInv, TypeInv, Disciplines, FreeOrHeld
  <2>2. end_free < MAX
    BY <2>1, RoomOnStack DEF IInv
  <2> QED
    BY <2>1, <2>2, MaxAssumption, ErrorAssumption DEF empty, HeldCheck, Key, IInv, TypeInv
<1>2. ASSUME ~Disciplined, Passes(HeldCheck(k))
      PROVE  k \in Key /\ ~is_free(k)
  BY <1>2, ResponsibilityAssumption DEF Passes, HeldCheck, Usable, IInv, TypeInv
<1> QED
  BY <1>1, <1>2

-----------------------------------------------------------------------------
(* Every call preserves the invariant.                                     *)

LEMMA GotInv ==
  ASSUME IInv, NEW c \in Client, NEW v \in Cargo \cup {Unset}, ~full, pop_free, Got(c, v),
         UNCHANGED aborted,
         \/ v = Unset /\ UNCHANGED slots
         \/ v \in Cargo /\ slots' = [slots EXCEPT ![popped] = v]
  PROVE  IInv'
<1>0. /\ popped \in Key /\ is_free(popped)
      /\ (end_free \in 0 .. MAX /\ free_stack \in [Key -> Key \cup {ERROR}])'
      /\ FreeKeysDistinct'
      /\ \A k \in Key : (is_free(k))' <=> is_free(k) /\ k # popped
  BY PopInv
<1>1. /\ holds' = [holds EXCEPT ![c] = @ \cup {popped}]
      /\ stored' = [stored EXCEPT ![popped] = v]
      /\ ret' = popped
  BY DEF Got
<1>2. TypeInv'
  <2>1. (slots \in [Key -> Content])'
    BY <1>0 DEF IInv, TypeInv, Content
  <2>2. (knows \in [Client -> SUBSET Key])'
    BY <1>0 DEF Got, IInv, TypeInv
  <2>3. (holds \in [Client -> SUBSET Key] /\ stored \in [Key -> Cargo \cup {Unset}])'
    BY <1>0, <1>1 DEF IInv, TypeInv
  <2> QED
    BY <1>0, <1>1, <2>1, <2>2, <2>3 DEF IInv, TypeInv
<1>3. ASSUME Disciplined
      PROVE  Disciplines'
  <2>0. Disciplines
    BY <1>3 DEF IInv
  <2>1. \A d \in Client : popped \notin holds[d]
    BY <1>0, <2>0 DEF Disciplines, FreeOrHeld
  <2>2. Exclusive'
    BY <1>1, <2>0, <2>1 DEF Disciplines, Exclusive, IInv, TypeInv
  <2>3. FreeOrHeld'
    BY <1>0, <1>1, <2>0, <2>1 DEF Disciplines, FreeOrHeld, IInv, TypeInv
  <2>4. CargoKept'
    BY <1>0, <1>1, <2>0 DEF Disciplines, CargoKept, IInv, TypeInv
  <2> QED
    BY <2>0, <2>2, <2>3, <2>4 DEF Disciplines, NeverAborts
<1> QED
  BY <1>0, <1>2, <1>3 DEF IInv

LEMMA RefusedInv ==
  ASSUME IInv, Refused
  PROVE  IInv'
<1>1. TypeInv'
  BY DEF Refused, IInv, TypeInv
<1>2. FreeKeysDistinct'
  BY DEF Refused, IInv, FreeKeysDistinct
<1>3. Disciplines => Disciplines'
  BY DEF Refused, Disciplines, Exclusive, FreeOrHeld, is_free, CargoKept, NeverAborts
<1> QED
  BY <1>1, <1>2, <1>3 DEF IInv

LEMMA AbortInv ==
  ASSUME IInv, NEW condition \in BOOLEAN, Disciplined => condition, Abort(condition)
  PROVE  IInv'
<1>1. TypeInv'
  BY DEF Abort, IInv, TypeInv
<1>2. FreeKeysDistinct'
  BY DEF Abort, IInv, FreeKeysDistinct
<1>3. ~Disciplined
  BY DEF Abort
<1> QED
  BY <1>1, <1>2, <1>3 DEF IInv

LEMMA StoreInv ==
  ASSUME IInv, NEW c \in Client, NEW k \in Usable(c), NEW v \in Cargo, store_at(c, k, v)
  PROVE  IInv'
<1>1. CASE Abort(HeldCheck(k))
  BY <1>1, UsableKey, AbortInv DEF HeldCheck
<1>2. CASE ~Abort(HeldCheck(k))
  <2>0. /\ k \in Key
        /\ slots' = [slots EXCEPT ![k] = v]
        /\ stored' = [stored EXCEPT ![k] = v]
        /\ ret' = v
        /\ UNCHANGED <<free_stack, end_free, aborted, holds, knows>>
    BY <1>2, UsableKey DEF store_at
  <2>1. TypeInv'
    BY <2>0 DEF IInv, TypeInv, Content
  <2>2. FreeKeysDistinct'
    BY <2>0 DEF IInv, FreeKeysDistinct
  <2>3. Disciplines => Disciplines'
    BY <2>0 DEF Disciplines, Exclusive, FreeOrHeld, is_free, CargoKept, NeverAborts, IInv, TypeInv
  <2> QED
    BY <2>1, <2>2, <2>3 DEF IInv
<1> QED
  BY <1>1, <1>2

LEMMA AtInv ==
  ASSUME IInv, NEW c \in Client, NEW k \in Usable(c), at(c, k)
  PROVE  IInv'
<1>1. CASE Abort(~empty /\ HeldCheck(k))
  BY <1>1, UsableKey, AbortInv DEF HeldCheck, empty
<1>2. CASE ~Abort(~empty /\ HeldCheck(k))
  <2>0. /\ k \in Key /\ ret' = slots[k]
        /\ UNCHANGED <<slots, free_stack, end_free, aborted, holds, knows, stored>>
    BY <1>2, UsableKey DEF at, Passes
  <2>1. TypeInv'
    BY <2>0 DEF IInv, TypeInv
  <2>2. FreeKeysDistinct'
    BY <2>0 DEF IInv, FreeKeysDistinct
  <2>3. Disciplines => Disciplines'
    BY <2>0 DEF Disciplines, Exclusive, FreeOrHeld, is_free, CargoKept, NeverAborts
  <2> QED
    BY <2>1, <2>2, <2>3 DEF IInv
<1> QED
  BY <1>1, <1>2

LEMMA AssignInv ==
  ASSUME IInv, NEW c \in Client, NEW k \in Usable(c), NEW v \in Cargo, assign_at(c, k, v)
  PROVE  IInv'
<1>1. CASE Abort(~empty /\ HeldCheck(k))
  BY <1>1, UsableKey, AbortInv DEF HeldCheck, empty
<1>2. CASE store_at(c, k, v)
  BY <1>2, StoreInv
<1> QED
  BY <1>1, <1>2 DEF assign_at

LEMMA FreeInv ==
  ASSUME IInv, NEW c \in Client, NEW k \in Usable(c), free(c, k)
  PROVE  IInv'
<1>1. CASE Abort(~empty /\ HeldCheck(k))
  BY <1>1, UsableKey, AbortInv DEF HeldCheck, empty
<1>2. CASE ~Abort(~empty /\ HeldCheck(k))
  <2>0. /\ k \in Key /\ ~is_free(k) /\ push_free(k)
        /\ holds' = [holds EXCEPT ![c] = @ \ {k}]
        /\ stored' = [stored EXCEPT ![k] = Unset]
        /\ ret' = Void
        /\ UNCHANGED <<aborted, knows>>
    BY <1>2, UsableKey DEF free, Passes
  <2>1. /\ (end_free \in 0 .. MAX /\ free_stack \in [Key -> Key \cup {ERROR}])'
        /\ (slots \in [Key -> Content])'
        /\ FreeKeysDistinct'
        /\ \A j \in Key : (is_free(j))' <=> is_free(j) \/ j = k
        /\ \A j \in Key : j # k => slots'[j] = slots[j]
    BY <2>0, PushInv
  <2>2. TypeInv'
    BY <2>0, <2>1 DEF IInv, TypeInv
  <2>3. ASSUME Disciplined
        PROVE  Disciplines'
    <3>0. Disciplines /\ k \in holds[c]
      BY <2>3, UsableKey DEF IInv
    <3>1. \A d \in Client : d # c => k \notin holds[d]
      BY <3>0 DEF Disciplines, Exclusive
    <3>2. Exclusive'
      BY <2>0, <3>0 DEF Disciplines, Exclusive, IInv, TypeInv
    <3>3. FreeOrHeld'
      BY <2>0, <2>1, <3>0, <3>1 DEF Disciplines, FreeOrHeld, IInv, TypeInv
    <3>4. CargoKept'
      BY <2>0, <2>1, <3>0 DEF Disciplines, CargoKept, IInv, TypeInv
    <3> QED
      BY <2>0, <3>0, <3>2, <3>3, <3>4 DEF Disciplines, NeverAborts
  <2> QED
    BY <2>1, <2>2, <2>3 DEF IInv
<1> QED
  BY <1>1, <1>2

LEMMA NextInv == IInv /\ [Next]_vars => IInv'
<1> SUFFICES ASSUME IInv, [Next]_vars PROVE IInv'
  OBVIOUS
<1>1. ASSUME NEW c \in Client, alloc(c) PROVE IInv'
  BY <1>1, RefusedInv, GotInv DEF alloc
<1>2. ASSUME NEW c \in Client, NEW v \in Cargo, store(c, v) PROVE IInv'
  BY <1>2, RefusedInv, GotInv DEF store
<1>3. ASSUME NEW c \in Client, NEW k \in Usable(c),
             \/ at(c, k)
             \/ free(c, k)
             \/ \E v \in Cargo : store_at(c, k, v) \/ assign_at(c, k, v)
      PROVE  IInv'
  BY <1>3, AtInv, FreeInv, StoreInv, AssignInv
<1>4. CASE UNCHANGED vars
  <2>1. TypeInv' /\ FreeKeysDistinct'
    BY <1>4 DEF vars, IInv, TypeInv, FreeKeysDistinct
  <2>2. Disciplines => Disciplines'
    BY <1>4 DEF vars, Disciplines, Exclusive, FreeOrHeld, is_free, CargoKept, NeverAborts
  <2> QED
    BY <2>1, <2>2 DEF IInv
<1> QED
  BY <1>1, <1>2, <1>3, <1>4 DEF Next

\* The free-key stack stays sound under every sequence of checked calls, and
\* under every sequence of unchecked ones that disciplined clients make.
THEOREM StackSafety == Spec => [](TypeInv /\ FreeKeysDistinct)
BY InitInv, NextInv, PTL DEF Spec, IInv

\* Disciplined clients own each cell alone, and every cell is free or owned:
\* none is handed out twice, none leaks.
THEOREM OneOwner ==
  ASSUME Disciplined
  PROVE  Spec => []EachKeyOnce
<1>1. IInv => EachKeyOnce
  BY DEF IInv, Disciplines, EachKeyOnce
<1> QED
  BY <1>1, InitInv, NextInv, PTL DEF Spec

\* Disciplined clients find in a cell what they stored, and fail no assertion,
\* however their calls interleave.
THEOREM OwnersUndisturbed ==
  ASSUME Disciplined
  PROVE  Spec => []HoldersUndisturbed
<1>1. IInv => HoldersUndisturbed
  BY DEF IInv, Disciplines, HoldersUndisturbed
<1> QED
  BY <1>1, InitInv, NextInv, PTL DEF Spec

-----------------------------------------------------------------------------
(* With disciplined clients every call is a step of the pool.              *)

LEMMA ObtainSimulation ==
  ASSUME IInv, Disciplined, NEW c \in Client, NEW v \in Cargo \cup {Unset},
         ~full, pop_free, Got(c, v)
  PROVE  Pool!Next
<1>1. popped \in Pool!Available
  BY PopInv DEF IInv, Disciplines, FreeOrHeld, Pool!Available
<1>2. Pool!Obtain(c, v)
  BY <1>1 DEF Got, Pool!Obtain
<1> QED
  BY <1>2 DEF Pool!Next

LEMMA RefuseSimulation ==
  ASSUME IInv, Disciplined, Refused
  PROVE  Pool!Next
<1>1. \A k \in Key : ~is_free(k)
  BY DEF Refused, full, is_free
<1>2. Pool!Available = {}
  BY <1>1 DEF IInv, Disciplines, FreeOrHeld, Pool!Available
<1> QED
  BY <1>2 DEF Refused, Pool!Refuse, Pool!Next

LEMMA UseSimulation ==
  ASSUME IInv, Disciplined, NEW c \in Client, NEW k \in Usable(c),
         \/ at(c, k)
         \/ free(c, k)
         \/ \E v \in Cargo : store_at(c, k, v) \/ assign_at(c, k, v)
  PROVE  Pool!Next
<1>1. k \in holds[c] /\ k \in Key /\ ~empty /\ HeldCheck(k)
  BY UsableKey
<1>2. ~Abort(HeldCheck(k)) /\ ~Abort(~empty /\ HeldCheck(k))
  BY <1>1 DEF Abort
<1>3. CASE at(c, k)
  <2>1. ret' = slots[k] /\ UNCHANGED <<holds, stored>>
    BY <1>2, <1>3 DEF at
  <2>2. stored[k] # Unset => ret' = stored[k]
    BY <1>1, <2>1 DEF IInv, Disciplines, CargoKept
  <2> QED
    BY <1>1, <2>1, <2>2 DEF Pool!Fetch, Pool!Next
<1>4. CASE free(c, k)
  BY <1>1, <1>2, <1>4 DEF free, Pool!Return, Pool!Next
<1>5. ASSUME NEW v \in Cargo, store_at(c, k, v) \/ assign_at(c, k, v)
      PROVE  Pool!Next
  <2>1. store_at(c, k, v)
    BY <1>2, <1>5 DEF assign_at
  <2>2. Pool!Store(c, v)
    BY <1>1, <1>2, <2>1 DEF store_at, Pool!Store
  <2> QED
    BY <2>2 DEF Pool!Next
<1> QED
  BY <1>3, <1>4, <1>5

\* Disciplined clients cannot tell the allocator from the pool: keys are handed
\* out exclusively, ERROR is the answer exactly when every cell is held, and a
\* cell reads what its holder stored.
THEOREM LockersImplementPool ==
  ASSUME Disciplined
  PROVE  Spec => ImplementsPool
<1>1. Init => Pool!Init
  BY DEF Init, Pool!Init
<1>2. IInv /\ [Next]_vars => [Pool!Next]_(Pool!poolVars)
  <2> SUFFICES ASSUME IInv, [Next]_vars PROVE [Pool!Next]_(Pool!poolVars)
    OBVIOUS
  <2>1. ASSUME NEW c \in Client, alloc(c) PROVE Pool!Next
    BY <2>1, RefuseSimulation, ObtainSimulation DEF alloc
  <2>2. ASSUME NEW c \in Client, NEW v \in Cargo, store(c, v) PROVE Pool!Next
    BY <2>2, RefuseSimulation, ObtainSimulation DEF store
  <2>3. CASE UNCHANGED vars
    BY <2>3 DEF vars, Pool!poolVars
  <2> QED
    BY <2>1, <2>2, <2>3, UseSimulation DEF Next
<1> QED
  BY <1>1, <1>2, InitInv, NextInv, PTL DEF Spec, ImplementsPool, Pool!Spec
=============================================================================
