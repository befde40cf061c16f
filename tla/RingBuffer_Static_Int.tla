------------------------ MODULE RingBuffer_Static_Int ------------------------
(***************************************************************************)
(* The fixed-capacity ring buffer of src/cont/ringbuffer.hh: an array and  *)
(* three numbers.  `next' is where the next element goes, `oldest' is the  *)
(* oldest element, and `count' tells a full buffer from an empty one (in   *)
(* both next = oldest).  The array is never initialised and never wiped,   *)
(* so a free slot may hold any value, one that was popped included.        *)
(***************************************************************************)
EXTENDS Naturals

CONSTANTS Capacity, Value, ErrorValue, Void

\* The template leaves Capacity == 0 to its user (ringbuffer.hh:10) and
\* reserves the error value from the value set (ringbuffer.hh:19-22).
ASSUME CapacityAssumption == Capacity \in Nat \ {0}
ASSUME ErrorValueAssumption == ErrorValue \notin Value

VARIABLES items, next, oldest, count,
          ret   \* what the latest call returned

vars == <<items, next, oldest, count, ret>>

Index == 0 .. Capacity - 1
Cell  == Value \cup {ErrorValue}   \* whatever the raw memory may hold

full  == count = Capacity
empty == count = 0

i_inc(i) == IF i < Capacity - 1 THEN i + 1 ELSE 0
i_dec(i) == IF i > 0 THEN i - 1 ELSE Capacity - 1

i_back == IF next > 0 THEN next - 1 ELSE Capacity - 1

Init ==
    /\ items \in [Index -> Cell]
    /\ next = 0 /\ oldest = 0 /\ count = 0
    /\ ret = Void

\* A faulty variant: a full buffer keeps its oldest element.
push_back_keeping(x) ==
    /\ items' = [items EXCEPT ![next] = x]
    /\ next'  = i_inc(next)
    /\ count' = IF full THEN count ELSE count + 1
    /\ ret'   = Void
    /\ UNCHANGED oldest

\* Add at the end; a full buffer drops its oldest element first.
push_back(x) ==
    /\ items'  = [items EXCEPT ![next] = x]
    /\ next'   = i_inc(next)
    /\ oldest' = IF full THEN i_inc(oldest) ELSE oldest
    /\ count'  = IF full THEN count ELSE count + 1
    /\ ret'    = Void

pop_front ==
    \/ /\ empty
       /\ ret' = ErrorValue
       /\ UNCHANGED <<items, next, oldest, count>>
    \/ /\ ~empty
       /\ ret'    = items[oldest]
       /\ count'  = count - 1
       /\ oldest' = i_inc(oldest)
       /\ UNCHANGED <<items, next>>

\* A faulty variant: reads the slot before stepping back to it.
pop_back_unstepped ==
    /\ ret'   = IF empty THEN ErrorValue ELSE items[next]
    /\ next'  = IF empty THEN next ELSE i_dec(next)
    /\ count' = IF empty THEN 0 ELSE count - 1
    /\ UNCHANGED <<items, oldest>>

pop_back ==
    \/ /\ empty
       /\ ret' = ErrorValue
       /\ UNCHANGED <<items, next, oldest, count>>
    \/ /\ ~empty
       /\ next'  = i_dec(next)
       /\ ret'   = items[i_dec(next)]
       /\ count' = count - 1
       /\ UNCHANGED <<items, oldest>>

front ==
    /\ ret' = IF empty THEN ErrorValue ELSE items[oldest]
    /\ UNCHANGED <<items, next, oldest, count>>

back ==
    /\ ret' = IF empty THEN ErrorValue ELSE items[i_back]
    /\ UNCHANGED <<items, next, oldest, count>>

clear ==
    /\ count' = 0 /\ next' = 0 /\ oldest' = 0
    /\ ret' = Void
    /\ UNCHANGED items

Next ==
    \/ \E x \in Value : push_back(x)
    \/ pop_front
    \/ pop_back
    \/ front
    \/ back
    \/ clear

Spec == Init /\ [][Next]_vars

-----------------------------------------------------------------------------
(* find() walks from `oldest' and stops once it is back at `next'.         *)

\* The index find() looks at in its k-th round.
walk[k \in Nat] == IF k = 0 THEN oldest ELSE i_inc(walk[k - 1])

\* A faulty variant: a while loop, which never enters a full buffer.
find_while(v) ==
    /\ ~empty
    /\ \E k \in 0 .. Capacity - 1 :
           /\ \A j \in 0 .. k : walk[j] # next
           /\ items[walk[k]] = v

\* A do-while loop: the first round is not guarded, so that a full buffer
\* (where oldest = next) is walked all around.
find(v) ==
    /\ ~empty
    /\ \E k \in 0 .. Capacity - 1 :
           /\ \A j \in 1 .. k : walk[j] # next
           /\ items[walk[k]] = v

-----------------------------------------------------------------------------
(* The index of the k-th oldest element, and the elements in order.        *)
pos(k) == IF oldest + k < Capacity THEN oldest + k ELSE oldest + k - Capacity

contents == [k \in 1 .. count |-> items[pos(k - 1)]]

Deque == INSTANCE BoundedDeque

-----------------------------------------------------------------------------
\* Types: both indices stay inside the array, whatever is called when empty,
\* full or right after a wrap (__i_inc and __i_dec, ringbuffer.hh:111-112).
TypeInv ==
    /\ items \in [Index -> Cell]
    /\ next \in Index
    /\ oldest \in Index
    /\ count \in 0 .. Capacity
    /\ ret \in Cell \cup {Void}

\* The redundant third number never drifts: the write position is always
\* `count' slots after the read position, through wraps, pushes to a full
\* buffer and pops at either end (ringbuffer.hh:34-61).
CountMatchesIndices == next = pos(count)

\* find() is true of exactly the values now in the buffer: never of one left
\* behind in a popped or overwritten slot, always of a live one, on an empty,
\* partly filled, wrapped or full buffer (ringbuffer.hh:66-79; "find(2) [must
\* be false]" after 2 was popped, test/_src/cont/ringbuffer/test.cpp:57).
FindsExactlyTheContents ==
    \A v \in Cell : find(v) <=> \E k \in 1 .. count : contents[k] = v

\* Every call does to the elements, and returns, what the same call of a
\* bounded deque does and returns.
ImplementsDeque == Deque!Spec
=============================================================================
