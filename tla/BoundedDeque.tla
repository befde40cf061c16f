---------------------------- MODULE BoundedDeque ----------------------------
(***************************************************************************)
(* What src/cont/ringbuffer.hh promises its user: a sequence of at most    *)
(* Capacity values that grows at its back, loses its oldest element when   *)
(* it is pushed to while full, and answers ErrorValue when asked for an    *)
(* element it does not have.  Nothing is said of how it is stored.         *)
(***************************************************************************)
EXTENDS Naturals, Sequences

CONSTANTS Capacity,   \* the largest number of elements
          Value,      \* what may be stored
          ErrorValue, \* the reply to a call that has no element to return
          Void        \* the "reply" of a call that returns nothing

VARIABLES contents,   \* the elements, oldest first
          ret         \* what the latest call returned

dequeVars == <<contents, ret>>

Init == contents = <<>> /\ ret = Void

Push(x) ==
    /\ contents' = IF Len(contents) = Capacity THEN Append(Tail(contents), x)
                                               ELSE Append(contents, x)
    /\ ret' = Void

\* Remove and return the oldest element.
PopFront ==
    \/ contents = <<>> /\ contents' = <<>> /\ ret' = ErrorValue
    \/ contents # <<>> /\ contents' = Tail(contents) /\ ret' = contents[1]

\* Remove and return the newest element.
PopBack ==
    \/ contents = <<>> /\ contents' = <<>> /\ ret' = ErrorValue
    \/ /\ contents # <<>>
       /\ contents' = SubSeq(contents, 1, Len(contents) - 1)
       /\ ret' = contents[Len(contents)]

PeekFront ==
    /\ ret' = IF contents = <<>> THEN ErrorValue ELSE contents[1]
    /\ UNCHANGED contents

PeekBack ==
    /\ ret' = IF contents = <<>> THEN ErrorValue ELSE contents[Len(contents)]
    /\ UNCHANGED contents

Clear == contents' = <<>> /\ ret' = Void

Next == (\E x \in Value : Push(x)) \/ PopFront \/ PopBack \/ PeekFront \/ PeekBack \/ Clear

Spec == Init /\ [][Next]_dequeVars
=============================================================================
