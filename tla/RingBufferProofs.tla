-------------------------- MODULE RingBufferProofs --------------------------
(***************************************************************************)
(* For every capacity and every value set: the indices of the ring buffer  *)
(* stay in the array, the element count agrees with them, find() finds the *)
(* elements and no leftover, and the ring buffer implements the deque.     *)
(***************************************************************************)
EXTENDS RingBuffer_Static_Int, SequenceTheorems, Inductions, TLAPS

RingInv == TypeInv /\ CountMatchesIndices

LEMMA RingInit == Init => RingInv
BY CapacityAssumption DEF Init, RingInv, TypeInv, CountMatchesIndices, Index, Cell, pos

LEMMA RingNext == RingInv /\ [Next]_vars => RingInv'
<1> SUFFICES ASSUME RingInv, [Next]_vars
             PROVE  RingInv'
  OBVIOUS
<1> USE CapacityAssumption DEF RingInv, TypeInv, CountMatchesIndices, Index, Cell,
                               pos, full, empty, i_inc, i_dec
<1>1. ASSUME NEW x \in Value, push_back(x)
      PROVE  RingInv'
  BY <1>1 DEF push_back
<1>2. CASE pop_front
  BY <1>2 DEF pop_front
<1>3. CASE pop_back
  BY <1>3 DEF pop_back
<1>4. CASE front
  BY <1>4 DEF front
<1>5. CASE back
  BY <1>5 DEF back, i_back
<1>6. CASE clear
  BY <1>6 DEF clear
<1>7. CASE UNCHANGED vars
  BY <1>7 DEF vars
<1>8. QED
  BY <1>1, <1>2, <1>3, <1>4, <1>5, <1>6, <1>7 DEF Next

\* Whatever the capacity, no sequence of calls moves an index out of the array
\* or lets the element count drift from the two indices.
THEOREM RingSafety == Spec => [](TypeInv /\ CountMatchesIndices)
BY RingInit, RingNext, PTL DEF Spec, RingInv

-----------------------------------------------------------------------------
(* The walk of find() passes the elements in order, and then the free slots. *)

LEMMA Walking ==
  ASSUME RingInv
  PROVE  walk[0] = oldest /\ \A k \in Nat : walk[k + 1] = i_inc(walk[k])
<1> DEFINE Step == [n \in Nat |-> [i \in Index |-> i_inc(i)]]
           Body(w) == [k \in Nat |-> IF k = 0 THEN oldest ELSE i_inc(w[k - 1])]
<1>1. oldest \in Index /\ Step \in [Nat -> [Index -> Index]]
  BY CapacityAssumption DEF RingInv, TypeInv, Index, i_inc
<1>2. \E w : w = Body(w)
  <2>1. PICK w \in [Nat -> Index] : w[0] = oldest /\ \A n \in Nat : w[n + 1] = Step[n][w[n]]
    <3>1. \A d \in Index : \A F \in [Nat -> [Index -> Index]] :
              \E w \in [Nat -> Index] : w[0] = d /\ \A n \in Nat : w[n + 1] = F[n][w[n]]
      BY NatRecursion
    <3> HIDE DEF Step
    <3> QED
      BY <1>1, <3>1
  <2>2. ASSUME NEW k \in Nat PROVE w[k] = IF k = 0 THEN oldest ELSE i_inc(w[k - 1])
    <3>1. CASE k = 0
      BY <2>1, <3>1
    <3>2. CASE k # 0
      <4>1. k - 1 \in Nat /\ (k - 1) + 1 = k
        BY <3>2
      <4>2. w[k] = Step[k - 1][w[k - 1]] /\ w[k - 1] \in Index
        BY <2>1, <4>1
      <4> QED
        BY <3>2, <4>1, <4>2
    <3> QED
      BY <3>1, <3>2
  <2>3. w = [k \in Nat |-> w[k]]
    BY <2>1
  <2> QED
    BY <2>2, <2>3
<1>3. walk = Body(walk)
  <2>1. walk = CHOOSE w : w = Body(w)
    BY DEF walk
  <2> HIDE DEF Body
  <2> QED
    BY <1>2, <2>1
<1>4. \A k \in Nat : walk[k] = IF k = 0 THEN oldest ELSE i_inc(walk[k - 1])
  <2>1. \A k \in Nat : Body(walk)[k] = IF k = 0 THEN oldest ELSE i_inc(walk[k - 1])
    OBVIOUS
  <2> HIDE DEF Body
  <2> QED
    BY <1>3, <2>1
<1> HIDE DEF Body, Step
<1>5. ASSUME NEW k \in Nat PROVE walk[k + 1] = i_inc(walk[k])
  <2>1. k + 1 \in Nat /\ k + 1 # 0 /\ (k + 1) - 1 = k
    OBVIOUS
  <2> QED
    BY <1>4, <2>1
<1> QED
  BY <1>4, <1>5

LEMMA WalkInOrder ==
  ASSUME RingInv
  PROVE  \A k \in 0 .. Capacity - 1 : walk[k] = pos(k)
<1> DEFINE S == {k \in Nat : k < Capacity => walk[k] = pos(k)}
<1>0. Capacity \in Nat \ {0} /\ oldest \in 0 .. Capacity - 1
  BY CapacityAssumption DEF RingInv, TypeInv, Index
<1>1. 0 \in S
  BY <1>0, Walking DEF pos
<1>2. ASSUME NEW k \in Nat, k \in S PROVE k + 1 \in S
  BY <1>0, <1>2, Walking DEF pos, i_inc
<1>3. Nat \subseteq S
  <2> HIDE DEF S
  <2> QED BY <1>1, <1>2, NaturalsFrom
<1> QED
  BY <1>0, <1>3

\* Whatever the capacity and the history, find() is true of the elements and of
\* nothing that was popped, overwritten or never initialised.
THEOREM FindIsExact == Spec => []FindsExactlyTheContents
<1>1. RingInv => FindsExactlyTheContents
  <2> SUFFICES ASSUME RingInv, NEW v \in Cell
               PROVE  find(v) <=> \E k \in 1 .. count : contents[k] = v
    BY DEF FindsExactlyTheContents
  <2>0. /\ Capacity \in Nat \ {0} /\ oldest \in 0 .. Capacity - 1
        /\ count \in 0 .. Capacity /\ next = pos(count)
    BY CapacityAssumption DEF RingInv, TypeInv, Index, CountMatchesIndices
  <2>1. \A j \in 1 .. Capacity - 1 : walk[j] = next <=> j = count
    BY <2>0, WalkInOrder DEF pos
  <2>2. find(v) <=> \E k \in 0 .. count - 1 : items[walk[k]] = v
    <3>1. ASSUME NEW k \in 0 .. Capacity - 1
          PROVE  (~empty /\ \A j \in 1 .. k : walk[j] # next) <=> k \in 0 .. count - 1
      BY <2>0, <2>1 DEF empty
    <3>2. 0 .. count - 1 \subseteq 0 .. Capacity - 1
      BY <2>0
    <3> QED
      BY <3>1, <3>2 DEF find
  <2>3. \A k \in 0 .. count - 1 : k + 1 \in 1 .. count /\ contents[k + 1] = items[walk[k]]
    BY <2>0, WalkInOrder DEF contents
  <2>4. \A k \in 1 .. count : k - 1 \in 0 .. count - 1 /\ contents[k] = items[walk[k - 1]]
    BY <2>0, WalkInOrder DEF contents
  <2> QED
    BY <2>2, <2>3, <2>4
<1> QED
  BY <1>1, RingSafety, PTL DEF RingInv

-----------------------------------------------------------------------------
(* Refinement: each call of the ring buffer is the same call of the deque. *)

ContentsView ==
    /\ contents \in Seq(Cell)
    /\ Len(contents) = count
    /\ \A k \in 1 .. count : contents[k] = items[pos(k - 1)]

LEMMA ContentsSeq == RingInv => ContentsView
<1> SUFFICES ASSUME RingInv
             PROVE  ContentsView
  OBVIOUS
<1>1. \A k \in 1 .. count : pos(k - 1) \in Index
  BY CapacityAssumption DEF RingInv, TypeInv, Index, pos
<1>2. contents \in [1 .. count -> Cell]
  BY <1>1 DEF contents, RingInv, TypeInv
<1> QED
  BY <1>2 DEF ContentsView, contents, RingInv, TypeInv

LEMMA ContentsSeqNext == RingInv' => ContentsView'
BY ContentsSeq, PTL

\* A push to a full buffer drops the oldest element and appends, one to a
\* buffer with room appends.
LEMMA PushSimulation ==
  ASSUME RingInv, RingInv', NEW x \in Value, push_back(x)
  PROVE  Deque!Push(x)
<1> USE CapacityAssumption
<1>s. /\ contents \in Seq(Cell) /\ Len(contents) = count /\ count \in 0 .. Capacity
      /\ contents' \in Seq(Cell) /\ Len(contents') = count'
  BY ContentsSeq, ContentsSeqNext DEF ContentsView, RingInv, TypeInv
<1>1. CASE full
  <2> DEFINE dropped == Append(Tail(contents), x)
  <2>1. \A k \in 1 .. count' :
          contents'[k] = IF k < count THEN contents[k + 1] ELSE x
    BY <1>1, ContentsSeq DEF ContentsView, push_back, contents, RingInv, TypeInv, CountMatchesIndices,
                             Index, pos, full, i_inc
  <2>2. /\ Tail(contents) \in Seq(Cell) /\ Len(Tail(contents)) = count - 1
        /\ \A k \in 1 .. count - 1 : Tail(contents)[k] = contents[k + 1]
    BY <1>1, <1>s, HeadTailProperties, EmptySeq DEF full
  <2>3. /\ dropped \in Seq(Cell) /\ Len(dropped) = count
        /\ \A k \in 1 .. count : dropped[k] = IF k < count THEN contents[k + 1] ELSE x
    BY <1>1, <1>s, <2>2 DEF full, Cell
  <2>4. count' = count
    BY <1>1 DEF push_back
  <2>5. contents' = dropped
    BY <1>s, <2>1, <2>3, <2>4, SeqEqual
  <2> QED
    BY <1>1, <1>s, <2>5 DEF push_back, Deque!Push, full
<1>2. CASE ~full
  <2> DEFINE longer == Append(contents, x)
  <2>1. \A k \in 1 .. count' :
          contents'[k] = IF k <= count THEN contents[k] ELSE x
    BY <1>2, ContentsSeq DEF ContentsView, push_back, contents, RingInv, TypeInv, CountMatchesIndices,
                             Index, pos, full, i_inc
  <2>2. /\ longer \in Seq(Cell) /\ Len(longer) = count + 1
        /\ \A k \in 1 .. count + 1 : longer[k] = IF k <= count THEN contents[k] ELSE x
    BY <1>s DEF Cell
  <2>3. count' = count + 1
    BY <1>2 DEF push_back
  <2>4. contents' = longer
    BY <1>s, <2>1, <2>2, <2>3, SeqEqual
  <2> QED
    BY <1>2, <1>s, <2>4 DEF push_back, Deque!Push, full
<1> QED
  BY <1>1, <1>2

LEMMA PopFrontSimulation ==
  ASSUME RingInv, RingInv', pop_front
  PROVE  Deque!PopFront
<1> USE CapacityAssumption
<1>s. /\ contents \in Seq(Cell) /\ Len(contents) = count /\ count \in 0 .. Capacity
      /\ contents' \in Seq(Cell) /\ Len(contents') = count'
  BY ContentsSeq, ContentsSeqNext DEF ContentsView, RingInv, TypeInv
<1>1. CASE empty
  BY <1>1, <1>s, EmptySeq DEF pop_front, Deque!PopFront, empty
<1>2. CASE ~empty
  <2>1. /\ Tail(contents) \in Seq(Cell) /\ Len(Tail(contents)) = count - 1
        /\ \A k \in 1 .. count - 1 : Tail(contents)[k] = contents[k + 1]
    BY <1>2, <1>s, HeadTailProperties, EmptySeq DEF empty
  <2>2. count' = count - 1
    BY <1>2 DEF pop_front
  <2>3. ASSUME NEW k \in 1 .. count'
        PROVE  contents'[k] = contents[k + 1]
    <3>1. k \in Nat /\ k >= 1 /\ k <= count - 1 /\ count \in Nat
      BY <1>s, <2>2
    <3>2. (pos(k - 1))' = pos(k)
      <4>1. oldest' = IF oldest < Capacity - 1 THEN oldest + 1 ELSE 0
        BY <1>2 DEF pop_front, i_inc
      <4>2. oldest \in 0 .. Capacity - 1 /\ k < Capacity
        BY <1>s, <3>1 DEF RingInv, TypeInv, Index
      <4>3. (pos(k - 1))' = IF oldest' + (k - 1) < Capacity
                            THEN oldest' + (k - 1) ELSE oldest' + (k - 1) - Capacity
        BY DEF pos
      <4> QED
        BY <3>1, <4>1, <4>2, <4>3 DEF pos
    <3>3. contents'[k] = items[pos(k)]
      BY <1>2, <3>2, ContentsSeqNext DEF ContentsView, pop_front
    <3>4. contents[k + 1] = items[pos(k)]
      BY <3>1, ContentsSeq, k + 1 \in 1 .. count, (k + 1) - 1 = k DEF ContentsView
    <3> QED
      BY <3>3, <3>4
  <2>4. contents' = Tail(contents)
    BY <1>s, <2>1, <2>2, <2>3, SeqEqual
  <2>5. ret' = contents[1]
    BY <1>2, ContentsSeq DEF ContentsView, pop_front, RingInv, TypeInv, Index, pos, empty
  <2> QED
    BY <1>2, <1>s, <2>4, <2>5, EmptySeq DEF Deque!PopFront, empty
<1> QED
  BY <1>1, <1>2

LEMMA PopBackSimulation ==
  ASSUME RingInv, RingInv', pop_back
  PROVE  Deque!PopBack
<1> USE CapacityAssumption
<1>s. /\ contents \in Seq(Cell) /\ Len(contents) = count /\ count \in 0 .. Capacity
      /\ contents' \in Seq(Cell) /\ Len(contents') = count'
  BY ContentsSeq, ContentsSeqNext DEF ContentsView, RingInv, TypeInv
<1>1. CASE empty
  BY <1>1, <1>s, EmptySeq DEF pop_back, Deque!PopBack, empty
<1>2. CASE ~empty
  <2> DEFINE shorter == SubSeq(contents, 1, count - 1)
  <2>1. /\ shorter \in Seq(Cell) /\ Len(shorter) = count - 1
        /\ \A k \in 1 .. count - 1 : shorter[k] = contents[k]
    BY <1>2, <1>s, SubSeqProperties DEF empty
  <2>2. count' = count - 1
    BY <1>2 DEF pop_back
  <2>3. ASSUME NEW k \in 1 .. count'
        PROVE  contents'[k] = contents[k]
    <3>1. k \in 1 .. count
      BY <1>s, <2>2
    <3>2. (pos(k - 1))' = pos(k - 1)
      BY <1>2 DEF pop_back, pos
    <3>3. contents'[k] = items[pos(k - 1)]
      BY <1>2, <3>2, ContentsSeqNext DEF ContentsView, pop_back
    <3> QED
      BY <3>1, <3>3, ContentsSeq DEF ContentsView
  <2>4. contents' = shorter
    BY <1>s, <2>1, <2>2, <2>3, SeqEqual
  <2>5. ret' = contents[count]
    <3>1. count \in 1 .. count
      BY <1>2, <1>s DEF empty
    <3>2. i_dec(next) = pos(count - 1)
      BY <1>2, <1>s DEF RingInv, TypeInv, CountMatchesIndices, Index, pos, i_dec, empty
    <3> QED
      BY <1>2, <3>1, <3>2, ContentsSeq DEF ContentsView, pop_back
  <2> QED
    BY <1>2, <1>s, <2>4, <2>5, EmptySeq DEF Deque!PopBack, empty
<1> QED
  BY <1>1, <1>2

LEMMA PeekSimulation ==
  ASSUME RingInv
  PROVE  /\ front => Deque!PeekFront
         /\ back  => Deque!PeekBack
<1>s. contents \in Seq(Cell) /\ Len(contents) = count /\ count \in 0 .. Capacity
  BY ContentsSeq DEF ContentsView, RingInv, TypeInv
<1>1. contents = <<>> <=> empty
  BY <1>s, EmptySeq DEF empty
<1>2. ~empty => contents[1] = items[oldest] /\ contents[count] = items[i_back]
  BY CapacityAssumption, ContentsSeq
  DEF ContentsView, empty, RingInv, TypeInv, CountMatchesIndices, Index, pos, i_back
<1>3. UNCHANGED <<items, next, oldest, count>> => contents' = contents
  BY DEF contents, pos
<1> QED
  BY <1>s, <1>1, <1>2, <1>3 DEF front, back, Deque!PeekFront, Deque!PeekBack

\* Whatever the capacity and the values, the ring buffer behaves as a bounded
\* deque: same elements in the same order, same replies.
THEOREM RingImplementsDeque == Spec => ImplementsDeque
<1>1. Init => Deque!Init
  <2> SUFFICES ASSUME Init PROVE Deque!Init
    OBVIOUS
  <2>1. contents \in Seq(Cell) /\ Len(contents) = 0
    BY RingInit, ContentsSeq DEF ContentsView, Init
  <2> QED
    BY <2>1, EmptySeq DEF Init, Deque!Init
<1>2. RingInv /\ RingInv' /\ [Next]_vars => [Deque!Next]_(Deque!dequeVars)
  <2> SUFFICES ASSUME RingInv, RingInv', [Next]_vars
               PROVE  [Deque!Next]_(Deque!dequeVars)
    OBVIOUS
  <2>1. ASSUME NEW x \in Value, push_back(x) PROVE Deque!Next
    BY <2>1, PushSimulation DEF Deque!Next
  <2>2. CASE pop_front
    BY <2>2, PopFrontSimulation DEF Deque!Next
  <2>3. CASE pop_back
    BY <2>3, PopBackSimulation DEF Deque!Next
  <2>4. CASE front
    BY <2>4, PeekSimulation DEF Deque!Next
  <2>5. CASE back
    BY <2>5, PeekSimulation DEF Deque!Next
  <2>6. CASE clear
    <3>1. contents' \in Seq(Cell) /\ Len(contents') = 0
      BY <2>6, ContentsSeqNext DEF ContentsView, clear
    <3> QED
      BY <2>6, <3>1, EmptySeq DEF clear, Deque!Clear, Deque!Next
  <2>7. CASE UNCHANGED vars
    BY <2>7 DEF vars, Deque!dequeVars, contents, pos
  <2> QED
    BY <2>1, <2>2, <2>3, <2>4, <2>5, <2>6, <2>7 DEF Next
<1> QED
  BY <1>1, <1>2, RingInit, RingNext, PTL DEF Spec, ImplementsDeque, Deque!Spec
=============================================================================
