------------------------------ MODULE TickClocks ------------------------------
(***************************************************************************)
(* The wrapping tick counters of src/time.hh (tick_clock) and the clocks   *)
(* chained to one: every clock but the source reads another one, through a *)
(* transformation, and converts what it gets to its own unsigned type.     *)
(* Reading a clock advances the source of the whole chain.                 *)
(*                                                                         *)
(* A client takes a time point of one clock and later asks that clock how  *)
(* much time has passed.  `age' is the true answer, in steps of the source.*)
(***************************************************************************)
EXTENDS Integers, FiniteSets

CONSTANTS Clock, source,
          Upstream,   \* the clock that each other clock reads
          Modulus,    \* the number of values of each clock's type
          IntValues,  \* of types with fewer values than that, a product is an int
          Factor,     \* what its transformation multiplies by: Identity, Scale_x2
          Delta,      \* the arguments given to advance(delta)
          None,       \* no result, no measurement
          MaxAge      \* bound: source steps in one measurement

Chained == Clock \ {source}

ASSUME ClockAssumption ==
    /\ source \in Clock /\ None \notin Clock
    /\ Upstream \in [Chained -> Clock]
    /\ Modulus \in [Clock -> Nat \ {0}]
    /\ Factor \in [Chained -> Nat \ {0}]
    /\ Delta \subseteq Nat /\ MaxAge \in Nat /\ IntValues \in Nat

\* A clock reads one that was declared before it, and its transformation does not
\* overflow an int.
ASSUME ChainAssumption ==
    /\ IsFiniteSet(Clock)
    /\ \E depth \in [Clock -> 0 .. Cardinality(Clock)] : \A c \in Chained : depth[c] = depth[Upstream[c]] + 1
    /\ \A c \in Chained : Modulus[Upstream[c]] < IntValues => Factor[c] * (Modulus[Upstream[c]] - 1) < IntValues

VARIABLES t_,         \* t_ of each clock; now() looks at that of the source only
          measured,   \* the clock the client measures with
          earlier,    \* its time point
          age,        \* history: source steps since then
          span        \* what the latest since() returned

ticksVars == <<t_, measured, earlier, age, span>>

TicksInit ==
    /\ t_ = [c \in Clock |-> 0]
    /\ measured = None /\ earlier = 0 /\ age = 0
    /\ span = None

Wrap(c, n) == n % Modulus[c]

\* The transformation of c, in the type of what it reads, promoted if it is small.
Promoted(c) == Modulus[Upstream[c]] < IntValues
transformed(c, n) == IF Promoted(c) THEN Factor[c] * n ELSE Wrap(Upstream[c], Factor[c] * n)

\* A faulty variant: the transformation is forgotten.
reading_untransformed(ticks) ==
    LET r[c \in Clock] == IF c = source THEN ticks ELSE Wrap(c, r[Upstream[c]])
    IN  r

\* What now() returns, down the chain, when the source stands at `ticks'.
reading(ticks) ==
    LET r[c \in Clock] == IF c = source THEN ticks
                          ELSE Wrap(c, transformed(c, r[Upstream[c]]))
    IN  r

\* How far a clock moves for one step of the source.
scale == LET s[c \in Clock] == IF c = source THEN 1 ELSE Factor[c] * s[Upstream[c]] IN s

\* A subtraction in the unsigned type.
since_of(c, later, before) == Wrap(c, later - before)

ticked == Wrap(source, t_[source] + 1)

\* The bound: a measurement is no longer than MaxAge.
Ages(n) == IF measured = None THEN age' = 0 ELSE age + n <= MaxAge /\ age' = age + n

now(c) ==
    /\ t_' = [t_ EXCEPT ![source] = ticked]
    /\ \/ Ages(1) /\ span' = None /\ UNCHANGED <<measured, earlier>>
       \* the client keeps the time point
       \/ measured' = c /\ earlier' = reading(ticked)[c] /\ age' = 0 /\ span' = None

since(c) ==
    /\ measured = c
    /\ t_' = [t_ EXCEPT ![source] = ticked]
    /\ Ages(1)
    /\ span' = since_of(c, reading(ticked)[c], earlier)
    /\ UNCHANGED <<measured, earlier>>

\* advance(delta): of the source, or of a chained clock, whose now() never
\* looks at its t_ count.
advance(c, delta) ==
    /\ t_' = [t_ EXCEPT ![c] = Wrap(c, @ + delta)]
    /\ IF c = source THEN Ages(delta) ELSE UNCHANGED age
    /\ span' = None
    /\ UNCHANGED <<measured, earlier>>

TicksNext ==
    \E c \in Clock :
        \/ now(c)
        \/ since(c)
        \/ \E delta \in Delta : advance(c, delta)

TicksSpec == TicksInit /\ [][TicksNext]_ticksVars

-----------------------------------------------------------------------------
\* Types: a count, and a time point, is a value of its clock's type.
TicksTypeInv ==
    /\ t_ \in [Clock -> Nat] /\ \A c \in Clock : t_[c] < Modulus[c]
    /\ measured \in Clock \cup {None}
    /\ measured # None => earlier \in 0 .. Modulus[measured] - 1
    /\ age \in 0 .. MaxAge
    /\ span # None => span \in 0 .. Modulus[measured] - 1

\* The time span to be measured, in units of the measuring clock.
elapsed == scale[measured] * age

\* since() is right across a wraparound, of the clock itself or of any clock
\* upstream of it, whoever else read a clock of the chain in the meantime, if
\* the measured time is shorter than a cycle ("intervals must be < 2^32",
\* time.hh:40-41).
ShortSpansCorrect ==
    span # None /\ elapsed < Modulus[measured] => span = elapsed

\* Spans are right, and within their type.
SpansAreRight == TicksTypeInv /\ ShortSpansCorrect
=============================================================================
