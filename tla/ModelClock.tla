------------------------------ MODULE ModelClock ------------------------------
(***************************************************************************)
(* The self-advancing "analog" clock of src/time.hh (model_clock): its     *)
(* time is a floating-point number, to which every now() adds the chronon, *)
(* the epsilon of the type unless DEBUG is defined (time.hh:425-429), as   *)
(* it is not here.  Times are counted in the smallest positive number of   *)
(* the type, of which a chronon is 2^Fine, so that every finite number can *)
(* be told: one with a significand of Precision bits is a multiple of a    *)
(* power of two, its ulp, and 1.0 is 2^(Precision - 1) chronons.           *)
(***************************************************************************)
EXTENDS Powers

CONSTANTS Precision,
          Fine,       \* 1022 for a double
          Deltas,     \* the arguments given to advance(delta)
          MaxElapsed  \* bound: the time that is modelled

ASSUME PrecisionAssumption == Precision \in Nat \ {0} /\ Fine \in Nat
ASSUME DeltaAssumption == Deltas \subseteq Nat /\ MaxElapsed \in Nat

VARIABLES time,       \* t_, and what now() returns after it advanced it
          added,      \* history: the exact sum of all that was added
          whole       \* history: all that was added were whole chronons

modelVars == <<time, added, whole>>

Chronon == pow2[Fine]
Two == pow2[Precision + Fine]

\* The distance of the representable numbers around v.
ulp(v) == pow2[CHOOSE k \in 0 .. v : v < pow2[Precision + k]
                                     /\ \A j \in 0 .. k - 1 : v >= pow2[Precision + j]]

\* To the nearest representable number, a tie to the one with an even
\* significand: what `t += delta' stores.
Round(v) ==
    LET u     == ulp(v)
        below == u * (v \div u)
        tie   == 2 * (v - below) = u
        even  == (v \div u) % 2 = 0
    IN  IF 2 * (v - below) < u \/ (tie /\ even) THEN below ELSE below + u

\* The arguments are numbers of the type themselves.
ASSUME ArgumentAssumption == \A delta \in Deltas : delta % ulp(delta) = 0

\* A faulty variant: the time is set to, not moved by, delta.
add_assigning(delta) ==
    /\ added + delta <= MaxElapsed
    /\ time' = Round(delta)
    /\ added' = added + delta /\ whole' = (whole /\ delta % Chronon = 0)

add(delta) ==
    /\ added + delta <= MaxElapsed
    /\ time' = Round(time + delta)
    /\ added' = added + delta /\ whole' = (whole /\ delta % Chronon = 0)

ModelInit == time = 0 /\ added = 0 /\ whole = TRUE

\* now()
model_now == add(Chronon)

\* advance(delta), fractions of a chronon included.  Negative arguments, which the type
\* accepts, too, are left out.
model_advance(delta) == add(delta)

ModelNext == model_now \/ \E delta \in Deltas : model_advance(delta)

ModelSpec == ModelInit /\ [][ModelNext]_modelVars

-----------------------------------------------------------------------------
\* Types: the time is a number that the type can represent.
ModelTypeInv ==
    /\ time \in Nat /\ time % ulp(time) = 0
    /\ added \in 0 .. MaxElapsed /\ whole \in BOOLEAN

\* As long as it is advanced by now() and by whole chronons, and below 2.0, no addition
\* loses anything: the clock is exact, however reads and advances are mixed.  (Fractions of
\* a chronon are rounded as soon as the time is too large for them.)
ExactBelowTwo == whole /\ added < Two => time = added

\* Below 2.0 every now() advances the clock, whatever it was advanced by before, although
\* the sum is rounded.
AdvancesBelowTwo == [][model_now /\ time < Two => time < time']_modelVars

\* The clock never goes back, rounding included: what holds of "Strictly
\* monotonic" (time.hh:450) everywhere.
NeverGoesBack == [][time' >= time]_modelVars

\* Types, and what a self-advancing clock promises at any time.
TimeIsKept == [](ModelTypeInv /\ ExactBelowTwo) /\ AdvancesBelowTwo /\ NeverGoesBack

-----------------------------------------------------------------------------
\* "Strictly monotonic" (time.hh:450, `strictly_monotonic = true' at 423), which
\* test/time.case/time.cpp:107 tests as _t1 < _t2 for two now() in a row.
StrictlyMonotonic == [][model_now => time < time']_modelVars
=============================================================================
