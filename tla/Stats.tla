-------------------------------- MODULE Stats --------------------------------
(***************************************************************************)
(* The collectors of src/stats/collect.hh and rolling_average.hh, fed with *)
(* the same samples.  Samples are even numbers; numbers are exact, as the  *)
(* samples and the retention factor (1/2) are chosen to be, and smoothed   *)
(* values are scaled by 2^MaxSamples.                                      *)
(***************************************************************************)
EXTENDS Integers, Sequences, SequencesExt, FiniteSetsExt, Powers

CONSTANTS Sample,          \* even numbers
          MAX_SAMPLES,     \* of RollingAverage
          MaxSamples,      \* bound: samples since the start
          initial,         \* of FastSmoothRollingAverage
          Limit            \* numeric_limits<T>::max()

ASSUME SampleAssumption == \A x \in Sample \cup {initial} : x \in Int /\ x % 2 = 0
ASSUME SizeAssumption == MAX_SAMPLES \in Nat \ {0} /\ MaxSamples \in Nat
ASSUME LimitAssumption == Limit \in Nat /\ \A x \in Sample : -Limit <= x /\ x <= Limit

Scale == pow2[MaxSamples]
abs(x) == IF x < 0 THEN -x ELSE x

VARIABLES integral,               \* whether T of last_total_min_max is an integer
          collected,              \* last_total_min_max
          samples, sum, tail,     \* RollingAverage
          smooth,                 \* SmoothRollingAverage: {} is unset, or {value}
          fast,                   \* FastSmoothRollingAverage
          seen,                   \* history: all samples
          resets                  \* history: samples seen at the latest reset() of
                                  \* the collector, and of the smoothed averages
statsVars == <<integral, collected, samples, sum, tail, smooth, fast, seen, resets>>

\* The largest of no samples: numeric_limits<T>::min(), which for an integer is
\* the lowest value, and for a floating-point type the smallest above 0.
least == IF integral THEN -Limit ELSE 1

Fresh == [samples |-> 0, last_delta |-> 0, total |-> 0,
          min |-> Limit, max |-> least, umin |-> Limit, umax |-> 0]

StatsInit ==
    /\ integral \in BOOLEAN
    /\ collected = Fresh
    /\ samples = [i \in 0..(MAX_SAMPLES - 1) |-> 0] /\ sum = 0 /\ tail = 0
    /\ smooth = {} /\ fast = initial * Scale
    /\ seen = <<>> /\ resets = [collector |-> 0, averages |-> 0]

\* last_total_min_max::update()
collect(x) ==
    [collected EXCEPT !.samples = @ + 1, !.last_delta = x, !.total = @ + x,
                      !.min = IF x < @ THEN x ELSE @, !.max = IF x > @ THEN x ELSE @,
                      !.umin = IF abs(x) < @ THEN abs(x) ELSE @,
                      !.umax = IF abs(x) > @ THEN abs(x) ELSE @]

\* A faulty variant: the slot after the one that is overwritten is subtracted.
roll_next(x) ==
    /\ sum' = sum + x - samples[(tail + 1) % MAX_SAMPLES]
    /\ samples' = [samples EXCEPT ![tail] = x]
    /\ tail' = (tail + 1) % MAX_SAMPLES

\* RollingAverage::update()
roll(x) ==
    /\ sum' = sum + x - samples[tail]
    /\ samples' = [samples EXCEPT ![tail] = x]
    /\ tail' = (tail + 1) % MAX_SAMPLES

\* SmoothRollingAverage::update()
primed(x) == IF smooth = {} THEN {x * Scale} ELSE {(v + x * Scale) \div 2 : v \in smooth}

\* FastSmoothRollingAverage::update()
biased(x) == (fast + x * Scale) \div 2

update(x) ==
    /\ Len(seen) < MaxSamples
    /\ collected' = collect(x)
    /\ roll(x)
    /\ smooth' = primed(x) /\ fast' = biased(x)
    /\ seen' = Append(seen, x)
    /\ UNCHANGED <<integral, resets>>

\* last_total_min_max::reset()
reset_collector ==
    /\ collected' = Fresh
    /\ resets' = [resets EXCEPT !.collector = Len(seen)]
    /\ UNCHANGED <<integral, samples, sum, tail, smooth, fast, seen>>

\* The values of the smoothed averages are set back, as they "can be reset freely".
restart ==
    /\ smooth' = {} /\ fast' = initial * Scale
    /\ resets' = [resets EXCEPT !.averages = Len(seen)]
    /\ UNCHANGED <<integral, collected, samples, sum, tail, seen>>

\* The queries, for an integer (TargetT): cut towards zero.
cut_off(n, d) == IF n < 0 THEN -((-n) \div d) ELSE n \div d
average == cut_off(sum, MAX_SAMPLES)
smooth_average == {cut_off(v, Scale) : v \in smooth}
fast_average == cut_off(fast, Scale)

StatsNext == reset_collector \/ restart \/ \E x \in Sample : update(x)

StatsSpec == StatsInit /\ [][StatsNext]_statsVars

-----------------------------------------------------------------------------
Since(n) == SubSeq(seen, n + 1, Len(seen))
SumOf(s) == FoldLeft(+, 0, s)
Window == SubSeq(seen, IF Len(seen) > MAX_SAMPLES THEN Len(seen) - MAX_SAMPLES + 1 ELSE 1, Len(seen))

\* The collector tells total, number and extremes of the samples since its reset,
\* except that the maximum of a floating-point one is wrong while there is no
\* sample above 0.
CollectorTells ==
    LET s == Since(resets.collector)
        X == ToSet(s)
        U == {abs(x) : x \in X}
    IN  /\ collected.samples = Len(s) /\ collected.total = SumOf(s)
        /\ s # <<>> =>
               /\ collected.last_delta = Last(s)
               /\ collected.min = Min(X) /\ collected.umin = Min(U) /\ collected.umax = Max(U)
               /\ integral \/ Max(X) > 0 => collected.max = Max(X)

\* The rolling sum, kept by adding and subtracting, is that of the last
\* MAX_SAMPLES samples, those from before the start counting as 0 ("initial
\* results are incorrect during ramp-up", rolling_average.hh:65).
WindowSum == sum = SumOf(Window)

\* The self-priming average is the biased one with the first sample as initial
\* value; the pull of another initial value is halved with every sample
\* (rolling_average.hh:143-150).  Before the first sample, it is unset.
PullDiminishes ==
    LET s == Since(resets.averages)
    IN  IF s = <<>> THEN smooth = {} /\ fast = initial * Scale
        ELSE smooth = {fast - (initial - Head(s)) * (Scale \div pow2[Len(s)])}

\* No average leaves the range of the samples (and the initial value; for the window, of
\* the 0s it begins with), nor does what it is rounded to.
AveragesInRange ==
    LET X == ToSet(Since(resets.averages))
        W == ToSet(Window) \cup (IF Len(seen) < MAX_SAMPLES THEN {0} ELSE {})
    IN  /\ Min(W) <= average /\ average <= Max(W)
        /\ X # {} =>
            /\ \A v \in smooth : Min(X) * Scale <= v /\ v <= Max(X) * Scale
            /\ Min(X \cup {initial}) * Scale <= fast /\ fast <= Max(X \cup {initial}) * Scale
            /\ \A n \in smooth_average : Min(X) <= n /\ n <= Max(X)
            /\ Min(X \cup {initial}) <= fast_average /\ fast_average <= Max(X \cup {initial})
\* What is kept sample by sample is what the samples in question give.
StatsTell == CollectorTells /\ WindowSum /\ PullDiminishes /\ AveragesInRange
=============================================================================
