------------------------------- MODULE Counters -------------------------------
(***************************************************************************)
(* The counters of src/stats/counter.hh over an unsigned type: a plain     *)
(* one, one with a cap, and one that tells of its overflows.  A client     *)
(* makes the same calls on all three.                                      *)
(***************************************************************************)
EXTENDS Integers

CONSTANTS Cycle,      \* values of CountType: 2^bits
          MaxTotal    \* bound: the calls of ++ that outnumber --, or are outnumbered

ASSUME CycleAssumption == Cycle \in Nat \ {0, 1}
ASSUME MaxTotalAssumption == MaxTotal \in Nat

CountType == 0..(Cycle - 1)

VARIABLES count,                  \* Counter
          capped, limit,          \* CappedCounter
          guarded, overflowed,    \* GuardedCounter
          results,                \* by the latest ++ or --, of each counter
          total,                  \* history: what an unlimited counter would say,
          carries,                \* the calls of on_overflow(), less the -- at 0,
          beyond                  \* and whether something but ++ exceeded the cap
countersVars == <<count, capped, limit, guarded, overflowed, results, total, carries, beyond>>

CountersInit ==
    /\ \E from \in CountType : count = from /\ capped = from /\ guarded = from /\ total = from
    /\ limit \in CountType
    /\ overflowed = FALSE /\ carries = 0
    /\ results = <<count, capped, guarded>>
    /\ beyond = (capped > limit)

inc(n) == (n + 1) % Cycle
dec(n) == (n - 1) % Cycle

maxed == capped = limit

\* A faulty variant: the last value is taken for an overflow.
guard_early(new) ==
    IF guarded > new \/ inc(new) = 0 THEN carries' = carries + 1 /\ overflowed' \in BOOLEAN
                                    ELSE UNCHANGED <<carries, overflowed>>

\* _guarded_inc(): the callback may clear the flag, as it is expected to, or not.
guard(new) ==
    IF guarded > new THEN carries' = carries + 1 /\ overflowed' \in BOOLEAN
                     ELSE UNCHANGED <<carries, overflowed>>

capped_inc == IF maxed THEN capped ELSE inc(capped)

\* operator++(int) returns the new count, operator++() the old one.
increment(postfix) ==
    /\ total < MaxTotal /\ total' = total + 1
    /\ count' = inc(count) /\ capped' = capped_inc /\ guarded' = inc(guarded)
    /\ guard(guarded')
    /\ results' = IF postfix THEN <<count', capped', guarded'>> ELSE <<count, capped, guarded>>
    /\ beyond' = (beyond /\ capped' > limit)
    /\ UNCHANGED limit

\* operator--, of the base class for all three.
decrement(postfix) ==
    /\ total > -MaxTotal /\ total' = total - 1
    /\ count' = dec(count) /\ capped' = dec(capped) /\ guarded' = dec(guarded)
    /\ carries' = carries - (IF guarded = 0 THEN 1 ELSE 0)
    /\ results' = IF postfix THEN <<count', capped', guarded'>> ELSE <<count, capped, guarded>>
    /\ beyond' = (capped' > limit)
    /\ UNCHANGED <<limit, overflowed>>

\* set(), reset() and the assignments
set(n) ==
    /\ count' = n /\ capped' = n /\ guarded' = n
    /\ total' = n /\ carries' = 0
    /\ beyond' = (n > limit)
    /\ UNCHANGED <<limit, overflowed, results>>

\* CappedCounter::max(n)
max(n) ==
    /\ limit' = n
    /\ beyond' = (capped > n)
    /\ UNCHANGED <<count, capped, guarded, overflowed, results, total, carries>>

CountersNext ==
    \/ \E postfix \in BOOLEAN : increment(postfix) \/ decrement(postfix)
    \/ \E n \in CountType : set(n) \/ max(n)

CountersSpec == CountersInit /\ [][CountersNext]_countersVars

-----------------------------------------------------------------------------
\* With its callbacks counted, a guarded counter has no limit: what is lost to
\* the wrapping is told, each overflow once, however ++, -- and assignments mix.
\* A -- below 0 tells nothing (counter.hh:32-33).
OverflowsTold == total = carries * Cycle + guarded

\* ++ never takes a capped counter over its limit, even where the limit is the
\* last value of the type, unless somebody else did: a set(), max() or --
\* ("Stops at the max. val. on ++ ... The other modifiers aren't checked",
\* counter.hh:45-46).
CapHolds == ~beyond => capped <= limit

\* The plain and the guarded counter are interchangeable: for the same calls, they
\* count the same and return the same, in prefix and postfix, across overflows.
CountersAgree == count = guarded /\ results[1] = results[3]
\* What the counters promise, over a type that wraps.
CountersTell == OverflowsTold /\ CapHolds /\ CountersAgree
=============================================================================
