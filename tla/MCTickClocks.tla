----------------------------- MODULE MCTickClocks -----------------------------
(* Chains of 2- to 4-bit clocks; an int has 4 bits.                        *)
EXTENDS TickClocks

CONSTANTS narrow, doubled, halfway, wide

\* The source counts to 8.  `narrow' has a smaller type, `doubled' reads twice
\* the source in a type that holds it, `halfway' reads twice `doubled', whose
\* product wraps, in a smaller type: that of none of them is wider than what it reads.
EvenClock    == {source, narrow, doubled, halfway}
EvenUpstream == [c \in {narrow, doubled, halfway} |-> IF c = halfway THEN doubled ELSE source]
EvenModulus  == [c \in EvenClock |-> IF c = source THEN 8 ELSE IF c = doubled THEN 16 ELSE 4]
EvenFactor   == [c \in {narrow, doubled, halfway} |-> IF c = narrow THEN 1 ELSE 2]

\* A chained clock with a wider type than its source, like the
\* tick_clock<unsigned> that reads a tick_clock<unsigned short> in
\* test/time.case/time.cpp:175.
WideClock    == {source, wide}
WideUpstream == [c \in {wide} |-> source]
WideModulus  == [c \in WideClock |-> IF c = source THEN 8 ELSE 16]
WideFactor   == [c \in {wide} |-> 1]
=============================================================================
