------------------------------ MODULE TestRunner ------------------------------
(***************************************************************************)
(* The unit-test runner of src/diag/test/runner.hh: batches of test cases, *)
(* each with its own counters, which its destructor adds to the counters   *)
(* of the thread.  A test subject may throw, and may itself use another    *)
(* batch, so that the cases being run form a stack.                        *)
(***************************************************************************)
EXTENDS Naturals, Sequences, FiniteSetsExt, Functions

CONSTANTS Batch,
          MaxCases      \* bound: calls of run() and skip() in one batch

ASSUME BoundAssumption == MaxCases \in Nat

VARIABLES life,         \* of each batch: unborn, alive, gone
          stop,         \* Stop_On_Failure
          no_summary,   \* No_Auto_Summary
          stats, reported,
          global_stats, \* of the thread
          running,      \* the batches whose subject is running, innermost last
          summary,      \* what the latest summary of each batch said
          happened      \* history: what became of the calls on each batch

vars == <<life, stop, no_summary, stats, reported, global_stats, running, summary, happened>>

\* A constructed Stats.
Zero == [cases_total |-> 0, cases_run |-> 0, cases_failed |-> 0,
         cases_skipped_explicitly |-> 0, cases_skipped_implicitly |-> 0]

cases_skipped(s) == s.cases_skipped_explicitly + s.cases_skipped_implicitly
ok(s) == s.cases_failed = 0

\* operator +=
added(s, r) == [field \in DOMAIN s |-> s[field] + r[field]]

\* run() was called and its subject is running, returned what was expected or
\* not, threw, or was not called; or skip() was called.
Outcome == {"started", "passed", "failed", "threw", "refused", "skipped"}
Nothing == [o \in Outcome |-> 0]

Init ==
    /\ life = [b \in Batch |-> "unborn"]
    /\ stop = [b \in Batch |-> FALSE]
    /\ no_summary = [b \in Batch |-> FALSE]
    /\ stats = [b \in Batch |-> Zero]
    /\ reported = [b \in Batch |-> FALSE]
    /\ global_stats = Zero
    /\ running = <<>>
    /\ summary = [b \in Batch |-> "none"]
    /\ happened = [b \in Batch |-> Nothing]

\* A subject does not use the batch that is running it.
Usable(b) == life[b] = "alive" /\ \A i \in DOMAIN running : running[i] # b

Happens(b, o) == happened' = [happened EXCEPT ![b][o] = @ + 1]

-----------------------------------------------------------------------------
Test(b) ==
    /\ life[b] = "unborn"
    /\ life' = [life EXCEPT ![b] = "alive"]
    /\ \E s, n \in BOOLEAN : stop' = [stop EXCEPT ![b] = s] /\ no_summary' = [no_summary EXCEPT ![b] = n]
    /\ UNCHANGED <<stats, reported, global_stats, running, summary, happened>>

\* A faulty variant: the failures of the whole thread stop the batch.
Stopped_by_global(b) == stop[b] /\ ~ok(global_stats)

Stopped(b) == stop[b] /\ ~ok(stats[b])

\* One more case, of this kind.
another(s, kind) == [field \in DOMAIN s |-> IF field \in {"cases_total", kind} THEN s[field] + 1 ELSE s[field]]

\* A faulty variant: a refused case is not counted as skipped.
prepare_uncounted(b, run_mode) ==
    stats' = [stats EXCEPT ![b] = another(@, IF Stopped(b) THEN "cases_total"
                                             ELSE IF run_mode THEN "cases_run" ELSE "cases_skipped_explicitly")]

\* __prepare_tc_run()
prepare(b, run_mode) ==
    stats' = [stats EXCEPT ![b] = another(@, IF Stopped(b) THEN "cases_skipped_implicitly"
                                             ELSE IF run_mode THEN "cases_run" ELSE "cases_skipped_explicitly")]

CanCall(b) == Usable(b) /\ stats[b].cases_total < MaxCases

run(b) ==
    /\ CanCall(b)
    /\ prepare(b, TRUE)
    /\ \/ Stopped(b) /\ Happens(b, "refused") /\ UNCHANGED running
       \/ ~Stopped(b) /\ Happens(b, "started") /\ running' = Append(running, b)
    /\ UNCHANGED <<life, stop, no_summary, reported, global_stats, summary>>

skip(b) ==
    /\ CanCall(b)
    /\ prepare(b, FALSE)
    /\ Happens(b, "skipped")
    /\ UNCHANGED <<life, stop, no_summary, reported, global_stats, running, summary>>

\* What happened after a case that was started ends like this.
ended(h, outcome) ==
    [o \in Outcome |-> IF o = "started" THEN h[o] - 1 ELSE IF o = outcome THEN h[o] + 1 ELSE h[o]]

\* The innermost subject returns, and __handle_tc_result() counts a failure;
\* or it throws, through run().
subject_ends(b, outcome) ==
    /\ running # <<>> /\ b = running[Len(running)]
    /\ running' = SubSeq(running, 1, Len(running) - 1)
    /\ happened' = [happened EXCEPT ![b] = ended(@, outcome)]
    /\ stats' = IF outcome = "failed" THEN [stats EXCEPT ![b].cases_failed = @ + 1] ELSE stats
    /\ UNCHANGED <<life, stop, no_summary, reported, global_stats, summary>>

-----------------------------------------------------------------------------
\* What a summary says (TestStats::report()).
verdict(s) == IF s.cases_total = 0 THEN "empty" ELSE IF ok(s) THEN "OK" ELSE "FAILED"

report(b) ==
    /\ Usable(b)
    /\ summary' = [summary EXCEPT ![b] = verdict(stats[b])]
    /\ \E silence_the_dtor \in BOOLEAN :
           reported' = [reported EXCEPT ![b] = @ \/ silence_the_dtor]
    /\ UNCHANGED <<life, stop, no_summary, stats, global_stats, running, happened>>

reset(b) ==
    /\ Usable(b)
    /\ stats' = [stats EXCEPT ![b] = Zero]
    /\ happened' = [happened EXCEPT ![b] = Nothing]
    /\ UNCHANGED <<life, stop, no_summary, reported, global_stats, running, summary>>

\* A faulty variant: an interim report(false) silences the destructor, too.
destroy_told_once(b) ==
    /\ Usable(b)
    /\ life' = [life EXCEPT ![b] = "gone"]
    /\ global_stats' = added(global_stats, stats[b])
    /\ summary' = IF no_summary[b] \/ summary[b] # "none" THEN summary
                  ELSE [summary EXCEPT ![b] = verdict(stats[b])]
    /\ UNCHANGED <<stop, no_summary, stats, reported, running, happened>>

\* The destructor: the summary, unless there was one, comes after the sum.
destroy(b) ==
    /\ Usable(b)
    /\ life' = [life EXCEPT ![b] = "gone"]
    /\ global_stats' = added(global_stats, stats[b])
    /\ summary' = IF no_summary[b] \/ reported[b] THEN summary
                  ELSE [summary EXCEPT ![b] = verdict(stats[b])]
    /\ UNCHANGED <<stop, no_summary, stats, reported, running, happened>>

\* TestStats::reset()
reset_global ==
    /\ global_stats' = Zero
    /\ happened' = [b \in Batch |-> IF life[b] = "gone" THEN Nothing ELSE happened[b]]
    /\ UNCHANGED <<life, stop, no_summary, stats, reported, running, summary>>

Next ==
    \/ \E b \in Batch :
           \/ Test(b) \/ run(b) \/ skip(b)
           \/ \E o \in {"passed", "failed", "threw"} : subject_ends(b, o)
           \/ report(b) \/ reset(b) \/ destroy(b)
    \/ reset_global

Spec == Init /\ [][Next]_vars

-----------------------------------------------------------------------------
Stats == [DOMAIN Zero -> Nat]

\* Types; and no counter fails more cases than it ran, so that the percentages of
\* the summaries divide by no zero (runner.hh:251, 300).
TypeInv ==
    /\ life \in [Batch -> {"unborn", "alive", "gone"}]
    /\ stop \in [Batch -> BOOLEAN] /\ no_summary \in [Batch -> BOOLEAN]
    /\ stats \in [Batch -> Stats]
    /\ reported \in [Batch -> BOOLEAN]
    /\ global_stats \in Stats
    /\ \A s \in Range(stats) \cup {global_stats} : s.cases_failed <= s.cases_run
    /\ running \in Seq(Batch)
    /\ summary \in [Batch -> {"none", "empty", "OK", "FAILED"}]
    /\ happened \in [Batch -> [Outcome -> Nat]]

Living == {b \in Batch : life[b] = "alive"}
Gone   == {b \in Batch : life[b] = "gone"}

Count(batches, outcomes) ==
    MapThenSumSet(LAMBDA p : happened[p[1]][p[2]], batches \X outcomes)

\* The assertion at the head of every report (runner.hh:224) holds whenever one
\* is asked for, of a batch or of the thread, while subjects run and after one
\* threw, too.
AssertionHolds ==
    \A s \in {stats[b] : b \in Living} \cup {global_stats} :
        s.cases_total = s.cases_run + cases_skipped(s)

\* The counters of s say what happened in these batches.
Tells(s, batches) ==
    /\ s.cases_run = Count(batches, {"started", "passed", "failed", "threw"})
    /\ s.cases_failed = Count(batches, {"failed"})
    /\ cases_skipped(s) = Count(batches, {"refused", "skipped"})

\* The counters of a batch tell what happened in it since its reset(), and the
\* grand totals what happened in the batches destroyed since TestStats::reset(),
\* also those that were created and destroyed while a case of another one was
\* being run ("accumulated in a static instance", runner.hh:52-53).
TotalsTell ==
    /\ \A b \in Living : Tells(stats[b], {b})
    /\ Tells(global_stats, Gone)

\* The latest summary of a destroyed batch tells of its failures, those after an
\* interim report(false) included, unless the user silenced the destructor
\* (runner.hh:47-50, 358-359).
FailuresTold ==
    \A b \in Gone : Count({b}, {"failed"}) > 0 /\ ~no_summary[b] /\ ~reported[b] =>
        summary[b] = "FAILED"

\* The reports tell what happened, in numbers and in their last line.
ReportsTell == TotalsTell /\ FailuresTold

\* With Stop_On_Failure, no subject of a batch is called after one of its cases
\* failed and before its reset(), whatever happens in the batches around it; and
\* without a failure none of its cases is refused.
FailureStops ==
    [][\A b \in Batch :
           /\ happened'[b]["started"] > happened[b]["started"] =>
                  ~(stop[b] /\ happened[b]["failed"] > 0)
           /\ happened'[b]["refused"] > happened[b]["refused"] =>
                  stop[b] /\ happened[b]["failed"] > 0]_vars
=============================================================================
