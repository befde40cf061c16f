-------------------------- MODULE TestRunnerProofs --------------------------
(***************************************************************************)
(* For any number of batches and cases: the counters add up when a report  *)
(* is made, a batch that is to stop on failure does, and the totals tell   *)
(* what happened.  The argument: a batch stands at most once among the     *)
(* running ones, so that every subject that fails was counted as run       *)
(* before, and nobody else's failure is; and the sum over the destroyed    *)
(* batches, in whatever order, grows by what each one counted.             *)
(***************************************************************************)
EXTENDS TestRunner, Inductions, TLAPS

Sum(s) == s.cases_total = s.cases_run + cases_skipped(s)

\* The batches that run a subject are alive, and each runs one.
Nested ==
    /\ \A i \in DOMAIN running : life[running[i]] = "alive" /\ happened[running[i]]["started"] >= 1
    /\ \A i, j \in DOMAIN running : running[i] = running[j] => i = j

\* As long as a batch is not destroyed, its counters tell of its failures.
Counted ==
    \A b \in Batch :
        /\ Sum(stats[b])
        /\ life[b] # "gone" =>
               /\ stats[b].cases_failed = happened[b]["failed"]
               /\ stats[b].cases_failed + happened[b]["started"] <= stats[b].cases_run

Typed ==
    /\ life \in [Batch -> {"unborn", "alive", "gone"}]
    /\ stop \in [Batch -> BOOLEAN] /\ no_summary \in [Batch -> BOOLEAN]
    /\ stats \in [Batch -> Stats]
    /\ reported \in [Batch -> BOOLEAN]
    /\ global_stats \in Stats
    /\ running \in Seq(Batch)
    /\ summary \in [Batch -> {"none", "empty", "OK", "FAILED"}]
    /\ happened \in [Batch -> [Outcome -> Nat]]

FewerFail ==
    /\ \A b \in Batch : stats[b].cases_failed <= stats[b].cases_run
    /\ global_stats.cases_failed <= global_stats.cases_run

IInv == Typed /\ FewerFail /\ Nested /\ Counted /\ Sum(global_stats)

-----------------------------------------------------------------------------
\* Counters are records of five numbers.
Fields == {"cases_total", "cases_run", "cases_failed",
           "cases_skipped_explicitly", "cases_skipped_implicitly"}

LEMMA StatsAreRecords ==
  Stats = [cases_total : Nat, cases_run : Nat, cases_failed : Nat,
           cases_skipped_explicitly : Nat, cases_skipped_implicitly : Nat]
<1>1. DOMAIN Zero = Fields
  BY DEF Zero, Fields
<1>2. Stats = [Fields -> Nat]
  BY <1>1 DEF Stats
<1> QED
  BY <1>2 DEF Fields

LEMMA Adding ==
  ASSUME NEW s \in Stats, NEW r \in Stats
  PROVE  /\ added(s, r) \in Stats
         /\ Sum(s) /\ Sum(r) => Sum(added(s, r))
         /\ s.cases_failed <= s.cases_run /\ r.cases_failed <= r.cases_run =>
                added(s, r).cases_failed <= added(s, r).cases_run
<1>1. s \in [Fields -> Nat] /\ r \in [Fields -> Nat] /\ Stats = [Fields -> Nat]
  BY DEF Stats, Zero, Fields
<1>2. /\ added(s, r) \in [Fields -> Nat]
      /\ \A f \in Fields : added(s, r)[f] = s[f] + r[f]
  BY <1>1 DEF added
<1>3. /\ added(s, r).cases_total = s.cases_total + r.cases_total
      /\ added(s, r).cases_run = s.cases_run + r.cases_run
      /\ added(s, r).cases_failed = s.cases_failed + r.cases_failed
      /\ added(s, r).cases_skipped_explicitly = s.cases_skipped_explicitly + r.cases_skipped_explicitly
      /\ added(s, r).cases_skipped_implicitly = s.cases_skipped_implicitly + r.cases_skipped_implicitly
  BY <1>2 DEF Fields
<1>4. \A f \in Fields : s[f] \in Nat /\ r[f] \in Nat
  BY <1>1
<1> QED
  BY <1>1, <1>2, <1>3, <1>4 DEF Sum, cases_skipped, Fields

LEMMA NothingYet == /\ Zero \in Stats /\ Zero.cases_failed = 0 /\ Zero.cases_run = 0 /\ Sum(Zero)
                    /\ Nothing \in [Outcome -> Nat] /\ Nothing["failed"] = 0 /\ Nothing["started"] = 0
BY StatsAreRecords DEF Zero, Sum, cases_skipped, Nothing, Outcome

LEMMA InitInv == Init => IInv
<1> SUFFICES ASSUME Init PROVE IInv
  OBVIOUS
<1>1. Typed
  BY NothingYet DEF Init, Typed
<1>2. FewerFail /\ Nested /\ Counted /\ Sum(global_stats)
  BY NothingYet DEF Init, FewerFail, Nested, Counted
<1> QED
  BY <1>1, <1>2 DEF IInv

LEMMA Another ==
  ASSUME NEW s \in Stats, Sum(s),
         NEW kind \in {"cases_run", "cases_skipped_explicitly", "cases_skipped_implicitly"}
  PROVE  /\ another(s, kind) \in Stats /\ Sum(another(s, kind))
         /\ another(s, kind).cases_failed = s.cases_failed
         /\ another(s, kind).cases_run = s.cases_run + (IF kind = "cases_run" THEN 1 ELSE 0)
<1>1. s \in [Fields -> Nat] /\ Stats = [Fields -> Nat]
  BY DEF Stats, Zero, Fields
<1>2. /\ another(s, kind) \in [Fields -> Nat]
      /\ \A f \in Fields : another(s, kind)[f] = IF f \in {"cases_total", kind} THEN s[f] + 1 ELSE s[f]
  BY <1>1 DEF another
<1>3. /\ another(s, kind).cases_total = s.cases_total + 1
      /\ another(s, kind).cases_failed = s.cases_failed
      /\ another(s, kind).cases_run = s.cases_run + (IF kind = "cases_run" THEN 1 ELSE 0)
      /\ another(s, kind).cases_skipped_explicitly
             = s.cases_skipped_explicitly + (IF kind = "cases_skipped_explicitly" THEN 1 ELSE 0)
      /\ another(s, kind).cases_skipped_implicitly
             = s.cases_skipped_implicitly + (IF kind = "cases_skipped_implicitly" THEN 1 ELSE 0)
  BY <1>1, <1>2 DEF Fields
<1>4. /\ s.cases_total \in Nat /\ s.cases_run \in Nat /\ s.cases_failed \in Nat
      /\ s.cases_skipped_explicitly \in Nat /\ s.cases_skipped_implicitly \in Nat
  BY <1>1 DEF Fields
<1> QED
  BY <1>1, <1>2, <1>3, <1>4 DEF Sum, cases_skipped

\* What a call of run() or skip() counts.
LEMMA Prepared ==
  ASSUME IInv, NEW b \in Batch, NEW run_mode \in BOOLEAN, prepare(b, run_mode)
  PROVE  /\ stats' \in [Batch -> Stats]
         /\ \A a \in Batch : a # b => stats'[a] = stats[a]
         /\ Sum(stats'[b]) /\ stats'[b].cases_failed = stats[b].cases_failed
         /\ stats'[b].cases_run = stats[b].cases_run + (IF ~Stopped(b) /\ run_mode THEN 1 ELSE 0)
<1> DEFINE kind == IF Stopped(b) THEN "cases_skipped_implicitly"
                   ELSE IF run_mode THEN "cases_run" ELSE "cases_skipped_explicitly"
           new == another(stats[b], kind)
<1>1. stats[b] \in Stats /\ Sum(stats[b]) /\ stats \in [Batch -> Stats]
  BY DEF IInv, Typed, Counted
<1>2. stats' = [stats EXCEPT ![b] = new]
  BY DEF prepare
<1>3. /\ kind \in {"cases_run", "cases_skipped_explicitly", "cases_skipped_implicitly"}
      /\ kind = "cases_run" <=> ~Stopped(b) /\ run_mode
  OBVIOUS
<1> HIDE DEF kind
<1>4. new \in Stats /\ Sum(new) /\ new.cases_failed = stats[b].cases_failed
      /\ new.cases_run = stats[b].cases_run + (IF kind = "cases_run" THEN 1 ELSE 0)
  BY <1>1, <1>3, Another
<1> HIDE DEF new
<1>5. stats' \in [Batch -> Stats] /\ stats'[b] = new /\ \A a \in Batch : a # b => stats'[a] = stats[a]
  BY <1>1, <1>2, <1>4
<1> QED
  BY <1>3, <1>4, <1>5

\* A step that changes the counters of b only, by a call or the end of one.
LEMMA CountersKept ==
  ASSUME IInv, NEW b \in Batch, Typed', UNCHANGED <<life, global_stats>>,
         \A a \in Batch : a # b => stats'[a] = stats[a] /\ happened'[a] = happened[a],
         Sum(stats'[b]), stats'[b].cases_failed = happened'[b]["failed"],
         stats'[b].cases_failed + happened'[b]["started"] <= stats'[b].cases_run
  PROVE  FewerFail' /\ Counted' /\ Sum(global_stats)'
<1>1. /\ \A a \in Batch : /\ stats'[a].cases_failed \in Nat /\ stats'[a].cases_run \in Nat
                          /\ happened'[a]["started"] \in Nat
      /\ global_stats' = global_stats
  BY StatsAreRecords DEF Typed, Outcome
<1>2. FewerFail'
  BY <1>1 DEF IInv, FewerFail
<1>3. Counted'
  BY <1>1 DEF IInv, Counted
<1>4. Sum(global_stats)'
  BY <1>1 DEF IInv, Sum, cases_skipped
<1> QED
  BY <1>2, <1>3, <1>4

LEMMA Happening ==
  ASSUME IInv, NEW b \in Batch, NEW o \in Outcome, Happens(b, o)
  PROVE  /\ happened' \in [Batch -> [Outcome -> Nat]]
         /\ happened'[b][o] = happened[b][o] + 1
         /\ \A p \in Outcome : p # o => happened'[b][p] = happened[b][p]
         /\ \A a \in Batch : a # b => happened'[a] = happened[a]
<1> DEFINE h == [happened[b] EXCEPT ![o] = @ + 1]
<1>1. happened \in [Batch -> [Outcome -> Nat]] /\ happened[b] \in [Outcome -> Nat]
  BY DEF IInv, Typed
<1>2. /\ h \in [Outcome -> Nat] /\ h[o] = happened[b][o] + 1
      /\ \A p \in Outcome : p # o => h[p] = happened[b][p]
  BY <1>1
<1>3. happened' = [happened EXCEPT ![b] = h]
  BY DEF Happens
<1> HIDE DEF h
<1>4. happened'[b] = h /\ happened' \in [Batch -> [Outcome -> Nat]] /\ \A a \in Batch : a # b => happened'[a] = happened[a]
  BY <1>1, <1>2, <1>3
<1> QED
  BY <1>2, <1>4

LEMMA Ending ==
  ASSUME NEW h \in [Outcome -> Nat], h["started"] >= 1, NEW outcome \in {"passed", "failed", "threw"}
  PROVE  /\ ended(h, outcome) \in [Outcome -> Nat]
         /\ ended(h, outcome)["started"] = h["started"] - 1
         /\ ended(h, outcome)["failed"] = h["failed"] + (IF outcome = "failed" THEN 1 ELSE 0)
BY DEF ended, Outcome

LEMMA RunInv == ASSUME IInv, NEW b \in Batch, run(b) PROVE IInv'
<1>1. /\ life[b] = "alive" /\ \A i \in DOMAIN running : running[i] # b
      /\ UNCHANGED <<life, stop, no_summary, reported, global_stats, summary>>
  BY DEF run, CanCall, Usable
<1>2. prepare(b, TRUE)
  BY DEF run
<1>3. /\ stats[b].cases_failed \in Nat /\ stats[b].cases_run \in Nat
      /\ happened[b]["started"] \in Nat /\ happened[b]["refused"] \in Nat /\ happened[b]["failed"] \in Nat
      /\ stats[b].cases_failed = happened[b]["failed"]
      /\ stats[b].cases_failed + happened[b]["started"] <= stats[b].cases_run
  BY <1>1, StatsAreRecords, SMTT(30) DEF IInv, Typed, Outcome, Counted
<1>4. CASE Stopped(b)
  <2>1. happened' = [happened EXCEPT ![b]["refused"] = @ + 1] /\ running' = running
    BY <1>4 DEF run, Happens
  <2>2. /\ happened' \in [Batch -> [Outcome -> Nat]]
        /\ happened'[b]["started"] = happened[b]["started"] /\ happened'[b]["failed"] = happened[b]["failed"]
        /\ \A a \in Batch : a # b => happened'[a] = happened[a]
    <3>1. Happens(b, "refused") /\ "refused" \in Outcome /\ "started" \in Outcome /\ "failed" \in Outcome
      BY <2>1 DEF Happens, Outcome
    <3> QED
      BY <3>1, Happening
  <2>3. Typed'
    BY <1>1, <1>2, <2>1, <2>2, Prepared DEF IInv, Typed
  <2>4. Nested'
    <3>1. Nested /\ \A i \in DOMAIN running : running[i] \in Batch
      BY DEF IInv, Typed
    <3> QED
      BY <1>1, <2>1, <2>2, <3>1 DEF Nested
  <2>5. /\ Sum(stats'[b]) /\ stats'[b].cases_failed = happened'[b]["failed"]
        /\ stats'[b].cases_failed + happened'[b]["started"] <= stats'[b].cases_run
        /\ \A a \in Batch : a # b => stats'[a] = stats[a]
    <3>1. /\ \A a \in Batch : a # b => stats'[a] = stats[a]
          /\ Sum(stats'[b]) /\ stats'[b].cases_failed = stats[b].cases_failed
          /\ stats'[b].cases_run = stats[b].cases_run + (IF ~Stopped(b) /\ TRUE THEN 1 ELSE 0)
      BY <1>2, Prepared
    <3>2. stats'[b].cases_run = stats[b].cases_run
      BY <1>3, <1>4, <3>1
    <3>3. stats'[b].cases_failed + happened'[b]["started"] <= stats'[b].cases_run
      BY <1>3, <2>2, <3>1, <3>2
    <3> QED
      BY <1>3, <2>2, <3>1, <3>3
  <2>6. FewerFail' /\ Counted' /\ Sum(global_stats)'
    BY <1>1, <2>2, <2>3, <2>5, CountersKept
  <2> QED
    BY <2>3, <2>4, <2>6 DEF IInv
<1>5. CASE ~Stopped(b)
  <2>1. happened' = [happened EXCEPT ![b]["started"] = @ + 1] /\ running' = Append(running, b)
    BY <1>5 DEF run, Happens
  <2>2. /\ happened' \in [Batch -> [Outcome -> Nat]]
        /\ happened'[b]["started"] = happened[b]["started"] + 1 /\ happened'[b]["failed"] = happened[b]["failed"]
        /\ \A a \in Batch : a # b => happened'[a] = happened[a]
    <3>1. Happens(b, "started") /\ "started" \in Outcome /\ "failed" \in Outcome
      BY <2>1 DEF Happens, Outcome
    <3> QED
      BY <3>1, Happening
  <2>3. Typed'
    <3>1. running' \in Seq(Batch)
      BY <2>1 DEF IInv, Typed
    <3> QED
      BY <1>1, <1>2, <2>2, <3>1, Prepared DEF IInv, Typed
  <2>4. Nested'
    <3>1. running \in Seq(Batch) /\ Nested
      BY DEF IInv, Typed
    <3>2. /\ DOMAIN running' = 1 .. Len(running) + 1 /\ DOMAIN running = 1 .. Len(running) /\ Len(running) \in Nat
          /\ running'[Len(running) + 1] = b
          /\ \A i \in DOMAIN running : running'[i] = running[i] /\ running[i] \in Batch
      BY <2>1, <3>1
    <3>3. happened'[b]["started"] >= 1
      BY <1>3, <2>2
    <3> QED
      <4>1. ASSUME NEW i \in 1 .. Len(running) + 1
            PROVE  life'[running'[i]] = "alive" /\ happened'[running'[i]]["started"] >= 1
        <5>1. CASE i = Len(running) + 1
          BY <1>1, <3>2, <3>3, <5>1
        <5>2. CASE i # Len(running) + 1
          <6>1. i \in DOMAIN running
            BY <3>2, <5>2
          <6>2. running'[i] = running[i] /\ running[i] \in Batch /\ running[i] # b
            BY <1>1, <3>2, <6>1
          <6>3. life[running[i]] = "alive" /\ happened[running[i]]["started"] >= 1
            BY <3>1, <6>1 DEF Nested
          <6> QED
            BY <1>1, <2>2, <6>2, <6>3
        <5> QED
          BY <5>1, <5>2
      <4>2. ASSUME NEW i \in 1 .. Len(running) + 1, NEW j \in 1 .. Len(running) + 1, running'[i] = running'[j]
            PROVE  i = j
        <5>1. (i # Len(running) + 1 => i \in DOMAIN running) /\ (j # Len(running) + 1 => j \in DOMAIN running)
          BY <3>2
        <5> QED
          BY <1>1, <3>1, <3>2, <4>2, <5>1 DEF Nested
      <4> QED
        BY <3>2, <4>1, <4>2 DEF Nested
  <2>5. /\ Sum(stats'[b]) /\ stats'[b].cases_failed = happened'[b]["failed"]
        /\ stats'[b].cases_failed + happened'[b]["started"] <= stats'[b].cases_run
        /\ \A a \in Batch : a # b => stats'[a] = stats[a]
    <3>1. /\ \A a \in Batch : a # b => stats'[a] = stats[a]
          /\ Sum(stats'[b]) /\ stats'[b].cases_failed = stats[b].cases_failed
          /\ stats'[b].cases_run = stats[b].cases_run + (IF ~Stopped(b) /\ TRUE THEN 1 ELSE 0)
      BY <1>2, Prepared
    <3>2. stats'[b].cases_run = stats[b].cases_run + 1
      BY <1>3, <1>5, <3>1
    <3>3. stats'[b].cases_failed + happened'[b]["started"] <= stats'[b].cases_run
      BY <1>3, <2>2, <3>1, <3>2
    <3> QED
      BY <1>3, <2>2, <3>1, <3>3
  <2>6. FewerFail' /\ Counted' /\ Sum(global_stats)'
    BY <1>1, <2>2, <2>3, <2>5, CountersKept
  <2> QED
    BY <2>3, <2>4, <2>6 DEF IInv
<1> QED
  BY <1>4, <1>5

LEMMA SkipInv == ASSUME IInv, NEW b \in Batch, skip(b) PROVE IInv'
<1>1. /\ life[b] = "alive"
      /\ UNCHANGED <<life, stop, no_summary, reported, global_stats, running, summary>>
  BY DEF skip, CanCall, Usable
<1>2. prepare(b, FALSE)
  BY DEF skip
<1>3. /\ stats[b].cases_failed \in Nat /\ stats[b].cases_run \in Nat
      /\ happened[b]["started"] \in Nat /\ happened[b]["skipped"] \in Nat
      /\ stats[b].cases_failed = happened[b]["failed"]
      /\ stats[b].cases_failed + happened[b]["started"] <= stats[b].cases_run
  BY <1>1, StatsAreRecords, SMTT(30) DEF IInv, Typed, Outcome, Counted
<1>4. happened' = [happened EXCEPT ![b]["skipped"] = @ + 1]
  BY DEF skip, Happens
<1>5. /\ happened' \in [Batch -> [Outcome -> Nat]]
      /\ happened'[b]["started"] = happened[b]["started"] /\ happened'[b]["failed"] = happened[b]["failed"]
      /\ \A a \in Batch : a # b => happened'[a] = happened[a]
  <2>1. Happens(b, "skipped") /\ "skipped" \in Outcome /\ "started" \in Outcome /\ "failed" \in Outcome
    BY <1>4 DEF Happens, Outcome
  <2> QED
    BY <2>1, Happening
<1>6. Typed'
  BY <1>1, <1>2, <1>5, Prepared DEF IInv, Typed
<1>7. Nested'
  <2>1. Nested /\ \A i \in DOMAIN running : running[i] \in Batch
    BY DEF IInv, Typed
  <2> QED
    BY <1>1, <1>5, <2>1 DEF Nested
<1>8. /\ Sum(stats'[b]) /\ stats'[b].cases_failed = happened'[b]["failed"]
      /\ stats'[b].cases_failed + happened'[b]["started"] <= stats'[b].cases_run
      /\ \A a \in Batch : a # b => stats'[a] = stats[a]
  <2>1. /\ \A a \in Batch : a # b => stats'[a] = stats[a]
        /\ Sum(stats'[b]) /\ stats'[b].cases_failed = stats[b].cases_failed
        /\ stats'[b].cases_run = stats[b].cases_run + (IF ~Stopped(b) /\ FALSE THEN 1 ELSE 0)
    BY <1>2, Prepared
  <2>2. stats'[b].cases_run = stats[b].cases_run
    BY <1>3, <2>1
  <2>3. stats'[b].cases_failed + happened'[b]["started"] <= stats'[b].cases_run
    BY <1>3, <1>5, <2>1, <2>2
  <2> QED
    BY <1>3, <1>5, <2>1, <2>3
<1>9. FewerFail' /\ Counted' /\ Sum(global_stats)'
  BY <1>1, <1>5, <1>6, <1>8, CountersKept
<1> QED
  BY <1>6, <1>7, <1>9 DEF IInv

LEMMA SubjectInv ==
  ASSUME IInv, NEW b \in Batch, NEW outcome \in {"passed", "failed", "threw"}, subject_ends(b, outcome)
  PROVE  IInv'
<1> DEFINE n == Len(running)
<1>1. /\ running \in Seq(Batch) /\ n \in Nat /\ n >= 1 /\ running[n] = b
      /\ running' = SubSeq(running, 1, n - 1)
      /\ UNCHANGED <<life, stop, no_summary, reported, global_stats, summary>>
  BY DEF subject_ends, IInv, Typed
<1>2. life[b] = "alive" /\ happened[b]["started"] >= 1
  BY <1>1 DEF IInv, Nested
<1>3. /\ stats[b].cases_failed \in Nat /\ stats[b].cases_run \in Nat /\ stats[b] \in Stats /\ Sum(stats[b])
      /\ happened[b]["started"] \in Nat /\ happened[b][outcome] \in Nat /\ happened[b]["failed"] \in Nat
      /\ stats[b].cases_failed = happened[b]["failed"]
      /\ stats[b].cases_failed + happened[b]["started"] <= stats[b].cases_run
  BY <1>2, StatsAreRecords, SMTT(30) DEF IInv, Typed, Outcome, Counted
<1>4. happened' = [happened EXCEPT ![b] = ended(happened[b], outcome)]
  BY DEF subject_ends
<1>5. /\ happened' \in [Batch -> [Outcome -> Nat]]
      /\ happened'[b]["started"] = happened[b]["started"] - 1
      /\ happened'[b]["failed"] = happened[b]["failed"] + (IF outcome = "failed" THEN 1 ELSE 0)
      /\ \A a \in Batch : a # b => happened'[a] = happened[a]
  <2>1. happened \in [Batch -> [Outcome -> Nat]] /\ happened[b] \in [Outcome -> Nat]
    BY DEF IInv, Typed
  <2> QED
    BY <1>2, <1>4, <2>1, Ending
<1>6. /\ stats' \in [Batch -> Stats] /\ Sum(stats'[b])
      /\ stats'[b].cases_run = stats[b].cases_run
      /\ stats'[b].cases_failed = stats[b].cases_failed + (IF outcome = "failed" THEN 1 ELSE 0)
      /\ \A a \in Batch : a # b => stats'[a] = stats[a]
  <2>1. CASE outcome = "failed"
    <3>1. stats' = [stats EXCEPT ![b].cases_failed = @ + 1]
      BY <2>1 DEF subject_ends
    <3>2. [stats[b] EXCEPT !.cases_failed = @ + 1] \in Stats
      BY <1>3, StatsAreRecords
    <3> QED
      BY <1>3, <2>1, <3>1, <3>2, StatsAreRecords DEF IInv, Typed, Sum, cases_skipped
  <2>2. CASE outcome # "failed"
    BY <1>3, <2>2 DEF subject_ends, IInv, Typed
  <2> QED
    BY <2>1, <2>2
<1>7. /\ running' \in Seq(Batch) /\ DOMAIN running' = 1 .. n - 1 /\ DOMAIN running = 1 .. n
      /\ \A i \in 1 .. n - 1 : running'[i] = running[i] /\ running[i] \in Batch
  BY <1>1
<1>8. Nested'
  <2>1. Nested
    BY DEF IInv
  <2>2. ASSUME NEW i \in 1 .. n - 1 PROVE running[i] # b /\ i \in 1 .. n
    <3>1. i \in 1 .. n /\ n \in 1 .. n /\ i # n
      BY <1>1
    <3> QED
      BY <1>1, <1>7, <2>1, <3>1 DEF Nested
  <2> QED
    <3>1. ASSUME NEW i \in 1 .. n - 1
          PROVE  life'[running'[i]] = "alive" /\ happened'[running'[i]]["started"] >= 1
      <4>1. i \in DOMAIN running /\ running'[i] = running[i] /\ running[i] # b /\ running[i] \in Batch
        BY <1>7, <2>2
      <4> QED
        BY <1>1, <1>5, <2>1, <4>1 DEF Nested
    <3>2. ASSUME NEW i \in 1 .. n - 1, NEW j \in 1 .. n - 1, running'[i] = running'[j]
          PROVE  i = j
      <4>1. i \in DOMAIN running /\ j \in DOMAIN running /\ running[i] = running[j]
        BY <1>7, <2>2, <3>2
      <4> QED
        BY <2>1, <4>1 DEF Nested
    <3> QED
      BY <1>7, <3>1, <3>2 DEF Nested
<1>9. Typed'
  BY <1>1, <1>5, <1>6, <1>7 DEF IInv, Typed
<1>10. /\ stats'[b].cases_failed = happened'[b]["failed"]
       /\ stats'[b].cases_failed + happened'[b]["started"] <= stats'[b].cases_run
  BY <1>2, <1>3, <1>5, <1>6
<1>11. FewerFail' /\ Counted' /\ Sum(global_stats)'
  BY <1>1, <1>5, <1>6, <1>9, <1>10, CountersKept
<1> QED
  BY <1>8, <1>9, <1>11 DEF IInv

\* A call that leaves the counters alone.
LEMMA RestInv ==
  ASSUME IInv, NEW b \in Batch, Test(b) \/ report(b)
  PROVE  IInv'
<1>1. UNCHANGED <<stats, global_stats, running, happened>>
  BY DEF Test, report
<1>2. Typed'
  <2>1. CASE Test(b)
    BY <2>1 DEF Test, IInv, Typed
  <2>2. CASE report(b)
    <3>1. verdict(stats[b]) \in {"none", "empty", "OK", "FAILED"}
      BY DEF verdict
    <3>2. reported' \in [Batch -> BOOLEAN]
      <4>1. PICK silence_the_dtor \in BOOLEAN : reported' = [reported EXCEPT ![b] = @ \/ silence_the_dtor]
        BY <2>2 DEF report
      <4>2. (reported[b] \/ silence_the_dtor) \in BOOLEAN
        OBVIOUS
      <4> QED
        BY <4>1, <4>2 DEF IInv, Typed
    <3> QED
      BY <2>2, <3>1, <3>2 DEF report, IInv, Typed
  <2> QED
    BY <2>1, <2>2
<1>3. /\ \A a \in Batch : life'[a] # "gone" => life[a] # "gone"
      /\ \A a \in Batch : life[a] = "alive" => life'[a] = "alive"
  BY DEF Test, report, IInv, Typed
<1>4. FewerFail' /\ Counted' /\ Sum(global_stats)'
  BY <1>1, <1>3 DEF IInv, FewerFail, Counted, Sum, cases_skipped
<1>5. Nested'
  BY <1>1, <1>3 DEF IInv, Nested, Typed
<1> QED
  BY <1>2, <1>4, <1>5 DEF IInv

LEMMA ResetInv == ASSUME IInv, NEW b \in Batch, reset(b) PROVE IInv'
<1>1. /\ \A i \in DOMAIN running : running[i] # b
      /\ stats' = [stats EXCEPT ![b] = Zero] /\ happened' = [happened EXCEPT ![b] = Nothing]
      /\ UNCHANGED <<life, stop, no_summary, reported, global_stats, running, summary>>
  BY DEF reset, Usable
<1>2. /\ stats' \in [Batch -> Stats] /\ stats'[b] = Zero /\ happened' \in [Batch -> [Outcome -> Nat]] /\ happened'[b] = Nothing
      /\ \A a \in Batch : a # b => stats'[a] = stats[a] /\ happened'[a] = happened[a]
  BY <1>1, NothingYet DEF IInv, Typed
<1>3. Typed'
  BY <1>1, <1>2 DEF IInv, Typed
<1>4. FewerFail' /\ Counted' /\ Sum(global_stats)'
  BY <1>1, <1>2, <1>3, NothingYet, CountersKept
<1>5. Nested'
  <2>1. Nested /\ \A i \in DOMAIN running : running[i] \in Batch
    BY DEF IInv, Typed
  <2> QED
    BY <1>1, <1>2, <2>1 DEF Nested
<1> QED
  BY <1>3, <1>4, <1>5 DEF IInv

LEMMA DestroyInv == ASSUME IInv, NEW b \in Batch, destroy(b) PROVE IInv'
<1>1. /\ \A i \in DOMAIN running : running[i] # b
      /\ life' = [life EXCEPT ![b] = "gone"] /\ global_stats' = added(global_stats, stats[b])
      /\ UNCHANGED <<stop, no_summary, stats, reported, running, happened>>
  BY DEF destroy, Usable
<1>2. /\ stats[b] \in Stats /\ global_stats \in Stats /\ Sum(stats[b]) /\ Sum(global_stats)
      /\ stats[b].cases_failed <= stats[b].cases_run /\ global_stats.cases_failed <= global_stats.cases_run
  BY DEF IInv, Typed, Counted, FewerFail
<1>3. global_stats' \in Stats /\ Sum(global_stats') /\ global_stats'.cases_failed <= global_stats'.cases_run
  BY <1>1, <1>2, Adding
<1>4. /\ life' \in [Batch -> {"unborn", "alive", "gone"}] /\ life'[b] = "gone"
      /\ \A a \in Batch : a # b => life'[a] = life[a]
  BY <1>1 DEF IInv, Typed
<1>5. Typed'
  <2>1. verdict(stats[b]) \in {"none", "empty", "OK", "FAILED"}
    BY DEF verdict
  <2>2. summary' \in [Batch -> {"none", "empty", "OK", "FAILED"}]
    BY <2>1 DEF destroy, IInv, Typed
  <2> QED
    BY <1>1, <1>3, <1>4, <2>2 DEF IInv, Typed
<1>6. FewerFail' /\ Counted' /\ Sum(global_stats)'
  BY <1>1, <1>3, <1>4 DEF IInv, FewerFail, Counted, Sum, cases_skipped
<1>7. Nested'
  <2>1. Nested /\ \A i \in DOMAIN running : running[i] \in Batch
    BY DEF IInv, Typed
  <2> QED
    BY <1>1, <1>4, <2>1 DEF Nested
<1> QED
  BY <1>5, <1>6, <1>7 DEF IInv

LEMMA ResetGlobalInv == ASSUME IInv, reset_global PROVE IInv'
<1>1. /\ global_stats' = Zero
      /\ happened' = [b \in Batch |-> IF life[b] = "gone" THEN Nothing ELSE happened[b]]
      /\ UNCHANGED <<life, stop, no_summary, stats, reported, running, summary>>
  BY DEF reset_global
<1>2. happened' \in [Batch -> [Outcome -> Nat]] /\ \A b \in Batch : life[b] # "gone" => happened'[b] = happened[b]
  BY <1>1, NothingYet DEF IInv, Typed
<1>3. Typed'
  BY <1>1, <1>2, NothingYet DEF IInv, Typed
<1>4. FewerFail' /\ Counted' /\ Sum(global_stats)'
  BY <1>1, <1>2, NothingYet DEF IInv, FewerFail, Counted, Sum, cases_skipped
<1>5. Nested'
  <2>1. Nested /\ \A i \in DOMAIN running : running[i] \in Batch
    BY DEF IInv, Typed
  <2> QED
    BY <1>1, <1>2, <2>1 DEF Nested
<1> QED
  BY <1>3, <1>4, <1>5 DEF IInv

LEMMA NextInv == IInv /\ [Next]_vars => IInv'
<1> SUFFICES ASSUME IInv, [Next]_vars PROVE IInv'
  OBVIOUS
<1>1. CASE UNCHANGED vars
  BY <1>1 DEF vars, IInv, Typed, FewerFail, Nested, Counted, Sum, cases_skipped
<1> QED
  BY <1>1, RestInv, RunInv, SkipInv, SubjectInv, ResetInv, DestroyInv, ResetGlobalInv DEF Next

-----------------------------------------------------------------------------
\* The invariant that the properties rest on.
THEOREM Invariance == Spec => []IInv
BY InitInv, NextInv, PTL DEF Spec

\* Types; and no counter fails more cases than it ran, so that no summary
\* divides by zero or tells of more than 100 % (runner.hh:251, 300).
THEOREM TypeCorrect == Spec => []TypeInv
<1>1. IInv => TypeInv
  BY DEF IInv, Typed, FewerFail, TypeInv, Range
<1> QED
  BY <1>1, Invariance, PTL

\* The assertion of report() holds, whatever batches run one another and whatever
\* their subjects throw (runner.hh:224).
THEOREM AssertionNeverFails == Spec => []AssertionHolds
<1>1. IInv => AssertionHolds
  BY DEF IInv, Counted, AssertionHolds, Sum, Living
<1> QED
  BY <1>1, Invariance, PTL

\* A batch that is to stop on failure calls no subject after one, and refuses
\* none without one (runner.hh:492-498).
THEOREM StopsOnFailure == Spec => FailureStops
<1> DEFINE Stops ==
      \A b \in Batch :
          /\ happened'[b]["started"] > happened[b]["started"] => ~(stop[b] /\ happened[b]["failed"] > 0)
          /\ happened'[b]["refused"] > happened[b]["refused"] => stop[b] /\ happened[b]["failed"] > 0
<1>1. IInv /\ [Next]_vars => Stops
  <2> SUFFICES ASSUME IInv, [Next]_vars, NEW b \in Batch
               PROVE  /\ happened'[b]["started"] > happened[b]["started"] => ~(stop[b] /\ happened[b]["failed"] > 0)
                      /\ happened'[b]["refused"] > happened[b]["refused"] => stop[b] /\ happened[b]["failed"] > 0
    OBVIOUS
  <2>0. happened[b]["started"] \in Nat /\ happened[b]["refused"] \in Nat /\ happened[b]["failed"] \in Nat
    BY DEF IInv, Typed, Outcome
  <2>1. CASE \/ happened'[b] = happened[b] \/ happened'[b] = Nothing
    BY <2>0, <2>1 DEF Nothing, Outcome
  <2>2. ASSUME run(b)
        PROVE  /\ happened'[b]["started"] > happened[b]["started"] => ~(stop[b] /\ happened[b]["failed"] > 0)
               /\ happened'[b]["refused"] > happened[b]["refused"] => stop[b] /\ happened[b]["failed"] > 0
    <3>1. stats[b].cases_failed = happened[b]["failed"]
      BY <2>2 DEF run, CanCall, Usable, IInv, Counted
    <3>2. Stopped(b) <=> stop[b] /\ happened[b]["failed"] > 0
      BY <2>0, <3>1 DEF Stopped, ok
    <3>3. "started" \in Outcome /\ "refused" \in Outcome
      BY DEF Outcome
    <3>4. CASE Stopped(b)
      <4>1. happened'[b]["started"] = happened[b]["started"]
        BY <2>2, <3>3, <3>4, Happening DEF run
      <4> QED
        BY <2>0, <3>2, <3>4, <4>1
    <3>5. CASE ~Stopped(b)
      <4>1. happened'[b]["refused"] = happened[b]["refused"]
        BY <2>2, <3>3, <3>5, Happening DEF run
      <4> QED
        BY <2>0, <3>2, <3>5, <4>1
    <3> QED
      BY <3>4, <3>5
  <2>3. ASSUME NEW a \in Batch, a # b, run(a) \/ skip(a) PROVE happened'[b] = happened[b]
    <3>1. PICK o \in Outcome : Happens(a, o)
      BY <2>3 DEF run, skip, Outcome
    <3> QED
      BY <2>3, <3>1, Happening
  <2>4. ASSUME skip(b)
        PROVE  happened'[b]["started"] = happened[b]["started"] /\ happened'[b]["refused"] = happened[b]["refused"]
    <3>1. Happens(b, "skipped") /\ "skipped" \in Outcome /\ "started" \in Outcome /\ "refused" \in Outcome
      BY <2>4 DEF skip, Outcome
    <3> QED
      BY <3>1, Happening
  <2>5. ASSUME NEW a \in Batch, NEW o \in {"passed", "failed", "threw"}, subject_ends(a, o)
        PROVE  happened'[b]["started"] <= happened[b]["started"] /\ happened'[b]["refused"] = happened[b]["refused"]
    <3>1. happened' = [happened EXCEPT ![a] = ended(happened[a], o)] /\ happened \in [Batch -> [Outcome -> Nat]]
      BY <2>5 DEF subject_ends, IInv, Typed
    <3>2. CASE a # b
      BY <2>0, <3>1, <3>2
    <3>3. CASE a = b
      <4>1. happened'[b] = ended(happened[b], o)
        BY <3>1, <3>3
      <4>2. ended(happened[b], o)["started"] = happened[b]["started"] - 1
            /\ ended(happened[b], o)["refused"] = happened[b]["refused"]
        BY DEF ended, Outcome
      <4> QED
        BY <2>0, <4>1, <4>2
    <3> QED
      BY <3>2, <3>3
  <2>6. ASSUME NEW a \in Batch, Test(a) \/ report(a) \/ destroy(a) PROVE happened' = happened
    BY <2>6 DEF Test, report, destroy
  <2>7. ASSUME NEW a \in Batch, reset(a) PROVE happened'[b] = happened[b] \/ happened'[b] = Nothing
    BY <2>7 DEF reset, IInv, Typed
  <2>8. ASSUME reset_global PROVE happened'[b] = happened[b] \/ happened'[b] = Nothing
    BY <2>8 DEF reset_global
  <2>9. CASE UNCHANGED vars
    BY <2>1, <2>9 DEF vars
  <2>10. CASE \/ skip(b) \/ \E a \in Batch : \E o \in {"passed", "failed", "threw"} : subject_ends(a, o)
    <3>0. \A o \in Outcome : happened'[b][o] \in Nat
      BY NextInv DEF IInv, Typed
    <3>1. /\ happened'[b]["started"] <= happened[b]["started"]
          /\ happened'[b]["refused"] = happened[b]["refused"]
      BY <2>0, <2>4, <2>5, <2>10
    <3> QED
      BY <2>0, <3>0, <3>1 DEF Outcome
  <2>11. CASE \E a \in Batch : run(a) \/ skip(a)
    BY <2>1, <2>2, <2>3, <2>10, <2>11
  <2>12. CASE \E a \in Batch : Test(a) \/ report(a) \/ destroy(a) \/ reset(a)
    BY <2>1, <2>6, <2>7, <2>12
  <2>13. CASE reset_global
    BY <2>1, <2>8, <2>13
  <2> QED
    BY <2>9, <2>10, <2>11, <2>12, <2>13 DEF Next
<1> QED
  BY <1>1, Invariance, PTL DEF Spec, FailureStops

-----------------------------------------------------------------------------
(* The totals.  What is counted over batches and outcomes is a sum.        *)

Calls == [p \in Batch \X Outcome |-> happened[p[1]][p[2]]]

CountView(B, O) ==
    /\ Count(B, O) \in Nat
    /\ Count(B, O) = Total(Calls, B \X O)

LEMMA CountIsTotal ==
  ASSUME happened \in [Batch -> [Outcome -> Nat]],
         NEW B \in SUBSET Batch, IsFiniteSet(B), NEW O \in SUBSET Outcome
  PROVE  CountView(B, O)
<1> DEFINE S == B \X O
           f(p) == happened[p[1]][p[2]]
           Body(it) == [s \in SUBSET S |->
                           IF s = {} THEN 0
                           ELSE LET x == CHOOSE x \in s : TRUE IN f(x) + it[s \ {x}]]
<1>1. IsFiniteSet(Outcome) /\ IsFiniteSet(S)
  <2>1. IsFiniteSet(Outcome)
    <3>1. Outcome = {"started"} \cup {"passed"} \cup {"failed"} \cup {"threw"} \cup {"refused"} \cup {"skipped"}
      BY DEF Outcome
    <3> QED
      BY <3>1, FS_Singleton, FS_Union
  <2> QED
    BY <2>1, FS_Subset, FS_Product
<1>2. \A p \in S : Calls[p] = f(p) /\ Calls[p] \in Nat
  BY DEF Calls
<1>3. Count(B, O) = (CHOOSE it : it = Body(it))[S]
  BY DEF Count, MapThenSumSet, MapThenFoldSet
<1>4. \E it : it = Body(it)
  <2> DEFINE pick == [s \in SUBSET S |-> CHOOSE x \in s : TRUE]
             F == [x \in S |-> [n \in Nat |-> f(x) + n]]
  <2>1. F \in [S -> [Nat -> Nat]] /\ 0 \in Nat
    BY <1>2
  <2>2. \A s \in SUBSET S : s # {} => pick[s] \in s
    OBVIOUS
  <2>3. PICK it \in [SUBSET S -> Nat] : Recurs(it, S, 0, pick, F)
    <3>1. \A T : IsFiniteSet(T) => \A D : \A d \in D : \A p : \A G \in [T -> [D -> D]] :
            (\A s \in SUBSET T : s # {} => p[s] \in s) => \E it \in [SUBSET T -> D] : Recurs(it, T, d, p, G)
      BY SetRecursion
    <3> HIDE DEF pick, F, S
    <3> QED
      BY <1>1, <2>1, <2>2, <3>1
  <2>4. ASSUME NEW s \in SUBSET S PROVE it[s] = Body(it)[s]
    <3>1. CASE s = {}
      BY <2>3, <3>1 DEF Recurs
    <3>2. CASE s # {}
      <4> DEFINE x == CHOOSE x \in s : TRUE
      <4>1. x \in s /\ x \in S /\ pick[s] = x /\ s \ {x} \in SUBSET S
        BY <3>2
      <4>2. it[s] = F[pick[s]][it[s \ {pick[s]}]]
        <5> HIDE DEF F, pick
        <5> QED BY <2>3, <3>2 DEF Recurs
      <4>3. it[s \ {x}] \in Nat
        BY <2>3, <4>1
      <4>4. it[s] = f(x) + it[s \ {x}]
        <5> HIDE DEF pick, x, f
        <5> QED BY <4>1, <4>2, <4>3
      <4> QED
        BY <3>2, <4>4
    <3> QED
      BY <3>1, <3>2
  <2>5. it = Body(it)
    <3>1. it = [s \in SUBSET S |-> it[s]]
      BY <2>3
    <3>2. Body(it) = [s \in SUBSET S |-> Body(it)[s]]
      OBVIOUS
    <3> HIDE DEF Body
    <3> QED
      BY <2>4, <3>1, <3>2
  <2> QED
    BY <2>5
<1> DEFINE c == CHOOSE it : it = Body(it)
<1>5. c = Body(c)
  <2> HIDE DEF Body
  <2> QED BY <1>4
<1> HIDE DEF c
<1>6. c = [s \in SUBSET S |-> c[s]] /\ c[{}] = 0
  BY <1>5
<1>7. ASSUME NEW s \in SUBSET S, s # {} PROVE \E x \in s : c[s] = Calls[x] + c[s \ {x}]
  <2> DEFINE x == CHOOSE x \in s : TRUE
  <2>1. x \in s
    BY <1>7
  <2>2. c[s] = f(x) + c[s \ {x}]
    <3>1. Body(c)[s] = f(x) + c[s \ {x}]
      BY <1>7
    <3> HIDE DEF Body
    <3> QED
      BY <1>5, <3>1
  <2> HIDE DEF x
  <2> QED
    BY <1>2, <2>1, <2>2
<1>8. IsSum(c, Calls, S)
  <2>1. SumsUp(c, Calls, S)
    BY <1>6, <1>7 DEF SumsUp
  <2> HIDE DEF S, f
  <2> QED
    BY <1>1, <1>2, <2>1, SumByDefinition
<1> HIDE DEF S, Body
<1>9. c[S] = Total(Calls, S) /\ Total(Calls, S) \in Nat
  BY <1>1, <1>2, <1>8, SumIsTotal
<1> QED
  BY <1>3, <1>9 DEF c, S, CountView

Runs  == {"started", "passed", "failed", "threw"}
Skips == {"refused", "skipped"}
CallCounts == [Batch \X Outcome -> Nat]

\* The counters of s are the totals of c over these batches.
Adds(c, s, B) ==
    /\ s.cases_run = Total(c, B \X Runs)
    /\ s.cases_failed = Total(c, B \X {"failed"})
    /\ cases_skipped(s) = Total(c, B \X Skips)

LEMMA FiniteCalls ==
  ASSUME NEW B, IsFiniteSet(B), NEW O \in SUBSET Outcome
  PROVE  IsFiniteSet(B \X O)
<1>1. IsFiniteSet(Outcome)
  <2>1. Outcome = {"started"} \cup {"passed"} \cup {"failed"} \cup {"threw"} \cup {"refused"} \cup {"skipped"}
    BY DEF Outcome
  <2> QED
    BY <2>1, FS_Singleton, FS_Union
<1> QED
  BY <1>1, FS_Subset, FS_Product

LEMMA RunsAndSkips == Runs \in SUBSET Outcome /\ Skips \in SUBSET Outcome /\ {"failed"} \in SUBSET Outcome
BY DEF Runs, Skips, Outcome

\* The totals of one batch, written out.
LEMMA OneBatch ==
  ASSUME NEW c \in CallCounts, NEW b \in Batch
  PROVE  /\ Total(c, {b} \X Runs) = c[<<b, "started">>] + c[<<b, "passed">>] + c[<<b, "failed">>] + c[<<b, "threw">>]
         /\ Total(c, {b} \X {"failed"}) = c[<<b, "failed">>]
         /\ Total(c, {b} \X Skips) = c[<<b, "refused">>] + c[<<b, "skipped">>]
<1>1. ASSUME NEW O \in SUBSET Outcome, NEW o \in Outcome \ O
      PROVE  Total(c, {b} \X (O \cup {o})) = c[<<b, o>>] + Total(c, {b} \X O)
  <2> DEFINE S == {b} \X O
  <2>1. IsFiniteSet(S)
    BY FiniteCalls, FS_Singleton
  <2>2. S \cup {<<b, o>>} = {b} \X (O \cup {o}) /\ <<b, o>> \notin S
    OBVIOUS
  <2>3. \A y \in S \cup {<<b, o>>} : c[y] \in Nat
    BY DEF CallCounts
  <2>4. Total(c, S \cup {<<b, o>>}) = c[<<b, o>>] + Total(c, S)
    <3> HIDE DEF S
    <3> QED BY <2>1, <2>2, <2>3, TotalAdd
  <2> QED
    BY <2>2, <2>4
<1>2. Total(c, {b} \X {}) = 0
  <2>1. {b} \X {} = {}
    OBVIOUS
  <2> QED
    BY <2>1, TotalEmpty
<1>3. \A o \in Outcome : c[<<b, o>>] \in Nat
  BY DEF CallCounts
<1>4. ASSUME NEW o \in Outcome PROVE Total(c, {b} \X {o}) = c[<<b, o>>]
  <2>1. {} \in SUBSET Outcome /\ o \in Outcome \ {} /\ {} \cup {o} = {o}
    OBVIOUS
  <2>2. Total(c, {b} \X ({} \cup {o})) = c[<<b, o>>] + Total(c, {b} \X {})
    BY <1>1, <2>1
  <2> QED
    BY <1>2, <1>3, <2>1, <2>2
<1>5. Total(c, {b} \X Skips) = c[<<b, "refused">>] + c[<<b, "skipped">>]
  <2>1. {"skipped"} \in SUBSET Outcome /\ "refused" \in Outcome \ {"skipped"} /\ {"skipped"} \cup {"refused"} = Skips
    BY DEF Skips, Outcome
  <2>2. "skipped" \in Outcome
    BY DEF Outcome
  <2> QED
    BY <1>1, <1>4, <2>1, <2>2
<1>6. Total(c, {b} \X Runs) = c[<<b, "started">>] + c[<<b, "passed">>] + c[<<b, "failed">>] + c[<<b, "threw">>]
  <2> DEFINE O1 == {"threw"}
             O2 == O1 \cup {"failed"}
             O3 == O2 \cup {"passed"}
             O4 == O3 \cup {"started"}
  <2>1. /\ O1 \in SUBSET Outcome /\ O2 \in SUBSET Outcome /\ O3 \in SUBSET Outcome /\ O4 = Runs
        /\ "threw" \in Outcome /\ "failed" \in Outcome \ O1 /\ "passed" \in Outcome \ O2 /\ "started" \in Outcome \ O3
    BY DEF Outcome, Runs
  <2>2. Total(c, {b} \X O1) = c[<<b, "threw">>]
    BY <1>4, <2>1
  <2> HIDE DEF O1
  <2>3. Total(c, {b} \X O2) = c[<<b, "failed">>] + Total(c, {b} \X O1)
    BY <1>1, <2>1
  <2> HIDE DEF O2
  <2>4. Total(c, {b} \X O3) = c[<<b, "passed">>] + Total(c, {b} \X O2)
    BY <1>1, <2>1
  <2> HIDE DEF O3
  <2>5. Total(c, {b} \X O4) = c[<<b, "started">>] + Total(c, {b} \X O3)
    BY <1>1, <2>1
  <2>6. c[<<b, "started">>] \in Nat /\ c[<<b, "passed">>] \in Nat /\ c[<<b, "failed">>] \in Nat /\ c[<<b, "threw">>] \in Nat
    BY <1>3 DEF Outcome
  <2> HIDE DEF O4
  <2> QED
    BY <2>1, <2>2, <2>3, <2>4, <2>5, <2>6
<1> QED
  BY <1>4, <1>5, <1>6 DEF Outcome

\* The counters of one more batch are added.
LEMMA OneMoreBatch ==
  ASSUME NEW c \in CallCounts, NEW B \in SUBSET Batch, IsFiniteSet(B), NEW b \in Batch \ B,
         NEW g \in Stats, NEW s \in Stats, Adds(c, g, B), Adds(c, s, {b})
  PROVE  Adds(c, added(g, s), B \cup {b})
<1>1. ASSUME NEW O \in SUBSET Outcome
      PROVE  Total(c, (B \cup {b}) \X O) = Total(c, B \X O) + Total(c, {b} \X O)
  <2> DEFINE S == B \X O
             T == {b} \X O
  <2>1. IsFiniteSet(S) /\ IsFiniteSet(T)
    BY FiniteCalls, FS_Singleton
  <2>2. S \cap T = {} /\ S \cup T = (B \cup {b}) \X O
    OBVIOUS
  <2>3. \A y \in S \cup T : c[y] \in Nat
    BY DEF CallCounts
  <2>4. Total(c, S \cup T) = Total(c, S) + Total(c, T)
    <3> HIDE DEF S, T
    <3> QED BY <2>1, <2>2, <2>3, TotalUnion
  <2> QED
    BY <2>2, <2>4
<1>2. /\ added(g, s).cases_run = g.cases_run + s.cases_run
      /\ added(g, s).cases_failed = g.cases_failed + s.cases_failed
      /\ cases_skipped(added(g, s)) = cases_skipped(g) + cases_skipped(s)
  <2>1. g \in [Fields -> Nat] /\ s \in [Fields -> Nat]
    BY DEF Stats, Zero, Fields
  <2>2. \A f \in Fields : added(g, s)[f] = g[f] + s[f] /\ g[f] \in Nat /\ s[f] \in Nat
    BY <2>1 DEF added
  <2> QED
    BY <2>2 DEF Fields, cases_skipped
<1> QED
  BY <1>1, <1>2, RunsAndSkips DEF Adds

LEMMA SameCalls ==
  ASSUME NEW c \in CallCounts, NEW d, NEW B \in SUBSET Batch, IsFiniteSet(B),
         \A b \in B, o \in Outcome : d[<<b, o>>] = c[<<b, o>>], NEW s, Adds(c, s, B)
  PROVE  Adds(d, s, B)
<1>1. ASSUME NEW O \in SUBSET Outcome PROVE Total(d, B \X O) = Total(c, B \X O)
  <2>1. IsFiniteSet(B \X O)
    BY FiniteCalls
  <2>2. \A y \in B \X O : c[y] \in Nat /\ d[y] = c[y]
    BY DEF CallCounts
  <2> QED
    BY <2>1, <2>2, TotalSame
<1> QED
  BY <1>1, RunsAndSkips DEF Adds

LEMMA NoCalls ==
  ASSUME NEW c, NEW B, IsFiniteSet(B), \A b \in B, o \in Outcome : c[<<b, o>>] = 0
  PROVE  Adds(c, Zero, B)
<1>1. ASSUME NEW O \in SUBSET Outcome PROVE Total(c, B \X O) = 0
  <2>1. IsFiniteSet(B \X O)
    BY FiniteCalls
  <2>2. \A y \in B \X O : c[y] = 0
    OBVIOUS
  <2> QED
    BY <2>1, <2>2, TotalZero
<1> QED
  <2>1. Zero.cases_run = 0 /\ Zero.cases_failed = 0 /\ cases_skipped(Zero) = 0
    BY DEF Zero, cases_skipped
  <2> QED
    BY <1>1, <2>1, RunsAndSkips DEF Adds

-----------------------------------------------------------------------------
(* The counters of a batch that is not destroyed tell what happened in it;  *)
(* those of the thread are the totals of the destroyed ones; and a summary, *)
(* once a batch is gone, stays as its destructor left it.                   *)

Accounts(s, h) ==
    /\ s.cases_run = h["started"] + h["passed"] + h["failed"] + h["threw"]
    /\ cases_skipped(s) = h["refused"] + h["skipped"]

Tallied == \A b \in Batch : life[b] # "gone" => Accounts(stats[b], happened[b])

Told ==
    \A b \in Batch : life[b] = "gone" /\ happened[b]["failed"] > 0 /\ ~no_summary[b] /\ ~reported[b] =>
        summary[b] = "FAILED"

Grand == IsFiniteSet(Gone) /\ Adds(Calls, global_stats, Gone)

RInv == Tallied /\ Told /\ Grand

LEMMA CallsTyped ==
  ASSUME happened \in [Batch -> [Outcome -> Nat]]
  PROVE  /\ Calls \in CallCounts
         /\ \A b \in Batch, o \in Outcome : Calls[<<b, o>>] = happened[b][o]
BY DEF Calls, CallCounts

LEMMA BatchAdds ==
  ASSUME happened \in [Batch -> [Outcome -> Nat]], NEW b \in Batch, NEW s,
         Accounts(s, happened[b]), s.cases_failed = happened[b]["failed"]
  PROVE  Adds(Calls, s, {b})
<1>1. Calls \in CallCounts
  BY CallsTyped
<1>2. /\ Total(Calls, {b} \X Runs) = Calls[<<b, "started">>] + Calls[<<b, "passed">>]
                                     + Calls[<<b, "failed">>] + Calls[<<b, "threw">>]
      /\ Total(Calls, {b} \X {"failed"}) = Calls[<<b, "failed">>]
      /\ Total(Calls, {b} \X Skips) = Calls[<<b, "refused">>] + Calls[<<b, "skipped">>]
  BY <1>1, OneBatch
<1>3. \A o \in Outcome : Calls[<<b, o>>] = happened[b][o]
  BY CallsTyped
<1> QED
  BY <1>2, <1>3 DEF Adds, Accounts, Outcome

LEMMA CallsTypedNext ==
  ASSUME happened' \in [Batch -> [Outcome -> Nat]]
  PROVE  /\ Calls' \in CallCounts
         /\ \A b \in Batch, o \in Outcome : (Calls')[<<b, o>>] = happened'[b][o]
BY DEF Calls, CallCounts

LEMMA TellsAdds ==
  ASSUME happened \in [Batch -> [Outcome -> Nat]], NEW B \in SUBSET Batch, IsFiniteSet(B), NEW s
  PROVE  Tells(s, B) <=> Adds(Calls, s, B)
<1>1. \A O \in SUBSET Outcome : CountView(B, O)
  BY CountIsTotal
<1> QED
  BY <1>1, RunsAndSkips DEF Tells, Adds, CountView, Runs, Skips

\* As long as no batch is destroyed, the grand totals change only when those of
\* the destroyed ones do.
LEMMA GrandKept ==
  ASSUME IInv, RInv, IInv', Gone' = Gone, UNCHANGED global_stats,
         \A b \in Gone : happened'[b] = happened[b]
  PROVE  Grand'
<1>1. /\ happened \in [Batch -> [Outcome -> Nat]] /\ happened' \in [Batch -> [Outcome -> Nat]]
      /\ Gone \in SUBSET Batch /\ IsFiniteSet(Gone) /\ Adds(Calls, global_stats, Gone)
  BY DEF IInv, Typed, RInv, Grand, Gone
<1>2. \A b \in Gone, o \in Outcome : (Calls')[<<b, o>>] = Calls[<<b, o>>]
  <2>1. \A b \in Batch, o \in Outcome : (Calls')[<<b, o>>] = happened'[b][o]
    BY <1>1, CallsTypedNext
  <2>2. \A b \in Batch, o \in Outcome : Calls[<<b, o>>] = happened[b][o]
    BY <1>1, CallsTyped
  <2>3. ASSUME NEW b \in Gone, NEW o \in Outcome PROVE (Calls')[<<b, o>>] = Calls[<<b, o>>]
    <3>1. b \in Batch /\ happened'[b] = happened[b]
      BY <1>1
    <3>2. (Calls')[<<b, o>>] = happened'[b][o]
      BY <2>1, <3>1
    <3>3. Calls[<<b, o>>] = happened[b][o]
      BY <2>2, <3>1
    <3> QED
      BY <3>1, <3>2, <3>3
  <2> QED
    BY <2>3
<1>3. Adds(Calls', global_stats, Gone)
  BY <1>1, <1>2, CallsTyped, SameCalls
<1>4. Adds(Calls', global_stats', Gone')
  BY <1>3
<1> QED
  BY <1>1, <1>4 DEF Grand

\* A step of a living batch: its counters keep telling, nobody else's change.
LEMMA LivingStep ==
  ASSUME IInv, RInv, IInv', NEW b \in Batch, life[b] = "alive",
         UNCHANGED <<life, no_summary, global_stats>>,
         \A a \in Batch : a # b => /\ stats'[a] = stats[a] /\ happened'[a] = happened[a]
                                   /\ reported'[a] = reported[a] /\ summary'[a] = summary[a],
         Accounts(stats'[b], happened'[b])
  PROVE  RInv'
<1>1. Tallied'
  BY DEF RInv, Tallied
<1>2. Told'
  BY DEF RInv, Told
<1>3. Gone' = Gone /\ b \notin Gone
  BY DEF Gone
<1>4. Grand'
  BY <1>3, GrandKept DEF Gone
<1> QED
  BY <1>1, <1>2, <1>4 DEF RInv

LEMMA PreparedSkips ==
  ASSUME IInv, NEW b \in Batch, NEW run_mode \in BOOLEAN, prepare(b, run_mode)
  PROVE  cases_skipped(stats'[b]) = cases_skipped(stats[b]) + (IF ~Stopped(b) /\ run_mode THEN 0 ELSE 1)
<1> DEFINE kind == IF Stopped(b) THEN "cases_skipped_implicitly"
                   ELSE IF run_mode THEN "cases_run" ELSE "cases_skipped_explicitly"
           s == stats[b]
<1>1. s \in [Fields -> Nat] /\ stats \in [Batch -> Stats]
  BY DEF IInv, Typed, Stats, Zero, Fields
<1>2. stats'[b] = another(s, kind)
  BY <1>1 DEF prepare
<1>3. \A f \in Fields : another(s, kind)[f] = IF f \in {"cases_total", kind} THEN s[f] + 1 ELSE s[f]
  BY <1>1 DEF another
<1>4. /\ "cases_skipped_explicitly" \in Fields /\ "cases_skipped_implicitly" \in Fields
      /\ s["cases_skipped_explicitly"] \in Nat /\ s["cases_skipped_implicitly"] \in Nat
  BY <1>1 DEF Fields
<1>5. cases_skipped(another(s, kind)) = cases_skipped(s) + (IF ~Stopped(b) /\ run_mode THEN 0 ELSE 1)
  <2>1. CASE Stopped(b)
    BY <1>3, <1>4, <2>1 DEF cases_skipped
  <2>2. CASE ~Stopped(b) /\ run_mode
    BY <1>3, <1>4, <2>2 DEF cases_skipped
  <2>3. CASE ~Stopped(b) /\ ~run_mode
    BY <1>3, <1>4, <2>3 DEF cases_skipped
  <2> QED
    BY <2>1, <2>2, <2>3
<1> QED
  BY <1>2, <1>5

LEMMA CallReports ==
  ASSUME IInv, RInv, IInv', NEW b \in Batch, run(b) \/ skip(b)
  PROVE  RInv'
<1>1. /\ life[b] = "alive" /\ UNCHANGED <<life, no_summary, reported, global_stats, summary>>
      /\ Accounts(stats[b], happened[b])
  BY DEF run, skip, CanCall, Usable, RInv, Tallied
<1>2. \A o \in Outcome : happened[b][o] \in Nat
  BY DEF IInv, Typed
<1>3. stats[b].cases_run \in Nat /\ cases_skipped(stats[b]) \in Nat
  BY <1>1, <1>2 DEF Accounts, Outcome
<1>4. PICK run_mode \in BOOLEAN :
          /\ prepare(b, run_mode)
          /\ Happens(b, IF run_mode THEN IF Stopped(b) THEN "refused" ELSE "started" ELSE "skipped")
  BY DEF run, skip
<1> DEFINE o == IF run_mode THEN IF Stopped(b) THEN "refused" ELSE "started" ELSE "skipped"
<1>5. o \in Outcome
  BY DEF Outcome
<1>6. /\ happened'[b][o] = happened[b][o] + 1
      /\ \A p \in Outcome : p # o => happened'[b][p] = happened[b][p]
      /\ \A a \in Batch : a # b => happened'[a] = happened[a] /\ stats'[a] = stats[a]
  <2> HIDE DEF o
  <2> QED BY <1>4, <1>5, Happening, Prepared DEF o
<1>7. /\ stats'[b].cases_run = stats[b].cases_run + (IF ~Stopped(b) /\ run_mode THEN 1 ELSE 0)
      /\ cases_skipped(stats'[b]) = cases_skipped(stats[b]) + (IF ~Stopped(b) /\ run_mode THEN 0 ELSE 1)
  BY <1>4, Prepared, PreparedSkips
<1>8. Accounts(stats'[b], happened'[b])
  <2>1. CASE ~Stopped(b) /\ run_mode
    BY <1>1, <1>2, <1>6, <1>7, <2>1 DEF Accounts, Outcome
  <2>2. CASE Stopped(b) /\ run_mode
    BY <1>1, <1>2, <1>6, <1>7, <2>2 DEF Accounts, Outcome
  <2>3. CASE ~run_mode
    <3>1. /\ o = "skipped" /\ cases_skipped(stats'[b]) = cases_skipped(stats[b]) + 1
          /\ stats'[b].cases_run = stats[b].cases_run
      BY <1>3, <1>7, <2>3
    <3>2. /\ happened'[b]["skipped"] = happened[b]["skipped"] + 1
          /\ happened'[b]["started"] = happened[b]["started"] /\ happened'[b]["passed"] = happened[b]["passed"]
          /\ happened'[b]["failed"] = happened[b]["failed"] /\ happened'[b]["threw"] = happened[b]["threw"]
          /\ happened'[b]["refused"] = happened[b]["refused"]
      BY <1>6, <3>1 DEF Outcome
    <3>3. happened[b]["refused"] \in Nat /\ happened[b]["skipped"] \in Nat
      BY <1>2 DEF Outcome
    <3>4. stats'[b].cases_run = happened'[b]["started"] + happened'[b]["passed"]
                                + happened'[b]["failed"] + happened'[b]["threw"]
      BY <1>1, <3>1, <3>2 DEF Accounts
    <3>5. cases_skipped(stats'[b]) = happened'[b]["refused"] + happened'[b]["skipped"]
      BY <1>1, <3>1, <3>2, <3>3 DEF Accounts
    <3> QED
      BY <3>4, <3>5 DEF Accounts
  <2> QED
    BY <2>1, <2>2, <2>3
<1> QED
  BY <1>1, <1>6, <1>8, LivingStep

LEMMA SubjectReports ==
  ASSUME IInv, RInv, IInv', NEW b \in Batch, NEW outcome \in {"passed", "failed", "threw"}, subject_ends(b, outcome)
  PROVE  RInv'
<1>1. life[b] = "alive" /\ happened[b]["started"] >= 1
  BY DEF subject_ends, IInv, Typed, Nested
<1>2. /\ UNCHANGED <<life, no_summary, reported, global_stats, summary>>
      /\ happened' = [happened EXCEPT ![b] = ended(happened[b], outcome)]
      /\ stats' = IF outcome = "failed" THEN [stats EXCEPT ![b].cases_failed = @ + 1] ELSE stats
  BY DEF subject_ends
<1>3. /\ happened \in [Batch -> [Outcome -> Nat]] /\ stats \in [Batch -> Stats]
      /\ \A o \in Outcome : happened[b][o] \in Nat
  BY DEF IInv, Typed
<1>4. /\ happened'[b] = ended(happened[b], outcome)
      /\ \A a \in Batch : a # b => happened'[a] = happened[a] /\ stats'[a] = stats[a]
  BY <1>2, <1>3
<1>5. \A o \in Outcome : ended(happened[b], outcome)[o] =
          IF o = "started" THEN happened[b][o] - 1
          ELSE IF o = outcome THEN happened[b][o] + 1 ELSE happened[b][o]
  BY DEF ended
<1>6. stats'[b].cases_run = stats[b].cases_run /\ cases_skipped(stats'[b]) = cases_skipped(stats[b])
  BY <1>2, <1>3, StatsAreRecords DEF cases_skipped
<1>7. Accounts(stats[b], happened[b])
  BY <1>1 DEF RInv, Tallied
<1>8. Accounts(stats'[b], happened'[b])
  <2> DEFINE h == happened[b]
             g == happened'[b]
  <2>1. /\ g["started"] = h["started"] - 1
        /\ g["passed"] = IF outcome = "passed" THEN h["passed"] + 1 ELSE h["passed"]
        /\ g["failed"] = IF outcome = "failed" THEN h["failed"] + 1 ELSE h["failed"]
        /\ g["threw"] = IF outcome = "threw" THEN h["threw"] + 1 ELSE h["threw"]
        /\ g["refused"] = h["refused"] /\ g["skipped"] = h["skipped"]
    BY <1>4, <1>5 DEF Outcome
  <2>2. /\ h["started"] \in Nat /\ h["passed"] \in Nat /\ h["failed"] \in Nat /\ h["threw"] \in Nat
        /\ h["refused"] \in Nat /\ h["skipped"] \in Nat
    BY <1>3 DEF Outcome
  <2> HIDE DEF g, h
  <2>3. g["started"] + g["passed"] + g["failed"] + g["threw"]
            = h["started"] + h["passed"] + h["failed"] + h["threw"]
    BY <2>1, <2>2
  <2>4. g["refused"] + g["skipped"] = h["refused"] + h["skipped"]
    BY <2>1
  <2>5. stats[b].cases_run = h["started"] + h["passed"] + h["failed"] + h["threw"]
        /\ cases_skipped(stats[b]) = h["refused"] + h["skipped"]
    BY <1>7 DEF Accounts, h
  <2>6. stats'[b].cases_run = g["started"] + g["passed"] + g["failed"] + g["threw"]
        /\ cases_skipped(stats'[b]) = g["refused"] + g["skipped"]
    BY <1>6, <2>3, <2>4, <2>5
  <2> QED
    BY <2>6 DEF Accounts, g
<1> QED
  BY <1>1, <1>2, <1>4, <1>8, LivingStep

LEMMA NoneTold == Accounts(Zero, Nothing)
<1>1. /\ Zero.cases_run = 0 /\ cases_skipped(Zero) = 0
      /\ \A o \in Outcome : Nothing[o] = 0
  BY DEF Zero, cases_skipped, Nothing
<1> QED
  BY <1>1 DEF Accounts, Outcome

LEMMA ResetReports ==
  ASSUME IInv, RInv, IInv', NEW b \in Batch, reset(b)
  PROVE  RInv'
<1>1. /\ life[b] = "alive" /\ UNCHANGED <<life, no_summary, reported, global_stats, summary>>
      /\ stats' = [stats EXCEPT ![b] = Zero] /\ happened' = [happened EXCEPT ![b] = Nothing]
      /\ stats \in [Batch -> Stats] /\ happened \in [Batch -> [Outcome -> Nat]]
  BY DEF reset, Usable, IInv, Typed
<1>2. /\ stats'[b] = Zero /\ happened'[b] = Nothing
      /\ \A a \in Batch : a # b => happened'[a] = happened[a] /\ stats'[a] = stats[a]
  BY <1>1
<1> QED
  BY <1>1, <1>2, NoneTold, LivingStep

LEMMA TestReports ==
  ASSUME IInv, RInv, IInv', NEW b \in Batch, Test(b)
  PROVE  RInv'
<1>1. /\ life[b] = "unborn" /\ life' = [life EXCEPT ![b] = "alive"]
      /\ UNCHANGED <<stats, reported, global_stats, summary, happened>>
      /\ \E n \in BOOLEAN : no_summary' = [no_summary EXCEPT ![b] = n]
      /\ life \in [Batch -> {"unborn", "alive", "gone"}] /\ no_summary \in [Batch -> BOOLEAN]
  BY DEF Test, IInv, Typed
<1>2. /\ life'[b] = "alive"
      /\ \A a \in Batch : a # b => life'[a] = life[a] /\ no_summary'[a] = no_summary[a]
  BY <1>1
<1>3. Tallied'
  BY <1>1, <1>2 DEF RInv, Tallied
<1>4. Told'
  BY <1>1, <1>2 DEF RInv, Told
<1>5. Gone' = Gone
  BY <1>1, <1>2 DEF Gone
<1>6. Grand'
  BY <1>1, <1>5, GrandKept
<1> QED
  BY <1>3, <1>4, <1>6 DEF RInv

LEMMA SummaryReports ==
  ASSUME IInv, RInv, IInv', NEW b \in Batch, report(b)
  PROVE  RInv'
<1>1. /\ life[b] = "alive" /\ UNCHANGED <<life, no_summary, global_stats, stats, happened>>
      /\ summary' = [summary EXCEPT ![b] = verdict(stats[b])]
      /\ summary \in [Batch -> {"none", "empty", "OK", "FAILED"}] /\ reported \in [Batch -> BOOLEAN]
      /\ \E s \in BOOLEAN : reported' = [reported EXCEPT ![b] = @ \/ s]
  BY DEF report, Usable, IInv, Typed
<1>2. \A a \in Batch : a # b => reported'[a] = reported[a] /\ summary'[a] = summary[a]
  BY <1>1
<1>3. Accounts(stats'[b], happened'[b])
  BY <1>1 DEF RInv, Tallied
<1> QED
  BY <1>1, <1>2, <1>3, LivingStep

\* The destructor: what the batch counted goes to the grand totals, and its
\* failures to the summary.
LEMMA DestroyReports ==
  ASSUME IInv, RInv, IInv', NEW b \in Batch, destroy(b)
  PROVE  RInv'
<1>1. /\ life[b] = "alive" /\ life' = [life EXCEPT ![b] = "gone"]
      /\ global_stats' = added(global_stats, stats[b])
      /\ summary' = IF no_summary[b] \/ reported[b] THEN summary
                    ELSE [summary EXCEPT ![b] = verdict(stats[b])]
      /\ UNCHANGED <<stop, no_summary, stats, reported, running, happened>>
  BY DEF destroy, Usable
<1>2. /\ life \in [Batch -> {"unborn", "alive", "gone"}] /\ global_stats \in Stats /\ stats[b] \in Stats
      /\ happened \in [Batch -> [Outcome -> Nat]] /\ summary \in [Batch -> {"none", "empty", "OK", "FAILED"}]
  BY DEF IInv, Typed
<1>3. life'[b] = "gone" /\ \A a \in Batch : a # b => life'[a] = life[a] /\ summary'[a] = summary[a]
  BY <1>1, <1>2
<1>4. Tallied'
  BY <1>1, <1>3 DEF RInv, Tallied
<1>5. stats[b].cases_failed = happened[b]["failed"] /\ Sum(stats[b]) /\ Accounts(stats[b], happened[b])
  BY <1>1 DEF IInv, Counted, RInv, Tallied
<1>6. Told'
  <2>1. ASSUME happened[b]["failed"] > 0, ~no_summary[b], ~reported[b] PROVE summary'[b] = "FAILED"
    <3>1. summary'[b] = verdict(stats[b])
      BY <1>1, <1>2, <2>1
    <3>2. stats[b].cases_failed > 0
      BY <1>5, <2>1
    <3>3. stats[b].cases_total # 0 /\ stats[b].cases_failed # 0
      <4>1. /\ stats[b].cases_run \in Nat /\ stats[b].cases_failed \in Nat /\ cases_skipped(stats[b]) \in Nat
            /\ stats[b].cases_failed <= stats[b].cases_run
        BY <1>2, StatsAreRecords DEF IInv, FewerFail, cases_skipped
      <4> QED
        BY <1>5, <3>2, <4>1 DEF Sum
    <3> QED
      BY <3>1, <3>3 DEF verdict, ok
  <2> QED
    BY <1>1, <1>3, <2>1 DEF RInv, Told
<1>7. Gone' = Gone \cup {b} /\ b \notin Gone /\ Gone \in SUBSET Batch
  BY <1>1, <1>3 DEF Gone
<1>8. IsFiniteSet(Gone) /\ Adds(Calls, global_stats, Gone) /\ Calls' = Calls
  BY <1>1 DEF RInv, Grand, Calls
<1>9. Adds(Calls, stats[b], {b})
  BY <1>2, <1>5, BatchAdds
<1>10. Adds(Calls, added(global_stats, stats[b]), Gone \cup {b})
  BY <1>2, <1>7, <1>8, <1>9, CallsTyped, OneMoreBatch
<1>11. IsFiniteSet(Gone \cup {b})
  BY <1>8, FS_AddElement
<1>12. Grand'
  BY <1>1, <1>7, <1>8, <1>10, <1>11 DEF Grand
<1> QED
  BY <1>4, <1>6, <1>12 DEF RInv

LEMMA ResetGlobalReports ==
  ASSUME IInv, RInv, IInv', reset_global
  PROVE  RInv'
<1>1. /\ global_stats' = Zero
      /\ happened' = [b \in Batch |-> IF life[b] = "gone" THEN Nothing ELSE happened[b]]
      /\ UNCHANGED <<life, stop, no_summary, stats, reported, running, summary>>
      /\ happened' \in [Batch -> [Outcome -> Nat]]
  BY DEF reset_global, IInv, Typed
<1>2. Tallied'
  BY <1>1 DEF RInv, Tallied
<1>3. Told'
  <2>1. \A b \in Batch : life[b] = "gone" => happened'[b]["failed"] = 0
    BY <1>1 DEF Nothing, Outcome
  <2> QED
    BY <1>1, <2>1 DEF Told
<1>4. Gone' = Gone /\ IsFiniteSet(Gone)
  BY <1>1 DEF Gone, RInv, Grand
<1>5. \A b \in Gone, o \in Outcome : (Calls')[<<b, o>>] = 0
  <2>1. \A b \in Gone, o \in Outcome : b \in Batch /\ happened'[b][o] = 0
    BY <1>1 DEF Gone, Nothing
  <2>2. \A b \in Batch, o \in Outcome : (Calls')[<<b, o>>] = happened'[b][o]
    BY <1>1, CallsTypedNext
  <2> QED
    BY <2>1, <2>2
<1>6. Adds(Calls', Zero, Gone)
  BY <1>4, <1>5, NoCalls
<1>7. Grand'
  BY <1>1, <1>4, <1>6 DEF Grand
<1> QED
  BY <1>2, <1>3, <1>7 DEF RInv

LEMMA ReportsInit == Init => RInv
<1> SUFFICES ASSUME Init PROVE RInv
  OBVIOUS
<1>1. Tallied /\ Told
  BY NoneTold DEF Init, Tallied, Told
<1>2. Gone = {}
  BY DEF Init, Gone
<1>3. IsFiniteSet({})
  BY FS_EmptySet
<1>4. Adds(Calls, Zero, {})
  BY <1>3, NoCalls
<1> QED
  BY <1>1, <1>2, <1>3, <1>4 DEF RInv, Grand, Init

LEMMA ReportsNext == IInv /\ RInv /\ IInv' /\ [Next]_vars => RInv'
<1> SUFFICES ASSUME IInv, RInv, IInv', [Next]_vars PROVE RInv'
  OBVIOUS
<1>1. CASE UNCHANGED vars
  BY <1>1 DEF vars, RInv, Tallied, Told, Grand, Gone, Calls
<1> QED
  BY <1>1, TestReports, CallReports, SubjectReports, SummaryReports, ResetReports, DestroyReports,
     ResetGlobalReports DEF Next

\* For any number of batches, however they are nested, and subjects that fail or
\* throw: the totals are those of what happened, and the failures of a batch are
\* told by its last summary (runner.hh:47-53, 358-359).
THEOREM ReportsAreTrue == Spec => []ReportsTell
<1>1. IInv /\ RInv => ReportsTell
  <2> SUFFICES ASSUME IInv, RInv PROVE ReportsTell
    OBVIOUS
  <2>1. /\ happened \in [Batch -> [Outcome -> Nat]]
        /\ Gone \in SUBSET Batch /\ IsFiniteSet(Gone) /\ Adds(Calls, global_stats, Gone)
    BY DEF IInv, Typed, RInv, Grand, Gone
  <2>2. Tells(global_stats, Gone)
    BY <2>1, TellsAdds
  <2>3. ASSUME NEW b \in Batch
        PROVE  /\ {b} \in SUBSET Batch /\ IsFiniteSet({b})
               /\ \A o \in Outcome : Calls[<<b, o>>] = happened[b][o]
    BY <2>1, CallsTyped, FS_Singleton
  <2>4. ASSUME NEW b \in Living PROVE Tells(stats[b], {b})
    <3>1. b \in Batch /\ life[b] = "alive"
      BY DEF Living
    <3>2. Accounts(stats[b], happened[b]) /\ stats[b].cases_failed = happened[b]["failed"]
      BY <3>1 DEF IInv, Counted, RInv, Tallied
    <3>3. Adds(Calls, stats[b], {b})
      BY <2>1, <3>1, <3>2, BatchAdds
    <3> QED
      BY <2>1, <2>3, <3>1, <3>3, TellsAdds
  <2>5. ASSUME NEW b \in Gone PROVE Count({b}, {"failed"}) = happened[b]["failed"]
    <3>1. b \in Batch
      BY DEF Gone
    <3>2. CountView({b}, {"failed"})
      BY <2>1, <2>3, <3>1, RunsAndSkips, CountIsTotal
    <3> QED
      BY <2>1, <2>3, <3>1, <3>2, CallsTyped, OneBatch DEF CountView, Outcome
  <2>6. FailuresTold
    BY <2>5 DEF FailuresTold, RInv, Told, Gone
  <2> QED
    BY <2>2, <2>4, <2>6 DEF ReportsTell, TotalsTell
<1> QED
  BY <1>1, InitInv, NextInv, ReportsInit, ReportsNext, PTL DEF Spec
===============================================================================
