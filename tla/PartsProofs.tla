----------------------------- MODULE PartsProofs -----------------------------
(***************************************************************************)
(* What the small parts promise, for every value of their constants: the   *)
(* counters over any unsigned type, files in any number, toggles at any    *)
(* depth of callbacks, errors of any kind, appenders shared by any threads *)
(* and any loggers, log files of any size, chains of clocks of any types,  *)
(* streams with manipulators in any number of statements, a floating-point *)
(* clock of any precision, statistics of any samples, paths of any length. *)
(***************************************************************************)
EXTENDS Counters, Toggles, Files, Errors, Appenders, RollingFileAppender,
        TickClocks, Streams, ModelClock, Stats, Paths, Inductions

(* Counters.  The capped counter needs no part of the argument but its own;  *)
(* the others step together, and wrap when the callback is called.           *)

CountersTyped ==
    /\ count \in CountType /\ capped \in CountType /\ limit \in CountType /\ guarded \in CountType
    /\ total \in Int /\ carries \in Int /\ beyond \in BOOLEAN

CountersInv == CountersTyped /\ CountersTell

LEMMA Wrapping ==
  ASSUME NEW n \in CountType
  PROVE  /\ inc(n) = (IF n = Cycle - 1 THEN 0 ELSE n + 1) /\ inc(n) \in CountType
         /\ dec(n) = (IF n = 0 THEN Cycle - 1 ELSE n - 1) /\ dec(n) \in CountType
<1>1. CASE n = Cycle - 1
  <2>1. (n + 1) % Cycle = 0
    BY <1>1, CycleAssumption DEF CountType
  <2> QED
    BY <1>1, <2>1, CycleAssumption DEF CountType, inc, dec
<1>2. CASE n # Cycle - 1 /\ n # 0
  BY <1>2, CycleAssumption DEF CountType, inc, dec
<1>3. CASE n = 0 /\ n # Cycle - 1
  BY <1>3, CycleAssumption DEF CountType, inc, dec
<1> QED
  BY <1>1, <1>2, <1>3

LEMMA CountersStart == CountersInit => CountersInv
<1> SUFFICES ASSUME CountersInit PROVE CountersInv
  OBVIOUS
<1>1. /\ count \in CountType /\ capped = count /\ guarded = count /\ total = count
      /\ limit \in CountType /\ carries = 0 /\ beyond = (capped > limit)
      /\ results = <<count, capped, guarded>>
  BY DEF CountersInit
<1>2. CountersTyped
  BY <1>1, CycleAssumption DEF CountersTyped, CountType
<1>3. OverflowsTold /\ CountersAgree
  BY <1>1, CycleAssumption DEF OverflowsTold, CountersAgree, CountType
<1>4. CapHolds
  <2>1. ~beyond => ~(capped > limit)
    BY <1>1
  <2>2. capped \in Int /\ limit \in Int
    BY <1>2, CycleAssumption DEF CountersTyped, CountType
  <2> QED
    BY <2>1, <2>2 DEF CapHolds
<1> QED
  BY <1>2, <1>3, <1>4 DEF CountersInv, CountersTell

LEMMA Incremented ==
  ASSUME CountersInv, NEW postfix \in BOOLEAN, increment(postfix)
  PROVE  CountersInv'
<1>1. /\ count' = inc(count) /\ capped' = capped_inc /\ guarded' = inc(guarded)
      /\ total' = total + 1 /\ limit' = limit
      /\ carries' = IF guarded > guarded' THEN carries + 1 ELSE carries
      /\ beyond' = (beyond /\ capped' > limit)
  BY DEF increment, guard
<1>2. /\ count \in CountType /\ capped \in CountType /\ limit \in CountType /\ guarded \in CountType
      /\ total \in Int /\ carries \in Int /\ beyond \in BOOLEAN /\ Cycle \in Nat /\ Cycle > 1
  BY CycleAssumption DEF CountersInv, CountersTyped
<1>3. capped' \in CountType /\ (capped <= limit => capped' <= limit)
  BY <1>1, <1>2, Wrapping DEF capped_inc, maxed, CountType
<1>4. CountersTyped'
  BY <1>1, <1>2, <1>3, Wrapping DEF CountersTyped
<1>5. OverflowsTold'
  <2>1. total = carries * Cycle + guarded
    BY DEF CountersInv, CountersTell, OverflowsTold
  <2>2. CASE guarded = Cycle - 1
    <3>1. guarded' = 0 /\ carries' = carries + 1
      BY <1>1, <1>2, <2>2, Wrapping DEF CountType
    <3>2. (carries + 1) * Cycle = carries * Cycle + Cycle
      BY <1>2
    <3> QED
      BY <1>1, <1>2, <2>1, <2>2, <3>1, <3>2 DEF OverflowsTold
  <2>3. CASE guarded # Cycle - 1
    <3>1. guarded' = guarded + 1 /\ carries' = carries
      BY <1>1, <1>2, <2>3, Wrapping DEF CountType
    <3> QED
      BY <1>1, <1>2, <2>1, <3>1 DEF OverflowsTold, CountType
  <2> QED
    BY <2>2, <2>3
<1>6. CapHolds'
  BY <1>1, <1>2, <1>3 DEF CountersInv, CountersTell, CapHolds, CountType
<1>7. CountersAgree'
  BY <1>1 DEF increment, CountersInv, CountersTell, CountersAgree
<1> QED
  BY <1>4, <1>5, <1>6, <1>7 DEF CountersInv, CountersTell

LEMMA Decremented ==
  ASSUME CountersInv, NEW postfix \in BOOLEAN, decrement(postfix)
  PROVE  CountersInv'
<1>1. /\ count' = dec(count) /\ capped' = dec(capped) /\ guarded' = dec(guarded)
      /\ total' = total - 1 /\ limit' = limit
      /\ carries' = carries - (IF guarded = 0 THEN 1 ELSE 0)
      /\ beyond' = (capped' > limit)
  BY DEF decrement
<1>2. /\ count \in CountType /\ capped \in CountType /\ limit \in CountType /\ guarded \in CountType
      /\ total \in Int /\ carries \in Int /\ Cycle \in Nat /\ Cycle > 1
  BY CycleAssumption DEF CountersInv, CountersTyped
<1>3. CountersTyped'
  BY <1>1, <1>2, Wrapping DEF CountersTyped
<1>4. OverflowsTold'
  <2>1. total = carries * Cycle + guarded
    BY DEF CountersInv, CountersTell, OverflowsTold
  <2>2. CASE guarded = 0
    <3>1. guarded' = Cycle - 1 /\ carries' = carries - 1
      BY <1>1, <1>2, <2>2, Wrapping
    <3>2. (carries - 1) * Cycle = carries * Cycle - Cycle
      BY <1>2
    <3> QED
      BY <1>1, <1>2, <2>1, <2>2, <3>1, <3>2 DEF OverflowsTold
  <2>3. CASE guarded # 0
    <3>1. guarded' = guarded - 1 /\ carries' = carries
      BY <1>1, <1>2, <2>3, Wrapping
    <3> QED
      BY <1>1, <1>2, <2>1, <3>1 DEF OverflowsTold, CountType
  <2> QED
    BY <2>2, <2>3
<1>5. CapHolds'
  <2>1. ~beyond' => ~(capped' > limit')
    BY <1>1
  <2>2. capped' \in Int /\ limit' \in Int
    BY <1>3, CycleAssumption DEF CountersTyped, CountType
  <2> QED
    BY <2>1, <2>2 DEF CapHolds
<1>6. CountersAgree'
  BY <1>1 DEF decrement, CountersInv, CountersTell, CountersAgree
<1> QED
  BY <1>3, <1>4, <1>5, <1>6 DEF CountersInv, CountersTell

LEMMA CountersStep == CountersInv /\ [CountersNext]_countersVars => CountersInv'
<1> SUFFICES ASSUME CountersInv, [CountersNext]_countersVars PROVE CountersInv'
  OBVIOUS
<1>1. ASSUME NEW n \in CountType, set(n) PROVE CountersInv'
  <2>1. /\ count' = n /\ capped' = n /\ guarded' = n /\ total' = n /\ carries' = 0 /\ beyond' = (n > limit)
        /\ limit' = limit /\ results' = results
    BY <1>1 DEF set
  <2>2. CountersTyped'
    BY <2>1, CycleAssumption DEF CountersInv, CountersTyped, CountType
  <2>3. OverflowsTold'
    BY <2>1, CycleAssumption DEF CountType, OverflowsTold
  <2>5. CapHolds'
    <3>1. ~beyond' => ~(capped' > limit')
      BY <2>1
    <3>2. capped' \in Int /\ limit' \in Int
      BY <2>2, CycleAssumption DEF CountersTyped, CountType
    <3> QED
      BY <3>1, <3>2 DEF CapHolds
  <2>4. CountersAgree'
    BY <2>1 DEF CountersInv, CountersTell, CountersAgree
  <2> QED
    BY <2>2, <2>3, <2>4, <2>5 DEF CountersInv, CountersTell
<1>2. ASSUME NEW n \in CountType, max(n) PROVE CountersInv'
  <2>1. /\ limit' = n /\ beyond' = (capped > n)
        /\ UNCHANGED <<count, capped, guarded, results, total, carries>>
    BY <1>2 DEF max
  <2>2. CountersTyped'
    BY <2>1 DEF CountersInv, CountersTyped
  <2>3. CapHolds'
    <3>1. ~beyond' => ~(capped' > limit')
      BY <2>1
    <3>2. capped' \in Int /\ limit' \in Int
      BY <2>2, CycleAssumption DEF CountersTyped, CountType
    <3> QED
      BY <3>1, <3>2 DEF CapHolds
  <2>4. OverflowsTold' /\ CountersAgree'
    BY <2>1 DEF CountersInv, CountersTell, OverflowsTold, CountersAgree
  <2> QED
    BY <2>2, <2>3, <2>4 DEF CountersInv, CountersTell
<1>3. CASE UNCHANGED countersVars
  BY <1>3 DEF countersVars, CountersInv, CountersTyped, CountersTell, OverflowsTold, CapHolds, CountersAgree
<1> QED
  BY <1>1, <1>2, <1>3, Incremented, Decremented DEF CountersNext

\* Over any unsigned type: callbacks tell every overflow, ++ respects the cap, and
\* plain and guarded counters agree (counter.hh:30-33, 61-63, 80-88).
THEOREM CountersCorrect == CountersSpec => []CountersTell
<1>1. CountersInv => CountersTell
  BY DEF CountersInv
<1> QED
  BY <1>1, CountersStart, CountersStep, PTL DEF CountersSpec

-----------------------------------------------------------------------------
(* Files.                                                                  *)

FilesTyped ==
    /\ f_ \in [File -> Handle \cup {Null}] /\ autoclose \in [File -> BOOLEAN] /\ alive \in [File -> BOOLEAN]
    /\ standard \subseteq Handle /\ opened \subseteq Handle

FilesInv == FilesTyped /\ OpenWhileOwned

LEMMA FilesStart == FilesInit => FilesInv
BY DEF FilesInit, FilesInv, FilesTyped, OpenWhileOwned, Owns

LEMMA Opened ==
  ASSUME FilesInv, NEW o \in File, NEW h \in Handle \cup {Null}, borrow(o, h) \/ open(o, h)
  PROVE  FilesInv'
<1>1. PICK own \in BOOLEAN :
          /\ ~alive[o] /\ alive' = [alive EXCEPT ![o] = TRUE]
          /\ f_' = [f_ EXCEPT ![o] = h] /\ autoclose' = [autoclose EXCEPT ![o] = own] /\ standard' = standard
          /\ opened' = IF own THEN opened \cup ({h} \ {Null}) ELSE opened
          /\ own => h \notin opened
  BY NullAssumption DEF borrow, open, construct, FilesInv, FilesTyped
<1>2. FilesTyped'
  BY <1>1 DEF FilesInv, FilesTyped
<1>3. \A p \in File : Owns(p)' <=> Owns(p) \/ (p = o /\ own /\ h # Null)
  BY <1>1 DEF Owns, FilesInv, FilesTyped
<1>4. \A p \in File : p # o => f_'[p] = f_[p]
  BY <1>1 DEF FilesInv, FilesTyped
<1>5. ~Owns(o) /\ f_'[o] = h
  BY <1>1 DEF Owns, FilesInv, FilesTyped
<1>6. /\ opened = standard \cup {f_[p] : p \in {q \in File : Owns(q)}}
      /\ \A p, q \in File : Owns(p) => f_[p] \notin standard /\ (Owns(q) /\ f_[p] = f_[q] => p = q)
  BY DEF FilesInv, OpenWhileOwned
<1>7. opened' = standard' \cup {f_'[p] : p \in {q \in File : Owns(q)'}}
  BY <1>1, <1>3, <1>4, <1>5, <1>6
<1>8. \A p, q \in File : Owns(p)' => f_'[p] \notin standard' /\ (Owns(q)' /\ f_'[p] = f_'[q] => p = q)
  BY <1>1, <1>3, <1>4, <1>5, <1>6
<1> QED
  BY <1>2, <1>7, <1>8 DEF FilesInv, OpenWhileOwned

LEMMA Destroyed ==
  ASSUME FilesInv, NEW o \in File, destroy(o)
  PROVE  FilesInv'
<1>1. /\ alive[o] /\ alive' = [alive EXCEPT ![o] = FALSE] /\ UNCHANGED <<f_, autoclose, standard>>
      /\ opened' = IF Owns(o) THEN opened \ {f_[o]} ELSE opened
  BY DEF destroy, Owns
<1>2. FilesTyped'
  BY <1>1 DEF FilesInv, FilesTyped
<1>3. \A p \in File : Owns(p)' <=> Owns(p) /\ p # o
  BY <1>1 DEF Owns, FilesInv, FilesTyped
<1>4. /\ opened = standard \cup {f_[p] : p \in {q \in File : Owns(q)}}
      /\ \A p, q \in File : Owns(p) => f_[p] \notin standard /\ (Owns(q) /\ f_[p] = f_[q] => p = q)
  BY DEF FilesInv, OpenWhileOwned
<1>5. opened' = standard' \cup {f_'[p] : p \in {q \in File : Owns(q)'}}
  BY <1>1, <1>3, <1>4
<1>6. \A p, q \in File : Owns(p)' => f_'[p] \notin standard' /\ (Owns(q)' /\ f_'[p] = f_'[q] => p = q)
  BY <1>1, <1>3, <1>4
<1> QED
  BY <1>2, <1>5, <1>6 DEF FilesInv, OpenWhileOwned

\* However many files there are, and in whatever order they die: a C stream is
\* open exactly as long as its owner lives (file.hh:16-25).
THEOREM FilesCorrect == FilesSpec => []OpenWhileOwned
<1>1. FilesInv /\ [FilesNext]_filesVars => FilesInv'
  <2>1. FilesInv /\ UNCHANGED filesVars => FilesInv'
    BY DEF filesVars, FilesInv, FilesTyped, OpenWhileOwned, Owns
  <2> QED
    BY <2>1, Opened, Destroyed DEF FilesNext
<1>2. FilesInv => OpenWhileOwned
  BY DEF FilesInv
<1> QED
  BY <1>1, <1>2, FilesStart, PTL DEF FilesSpec

-----------------------------------------------------------------------------
(* Toggles.                                                                *)

TogglesTyped ==
    /\ state \in BOOLEAN
    /\ calls \in Seq([by : {"set", "member", "free"}, requested : BOOLEAN])

TogglesInv == TogglesTyped /\ AnnouncedState

LEMMA TogglesStart == TogglesInit => TogglesInv
BY DEF TogglesInit, TogglesInv, TogglesTyped, AnnouncedState

LEMMA TogglesSet ==
  ASSUME TogglesInv, NEW by \in {"set", "member", "free"}, NEW s \in BOOLEAN, set_state(by, s)
  PROVE  TogglesInv' /\ Len(calls') > Len(calls)
<1>1. /\ state' = s /\ announced' = s
      /\ calls' = Append(calls, [by |-> by, requested |-> s])
  BY DEF set_state
<1>2. calls \in Seq([by : {"set", "member", "free"}, requested : BOOLEAN])
  BY DEF TogglesInv, TogglesTyped
<1>3. calls' \in Seq([by : {"set", "member", "free"}, requested : BOOLEAN]) /\ Len(calls') = Len(calls) + 1
  BY <1>1, <1>2
<1>4. AnnouncedState'
  BY <1>1 DEF AnnouncedState
<1>5. Len(calls) \in Nat
  BY <1>2
<1> QED
  BY <1>1, <1>3, <1>4, <1>5 DEF TogglesInv, TogglesTyped

LEMMA FrontTyped ==
  ASSUME NEW S, NEW s \in Seq(S), s # <<>>
  PROVE  SubSeq(s, 1, Len(s) - 1) \in Seq(S)
<1>1. Len(s) \in Nat /\ Len(s) > 0
  OBVIOUS
<1> QED
  BY <1>1

LEMMA TogglesReturn ==
  ASSUME TogglesInv, return
  PROVE  TogglesInv' /\ (Last(calls).by = "member" /\ ~copied => result'.value = announced)
<1>1. /\ calls # <<>> /\ calls' = Front(calls)
      /\ result' = [by |-> Last(calls).by,
                      value |-> IF Last(calls).by = "member" THEN state ELSE Last(calls).requested]
      /\ UNCHANGED <<state, announced, copied>>
  BY DEF return
<1>2. calls' \in Seq([by : {"set", "member", "free"}, requested : BOOLEAN])
  BY <1>1, FrontTyped DEF TogglesInv, TogglesTyped, Front
<1>3. AnnouncedState
  BY DEF TogglesInv
<1>4. TogglesInv'
  BY <1>1, <1>2 DEF TogglesInv, TogglesTyped, AnnouncedState
<1>5. ASSUME Last(calls).by = "member", ~copied PROVE result'.value = announced
  BY <1>1, <1>3, <1>5 DEF AnnouncedState
<1> QED
  BY <1>4, <1>5

LEMMA TogglesStep ==
  ASSUME TogglesInv, [TogglesNext]_togglesVars
  PROVE  /\ TogglesInv'
         /\ [Len(calls') < Len(calls) /\ Last(calls).by = "member" /\ ~copied
                => result'.value = announced]_togglesVars
<1> DEFINE Told == Len(calls') < Len(calls) /\ Last(calls).by = "member" /\ ~copied => result'.value = announced
<1>0. state \in BOOLEAN /\ (~state) \in BOOLEAN /\ Len(calls) \in Nat
  BY DEF TogglesInv, TogglesTyped
<1>1. ASSUME NEW by \in {"set", "member", "free"}, NEW s \in BOOLEAN, set_state(by, s)
      PROVE  TogglesInv' /\ Told
  <2>1. TogglesInv' /\ Len(calls') > Len(calls)
    BY <1>1, TogglesSet
  <2>2. Len(calls') \in Nat
    BY <2>1 DEF TogglesInv, TogglesTyped
  <2> QED
    BY <2>1, <2>2, <1>0
<1>2. CASE return
  BY <1>2, TogglesReturn
<1>3. ASSUME NEW s \in BOOLEAN, copy(s) PROVE TogglesInv' /\ Told
  BY <1>3, <1>0 DEF copy, TogglesInv, TogglesTyped, AnnouncedState
<1>4. CASE UNCHANGED togglesVars
  BY <1>4 DEF togglesVars, TogglesInv, TogglesTyped, AnnouncedState
<1> QED
  BY <1>0, <1>1, <1>2, <1>3, <1>4 DEF TogglesNext, assign, toggle, free_toggle

\* At any depth of callbacks: the callback knows the state, and so does the caller
\* of toggle() (toggle.hh:16, toggle_action.hh:30).
THEOREM TogglesCorrect == TogglesSpec => TogglesTell
<1>1. TogglesInv /\ [TogglesNext]_togglesVars => TogglesInv'
  BY TogglesStep
<1>2. TogglesInv => AnnouncedState
  BY DEF TogglesInv
<1>3. TogglesInv /\ [TogglesNext]_togglesVars
        => [Len(calls') < Len(calls) /\ Last(calls).by = "member" /\ ~copied => result'.value = announced]_togglesVars
  BY TogglesStep
<1> QED
  BY <1>1, <1>2, <1>3, TogglesStart, PTL DEF TogglesSpec, TogglesTell, ToggleReturnsAnnounced

-----------------------------------------------------------------------------
(* Errors.                                                                 *)

\* What errno holds is the latest failure, until it is told.
ErrnoIsLatest == errno = IF untold THEN latest ELSE 0

ErrorsInv == cfg_abort_method \in AbortMethod /\ untold \in BOOLEAN /\ ErrnoIsLatest

LEMMA WritingStep ==
  ASSUME NEW err, NEW due, due \in BOOLEAN, err = IF due THEN latest ELSE 0, Writing(err, due)
  PROVE  ErrnoIsLatest' /\ untold' \in BOOLEAN
<1>1. PICK e \in {0} \cup Errno :
          /\ errno' = IF e # 0 THEN e ELSE err
          /\ latest' = IF e # 0 THEN e ELSE latest
          /\ untold' = (e # 0 \/ due)
  BY DEF Writing
<1>2. CASE e # 0
  BY <1>1, <1>2 DEF ErrnoIsLatest
<1>3. CASE e = 0
  BY <1>1, <1>3 DEF ErrnoIsLatest
<1>4. untold' \in BOOLEAN
  BY <1>1
<1> QED
  BY <1>2, <1>3, <1>4

\* Other reports leave errno alone, but for what their own output does to it.
LEMMA WritingAfterAll ==
  ASSUME ErrorsInv, Writing(errno, untold)
  PROVE  ErrnoIsLatest' /\ untold' \in BOOLEAN
<1>1. untold \in BOOLEAN /\ errno = IF untold THEN latest ELSE 0
  BY DEF ErrorsInv, ErrnoIsLatest
<1> DEFINE err == errno
           due == untold
<1>2. due \in BOOLEAN /\ err = (IF due THEN latest ELSE 0) /\ Writing(err, due)
  BY <1>1
<1> HIDE DEF err, due
<1> QED
  BY <1>2, WritingStep

\* What a step tells before the program ends or throws.
Told ==
    mode = "running" /\ mode' # "running" =>
        /\ cerr' # <<>> /\ logged' # <<>>
        /\ mode' = "thrown" /\ thrown'.loc # "caller" => Head(cerr').loc = "caller"
        /\ mode' = "thrown" /\ thrown'.loc = "caller" => Last(cerr').message = thrown'.message

LEMMA AbortTells ==
  ASSUME ErrorsInv, NEW message, NEW loc, NEW first,
         NEW lines \in {<<>>, <<first>>}, ABORT_impl(lines, message, loc),
         loc # "caller" => lines = <<first>> /\ first.loc = "caller"
  PROVE  Told /\ ErrnoIsLatest' /\ untold' \in BOOLEAN
<1> DEFINE last == Line("Abort", message, IF message = Empty THEN "none" ELSE loc)
<1>1. cerr' = Append(lines, last) /\ logged' = Append(lines, last) /\ last.message = message
  BY DEF ABORT_impl, Tells, Line
<1>2. mode' = "thrown" => thrown' = [message |-> message, loc |-> loc]
  BY DEF ABORT_impl, Leaves, AbortMethod, ErrorsInv
<1>3. ErrnoIsLatest' /\ untold' \in BOOLEAN
  BY WritingAfterAll DEF ABORT_impl, Leaves
<1> HIDE DEF last
<1>4. cerr' # <<>> /\ logged' # <<>> /\ Last(cerr') = last
  BY <1>1 DEF Last
<1>5. loc # "caller" => Head(cerr') = first
  BY <1>1
<1> QED
  BY <1>1, <1>2, <1>3, <1>4, <1>5 DEF Told

LEMMA CallTells ==
  ASSUME ErrorsInv, NEW severity \in Severity, NEW message, call(severity, message, "caller")
  PROVE  Told /\ ErrorsInv'
<1>1. CASE severity = "Note"
  BY <1>1, WritingAfterAll DEF call, NOTE_impl, ErrorsInv, Told
<1>2. CASE severity \in {"Warning", "Error", "Bug"}
  BY <1>2, WritingAfterAll DEF call, report_impl, ErrorsInv, Told
<1>3. CASE severity = "Fatal"
  <2> DEFINE first == Line("Fatal", message, "caller")
  <2>1. ABORT_impl(<<first>>, Empty, "FATAL_impl") /\ first.loc = "caller" /\ UNCHANGED cfg_abort_method
    BY <1>3 DEF call, FATAL_impl, Line
  <2> HIDE DEF first
  <2>2. Told /\ ErrnoIsLatest' /\ untold' \in BOOLEAN
    BY <2>1, AbortTells
  <2> QED
    BY <2>1, <2>2 DEF ErrorsInv
<1>4. CASE severity = "FatalBug"
  <2> DEFINE first == Line("Bug", message, "caller")
  <2>1. ABORT_impl(<<first>>, message, "caller") /\ UNCHANGED cfg_abort_method
    BY <1>4 DEF call
  <2> HIDE DEF first
  <2>2. Told /\ ErrnoIsLatest' /\ untold' \in BOOLEAN
    BY <2>1, AbortTells
  <2> QED
    BY <2>1, <2>2 DEF ErrorsInv
<1>5. CASE severity = "Abort"
  <2>1. ABORT_impl(<<>>, message, "caller") /\ UNCHANGED cfg_abort_method
    BY <1>5 DEF call
  <2>2. Told /\ ErrnoIsLatest' /\ untold' \in BOOLEAN
    BY <2>1, AbortTells, <<>> \in {<<>>, <<Empty>>}
  <2> QED
    BY <2>1, <2>2 DEF ErrorsInv
<1> QED
  BY <1>1, <1>2, <1>3, <1>4, <1>5 DEF Severity

\* What report_file_error() tells, by what failed before it.
ToldOnce ==
    LET cause == IF untold THEN latest ELSE 0
    IN  /\ returned' = cause
        /\ cause # 0 => logged' # <<>> /\ cerr' # <<>>
        /\ logged' # <<>> => Last(logged').cause = cause
        /\ cerr' # <<>> => Last(cerr').cause = cause

LEMMA FileErrorTells ==
  ASSUME ErrorsInv, NEW message \in Message \cup {Empty}, report_file_error(message)
  PROVE  Told /\ ErrorsInv' /\ ToldOnce
<1>1. mode' = mode /\ returned' = errno /\ cfg_abort_method' = cfg_abort_method
  BY DEF report_file_error
<1>2. untold \in BOOLEAN /\ errno = IF untold THEN latest ELSE 0
  BY DEF ErrorsInv, ErrnoIsLatest
<1>3. CASE message = Empty /\ errno = 0
  <2>1. UNCHANGED <<errno, latest, untold>> /\ logged' = <<>> /\ cerr' = <<>>
    BY <1>3 DEF report_file_error, Tells, failures
  <2> QED
    BY <1>1, <1>2, <1>3, <2>1 DEF Told, ToldOnce, ErrorsInv, ErrnoIsLatest
<1>4. CASE ~(message = Empty /\ errno = 0)
  <2> DEFINE due == untold /\ errno = 0
             line == [tag |-> "Error", message |-> message, loc |-> "report_file_error", cause |-> errno]
  <2>1. Writing(0, due) /\ logged' = <<line>> /\ cerr' = <<line>>
    BY <1>4 DEF report_file_error, Tells
  <2>2. due \in BOOLEAN /\ 0 = (IF due THEN latest ELSE 0)
    BY <1>2
  <2>3. line.cause = errno
    OBVIOUS
  <2> HIDE DEF due, line
  <2>4. ErrnoIsLatest' /\ untold' \in BOOLEAN
    BY <2>1, <2>2, WritingStep
  <2>5. ToldOnce
    BY <1>1, <1>2, <2>1, <2>3 DEF ToldOnce, Last
  <2> QED
    BY <1>1, <2>4, <2>5 DEF Told, ErrorsInv
<1> QED
  BY <1>3, <1>4

LEMMA ErrorsStep ==
  ASSUME ErrorsInv, [ErrorsNext]_errorsVars
  PROVE  ErrorsInv' /\ [Told]_errorsVars
<1>1. ASSUME NEW e \in Errno, fail(e) PROVE ErrorsInv' /\ Told
  BY <1>1 DEF fail, ErrorsInv, ErrnoIsLatest, Told
<1>2. ASSUME NEW method \in AbortMethod, configure(method) PROVE ErrorsInv' /\ Told
  BY <1>2 DEF configure, ErrorsInv, ErrnoIsLatest, Told, failures
<1>3. CASE catch_FatalError
  BY <1>3 DEF catch_FatalError, ErrorsInv, ErrnoIsLatest, Told, failures
<1>4. CASE UNCHANGED errorsVars
  BY <1>4 DEF errorsVars, ErrorsInv, ErrnoIsLatest, failures
<1> QED
  BY <1>1, <1>2, <1>3, <1>4, CallTells, FileErrorTells DEF ErrorsNext

\* Whatever can be said and fail, the output of reports included: report_file_error() tells
\* the latest failure as what it was, unless it has been told, and then none; and the
\* program does not end untold (error.hh:141-147, 185-201; error.cc:44-122).
THEOREM ErrorsCorrect == ErrorsSpec => ErrorsTold
<1> DEFINE FileTold == \A message \in Message \cup {Empty} : report_file_error(message) => ToldOnce
<1>1. ErrorsInit => ErrorsInv
  BY DEF ErrorsInit, ErrorsInv, ErrnoIsLatest, AbortMethod
<1>2. ErrorsInv /\ [ErrorsNext]_errorsVars => ErrorsInv'
  BY ErrorsStep
<1>4. ErrorsInv /\ [ErrorsNext]_errorsVars => [FileTold]_errorsVars
  BY FileErrorTells
<1>5. ErrorsInv /\ [ErrorsNext]_errorsVars => [Told]_errorsVars
  BY ErrorsStep
<1>6. [][FileTold]_errorsVars /\ [][Told]_errorsVars => ErrorsTold
  BY DEF ErrorsTold, FileErrorToldOnce, ToldOnce, NothingEndsUntold, Told
<1> QED
  BY <1>1, <1>2, <1>4, <1>5, <1>6, PTL DEF ErrorsSpec

-----------------------------------------------------------------------------
(* Appenders, for any number of threads and console appenders.  A thread's  *)
(* place tells which mutexes it holds, so that what it found there stays as  *)
(* it is until it is done.                                                   *)

Place == {"idle", "dynamic", "each", "console", "colour", "text", "reset"}
Doing == [at : Place, severity : 1..6, left : SUBSET Console, console : Console, via : {"logger", "dynamic"}]
Colours == {Colour(severity) : severity \in 1..6}

AppendersTyped ==
    /\ m_appenders \subseteq Console
    /\ dynamic_mutex \in Thread \cup {NoThread}
    /\ m_mutex \in [Console -> Thread \cup {NoThread}]
    /\ doing \in [Thread -> Doing]
    /\ m_outputStream \in [Console -> Stream]
    /\ colour \in [Stream -> Colours]
    /\ onscreen \in [Stream -> [severity : 1..6, colour : Colours]]

\* In DynamicAppender::write(), in that of a console appender, under their mutexes.
Inside(d) == d.at = "each" \/ (d.via = "dynamic" /\ d.at \in {"console", "colour", "text", "reset"})
Writes(d) == d.at \in {"colour", "text", "reset"}

MutexesHeld ==
    /\ \A t \in Thread : Inside(doing[t]) <=> dynamic_mutex = t
    /\ \A t \in Thread, a \in Console : m_mutex[a] = t <=> Writes(doing[t]) /\ doing[t].console = a

\* What is left to be done is done to appenders that are there.
AppendersPresent ==
    \A t \in Thread : Inside(doing[t]) =>
        /\ doing[t].left \subseteq m_appenders
        /\ doing[t].at # "each" => doing[t].console \in m_appenders

\* Between setColor() and resetColor().
Paints(d, s) == d.at \in {"text", "reset"} /\ m_outputStream[d.console] = s

\* A colour is the work of a thread that is not done, and on a stream with one appender,
\* of the thread that is in it.
ColoursShown ==
    /\ \A t \in Thread : doing[t].at = "text" /\ Alone(doing[t].console) /\ stream(t) \in Terminal =>
                             colour[stream(t)] = Colour(doing[t].severity)
    /\ \A s \in Stream : colour[s] # "plain" => s \in Terminal /\ \E t \in Thread : Paints(doing[t], s)
    /\ ColoursRight

AppendersInv == AppendersTyped /\ MutexesHeld /\ AppendersPresent /\ ColoursShown

-----------------------------------------------------------------------------
LEMMA InfoIsPlain == Colour(4) = "plain" /\ "plain" \in Colours
<1>1. Colour(4) = "plain"
  BY DEF Colour
<1> QED
  BY <1>1 DEF Colours

\* What does not touch the streams, and begins or ends no writing.
LEMMA ColoursLeft ==
  ASSUME AppendersInv, UNCHANGED <<m_outputStream, colour, onscreen>>, NEW t \in Thread,
         doing[t].at \notin {"text", "reset"}, doing'[t].at # "text",
         \A u \in Thread : u # t => doing'[u] = doing[u]
  PROVE  ColoursShown'
<1>1. \A u \in Thread : doing'[u].at = "text" => doing'[u] = doing[u]
  OBVIOUS
<1>2. \A u \in Thread, s \in Stream : Paints(doing[u], s) => doing'[u] = doing[u]
  BY DEF Paints
<1>3. (\A u \in Thread : doing[u].at = "text" /\ Alone(doing[u].console) /\ stream(u) \in Terminal =>
                             colour[stream(u)] = Colour(doing[u].severity))'
  BY <1>1 DEF AppendersInv, ColoursShown, Alone, stream
<1>4. (\A s \in Stream : colour[s] # "plain" => s \in Terminal /\ \E u \in Thread : Paints(doing[u], s))'
  BY <1>2 DEF AppendersInv, ColoursShown, Paints
<1>5. ColoursRight'
  BY DEF AppendersInv, ColoursShown, ColoursRight, Alone
<1> QED
  BY <1>3, <1>4, <1>5 DEF ColoursShown

LEMMA AppendersStart == AppendersInit => AppendersInv
<1> SUFFICES ASSUME AppendersInit PROVE AppendersInv
  OBVIOUS
<1>1. Idle \in Doing /\ ~Inside(Idle) /\ ~Writes(Idle) /\ Idle.at = "idle"
  BY AppendersAssumption DEF Idle, Doing, Place, Inside, Writes
<1>2. \A t \in Thread : doing[t] = Idle
  BY DEF AppendersInit
<1>3. AppendersTyped
  BY <1>1, InfoIsPlain DEF AppendersInit, AppendersTyped
<1>4. MutexesHeld /\ AppendersPresent
  BY <1>1, <1>2, AppendersAssumption DEF AppendersInit, MutexesHeld, AppendersPresent
<1>5. ColoursRight
  BY <1>3, InfoIsPlain DEF AppendersInit, AppendersTyped, ColoursRight
<1>6. ColoursShown
  BY <1>1, <1>2, <1>5 DEF AppendersInit, ColoursShown
<1> QED
  BY <1>3, <1>4, <1>6 DEF AppendersInv

\* A thread that goes on changes nothing of the others.
LEMMA Moved ==
  ASSUME AppendersTyped, NEW t \in Thread, NEW d \in Doing, doing' = [doing EXCEPT ![t] = d]
  PROVE  /\ doing' \in [Thread -> Doing] /\ doing'[t] = d
         /\ \A u \in Thread : u # t => doing'[u] = doing[u]
BY DEF AppendersTyped

LEMMA Went ==
  ASSUME AppendersTyped, NEW t \in Thread, NEW label \in Place, Goto(t, label)
  PROVE  \E d \in Doing :
             /\ d.at = label /\ d.severity = doing[t].severity /\ d.left = doing[t].left
             /\ d.console = doing[t].console /\ d.via = doing[t].via
             /\ doing' \in [Thread -> Doing] /\ doing'[t] = d
             /\ \A u \in Thread : u # t => doing'[u] = doing[u]
<1> DEFINE d == [doing[t] EXCEPT !.at = label]
<1>1. doing[t] \in Doing
  BY DEF AppendersTyped
<1>2. /\ d \in Doing /\ d.at = label /\ d.severity = doing[t].severity /\ d.left = doing[t].left
      /\ d.console = doing[t].console /\ d.via = doing[t].via
  BY <1>1 DEF Doing
<1>3. doing' = [doing EXCEPT ![t] = d]
  BY DEF Goto
<1> QED
  BY <1>2, <1>3, Moved

-----------------------------------------------------------------------------
\* One lemma for each step: what it changes, and what it leaves of the four parts.
LEMMA LogInv ==
  ASSUME AppendersInv, NEW t \in Thread, NEW severity \in Severities, log(t, severity)
  PROVE  AppendersInv'
<1> DEFINE d == [Idle EXCEPT !.at = "dynamic", !.severity = severity]
<1>1. Idle \in Doing
  BY AppendersAssumption DEF Idle, Doing, Place
<1>2. d \in Doing /\ d.at = "dynamic"
  BY <1>1, AppendersAssumption DEF Doing, Place
<1>3. doing' = [doing EXCEPT ![t] = d]
  BY DEF log
<1>4. /\ doing' \in [Thread -> Doing] /\ doing'[t] = d
      /\ \A u \in Thread : u # t => doing'[u] = doing[u]
  <2> HIDE DEF d
  <2> QED
    BY <1>2, <1>3, Moved DEF AppendersInv
<1>5. /\ doing[t].at = "idle"
      /\ UNCHANGED <<m_appenders, m_outputStream, dynamic_mutex, m_mutex, colour, onscreen>>
  BY DEF log
<1> HIDE DEF d
<1>6. AppendersTyped'
  BY <1>4, <1>5 DEF AppendersInv, AppendersTyped
<1>7. MutexesHeld'
  BY <1>2, <1>4, <1>5 DEF AppendersInv, MutexesHeld, Inside, Writes
<1>8. AppendersPresent'
  BY <1>2, <1>4, <1>5 DEF AppendersInv, AppendersPresent, Inside
<1>9. ColoursShown'
  BY <1>2, <1>4, <1>5, ColoursLeft
<1> QED
  BY <1>6, <1>7, <1>8, <1>9 DEF AppendersInv

LEMMA LockDynamicInv ==
  ASSUME AppendersInv, NEW t \in Thread, lock_dynamic(t)
  PROVE  AppendersInv'
<1> DEFINE d == [doing[t] EXCEPT !.at = "each", !.left = m_appenders]
<1>1. doing[t] \in Doing /\ m_appenders \subseteq Console
  BY DEF AppendersInv, AppendersTyped
<1>2. d \in Doing /\ d.at = "each" /\ d.left = m_appenders
  BY <1>1 DEF Doing, Place
<1>3. doing' = [doing EXCEPT ![t] = d]
  BY DEF lock_dynamic
<1>4. /\ doing' \in [Thread -> Doing] /\ doing'[t] = d
      /\ \A u \in Thread : u # t => doing'[u] = doing[u]
  <2> HIDE DEF d
  <2> QED
    BY <1>2, <1>3, Moved DEF AppendersInv
<1>5. /\ doing[t].at = "dynamic" /\ dynamic_mutex = NoThread /\ dynamic_mutex' = t
      /\ UNCHANGED <<m_appenders, m_outputStream, m_mutex, colour, onscreen>>
  BY DEF lock_dynamic, Free
<1> HIDE DEF d
<1>6. AppendersTyped'
  BY <1>4, <1>5 DEF AppendersInv, AppendersTyped
<1>7. MutexesHeld'
  BY <1>2, <1>4, <1>5, AppendersAssumption DEF AppendersInv, MutexesHeld, Inside, Writes
<1>8. AppendersPresent'
  BY <1>2, <1>4, <1>5 DEF AppendersInv, AppendersPresent, Inside
<1>9. ColoursShown'
  BY <1>2, <1>4, <1>5, ColoursLeft
<1> QED
  BY <1>6, <1>7, <1>8, <1>9 DEF AppendersInv

LEMMA EachInv ==
  ASSUME AppendersInv, NEW t \in Thread, each(t)
  PROVE  AppendersInv'
<1> USE DEF AppendersInv
<1>1. /\ doing[t] \in Doing /\ doing[t].at = "each" /\ dynamic_mutex = t
      /\ doing[t].left \subseteq m_appenders
      /\ UNCHANGED <<m_appenders, m_outputStream, m_mutex, colour, onscreen>>
  BY DEF each, AppendersTyped, MutexesHeld, AppendersPresent, Inside
<1>2. CASE \E a \in doing[t].left :
              /\ doing' = [doing EXCEPT ![t] = [@ EXCEPT !.at = "console", !.console = a, !.via = "dynamic",
                                                         !.left = doing[t].left \ {a}]]
              /\ dynamic_mutex' = dynamic_mutex
  <2>1. PICK a \in doing[t].left :
              /\ doing' = [doing EXCEPT ![t] = [@ EXCEPT !.at = "console", !.console = a, !.via = "dynamic",
                                                         !.left = doing[t].left \ {a}]]
              /\ dynamic_mutex' = dynamic_mutex
    BY <1>2
  <2> DEFINE d == [doing[t] EXCEPT !.at = "console", !.console = a, !.via = "dynamic", !.left = doing[t].left \ {a}]
  <2>2. a \in Console /\ a \in m_appenders
    BY <1>1, <2>1 DEF AppendersTyped
  <2>3. d \in Doing /\ d.at = "console" /\ d.console = a /\ d.via = "dynamic" /\ d.left = doing[t].left \ {a}
    BY <1>1, <2>2 DEF Doing, Place
  <2>4. doing' = [doing EXCEPT ![t] = d]
    BY <2>1
  <2> HIDE DEF d
  <2>5. /\ doing' \in [Thread -> Doing] /\ doing'[t] = d
        /\ \A u \in Thread : u # t => doing'[u] = doing[u]
    BY <2>3, <2>4, Moved
  <2>6. AppendersTyped'
    BY <1>1, <2>1, <2>5 DEF AppendersTyped
  <2>7. MutexesHeld'
    BY <1>1, <2>1, <2>3, <2>5 DEF MutexesHeld, Inside, Writes
  <2>8. AppendersPresent'
    BY <1>1, <2>2, <2>3, <2>5 DEF AppendersPresent, Inside
  <2>9. ColoursShown'
    BY <1>1, <2>3, <2>5, ColoursLeft
  <2> QED
    BY <2>6, <2>7, <2>8, <2>9
<1>3. CASE /\ doing' = [doing EXCEPT ![t] = [@ EXCEPT !.at = "console", !.console = Direct, !.via = "logger"]]
           /\ dynamic_mutex' = NoThread
  <2> DEFINE d == [doing[t] EXCEPT !.at = "console", !.console = Direct, !.via = "logger"]
  <2>3. d \in Doing /\ d.at = "console" /\ d.console = Direct /\ d.via = "logger"
    BY <1>1, AppendersAssumption DEF Doing, Place
  <2>4. doing' = [doing EXCEPT ![t] = d]
    BY <1>3
  <2> HIDE DEF d
  <2>5. /\ doing' \in [Thread -> Doing] /\ doing'[t] = d
        /\ \A u \in Thread : u # t => doing'[u] = doing[u]
    BY <2>3, <2>4, Moved
  <2>6. AppendersTyped'
    BY <1>1, <1>3, <2>5 DEF AppendersTyped
  <2>7. MutexesHeld'
    BY <1>1, <1>3, <2>3, <2>5, AppendersAssumption DEF MutexesHeld, Inside, Writes
  <2>8. AppendersPresent'
    BY <1>1, <2>3, <2>5 DEF AppendersPresent, Inside
  <2>9. ColoursShown'
    BY <1>1, <2>3, <2>5, ColoursLeft
  <2> QED
    BY <2>6, <2>7, <2>8, <2>9
<1> QED
  BY <1>2, <1>3 DEF each

LEMMA LockConsoleInv ==
  ASSUME AppendersInv, NEW t \in Thread, lock_console(t)
  PROVE  AppendersInv'
<1> USE DEF AppendersInv
<1>1. /\ doing[t] \in Doing /\ doing[t].at = "console" /\ m_mutex[doing[t].console] = NoThread
      /\ m_mutex' = [m_mutex EXCEPT ![doing[t].console] = t]
      /\ UNCHANGED <<m_appenders, m_outputStream, dynamic_mutex, colour, onscreen>>
  BY DEF lock_console, AppendersTyped, Free
<1>2. PICK d \in Doing :
          /\ d.at = "colour" /\ d.severity = doing[t].severity /\ d.left = doing[t].left
          /\ d.console = doing[t].console /\ d.via = doing[t].via
          /\ doing' \in [Thread -> Doing] /\ doing'[t] = d
          /\ \A u \in Thread : u # t => doing'[u] = doing[u]
  BY Went DEF lock_console, Place
<1>3. doing[t].console \in Console
  BY <1>1 DEF Doing
<1>4. /\ m_mutex' \in [Console -> Thread \cup {NoThread}] /\ m_mutex'[doing[t].console] = t
      /\ \A a \in Console : a # doing[t].console => m_mutex'[a] = m_mutex[a]
  BY <1>1, <1>3 DEF AppendersTyped
<1>5. AppendersTyped'
  BY <1>1, <1>2, <1>4 DEF AppendersTyped
<1>6. MutexesHeld'
  <2>1. \A u \in Thread : Inside(doing'[u]) <=> dynamic_mutex' = u
    BY <1>1, <1>2 DEF MutexesHeld, Inside
  <2>2. \A u \in Thread, a \in Console : m_mutex'[a] = u <=> Writes(doing'[u]) /\ doing'[u].console = a
    BY <1>1, <1>2, <1>4, AppendersAssumption DEF MutexesHeld, Writes
  <2> QED
    BY <2>1, <2>2 DEF MutexesHeld
<1>7. AppendersPresent'
  BY <1>1, <1>2 DEF AppendersPresent, Inside
<1>8. ColoursShown'
  BY <1>1, <1>2, ColoursLeft
<1> QED
  BY <1>5, <1>6, <1>7, <1>8

\* A thread that holds a console appender's mutex is alone in it.
LEMMA AloneInside ==
  ASSUME AppendersInv, NEW t \in Thread, Writes(doing[t])
  PROVE  \A u \in Thread : Writes(doing[u]) /\ doing[u].console = doing[t].console => u = t
<1>1. doing[t].console \in Console
  BY DEF AppendersInv, AppendersTyped, Doing
<1> QED
  BY <1>1 DEF AppendersInv, MutexesHeld

\* ... and with the colour, if no other appender has the stream.
LEMMA AloneOnStream ==
  ASSUME AppendersInv, NEW t \in Thread, Writes(doing[t]), NEW u \in Thread, Writes(doing[u]), u # t,
         Alone(doing[t].console) \/ Alone(doing[u].console)
  PROVE  stream(u) # stream(t)
<1>1. doing[t].console \in Console /\ doing[u].console \in Console
  BY DEF AppendersInv, AppendersTyped, Doing
<1>2. doing[u].console # doing[t].console
  BY AloneInside
<1> QED
  BY <1>1, <1>2 DEF Alone, stream

LEMMA SetColorInv ==
  ASSUME AppendersInv, NEW t \in Thread, setColor(t)
  PROVE  AppendersInv'
<1> DEFINE s == stream(t)
           c == Colour(doing[t].severity)
           looks == IF s \in Terminal /\ c # "plain" THEN c ELSE colour[s]
<1>1. /\ doing[t] \in Doing /\ doing[t].at = "colour"
      /\ colour' = [colour EXCEPT ![s] = looks]
      /\ UNCHANGED <<m_appenders, m_outputStream, dynamic_mutex, m_mutex, onscreen>>
  BY DEF setColor, AppendersInv, AppendersTyped
<1>2. doing[t].console \in Console /\ s \in Stream /\ c \in Colours /\ colour[s] \in Colours
  BY <1>1 DEF Doing, Colours, AppendersInv, AppendersTyped, stream
<1>3. Alone(doing[t].console) => colour[s] = "plain"
  <2> SUFFICES ASSUME Alone(doing[t].console), colour[s] # "plain" PROVE FALSE
    OBVIOUS
  <2>1. PICK u \in Thread : Paints(doing[u], s)
    BY <1>2 DEF AppendersInv, ColoursShown
  <2>2. u # t /\ Writes(doing[u]) /\ Writes(doing[t]) /\ stream(u) = s
    BY <1>1, <2>1 DEF Paints, Writes, stream
  <2> QED
    BY <2>2, AloneOnStream
<1>4. looks \in Colours /\ (Alone(doing[t].console) /\ s \in Terminal => looks = c)
      /\ (s \notin Terminal => looks = colour[s])
  BY <1>2, <1>3
<1>5. PICK d \in Doing :
          /\ d.at = "text" /\ d.severity = doing[t].severity /\ d.left = doing[t].left
          /\ d.console = doing[t].console /\ d.via = doing[t].via
          /\ doing' \in [Thread -> Doing] /\ doing'[t] = d
          /\ \A u \in Thread : u # t => doing'[u] = doing[u]
  BY Went DEF setColor, Place, AppendersInv
<1> HIDE DEF looks, c, s
<1>6. /\ colour' \in [Stream -> Colours] /\ colour'[s] = looks
      /\ \A r \in Stream : r # s => colour'[r] = colour[r]
  BY <1>1, <1>2, <1>4 DEF AppendersInv, AppendersTyped
<1>7. stream(t)' = s /\ \A u \in Thread : u # t => stream(u)' = stream(u)
  BY <1>1, <1>5 DEF stream, s
<1>8. AppendersTyped'
  BY <1>1, <1>5, <1>6 DEF AppendersInv, AppendersTyped
<1>9. MutexesHeld'
  BY <1>1, <1>5 DEF AppendersInv, MutexesHeld, Inside, Writes
<1>10. AppendersPresent'
  BY <1>1, <1>5 DEF AppendersInv, AppendersPresent, Inside
<1>11. ASSUME NEW u \in Thread, doing'[u].at = "text", Alone(doing'[u].console), stream(u)' \in Terminal
       PROVE  colour'[stream(u)'] = Colour(doing'[u].severity)
  <2>1. CASE u = t
    BY <2>1, <1>4, <1>5, <1>6, <1>7, <1>11 DEF c
  <2>2. CASE u # t
    <3>1. doing'[u] = doing[u] /\ stream(u)' = stream(u) /\ Writes(doing[u]) /\ Writes(doing[t])
      BY <2>2, <1>1, <1>5, <1>7, <1>11 DEF Writes
    <3>2. stream(u) # s
      BY <2>2, <3>1, <1>11, AloneOnStream DEF s
    <3>3. stream(u) \in Stream
      BY DEF stream, AppendersInv, AppendersTyped, Doing
    <3>4. colour[stream(u)] = Colour(doing[u].severity)
      BY <3>1, <1>11 DEF AppendersInv, ColoursShown
    <3> QED
      BY <3>1, <3>2, <3>3, <3>4, <1>6
  <2> QED
    BY <2>1, <2>2
<1>12. ASSUME NEW r \in Stream, colour'[r] # "plain"
       PROVE  r \in Terminal /\ \E u \in Thread : Paints(doing[u], r)'
  <2>1. CASE r = s /\ s \in Terminal
    <3>1. Paints(doing[t], r)'
      BY <1>5, <1>7, <2>1 DEF Paints, stream
    <3> QED
      BY <2>1, <3>1
  <2>2. CASE r # s \/ s \notin Terminal
    <3>1. colour[r] # "plain"
      BY <2>2, <1>4, <1>6, <1>12
    <3>2. PICK u \in Thread : Paints(doing[u], r)
      BY <3>1 DEF AppendersInv, ColoursShown
    <3>3. u # t
      BY <3>2, <1>1 DEF Paints
    <3>4. Paints(doing[u], r)'
      BY <3>2, <3>3, <1>1, <1>5 DEF Paints
    <3> QED
      BY <3>1, <3>4 DEF AppendersInv, ColoursShown
  <2> QED
    BY <2>1, <2>2
<1>13. ColoursRight'
  BY <1>1 DEF AppendersInv, ColoursShown, ColoursRight, Alone
<1>14. \A a \in Console : Alone(a)' <=> Alone(a)
  BY <1>1 DEF Alone
<1>15. ColoursShown'
  <2>1. \A u \in Thread : doing'[u].console \in Console
    BY <1>8 DEF AppendersTyped, Doing
  <2>2. (\A u \in Thread : doing[u].at = "text" /\ Alone(doing[u].console) /\ stream(u) \in Terminal =>
                             colour[stream(u)] = Colour(doing[u].severity))'
    BY <1>1, <1>11 DEF Alone
  <2>3. (\A r \in Stream : colour[r] # "plain" => r \in Terminal /\ \E u \in Thread : Paints(doing[u], r))'
    BY <1>12
  <2> QED
    BY <1>13, <2>2, <2>3 DEF ColoursShown
<1> QED
  BY <1>8, <1>9, <1>10, <1>15 DEF AppendersInv

LEMMA WritestrInv ==
  ASSUME AppendersInv, NEW t \in Thread, writestr(t)
  PROVE  AppendersInv'
<1> DEFINE s == stream(t)
           row == [severity |-> doing[t].severity, colour |-> colour[s]]
<1>1. /\ doing[t] \in Doing /\ doing[t].at = "text"
      /\ onscreen' = [onscreen EXCEPT ![s] = row]
      /\ UNCHANGED <<m_appenders, m_outputStream, dynamic_mutex, m_mutex, colour>>
  BY DEF writestr, AppendersInv, AppendersTyped
<1>2. doing[t].console \in Console /\ s \in Stream /\ doing[t].severity \in 1..6 /\ colour[s] \in Colours
  BY <1>1 DEF Doing, AppendersInv, AppendersTyped, stream
<1>3. PICK d \in Doing :
          /\ d.at = "reset" /\ d.severity = doing[t].severity /\ d.left = doing[t].left
          /\ d.console = doing[t].console /\ d.via = doing[t].via
          /\ doing' \in [Thread -> Doing] /\ doing'[t] = d
          /\ \A u \in Thread : u # t => doing'[u] = doing[u]
  BY Went DEF writestr, Place, AppendersInv
<1>4. /\ onscreen' \in [Stream -> [severity : 1..6, colour : Colours]] /\ onscreen'[s] = row
      /\ \A r \in Stream : r # s => onscreen'[r] = onscreen[r]
  BY <1>1, <1>2 DEF AppendersInv, AppendersTyped
<1>5. Alone(doing[t].console) /\ s \in Terminal => row.colour = Colour(row.severity)
  BY <1>1 DEF AppendersInv, ColoursShown
<1> HIDE DEF s, row
<1>6. AppendersTyped'
  BY <1>1, <1>3, <1>4 DEF AppendersInv, AppendersTyped
<1>7. MutexesHeld'
  BY <1>1, <1>3 DEF AppendersInv, MutexesHeld, Inside, Writes
<1>8. AppendersPresent'
  BY <1>1, <1>3 DEF AppendersInv, AppendersPresent, Inside
<1>9. ColoursRight'
  <2> SUFFICES ASSUME NEW a \in Console, Alone(a), m_outputStream[a] \in Terminal
               PROVE  onscreen'[m_outputStream[a]].colour = Colour(onscreen'[m_outputStream[a]].severity)
    BY <1>1 DEF ColoursRight, Alone
  <2>1. m_outputStream[a] \in Stream
    BY DEF AppendersInv, AppendersTyped
  <2>2. CASE m_outputStream[a] = s
    <3>1. doing[t].console = a
      BY <1>2, <2>2 DEF Alone, s, stream
    <3> QED
      BY <1>4, <1>5, <2>2, <3>1
  <2>3. CASE m_outputStream[a] # s
    <3>1. onscreen'[m_outputStream[a]] = onscreen[m_outputStream[a]]
      BY <1>4, <2>1, <2>3
    <3> QED
      BY <3>1 DEF AppendersInv, ColoursShown, ColoursRight
  <2> QED
    BY <2>2, <2>3
<1>10. ColoursShown'
  <2>1. \A u \in Thread : doing'[u].at = "text" => doing'[u] = doing[u]
    BY <1>3
  <2>2. (\A u \in Thread : doing[u].at = "text" /\ Alone(doing[u].console) /\ stream(u) \in Terminal =>
                             colour[stream(u)] = Colour(doing[u].severity))'
    BY <1>1, <2>1 DEF AppendersInv, ColoursShown, Alone, stream
  <2>3. \A u \in Thread, r \in Stream : Paints(doing[u], r) => Paints(doing[u], r)'
    BY <1>1, <1>3 DEF Paints
  <2>4. (\A r \in Stream : colour[r] # "plain" => r \in Terminal /\ \E u \in Thread : Paints(doing[u], r))'
    BY <1>1, <2>3 DEF AppendersInv, ColoursShown
  <2> QED
    BY <1>9, <2>2, <2>4 DEF ColoursShown
<1> QED
  BY <1>6, <1>7, <1>8, <1>10 DEF AppendersInv

LEMMA ResetColorInv ==
  ASSUME AppendersInv, NEW t \in Thread, resetColor(t)
  PROVE  AppendersInv'
<1> DEFINE a == doing[t].console
           s == stream(t)
           looks == IF s \in Terminal THEN "plain" ELSE colour[s]
           label == IF doing[t].via = "dynamic" THEN "each" ELSE "idle"
<1>1. /\ doing[t] \in Doing /\ doing[t].at = "reset"
      /\ colour' = [colour EXCEPT ![s] = looks] /\ m_mutex' = [m_mutex EXCEPT ![a] = NoThread]
      /\ UNCHANGED <<m_appenders, m_outputStream, dynamic_mutex, onscreen>>
  BY DEF resetColor, AppendersInv, AppendersTyped
<1>2. a \in Console /\ s \in Stream /\ label \in Place
  BY <1>1 DEF Doing, Place, AppendersInv, AppendersTyped, stream
<1>3. looks = "plain" /\ looks \in Colours
  BY <1>2, InfoIsPlain DEF AppendersInv, ColoursShown
<1>4. PICK d \in Doing :
          /\ d.at = label /\ d.severity = doing[t].severity /\ d.left = doing[t].left
          /\ d.console = a /\ d.via = doing[t].via
          /\ doing' \in [Thread -> Doing] /\ doing'[t] = d
          /\ \A u \in Thread : u # t => doing'[u] = doing[u]
  BY <1>2, Went DEF resetColor, AppendersInv
<1>5. /\ \A u \in Thread : Writes(doing[u]) /\ doing[u].console = a => u = t
      /\ m_mutex[a] = t
  BY <1>1, <1>2, AloneInside DEF Writes, AppendersInv, MutexesHeld
<1> HIDE DEF looks, s
<1>6. /\ colour' \in [Stream -> Colours] /\ colour'[s] = "plain"
      /\ \A r \in Stream : r # s => colour'[r] = colour[r]
  BY <1>1, <1>2, <1>3 DEF AppendersInv, AppendersTyped
<1>7. /\ m_mutex' \in [Console -> Thread \cup {NoThread}] /\ m_mutex'[a] = NoThread
      /\ \A b \in Console : b # a => m_mutex'[b] = m_mutex[b]
  BY <1>1, <1>2 DEF AppendersInv, AppendersTyped
<1> HIDE DEF a
<1>8. AppendersTyped'
  BY <1>1, <1>4, <1>6, <1>7 DEF AppendersInv, AppendersTyped
<1>9. MutexesHeld'
  <2>1. \A u \in Thread : Inside(doing'[u]) <=> dynamic_mutex' = u
    BY <1>1, <1>4 DEF AppendersInv, MutexesHeld, Inside
  <2>2. \A u \in Thread, b \in Console : m_mutex'[b] = u <=> Writes(doing'[u]) /\ doing'[u].console = b
    BY <1>1, <1>4, <1>5, <1>7, AppendersAssumption DEF AppendersInv, MutexesHeld, Writes, a
  <2> QED
    BY <2>1, <2>2 DEF MutexesHeld
<1>10. AppendersPresent'
  BY <1>1, <1>4 DEF AppendersInv, AppendersPresent, Inside, a
<1>11. ColoursRight'
  BY <1>1 DEF AppendersInv, ColoursShown, ColoursRight, Alone
<1>12. \A u \in Thread : u # t => stream(u)' = stream(u)
  BY <1>1, <1>4 DEF stream
<1>13. ASSUME NEW u \in Thread, doing'[u].at = "text", Alone(doing'[u].console), stream(u)' \in Terminal
       PROVE  colour'[stream(u)'] = Colour(doing'[u].severity)
  <2>1. u # t /\ doing'[u] = doing[u] /\ stream(u)' = stream(u) /\ Writes(doing[u]) /\ Writes(doing[t])
    BY <1>1, <1>4, <1>12, <1>13 DEF Writes
  <2>2. stream(u) # s /\ stream(u) \in Stream
    BY <2>1, <1>13, AloneOnStream DEF s, stream, AppendersInv, AppendersTyped, Doing
  <2>3. colour[stream(u)] = Colour(doing[u].severity)
    BY <2>1, <1>13 DEF AppendersInv, ColoursShown
  <2> QED
    BY <2>1, <2>2, <2>3, <1>6
<1>14. ASSUME NEW r \in Stream, colour'[r] # "plain"
       PROVE  r \in Terminal /\ \E u \in Thread : Paints(doing[u], r)'
  <2>1. r # s /\ colour[r] # "plain"
    BY <1>6, <1>14
  <2>2. PICK u \in Thread : Paints(doing[u], r)
    BY <2>1 DEF AppendersInv, ColoursShown
  <2>3. u # t
    BY <2>1, <2>2 DEF Paints, s, stream
  <2>4. Paints(doing[u], r)'
    BY <2>2, <2>3, <1>1, <1>4 DEF Paints
  <2> QED
    BY <2>1, <2>4 DEF AppendersInv, ColoursShown
<1>15. ColoursShown'
  <2>2. (\A u \in Thread : doing[u].at = "text" /\ Alone(doing[u].console) /\ stream(u) \in Terminal =>
                             colour[stream(u)] = Colour(doing[u].severity))'
    BY <1>1, <1>13 DEF Alone
  <2>3. (\A r \in Stream : colour[r] # "plain" => r \in Terminal /\ \E u \in Thread : Paints(doing[u], r))'
    BY <1>14
  <2> QED
    BY <1>11, <2>2, <2>3 DEF ColoursShown
<1> QED
  BY <1>8, <1>9, <1>10, <1>15 DEF AppendersInv

\* Nobody is inside while appenders are added and removed.
LEMMA ChangeInv ==
  ASSUME AppendersInv, NEW t \in Thread, NEW a \in Console, addAppender(t, a) \/ removeAppender(t, a)
  PROVE  AppendersInv'
<1>1. /\ dynamic_mutex = NoThread /\ m_appenders' \subseteq m_appenders \cup {a}
      /\ UNCHANGED <<m_outputStream, dynamic_mutex, m_mutex, doing, colour, onscreen>>
  BY DEF addAppender, removeAppender, change, Free
<1>2. \A u \in Thread : ~Inside(doing[u])
  BY <1>1, AppendersAssumption DEF AppendersInv, MutexesHeld
<1> QED
  BY <1>1, <1>2 DEF AppendersInv, AppendersTyped, MutexesHeld, AppendersPresent, ColoursShown, ColoursRight,
                    Alone, Paints, stream

LEMMA AppendersStep == AppendersInv /\ [AppendersNext]_appendersVars => AppendersInv'
<1> SUFFICES ASSUME AppendersInv, [AppendersNext]_appendersVars PROVE AppendersInv'
  OBVIOUS
<1>1. CASE UNCHANGED appendersVars
  BY <1>1 DEF appendersVars, AppendersInv, AppendersTyped, MutexesHeld, AppendersPresent, ColoursShown,
              ColoursRight, Alone, Paints, stream
<1>2. ASSUME NEW t \in Thread, NEW severity \in Severities, log(t, severity) PROVE AppendersInv'
  BY <1>2, LogInv
<1>3. ASSUME NEW t \in Thread, lock_dynamic(t) \/ each(t) \/ lock_console(t) PROVE AppendersInv'
  BY <1>3, LockDynamicInv, EachInv, LockConsoleInv
<1>4. ASSUME NEW t \in Thread, setColor(t) \/ writestr(t) \/ resetColor(t) PROVE AppendersInv'
  BY <1>4, SetColorInv, WritestrInv, ResetColorInv
<1>5. ASSUME NEW t \in Thread, NEW a \in Console, addAppender(t, a) \/ removeAppender(t, a) PROVE AppendersInv'
  BY <1>5, ChangeInv
<1> QED
  BY <1>1, <1>2, <1>3, <1>4, <1>5 DEF AppendersNext

-----------------------------------------------------------------------------
LEMMA ConsoleProceeds ==
  ASSUME AppendersInv, NEW t \in Thread, doing[t].at \in {"console", "each", "colour", "text", "reset"}
  PROVE  SomeoneProceeds
<1>1. CASE doing[t].at # "console"
  BY <1>1 DEF SomeoneProceeds
<1>2. CASE doing[t].at = "console" /\ Free(m_mutex[doing[t].console])
  BY <1>2 DEF SomeoneProceeds
<1>3. CASE doing[t].at = "console" /\ ~Free(m_mutex[doing[t].console])
  <2>1. doing[t].console \in Console
    BY DEF AppendersInv, AppendersTyped, Doing
  <2>2. PICK u \in Thread : m_mutex[doing[t].console] = u
    BY <2>1, <1>3 DEF AppendersInv, AppendersTyped, Free
  <2>3. doing[u].at \in {"colour", "text", "reset"}
    BY <2>1, <2>2 DEF AppendersInv, MutexesHeld, Writes
  <2> QED
    BY <2>3 DEF SomeoneProceeds
<1> QED
  BY <1>1, <1>2, <1>3

\* A thread that waits for the DynamicAppender waits for one inside it.
LEMMA Proceeds == AppendersInv => SomeoneProceeds
<1> SUFFICES ASSUME AppendersInv, NEW t \in Thread, doing[t].at # "idle" PROVE SomeoneProceeds
  BY DEF SomeoneProceeds
<1>1. doing[t].at \in Place
  BY DEF AppendersInv, AppendersTyped, Doing
<1>2. CASE doing[t].at = "dynamic" /\ Free(dynamic_mutex)
  BY <1>2 DEF SomeoneProceeds
<1>3. CASE doing[t].at = "dynamic" /\ ~Free(dynamic_mutex)
  <2>1. PICK u \in Thread : dynamic_mutex = u
    BY <1>3 DEF AppendersInv, AppendersTyped, Free
  <2>2. Inside(doing[u])
    BY <2>1 DEF AppendersInv, MutexesHeld
  <2> QED
    BY <2>2, ConsoleProceeds DEF Inside
<1>4. CASE doing[t].at # "dynamic"
  BY <1>1, <1>4, ConsoleProceeds DEF Place
<1> QED
  BY <1>2, <1>3, <1>4

\* Who painted a stream still holds the mutex of an appender that has it.
LEMMA Rests == AppendersInv => PlainAtRest
<1> SUFFICES ASSUME AppendersInv, NEW s \in Stream, colour[s] # "plain"
             PROVE  s \in Terminal /\ \E a \in Console : m_outputStream[a] = s /\ ~Free(m_mutex[a])
  BY DEF PlainAtRest
<1>1. s \in Terminal
  BY DEF AppendersInv, ColoursShown
<1>2. PICK t \in Thread : Paints(doing[t], s)
  BY DEF AppendersInv, ColoursShown
<1> DEFINE a == doing[t].console
<1>3. a \in Console /\ m_outputStream[a] = s
  BY <1>2 DEF AppendersInv, AppendersTyped, Doing, Paints
<1>4. m_mutex[a] = t
  BY <1>2, <1>3 DEF AppendersInv, MutexesHeld, Writes, Paints
<1> QED
  BY <1>1, <1>3, <1>4, AppendersAssumption DEF Free

\* However many threads log through however many shared appenders and streams, while appenders
\* are added and removed: none is written to after it was removed, records on a stream with one
\* appender have their colours, every stream is plain again when nobody writes, and somebody can
\* go on (DynamicAppender.h:10-36, ColorConsoleAppender.h:33-101).
THEOREM SharedWithoutHarm == AppendersSpec => []AppendersShared
<1>1. AppendersInv => RemovedLeftAlone
  BY DEF AppendersInv, AppendersPresent, Inside, RemovedLeftAlone
<1>2. AppendersInv => AppendersShared
  BY <1>1, Proceeds, Rests DEF AppendersShared, AppendersInv, ColoursShown
<1> QED
  BY <1>2, AppendersStart, AppendersStep, PTL DEF AppendersSpec

-----------------------------------------------------------------------------
(* Log files, for any limits and any number of records and of programs.    *)

\* The files d, when those numbered below last, but for the lowest `last - k', were renamed or
\* failed to be: to n came its predecessor, or it stayed.
Came(d, last, fails, k, n) == n <= last /\ last - k < n /\ n - 1 \in DOMAIN d /\ n - 1 \notin fails
Stayed(d, last, fails, k, n) == n \in DOMAIN d /\ (n > last \/ n < last - k \/ n \in fails)

Moving(d, last, fails, k, g) ==
    /\ g = [n \in DOMAIN g |-> g[n]] /\ DOMAIN g \subseteq Nat
    /\ \A n \in Nat : n \in DOMAIN g <=> Came(d, last, fails, k, n) \/ Stayed(d, last, fails, k, n)
    /\ \A n \in DOMAIN g : g[n] = IF Came(d, last, fails, k, n) THEN d[n - 1] ELSE d[n]

\* The step of the fold.
move(g, fails, n) == IF n \in fails THEN g ELSE rename(g, n)

FilesOf(V) == UNION {[s -> V] : s \in SUBSET Nat}

LEMMA MaxOfSome ==
  ASSUME NEW last \in Nat, NEW s \in SUBSET (1 .. last), s # {}
  PROVE  Max(s) \in s /\ \A n \in s : n <= Max(s)
<1>1. \E x : x \in s /\ \A y \in s : x >= y
  BY Extremes
<1>2. Max(s) \in s /\ \A y \in s : Max(s) >= y
  BY <1>1 DEF Max
<1> QED
  BY <1>2

LEMMA MaxOfFirst ==
  ASSUME NEW last \in Nat, NEW k \in 1 .. last
  PROVE  Max(1 .. k) = k
<1>1. 1 .. k \in SUBSET (1 .. last) /\ k \in 1 .. k
  OBVIOUS
<1>2. Max(1 .. k) \in 1 .. k /\ k <= Max(1 .. k)
  BY <1>1, MaxOfSome
<1> QED
  BY <1>2

LEMMA LastNumber ==
  ASSUME m_maxFiles \in Nat
  PROVE  lastNumber \in Nat
<1>1. CASE m_maxFiles = 0
  <2>1. {m_maxFiles - 1, 0} = {-1, 0}
    BY <1>1
  <2>2. Max({-1, 0}) = 0
    BY DEF Max
  <2> QED
    BY <2>1, <2>2 DEF lastNumber
<1>2. CASE m_maxFiles # 0
  <2> DEFINE p == m_maxFiles - 1
  <2>1. p \in Nat
    BY <1>2
  <2> HIDE DEF p
  <2>2. \E x \in {p, 0} : \A y \in {p, 0} : x >= y
    BY <2>1
  <2>3. Max({p, 0}) \in {p, 0}
    BY <2>2 DEF Max
  <2> QED
    BY <2>1, <2>3 DEF lastNumber, p
<1> QED
  BY <1>1, <1>2

LEMMA MovedOnce ==
  ASSUME NEW d, DOMAIN d \subseteq Nat, NEW last \in Nat, NEW fails, NEW k \in Nat, k < last,
         NEW g, Moving(d, last, fails, k, g)
  PROVE  Moving(d, last, fails, k + 1, move(g, fails, last - (k + 1)))
<1> DEFINE n == last - (k + 1)
           h == move(g, fails, n)
<1>0. n \in Nat /\ n + 1 \in Nat /\ (n + 1) - 1 = n /\ DOMAIN g \subseteq Nat /\ last - k = n + 1 /\ n < last
  BY DEF Moving
<1>1. \A m \in Nat : m # n + 1 => (Came(d, last, fails, k + 1, m) <=> Came(d, last, fails, k, m))
  BY <1>0 DEF Came
<1>2. \A m \in Nat : m # n => (Stayed(d, last, fails, k + 1, m) <=> Stayed(d, last, fails, k, m))
  BY <1>0 DEF Stayed
<1>3. ~Came(d, last, fails, k, n + 1) /\ ~Came(d, last, fails, k, n)
  BY <1>0 DEF Came
<1>4. Came(d, last, fails, k + 1, n + 1) <=> n \in DOMAIN d /\ n \notin fails
  BY <1>0 DEF Came
<1>5. (Stayed(d, last, fails, k, n) <=> n \in DOMAIN d)
      /\ (Stayed(d, last, fails, k + 1, n) <=> n \in DOMAIN d /\ n \in fails)
  BY <1>0 DEF Stayed
<1>6. n \in DOMAIN g <=> n \in DOMAIN d
  BY <1>0, <1>3, <1>5 DEF Moving
<1>7. CASE n \notin DOMAIN d \/ n \in fails
  <2>1. h = g
    BY <1>6, <1>7 DEF move, rename
  <2>2. \A m \in Nat : Came(d, last, fails, k + 1, m) <=> Came(d, last, fails, k, m)
    BY <1>0, <1>1, <1>3, <1>4, <1>7
  <2>3. \A m \in Nat : Stayed(d, last, fails, k + 1, m) <=> Stayed(d, last, fails, k, m)
    BY <1>2, <1>5, <1>7
  <2>4. \A m \in DOMAIN g : m \in Nat
    BY <1>0
  <2> HIDE DEF h, n
  <2>5. Moving(d, last, fails, k + 1, g)
    BY <2>2, <2>3, <2>4 DEF Moving
  <2> QED
    BY <2>1, <2>5 DEF h, n
<1>8. CASE n \in DOMAIN d /\ n \notin fails
  <2>1. n \in DOMAIN g /\ g[n] = d[n]
    BY <1>0, <1>3, <1>6, <1>8 DEF Moving
  <2>2. h = [m \in (DOMAIN g \ {n}) \cup {n + 1} |-> IF m = n + 1 THEN g[n] ELSE g[m]]
    BY <1>8, <2>1 DEF move, rename
  <2> HIDE DEF h
  <2>3. /\ DOMAIN h = (DOMAIN g \ {n}) \cup {n + 1} /\ h = [m \in DOMAIN h |-> h[m]]
        /\ h[n + 1] = d[n] /\ \A m \in DOMAIN h : m # n + 1 => h[m] = g[m]
    BY <2>1, <2>2
  <2>4. Came(d, last, fails, k + 1, n + 1)
    BY <1>4, <1>8
  <2>5. \A m \in Nat : m \in DOMAIN h <=> Came(d, last, fails, k + 1, m) \/ Stayed(d, last, fails, k + 1, m)
    <3> SUFFICES ASSUME NEW m \in Nat
                 PROVE  m \in DOMAIN h <=> Came(d, last, fails, k + 1, m) \/ Stayed(d, last, fails, k + 1, m)
      OBVIOUS
    <3>1. CASE m = n + 1
      BY <2>3, <2>4, <3>1
    <3>2. CASE m = n
      <4>1. m \notin DOMAIN h
        BY <1>0, <2>3, <3>2
      <4>2. ~Came(d, last, fails, k + 1, m)
        BY <1>0, <1>1, <1>3, <3>2
      <4>3. ~Stayed(d, last, fails, k + 1, m)
        BY <1>5, <1>8, <3>2
      <4> QED
        BY <4>1, <4>2, <4>3
    <3>3. CASE m # n /\ m # n + 1
      <4>1. m \in DOMAIN h <=> m \in DOMAIN g
        BY <2>3, <3>3
      <4>2. m \in DOMAIN g <=> Came(d, last, fails, k, m) \/ Stayed(d, last, fails, k, m)
        BY DEF Moving
      <4> QED
        BY <1>1, <1>2, <3>3, <4>1, <4>2
    <3> QED
      BY <3>1, <3>2, <3>3
  <2>6. \A m \in DOMAIN h : h[m] = IF Came(d, last, fails, k + 1, m) THEN d[m - 1] ELSE d[m]
    <3> SUFFICES ASSUME NEW m \in DOMAIN h
                 PROVE  h[m] = IF Came(d, last, fails, k + 1, m) THEN d[m - 1] ELSE d[m]
      OBVIOUS
    <3>1. CASE m = n + 1
      BY <1>0, <2>3, <2>4, <3>1
    <3>2. CASE m # n + 1
      <4>1. m \in DOMAIN g /\ m \in Nat /\ h[m] = g[m]
        BY <1>0, <2>3, <3>2
      <4> HIDE DEF n
      <4> QED
        BY <1>1, <3>2, <4>1 DEF Moving
    <3> QED
      BY <3>1, <3>2
  <2>7. DOMAIN h \subseteq Nat
    BY <1>0, <2>3
  <2> HIDE DEF n
  <2>8. Moving(d, last, fails, k + 1, h)
    BY <2>3, <2>5, <2>6, <2>7 DEF Moving
  <2> QED
    BY <2>8 DEF h, n
<1> QED
  BY <1>7, <1>8

LEMMA RenamesTyped ==
  ASSUME NEW V, NEW g \in FilesOf(V), NEW n \in Nat
  PROVE  rename(g, n) \in FilesOf(V)
<1>1. PICK s \in SUBSET Nat : g \in [s -> V]
  BY DEF FilesOf
<1>2. CASE n \notin DOMAIN g
  BY <1>2 DEF rename
<1>3. CASE n \in DOMAIN g
  <2> DEFINE t == (s \ {n}) \cup {n + 1}
             h == [m \in t |-> IF m = n + 1 THEN g[n] ELSE g[m]]
  <2>1. rename(g, n) = h
    BY <1>1, <1>3 DEF rename
  <2>2. t \in SUBSET Nat
    OBVIOUS
  <2>3. h \in [t -> V]
    BY <1>1, <1>3
  <2> HIDE DEF t, h
  <2> QED
    BY <2>1, <2>2, <2>3 DEF FilesOf
<1> QED
  BY <1>2, <1>3

\* One after the other, from the highest number, all files are renamed that can be.
LEMMA RolledFiles ==
  ASSUME NEW d, DOMAIN d \subseteq Nat, d = [n \in DOMAIN d |-> d[n]], lastNumber \in Nat, NEW fails
  PROVE  Moving(d, lastNumber, fails, lastNumber, rolled(d, fails))
<1> DEFINE last == lastNumber
           S == 1 .. last
           d0 == IF last \in fails THEN d ELSE unlink(d, last)
           numbers == Reverse([k \in 1 .. last |-> k - 1])
           step(e, n) == IF n \in fails THEN e ELSE rename(e, n)
           op(n, g) == step(g, n)
           Body(it) == [s \in SUBSET S |->
                           IF s = {} THEN d0
                           ELSE LET x == Max(s) IN op(numbers[x], it[s \ {x}])]
           V == {d[n] : n \in DOMAIN d}
           U == FilesOf(V)
<1>1. DOMAIN numbers = S /\ \A k \in S : numbers[k] = last - k
  BY DEF Reverse
<1>2. rolled(d, fails) = (CHOOSE it : it = Body(it))[S]
  <2>1. rolled(d, fails) = FoldLeft(step, d0, numbers)
    BY DEF rolled
  <2> HIDE DEF numbers, d0, S, last
  <2>2. FoldLeft(step, d0, numbers)
        = (CHOOSE it : it = [s \in SUBSET DOMAIN numbers |->
                                IF s = {} THEN d0
                                ELSE LET x == Max(s) IN op(numbers[x], it[s \ {x}])])[DOMAIN numbers]
    BY DEF FoldLeft, MapThenFoldSet
  <2> QED
    BY <1>1, <2>1, <2>2
<1>3. d0 \in U /\ Moving(d, last, fails, 0, d0)
  <2> DEFINE D0 == {k \in DOMAIN d : k # last \/ last \in fails}
  <2>1. d0 = [k \in D0 |-> d[k]]
    BY DEF unlink
  <2> HIDE DEF d0
  <2>2. d0 \in [D0 -> V]
    BY <2>1
  <2>3. Moving(d, last, fails, 0, d0)
    <3>1. /\ d0 = [n \in DOMAIN d0 |-> d0[n]] /\ DOMAIN d0 = D0 /\ D0 \subseteq Nat
          /\ \A n \in D0 : d0[n] = d[n]
      BY <2>1
    <3>2. \A n \in Nat : ~Came(d, last, fails, 0, n)
      BY DEF Came
    <3>3. \A n \in Nat : n \in D0 <=> Stayed(d, last, fails, 0, n)
      BY DEF Stayed
    <3> HIDE DEF D0
    <3> QED
      BY <3>1, <3>2, <3>3 DEF Moving
  <2>4. D0 \in SUBSET Nat
    OBVIOUS
  <2> HIDE DEF D0, V
  <2> QED
    BY <2>2, <2>3, <2>4 DEF FilesOf
<1>4. IsFiniteSet(S)
  BY FS_Interval
<1>5. \A s \in SUBSET S : s # {} => Max(s) \in s
  BY MaxOfSome
<1>6. \E it : it = Body(it)
  <2> DEFINE pick == [s \in SUBSET S |-> Max(s)]
             F == [k \in S |-> [g \in U |-> move(g, fails, numbers[k])]]
  <2>1. F \in [S -> [U -> U]]
    <3>1. \A k \in S : numbers[k] \in Nat
      BY <1>1
    <3>2. \A k \in S, g \in U : move(g, fails, numbers[k]) \in U
      BY <3>1, RenamesTyped DEF move
    <3> HIDE DEF numbers, S, U
    <3> QED
      BY <3>2
  <2>2. \A s \in SUBSET S : s # {} => pick[s] \in s
    BY <1>5
  <2>3. PICK it \in [SUBSET S -> U] : Recurs(it, S, d0, pick, F)
    <3>1. \A T : IsFiniteSet(T) => \A D : \A e \in D : \A p : \A G \in [T -> [D -> D]] :
            (\A s \in SUBSET T : s # {} => p[s] \in s) => \E it \in [SUBSET T -> D] : Recurs(it, T, e, p, G)
      BY SetRecursion
    <3>2. d0 \in U
      BY <1>3
    <3> HIDE DEF pick, F, S, U, d0
    <3>3. \A D : \A e \in D : \A p : \A G \in [S -> [D -> D]] :
            (\A s \in SUBSET S : s # {} => p[s] \in s) => \E it \in [SUBSET S -> D] : Recurs(it, S, e, p, G)
      BY <1>4, <3>1
    <3> QED
      BY <2>1, <2>2, <3>2, <3>3
  <2>4. ASSUME NEW s \in SUBSET S PROVE it[s] = Body(it)[s]
    <3>1. CASE s = {}
      BY <2>3, <3>1 DEF Recurs
    <3>2. CASE s # {}
      <4> DEFINE x == Max(s)
      <4>1. x \in s /\ x \in S /\ pick[s] = x /\ s \ {x} \in SUBSET S
        BY <1>5, <3>2
      <4>2. it[s] = F[pick[s]][it[s \ {pick[s]}]]
        <5> HIDE DEF F, pick
        <5> QED BY <2>3, <3>2 DEF Recurs
      <4>3. it[s \ {x}] \in U
        BY <2>3, <4>1
      <4>4. it[s] = move(it[s \ {x}], fails, numbers[x])
        <5> HIDE DEF pick, x, numbers, U, S
        <5> QED BY <4>1, <4>2, <4>3
      <4> HIDE DEF numbers
      <4> QED
        BY <3>2, <4>4 DEF move
    <3> QED
      BY <3>1, <3>2
  <2>5. it = Body(it)
    <3>1. it = [s \in SUBSET S |-> it[s]]
      BY <2>3
    <3>2. Body(it) = [s \in SUBSET S |-> Body(it)[s]]
      OBVIOUS
    <3> HIDE DEF Body
    <3> QED
      BY <2>4, <3>1, <3>2
  <2> QED
    BY <2>5
<1> DEFINE c == CHOOSE it : it = Body(it)
<1>7. c = Body(c)
  <2> HIDE DEF Body
  <2> QED BY <1>6
<1> HIDE DEF c
<1>8. c[{}] = d0 /\ \A s \in SUBSET S : s # {} => c[s] = move(c[s \ {Max(s)}], fails, numbers[Max(s)])
  <2> HIDE DEF numbers, d0
  <2> QED BY <1>7 DEF move
<1> DEFINE A == {k \in Nat : k <= last => Moving(d, last, fails, k, c[1 .. k])}
<1>9. 0 \in A
  <2>1. 1 .. 0 = {}
    OBVIOUS
  <2> HIDE DEF d0
  <2> QED
    BY <1>3, <1>8, <2>1
<1>10. ASSUME NEW k \in Nat, k \in A PROVE k + 1 \in A
  <2> SUFFICES ASSUME k + 1 <= last PROVE Moving(d, last, fails, k + 1, c[1 .. k + 1])
    OBVIOUS
  <2>1. Moving(d, last, fails, k, c[1 .. k])
    BY <1>10
  <2>2. k + 1 \in S /\ 1 .. k + 1 \in SUBSET S /\ 1 .. k + 1 # {}
    OBVIOUS
  <2>3. Max(1 .. k + 1) = k + 1 /\ (1 .. k + 1) \ {k + 1} = 1 .. k
    BY <2>2, MaxOfFirst
  <2>4. c[1 .. k + 1] = move(c[1 .. k], fails, last - (k + 1))
    <3> HIDE DEF numbers
    <3> QED BY <1>1, <1>8, <2>2, <2>3
  <2> HIDE DEF last
  <2>5. last \in Nat
    BY DEF last
  <2> QED
    BY <2>1, <2>4, <2>5, MovedOnce
<1>11. Nat \subseteq A
  <2> HIDE DEF A
  <2> QED BY <1>9, <1>10, NaturalsFrom
<1>12. rolled(d, fails) = c[1 .. last]
  BY <1>2 DEF c
<1> QED
  BY <1>11, <1>12

-----------------------------------------------------------------------------
\* What the files hold when r records were written: the parts of RollingKept, of any files d.
Filed(d, r) ==
    /\ d = [n \in DOMAIN d |-> d[n]] /\ DOMAIN d \subseteq Nat
    /\ \A n \in DOMAIN d : d[n] \in Seq(0 .. r)
    /\ \A n, k \in DOMAIN d : n > k =>
           \A i \in DOMAIN d[n], j \in DOMAIN d[k] : d[n][i] # header /\ d[k][j] # header => d[n][i] < d[k][j]
    /\ \A n \in DOMAIN d : \A i, j \in DOMAIN d[n] : 1 < i /\ i < j => d[n][i] < d[n][j]
    /\ \A n \in DOMAIN d : \A i \in DOMAIN d[n] : d[n][i] = header => i = 1

Continued(u, v) == Len(u) <= Len(v) /\ \A i \in 1 .. Len(u) : v[i] = u[i]
Grown(d, e) == \A n \in DOMAIN d : n \in DOMAIN e /\ Continued(d[n], e[n])

Ready(s, r) ==
    /\ s = [disk |-> s.disk, file |-> s.file, size |-> s.size]
    /\ Filed(s.disk, r) /\ s.file \in BOOLEAN /\ s.size \in Int
    /\ s.file => 0 \in DOMAIN s.disk /\ s.size = Len(s.disk[0])

RollingInv ==
    /\ records \in Nat /\ m_maxFiles \in Nat
    /\ Filed(disk, records) /\ m_file \in BOOLEAN /\ m_fileSize \in Int
    /\ SizeIsCurrent

LEMMA FiledInOrder == 
  ASSUME records \in Nat, Filed(disk, records)
  PROVE  InOrder /\ HeadersFirst
<1>1. \A n \in DOMAIN disk : \A r \in RecordsIn(n) : \E i \in DOMAIN disk[n] : disk[n][i] = r /\ r # header
  BY DEF RecordsIn, ToSet
<1>2. \A n, k \in DOMAIN disk : n > k => \A r \in RecordsIn(n), q \in RecordsIn(k) : r < q
  <2> SUFFICES ASSUME NEW n \in DOMAIN disk, NEW k \in DOMAIN disk, n > k,
                      NEW r \in RecordsIn(n), NEW q \in RecordsIn(k)
               PROVE  r < q
    OBVIOUS
  <2>1. PICK i \in DOMAIN disk[n] : disk[n][i] = r /\ r # header
    BY <1>1
  <2>2. PICK j \in DOMAIN disk[k] : disk[k][j] = q /\ q # header
    BY <1>1
  <2> QED
    BY <2>1, <2>2 DEF Filed
<1> QED
  BY <1>2 DEF Filed, InOrder, HeadersFirst

LEMMA ContinuedTransitive ==
  ASSUME NEW u \in Seq(Nat), NEW v \in Seq(Nat), NEW w \in Seq(Nat), Continued(u, v), Continued(v, w)
  PROVE  Continued(u, w)
<1>1. Len(u) \in Nat /\ Len(v) \in Nat /\ Len(w) \in Nat /\ Len(u) <= Len(v) /\ Len(v) <= Len(w)
  BY DEF Continued
<1>2. \A i \in 1 .. Len(u) : i \in 1 .. Len(v) /\ v[i] = u[i] /\ w[i] = v[i]
  <2>1. \A i \in 1 .. Len(u) : i \in 1 .. Len(v)
    BY <1>1
  <2> QED
    BY <2>1 DEF Continued
<1>3. \A i \in 1 .. Len(u) : w[i] = u[i]
  BY <1>2
<1> QED
  BY <1>1, <1>3 DEF Continued

LEMMA ContinuedPrefix ==
  ASSUME NEW u \in Seq(Nat), NEW v \in Seq(Nat), Continued(u, v)
  PROVE  IsPrefix(u, v)
<1>1. Len(u) \in Nat /\ Len(v) \in Nat /\ Len(u) <= Len(v)
  BY DEF Continued
<1>2. SubSeq(u, 1, Len(u)) = [i \in 1 .. Len(u) |-> u[i]] /\ SubSeq(v, 1, Len(u)) = [i \in 1 .. Len(u) |-> v[i]]
  BY <1>1
<1> QED
  BY <1>1, <1>2 DEF IsPrefix, Continued

LEMMA ContinuedSelf == \A u \in Seq(Nat) : Continued(u, u)
BY DEF Continued

LEMMA FiledTexts == \A d, r : r \in Nat /\ Filed(d, r) => \A n \in DOMAIN d : d[n] \in Seq(Nat)
<1> SUFFICES ASSUME NEW d, NEW r \in Nat, Filed(d, r), NEW n \in DOMAIN d PROVE d[n] \in Seq(Nat)
  OBVIOUS
<1>1. d[n] \in Seq(0 .. r)
  BY DEF Filed
<1> QED
  BY <1>1

LEMMA GrownTransitive ==
  ASSUME NEW q \in Nat, NEW r \in Nat, NEW d, NEW e, NEW f, Filed(d, q), Filed(e, q), Filed(f, r), Grown(d, e), Grown(e, f)
  PROVE  Grown(d, f)
<1> SUFFICES ASSUME NEW n \in DOMAIN d PROVE n \in DOMAIN f /\ Continued(d[n], f[n])
  BY DEF Grown
<1>1. n \in DOMAIN e /\ n \in DOMAIN f /\ Continued(d[n], e[n]) /\ Continued(e[n], f[n])
  BY DEF Grown
<1>2. d[n] \in Seq(Nat) /\ e[n] \in Seq(Nat) /\ f[n] \in Seq(Nat)
  BY <1>1, FiledTexts
<1> QED
  BY <1>1, <1>2, ContinuedTransitive

LEMMA GrownSelf == 
  ASSUME NEW r \in Nat, NEW d, Filed(d, r)
  PROVE  Grown(d, d)
BY FiledTexts, ContinuedSelf DEF Grown

\* A record that comes after all others, or a header in an empty file.
LEMMA Appended ==
  ASSUME NEW r \in Nat, NEW d, Filed(d, r), 0 \in DOMAIN d,
         NEW unit, NEW q, \/ unit = r + 1 /\ q = r + 1
                          \/ unit = header /\ q = r /\ Len(d[0]) = 0
  PROVE  LET e == [d EXCEPT ![0] = Append(@, unit)]
         IN  Filed(e, q) /\ Grown(d, e) /\ 0 \in DOMAIN e /\ Len(e[0]) = Len(d[0]) + 1
<1> DEFINE e == [d EXCEPT ![0] = Append(@, unit)]
           u == d[0]
           v == Append(u, unit)
<1>1. u \in Seq(0 .. r) /\ u \in Seq(0 .. q) /\ unit \in 0 .. q /\ q \in Nat /\ q >= r
  BY DEF Filed, header
<1>2. /\ v \in Seq(0 .. q) /\ Len(v) = Len(u) + 1 /\ Len(u) \in Nat /\ v[Len(u) + 1] = unit
      /\ \A i \in 1 .. Len(u) : v[i] = u[i]
      /\ DOMAIN v = 1 .. Len(u) + 1 /\ DOMAIN u = 1 .. Len(u)
  BY <1>1
<1>3. /\ d = [n \in DOMAIN d |-> d[n]] /\ DOMAIN d \subseteq Nat
      /\ \A n \in DOMAIN d : d[n] \in Seq(0 .. r) /\ d[n] \in Seq(0 .. q) /\ d[n] \in Seq(Nat)
  BY <1>1, FiledTexts DEF Filed
<1>4. /\ DOMAIN e = DOMAIN d /\ e = [n \in DOMAIN e |-> e[n]] /\ e[0] = v
      /\ \A n \in DOMAIN d : n # 0 => e[n] = d[n]
  BY <1>3
<1>5. Grown(d, e)
  BY <1>2, <1>3, <1>4, ContinuedSelf, SMTT(30) DEF Grown, Continued
<1> HIDE DEF e, v
<1>6. \A n \in DOMAIN e : e[n] \in Seq(0 .. q)
  BY <1>2, <1>3, <1>4
<1>7. \A n, k \in DOMAIN e : n > k =>
          \A i \in DOMAIN e[n], j \in DOMAIN e[k] : e[n][i] # header /\ e[k][j] # header => e[n][i] < e[k][j]
  <2> SUFFICES ASSUME NEW n \in DOMAIN e, NEW k \in DOMAIN e, n > k,
                      NEW i \in DOMAIN e[n], NEW j \in DOMAIN e[k], e[n][i] # header, e[k][j] # header
               PROVE  e[n][i] < e[k][j]
    OBVIOUS
  <2>1. n \in DOMAIN d /\ k \in DOMAIN d /\ n # 0 /\ e[n] = d[n]
    BY <1>3, <1>4
  <2>2. CASE k = 0 /\ j = Len(u) + 1
    <3>1. unit = r + 1 /\ e[k][j] = r + 1
      BY <1>2, <1>4, <2>2
    <3>2. e[n][i] \in 0 .. r
      <4>1. d[n] \in Seq(0 .. r) /\ i \in DOMAIN d[n]
        BY <1>3, <2>1
      <4>2. d[n][i] \in 0 .. r
        <5> DEFINE w == d[n]
        <5>1. w \in Seq(0 .. r) /\ i \in DOMAIN w
          BY <4>1
        <5> HIDE DEF w
        <5>2. w[i] \in 0 .. r
          BY <5>1
        <5> QED
          BY <5>2 DEF w
      <4> QED
        BY <2>1, <4>2
    <3> QED
      BY <3>1, <3>2
  <2>3. CASE ~(k = 0 /\ j = Len(u) + 1)
    <3>1. j \in DOMAIN d[k] /\ e[k][j] = d[k][j]
      <4>1. CASE k = 0
        BY <1>2, <1>4, <2>3, <4>1
      <4>2. CASE k # 0
        BY <1>4, <2>1, <4>2
      <4> QED
        BY <4>1, <4>2
    <3> QED
      BY <2>1, <3>1 DEF Filed
  <2> QED
    BY <2>2, <2>3
<1>8. \A n \in DOMAIN e : \A i, j \in DOMAIN e[n] : 1 < i /\ i < j => e[n][i] < e[n][j]
  <2> SUFFICES ASSUME NEW n \in DOMAIN e, NEW i \in DOMAIN e[n], NEW j \in DOMAIN e[n], 1 < i, i < j
               PROVE  e[n][i] < e[n][j]
    OBVIOUS
  <2>1. CASE n = 0
    <3>1. i \in 1 .. Len(u) /\ v[i] = u[i] /\ u[i] \in 0 .. r
      <4>1. i \in 1 .. Len(u) + 1 /\ j \in 1 .. Len(u) + 1
        BY <1>2, <1>4, <2>1
      <4>2. i \in 1 .. Len(u)
        BY <1>2, <4>1
      <4> QED
        BY <1>1, <1>2, <4>2
    <3>2. CASE j = Len(u) + 1
      BY <1>2, <1>4, <2>1, <3>1, <3>2
    <3>3. CASE j # Len(u) + 1
      <4>1. j \in 1 .. Len(u) /\ v[j] = u[j]
        BY <1>2, <1>4, <2>1, <3>3, SMTT(30)
      <4> QED
        BY <1>2, <1>4, <2>1, <3>1, <4>1 DEF Filed
    <3> QED
      BY <3>2, <3>3
  <2>2. CASE n # 0
    BY <1>4, <2>2 DEF Filed
  <2> QED
    BY <2>1, <2>2
<1>9. \A n \in DOMAIN e : \A i \in DOMAIN e[n] : e[n][i] = header => i = 1
  <2> SUFFICES ASSUME NEW n \in DOMAIN e, NEW i \in DOMAIN e[n], e[n][i] = header
               PROVE  i = 1
    OBVIOUS
  <2>1. CASE n = 0
    <3>1. CASE i = Len(u) + 1
      BY <1>2, <1>4, <2>1, <3>1 DEF header
    <3>2. CASE i # Len(u) + 1
      <4>1. i \in DOMAIN u /\ v[i] = u[i]
        BY <1>2, <1>4, <2>1, <3>2
      <4> QED
        BY <1>4, <2>1, <4>1 DEF Filed
    <3> QED
      BY <3>1, <3>2
  <2>2. CASE n # 0
    BY <1>4, <2>2 DEF Filed
  <2> QED
    BY <2>1, <2>2
<1>10. Filed(e, q)
  BY <1>3, <1>4, <1>6, <1>7, <1>8, <1>9 DEF Filed
<1> QED
  BY <1>2, <1>4, <1>5, <1>10 DEF e

\* What a step may do to the files d: the file n may be lost only if it is the last one, or failed
\* to be moved when its predecessor did not.
Keeps(d, e, fails) ==
    \A n \in DOMAIN d \ {lastNumber} :
        \/ n \in fails /\ n - 1 \in DOMAIN d \ fails
        \/ \E k \in DOMAIN e : Continued(d[n], e[k])

\* Rolling keeps the order, and the files.
LEMMA RolledInOrder ==
  ASSUME NEW r \in Nat, NEW d, Filed(d, r), lastNumber \in Nat, NEW fails
  PROVE  Filed(rolled(d, fails), r) /\ Keeps(d, rolled(d, fails), fails)
<1> DEFINE last == lastNumber
           e == rolled(d, fails)
           was(n) == IF Came(d, last, fails, last, n) THEN n - 1 ELSE n
<1>1. DOMAIN d \subseteq Nat /\ d = [n \in DOMAIN d |-> d[n]]
  BY DEF Filed
<1>2. Moving(d, last, fails, last, e)
  BY <1>1, RolledFiles
<1>3. last \in Nat
  OBVIOUS
<1> HIDE DEF last, e
<1>4. /\ e = [n \in DOMAIN e |-> e[n]] /\ DOMAIN e \subseteq Nat
      /\ \A n \in DOMAIN e : was(n) \in DOMAIN d /\ e[n] = d[was(n)]
  <2>1. \A n \in DOMAIN e : was(n) \in DOMAIN d
    <3> SUFFICES ASSUME NEW n \in DOMAIN e PROVE was(n) \in DOMAIN d
      OBVIOUS
    <3>1. n \in Nat /\ (Came(d, last, fails, last, n) \/ Stayed(d, last, fails, last, n))
      BY <1>2 DEF Moving
    <3> QED
      BY <3>1 DEF Came, Stayed
  <2>2. \A n \in DOMAIN e : e[n] = d[was(n)]
    BY <1>2 DEF Moving
  <2> QED
    BY <1>2, <2>1, <2>2 DEF Moving
<1>5. \A n, k \in DOMAIN e : n > k => was(n) > was(k)
  <2> SUFFICES ASSUME NEW n \in DOMAIN e, NEW k \in DOMAIN e, n > k PROVE was(n) > was(k)
    OBVIOUS
  <2>1. n \in Nat /\ k \in Nat
    BY <1>4
  <2>2. CASE n = k + 1 /\ Came(d, last, fails, last, n) /\ ~Came(d, last, fails, last, k)
    <3>1. k \notin fails /\ n <= last
      BY <2>1, <2>2 DEF Came
    <3>2. Stayed(d, last, fails, last, k)
      BY <1>2, <2>1, <2>2 DEF Moving
    <3> QED
      BY <1>3, <2>1, <2>2, <3>1, <3>2 DEF Stayed
  <2>3. CASE ~(n = k + 1 /\ Came(d, last, fails, last, n) /\ ~Came(d, last, fails, last, k))
    BY <2>1, <2>3
  <2> QED
    BY <2>2, <2>3
<1>6. Filed(e, r)
  <2> HIDE DEF was
  <2>1. \A n \in DOMAIN e : e[n] \in Seq(0 .. r)
    BY <1>4 DEF Filed
  <2>2. \A n, k \in DOMAIN e : n > k =>
          \A i \in DOMAIN e[n], j \in DOMAIN e[k] : e[n][i] # header /\ e[k][j] # header => e[n][i] < e[k][j]
    BY <1>4, <1>5 DEF Filed
  <2>3. /\ \A n \in DOMAIN e : \A i, j \in DOMAIN e[n] : 1 < i /\ i < j => e[n][i] < e[n][j]
        /\ \A n \in DOMAIN e : \A i \in DOMAIN e[n] : e[n][i] = header => i = 1
    BY <1>4 DEF Filed
  <2> QED
    BY <1>4, <2>1, <2>2, <2>3 DEF Filed
<1>7. ASSUME NEW n \in DOMAIN d \ {last}, ~(n \in fails /\ n - 1 \in DOMAIN d \ fails)
      PROVE \E k \in DOMAIN e : Continued(d[n], e[k])
  <2> DEFINE k == IF n > last \/ n \in fails THEN n ELSE n + 1
  <2>1. n \in Nat /\ k \in Nat
    BY <1>1, <1>3
  <2>2. k \in DOMAIN e /\ was(k) = n
    <3>1. CASE n > last \/ n \in fails
      <4>1. Stayed(d, last, fails, last, n) /\ ~Came(d, last, fails, last, n)
        BY <1>3, <1>7, <2>1, <3>1 DEF Stayed, Came
      <4> QED
        BY <1>2, <2>1, <3>1, <4>1 DEF Moving
    <3>2. CASE ~(n > last \/ n \in fails)
      <4>1. Came(d, last, fails, last, n + 1) /\ (n + 1) - 1 = n
        BY <1>3, <2>1, <3>2 DEF Came
      <4> QED
        BY <1>2, <2>1, <3>2, <4>1 DEF Moving
    <3> QED
      BY <3>1, <3>2
  <2> HIDE DEF k, was
  <2>3. e[k] = d[n] /\ d[n] \in Seq(Nat)
    BY <1>4, <2>1, <2>2, FiledTexts
  <2> QED
    BY <2>2, <2>3, ContinuedSelf
<1>8. Keeps(d, e, fails)
  BY <1>7 DEF Keeps, last
<1> QED
  BY <1>6, <1>8 DEF e

LEMMA AppendTo ==
  ASSUME NEW r \in Nat, NEW s, Ready(s, r), NEW space \in BOOLEAN,
         NEW unit, NEW q, \/ unit = r + 1 /\ q = r + 1
                          \/ unit = header /\ q = r /\ s.size = 0
  PROVE  LET t == append_to(s, unit, space)
         IN  Ready(t, q) /\ Grown(s.disk, t.disk)
<1> DEFINE t == append_to(s, unit, space)
           d == s.disk
           e == [d EXCEPT ![0] = Append(@, unit)]
<1>1. /\ s = [disk |-> s.disk, file |-> s.file, size |-> s.size]
      /\ Filed(d, r) /\ s.file \in BOOLEAN /\ s.size \in Int
      /\ s.file => 0 \in DOMAIN d /\ s.size = Len(d[0])
  BY DEF Ready
<1>2. CASE s.file /\ space
  <2>1. Filed(e, q) /\ Grown(d, e) /\ 0 \in DOMAIN e /\ Len(e[0]) = Len(d[0]) + 1
    <3> HIDE DEF d
    <3>1. LET f == [d EXCEPT ![0] = Append(@, unit)]
          IN  Filed(f, q) /\ Grown(d, f) /\ 0 \in DOMAIN f /\ Len(f[0]) = Len(d[0]) + 1
      BY <1>1, <1>2, Appended
    <3> QED
      BY <3>1
  <2>2. t = [disk |-> e, file |-> s.file, size |-> s.size + 1]
    <3>1. t = [s EXCEPT !.disk[0] = Append(@, unit), !.size = @ + 1]
      BY <1>2 DEF append_to
    <3> QED
      BY <1>1, <3>1
  <2> HIDE DEF e, d, t
  <2>3. t.disk = e /\ t.file = s.file /\ t.size = s.size + 1 /\ t = [disk |-> t.disk, file |-> t.file, size |-> t.size]
    BY <2>2
  <2> QED
    BY <1>1, <1>2, <2>1, <2>3 DEF Ready, t, d
<1>3. CASE ~(s.file /\ space)
  <2>1. t = s
    BY <1>3 DEF append_to
  <2>2. Filed(d, q)
    <3>1. CASE q = r
      BY <1>1, <3>1
    <3>2. CASE q = r + 1
      <4>1. \A n \in DOMAIN d : d[n] \in Seq(0 .. q)
        <5> SUFFICES ASSUME NEW n \in DOMAIN d PROVE d[n] \in Seq(0 .. q)
          OBVIOUS
        <5>1. d[n] \in Seq(0 .. r)
          BY <1>1 DEF Filed
        <5> HIDE DEF d
        <5> QED
          BY <3>2, <5>1
      <4> QED
        BY <1>1, <4>1 DEF Filed
    <3> QED
      BY <3>1, <3>2
  <2>3. Grown(d, d)
    BY <1>1, GrownSelf
  <2> HIDE DEF t
  <2> QED
    BY <1>1, <2>1, <2>2, <2>3 DEF Ready, t
<1> QED
  BY <1>2, <1>3

LEMMA Opens ==
  ASSUME NEW r \in Nat, NEW s, NEW d, NEW file, NEW size, s = [disk |-> d, file |-> file, size |-> size],
         Filed(d, r), NEW opens \in BOOLEAN, NEW space \in BOOLEAN
  PROVE  LET t == openLogFile(s, opens, space)
         IN  Ready(t, r) /\ Grown(d, t.disk)
<1> DEFINE e == IF 0 \in DOMAIN d THEN d ELSE [k \in DOMAIN d \cup {0} |-> IF k = 0 THEN <<>> ELSE d[k]]
           o == open_file(s, opens)
           t == openLogFile(s, opens, space)
<1>1. s.disk = d
  OBVIOUS
<1>2. Filed(e, r) /\ Grown(d, e) /\ 0 \in DOMAIN e
  <2>1. CASE 0 \in DOMAIN d
    BY <2>1, GrownSelf
  <2>2. CASE 0 \notin DOMAIN d
    <3>1. e = [k \in DOMAIN d \cup {0} |-> IF k = 0 THEN <<>> ELSE d[k]]
      BY <2>2
    <3> HIDE DEF e
    <3>2. /\ DOMAIN e = DOMAIN d \cup {0} /\ e = [n \in DOMAIN e |-> e[n]] /\ e[0] = <<>>
          /\ \A n \in DOMAIN d : e[n] = d[n]
      BY <2>2, <3>1
    <3>3. <<>> \in Seq(0 .. r) /\ DOMAIN <<>> = {}
      OBVIOUS
    <3>4. /\ e = [n \in DOMAIN e |-> e[n]] /\ DOMAIN e \subseteq Nat
          /\ \A n \in DOMAIN e : e[n] \in Seq(0 .. r)
      BY <3>2, <3>3 DEF Filed
    <3>6. DOMAIN e[0] = {}
      BY <3>2, <3>3
    <3>7. \A n, k \in DOMAIN e : n > k =>
            \A i \in DOMAIN e[n], j \in DOMAIN e[k] : e[n][i] # header /\ e[k][j] # header => e[n][i] < e[k][j]
      <4> SUFFICES ASSUME NEW n \in DOMAIN e, NEW k \in DOMAIN e, n > k,
                          NEW i \in DOMAIN e[n], NEW j \in DOMAIN e[k]
                   PROVE  e[n][i] # header /\ e[k][j] # header => e[n][i] < e[k][j]
        OBVIOUS
      <4>1. n \in DOMAIN d /\ k \in DOMAIN d /\ e[n] = d[n] /\ e[k] = d[k]
        BY <3>2, <3>6
      <4> QED
        BY <4>1 DEF Filed
    <3>8. \A n \in DOMAIN e : \A i \in DOMAIN e[n] : n \in DOMAIN d /\ e[n] = d[n]
      BY <3>2, <3>6
    <3>9. /\ \A n \in DOMAIN e : \A i, j \in DOMAIN e[n] : 1 < i /\ i < j => e[n][i] < e[n][j]
          /\ \A n \in DOMAIN e : \A i \in DOMAIN e[n] : e[n][i] = header => i = 1
      BY <3>8 DEF Filed
    <3>10. Filed(e, r)
      BY <3>4, <3>7, <3>9 DEF Filed
    <3>5. Grown(d, e)
      BY <3>2, FiledTexts, ContinuedSelf DEF Grown
    <3> QED
      BY <3>2, <3>10, <3>5
  <2> QED
    BY <2>1, <2>2
<1>3. /\ opens = TRUE => o = [disk |-> e, file |-> TRUE, size |-> Len(e[0])]
      /\ opens = FALSE => o = [disk |-> d, file |-> FALSE, size |-> Failed]
  <2>1. CASE opens = TRUE
    BY <1>1, <2>1 DEF open_file
  <2>2. CASE opens = FALSE
    <3>1. o = [s EXCEPT !.file = FALSE, !.size = Failed]
      BY <2>2 DEF open_file
    <3> HIDE DEF o, e
    <3> QED
      BY <2>2, <3>1
  <2> QED
    BY <2>1, <2>2
<1> HIDE DEF e, o
<1>4. Ready(o, r) /\ Grown(d, o.disk)
  <2>1. CASE opens = TRUE
    <3>1. o.disk = e /\ o.file = TRUE /\ o.size = Len(e[0]) /\ o = [disk |-> o.disk, file |-> o.file, size |-> o.size]
      BY <1>3, <2>1
    <3>2. e[0] \in Seq(Nat)
      BY <1>2, FiledTexts
    <3>3. Len(e[0]) \in Int
      BY <3>2
    <3> QED
      BY <1>2, <3>1, <3>3 DEF Ready
  <2>2. CASE opens = FALSE
    <3>1. o.disk = d /\ o.file = FALSE /\ o.size = Failed /\ o = [disk |-> o.disk, file |-> o.file, size |-> o.size]
      BY <1>3, <2>2
    <3>2. Grown(d, o.disk) /\ Filed(o.disk, r)
      BY <3>1, GrownSelf
    <3>3. o.size \in Int /\ ~o.file /\ o.file \in BOOLEAN
      <4>1. o.size \in Int
        BY <3>1 DEF Failed
      <4>2. ~o.file /\ o.file \in BOOLEAN
        BY <3>1
      <4> QED
        BY <4>1, <4>2
    <3> QED
      BY <3>1, <3>2, <3>3 DEF Ready
  <2> QED
    BY <2>1, <2>2
<1>5. t = IF o.size = 0 THEN append_to(o, header, space) ELSE o
  BY DEF openLogFile, o
<1> HIDE DEF t
<1>6. CASE o.size = 0
  <2> DEFINE p == append_to(o, header, space)
  <2>1. Ready(p, r) /\ Grown(o.disk, p.disk)
    BY <1>4, <1>6, AppendTo
  <2> HIDE DEF p
  <2>2. Filed(o.disk, r) /\ Filed(p.disk, r)
    BY <1>4, <2>1 DEF Ready
  <2>3. Grown(d, p.disk)
    BY <1>4, <2>1, <2>2, GrownTransitive
  <2> QED
    BY <1>5, <1>6, <2>1, <2>3 DEF p, t
<1>7. CASE o.size # 0
  BY <1>4, <1>5, <1>7 DEF t
<1> QED
  BY <1>6, <1>7

\* rollLogFiles(), whatever cannot be moved.
LEMMA Rolls ==
  ASSUME NEW r \in Nat, NEW s, Ready(s, r), lastNumber \in Nat,
         NEW opens \in BOOLEAN, NEW space \in BOOLEAN, NEW fails
  PROVE  LET t == roll_files(s, opens, space, fails)
         IN  Ready(t, r) /\ Keeps(s.disk, t.disk, fails)
<1> DEFINE d == s.disk
           e == rolled(d, fails)
           q == [s EXCEPT !.disk = rolled(@, fails)]
           t == openLogFile(q, opens, space)
<1>1. s = [disk |-> d, file |-> s.file, size |-> s.size] /\ Filed(d, r)
  BY DEF Ready
<1>2. q = [disk |-> e, file |-> s.file, size |-> s.size]
  BY <1>1
<1>3. Filed(e, r) /\ Keeps(d, e, fails)
  BY <1>1, RolledInOrder
<1>4. roll_files(s, opens, space, fails) = t
  BY DEF roll_files
<1> HIDE DEF e, q, t, d
<1>5. Ready(t, r) /\ Grown(e, t.disk)
  BY <1>2, <1>3, Opens DEF t
<1>6. ASSUME NEW n \in DOMAIN d \ {lastNumber}, ~(n \in fails /\ n - 1 \in DOMAIN d \ fails)
      PROVE  \E k \in DOMAIN t.disk : Continued(d[n], t.disk[k])
  <2>1. PICK k \in DOMAIN e : Continued(d[n], e[k])
    BY <1>3, <1>6 DEF Keeps
  <2>2. k \in DOMAIN t.disk /\ Continued(e[k], t.disk[k])
    BY <1>5 DEF Grown
  <2>3. d[n] \in Seq(Nat) /\ e[k] \in Seq(Nat) /\ t.disk[k] \in Seq(Nat)
    <3>1. Filed(t.disk, r)
      BY <1>5 DEF Ready
    <3> QED
      BY <1>1, <1>3, <2>2, <3>1, FiledTexts
  <2> QED
    BY <2>1, <2>2, <2>3, ContinuedTransitive
<1>7. Keeps(d, t.disk, fails)
  BY <1>6 DEF Keeps
<1> QED
  BY <1>4, <1>5, <1>7 DEF d

LEMMA GrownKeeps ==
  ASSUME NEW r \in Nat, NEW q \in Nat, NEW d, NEW e, NEW f, NEW fails, Filed(d, r), Filed(e, r), Filed(f, q),
         Keeps(d, e, fails), Grown(e, f)
  PROVE  Keeps(d, f, fails)
<1> SUFFICES ASSUME NEW n \in DOMAIN d \ {lastNumber}, ~(n \in fails /\ n - 1 \in DOMAIN d \ fails)
             PROVE  \E k \in DOMAIN f : Continued(d[n], f[k])
  BY DEF Keeps
<1>1. PICK k \in DOMAIN e : Continued(d[n], e[k])
  BY DEF Keeps
<1>2. k \in DOMAIN f /\ Continued(e[k], f[k])
  BY DEF Grown
<1>3. d[n] \in Seq(Nat) /\ e[k] \in Seq(Nat) /\ f[k] \in Seq(Nat)
  BY <1>2, FiledTexts
<1> QED
  BY <1>1, <1>2, <1>3, ContinuedTransitive

LEMMA GrownIsKept == \A d, e, fails : Grown(d, e) => Keeps(d, e, fails)
BY DEF Grown, Keeps

LEMMA NowReady ==
  ASSUME RollingInv
  PROVE  Ready(Files0, records) /\ Files0.disk = disk
BY DEF RollingInv, Files0, Ready, SizeIsCurrent

LEMMA ReadyNext ==
  ASSUME NEW t, becomes(t), Ready(t, records'), records' \in Nat, m_maxFiles' \in Nat
  PROVE  RollingInv'
BY DEF becomes, Ready, RollingInv, SizeIsCurrent

LEMMA WriteKeeps ==
  ASSUME RollingInv, NEW opens \in BOOLEAN, NEW space \in BOOLEAN, NEW fails, write(opens, space, fails)
  PROVE  RollingInv' /\ Keeps(disk, disk', stuck')
<1> DEFINE rolls == ~m_firstWrite /\ m_maxFiles > 0 /\ m_fileSize > m_maxFileSize /\ m_fileSize # Failed
           reopened == openLogFile(Files0, opens, space)
           moved == roll_files(Files0, opens, space, fails)
           ready == IF m_firstWrite THEN reopened ELSE IF rolls THEN moved ELSE Files0
           t == append_to(ready, records + 1, space)
<1>1. /\ becomes(t) /\ records' = records + 1 /\ UNCHANGED m_maxFiles
      /\ records \in Nat /\ lastNumber \in Nat /\ Filed(disk, records)
      /\ stuck' = fails
  BY LastNumber DEF write, RollingInv
<1>2. Ready(Files0, records) /\ Files0.disk = disk
  BY NowReady
<1>3. Ready(reopened, records) /\ Keeps(disk, reopened.disk, fails)
  <2>1. Files0 = [disk |-> disk, file |-> m_file, size |-> m_fileSize]
    BY DEF Files0
  <2> HIDE DEF reopened
  <2>2. Ready(reopened, records) /\ Grown(disk, reopened.disk)
    BY <1>1, <2>1, Opens DEF reopened
  <2> QED
    BY <2>2, GrownIsKept
<1>4. Ready(moved, records) /\ Keeps(disk, moved.disk, fails)
  <2> HIDE DEF moved
  <2> QED
    BY <1>1, <1>2, Rolls DEF moved
<1>5. Keeps(disk, Files0.disk, fails)
  BY <1>1, <1>2, GrownSelf, GrownIsKept
<1> HIDE DEF reopened, moved, rolls
<1>6. Ready(ready, records) /\ Keeps(disk, ready.disk, fails)
  BY <1>1, <1>2, <1>3, <1>4, <1>5
<1> HIDE DEF ready, t
<1>7. Ready(t, records + 1) /\ Grown(ready.disk, t.disk)
  BY <1>1, <1>6, AppendTo DEF t
<1>8. Keeps(disk, t.disk, fails)
  <2>1. Filed(ready.disk, records) /\ Filed(t.disk, records + 1) /\ records + 1 \in Nat
    BY <1>1, <1>6, <1>7 DEF Ready
  <2> QED
    BY <1>1, <1>6, <1>7, <2>1, GrownKeeps
<1>9. disk' = t.disk /\ records' \in Nat /\ m_maxFiles' \in Nat
  BY <1>1 DEF becomes, RollingInv
<1> QED
  BY <1>1, <1>7, <1>8, <1>9, ReadyNext

LEMMA RollKeeps ==
  ASSUME RollingInv, NEW opens \in BOOLEAN, NEW space \in BOOLEAN, NEW fails, rollLogFiles(opens, space, fails)
  PROVE  RollingInv' /\ Keeps(disk, disk', stuck')
<1> DEFINE moved == roll_files(Files0, opens, space, fails)
<1>1. /\ becomes(moved) /\ UNCHANGED <<records, m_maxFiles>> /\ stuck' = fails
      /\ records \in Nat /\ m_maxFiles \in Nat /\ lastNumber \in Nat
  BY LastNumber DEF rollLogFiles, RollingInv
<1>2. Ready(Files0, records) /\ Files0.disk = disk
  BY NowReady
<1> HIDE DEF moved
<1>3. Ready(moved, records) /\ Keeps(disk, moved.disk, fails)
  BY <1>1, <1>2, Rolls DEF moved
<1>4. disk' = moved.disk /\ records' \in Nat /\ m_maxFiles' \in Nat /\ Ready(moved, records')
  BY <1>1, <1>3 DEF becomes
<1> QED
  BY <1>1, <1>3, <1>4, ReadyNext

\* The next program starts on files that are in order.
LEMMA StartsOver ==
  ASSUME RollingInv, starts_over, Filed(disk', records)
  PROVE  RollingInv'
<1>1. PICK n \in FileSizes, k \in FileCounts : constructed(n, k)
  BY DEF starts_over
<1>2. m_file' = FALSE /\ m_fileSize' = 0 /\ m_maxFiles' \in Nat
  BY <1>1, RollingAssumption DEF constructed, close_file
<1>3. records' = records /\ records \in Nat
  BY DEF starts_over, RollingInv
<1>4. SizeIsCurrent'
  BY <1>2 DEF SizeIsCurrent
<1>5. m_file' \in BOOLEAN
  BY <1>2
<1>6. m_fileSize' \in Int
  BY <1>2
<1>7. records' \in Nat /\ Filed(disk', records')
  BY <1>3
<1> QED
  BY <1>2, <1>4, <1>5, <1>6, <1>7 DEF RollingInv

LEMMA KilledKeeps ==
  ASSUME RollingInv, NEW fails, killed_rolling(fails)
  PROVE  RollingInv' /\ Keeps(disk, disk', stuck')
<1>1. starts_over /\ disk' = rolled(disk, fails) /\ stuck' = fails
  BY DEF killed_rolling
<1>2. records \in Nat /\ Filed(disk, records) /\ lastNumber \in Nat
  BY LastNumber DEF RollingInv
<1>3. Filed(rolled(disk, fails), records) /\ Keeps(disk, rolled(disk, fails), fails)
  BY <1>2, RolledInOrder
<1> QED
  BY <1>1, <1>3, StartsOver

\* The files stay as they are.
LEMMA FilesStay ==
  ASSUME RollingInv, UNCHANGED <<disk, records>>, m_maxFiles' \in Nat,
         \/ m_file' = FALSE /\ m_fileSize' \in Int
         \/ UNCHANGED <<m_file, m_fileSize>>
  PROVE  RollingInv' /\ Keeps(disk, disk', stuck')
<1>1. RollingInv'
  <2>1. /\ records' \in Nat /\ Filed(disk', records') /\ m_file' \in BOOLEAN /\ m_fileSize' \in Int
    BY DEF RollingInv
  <2>2. SizeIsCurrent'
    BY DEF RollingInv, SizeIsCurrent
  <2> QED
    BY <2>1, <2>2 DEF RollingInv
<1>2. Grown(disk, disk')
  BY GrownSelf DEF RollingInv
<1> QED
  BY <1>1, <1>2, GrownIsKept

LEMMA RollingStep ==
  ASSUME RollingInv, [RollingNext]_rollingVars
  PROVE  RollingInv' /\ Keeps(disk, disk', stuck')
<1>1. ASSUME NEW fails, NEW opens \in BOOLEAN, NEW space \in BOOLEAN,
             write(opens, space, fails) \/ rollLogFiles(opens, space, fails)
      PROVE  RollingInv' /\ Keeps(disk, disk', stuck')
  BY <1>1, WriteKeeps, RollKeeps
<1>2. CASE setFileName
  BY <1>2, FilesStay DEF setFileName, close_file, RollingInv
<1>3. CASE start_over
  <2>1. starts_over /\ disk' = disk
    BY <1>3 DEF start_over
  <2>2. Grown(disk, disk') /\ Filed(disk', records)
    BY <2>1, GrownSelf DEF RollingInv
  <2> QED
    BY <2>1, <2>2, StartsOver, GrownIsKept
<1>4. ASSUME NEW n \in FileCounts, setMaxFiles(n) PROVE RollingInv' /\ Keeps(disk, disk', stuck')
  BY <1>4, FilesStay, RollingAssumption DEF setMaxFiles
<1>5. ASSUME NEW n \in FileSizes, setMaxFileSize(n) PROVE RollingInv' /\ Keeps(disk, disk', stuck')
  BY <1>5, FilesStay DEF setMaxFileSize, RollingInv
<1>6. CASE UNCHANGED rollingVars
  BY <1>6, FilesStay DEF rollingVars, RollingInv
<1>7. ASSUME NEW fails, killed_rolling(fails) PROVE RollingInv' /\ Keeps(disk, disk', stuck')
  BY <1>7, KilledKeeps
<1> QED
  BY <1>1, <1>2, <1>3, <1>4, <1>5, <1>6, <1>7 DEF RollingNext

LEMMA RollingStart == RollingInit => RollingInv
<1> SUFFICES ASSUME RollingInit PROVE RollingInv
  OBVIOUS
<1>1. disk = <<>> /\ records = 0 /\ m_file = FALSE /\ m_fileSize = 0 /\ m_maxFiles \in Nat
  BY RollingAssumption DEF RollingInit
<1>2. Filed(<<>>, 0)
  <2>1. DOMAIN <<>> = {} /\ <<>> = [n \in {} |-> 0]
    OBVIOUS
  <2>2. [n \in {} |-> <<>>[n]] = [n \in {} |-> 0]
    OBVIOUS
  <2> QED
    BY <2>1, <2>2 DEF Filed
<1>3. SizeIsCurrent
  BY <1>1 DEF SizeIsCurrent
<1>4. records \in Nat /\ m_fileSize \in Int
  BY <1>1
<1>6. m_file \in BOOLEAN
  BY <1>1
<1>5. Filed(disk, records)
  BY <1>1, <1>2
<1> QED
  BY <1>1, <1>3, <1>4, <1>5, <1>6 DEF RollingInv

\* Log files are kept (RollingKept): whatever fails, whenever a program starts over, killed amidst
\* rolling or not, and whenever the limits change: the files are in order, their headers first, the
\* size that decides is the file's, and a step loses no file but the oldest, and one that it failed
\* to rename while it renamed the one before to its name.
THEOREM LogFilesKept == RollingSpec => RollingKept
<1>1. RollingInv => InOrder /\ HeadersFirst /\ SizeIsCurrent
  BY FiledInOrder DEF RollingInv
<1>2. RollingInv /\ [RollingNext]_rollingVars
      => [\A n \in DOMAIN disk \ {lastNumber} :
              Overwritten(n) \/ \E k \in DOMAIN disk' : IsPrefix(disk[n], disk'[k])]_rollingVars
  <2> SUFFICES ASSUME RollingInv, [RollingNext]_rollingVars, NEW n \in DOMAIN disk \ {lastNumber}, ~Overwritten(n)
               PROVE  \E k \in DOMAIN disk' : IsPrefix(disk[n], disk'[k])
    OBVIOUS
  <2>1. PICK k \in DOMAIN disk' : Continued(disk[n], disk'[k])
    BY RollingStep DEF Keeps, Overwritten
  <2>2. disk[n] \in Seq(Nat)
    BY FiledTexts DEF RollingInv
  <2>3. records' \in Nat /\ Filed(disk', records')
    BY RollingStep DEF RollingInv
  <2>4. disk'[k] \in Seq(Nat)
    BY <2>3, FiledTexts
  <2> QED
    BY <2>1, <2>2, <2>4, ContinuedPrefix
<1>3. RollingInv /\ [RollingNext]_rollingVars => RollingInv'
  BY RollingStep
<1> QED
  BY <1>1, <1>2, <1>3, RollingStart, PTL DEF RollingSpec, RollingKept, OnlyOldestLost

-----------------------------------------------------------------------------
(* Clocks.  Counts are compared modulo the number of values of a type.     *)

\* a and b differ by a multiple of m.
Congruent(m, a, b) == \E k \in Int : a = b + k * m

\* What m counts is counted without a remainder by n.
Multiple(n, m) == \E k \in Int : n = k * m

LEMMA CongruentMod ==
  ASSUME NEW m \in Nat \ {0}, NEW n \in Int
  PROVE  n % m \in 0 .. m - 1 /\ Congruent(m, n % m, n)
<1>1. n = m * (n \div m) + (n % m) /\ n % m \in 0 .. m - 1 /\ n \div m \in Int
  OBVIOUS
<1> DEFINE q == n \div m
           r == n % m
<1>2. r = n + (-q) * m /\ -q \in Int
  <2>1. n = m * q + r /\ q \in Int /\ r \in Int
    BY <1>1
  <2> HIDE DEF q, r
  <2> QED
    BY <2>1
<1> QED
  BY <1>1, <1>2 DEF Congruent

LEMMA CongruentTransitive ==
  ASSUME NEW m \in Int, NEW a \in Int, NEW b \in Int, NEW c \in Int, Congruent(m, a, b), Congruent(m, b, c)
  PROVE  Congruent(m, a, c)
<1>1. PICK k \in Int : a = b + k * m
  BY DEF Congruent
<1>2. PICK l \in Int : b = c + l * m
  BY DEF Congruent
<1>3. a = c + (k + l) * m /\ k + l \in Int
  BY <1>1, <1>2
<1> QED
  BY <1>3 DEF Congruent

LEMMA CongruentSymmetric ==
  ASSUME NEW m \in Int, NEW a \in Int, NEW b \in Int, Congruent(m, a, b)
  PROVE  Congruent(m, b, a)
<1>1. PICK k \in Int : a = b + k * m
  BY DEF Congruent
<1>2. b = a + (-k) * m /\ -k \in Int
  BY <1>1
<1> QED
  BY <1>2 DEF Congruent

LEMMA CongruentSums ==
  ASSUME NEW m \in Int, NEW a \in Int, NEW b \in Int, NEW c \in Int, NEW d \in Int,
         Congruent(m, a, b), Congruent(m, c, d)
  PROVE  Congruent(m, a + c, b + d) /\ Congruent(m, a - c, b - d)
<1>1. PICK k \in Int : a = b + k * m
  BY DEF Congruent
<1>2. PICK l \in Int : c = d + l * m
  BY DEF Congruent
<1>3. a + c = b + d + (k + l) * m /\ k + l \in Int
  BY <1>1, <1>2
<1>4. a - c = b - d + (k - l) * m /\ k - l \in Int
  BY <1>1, <1>2
<1> QED
  BY <1>3, <1>4 DEF Congruent

LEMMA CongruentProducts ==
  ASSUME NEW m \in Int, NEW a \in Int, NEW b \in Int, NEW f \in Int, Congruent(m, a, b)
  PROVE  Congruent(f * m, f * a, f * b) /\ Congruent(m, f * a, f * b)
<1>1. PICK k \in Int : a = b + k * m
  BY DEF Congruent
<1>2. f * a = f * b + f * (k * m)
  BY <1>1
<1>3. f * (k * m) = k * (f * m) /\ f * (k * m) = (f * k) * m /\ f * k \in Int
  BY <1>1
<1>4. f * a = f * b + k * (f * m) /\ f * a = f * b + (f * k) * m
  BY <1>2, <1>3
<1> QED
  BY <1>1, <1>3, <1>4 DEF Congruent

LEMMA CongruentCoarser ==
  ASSUME NEW m \in Int, NEW n \in Int, NEW a \in Int, NEW b \in Int, Multiple(n, m), Congruent(n, a, b)
  PROVE  Congruent(m, a, b)
<1>1. PICK k \in Int : a = b + k * n
  BY DEF Congruent
<1>2. PICK l \in Int : n = l * m
  BY DEF Multiple
<1>3. k * n = (k * l) * m /\ k * l \in Int
  BY <1>2
<1> QED
  BY <1>1, <1>3 DEF Congruent

LEMMA CongruentEqual ==
  ASSUME NEW m \in Nat \ {0}, NEW a \in 0 .. m - 1, NEW b \in 0 .. m - 1, Congruent(m, a, b)
  PROVE  a = b
<1>1. PICK k \in Int : a = b + k * m
  BY DEF Congruent
<1>2. k >= 1 => k * m >= m
  OBVIOUS
<1>3. k <= -1 => k * m <= -m
  OBVIOUS
<1>4. k = 0
  BY <1>1, <1>2, <1>3
<1> QED
  BY <1>1, <1>4

Number == [Clock -> Int]

\* A start and a step for each chained clock define a count for each clock of the chain.
LEMMA ChainRecursion ==
  ASSUME NEW start \in Int, NEW step \in [Chained -> [Int -> Int]]
  PROVE  \E r \in Number : r = [c \in Clock |-> IF c = source THEN start ELSE step[c][r[Upstream[c]]]]
<1> DEFINE Next(g) == [c \in Clock |-> IF c = source THEN start ELSE step[c][g[Upstream[c]]]]
           F == [n \in Nat |-> [g \in Number |-> Next(g)]]
           none == [c \in Clock |-> 0]
<1>1. \A c \in Chained : Upstream[c] \in Clock
  BY ClockAssumption
<1>2. ASSUME NEW g \in Number PROVE Next(g) \in Number
  BY <1>1 DEF Number, Chained
<1>3. F \in [Nat -> [Number -> Number]] /\ none \in Number
  <2> HIDE DEF Next
  <2>1. none \in Number
    BY DEF Number
  <2> QED
    BY <1>2, <2>1
<1>4. PICK levels \in [Nat -> Number] : levels[0] = none /\ \A n \in Nat : levels[n + 1] = F[n][levels[n]]
  <2> HIDE DEF F, none
  <2>1. Recursive(Number)
    BY RecursiveAll
  <2> QED
    BY <1>3, <2>1 DEF Recursive
<1>5. \A n \in Nat : levels[n + 1] = Next(levels[n]) /\ levels[n] \in Number
  <2> HIDE DEF Next
  <2> QED
    BY <1>4
<1>6. PICK depth : /\ \A c \in Clock : depth[c] \in Nat
                   /\ \A c \in Chained : depth[c] = depth[Upstream[c]] + 1
  BY ChainAssumption
<1> DEFINE r == [c \in Clock |-> levels[depth[c] + 1][c]]
<1>7. r \in Number
  <2>1. \A c \in Clock : depth[c] + 1 \in Nat
    BY <1>6
  <2>2. \A c \in Clock : levels[depth[c] + 1] \in [Clock -> Int]
    BY <1>5, <2>1 DEF Number
  <2> QED
    BY <2>2 DEF Number
<1>8. ASSUME NEW c \in Clock PROVE r[c] = Next(r)[c]
  <2>1. r[c] = Next(levels[depth[c]])[c]
    <3> HIDE DEF Next
    <3> QED
      BY <1>5, <1>6
  <2>2. CASE c = source
    BY <2>1, <2>2
  <2>3. CASE c # source
    <3>1. c \in Chained /\ Upstream[c] \in Clock /\ depth[c] = depth[Upstream[c]] + 1
      BY <1>1, <1>6, <2>3 DEF Chained
    <3>2. r[Upstream[c]] = levels[depth[c]][Upstream[c]]
      BY <3>1
    <3> HIDE DEF r
    <3> QED
      BY <2>1, <2>3, <3>2
  <2> QED
    BY <2>2, <2>3
<1>9. r = Next(r)
  <2>1. r = [c \in Clock |-> r[c]]
    OBVIOUS
  <2>2. Next(r) = [c \in Clock |-> Next(r)[c]]
    OBVIOUS
  <2> HIDE DEF r, Next
  <2> QED
    BY <1>8, <2>1, <2>2
<1> HIDE DEF r
<1> QED
  BY <1>7, <1>9

\* A property of the source that each clock inherits from what it reads is every clock's.
LEMMA ChainInduction ==
  ASSUME NEW S, source \in S, \A c \in Chained : Upstream[c] \in S => c \in S
  PROVE  Clock \subseteq S
<1>1. PICK depth : /\ \A c \in Clock : depth[c] \in Nat
                   /\ \A c \in Chained : depth[c] = depth[Upstream[c]] + 1
  BY ChainAssumption
<1> DEFINE A == {n \in Nat : \A c \in Clock : depth[c] = n => c \in S}
<1>2. \A c \in Chained : Upstream[c] \in Clock /\ c \in Clock
  BY ClockAssumption DEF Chained
<1>3. 0 \in A
  <2>1. ASSUME NEW c \in Clock, depth[c] = 0 PROVE c \in S
    <3>1. c \notin Chained
      BY <1>1, <1>2, <2>1
    <3> QED
      BY <3>1 DEF Chained
  <2> QED
    BY <2>1
<1>4. ASSUME NEW n \in Nat, n \in A PROVE n + 1 \in A
  <2>1. ASSUME NEW c \in Clock, depth[c] = n + 1 PROVE c \in S
    <3>1. CASE c = source
      BY <3>1
    <3>2. CASE c # source
      <4>1. c \in Chained /\ Upstream[c] \in Clock /\ depth[Upstream[c]] \in Nat /\ depth[c] = depth[Upstream[c]] + 1
        BY <1>1, <1>2, <3>2 DEF Chained
      <4>2. depth[Upstream[c]] = n
        BY <2>1, <4>1
      <4> QED
        BY <1>4, <4>1, <4>2
    <3> QED
      BY <3>1, <3>2
  <2> QED
    BY <2>1
<1>5. Nat \subseteq A
  <2> HIDE DEF A
  <2> QED BY <1>3, <1>4, NaturalsFrom
<1> QED
  BY <1>1, <1>5

\* No clock's type is wider than the one in which its reading is computed, an int, or that of
\* what it reads: types have 2^w values.
NoneWider ==
    \A c \in Chained : Multiple(IF Promoted(c) THEN Factor[c] * Modulus[Upstream[c]] ELSE Modulus[Upstream[c]], Modulus[c])

LEMMA ClocksTyped ==
  /\ source \in Clock /\ \A c \in Clock : Modulus[c] \in Nat \ {0}
  /\ \A c \in Chained : c \in Clock /\ Upstream[c] \in Clock /\ Factor[c] \in Nat \ {0}
BY ClockAssumption DEF Chained

LEMMA Wraps ==
  ASSUME NEW c \in Clock, NEW n \in Int
  PROVE  Wrap(c, n) \in 0 .. Modulus[c] - 1 /\ Congruent(Modulus[c], Wrap(c, n), n)
BY ClocksTyped, CongruentMod DEF Wrap

LEMMA Transforms ==
  ASSUME NEW c \in Chained, NEW n \in Int
  PROVE  transformed(c, n) \in Int /\ Wrap(c, transformed(c, n)) \in Int
<1>1. Factor[c] \in Int /\ Upstream[c] \in Clock /\ c \in Clock
  BY ClocksTyped
<1>2. Factor[c] * n \in Int
  BY <1>1
<1>3. Wrap(Upstream[c], Factor[c] * n) \in Int
  BY <1>1, <1>2, Wraps
<1>4. transformed(c, n) \in Int
  BY <1>2, <1>3 DEF transformed
<1>5. Wrap(c, transformed(c, n)) \in Int
  BY <1>1, <1>4, Wraps
<1> QED
  BY <1>4, <1>5

LEMMA ReadingDefined ==
  ASSUME NEW ticks \in Int
  PROVE  /\ reading(ticks) \in Number /\ reading(ticks)[source] = ticks
         /\ \A c \in Chained : reading(ticks)[c] = Wrap(c, transformed(c, reading(ticks)[Upstream[c]]))
<1> DEFINE Body(r) == [c \in Clock |-> IF c = source THEN ticks ELSE Wrap(c, transformed(c, r[Upstream[c]]))]
           step == [c \in Chained |-> [n \in Int |-> Wrap(c, transformed(c, n))]]
<1>1. \E r : r = Body(r)
  <2>1. step \in [Chained -> [Int -> Int]]
    BY Transforms
  <2>2. PICK r \in Number : r = [c \in Clock |-> IF c = source THEN ticks ELSE step[c][r[Upstream[c]]]]
    <3> HIDE DEF step
    <3> QED
      BY <2>1, ChainRecursion
  <2>3. ASSUME NEW c \in Clock, c # source PROVE step[c][r[Upstream[c]]] = Wrap(c, transformed(c, r[Upstream[c]]))
    <3>1. c \in Chained /\ r[Upstream[c]] \in Int
      BY <2>3, ClocksTyped DEF Chained, Number
    <3> QED
      BY <3>1
  <2> HIDE DEF step
  <2>4. r = Body(r)
    BY <2>2, <2>3
  <2> QED
    BY <2>4
<1>2. reading(ticks) = Body(reading(ticks))
  <2>1. reading(ticks) = CHOOSE r : r = Body(r)
    BY DEF reading
  <2> HIDE DEF Body
  <2> QED
    BY <1>1, <2>1
<1> DEFINE r == reading(ticks)
<1> HIDE DEF r
<1>3. r = [c \in Clock |-> r[c]] /\ r[source] = ticks
      /\ \A c \in Chained : r[c] = Wrap(c, transformed(c, r[Upstream[c]]))
  <2>1. r = Body(r)
    BY <1>2 DEF r
  <2> QED
    BY <2>1, ClocksTyped DEF Chained
<1>4. \A c \in Chained : r[Upstream[c]] \in Int => r[c] \in Int
  BY <1>3, Transforms
<1>5. Clock \subseteq {c \in Clock : r[c] \in Int}
  BY <1>3, <1>4, ClocksTyped, ChainInduction
<1> QED
  BY <1>3, <1>5 DEF r, Number

LEMMA ScaleDefined ==
  scale \in Number /\ scale[source] = 1 /\ \A c \in Chained : scale[c] = Factor[c] * scale[Upstream[c]]
<1> DEFINE Body(s) == [c \in Clock |-> IF c = source THEN 1 ELSE Factor[c] * s[Upstream[c]]]
           step == [c \in Chained |-> [n \in Int |-> Factor[c] * n]]
<1>1. \E s : s = Body(s)
  <2>1. step \in [Chained -> [Int -> Int]]
    BY ClocksTyped
  <2>2. PICK s \in Number : s = [c \in Clock |-> IF c = source THEN 1 ELSE step[c][s[Upstream[c]]]]
    <3> DEFINE start == 1
    <3>1. start \in Int
      OBVIOUS
    <3> HIDE DEF step, start
    <3>2. \E s \in Number : s = [c \in Clock |-> IF c = source THEN start ELSE step[c][s[Upstream[c]]]]
      BY <2>1, <3>1, ChainRecursion
    <3> QED
      BY <3>2 DEF start
  <2>3. ASSUME NEW c \in Clock, c # source PROVE step[c][s[Upstream[c]]] = Factor[c] * s[Upstream[c]]
    <3>1. c \in Chained /\ s[Upstream[c]] \in Int
      BY <2>3, ClocksTyped DEF Chained, Number
    <3> QED
      BY <3>1
  <2> HIDE DEF step
  <2>4. s = Body(s)
    BY <2>2, <2>3
  <2> QED
    BY <2>4
<1>2. scale = Body(scale)
  <2>1. scale = CHOOSE s : s = Body(s)
    BY DEF scale
  <2> HIDE DEF Body
  <2> QED
    BY <1>1, <2>1
<1>3. scale = [c \in Clock |-> scale[c]] /\ scale[source] = 1
      /\ \A c \in Chained : scale[c] = Factor[c] * scale[Upstream[c]]
  BY <1>2, ClocksTyped DEF Chained
<1>4. \A c \in Chained : scale[Upstream[c]] \in Int => scale[c] \in Int
  BY <1>3, ClocksTyped
<1> DEFINE S == {c \in Clock : scale[c] \in Int}
<1>5. Clock \subseteq S
  <2>1. source \in S /\ \A c \in Chained : Upstream[c] \in S => c \in S
    BY <1>3, <1>4, ClocksTyped
  <2> HIDE DEF S
  <2> QED
    BY <2>1, ChainInduction
<1> QED
  BY <1>3, <1>5 DEF Number

LEMMA ScaleNatural == \A c \in Clock : scale[c] \in Nat
<1> DEFINE S == {c \in Clock : scale[c] \in Nat}
<1>1. source \in S
  BY ScaleDefined, ClocksTyped
<1>2. ASSUME NEW c \in Chained, Upstream[c] \in S PROVE c \in S
  <2>1. scale[Upstream[c]] \in Nat /\ Factor[c] \in Nat /\ c \in Clock /\ scale[c] = Factor[c] * scale[Upstream[c]]
    BY <1>2, ClocksTyped, ScaleDefined
  <2> QED
    BY <2>1
<1>3. Clock \subseteq S
  <2> HIDE DEF S
  <2> QED
    BY <1>1, <1>2, ChainInduction
<1> QED
  BY <1>3

\* What a clock reads is the scaled count of the source, but for multiples of its type's.
LEMMA ReadingScaled ==
  ASSUME NoneWider, NEW ticks \in Int, NEW e \in Clock
  PROVE  Congruent(Modulus[e], reading(ticks)[e], scale[e] * ticks)
<1> DEFINE r == reading(ticks)
           S == {c \in Clock : Congruent(Modulus[c], r[c], scale[c] * ticks)}
<1>1. r \in Number /\ r[source] = ticks /\ \A c \in Chained : r[c] = Wrap(c, transformed(c, r[Upstream[c]]))
  BY ReadingDefined
<1> HIDE DEF r
<1>2. source \in S
  <2>1. ticks = scale[source] * ticks + 0 * Modulus[source] /\ 0 \in Int
    BY ScaleDefined, ClocksTyped
  <2> QED
    BY <1>1, <2>1, ClocksTyped DEF Congruent
<1>3. ASSUME NEW c \in Chained, Upstream[c] \in S PROVE c \in S
  <2> DEFINE u == Upstream[c]
             f == Factor[c]
             a == r[u]
             b == scale[u] * ticks
             w == transformed(c, a)
  <2>1. c \in Clock /\ u \in Clock /\ f \in Int /\ a \in Int /\ scale[u] \in Int /\ b \in Int
        /\ Modulus[u] \in Nat \ {0} /\ Modulus[c] \in Nat \ {0}
    BY <1>1, ClocksTyped, ScaleDefined DEF Number
  <2>2. f * a \in Int /\ f * b \in Int /\ w \in Int /\ f * Modulus[u] \in Int
    BY <2>1, Transforms
  <2>3. Congruent(f * Modulus[u], f * a, f * b) /\ Congruent(Modulus[u], f * a, f * b)
    <3> HIDE DEF a, b, f, u
    <3> QED
      BY <1>3, <2>1, CongruentProducts DEF a, b, u
  <2>4. Congruent(Modulus[c], w, f * b)
    <3>1. CASE Promoted(c)
      <4>1. Multiple(f * Modulus[u], Modulus[c]) /\ w = f * a
        BY <3>1 DEF NoneWider, transformed
      <4> HIDE DEF a, b, f, u, w
      <4> QED
        BY <2>1, <2>2, <2>3, <4>1, CongruentCoarser
    <3>2. CASE ~Promoted(c)
      <4>1. Multiple(Modulus[u], Modulus[c]) /\ w = Wrap(u, f * a)
        BY <3>2 DEF NoneWider, transformed
      <4> HIDE DEF a, b, f, u, w
      <4>2. Congruent(Modulus[u], w, f * a)
        BY <2>1, <2>2, <4>1, Wraps
      <4>3. Congruent(Modulus[u], w, f * b)
        BY <2>1, <2>2, <2>3, <4>2, CongruentTransitive
      <4> QED
        BY <2>1, <2>2, <4>1, <4>3, CongruentCoarser
    <3> QED
      BY <3>1, <3>2
  <2>5. f * b = scale[c] * ticks
    <3>1. scale[c] = f * scale[u]
      BY ScaleDefined
    <3>2. f * (scale[u] * ticks) = (f * scale[u]) * ticks
      <4> HIDE DEF f, u
      <4> QED
        BY <2>1
    <3> QED
      BY <3>1, <3>2
  <2>6. r[c] = Wrap(c, w)
    BY <1>1
  <2> HIDE DEF w, f, a, b, u
  <2>7. Congruent(Modulus[c], r[c], w) /\ r[c] \in Int
    BY <2>1, <2>2, <2>6, Wraps
  <2>8. Congruent(Modulus[c], r[c], f * b)
    BY <2>1, <2>2, <2>4, <2>7, CongruentTransitive
  <2> QED
    BY <2>1, <2>5, <2>8
<1>4. Clock \subseteq S
  <2> HIDE DEF S
  <2> QED
    BY <1>2, <1>3, ChainInduction
<1> QED
  BY <1>4 DEF r

\* A cycle of the source is one of each clock.
LEMMA CyclesScaled ==
  ASSUME NoneWider, NEW e \in Clock
  PROVE  Congruent(Modulus[e], scale[e] * Modulus[source], 0)
<1> DEFINE m == Modulus[source]
           S == {c \in Clock : Congruent(Modulus[c], scale[c] * m, 0)}
<1>0. m \in Nat \ {0}
  BY ClocksTyped
<1>1. source \in S
  <2>1. scale[source] * m = 0 + 1 * Modulus[source] /\ 1 \in Int
    BY <1>0, ScaleDefined
  <2> QED
    BY <2>1, ClocksTyped DEF Congruent
<1> HIDE DEF m
<1>2. ASSUME NEW c \in Chained, Upstream[c] \in S PROVE c \in S
  <2> DEFINE u == Upstream[c]
             f == Factor[c]
             b == scale[u] * m
  <2>1. c \in Clock /\ u \in Clock /\ f \in Int /\ scale[u] \in Int /\ b \in Int
        /\ Modulus[u] \in Nat \ {0} /\ Modulus[c] \in Nat \ {0} /\ f * Modulus[u] \in Int /\ f * b \in Int
    BY <1>0, ClocksTyped, ScaleDefined DEF Number
  <2>2. Congruent(Modulus[u], b, 0)
    BY <1>2
  <2>3. Multiple(f * Modulus[u], Modulus[c]) \/ Multiple(Modulus[u], Modulus[c])
    BY DEF NoneWider
  <2>4. scale[c] * m = f * b
    <3>1. scale[c] = f * scale[u]
      BY ScaleDefined
    <3>2. f * (scale[u] * m) = (f * scale[u]) * m
      <4> HIDE DEF f, u
      <4> QED
        BY <1>0, <2>1
    <3> QED
      BY <3>1, <3>2
  <2> HIDE DEF b, f, u
  <2>5. Congruent(f * Modulus[u], f * b, 0) /\ Congruent(Modulus[u], f * b, 0)
    <3> DEFINE none == 0
    <3>1. none \in Int /\ f * none = 0
      BY <2>1
    <3> HIDE DEF none
    <3>2. Congruent(Modulus[u], b, none)
      BY <2>2 DEF none
    <3>3. Congruent(f * Modulus[u], f * b, f * none) /\ Congruent(Modulus[u], f * b, f * none)
      <4> DEFINE w == Modulus[u]
      <4>1. w \in Int /\ f \in Int /\ b \in Int /\ none \in Int /\ Congruent(w, b, none)
        BY <2>1, <3>1, <3>2
      <4> HIDE DEF w
      <4>2. Congruent(f * w, f * b, f * none) /\ Congruent(w, f * b, f * none)
        BY ONLY <4>1, CongruentProducts
      <4> QED
        BY <4>2 DEF w
    <3> QED
      BY <3>1, <3>3
  <2>6. Congruent(Modulus[c], f * b, 0)
    BY <2>1, <2>3, <2>5, CongruentCoarser
  <2> QED
    BY <2>1, <2>4, <2>6
<1>3. Clock \subseteq S
  <2> HIDE DEF S
  <2> QED
    BY <1>1, <1>2, ChainInduction
<1> QED
  BY <1>3 DEF m

\* The source wraps, and no clock's reading is off by that.
LEMMA ReadingWrapped ==
  ASSUME NoneWider, NEW ticks \in Int, NEW e \in Clock
  PROVE  Congruent(Modulus[e], reading(Wrap(source, ticks))[e], scale[e] * ticks)
<1> DEFINE w == Wrap(source, ticks)
           m == Modulus[source]
           s == scale[e]
           M == Modulus[e]
<1>1. m \in Nat \ {0} /\ M \in Nat \ {0} /\ s \in Int /\ w \in Int /\ Congruent(m, w, ticks)
  BY ClocksTyped, ScaleDefined, Wraps DEF Number
<1>2. Congruent(M, reading(w)[e], s * w) /\ reading(w)[e] \in Int
  <2> HIDE DEF w
  <2> QED
    BY <1>1, ReadingScaled, ReadingDefined DEF Number
<1>3. Congruent(M, s * m, 0)
  BY CyclesScaled
<1> HIDE DEF w, m, s, M
<1>4. s * w \in Int /\ s * ticks \in Int /\ s * m \in Int
  BY <1>1
<1>5. Congruent(s * m, s * w, s * ticks)
  BY <1>1, CongruentProducts
<1>6. Multiple(s * m, M)
  <2>1. PICK k \in Int : s * m = 0 + k * M
    BY <1>3 DEF Congruent
  <2> QED
    BY <1>1, <2>1 DEF Multiple
<1>7. Congruent(M, s * w, s * ticks)
  BY <1>1, <1>4, <1>5, <1>6, CongruentCoarser
<1> QED
  BY <1>1, <1>2, <1>4, <1>7, CongruentTransitive DEF w, s, M

\* With the source at t, the reading of e is that of b and what passed in n ticks.
Apart(e, t, b, n) == Congruent(Modulus[e], reading(t)[e], b + scale[e] * n)

Measuring == measured # None => Apart(measured, t_[source], earlier, age)

TicksInv == TicksTypeInv /\ Measuring /\ ShortSpansCorrect

\* Reading n ticks later.
LEMMA Later ==
  ASSUME NoneWider, NEW e \in Clock, NEW t \in Int, NEW n \in Int, NEW b \in Int, NEW a \in Int,
         Apart(e, t, b, a)
  PROVE  Apart(e, Wrap(source, t + n), b, a + n)
<1> DEFINE s == scale[e]
           M == Modulus[e]
           old == reading(t)[e]
           new == reading(Wrap(source, t + n))[e]
<1>1. s \in Int /\ M \in Nat \ {0} /\ old \in Int /\ new \in Int
  <2>1. Wrap(source, t + n) \in Int
    BY Wraps, ClocksTyped
  <2> QED
    BY <2>1, ClocksTyped, ScaleDefined, ReadingDefined DEF Number
<1>2. Congruent(M, new, s * (t + n))
  <2>1. t + n \in Int
    OBVIOUS
  <2> QED
    BY <2>1, ReadingWrapped
<1>3. Congruent(M, old, s * t)
  BY ReadingScaled
<1> HIDE DEF s, M, old, new
<1>4. s * t \in Int /\ s * n \in Int /\ s * (t + n) \in Int /\ s * (t + n) = s * t + s * n
      /\ s * a \in Int /\ s * (a + n) \in Int /\ s * (a + n) = s * a + s * n
  BY <1>1
<1>5. Congruent(M, s * n, s * n)
  <2>1. s * n = s * n + 0 * M
    BY <1>1, <1>4
  <2> QED
    BY <2>1 DEF Congruent
<1>6. Congruent(M, s * t, b + s * a)
  <2>1. Congruent(M, s * t, old)
    BY <1>1, <1>3, <1>4, CongruentSymmetric
  <2>2. b + s * a \in Int /\ Congruent(M, old, b + s * a)
    BY <1>4 DEF Apart, old, M, s
  <2> QED
    BY <1>1, <1>4, <2>1, <2>2, CongruentTransitive
<1> DEFINE p == s * t
           q == b + s * a
           d == s * n
<1>7. Congruent(M, p + d, q + d)
  <2>1. p \in Int /\ q \in Int /\ d \in Int
    BY <1>4
  <2> HIDE DEF p, q, d
  <2> QED
    BY <1>1, <1>5, <1>6, <2>1, CongruentSums DEF p, q, d
<1>8. p + d = s * (t + n) /\ q + d = b + s * (a + n) /\ q + d \in Int
  BY <1>4
<1> HIDE DEF p, q, d
<1>9. Congruent(M, new, q + d)
  BY <1>1, <1>2, <1>4, <1>7, <1>8, CongruentTransitive
<1> QED
  BY <1>8, <1>9 DEF Apart, new, M, s

LEMMA TicksStart == TicksInit => TicksInv
<1> SUFFICES ASSUME TicksInit PROVE TicksInv
  OBVIOUS
<1>1. 0 \in 0 .. MaxAge /\ \A c \in Clock : 0 < Modulus[c]
  BY ClocksTyped, ClockAssumption
<1> QED
  BY <1>1 DEF TicksInit, TicksInv, TicksTypeInv, Measuring, ShortSpansCorrect

\* The count of a clock moves on, and it stays one of its type.
LEMMA Advanced ==
  ASSUME TicksTypeInv, NEW c \in Clock, NEW n \in Nat, t_' = [t_ EXCEPT ![c] = Wrap(c, @ + n)]
  PROVE  /\ t_' \in [Clock -> Nat] /\ \A e \in Clock : t_'[e] < Modulus[e]
         /\ t_'[c] = Wrap(c, t_[c] + n) /\ (c # source => t_'[source] = t_[source])
<1>1. t_ \in [Clock -> Nat] /\ \A e \in Clock : t_[e] < Modulus[e]
  BY DEF TicksTypeInv
<1> DEFINE w == Wrap(c, t_[c] + n)
<1>2. w \in Nat /\ w < Modulus[c]
  <2>1. t_[c] + n \in Int /\ Modulus[c] \in Nat
    BY <1>1, ClocksTyped
  <2>2. w \in 0 .. Modulus[c] - 1
    BY <2>1, Wraps
  <2> HIDE DEF w
  <2> QED
    BY <2>1, <2>2
<1>3. t_' = [t_ EXCEPT ![c] = w]
  OBVIOUS
<1> HIDE DEF w
<1>4. t_' \in [Clock -> Nat] /\ t_'[c] = w /\ \A e \in Clock : e # c => t_'[e] = t_[e]
  BY <1>1, <1>2, <1>3
<1> QED
  BY <1>1, <1>2, <1>4, ClocksTyped DEF w

\* Someone reads a clock or advances the source by n: a measurement in progress is n longer.
LEMMA MeasuredOn ==
  ASSUME NoneWider, TicksInv, NEW n \in Nat, Ages(n), t_'[source] = Wrap(source, t_[source] + n),
         UNCHANGED <<measured, earlier>>
  PROVE  /\ measured' \in Clock \cup {None} /\ age' \in 0 .. MaxAge
         /\ measured' # None => earlier' \in 0 .. Modulus[measured'] - 1
         /\ Measuring'
<1>1. /\ t_ \in [Clock -> Nat] /\ measured \in Clock \cup {None} /\ age \in 0 .. MaxAge /\ MaxAge \in Nat
      /\ measured # None => earlier \in 0 .. Modulus[measured] - 1
  BY ClockAssumption DEF TicksInv, TicksTypeInv
<1>2. CASE measured = None
  BY <1>1, <1>2 DEF Ages, Measuring
<1>3. CASE measured # None
  <2>1. measured \in Clock /\ age' = age + n /\ age' \in 0 .. MaxAge /\ earlier \in Int /\ t_[source] \in Int /\ age \in Int
    BY <1>1, <1>3, ClocksTyped DEF Ages
  <2>2. Apart(measured, t_[source], earlier, age)
    BY <1>3 DEF TicksInv, Measuring
  <2>3. Apart(measured, Wrap(source, t_[source] + n), earlier, age + n)
    <3> DEFINE e == measured
               t == t_[source]
               b == earlier
               a == age
    <3>1. n \in Int /\ e \in Clock /\ t \in Int /\ b \in Int /\ a \in Int /\ Apart(e, t, b, a)
      BY <2>1, <2>2
    <3> HIDE DEF e, t, b, a
    <3>2. Apart(e, Wrap(source, t + n), b, a + n)
      BY <3>1, Later
    <3> QED
      BY <3>2 DEF e, t, b, a
  <2>4. Measuring'
    BY <2>1, <2>3 DEF Measuring
  <2> QED
    BY <1>1, <1>3, <2>1, <2>4
<1> QED
  BY <1>2, <1>3

\* A time point is kept: the measurement begins.
LEMMA MeasuredFrom ==
  ASSUME NoneWider, NEW c \in Clock, NEW t \in Int, t_'[source] = t,
         measured' = c, earlier' = reading(t)[c], age' = 0, t \in 0 .. Modulus[source] - 1
  PROVE  /\ Measuring' /\ age' \in 0 .. MaxAge
         /\ earlier' \in 0 .. Modulus[measured'] - 1
<1>1. reading(t) \in Number /\ scale \in Number /\ MaxAge \in Nat
  BY ReadingDefined, ScaleDefined, ClockAssumption
<1>2. reading(t)[c] \in Int /\ scale[c] \in Int /\ Modulus[c] \in Int
  BY <1>1, ClocksTyped DEF Number
<1>3. reading(t)[c] = (reading(t)[c] + scale[c] * 0) + 0 * Modulus[c]
  BY <1>2
<1>4. Congruent(Modulus[c], reading(t)[c], reading(t)[c] + scale[c] * 0)
  BY <1>3 DEF Congruent
<1>5. reading(t)[c] \in 0 .. Modulus[c] - 1
  <2>1. CASE c = source
    BY <2>1, ReadingDefined
  <2>2. CASE c # source
    <3>1. c \in Chained
      BY <2>2 DEF Chained
    <3>2. reading(t)[Upstream[c]] \in Int
      BY <1>1, <3>1, ClocksTyped DEF Number
    <3>3. reading(t)[c] = Wrap(c, transformed(c, reading(t)[Upstream[c]]))
      BY <3>1, ReadingDefined
    <3> QED
      BY <3>1, <3>2, <3>3, Transforms, Wraps
  <2> QED
    BY <2>1, <2>2
<1> QED
  BY <1>1, <1>4, <1>5 DEF Measuring, Apart

\* The difference of two readings is what passed, if that is less than a cycle.
LEMMA SpanRight ==
  ASSUME Measuring', measured' \in Clock, measured' # None, t_'[source] \in Int, age' \in Nat,
         earlier' \in 0 .. Modulus[measured'] - 1,
         span' = since_of(measured', reading(t_'[source])[measured'], earlier')
  PROVE  span' \in 0 .. Modulus[measured'] - 1 /\ ShortSpansCorrect'
<1> DEFINE M == Modulus[measured']
           later == reading(t_'[source])[measured']
           s == scale[measured']
           passed == s * age'
           e == earlier'
<1>1. M \in Nat \ {0} /\ later \in Int /\ s \in Int /\ e \in Int
  BY ClocksTyped, ScaleDefined, ReadingDefined DEF Number
<1>2. Congruent(M, later, e + passed)
  BY DEF Measuring, Apart
<1>3. span' = Wrap(measured', later - e)
  BY DEF since_of
<1>a. passed \in Int
  <2> HIDE DEF s
  <2> QED BY <1>1
<1>b. ShortSpansCorrect' = (span' # None /\ passed < M => span' = passed)
  BY DEF ShortSpansCorrect, elapsed
<1>c. passed < M => passed \in 0 .. M - 1
  <2>1. passed \in Nat
    <3>1. s \in Nat
      BY ScaleNatural
    <3> DEFINE a == age'
    <3>2. a \in Nat /\ passed = s * a
      OBVIOUS
    <3> HIDE DEF s, a, passed
    <3> QED BY <3>1, <3>2
  <2> HIDE DEF passed, M
  <2> QED BY <1>1, <2>1
<1> HIDE DEF M, later, s, passed, e
<1>4. span' \in 0 .. M - 1 /\ Congruent(M, span', later - e)
  <2>1. later - e \in Int
    BY <1>1
  <2> QED
    BY <1>3, <2>1, Wraps DEF M
<1>5. Congruent(M, e, e)
  <2>1. e = e + 0 * M
    BY <1>1
  <2> QED
    BY <1>1, <2>1 DEF Congruent
<1> DEFINE n == later - e
           p == e + passed
<1>6. n \in Int /\ p \in Int /\ p - e = passed /\ span' \in Int
  BY <1>1, <1>a, <1>4
<1>7. Congruent(M, n, p - e)
  <2> HIDE DEF p
  <2> QED
    BY <1>1, <1>2, <1>5, <1>6, CongruentSums DEF p
<1> HIDE DEF n, p
<1>8. Congruent(M, span', passed)
  <2>1. Congruent(M, n, passed) /\ Congruent(M, span', n)
    BY <1>4, <1>6, <1>7 DEF n
  <2> QED
    BY <1>1, <1>6, <1>a, <2>1, CongruentTransitive
<1>9. passed < M => span' = passed
  <2> SUFFICES ASSUME passed < M PROVE span' = passed
    OBVIOUS
  <2>1. passed \in 0 .. M - 1
    BY <1>c
  <2> QED
    BY <1>1, <1>4, <1>8, <2>1, CongruentEqual
<1> QED
  BY <1>4, <1>9, <1>b DEF M

LEMMA SourceTicks ==
  ASSUME TicksTypeInv
  PROVE  ticked \in 0 .. Modulus[source] - 1 /\ t_[source] \in Nat /\ ticked = Wrap(source, t_[source] + 1)
<1>1. t_[source] \in Nat /\ t_[source] + 1 \in Int
  BY ClocksTyped DEF TicksTypeInv
<1> QED
  BY <1>1, ClocksTyped, Wraps DEF ticked

\* Everyone's now(), without the client keeping the time point, and the first half of since().
LEMMA Ticks ==
  ASSUME NoneWider, TicksInv, t_' = [t_ EXCEPT ![source] = ticked]
  PROVE  /\ t_' \in [Clock -> Nat] /\ \A e \in Clock : t_'[e] < Modulus[e]
         /\ t_'[source] = ticked
<1>1. t_' = [t_ EXCEPT ![source] = Wrap(source, @ + 1)]
  BY DEF ticked
<1> QED
  BY <1>1, Advanced, ClocksTyped DEF TicksInv, ticked

LEMMA NowKeeps ==
  ASSUME NoneWider, TicksInv, NEW c \in Clock, now(c) PROVE TicksInv'
<1>1. t_' = [t_ EXCEPT ![source] = ticked] /\ span' = None
  BY DEF now
<1>2. /\ t_' \in [Clock -> Nat] /\ \A e \in Clock : t_'[e] < Modulus[e]
      /\ t_'[source] = ticked
  BY <1>1, Ticks
<1>3. ticked \in 0 .. Modulus[source] - 1 /\ ticked = Wrap(source, t_[source] + 1) /\ ticked \in Int
  BY SourceTicks, ClocksTyped DEF TicksInv
<1>4. CASE Ages(1) /\ UNCHANGED <<measured, earlier>>
  <2>1. t_'[source] = Wrap(source, t_[source] + 1) /\ 1 \in Nat
    BY <1>2, <1>3
  <2> QED
    BY <1>1, <1>2, <1>4, <2>1, MeasuredOn DEF TicksInv, TicksTypeInv, ShortSpansCorrect
<1>5. CASE measured' = c /\ earlier' = reading(ticked)[c] /\ age' = 0
  BY <1>1, <1>2, <1>3, <1>5, MeasuredFrom DEF TicksInv, TicksTypeInv, ShortSpansCorrect
<1> QED
  BY <1>4, <1>5 DEF now

LEMMA SinceKeeps ==
  ASSUME NoneWider, TicksInv, NEW c \in Clock, since(c) PROVE TicksInv'
<1>1. /\ measured = c /\ t_' = [t_ EXCEPT ![source] = ticked] /\ Ages(1)
      /\ span' = since_of(c, reading(ticked)[c], earlier) /\ UNCHANGED <<measured, earlier>>
  BY DEF since
<1>2. /\ t_' \in [Clock -> Nat] /\ \A e \in Clock : t_'[e] < Modulus[e]
      /\ t_'[source] = ticked
  BY <1>1, Ticks
<1>3. ticked \in 0 .. Modulus[source] - 1 /\ ticked = Wrap(source, t_[source] + 1) /\ ticked \in Int
  BY SourceTicks, ClocksTyped DEF TicksInv
<1>4. /\ measured' \in Clock \cup {None} /\ age' \in 0 .. MaxAge
      /\ measured' # None => earlier' \in 0 .. Modulus[measured'] - 1
      /\ Measuring'
  <2>1. t_'[source] = Wrap(source, t_[source] + 1) /\ 1 \in Nat
    BY <1>2, <1>3
  <2> QED
    BY <1>1, <2>1, MeasuredOn
<1>5. c # None
  BY ClockAssumption
<1>6. measured' = c /\ age' \in Nat /\ t_'[source] \in Int
      /\ span' = since_of(measured', reading(t_'[source])[measured'], earlier')
  BY <1>1, <1>2, <1>3, <1>4
<1>7. span' \in 0 .. Modulus[measured'] - 1 /\ ShortSpansCorrect'
  BY <1>4, <1>5, <1>6, SpanRight
<1> QED
  BY <1>2, <1>4, <1>7 DEF TicksInv, TicksTypeInv

LEMMA AdvanceKeeps ==
  ASSUME NoneWider, TicksInv, NEW c \in Clock, NEW delta \in Delta, advance(c, delta) PROVE TicksInv'
<1>1. /\ t_' = [t_ EXCEPT ![c] = Wrap(c, @ + delta)] /\ span' = None /\ UNCHANGED <<measured, earlier>>
      /\ delta \in Nat
  BY ClockAssumption DEF advance
<1>2. /\ t_' \in [Clock -> Nat] /\ \A e \in Clock : t_'[e] < Modulus[e]
      /\ t_'[c] = Wrap(c, t_[c] + delta) /\ (c # source => t_'[source] = t_[source])
  BY <1>1, Advanced DEF TicksInv
<1>3. CASE c = source
  BY <1>1, <1>2, <1>3, MeasuredOn DEF advance, TicksInv, TicksTypeInv, ShortSpansCorrect
<1>4. CASE c # source
  BY <1>1, <1>2, <1>4 DEF advance, TicksInv, TicksTypeInv, Measuring, Apart, ShortSpansCorrect
<1> QED
  BY <1>3, <1>4

\* However often the types of a chain wrap, and whoever reads it, since() tells what passed.
THEOREM SpansCorrect == NoneWider => (TicksSpec => []SpansAreRight)
<1> SUFFICES ASSUME NoneWider PROVE TicksSpec => []SpansAreRight
  OBVIOUS
<1>1. TicksInit => TicksInv
  BY TicksStart
<1>2. TicksInv /\ [TicksNext]_ticksVars => TicksInv'
  <2> SUFFICES ASSUME TicksInv, [TicksNext]_ticksVars PROVE TicksInv'
    OBVIOUS
  <2>1. CASE UNCHANGED ticksVars
    BY <2>1 DEF ticksVars, TicksInv, TicksTypeInv, Measuring, Apart, ShortSpansCorrect, elapsed
  <2>2. CASE TicksNext
    BY <2>2, NowKeeps, SinceKeeps, AdvanceKeeps DEF TicksNext
  <2> QED
    BY <2>1, <2>2
<1>3. TicksInv => SpansAreRight
  BY DEF TicksInv, SpansAreRight
<1> QED
  BY <1>1, <1>2, <1>3, PTL DEF TicksSpec

-----------------------------------------------------------------------------
(* Streams.  StreamRefs reset the flags in the reverse order of their making: *)
(* what the first one saved is what an sz::Stream has at the end, and what    *)
(* each one saved is part of what a standard stream has.                     *)

LEMMA Least ==
  ASSUME NEW n \in Nat, NEW s \in SUBSET (1..n), s # {}
  PROVE  Min(s) \in s /\ \A y \in s : Min(s) =< y
<1>1. \E x \in s : \A y \in s : x =< y
  BY Extremes
<1> QED
  BY <1>1 DEF Min

\* The flags after the last n of refs were reset to.
Restored(flags, refs, n, r) ==
    /\ r \subseteq Flag
    /\ IF library = "sz" THEN r = IF n = 0 THEN flags ELSE refs[Len(refs) - n + 1]
       ELSE flags \subseteq r /\ \A k \in Len(refs) - n + 1 .. Len(refs) : refs[k] \subseteq r

LEMMA ResetOne ==
  ASSUME NEW flags \in SUBSET Flag, NEW refs \in Seq(SUBSET Flag), NEW k \in Nat, k < Len(refs),
         NEW r, Restored(flags, refs, k, r)
  PROVE  Restored(flags, refs, k + 1, reset(r, refs[Len(refs) - k]))
<1> DEFINE N == Len(refs)
           old == refs[N - k]
<1>1. N \in Nat /\ old \in SUBSET Flag /\ N - (k + 1) + 1 = N - k
  <2>1. N - k \in 1 .. N
    OBVIOUS
  <2> QED
    BY <2>1
<1>2. r \subseteq Flag
  BY DEF Restored
<1>3. CASE library = "sz"
  <2>1. reset(r, old) = old
    BY <1>3 DEF reset, setf
  <2> QED
    BY <1>1, <1>3, <2>1 DEF Restored
<1>4. CASE library # "sz"
  <2>1. reset(r, old) = r \cup old
    BY <1>4 DEF reset, setf
  <2>2. flags \subseteq r /\ \A j \in N - k + 1 .. N : refs[j] \subseteq r
    BY <1>4 DEF Restored
  <2>3. \A j \in N - k .. N : j = N - k \/ j \in N - k + 1 .. N
    <3> HIDE DEF N
    <3> QED
      BY <1>1
  <2>4. \A j \in N - k .. N : refs[j] \subseteq r \cup old
    BY <2>2, <2>3
  <2> HIDE DEF N
  <2> QED
    BY <1>1, <1>2, <1>4, <2>1, <2>2, <2>4 DEF Restored, N
<1> QED
  BY <1>3, <1>4

LEMMA Resets ==
  ASSUME NEW flags \in SUBSET Flag, NEW refs \in Seq(SUBSET Flag)
  PROVE  Restored(flags, refs, Len(refs), FoldRight(LAMBDA old, f : reset(f, old), refs, flags))
<1> DEFINE N == Len(refs)
           S == 1..N
           U == SUBSET Flag
           op(old, f) == reset(f, old)
           Body(it) == [s \in SUBSET S |->
                           IF s = {} THEN flags
                           ELSE LET x == Min(s) IN op(refs[x], it[s \ {x}])]
           fold == FoldRight(LAMBDA old, f : reset(f, old), refs, flags)
<1>1. N \in Nat /\ DOMAIN refs = S /\ \A n \in S : refs[n] \in SUBSET Flag
  OBVIOUS
<1>2. fold = (CHOOSE it : it = Body(it))[S]
  <2>1. fold = (CHOOSE it : it = [s \in SUBSET DOMAIN refs |->
                                     IF s = {} THEN flags
                                     ELSE LET x == Min(s) IN op(refs[x], it[s \ {x}])])[DOMAIN refs]
    BY DEF FoldRight, MapThenFoldSet
  <2> HIDE DEF fold
  <2> QED
    BY <1>1, <2>1
<1> HIDE DEF fold
<1>3. flags \in U
  OBVIOUS
<1>4. \A s \in SUBSET S : s # {} => Min(s) \in s
  BY <1>1, Least
<1>5. \E it : it = Body(it)
  <2> DEFINE pick == [s \in SUBSET S |-> Min(s)]
             F == [n \in S |-> [f \in U |-> reset(f, refs[n])]]
  <2>1. F \in [S -> [U -> U]]
    <3>1. \A n \in S, f \in U : reset(f, refs[n]) \in U
      BY <1>1 DEF reset, setf
    <3> HIDE DEF S, U
    <3> QED
      BY <3>1
  <2>2. \A s \in SUBSET S : s # {} => pick[s] \in s
    BY <1>4
  <2>3. PICK it \in [SUBSET S -> U] : Recurs(it, S, flags, pick, F)
    <3>1. \A T : IsFiniteSet(T) => \A D : \A e \in D : \A p : \A G \in [T -> [D -> D]] :
            (\A s \in SUBSET T : s # {} => p[s] \in s) => \E it \in [SUBSET T -> D] : Recurs(it, T, e, p, G)
      BY SetRecursion
    <3>2. IsFiniteSet(S)
      BY <1>1, FS_Interval
    <3> HIDE DEF pick, F, S, U
    <3>3. \A D : \A e \in D : \A p : \A G \in [S -> [D -> D]] :
            (\A s \in SUBSET S : s # {} => p[s] \in s) => \E it \in [SUBSET S -> D] : Recurs(it, S, e, p, G)
      BY <3>1, <3>2
    <3> QED
      BY <1>3, <2>1, <2>2, <3>3
  <2>4. ASSUME NEW s \in SUBSET S PROVE it[s] = Body(it)[s]
    <3>1. CASE s = {}
      BY <2>3, <3>1 DEF Recurs
    <3>2. CASE s # {}
      <4> DEFINE x == Min(s)
      <4>1. x \in s /\ x \in S /\ pick[s] = x /\ s \ {x} \in SUBSET S
        BY <1>4, <3>2
      <4>2. it[s] = F[pick[s]][it[s \ {pick[s]}]]
        <5> HIDE DEF F, pick
        <5> QED BY <2>3, <3>2 DEF Recurs
      <4>3. it[s \ {x}] \in U
        BY <2>3, <4>1
      <4>4. it[s] = reset(it[s \ {x}], refs[x])
        <5> HIDE DEF pick, x, U, S
        <5> QED BY <4>1, <4>2, <4>3
      <4> QED
        BY <3>2, <4>4
    <3> QED
      BY <3>1, <3>2
  <2>5. it = Body(it)
    <3>1. it = [s \in SUBSET S |-> it[s]]
      BY <2>3
    <3>2. Body(it) = [s \in SUBSET S |-> Body(it)[s]]
      OBVIOUS
    <3> HIDE DEF Body
    <3> QED
      BY <2>4, <3>1, <3>2
  <2> QED
    BY <2>5
<1> DEFINE c == CHOOSE it : it = Body(it)
<1>6. c = Body(c)
  <2> HIDE DEF Body
  <2> QED BY <1>5
<1> HIDE DEF c
<1>7. c[{}] = flags /\ \A s \in SUBSET S : s # {} => c[s] = reset(c[s \ {Min(s)}], refs[Min(s)])
  BY <1>6
<1> DEFINE A == {k \in Nat : k <= N => Restored(flags, refs, k, c[N - k + 1 .. N])}
<1>8. 0 \in A
  <2>1. N - 0 + 1 .. N = {}
    BY <1>1
  <2>2. Restored(flags, refs, 0, flags)
    BY <1>1 DEF Restored
  <2> HIDE DEF N
  <2> QED
    BY <1>7, <2>1, <2>2
<1>9. ASSUME NEW k \in Nat, k \in A PROVE k + 1 \in A
  <2> SUFFICES ASSUME k + 1 <= N PROVE Restored(flags, refs, k + 1, c[N - (k + 1) + 1 .. N])
    OBVIOUS
  <2> DEFINE x == N - k
             s == x .. N
  <2>1. N - (k + 1) + 1 .. N = s /\ s \ {x} = N - k + 1 .. N
    BY <1>1
  <2>2. s \in SUBSET S /\ s # {} /\ x \in s
    BY <1>1
  <2>3. Min(s) = x
    <3>1. Min(s) \in s /\ Min(s) =< x
      BY <1>1, <2>2, Least
    <3> QED
      BY <1>1, <3>1
  <2>4. Restored(flags, refs, k, c[s \ {x}])
    <3>1. k <= N
      BY <1>1
    <3>2. Restored(flags, refs, k, c[N - k + 1 .. N])
      BY <1>9, <3>1
    <3> HIDE DEF s
    <3> QED
      BY <2>1, <3>2
  <2>5. c[s] = reset(c[s \ {x}], refs[x])
    BY <1>7, <2>2, <2>3
  <2>6. k < Len(refs)
    BY <1>1
  <2> HIDE DEF s
  <2>7. Restored(flags, refs, k + 1, reset(c[s \ {x}], refs[Len(refs) - k]))
    BY <2>4, <2>6, ResetOne
  <2> QED
    BY <2>1, <2>5, <2>7
<1>10. Nat \subseteq A
  <2> HIDE DEF A
  <2> QED BY <1>8, <1>9, NaturalsFrom
<1>11. Restored(flags, refs, N, c[S])
  <2>1. N \in A /\ N <= N
    <3> HIDE DEF A
    <3> QED BY <1>1, <1>10
  <2>2. N - N + 1 .. N = S
    BY <1>1
  <2> HIDE DEF N, S
  <2> QED
    BY <2>1, <2>2
<1>12. fold = c[S]
  BY <1>2 DEF c
<1> QED
  BY <1>11, <1>12 DEF fold

-----------------------------------------------------------------------------
Statement_ == [before : SUBSET Flag, saved : SUBSET SUBSET Flag, given : {"none", "hex", "dec"},
               refs : Seq(SUBSET Flag)]

StreamsTyped ==
    /\ library \in {"sz", "std"} /\ flags_ \in SUBSET Flag
    /\ statements \in Seq(Statement_) /\ shown \in {"none", "dec", "hex"}
    /\ library = "std" => /\ flags_ \cap basefield # {}
                          /\ \A i \in DOMAIN statements : statements[i].before \cap basefield # {}

\* The first StreamRef of a statement has the flags from before its manipulator, or those
\* that a manipulator with a value has set.
Saves(s) ==
    /\ s.saved # {} => s.refs # <<>> /\ s.refs[1] \in s.saved
    /\ s.given # "none" => s.refs # <<>> /\ Marked(s.refs[1], s.given)

\* The bases beside hex that the stream has, or will get back when the statements from i on end.
Due(fl, st, i) ==
    \E x \in Base \ {"hex"} : x \in fl \/ \E j \in i .. Len(st) : \E k \in DOMAIN st[j].refs : x \in st[j].refs[k]

Decimal(s) == s.before \cap basefield # {"hex"}

DueAll(fl, st) == \A i \in DOMAIN st : Decimal(st[i]) => Due(fl, st, i)

StreamsInv ==
    /\ StreamsTyped
    /\ \A i \in DOMAIN statements : Saves(statements[i])
    /\ library = "std" => DueAll(flags_, statements)

\* One more element, and one less.
LEMMA AppendShape ==
  ASSUME NEW S, NEW s \in Seq(S), NEW e \in S
  PROVE  /\ Append(s, e) \in Seq(S) /\ Append(s, e) # <<>> /\ Append(s, e)[Len(s) + 1] = e
         /\ \A k \in DOMAIN s : k \in DOMAIN Append(s, e) /\ Append(s, e)[k] = s[k]
OBVIOUS

LEMMA FrontShape ==
  ASSUME NEW S, NEW s \in Seq(S), s # <<>>
  PROVE  /\ Front(s) \in Seq(S) /\ Len(Front(s)) = Len(s) - 1 /\ DOMAIN Front(s) = 1 .. Len(s) - 1
         /\ \A i \in 1 .. Len(s) - 1 : i \in DOMAIN s /\ Front(s)[i] = s[i]
<1>1. Front(s) = SubSeq(s, 1, Len(s) - 1)
  BY DEF Front
<1> DEFINE n == Len(s) - 1
<1>2. n \in Nat /\ \A i \in 1 .. n : i \in DOMAIN s /\ s[i] \in S
  OBVIOUS
<1>3. SubSeq(s, 1, n) = [i \in 1 .. n |-> s[i]]
  OBVIOUS
<1> HIDE DEF n
<1>4. [i \in 1 .. n |-> s[i]] \in Seq(S) /\ Len([i \in 1 .. n |-> s[i]]) = n
  BY <1>2
<1> QED
  BY <1>1, <1>2, <1>3, <1>4 DEF n

LEMMA Manipulates ==
  ASSUME NEW f \in SUBSET Flag, NEW base \in {"hex", "dec"}
  PROVE  /\ manipulated(f, base) \in SUBSET Flag
         /\ library # "sz" => manipulated(f, base) \cap basefield = {base}
         /\ Marked(manipulated(f, base), base)
BY DEF manipulated, setf, setf_masked, basefield, Flag, Base, Marked

LEMMA StreamsStart == StreamsInit => StreamsInv
<1> SUFFICES ASSUME StreamsInit PROVE StreamsInv
  OBVIOUS
<1>1. library \in {"sz", "std"} /\ statements = <<>> /\ shown = "none" /\ flags_ \in SUBSET Flag
      /\ (library = "std" => flags_ \cap basefield # {})
  BY DEF StreamsInit, Flag, Base, basefield
<1>2. statements \in Seq(Statement_) /\ DOMAIN statements = {}
  BY <1>1
<1> QED
  BY <1>1, <1>2 DEF StreamsInv, StreamsTyped, DueAll

\* The innermost statement is another one, as its manipulators did.
LEMMA InnermostChanged ==
  ASSUME StreamsTyped, statements # <<>>, NEW s \in Statement_,
         statements' = [statements EXCEPT ![Len(statements)] = s]
  PROVE  /\ statements' \in Seq(Statement_) /\ Len(statements') = Len(statements)
         /\ Len(statements) \in DOMAIN statements /\ statements'[Len(statements)] = s
         /\ DOMAIN statements' = DOMAIN statements
         /\ \A i \in DOMAIN statements : i # Len(statements) => statements'[i] = statements[i]
<1>1. Len(statements) \in DOMAIN statements /\ statements \in Seq(Statement_)
  BY DEF StreamsTyped
<1> QED
  BY <1>1

\* What was due is due still, if what the innermost statement returns is with it, or on the stream.
LEMMA StillDue ==
  ASSUME StreamsTyped, statements # <<>>, DueAll(flags_, statements), NEW s \in Statement_,
         statements' = [statements EXCEPT ![Len(statements)] = s], s.before = Last(statements).before,
         \A x \in Base : x \in flags_ \/ (\E k \in DOMAIN Last(statements).refs : x \in Last(statements).refs[k])
                             => x \in flags_' \/ \E k \in DOMAIN s.refs : x \in s.refs[k]
  PROVE  DueAll(flags_', statements')
<1> DEFINE N == Len(statements)
<1>1. /\ Len(statements') = N /\ N \in DOMAIN statements /\ statements'[N] = s
      /\ DOMAIN statements' = DOMAIN statements /\ DOMAIN statements = 1 .. N /\ N \in Nat
      /\ \A i \in DOMAIN statements : i # N => statements'[i] = statements[i]
      /\ Last(statements) = statements[N]
  BY InnermostChanged DEF StreamsTyped, Last
<1> HIDE DEF N
<1> SUFFICES ASSUME NEW i \in DOMAIN statements, Decimal(statements'[i]) PROVE Due(flags_', statements', i)
  BY <1>1 DEF DueAll
<1>2. Decimal(statements[i])
  BY <1>1 DEF Decimal
<1>3. PICK x \in Base \ {"hex"} : x \in flags_ \/ \E j \in i .. N : \E k \in DOMAIN statements[j].refs : x \in statements[j].refs[k]
  BY <1>2 DEF DueAll, Due, N
<1>4. N \in i .. N /\ \A j \in i .. N : j \in DOMAIN statements
  BY <1>1
<1>5. CASE x \in flags_ \/ \E k \in DOMAIN statements[N].refs : x \in statements[N].refs[k]
  <2>1. x \in flags_' \/ \E k \in DOMAIN statements'[N].refs : x \in statements'[N].refs[k]
    BY <1>1, <1>5
  <2> QED
    BY <1>1, <1>4, <2>1 DEF Due
<1>6. CASE \E j \in i .. N : j # N /\ \E k \in DOMAIN statements[j].refs : x \in statements[j].refs[k]
  <2>1. \E j \in i .. N : \E k \in DOMAIN statements'[j].refs : x \in statements'[j].refs[k]
    BY <1>1, <1>4, <1>6
  <2> QED
    BY <1>1, <2>1 DEF Due
<1> QED
  BY <1>3, <1>5, <1>6

LEMMA BeginKeeps == ASSUME StreamsInv, begin PROVE StreamsInv'
<1> DEFINE s == [before |-> flags_, saved |-> {}, given |-> "none", refs |-> <<>>]
           N == Len(statements)
<1>1. statements' = Append(statements, s) /\ UNCHANGED <<library, flags_, shown>>
  BY DEF begin
<1>2. statements \in Seq(Statement_) /\ flags_ \in SUBSET Flag /\ StreamsTyped
  BY DEF StreamsInv, StreamsTyped
<1>3. s \in Statement_ /\ s.before = flags_ /\ s.saved = {} /\ s.given = "none"
  <2>1. <<>> \in Seq(SUBSET Flag)
    OBVIOUS
  <2> QED
    BY <1>2, <2>1 DEF Statement_
<1> HIDE DEF s
<1>4. /\ statements' \in Seq(Statement_) /\ Len(statements') = N + 1 /\ N \in Nat /\ statements'[N + 1] = s
      /\ DOMAIN statements = 1 .. N /\ DOMAIN statements' = 1 .. N + 1 /\ \A i \in 1 .. N : statements'[i] = statements[i]
  BY <1>1, <1>2, <1>3
<1> HIDE DEF N
<1>a. \A i \in DOMAIN statements' : i \in DOMAIN statements \/ i = N + 1
  BY <1>4
<1>5. StreamsTyped'
  BY <1>1, <1>2, <1>3, <1>4, <1>a DEF StreamsTyped
<1>6. \A i \in DOMAIN statements' : Saves(statements'[i])
  BY <1>3, <1>4, <1>a DEF StreamsInv, Saves
<1>7. ASSUME library = "std" PROVE DueAll(flags_', statements')
  <2> SUFFICES ASSUME NEW i \in DOMAIN statements', Decimal(statements'[i]) PROVE Due(flags_', statements', i)
    BY DEF DueAll
  <2>1. CASE i = N + 1
    <3>1. flags_ \cap Base # {} /\ flags_ \cap Base # {"hex"}
      BY <1>2, <1>3, <1>4, <1>7, <2>1 DEF StreamsTyped, Decimal, basefield
    <3>2. \E x \in Base \ {"hex"} : x \in flags_'
      BY <1>1, <3>1
    <3> QED
      BY <3>2 DEF Due
  <2>2. CASE i # N + 1
    <3>1. i \in DOMAIN statements /\ Due(flags_, statements, i)
      BY <1>4, <1>7, <1>a, <2>2 DEF StreamsInv, DueAll
    <3>2. \A j \in i .. Len(statements) : j \in i .. Len(statements') /\ statements'[j] = statements[j]
      BY <1>4, <3>1 DEF N
    <3> QED
      BY <1>1, <3>1, <3>2 DEF Due
  <2> QED
    BY <2>1, <2>2
<1> QED
  BY <1>1, <1>5, <1>6, <1>7 DEF StreamsInv

\* Types and saved flags are kept by a change of the innermost statement.
LEMMA InnermostSaves ==
  ASSUME StreamsInv, statements # <<>>, NEW s \in Statement_, Saves(s), s.before = Last(statements).before,
         statements' = [statements EXCEPT ![Len(statements)] = s], UNCHANGED library,
         flags_' \in SUBSET Flag, library = "std" => flags_' \cap basefield # {},
         shown' \in {"none", "dec", "hex"}
  PROVE  StreamsTyped' /\ \A i \in DOMAIN statements' : Saves(statements'[i])
<1> DEFINE N == Len(statements)
<1>1. StreamsTyped
  BY DEF StreamsInv
<1>2. /\ statements' \in Seq(Statement_) /\ N \in DOMAIN statements /\ statements'[N] = s
      /\ DOMAIN statements' = DOMAIN statements
      /\ \A i \in DOMAIN statements : i # N => statements'[i] = statements[i]
  BY <1>1, InnermostChanged
<1>3. s.before = statements[N].before
  BY DEF Last
<1> HIDE DEF N
<1>4. \A i \in DOMAIN statements' : statements'[i].before = statements[i].before /\ Saves(statements'[i])
  BY <1>2, <1>3 DEF StreamsInv
<1> QED
  BY <1>1, <1>2, <1>4 DEF StreamsTyped

LEMMA CurrentTyped ==
  ASSUME StreamsInv, statements # <<>>
  PROVE  /\ Current = statements[Len(statements)] /\ Current \in Statement_ /\ Saves(Current)
         /\ Len(statements) \in DOMAIN statements
         /\ Current = [before |-> Current.before, saved |-> Current.saved, given |-> Current.given,
                        refs |-> Current.refs]
         /\ Current.before \in SUBSET Flag /\ Current.saved \in SUBSET SUBSET Flag /\ Current.refs \in Seq(SUBSET Flag)
<1>1. statements \in Seq(Statement_) /\ Len(statements) \in DOMAIN statements
  BY DEF StreamsInv, StreamsTyped
<1>2. Current = statements[Len(statements)] /\ Current \in Statement_
  BY <1>1 DEF Current, Last
<1> QED
  BY <1>1, <1>2 DEF StreamsInv, Statement_

LEMMA ManipulateKeeps ==
  ASSUME StreamsInv, NEW base \in {"hex", "dec"}, manipulate(base) PROVE StreamsInv'
<1> DEFINE s == [Current EXCEPT !.refs = <<flags_>>, !.saved = {flags_}]
<1>1. /\ statements # <<>> /\ Current.refs = <<>> /\ statements' = [statements EXCEPT ![Len(statements)] = s]
      /\ flags_' = manipulated(flags_, base) /\ UNCHANGED <<library, shown>>
  BY CurrentTyped DEF manipulate
<1>2. flags_ \in SUBSET Flag /\ shown \in {"none", "dec", "hex"} /\ library \in {"sz", "std"} /\ StreamsTyped
  BY DEF StreamsInv, StreamsTyped
<1>3. s \in Statement_ /\ s.before = Current.before /\ s.refs = <<flags_>> /\ s.saved = {flags_} /\ s.given = "none"
  <2>0. Current.given = "none"
    BY <1>1, CurrentTyped DEF Saves
  <2>1. Current \in Statement_ /\ <<flags_>> \in Seq(SUBSET Flag) /\ {flags_} \in SUBSET SUBSET Flag
    BY <1>1, <1>2, CurrentTyped
  <2> QED
    BY <2>0, <2>1 DEF Statement_
<1> HIDE DEF s
<1>4. flags_' \in SUBSET Flag /\ (library = "std" => flags_' \cap basefield # {})
  <2>1. manipulated(flags_, base) \in SUBSET Flag /\ (library # "sz" => manipulated(flags_, base) \cap basefield = {base})
    <3> DEFINE f == flags_
    <3>1. f \in SUBSET Flag
      BY <1>2
    <3> HIDE DEF f
    <3>2. manipulated(f, base) \in SUBSET Flag /\ (library # "sz" => manipulated(f, base) \cap basefield = {base})
      BY <3>1, Manipulates
    <3> QED
      BY <3>2 DEF f
  <2>2. {base} # {} /\ (library = "std" => library # "sz")
    OBVIOUS
  <2> QED
    BY <1>1, <2>1, <2>2
<1>5. Saves(s) /\ s.before = Last(statements).before
  BY <1>3 DEF Saves, Current
<1>6. StreamsTyped' /\ \A i \in DOMAIN statements' : Saves(statements'[i])
  BY <1>1, <1>2, <1>3, <1>4, <1>5, InnermostSaves
<1>7. ASSUME library = "std" PROVE DueAll(flags_', statements')
  <2>1. Last(statements).refs = <<>> /\ 1 \in DOMAIN s.refs /\ s.refs[1] = flags_
    BY <1>1, <1>3 DEF Current
  <2>2. DueAll(flags_, statements)
    BY <1>7 DEF StreamsInv
  <2>3. \A x \in Base : x \in flags_ \/ (\E k \in DOMAIN Last(statements).refs : x \in Last(statements).refs[k])
                           => x \in flags_' \/ \E k \in DOMAIN s.refs : x \in s.refs[k]
    BY <2>1
  <2> QED
    BY <1>1, <1>2, <1>3, <1>5, <2>2, <2>3, StillDue
<1> QED
  BY <1>1, <1>6, <1>7 DEF StreamsInv

LEMMA ShowValueKeeps ==
  ASSUME StreamsInv, NEW base \in {"hex", "dec"}, show_value(base)
  PROVE  StreamsInv' /\ (library = "std" => shown' = base)
<1> DEFINE once == manipulated(flags_, base)
           twice == manipulated(once, base)
           s == [Current EXCEPT !.refs = <<once>>, !.given = base]
<1>1. /\ statements # <<>> /\ Current.refs = <<>> /\ statements' = [statements EXCEPT ![Len(statements)] = s]
      /\ shown' = shown_as(twice) /\ flags_' = reset(reset(twice, once), flags_) /\ UNCHANGED library
  BY CurrentTyped DEF show_value
<1>2. flags_ \in SUBSET Flag /\ shown \in {"none", "dec", "hex"} /\ library \in {"sz", "std"} /\ StreamsTyped
  BY DEF StreamsInv, StreamsTyped
<1>3. /\ once \in SUBSET Flag /\ twice \in SUBSET Flag /\ (library # "sz" => twice \cap basefield = {base})
      /\ Marked(once, base)
  BY <1>2, Manipulates
<1> HIDE DEF once, twice
<1>4. s \in Statement_ /\ s.before = Current.before /\ s.saved = Current.saved /\ s.given = base /\ s.refs = <<once>>
  <2>1. Current \in Statement_ /\ <<once>> \in Seq(SUBSET Flag)
    BY <1>1, <1>3, CurrentTyped
  <2> QED
    BY <2>1 DEF Statement_
<1> HIDE DEF s
<1>5. Saves(s) /\ s.before = Last(statements).before
  <2>1. Saves(Current) /\ Current.refs = <<>>
    BY <1>1, CurrentTyped
  <2> QED
    BY <1>3, <1>4, <2>1 DEF Saves, Current
<1>6. flags_' \in SUBSET Flag /\ (library = "std" => flags_ \subseteq flags_')
  BY <1>1, <1>2, <1>3 DEF reset, setf
<1>7. library = "std" => flags_' \cap basefield # {}
  BY <1>2, <1>6 DEF StreamsTyped
<1>8. shown' \in {"none", "dec", "hex"} /\ (library = "std" => shown' = base)
  BY <1>1, <1>3 DEF shown_as
<1>9. StreamsTyped' /\ \A i \in DOMAIN statements' : Saves(statements'[i])
  BY <1>1, <1>4, <1>5, <1>6, <1>7, <1>8, InnermostSaves
<1>10. ASSUME library = "std" PROVE DueAll(flags_', statements')
  <2>1. Last(statements).refs = <<>> /\ \A x \in Base : x \in flags_ => x \in flags_'
    BY <1>1, <1>6, <1>10 DEF Current
  <2>2. DueAll(flags_, statements)
    BY <1>10 DEF StreamsInv
  <2>3. \A x \in Base : x \in flags_ \/ (\E k \in DOMAIN Last(statements).refs : x \in Last(statements).refs[k])
                           => x \in flags_' \/ \E k \in DOMAIN s.refs : x \in s.refs[k]
    BY <2>1
  <2> QED
    BY <1>1, <1>2, <1>4, <1>5, <2>2, <2>3, StillDue
<1> QED
  BY <1>1, <1>8, <1>9, <1>10 DEF StreamsInv

LEMMA ShowKeeps == ASSUME StreamsInv, show PROVE StreamsInv'
<1>1. statements # <<>> /\ shown' = shown_as(flags_) /\ UNCHANGED <<library, flags_>>
  BY DEF show
<1>2. flags_ \in SUBSET Flag /\ shown' \in {"none", "dec", "hex"} /\ library \in {"sz", "std"} /\ StreamsTyped
  BY <1>1 DEF StreamsInv, StreamsTyped, shown_as
<1>3. CASE Current.refs = <<>>
  <2>1. UNCHANGED statements
    BY <1>3 DEF show
  <2> QED
    BY <1>1, <1>2, <2>1 DEF StreamsInv, StreamsTyped
<1>4. CASE Current.refs # <<>>
  <2> DEFINE refs == Current.refs
             more == Append(refs, Last(refs))
             s == [Current EXCEPT !.refs = more]
  <2>1. statements' = [statements EXCEPT ![Len(statements)] = s]
    BY <1>1, <1>4, CurrentTyped DEF show
  <2>2. refs \in Seq(SUBSET Flag) /\ Saves(Current) /\ Current \in Statement_
    BY <1>1, CurrentTyped
  <2>3. more \in Seq(SUBSET Flag) /\ more # <<>> /\ \A k \in DOMAIN refs : k \in DOMAIN more /\ more[k] = refs[k]
    <3>1. Last(refs) \in SUBSET Flag
      BY <1>4, <2>2 DEF Last
    <3> HIDE DEF refs
    <3> QED
      BY <2>2, <3>1, AppendShape
  <2>4. 1 \in DOMAIN refs
    BY <1>4, <2>2
  <2>5. s \in Statement_ /\ s.before = Current.before /\ s.saved = Current.saved /\ s.given = Current.given /\ s.refs = more
    <3> HIDE DEF more
    <3> QED
      BY <2>2, <2>3 DEF Statement_
  <2> HIDE DEF s, more
  <2>6. Saves(s) /\ s.before = Last(statements).before
    BY <1>4, <2>2, <2>3, <2>4, <2>5 DEF Saves, Current
  <2>7. library = "std" => flags_' \cap basefield # {}
    BY <1>1, <1>2 DEF StreamsTyped
  <2>8. StreamsTyped' /\ \A i \in DOMAIN statements' : Saves(statements'[i])
    BY <1>1, <1>2, <2>1, <2>5, <2>6, <2>7, InnermostSaves
  <2>9. ASSUME library = "std" PROVE DueAll(flags_', statements')
    <3>1. \A x \in Base : x \in flags_ \/ (\E k \in DOMAIN Last(statements).refs : x \in Last(statements).refs[k])
                             => x \in flags_' \/ \E k \in DOMAIN s.refs : x \in s.refs[k]
      BY <1>1, <2>3, <2>5 DEF Current
    <3>2. DueAll(flags_, statements)
      BY <2>9 DEF StreamsInv
    <3> QED
      BY <1>1, <1>2, <2>1, <2>5, <2>6, <3>1, <3>2, StillDue
  <2> QED
    BY <1>1, <2>8, <2>9 DEF StreamsInv
<1> QED
  BY <1>3, <1>4

LEMMA EndKeeps ==
  ASSUME StreamsInv, end_statement
  PROVE  /\ StreamsInv' /\ (library = "sz" /\ Current.saved # {} => flags_' \in Current.saved)
         /\ (library = "sz" /\ Current.given # "none" => Marked(flags_', Current.given))
         /\ (library = "std" => (Decimal(Current) => flags_' \cap basefield # {"hex"}))
<1> DEFINE N == Len(statements)
           refs == Current.refs
           K == Len(refs)
<1>1. statements # <<>> /\ statements' = Front(statements) /\ UNCHANGED <<library, shown>>
      /\ flags_' = FoldRight(LAMBDA old, f : reset(f, old), refs, flags_)
  BY DEF end_statement
<1>2. flags_ \in SUBSET Flag /\ statements \in Seq(Statement_) /\ library \in {"sz", "std"} /\ StreamsTyped
  BY DEF StreamsInv, StreamsTyped
<1>3. /\ Current = statements[N] /\ N \in DOMAIN statements /\ refs \in Seq(SUBSET Flag) /\ Saves(Current)
      /\ DOMAIN statements = 1 .. N /\ N \in Nat
  <2>1. DOMAIN statements = 1 .. N /\ N \in Nat
    BY <1>2
  <2>2. /\ Current = statements[N] /\ N \in DOMAIN statements /\ Current.refs \in Seq(SUBSET Flag) /\ Saves(Current)
    BY <1>1, CurrentTyped
  <2> QED
    BY <2>1, <2>2
<1>4. Restored(flags_, refs, K, flags_')
  <2> HIDE DEF refs
  <2> QED
    BY <1>1, <1>2, <1>3, Resets DEF refs
<1>5. K \in Nat /\ DOMAIN refs = 1 .. K /\ K - K + 1 = 1 /\ (K = 0 <=> refs = <<>>)
  BY <1>3
<1>6. /\ statements' \in Seq(Statement_) /\ Len(statements') = N - 1 /\ DOMAIN statements' = 1 .. N - 1
      /\ \A i \in 1 .. N - 1 : i \in DOMAIN statements /\ statements'[i] = statements[i]
  BY <1>1, <1>2, FrontShape
<1> HIDE DEF N, K, refs
<1>7. /\ library = "sz" /\ Current.saved # {} => flags_' \in Current.saved
      /\ library = "sz" /\ Current.given # "none" => Marked(flags_', Current.given)
  BY <1>3, <1>4, <1>5 DEF Restored, Saves, refs, K
<1>8. library = "std" => flags_ \subseteq flags_' /\ \A k \in DOMAIN refs : refs[k] \subseteq flags_'
  BY <1>4, <1>5 DEF Restored, K
<1>9. flags_' \in SUBSET Flag
  BY <1>4 DEF Restored
<1>10. StreamsTyped' /\ \A i \in DOMAIN statements' : Saves(statements'[i])
  BY <1>1, <1>2, <1>6, <1>8, <1>9 DEF StreamsInv, StreamsTyped
<1>11. ASSUME library = "std" PROVE DueAll(flags_', statements')
  <2> SUFFICES ASSUME NEW i \in DOMAIN statements', Decimal(statements'[i]) PROVE Due(flags_', statements', i)
    BY DEF DueAll
  <2>1. i \in DOMAIN statements /\ Due(flags_, statements, i) /\ i \in 1 .. N - 1
    BY <1>6, <1>11 DEF StreamsInv, DueAll
  <2>2. PICK x \in Base \ {"hex"} : x \in flags_ \/ \E j \in i .. N : \E k \in DOMAIN statements[j].refs : x \in statements[j].refs[k]
    BY <2>1 DEF Due, N
  <2>3. CASE x \in flags_ \/ \E k \in DOMAIN refs : x \in refs[k]
    BY <1>8, <1>11, <2>3 DEF Due
  <2>4. CASE \E j \in i .. N : j # N /\ \E k \in DOMAIN statements[j].refs : x \in statements[j].refs[k]
    <3>1. \A j \in i .. N : j # N => j \in 1 .. N - 1 /\ j \in i .. Len(statements')
      BY <1>3, <1>6, <2>1
    <3>2. \E j \in i .. Len(statements') : \E k \in DOMAIN statements'[j].refs : x \in statements'[j].refs[k]
      BY <1>6, <2>4, <3>1
    <3> QED
      BY <3>2 DEF Due
  <2> QED
    BY <1>3, <2>2, <2>3, <2>4 DEF refs
<1>12. ASSUME library = "std", Decimal(Current) PROVE flags_' \cap basefield # {"hex"}
  <2>1. Due(flags_, statements, N)
    BY <1>3, <1>12 DEF StreamsInv, DueAll
  <2>2. N .. N = {N}
    BY <1>3
  <2>3. \E x \in Base \ {"hex"} : x \in flags_ \/ \E k \in DOMAIN refs : x \in refs[k]
    BY <1>3, <2>1, <2>2 DEF Due, N, refs
  <2> QED
    BY <1>8, <1>12, <2>3 DEF basefield
<1> QED
  BY <1>1, <1>7, <1>10, <1>11, <1>12 DEF StreamsInv

\* A statement ends with its stream's flags as they were, or not hexadecimal if it began so.
Restores ==
    /\ Len(statements') < Len(statements) /\ library = "sz" /\ Current.saved # {} => flags_' \in Current.saved
    /\ Len(statements') < Len(statements) /\ library = "sz" /\ Current.given # "none" =>
           Marked(flags_', Current.given)
    /\ Len(statements') < Len(statements) /\ library = "std" =>
           (shown_as(Current.before) = "dec" => shown_as(flags_') = "dec")

LEMMA SameLength ==
  ASSUME NEW S, NEW s \in Seq(S), NEW n, NEW e
  PROVE  ~(Len([s EXCEPT ![n] = e]) < Len(s)) /\ ~(Len(Append(s, e)) < Len(s)) /\ ~(Len(s) < Len(s))
<1>1. Len(s) \in Nat /\ DOMAIN [s EXCEPT ![n] = e] = DOMAIN s
  OBVIOUS
<1>2. Len([s EXCEPT ![n] = e]) = Len(s)
  OBVIOUS
<1>3. Len(Append(s, e)) = Len(s) + 1
  OBVIOUS
<1> QED
  BY <1>1, <1>2, <1>3

LEMMA StreamsStep ==
  ASSUME StreamsInv, StreamsNext PROVE StreamsInv' /\ Restores
<1>1. CASE end_statement
  <2>1. /\ StreamsInv' /\ (library = "sz" /\ Current.saved # {} => flags_' \in Current.saved)
        /\ (library = "sz" /\ Current.given # "none" => Marked(flags_', Current.given))
        /\ (library = "std" => (Decimal(Current) => flags_' \cap basefield # {"hex"}))
    BY <1>1, EndKeeps
  <2>2. library = "std" => (shown_as(Current.before) = "dec" => shown_as(flags_') = "dec")
    BY <1>1, <2>1 DEF shown_as, Decimal, end_statement
  <2> QED
    BY <2>1, <2>2 DEF Restores
<1>2. StreamsInv => statements \in Seq(Statement_)
  BY DEF StreamsInv, StreamsTyped
<1>3. CASE begin
  <2>1. statements' = Append(statements, [before |-> flags_, saved |-> {}, given |-> "none", refs |-> <<>>])
    BY <1>3 DEF begin
  <2>2. ~(Len(statements') < Len(statements))
    BY <1>2, <2>1, SameLength
  <2> QED
    BY <1>3, <2>2, BeginKeeps DEF Restores
<1>4. CASE show
  <2>1. statements' = statements \/ \E e : statements' = [statements EXCEPT ![Len(statements)] = e]
    BY <1>4 DEF show
  <2>2. ~(Len(statements') < Len(statements))
    BY <1>2, <2>1, SameLength
  <2> QED
    BY <1>4, <2>2, ShowKeeps DEF Restores
<1>5. ASSUME NEW base \in {"hex", "dec"}, manipulate(base) \/ show_value(base) PROVE StreamsInv' /\ Restores
  <2>1. \E e : statements' = [statements EXCEPT ![Len(statements)] = e]
    BY <1>5 DEF manipulate, show_value
  <2>2. ~(Len(statements') < Len(statements))
    BY <1>2, <2>1, SameLength
  <2>3. StreamsInv'
    BY <1>5, ManipulateKeeps, ShowValueKeeps
  <2> QED
    BY <2>2, <2>3 DEF Restores
<1> QED
  BY <1>1, <1>3, <1>4, <1>5 DEF StreamsNext

\* Hex() and Dec() of src/streams.hh, in any number of nested statements with any number of
\* StreamRefs: on an sz::Stream the flags are as they were after Hex() and Dec(), and as they
\* were set by it after a Hex(x) or Dec(x); a standard stream that printed plain numbers in decimal before a statement does so after it, never loses its base, and
\* shows the number of a Hex(x) or Dec(x) in that base.
THEOREM FlagsAreKept == StreamsSpec => FlagsKept
<1>1. StreamsInv => StreamsTypeInv
  <2> SUFFICES ASSUME StreamsInv PROVE StreamsTypeInv
    OBVIOUS
  <2>1. StreamsTyped
    BY DEF StreamsInv
  <2>2. ASSUME NEW i \in DOMAIN statements PROVE statements[i].before \subseteq Flag
    <3>1. statements[i] \in Statement_
      BY <2>1 DEF StreamsTyped
    <3> QED
      BY <3>1 DEF Statement_
  <2> QED
    BY <2>1, <2>2 DEF StreamsTyped, StreamsTypeInv
<1>2. ASSUME StreamsInv, UNCHANGED streamsVars PROVE StreamsInv'
  <2>1. library' = library /\ flags_' = flags_ /\ statements' = statements /\ shown' = shown
    BY <1>2 DEF streamsVars
  <2> QED
    BY <1>2, <2>1 DEF StreamsInv, StreamsTyped, DueAll
<1>3. ASSUME StreamsInv, NEW base \in {"hex", "dec"}, show_value(base), library = "std" PROVE shown' = base
  BY <1>3, ShowValueKeeps
<1>4. ASSUME StreamsInv, [StreamsNext]_streamsVars
      PROVE  /\ [Len(statements') < Len(statements) /\ library = "sz" /\ Current.saved # {} =>
                     flags_' \in Current.saved]_streamsVars
             /\ [Len(statements') < Len(statements) /\ library = "sz" /\ Current.given # "none" =>
                     Marked(flags_', Current.given)]_streamsVars
             /\ [Len(statements') < Len(statements) /\ library = "std" =>
                     (shown_as(Current.before) = "dec" => shown_as(flags_') = "dec")]_streamsVars
             /\ [\A base \in {"hex", "dec"} : show_value(base) /\ library = "std" => shown' = base]_streamsVars
  BY <1>3, <1>4, StreamsStep DEF Restores
<1>5. StreamsInv /\ [StreamsNext]_streamsVars => StreamsInv'
  BY <1>2, StreamsStep
<1> QED
  BY <1>1, <1>4, <1>5, StreamsStart, PTL
     DEF StreamsSpec, FlagsKept, OwnStreamsRestored, ValuesLeaveTheirMark, PlainNumbersStayDecimal, ValuesInTheirBase

-----------------------------------------------------------------------------
(* The model clock.  A representable number is a multiple of a power of two, *)
(* its ulp; the ulps of larger numbers are multiples of those of smaller     *)
(* ones, so that rounding a sum never passes a number it started from.       *)

LEMMA Pow2Defined ==
  /\ pow2[0] = 1 /\ \A n \in Nat : pow2[n + 1] = 2 * pow2[n]
  /\ \A n \in Nat : pow2[n] \in Nat \ {0}
<1> DEFINE Body(p) == [n \in Nat |-> IF n = 0 THEN 1 ELSE 2 * p[n - 1]]
           F == [n \in Nat |-> [x \in Nat |-> 2 * x]]
           one == 1
<1>1. PICK g \in [Nat -> Nat] : g[0] = one /\ \A n \in Nat : g[n + 1] = F[n][g[n]]
  <2>1. F \in [Nat -> [Nat -> Nat]] /\ one \in Nat
    OBVIOUS
  <2> HIDE DEF F, one
  <2>2. Recursive(Nat)
    BY RecursiveAll
  <2> QED
    BY <2>1, <2>2 DEF Recursive
<1>2. g[0] = 1 /\ \A n \in Nat : g[n + 1] = 2 * g[n]
  BY <1>1
<1>3. \A n \in Nat : g[n] = Body(g)[n]
  <2> SUFFICES ASSUME NEW n \in Nat PROVE g[n] = IF n = 0 THEN 1 ELSE 2 * g[n - 1]
    OBVIOUS
  <2>1. CASE n # 0
    <3>1. n - 1 \in Nat /\ (n - 1) + 1 = n
      BY <2>1
    <3> QED
      BY <1>2, <2>1, <3>1
  <2> QED
    BY <1>2, <2>1
<1>4. g = Body(g)
  <2>1. g = [n \in Nat |-> g[n]] /\ Body(g) = [n \in Nat |-> Body(g)[n]]
    OBVIOUS
  <2> HIDE DEF Body
  <2> QED
    BY <1>3, <2>1
<1>5. pow2 = Body(pow2)
  <2>1. pow2 = CHOOSE p : p = Body(p)
    BY DEF pow2
  <2> HIDE DEF Body
  <2> QED
    BY <1>4, <2>1
<1>6. pow2[0] = 1 /\ \A n \in Nat : pow2[n + 1] = 2 * pow2[n]
  <2>1. \A n \in Nat : pow2[n] = IF n = 0 THEN 1 ELSE 2 * pow2[n - 1]
    BY <1>5
  <2>2. \A n \in Nat : n + 1 \in Nat /\ n + 1 # 0 /\ (n + 1) - 1 = n
    OBVIOUS
  <2> QED
    BY <2>1, <2>2
<1> DEFINE A == {n \in Nat : pow2[n] \in Nat \ {0}}
<1>7. Nat \subseteq A
  <2>1. 0 \in A /\ \A n \in A : n + 1 \in A
    BY <1>6
  <2> HIDE DEF A
  <2> QED
    BY <2>1, NaturalsFrom
<1> QED
  BY <1>6, <1>7

LEMMA Pow2Monotone == \A m, n \in Nat : m <= n => pow2[m] <= pow2[n]
<1> SUFFICES ASSUME NEW m \in Nat PROVE \A n \in Nat : m <= n => pow2[m] <= pow2[n]
  OBVIOUS
<1> DEFINE A == {n \in Nat : m <= n => pow2[m] <= pow2[n]}
<1>1. 0 \in A
  <2>1. m <= 0 => m = 0
    OBVIOUS
  <2> QED
    BY <2>1, Pow2Defined
<1>2. ASSUME NEW n \in Nat, n \in A PROVE n + 1 \in A
  <2>1. CASE m <= n
    <3>1. pow2[m] <= pow2[n] /\ pow2[n + 1] = 2 * pow2[n] /\ pow2[n] \in Nat /\ pow2[m] \in Nat
      BY <1>2, <2>1, Pow2Defined
    <3> QED
      BY <3>1
  <2>2. CASE m = n + 1
    <3>1. pow2[m] = pow2[n + 1] /\ pow2[n + 1] \in Nat
      BY <2>2, Pow2Defined
    <3> QED
      BY <3>1
  <2>3. CASE m > n + 1
    BY <2>3
  <2>4. m <= n \/ m = n + 1 \/ m > n + 1
    OBVIOUS
  <2> QED
    BY <2>1, <2>2, <2>3, <2>4
<1>3. Nat \subseteq A
  <2> HIDE DEF A
  <2> QED
    BY <1>1, <1>2, NaturalsFrom
<1> QED
  BY <1>3

LEMMA Pow2Grows == \A n \in Nat : n < pow2[n]
<1> DEFINE A == {n \in Nat : n < pow2[n]}
<1>1. 0 \in A
  BY Pow2Defined
<1>2. ASSUME NEW n \in Nat, n \in A PROVE n + 1 \in A
  <2>1. pow2[n + 1] = 2 * pow2[n] /\ pow2[n] \in Nat /\ n < pow2[n]
    BY <1>2, Pow2Defined
  <2> QED
    BY <2>1
<1>3. Nat \subseteq A
  <2> HIDE DEF A
  <2> QED
    BY <1>1, <1>2, NaturalsFrom
<1> QED
  BY <1>3

LEMMA Pow2Sums == \A m, n \in Nat : pow2[m + n] = pow2[m] * pow2[n]
<1> SUFFICES ASSUME NEW m \in Nat PROVE \A n \in Nat : pow2[m + n] = pow2[m] * pow2[n]
  OBVIOUS
<1> DEFINE A == {n \in Nat : pow2[m + n] = pow2[m] * pow2[n]}
           a == pow2[m]
<1>a. a \in Nat
  BY Pow2Defined
<1>1. 0 \in A
  <2>1. m + 0 = m /\ pow2[0] = 1
    BY Pow2Defined
  <2>2. a = a * 1
    BY <1>a
  <2> QED
    BY <2>1, <2>2
<1>2. ASSUME NEW n \in Nat, n \in A PROVE n + 1 \in A
  <2> DEFINE b == pow2[n]
  <2>1. m + (n + 1) = (m + n) + 1 /\ m + n \in Nat
    OBVIOUS
  <2>2. pow2[n + 1] = 2 * b /\ pow2[(m + n) + 1] = 2 * pow2[m + n] /\ b \in Nat
    BY <2>1, Pow2Defined
  <2>3. pow2[m + n] = a * b
    BY <1>2
  <2> HIDE DEF a, b
  <2>4. 2 * (a * b) = a * (2 * b)
    BY <1>a, <2>2
  <2> QED
    BY <2>1, <2>2, <2>3, <2>4 DEF a
<1>3. Nat \subseteq A
  <2> HIDE DEF A
  <2> QED
    BY <1>1, <1>2, NaturalsFrom
<1> QED
  BY <1>3

\* k is the exponent of the numbers around v.
Around(v, k) == k \in Nat /\ v < pow2[Precision + k] /\ (k > 0 => v >= pow2[(Precision + k) - 1])

LEMMA Exponents ==
  ASSUME NEW v \in Nat
  PROVE  \E k \in Nat : Around(v, k) /\ ulp(v) = pow2[k]
<1> DEFINE P == Precision
           Fits(k) == v < pow2[P + k]
           Smallest(k) == Fits(k) /\ \A j \in 0 .. k - 1 : v >= pow2[P + j]
<1>1. P \in Nat \ {0}
  BY PrecisionAssumption
<1>2. Fits(v)
  <2>1. v <= P + v /\ P + v \in Nat
    BY <1>1
  <2>2. v < pow2[v] /\ pow2[v] <= pow2[P + v] /\ pow2[v] \in Nat /\ pow2[P + v] \in Nat
    BY <2>1, Pow2Grows, Pow2Monotone, Pow2Defined
  <2> QED
    BY <2>2
<1>3. \E k \in 0 .. v : Smallest(k)
  <2> DEFINE s == {k \in 0 .. v : Fits(k)}
  <2>1. s \in SUBSET (0 .. v) /\ v \in s
    BY <1>2
  <2> HIDE DEF Fits
  <2>2. \E k \in s : \A j \in s : k <= j
    <3> DEFINE A == {n \in Nat : n \in s => \E k \in s : \A j \in s : k <= j}
               B == {n \in Nat : (\E k \in s : \A j \in s : k <= j) \/ \A j \in s : j > n}
    <3>1. 0 \in B
      <4>1. CASE 0 \in s
        BY <2>1, <4>1
      <4>2. CASE 0 \notin s
        BY <2>1, <4>2
      <4> QED
        BY <4>1, <4>2
    <3>2. ASSUME NEW n \in Nat, n \in B PROVE n + 1 \in B
      <4>1. CASE n + 1 \in s /\ \A j \in s : j > n
        <5>1. \A j \in s : n + 1 <= j
          BY <2>1, <4>1
        <5> HIDE DEF s
        <5> QED
          BY <4>1, <5>1
      <4>2. CASE n + 1 \notin s /\ \A j \in s : j > n
        <5>1. \A j \in s : j > n + 1
          BY <2>1, <4>2
        <5> HIDE DEF s
        <5> QED
          BY <5>1
      <4> HIDE DEF s
      <4> QED
        BY <3>2, <4>1, <4>2
    <3>3. v \in B
      <4> HIDE DEF B
      <4> QED
        BY <3>1, <3>2, NaturalsFrom
    <3> HIDE DEF s
    <3> QED
      BY <2>1, <3>3
  <2>3. PICK k \in s : \A j \in s : k <= j
    BY <2>2
  <2>4. \A j \in 0 .. k - 1 : v >= pow2[P + j]
    <3> SUFFICES ASSUME NEW j \in 0 .. k - 1 PROVE v >= pow2[P + j]
      OBVIOUS
    <3>1. k \in 0 .. v /\ j \in 0 .. v /\ j < k /\ P + j \in Nat
      BY <1>1, <2>1
    <3>2. ~Fits(j)
      <4>1. j \in s => k <= j
        BY <2>3
      <4> QED
        BY <3>1, <4>1
    <3>3. pow2[P + j] \in Nat
      BY <3>1, Pow2Defined
    <3> QED
      BY <3>2, <3>3 DEF Fits
  <2> QED
    BY <2>3, <2>4
<1> DEFINE c == CHOOSE k \in 0 .. v : Smallest(k)
<1>4. c \in 0 .. v /\ Smallest(c)
  BY <1>3
<1>5. ulp(v) = pow2[c]
  BY DEF ulp
<1> HIDE DEF c
<1>6. c > 0 => v >= pow2[(P + c) - 1]
  <2> SUFFICES ASSUME c > 0 PROVE v >= pow2[(P + c) - 1]
    OBVIOUS
  <2>1. c - 1 \in 0 .. c - 1 /\ P + (c - 1) = (P + c) - 1
    BY <1>1, <1>4
  <2>2. v >= pow2[P + (c - 1)]
    BY <1>4, <2>1
  <2> QED
    BY <2>1, <2>2
<1>7. Around(v, c) /\ c \in Nat
  BY <1>4, <1>6 DEF Around
<1> QED
  BY <1>5, <1>7

\* Larger numbers have no smaller exponents.
LEMMA ExponentsGrow ==
  ASSUME NEW v \in Nat, NEW w \in Nat, v <= w, NEW k, NEW m, Around(v, k), Around(w, m)
  PROVE  k <= m
<1> DEFINE P == Precision
<1>1. P \in Nat \ {0} /\ k \in Nat /\ m \in Nat
  BY PrecisionAssumption DEF Around
<1> SUFFICES ASSUME m < k PROVE FALSE
  BY <1>1
<1>2. k > 0 /\ P + m <= (P + k) - 1 /\ P + m \in Nat /\ (P + k) - 1 \in Nat
  BY <1>1
<1>3. pow2[P + m] <= pow2[(P + k) - 1] /\ pow2[P + m] \in Nat /\ pow2[(P + k) - 1] \in Nat
  BY <1>2, Pow2Monotone, Pow2Defined
<1>4. w < pow2[P + m] /\ v >= pow2[(P + k) - 1]
  BY <1>2 DEF Around
<1> QED
  BY <1>3, <1>4

LEMMA UlpOf ==
  ASSUME NEW v \in Nat, NEW k, Around(v, k)
  PROVE  ulp(v) = pow2[k]
<1>1. PICK m \in Nat : Around(v, m) /\ ulp(v) = pow2[m]
  BY Exponents
<1>2. k <= m /\ m <= k /\ k \in Nat
  <2>1. v <= v
    OBVIOUS
  <2> QED
    BY <1>1, <2>1, ExponentsGrow DEF Around
<1>3. k = m
  BY <1>2
<1> QED
  BY <1>1, <1>3

LEMMA Quotients ==
  ASSUME NEW u \in Nat \ {0}, NEW v \in Nat
  PROVE  /\ v \div u \in Nat /\ u * (v \div u) \in Nat
         /\ u * (v \div u) <= v /\ v < u * (v \div u) + u
<1>1. v \div u \in Nat
  OBVIOUS
<1>2. v = u * (v \div u) + (v % u) /\ (v % u) \in 0 .. u - 1
  OBVIOUS
<1> DEFINE q == v \div u
<1>3. u * q \in Nat
  <2> HIDE DEF q
  <2> QED
    BY <1>1 DEF q
<1> QED
  BY <1>1, <1>2, <1>3

\* What is rounded is one of the two multiples of the ulp around it, the nearer one; a
\* multiple of the ulp is itself.
LEMMA RoundTo ==
  ASSUME NEW v \in Nat, NEW u \in Nat \ {0}, ulp(v) = u
  PROVE  /\ Round(v) \in {u * (v \div u), u * (v \div u) + u}
         /\ 2 * (v - Round(v)) <= u
         /\ (v % u) = 0 => Round(v) = v
<1> DEFINE q == v \div u
           below == u * q
<1>1. below \in Nat /\ below <= v /\ v < below + u
  BY Quotients
<1>2. Round(v) = IF 2 * (v - below) < u \/ (2 * (v - below) = u /\ q % 2 = 0) THEN below ELSE below + u
  BY DEF Round
<1>3. v = below + (v % u)
  OBVIOUS
<1> HIDE DEF below, q
<1>4. (v % u) = 0 => Round(v) = v
  BY <1>1, <1>2, <1>3
<1>5. 2 * (v - Round(v)) <= u
  BY <1>1, <1>2
<1> QED
  BY <1>2, <1>4, <1>5 DEF below, q

\* A number with a significand of Precision bits, or fewer.
LEMMA RoundedFits ==
  ASSUME NEW v \in Nat
  PROVE  Round(v) \in Nat /\ (Round(v) % ulp(Round(v))) = 0
<1> DEFINE P == Precision
           r == Round(v)
<1>1. PICK k \in Nat : Around(v, k) /\ ulp(v) = pow2[k]
  BY Exponents
<1> DEFINE u == pow2[k]
           q == v \div u
           h == pow2[P - 1]
<1>2. P \in Nat \ {0} /\ P - 1 \in Nat /\ u \in Nat \ {0} /\ h \in Nat \ {0}
  BY PrecisionAssumption, Pow2Defined
<1>3. q \in Nat /\ u * q \in Nat /\ u * q <= v /\ v < u * q + u
  BY <1>2, Quotients
<1>4. r \in {u * q, u * q + u}
  BY <1>1, <1>2, RoundTo
<1>5. pow2[P + k] = u * (2 * h) /\ pow2[(P + k) - 1] = u * h
  <2>1. P + k = k + P /\ (P + k) - 1 = k + (P - 1) /\ (P - 1) + 1 = P
    BY <1>2
  <2>2. pow2[k + P] = pow2[k] * pow2[P] /\ pow2[k + (P - 1)] = pow2[k] * pow2[P - 1]
    BY <1>2, Pow2Sums
  <2>3. pow2[P] = 2 * pow2[P - 1]
    BY <1>2, <2>1, Pow2Defined
  <2> QED
    BY <2>1, <2>2, <2>3
<1> HIDE DEF u, q, h, r
<1>6. q < 2 * h
  <2>1. u * q < u * (2 * h)
    BY <1>1, <1>2, <1>3, <1>5 DEF Around
  <2> QED
    BY <1>2, <1>3, <2>1
<1>7. k > 0 => h <= q
  <2> SUFFICES ASSUME k > 0, q < h PROVE FALSE
    BY <1>2, <1>3
  <2>1. u * h <= v
    BY <1>1, <1>5 DEF Around
  <2>2. q + 1 <= h /\ u * (q + 1) = u * q + u
    BY <1>2, <1>3
  <2>3. u * (q + 1) <= u * h
    BY <1>2, <1>3, <2>2
  <2>4. u * h \in Nat
    BY <1>2
  <2> QED
    BY <1>2, <1>3, <2>1, <2>2, <2>3, <2>4
<1>8. PICK n \in Nat : r = u * n /\ n <= 2 * h /\ (k > 0 => h <= n)
  <2>1. u * (q + 1) = u * q + u /\ q + 1 \in Nat
    BY <1>2, <1>3
  <2>2. CASE r = u * q
    BY <1>2, <1>3, <1>6, <1>7, <2>2
  <2>3. CASE r = u * q + u
    BY <1>2, <1>3, <1>6, <1>7, <2>1, <2>3
  <2> QED
    BY <1>4, <2>2, <2>3
<1>9. r \in Nat
  BY <1>2, <1>8
<1>10. CASE n < 2 * h
  <2>1. u * n < u * (2 * h)
    BY <1>2, <1>10
  <2>2. k > 0 => u * h <= u * n
    BY <1>2, <1>8
  <2>3. Around(r, k)
    <3>1. r < pow2[P + k]
      BY <1>5, <1>8, <2>1
    <3>2. k > 0 => r >= pow2[(P + k) - 1]
      <4>1. u * h \in Nat /\ u * n \in Nat
        BY <1>2
      <4> QED
        BY <1>5, <1>8, <2>2, <4>1
    <3> QED
      BY <3>1, <3>2 DEF Around
  <2>4. ulp(r) = u
    BY <1>9, <2>3, UlpOf DEF u
  <2>5. (u * n) % u = 0
    BY <1>2
  <2> QED
    BY <1>8, <1>9, <2>4, <2>5 DEF r
<1>11. CASE n = 2 * h
  <2>1. r = pow2[P + k] /\ k + 1 \in Nat /\ (P + (k + 1)) - 1 = P + k /\ P + (k + 1) = (P + k) + 1
    BY <1>2, <1>5, <1>8, <1>11
  <2>2. pow2[(P + k) + 1] = 2 * pow2[P + k] /\ pow2[P + k] \in Nat \ {0} /\ pow2[k + 1] = 2 * u
    BY <1>2, Pow2Defined DEF u
  <2>3. Around(r, k + 1)
    BY <2>1, <2>2 DEF Around
  <2>4. ulp(r) = 2 * u
    BY <1>9, <2>1, <2>2, <2>3, UlpOf
  <2>5. r = (2 * u) * h
    BY <1>2, <1>8, <1>11
  <2>6. ((2 * u) * h) % (2 * u) = 0
    <3> DEFINE w == 2 * u
    <3>1. w \in Nat \ {0}
      BY <1>2
    <3> HIDE DEF w
    <3>2. (w * h) % w = 0
      BY <1>2, <3>1
    <3> QED
      BY <3>2 DEF w
  <2> QED
    BY <1>9, <2>4, <2>5, <2>6 DEF r
<1> QED
  BY <1>2, <1>8, <1>10, <1>11

\* Rounding never passes a number that is representable.
LEMMA NeverBelow ==
  ASSUME NEW t \in Nat, (t % ulp(t)) = 0, NEW v \in Nat, t <= v
  PROVE  t <= Round(v)
<1> DEFINE P == Precision
<1>1. PICK k \in Nat : Around(v, k) /\ ulp(v) = pow2[k]
  BY Exponents
<1>2. PICK m \in Nat : Around(t, m) /\ ulp(t) = pow2[m]
  BY Exponents
<1>3. m <= k
  BY <1>1, <1>2, ExponentsGrow
<1> DEFINE u == pow2[k]
           q == v \div u
           h == pow2[P - 1]
<1>4. P \in Nat \ {0} /\ P - 1 \in Nat /\ u \in Nat \ {0} /\ h \in Nat \ {0}
  BY PrecisionAssumption, Pow2Defined
<1>5. q \in Nat /\ u * q \in Nat /\ u * q <= v /\ v < u * q + u
  BY <1>4, Quotients
<1>6. Round(v) \in {u * q, u * q + u}
  BY <1>1, <1>4, RoundTo
<1>7. t <= u * q
  <2>1. CASE m = k
    <3>1. (t % u) = 0
      BY <1>2, <2>1
    <3> DEFINE n == t \div u
    <3>2. n \in Nat /\ t = u * n
      BY <1>4, <3>1
    <3> HIDE DEF u, q, n
    <3>3. n <= q
      <4> SUFFICES ASSUME q + 1 <= n PROVE FALSE
        BY <1>5, <3>2
      <4>1. u * (q + 1) <= u * n /\ u * (q + 1) = u * q + u
        BY <1>4, <1>5, <3>2
      <4> QED
        BY <1>4, <1>5, <3>2, <4>1
    <3> QED
      BY <1>4, <1>5, <3>2, <3>3
  <2>2. CASE m < k
    <3>1. k > 0 /\ P + m <= (P + k) - 1 /\ P + m \in Nat /\ (P + k) - 1 \in Nat
      BY <1>4, <2>2
    <3>2. t < pow2[P + m] /\ pow2[P + m] <= pow2[(P + k) - 1] /\ pow2[(P + k) - 1] <= v
      BY <1>1, <1>2, <3>1, Pow2Monotone DEF Around
    <3>3. pow2[(P + k) - 1] = u * h
      <4>1. (P + k) - 1 = k + (P - 1)
        BY <1>4
      <4> QED
        BY <1>4, <4>1, Pow2Sums
    <3>4. pow2[P + m] \in Nat
      BY <3>1, Pow2Defined
    <3> HIDE DEF u, q, h
    <3>5. h <= q
      <4> SUFFICES ASSUME q + 1 <= h PROVE FALSE
        BY <1>4, <1>5
      <4>1. u * (q + 1) <= u * h /\ u * (q + 1) = u * q + u
        BY <1>4, <1>5
      <4> QED
        BY <1>4, <1>5, <3>2, <3>3, <4>1
    <3>6. u * h <= u * q /\ u * h \in Nat
      BY <1>4, <1>5, <3>5
    <3> QED
      BY <1>5, <3>2, <3>3, <3>4, <3>6
  <2> QED
    BY <1>3, <2>1, <2>2
<1> HIDE DEF u, q
<1> QED
  BY <1>4, <1>5, <1>6, <1>7

\* Below 2.0 the ulp is a chronon at most.
LEMMA UlpBelow ==
  ASSUME NEW v \in Nat, v < Two
  PROVE  \E k \in 0 .. Fine : Around(v, k) /\ ulp(v) = pow2[k] /\ pow2[k] <= Chronon
<1>1. PICK k \in Nat : Around(v, k) /\ ulp(v) = pow2[k]
  BY Exponents
<1>2. Precision \in Nat \ {0} /\ Fine \in Nat
  BY PrecisionAssumption
<1>3. k <= Fine
  <2> SUFFICES ASSUME Fine < k PROVE FALSE
    BY <1>2
  <2>1. Precision + Fine \in Nat /\ (Precision + k) - 1 \in Nat /\ Precision + Fine <= (Precision + k) - 1 /\ k > 0
    BY <1>2
  <2>2. pow2[Precision + Fine] <= pow2[(Precision + k) - 1] /\ pow2[Precision + Fine] \in Nat
        /\ pow2[(Precision + k) - 1] \in Nat
    BY <2>1, Pow2Monotone, Pow2Defined
  <2>3. v >= pow2[(Precision + k) - 1] /\ v < pow2[Precision + Fine]
    BY <1>1, <2>1 DEF Around, Two
  <2> QED
    BY <2>2, <2>3
<1>4. pow2[k] <= Chronon
  BY <1>2, <1>3, Pow2Monotone DEF Chronon
<1> QED
  BY <1>1, <1>2, <1>3, <1>4

\* Below 2.0 every number of whole chronons is representable.
LEMMA ExactBelow ==
  ASSUME NEW v \in Nat, v < Two, (v % Chronon) = 0
  PROVE  Round(v) = v
<1>1. PICK k \in 0 .. Fine : ulp(v) = pow2[k]
  BY UlpBelow
<1> DEFINE u == pow2[k]
           m == pow2[Fine - k]
           n == v \div Chronon
<1>2. k \in Nat /\ Fine - k \in Nat /\ k + (Fine - k) = Fine /\ Fine \in Nat
  BY PrecisionAssumption
<1>3. u \in Nat \ {0} /\ m \in Nat \ {0} /\ Chronon = u * m /\ Chronon \in Nat \ {0}
  <2>1. pow2[k + (Fine - k)] = pow2[k] * pow2[Fine - k]
    BY <1>2, Pow2Sums
  <2>2. pow2[k] \in Nat \ {0} /\ pow2[Fine - k] \in Nat \ {0} /\ pow2[Fine] \in Nat \ {0}
    BY <1>2, Pow2Defined
  <2> QED
    BY <1>2, <2>1, <2>2 DEF Chronon
<1>4. n \in Nat /\ v = Chronon * n
  BY <1>3
<1> HIDE DEF u, m, n
<1>5. (v % u) = 0
  <2>1. v = u * (m * n) /\ m * n \in Nat
    BY <1>3, <1>4
  <2> DEFINE p == m * n
  <2>2. p \in Nat /\ v = u * p
    BY <2>1
  <2> HIDE DEF p
  <2>3. (u * p) % u = 0
    BY <1>3, <2>2
  <2> QED
    BY <2>2, <2>3
<1>6. ulp(v) = u
  BY <1>1 DEF u
<1> QED
  BY <1>3, <1>5, <1>6, RoundTo

\* Below 2.0 a chronon is never lost by rounding.
LEMMA AdvanceBelow ==
  ASSUME NEW t \in Nat, (t % ulp(t)) = 0, t < Two
  PROVE  t < Round(t + Chronon)
<1> DEFINE C == Chronon
           P == Precision
           v == t + C
<1>1. P \in Nat \ {0} /\ Fine \in Nat /\ C \in Nat \ {0} /\ Two \in Nat \ {0} /\ v \in Nat
  <2>1. P \in Nat \ {0} /\ Fine \in Nat /\ P + Fine \in Nat
    BY PrecisionAssumption
  <2> QED
    BY <2>1, Pow2Defined DEF Chronon, Two
<1>2. CASE v < Two
  <2>1. PICK k \in 0 .. Fine : ulp(v) = pow2[k] /\ pow2[k] <= C
    BY <1>1, <1>2, UlpBelow
  <2> DEFINE u == pow2[k]
  <2>2. k \in Nat /\ u \in Nat \ {0}
    BY <1>1, <2>1, Pow2Defined
  <2> HIDE DEF u, C
  <2>3. 2 * (v - Round(v)) <= u /\ Round(v) \in Int
    <3>1. ulp(v) = u
      BY <2>1 DEF u
    <3>2. Round(v) \in Nat
      BY <1>1, RoundedFits
    <3> HIDE DEF v
    <3> QED
      BY <1>1, <2>2, <3>1, <3>2, RoundTo
  <2>4. u <= C
    BY <2>1 DEF u
  <2>5. t < Round(v)
    <3> DEFINE R == Round(v)
    <3>1. 2 * ((t + C) - R) <= u /\ R \in Int
      BY <2>3
    <3> HIDE DEF R
    <3>2. t < R
      BY <1>1, <2>2, <2>4, <3>1
    <3> QED
      BY <3>2 DEF R
  <2> QED
    BY <2>5 DEF C
<1>3. CASE v >= Two
  <2>1. (P + Fine) - 1 \in Nat /\ ((P + Fine) - 1) + 1 = P + Fine /\ Fine <= (P + Fine) - 1 /\ P + Fine = Fine + P
    BY <1>1
  <2> DEFINE one == pow2[(P + Fine) - 1]
             n == t \div C
             top == pow2[P]
  <2>2. Two = 2 * one /\ one \in Nat /\ C <= one
    BY <2>1, <1>1, Pow2Defined, Pow2Monotone DEF Two, Chronon
  <2>3. Two = C * top /\ top \in Nat
    <3>1. P \in Nat /\ Fine \in Nat
      BY <1>1
    <3>2. pow2[Fine + P] = pow2[Fine] * pow2[P]
      BY <3>1, Pow2Sums, Zenon
    <3>3. Two = pow2[Fine + P]
      BY <2>1, Zenon DEF Two
    <3>4. pow2[P] \in Nat
      BY <3>1, Pow2Defined
    <3> QED
      BY <3>2, <3>3, <3>4, Zenon DEF Chronon
  <2>4. t >= one
    <3> HIDE DEF C, one
    <3> QED
      BY <1>1, <1>3, <2>2
  <2>5. ulp(t) = C
    <3>1. Around(t, Fine)
      BY <1>1, <2>4 DEF Around, Two
    <3> QED
      BY <3>1, UlpOf DEF Chronon
  <2>6. n \in Nat /\ t = C * n
    <3>1. (t % C) = 0
      BY <2>5
    <3> HIDE DEF C
    <3> QED
      BY <1>1, <3>1
  <2> HIDE DEF C, n, top, one
  <2>7. v <= Two
    <3>1. n < top
      <4> SUFFICES ASSUME top <= n PROVE FALSE
        BY <2>3, <2>6
      <4>1. C * top <= C * n
        BY <1>1, <2>3, <2>6
      <4>2. C * top \in Nat /\ C * n \in Nat
        BY <1>1, <2>3, <2>6
      <4> QED
        BY <2>3, <2>6, <4>1, <4>2
    <3>2. C * (n + 1) <= C * top /\ C * (n + 1) = C * n + C
      BY <1>1, <2>3, <2>6, <3>1
    <3> QED
      BY <1>1, <2>3, <2>6, <3>2
  <2>8. v = Two
    BY <1>1, <1>3, <2>7
  <2>9. Around(Two, Fine + 1)
    <3>1. Fine + 1 \in Nat /\ (P + (Fine + 1)) - 1 = P + Fine /\ P + (Fine + 1) = (P + Fine) + 1 /\ P + Fine \in Nat
      BY <1>1
    <3>2. pow2[P + (Fine + 1)] = 2 * Two /\ Two = pow2[P + Fine]
      BY <3>1, Pow2Defined DEF Two
    <3>3. Two < 2 * Two
      BY <1>1
    <3> QED
      BY <1>1, <3>1, <3>2, <3>3 DEF Around
  <2>10. ulp(Two) = 2 * C
    <3>1. Fine + 1 \in Nat /\ pow2[Fine + 1] = 2 * C
      BY <1>1, Pow2Defined DEF C, Chronon
    <3> QED
      BY <1>1, <2>9, <3>1, UlpOf
  <2>11. (Two % (2 * C)) = 0
    <3> DEFINE half == pow2[P - 1]
    <3>1. P - 1 \in Nat /\ (P - 1) + 1 = P
      BY <1>1
    <3>2. top = 2 * half /\ half \in Nat
      BY <3>1, Pow2Defined DEF top
    <3> DEFINE w == 2 * C
    <3>3. w \in Nat \ {0} /\ Two = w * half
      <4> HIDE DEF half
      <4> QED
        BY <1>1, <2>3, <3>2
    <3> HIDE DEF w, half
    <3>4. (w * half) % w = 0
      BY <3>2, <3>3
    <3> QED
      BY <3>3, <3>4 DEF w
  <2>12. Round(Two) = Two
    <3> DEFINE w == 2 * C
    <3>1. w \in Nat \ {0} /\ ulp(Two) = w /\ (Two % w) = 0
      BY <1>1, <2>10, <2>11
    <3> HIDE DEF w
    <3> QED
      BY <1>1, <3>1, RoundTo
  <2>13. Round(v) = Two
    BY <2>8, <2>12
  <2> QED
    BY <2>13 DEF C
<1> QED
  BY <1>1, <1>2, <1>3

-----------------------------------------------------------------------------

\* What keeps it exact below 2.0: sums of whole chronons are whole chronons.
ModelInv ==
    /\ ModelTypeInv
    /\ ExactBelowTwo
    /\ whole => (added % Chronon) = 0

LEMMA ModelStarts == ModelInit => ModelInv
<1> SUFFICES ASSUME ModelInit PROVE ModelInv
  OBVIOUS
<1>1. time = 0 /\ added = 0 /\ 0 \in 0 .. MaxElapsed /\ whole = TRUE
  BY DeltaAssumption DEF ModelInit
<1>2. PICK k \in Nat : ulp(0) = pow2[k]
  BY Exponents
<1>3. ulp(0) \in Nat \ {0} /\ Chronon \in Nat \ {0}
  BY <1>2, PrecisionAssumption, Pow2Defined DEF Chronon
<1>4. (0 % ulp(0)) = 0 /\ (0 % Chronon) = 0
  BY <1>3
<1> QED
  BY <1>1, <1>4 DEF ModelTypeInv, ExactBelowTwo, ModelInv

LEMMA MultipleOf == ASSUME NEW c \in Nat \ {0}, NEW k \in Nat PROVE ((c * k) % c) = 0
OBVIOUS

\* Multiples of c are closed under addition.
LEMMA WholeSums ==
  ASSUME NEW c \in Nat \ {0}, NEW a \in Nat, NEW b \in Nat, (a % c) = 0, (b % c) = 0
  PROVE  ((a + b) % c) = 0
<1> DEFINE m == a \div c
           n == b \div c
<1>1. m \in Nat /\ n \in Nat /\ a = c * m /\ b = c * n
  OBVIOUS
<1> HIDE DEF m, n
<1>2. a + b = c * (m + n)
  BY <1>1
<1> DEFINE k == m + n
<1>3. k \in Nat /\ a + b = c * k
  BY <1>1, <1>2
<1> HIDE DEF k
<1> QED
  BY <1>3, MultipleOf

LEMMA ModelAdds ==
  ASSUME ModelInv, NEW delta \in Nat, add(delta)
  PROVE  ModelInv' /\ time' >= time
<1> DEFINE v == time + delta
<1>1. time \in Nat /\ added \in Nat /\ v \in Nat /\ time <= v /\ (time % ulp(time)) = 0 /\ whole \in BOOLEAN
  BY DeltaAssumption DEF ModelInv, ModelTypeInv
<1>2. time' = Round(v) /\ added' = added + delta /\ added' \in 0 .. MaxElapsed
      /\ whole' = (whole /\ (delta % Chronon) = 0)
  BY <1>1, DeltaAssumption DEF add, ModelInv, ModelTypeInv
<1> HIDE DEF v
<1>3. time' \in Nat /\ (time' % ulp(time')) = 0
  BY <1>1, <1>2, RoundedFits
<1>4. time' >= time
  BY <1>1, <1>2, <1>3, NeverBelow
<1>5. Two \in Nat /\ Chronon \in Nat \ {0}
  BY PrecisionAssumption, Pow2Defined DEF Two, Chronon
<1>6. whole' => whole /\ (added' % Chronon) = 0
  <2> SUFFICES ASSUME whole' PROVE whole /\ (added' % Chronon) = 0
    OBVIOUS
  <2>1. whole /\ (delta % Chronon) = 0
    BY <1>2
  <2>2. (added % Chronon) = 0
    BY <2>1 DEF ModelInv
  <2> QED
    BY <1>1, <1>2, <1>5, <2>1, <2>2, WholeSums
<1>7. whole' /\ added' < Two => time' = added'
  <2> SUFFICES ASSUME whole', added' < Two PROVE time' = added'
    OBVIOUS
  <2>1. added < Two /\ whole
    BY <1>1, <1>2, <1>5, <1>6
  <2>2. v = added'
    BY <1>1, <1>2, <2>1 DEF v, ModelInv, ExactBelowTwo
  <2> QED
    BY <1>1, <1>2, <1>6, <2>2, ExactBelow
<1>8. ModelTypeInv'
  BY <1>1, <1>2, <1>3 DEF ModelTypeInv, ulp, pow2
<1>9. ExactBelowTwo'
  BY <1>7 DEF ExactBelowTwo, Two
<1>10. (whole => (added % Chronon) = 0)'
  BY <1>6 DEF Chronon
<1>11. ModelInv'
  BY <1>8, <1>9, <1>10 DEF ModelInv
<1> QED
  BY <1>4, <1>11

\* A read below 2.0 moves the clock on.
LEMMA NowAdvances ==
  ASSUME ModelInv, model_now, time < Two
  PROVE  time < time'
<1>1. time \in Nat /\ (time % ulp(time)) = 0
  BY DEF ModelInv, ModelTypeInv
<1>2. time' = Round(time + Chronon)
  BY DEF model_now, add
<1> QED
  BY <1>1, <1>2, AdvanceBelow

LEMMA ModelSteps ==
  ModelInv /\ [ModelNext]_modelVars
    => /\ ModelInv'
       /\ [time' >= time]_modelVars
       /\ [model_now /\ time < Two => time < time']_modelVars
<1> SUFFICES ASSUME ModelInv, [ModelNext]_modelVars
             PROVE  /\ ModelInv'
                    /\ [time' >= time]_modelVars
  BY NowAdvances
<1>1. CASE model_now
  <2>1. Chronon \in Nat
    BY PrecisionAssumption, Pow2Defined DEF Chronon
  <2> QED
    BY <1>1, <2>1, ModelAdds DEF model_now
<1>2. CASE \E delta \in Deltas : model_advance(delta)
  BY <1>2, DeltaAssumption, ModelAdds DEF model_advance
<1>3. CASE UNCHANGED modelVars
  BY <1>3 DEF modelVars, ModelInv, ModelTypeInv, ExactBelowTwo, ulp, Two, Chronon
<1> QED
  BY <1>1, <1>2, <1>3 DEF ModelNext

\* The clock of model_clock never goes back, advances with every now() below 2.0 and is
\* exact there as long as only whole chronons are added, whatever the precision of its
\* type and however reads and advances, fractional ones included, are mixed.
THEOREM TimeIsTold == ModelSpec => TimeIsKept
<1>1. ModelInit => ModelInv
  BY ModelStarts
<1>2. ModelInv /\ [ModelNext]_modelVars
        => /\ ModelInv'
           /\ [time' >= time]_modelVars
           /\ [model_now /\ time < Two => time < time']_modelVars
  BY ModelSteps
<1>3. ModelInv => ModelTypeInv /\ ExactBelowTwo
  BY DEF ModelInv
<1> QED
  BY <1>1, <1>2, <1>3, PTL DEF ModelSpec, TimeIsKept, NeverGoesBack, AdvancesBelowTwo
-----------------------------------------------------------------------------
(* The collectors.  A total is the last of the partial sums, whatever order  *)
(* the fold adds them in; the window's is a difference of two of them.       *)

Partial(s, P) == P \in [Nat -> Int] /\ P[0] = 0 /\ \A k \in 1 .. Len(s) : P[k] = P[k - 1] + s[k]

LEMMA PartialSums ==
  ASSUME NEW s \in Seq(Int)
  PROVE  \E P : Partial(s, P)
<1> DEFINE F == [n \in Nat |-> [a \in Int |-> a + (IF n + 1 \in 1 .. Len(s) THEN s[n + 1] ELSE 0)]]
           none == 0
<1>1. F \in [Nat -> [Int -> Int]] /\ none \in Int
  <2>1. \A n \in Nat : n + 1 \in 1 .. Len(s) => s[n + 1] \in Int
    OBVIOUS
  <2> QED
    BY <2>1
<1>2. PICK P \in [Nat -> Int] : P[0] = none /\ \A n \in Nat : P[n + 1] = F[n][P[n]]
  <2>1. Recursive(Int)
    BY RecursiveAll
  <2> HIDE DEF F, none
  <2> QED
    BY <1>1, <2>1 DEF Recursive
<1>3. ASSUME NEW k \in 1 .. Len(s) PROVE P[k] = P[k - 1] + s[k]
  <2>1. k - 1 \in Nat /\ (k - 1) + 1 = k /\ P[k - 1] \in Int
    OBVIOUS
  <2>2. P[k] = F[k - 1][P[k - 1]]
    <3> HIDE DEF F
    <3> QED BY <1>2, <2>1
  <2> QED
    BY <2>1, <2>2
<1> QED
  BY <1>2, <1>3 DEF Partial

LEMMA SumIsPartial ==
  ASSUME NEW s \in Seq(Int), NEW P, Partial(s, P)
  PROVE  SumOf(s) = P[Len(s)] /\ SumOf(s) \in Int
<1> DEFINE S == 1 .. Len(s)
           Body(it) == [t \in SUBSET S |-> IF t = {} THEN 0 ELSE LET x == Max(t) IN it[t \ {x}] + s[x]]
           none == 0
<1>1. DOMAIN s = S /\ Len(s) \in Nat /\ \A k \in S : s[k] \in Int
  OBVIOUS
<1>2. SumOf(s) = (CHOOSE it : it = Body(it))[S]
  <2>1. SumOf(s) = (CHOOSE it : it = [t \in SUBSET DOMAIN s |->
                                       IF t = {} THEN 0 ELSE LET x == Max(t) IN it[t \ {x}] + s[x]])[DOMAIN s]
    BY DEF SumOf, FoldLeft, MapThenFoldSet
  <2> QED
    BY <1>1, <2>1
<1>3. IsFiniteSet(S)
  BY FS_Interval
<1>4. \A t \in SUBSET S : t # {} => Max(t) \in t
  BY <1>1, MaxOfSome
<1>5. \E it : it = Body(it)
  <2> DEFINE pick == [t \in SUBSET S |-> Max(t)]
             F == [k \in S |-> [a \in Int |-> a + s[k]]]
  <2>1. F \in [S -> [Int -> Int]] /\ none \in Int
    BY <1>1
  <2>2. \A t \in SUBSET S : t # {} => pick[t] \in t
    BY <1>4
  <2>3. PICK it \in [SUBSET S -> Int] : Recurs(it, S, none, pick, F)
    <3>1. \A T : IsFiniteSet(T) => \A D : \A e \in D : \A p : \A G \in [T -> [D -> D]] :
            (\A t \in SUBSET T : t # {} => p[t] \in t) => \E it \in [SUBSET T -> D] : Recurs(it, T, e, p, G)
      BY SetRecursion
    <3> HIDE DEF pick, F, S, none
    <3>2. \A D : \A e \in D : \A p : \A G \in [S -> [D -> D]] :
            (\A t \in SUBSET S : t # {} => p[t] \in t) => \E it \in [SUBSET S -> D] : Recurs(it, S, e, p, G)
      BY <1>3, <3>1
    <3> QED
      BY <2>1, <2>2, <3>2
  <2>4. ASSUME NEW t \in SUBSET S PROVE it[t] = Body(it)[t]
    <3>1. CASE t = {}
      BY <2>3, <3>1 DEF Recurs
    <3>2. CASE t # {}
      <4> DEFINE x == Max(t)
      <4>1. x \in t /\ x \in S /\ pick[t] = x /\ t \ {x} \in SUBSET S
        BY <1>4, <3>2
      <4>2. it[t] = F[pick[t]][it[t \ {pick[t]}]]
        <5> HIDE DEF F, pick
        <5> QED BY <2>3, <3>2 DEF Recurs
      <4>3. it[t \ {x}] \in Int
        BY <2>3, <4>1
      <4>4. it[t] = it[t \ {x}] + s[x]
        <5> HIDE DEF pick, x, S
        <5> QED BY <4>1, <4>2, <4>3
      <4> QED
        BY <3>2, <4>4
    <3> QED
      BY <3>1, <3>2
  <2>5. it = Body(it)
    <3>1. it = [t \in SUBSET S |-> it[t]]
      BY <2>3
    <3>2. Body(it) = [t \in SUBSET S |-> Body(it)[t]]
      OBVIOUS
    <3> HIDE DEF Body
    <3> QED
      BY <2>4, <3>1, <3>2
  <2> QED
    BY <2>5
<1> DEFINE c == CHOOSE it : it = Body(it)
<1>6. c = Body(c)
  <2> HIDE DEF Body
  <2> QED BY <1>5
<1> HIDE DEF c
<1>7. c[{}] = 0 /\ \A t \in SUBSET S : t # {} => c[t] = c[t \ {Max(t)}] + s[Max(t)]
  BY <1>6
<1> DEFINE A == {k \in Nat : k <= Len(s) => c[1 .. k] = P[k]}
<1>8. 0 \in A
  <2>1. 1 .. 0 = {}
    OBVIOUS
  <2> QED
    BY <1>7, <2>1 DEF Partial
<1>9. ASSUME NEW k \in Nat, k \in A PROVE k + 1 \in A
  <2> SUFFICES ASSUME k + 1 <= Len(s) PROVE c[1 .. k + 1] = P[k + 1]
    OBVIOUS
  <2>1. c[1 .. k] = P[k]
    BY <1>1, <1>9
  <2>2. k + 1 \in S /\ 1 .. k + 1 \in SUBSET S /\ 1 .. k + 1 # {} /\ (k + 1) - 1 = k
    <3>1. k + 1 \in 1 .. k + 1 /\ (k + 1) - 1 = k
      OBVIOUS
    <3>2. k + 1 \in S /\ 1 .. k + 1 \in SUBSET S
      BY <1>1
    <3> QED
      BY <3>1, <3>2
  <2> DEFINE t == 1 .. k + 1
  <2>3. Max(t) = k + 1 /\ t \ {k + 1} = 1 .. k
    <3>1. k + 1 \in Nat /\ k + 1 \in 1 .. k + 1
      OBVIOUS
    <3>2. Max(t) = k + 1
      BY <3>1, MaxOfFirst
    <3>3. t \ {k + 1} = 1 .. k
      OBVIOUS
    <3> QED
      BY <3>2, <3>3
  <2>4. P[k + 1] = P[k] + s[k + 1]
    BY <2>2 DEF Partial
  <2>5. t \in SUBSET S /\ t # {}
    BY <2>2
  <2> HIDE DEF t, S
  <2>6. c[t] = c[t \ {Max(t)}] + s[Max(t)]
    BY <1>7, <2>5
  <2>7. c[t] = P[k + 1]
    BY <2>1, <2>3, <2>4, <2>6
  <2> QED
    BY <2>7 DEF t
<1>10. Nat \subseteq A
  <2> HIDE DEF A
  <2> QED BY <1>8, <1>9, NaturalsFrom
<1>11. SumOf(s) = c[1 .. Len(s)] /\ Len(s) \in A
  BY <1>1, <1>2, <1>10 DEF c
<1> QED
  BY <1>1, <1>11 DEF Partial

LEMMA SumOfNone == SumOf(<<>>) = 0
<1>1. <<>> \in Seq(Int) /\ Len(<<>>) = 0
  OBVIOUS
<1>2. PICK P : Partial(<<>>, P)
  BY <1>1, PartialSums
<1> QED
  BY <1>1, <1>2, SumIsPartial DEF Partial

LEMMA SumOfMore ==
  ASSUME NEW s \in Seq(Int), NEW x \in Int
  PROVE  SumOf(Append(s, x)) = SumOf(s) + x /\ SumOf(s) \in Int
<1> DEFINE r == Append(s, x)
<1>1. r \in Seq(Int) /\ Len(r) = Len(s) + 1 /\ Len(s) \in Nat
      /\ r[Len(s) + 1] = x /\ \A k \in 1 .. Len(s) : r[k] = s[k]
  OBVIOUS
<1> HIDE DEF r
<1>2. PICK P : Partial(r, P)
  BY <1>1, PartialSums
<1>3. Partial(s, P)
  BY <1>1, <1>2 DEF Partial
<1>4. P[Len(s) + 1] = P[Len(s)] + x
  <2>1. Len(s) + 1 \in 1 .. Len(r) /\ (Len(s) + 1) - 1 = Len(s)
    BY <1>1
  <2>2. P[Len(s) + 1] = P[(Len(s) + 1) - 1] + r[Len(s) + 1]
    BY <1>2, <2>1 DEF Partial
  <2> QED
    BY <1>1, <2>1, <2>2
<1>5. SumOf(r) = P[Len(s) + 1] /\ SumOf(s) = P[Len(s)] /\ SumOf(s) \in Int
  BY <1>1, <1>2, <1>3, SumIsPartial
<1> QED
  BY <1>4, <1>5 DEF r

LEMMA SumOfTail ==
  ASSUME NEW s \in Seq(Int), s # <<>>
  PROVE  SumOf(Tail(s)) = SumOf(s) - Head(s) /\ SumOf(s) \in Int
<1> DEFINE r == Tail(s)
<1>1. r \in Seq(Int) /\ Len(r) = Len(s) - 1 /\ Len(s) \in Nat /\ Len(s) > 0 /\ s[1] = Head(s) /\ s[1] \in Int
      /\ \A k \in 1 .. Len(r) : r[k] = s[k + 1]
  OBVIOUS
<1> HIDE DEF r
<1>2. PICK P : Partial(s, P)
  BY PartialSums
<1> DEFINE Q == [k \in Nat |-> P[k + 1] - s[1]]
<1>3. Partial(r, Q)
  <2>1. Q \in [Nat -> Int]
    BY <1>1, <1>2 DEF Partial
  <2>2. Q[0] = 0
    <3>1. 1 \in 1 .. Len(s) /\ P[1 - 1] = 0
      BY <1>1, <1>2 DEF Partial
    <3>2. P[1] = P[1 - 1] + s[1]
      BY <1>2, <3>1 DEF Partial
    <3> QED
      BY <1>1, <3>1, <3>2
  <2>3. ASSUME NEW k \in 1 .. Len(r) PROVE Q[k] = Q[k - 1] + r[k]
    <3>1. k + 1 \in 1 .. Len(s) /\ (k + 1) - 1 = k /\ k - 1 \in Nat /\ (k - 1) + 1 = k /\ k \in Nat
      BY <1>1
    <3>2. P[k + 1] = P[k] + s[k + 1] /\ P[k] \in Int /\ P[k + 1] \in Int
      BY <1>2, <3>1 DEF Partial
    <3>3. Q[k] = P[k + 1] - s[1] /\ Q[k - 1] = P[k] - s[1] /\ r[k] = s[k + 1] /\ s[k + 1] \in Int
      BY <1>1, <3>1
    <3> HIDE DEF Q
    <3> DEFINE a == P[k]
               b == s[k + 1]
               c == s[1]
    <3>4. a \in Int /\ b \in Int /\ c \in Int
      BY <1>1, <3>2, <3>3
    <3>5. Q[k] = (a + b) - c /\ Q[k - 1] = a - c /\ r[k] = b
      BY <3>2, <3>3
    <3> HIDE DEF a, b, c
    <3> QED
      BY <3>4, <3>5
  <2> HIDE DEF Q
  <2> QED
    BY <2>1, <2>2, <2>3 DEF Partial
<1>4. SumOf(s) = P[Len(s)] /\ SumOf(r) = Q[Len(r)] /\ SumOf(s) \in Int
  BY <1>1, <1>2, <1>3, SumIsPartial
<1>5. Q[Len(r)] = P[Len(s)] - s[1]
  BY <1>1
<1> QED
  BY <1>1, <1>4, <1>5 DEF r

\* Bounds of the numbers bound their sum.
LEMMA SumBounded ==
  ASSUME NEW s \in Seq(Int), NEW lo \in Int, NEW hi \in Int, \A k \in 1 .. Len(s) : lo <= s[k] /\ s[k] <= hi
  PROVE  lo * Len(s) <= SumOf(s) /\ SumOf(s) <= hi * Len(s)
<1>1. PICK P : Partial(s, P)
  BY PartialSums
<1> DEFINE A == {k \in Nat : k <= Len(s) => lo * k <= P[k] /\ P[k] <= hi * k}
<1>2. 0 \in A
  BY <1>1 DEF Partial
<1>3. ASSUME NEW k \in Nat, k \in A PROVE k + 1 \in A
  <2> SUFFICES ASSUME k + 1 <= Len(s) PROVE lo * (k + 1) <= P[k + 1] /\ P[k + 1] <= hi * (k + 1)
    OBVIOUS
  <2>1. k + 1 \in 1 .. Len(s) /\ (k + 1) - 1 = k
    OBVIOUS
  <2>2. P[k + 1] = P[k] + s[k + 1] /\ P[k] \in Int /\ s[k + 1] \in Int
    BY <1>1, <2>1 DEF Partial
  <2>3. lo <= s[k + 1] /\ s[k + 1] <= hi /\ lo * k <= P[k] /\ P[k] <= hi * k
    BY <1>3, <2>1
  <2>4. lo * (k + 1) = lo * k + lo /\ hi * (k + 1) = hi * k + hi /\ lo * k \in Int /\ hi * k \in Int
    OBVIOUS
  <2> QED
    BY <2>2, <2>3, <2>4
<1>4. Nat \subseteq A
  <2> HIDE DEF A
  <2> QED BY <1>2, <1>3, NaturalsFrom
<1>5. Len(s) \in A
  BY <1>4
<1> QED
  BY <1>1, <1>5, SumIsPartial

\* Sequences that get longer.
Lengthened(S, s, x, n) ==
    /\ SubSeq(s, n + 1, Len(s)) \in Seq(S)
    /\ Len(SubSeq(s, n + 1, Len(s))) = Len(s) - n
    /\ SubSeq(Append(s, x), n + 1, Len(Append(s, x))) = Append(SubSeq(s, n + 1, Len(s)), x)

LEMMA SinceMore ==
  ASSUME NEW S, NEW s \in Seq(S), NEW x \in S, NEW n \in 0 .. Len(s)
  PROVE  Lengthened(S, s, x, n)
<1> DEFINE u == SubSeq(s, n + 1, Len(s))
           r == Append(s, x)
           v == SubSeq(r, n + 1, Len(r))
<1>1. Len(s) \in Nat /\ r \in Seq(S) /\ Len(r) = Len(s) + 1 /\ r[Len(s) + 1] = x
      /\ \A k \in 1 .. Len(s) : r[k] = s[k]
  OBVIOUS
<1>2. u \in Seq(S) /\ Len(u) = Len(s) - n /\ \A k \in 1 .. Len(s) - n : u[k] = s[k + n]
  BY <1>1
<1> HIDE DEF r
<1>3. v \in Seq(S) /\ Len(v) = Len(s) + 1 - n /\ \A k \in 1 .. Len(s) + 1 - n : v[k] = r[k + n]
  BY <1>1
<1> DEFINE w == Append(u, x)
<1> HIDE DEF u, v
<1>4. w \in Seq(S) /\ Len(w) = Len(s) + 1 - n /\ w[Len(s) + 1 - n] = x
      /\ \A k \in 1 .. Len(s) - n : w[k] = s[k + n]
  <2>1. w \in Seq(S) /\ Len(w) = Len(u) + 1 /\ w[Len(u) + 1] = x /\ \A k \in 1 .. Len(u) : w[k] = u[k]
    BY <1>2
  <2> HIDE DEF w
  <2> QED
    BY <1>1, <1>2, <2>1
<1> HIDE DEF w
<1>5. ASSUME NEW k \in 1 .. Len(s) + 1 - n PROVE v[k] = w[k]
  <2>1. CASE k = Len(s) + 1 - n
    <3>1. k + n = Len(s) + 1
      BY <1>1, <2>1
    <3>2. v[k] = r[k + n] /\ w[k] = x
      BY <1>3, <1>4, <2>1
    <3> QED
      BY <1>1, <3>1, <3>2
  <2>2. CASE k # Len(s) + 1 - n
    <3>1. k \in 1 .. Len(s) - n /\ k + n \in 1 .. Len(s)
      BY <1>1, <2>2
    <3>2. v[k] = r[k + n]
      BY <1>3
    <3>3. r[k + n] = s[k + n] /\ w[k] = s[k + n]
      BY <1>1, <1>4, <3>1
    <3> QED
      BY <3>2, <3>3
  <2> QED
    BY <2>1, <2>2
<1>6. v = w
  <2>1. Len(v) = Len(w)
    BY <1>3, <1>4
  <2>2. \A k \in 1 .. Len(v) : v[k] = w[k]
    BY <1>3, <1>5
  <2> QED
    BY <1>3, <1>4, <2>1, <2>2
<1>7. u \in Seq(S) /\ Len(u) = Len(s) - n /\ v = Append(u, x)
  BY <1>2, <1>6 DEF w
<1> QED
  BY <1>7, Zenon DEF Lengthened, u, v, r

LEMMA SinceLess ==
  ASSUME NEW S, NEW s \in Seq(S), NEW n \in 0 .. Len(s) - 1
  PROVE  LET v == SubSeq(s, n + 1, Len(s))
         IN  v # <<>> /\ Head(v) = s[n + 1] /\ Tail(v) = SubSeq(s, n + 2, Len(s))
<1> DEFINE L == Len(s)
           v == SubSeq(s, n + 1, L)
           a == Tail(v)
           b == SubSeq(s, n + 2, L)
<1>1. L \in Nat /\ n \in Nat /\ n < L
  OBVIOUS
<1>2. v \in Seq(S) /\ Len(v) = L - n /\ \A i \in 1 .. L - n : v[i] = s[i + n]
  BY <1>1
<1> HIDE DEF L
<1>3. b \in Seq(S) /\ Len(b) = L - n - 1 /\ \A i \in 1 .. L - n - 1 : b[i] = s[i + (n + 1)]
  <2>1. L = Len(s) /\ \A i \in 1 .. L : s[i] \in S
    BY DEF L
  <2> DEFINE m == n + 2
  <2>2. m \in Nat /\ m >= 1 /\ m - 1 = n + 1
    BY <1>1
  <2>3. L + 1 - m = L - n - 1 /\ \A i \in 1 .. L - n - 1 : i + m - 1 = i + (n + 1) /\ i + m - 1 \in 1 .. L
    BY <1>1
  <2>4. SubSeq(s, m, L) \in Seq(S)
    <3> HIDE DEF m
    <3> QED BY <1>1, <2>1, <2>2
  <2>5. Len(SubSeq(s, m, L)) = IF m <= L THEN L - m + 1 ELSE 0
    <3> HIDE DEF m
    <3> QED BY <1>1, <2>1, <2>2
  <2>6. \A i \in 1 .. L - m + 1 : SubSeq(s, m, L)[i] = s[i + m - 1]
    <3> HIDE DEF m
    <3> QED BY <1>1, <2>1, <2>2
  <2>7. Len(b) = L - n - 1
    BY <1>1, <2>5
  <2> QED
    BY <1>1, <2>3, <2>4, <2>6, <2>7
<1> HIDE DEF v, b
<1>4. v # <<>> /\ Head(v) = v[1] /\ v[1] = s[n + 1]
  <2>1. 1 \in 1 .. L - n /\ 1 + n = n + 1
    BY <1>1
  <2> QED
    BY <1>1, <1>2, <2>1
<1>5. a \in Seq(S) /\ Len(a) = L - n - 1 /\ \A i \in 1 .. L - n - 1 : a[i] = v[i + 1]
  BY <1>1, <1>2, <1>4
<1> HIDE DEF a
<1>6. ASSUME NEW i \in 1 .. L - n - 1 PROVE a[i] = b[i]
  <2>1. i + 1 \in 1 .. L - n /\ (i + 1) + n = i + (n + 1)
    BY <1>1
  <2> QED
    BY <1>2, <1>3, <1>5, <2>1
<1>7. a = b
  <2>1. Len(a) = Len(b) /\ \A i \in 1 .. Len(a) : a[i] = b[i]
    BY <1>3, <1>5, <1>6
  <2> HIDE DEF L
  <2> QED
    BY <1>3, <1>5, <2>1
<1> QED
  BY <1>4, <1>7 DEF a, b, v, L

LEMMA SetOfMore ==
  ASSUME NEW S, NEW s \in Seq(S), NEW x \in S
  PROVE  ToSet(Append(s, x)) = ToSet(s) \cup {x} /\ ToSet(s) \subseteq S
<1> DEFINE r == Append(s, x)
<1>1. DOMAIN s = 1 .. Len(s) /\ Len(s) \in Nat /\ DOMAIN r = 1 .. Len(s) + 1
      /\ r[Len(s) + 1] = x /\ \A k \in 1 .. Len(s) : r[k] = s[k] /\ s[k] \in S
  OBVIOUS
<1> HIDE DEF r
<1>2. ASSUME NEW y \in ToSet(r) PROVE y \in ToSet(s) \cup {x}
  <2>1. PICK k \in 1 .. Len(s) + 1 : y = r[k]
    BY <1>1 DEF ToSet
  <2> QED
    BY <1>1, <2>1 DEF ToSet
<1>3. ASSUME NEW y \in ToSet(s) \cup {x} PROVE y \in ToSet(r)
  <2>1. CASE y = x
    <3>1. Len(s) + 1 \in 1 .. Len(s) + 1
      BY <1>1
    <3> QED
      BY <1>1, <2>1, <3>1 DEF ToSet
  <2>2. CASE y \in ToSet(s)
    <3>1. PICK k \in 1 .. Len(s) : y = s[k]
      BY <1>1, <2>2 DEF ToSet
    <3>2. k \in 1 .. Len(s) + 1 /\ r[k] = s[k]
      BY <1>1
    <3> QED
      BY <1>1, <3>1, <3>2 DEF ToSet
  <2> QED
    BY <2>1, <2>2
<1>4. ToSet(s) \subseteq S
  BY <1>1 DEF ToSet
<1> QED
  BY <1>2, <1>3, <1>4 DEF r

\* The least and the greatest of a set of numbers.
Lowest(m, N) == m \in N /\ \A y \in N : m <= y
Highest(m, N) == m \in N /\ \A y \in N : m >= y

LEMMA LowestIsMin ==
  ASSUME NEW N \in SUBSET Int, NEW m, Lowest(m, N)
  PROVE  Min(N) = m
<1>1. m \in N /\ m \in Int /\ \A y \in N : m <= y
  BY DEF Lowest
<1>2. \E c \in N : \A y \in N : c =< y
  BY <1>1
<1> DEFINE c == CHOOSE z \in N : \A y \in N : z =< y
<1>3. c \in N /\ \A y \in N : c =< y
  BY <1>2
<1>4. Min(N) = c
  BY DEF Min
<1> HIDE DEF c
<1> QED
  BY <1>1, <1>3, <1>4

LEMMA HighestIsMax ==
  ASSUME NEW N \in SUBSET Int, NEW m, Highest(m, N)
  PROVE  Max(N) = m
<1>1. m \in N /\ m \in Int /\ \A y \in N : m >= y
  BY DEF Highest
<1>2. \E c \in N : \A y \in N : c >= y
  BY <1>1
<1> DEFINE c == CHOOSE z \in N : \A y \in N : z >= y
<1>3. c \in N /\ \A y \in N : c >= y
  BY <1>2
<1>4. Max(N) = c
  BY DEF Max
<1> HIDE DEF c
<1> QED
  BY <1>1, <1>3, <1>4

LEMMA LowestOfMore ==
  ASSUME NEW N \in SUBSET Int, NEW m, Lowest(m, N), NEW x \in Int
  PROVE  Lowest(IF x < m THEN x ELSE m, N \cup {x})
BY DEF Lowest

LEMMA HighestOfMore ==
  ASSUME NEW N \in SUBSET Int, NEW m, Highest(m, N), NEW x \in Int
  PROVE  Highest(IF x > m THEN x ELSE m, N \cup {x})
BY DEF Highest

LEMMA SomeExtremes ==
  ASSUME NEW s \in Seq(Int), s # <<>>
  PROVE  /\ ToSet(s) \in SUBSET Int
         /\ Lowest(Min(ToSet(s)), ToSet(s)) /\ Highest(Max(ToSet(s)), ToSet(s))
<1> DEFINE T(k) == {s[i] : i \in 1 .. k}
           Known(k) == (\E m : Lowest(m, T(k))) /\ (\E m : Highest(m, T(k)))
           A == {k \in Nat : 0 < k /\ k <= Len(s) => Known(k)}
<1>1. Len(s) \in Nat /\ Len(s) > 0 /\ \A k \in 1 .. Len(s) : s[k] \in Int
  OBVIOUS
<1>2. Known(1)
  <2>1. T(1) = {s[1]} /\ s[1] \in Int
    BY <1>1
  <2>2. Lowest(s[1], T(1)) /\ Highest(s[1], T(1))
    BY <2>1 DEF Lowest, Highest
  <2> HIDE DEF T
  <2> QED
    BY <2>2
<1>3. 0 \in A /\ \A k \in Nat : k \in A => k + 1 \in A
  <2> SUFFICES ASSUME NEW k \in Nat, k + 1 <= Len(s), k > 0, Known(k) PROVE Known(k + 1)
    <3> HIDE DEF Known
    <3> QED BY <1>1, <1>2
  <2>1. T(k + 1) = T(k) \cup {s[k + 1]} /\ T(k) \in SUBSET Int /\ s[k + 1] \in Int
    BY <1>1
  <2>2. PICK m : Lowest(m, T(k))
    OBVIOUS
  <2>3. PICK n : Highest(n, T(k))
    OBVIOUS
  <2> HIDE DEF T
  <2>4. Lowest(IF s[k + 1] < m THEN s[k + 1] ELSE m, T(k) \cup {s[k + 1]})
    BY <2>1, <2>2, LowestOfMore
  <2>5. Highest(IF s[k + 1] > n THEN s[k + 1] ELSE n, T(k) \cup {s[k + 1]})
    BY <2>1, <2>3, HighestOfMore
  <2> QED
    BY <2>1, <2>4, <2>5
<1>4. Nat \subseteq A
  <2> HIDE DEF A
  <2> QED BY <1>3, NaturalsFrom
<1>5. Known(Len(s)) /\ T(Len(s)) = ToSet(s)
  <2>1. Len(s) \in A /\ Len(s) <= Len(s)
    <3> HIDE DEF A
    <3> QED BY <1>1, <1>4
  <2>2. T(Len(s)) = ToSet(s)
    BY <1>1 DEF ToSet
  <2> HIDE DEF Known, T
  <2> QED
    BY <1>1, <2>1, <2>2
<1>6. ToSet(s) \in SUBSET Int
  BY <1>1 DEF ToSet
<1> HIDE DEF T
<1> QED
  BY <1>5, <1>6, LowestIsMin, HighestIsMax

-----------------------------------------------------------------------------

Magnitudes(N) == {abs(x) : x \in N}

CollectedType ==
    [samples : Nat, last_delta : Int, total : Int, min : Int, max : Int, umin : Int, umax : Int]

\* What the collector has of the samples s since its reset.
Collects(c, s) ==
    /\ c.samples = Len(s) /\ c.total = SumOf(s)
    /\ s # <<>> => c.last_delta = Last(s)
    /\ Lowest(c.min, ToSet(s) \cup {Limit}) /\ Highest(c.max, ToSet(s) \cup {least})
    /\ Lowest(c.umin, Magnitudes(ToSet(s)) \cup {Limit}) /\ Highest(c.umax, Magnitudes(ToSet(s)) \cup {0})

LEMMA SamplesNumbers ==
  /\ \A x \in Sample : x \in Int /\ abs(x) \in Nat /\ -Limit <= x /\ x <= Limit /\ abs(x) <= Limit
  /\ Sample \in SUBSET Int /\ \A s \in Seq(Sample) : s \in Seq(Int)
  /\ Limit \in Nat /\ least \in Int
<1>1. Limit \in Nat /\ \A x \in Sample : x \in Int /\ -Limit <= x /\ x <= Limit
  BY SampleAssumption, LimitAssumption
<1>2. \A x \in Sample : abs(x) \in Nat /\ abs(x) <= Limit
  BY <1>1 DEF abs
<1>3. \A s \in Seq(Sample) : s \in Seq(Int)
  BY <1>1
<1> QED
  BY <1>1, <1>2, <1>3 DEF least

LEMMA CollectsNone == Collects(Fresh, <<>>) /\ Fresh \in CollectedType
<1>1. Limit \in Nat /\ least \in Int
  BY SamplesNumbers
<1>2. ToSet(<<>>) = {} /\ Magnitudes({}) = {} /\ Len(<<>>) = 0
  BY DEF ToSet, Magnitudes
<1>3. Lowest(Limit, {Limit}) /\ Highest(least, {least}) /\ Highest(0, {0})
  BY <1>1 DEF Lowest, Highest
<1>4. {} \cup {Limit} = {Limit} /\ {} \cup {least} = {least} /\ {} \cup {0} = {0}
  OBVIOUS
<1>5. /\ Fresh.samples = 0 /\ Fresh.total = 0 /\ Fresh.min = Limit /\ Fresh.max = least
      /\ Fresh.umin = Limit /\ Fresh.umax = 0
  BY DEF Fresh
<1>6. Fresh \in CollectedType
  BY <1>1 DEF Fresh, CollectedType
<1> HIDE DEF Fresh
<1>7. Collects(Fresh, <<>>)
  BY <1>2, <1>3, <1>4, <1>5, SumOfNone DEF Collects
<1> QED
  BY <1>6, <1>7

LEMMA CollectsMore ==
  ASSUME collected \in CollectedType, NEW s \in Seq(Sample), Collects(collected, s), NEW x \in Sample
  PROVE  Collects(collect(x), Append(s, x)) /\ collect(x) \in CollectedType
<1> DEFINE c == collected
           d == collect(x)
           X == ToSet(s)
           U == Magnitudes(X)
           r == Append(s, x)
<1>1. /\ x \in Int /\ abs(x) \in Int /\ Limit \in Int /\ least \in Int /\ s \in Seq(Int)
      /\ X \subseteq Sample /\ X \in SUBSET Int /\ U \in SUBSET Int
  BY SamplesNumbers, SetOfMore DEF Magnitudes
<1>2. ToSet(r) = X \cup {x} /\ Magnitudes(X \cup {x}) = U \cup {abs(x)}
  <2>1. ToSet(r) = X \cup {x}
    BY SetOfMore
  <2>2. Magnitudes(X \cup {x}) = U \cup {abs(x)}
    BY DEF Magnitudes
  <2> QED
    BY <2>1, <2>2
<1>3. /\ d \in CollectedType
      /\ d.samples = c.samples + 1 /\ d.last_delta = x /\ d.total = c.total + x
      /\ d.min = (IF x < c.min THEN x ELSE c.min) /\ d.max = (IF x > c.max THEN x ELSE c.max)
      /\ d.umin = (IF abs(x) < c.umin THEN abs(x) ELSE c.umin)
      /\ d.umax = (IF abs(x) > c.umax THEN abs(x) ELSE c.umax)
  <2> DEFINE a == abs(x)
  <2>1. c = [samples |-> c.samples, last_delta |-> c.last_delta, total |-> c.total,
             min |-> c.min, max |-> c.max, umin |-> c.umin, umax |-> c.umax]
        /\ c.samples \in Nat /\ c.total \in Int /\ c.min \in Int /\ c.max \in Int
        /\ c.umin \in Int /\ c.umax \in Int
    BY DEF CollectedType
  <2>2. d = [c EXCEPT !.samples = c.samples + 1, !.last_delta = x, !.total = c.total + x,
                      !.min = IF x < c.min THEN x ELSE c.min, !.max = IF x > c.max THEN x ELSE c.max,
                      !.umin = IF a < c.umin THEN a ELSE c.umin,
                      !.umax = IF a > c.umax THEN a ELSE c.umax]
    BY <2>1 DEF collect
  <2>3. a \in Int
    BY <1>1
  <2> HIDE DEF a, d
  <2>4. d = [samples |-> c.samples + 1, last_delta |-> x, total |-> c.total + x,
             min |-> IF x < c.min THEN x ELSE c.min, max |-> IF x > c.max THEN x ELSE c.max,
             umin |-> IF a < c.umin THEN a ELSE c.umin,
             umax |-> IF a > c.umax THEN a ELSE c.umax]
    BY <2>1, <2>2
  <2> QED
    BY <1>1, <2>1, <2>3, <2>4 DEF CollectedType, a
<1>4. r # <<>> /\ Len(r) = Len(s) + 1 /\ Last(r) = x /\ SumOf(r) = SumOf(s) + x
  <2>1. SumOf(r) = SumOf(s) + x
    BY <1>1, SumOfMore
  <2>2. r # <<>> /\ Len(r) = Len(s) + 1 /\ r[Len(r)] = x
    OBVIOUS
  <2> QED
    BY <2>1, <2>2 DEF Last
<1> HIDE DEF d, X, U, r
<1>5. Lowest(d.min, (X \cup {Limit}) \cup {x}) /\ Highest(d.max, (X \cup {least}) \cup {x})
  <2>1. Lowest(c.min, X \cup {Limit}) /\ Highest(c.max, X \cup {least})
    BY DEF Collects, X
  <2>2. X \cup {Limit} \in SUBSET Int /\ X \cup {least} \in SUBSET Int
    BY <1>1
  <2> QED
    BY <1>1, <1>3, <2>1, <2>2, LowestOfMore, HighestOfMore
<1>6. Lowest(d.umin, (U \cup {Limit}) \cup {abs(x)}) /\ Highest(d.umax, (U \cup {0}) \cup {abs(x)})
  <2> DEFINE none == 0
  <2>1. Lowest(c.umin, U \cup {Limit}) /\ Highest(c.umax, U \cup {none})
    BY DEF Collects, X, U
  <2>2. U \cup {Limit} \in SUBSET Int /\ U \cup {none} \in SUBSET Int
    BY <1>1
  <2>3. Highest(d.umax, (U \cup {none}) \cup {abs(x)})
    <3> HIDE DEF none
    <3> QED BY <1>1, <1>3, <2>1, <2>2, HighestOfMore
  <2>4. Lowest(d.umin, (U \cup {Limit}) \cup {abs(x)})
    BY <1>1, <1>3, <2>1, <2>2, LowestOfMore
  <2> QED
    BY <2>3, <2>4
<1>7. /\ (X \cup {Limit}) \cup {x} = ToSet(r) \cup {Limit} /\ (X \cup {least}) \cup {x} = ToSet(r) \cup {least}
      /\ (U \cup {Limit}) \cup {abs(x)} = Magnitudes(ToSet(r)) \cup {Limit}
      /\ (U \cup {0}) \cup {abs(x)} = Magnitudes(ToSet(r)) \cup {0}
  <2>1. ToSet(r) = X \cup {x} /\ Magnitudes(ToSet(r)) = U \cup {abs(x)}
    BY <1>2
  <2> QED
    BY <2>1
<1>8. d.samples = Len(r) /\ d.total = SumOf(r)
  BY <1>3, <1>4 DEF Collects
<1> QED
  BY <1>3, <1>4, <1>5, <1>6, <1>7, <1>8 DEF Collects, d, r

LEMMA CollectorTold ==
  ASSUME NEW s \in Seq(Sample), s = Since(resets.collector), Collects(collected, s)
  PROVE  CollectorTells
<1> DEFINE X == ToSet(s)
           U == Magnitudes(X)
<1>1. X \in SUBSET Sample /\ X \in SUBSET Int /\ Limit \in Int /\ least \in Int
  <2>1. X \subseteq Sample
    BY DEF ToSet
  <2> HIDE DEF X
  <2>2. Sample \subseteq Int /\ Limit \in Int /\ least \in Int
    BY SamplesNumbers
  <2> QED
    BY <2>1, <2>2
<1>2. U = {abs(x) : x \in X} /\ U \in SUBSET Nat
  BY <1>1, SamplesNumbers DEF Magnitudes
<1>3. ASSUME s # <<>>
      PROVE  /\ collected.min = Min(X) /\ collected.umin = Min(U) /\ collected.umax = Max(U)
             /\ integral \/ Max(X) > 0 => collected.max = Max(X)
  <2>0. X # {} /\ U # {}
    <3>1. 1 \in DOMAIN s
      BY <1>3
    <3>2. X # {}
      BY <3>1 DEF ToSet
    <3> QED
      BY <1>2, <3>2
  <2> HIDE DEF X, U
  <2>1. /\ Lowest(collected.min, X \cup {Limit}) /\ Highest(collected.max, X \cup {least})
        /\ Lowest(collected.umin, U \cup {Limit}) /\ Highest(collected.umax, U \cup {0})
    BY DEF Collects, X, U
  <2>2. Lowest(collected.min, X)
    <3>1. \A x \in X : x <= Limit
      BY <1>1, SamplesNumbers
    <3>2. PICK x \in X : x \in Int
      BY <1>1, <2>0
    <3>3. collected.min \in X \cup {Limit} /\ \A y \in X \cup {Limit} : collected.min <= y
      BY <2>1 DEF Lowest
    <3>4. collected.min \in X
      <4>1. x <= Limit /\ collected.min <= x
        BY <3>1, <3>3
      <4>2. CASE collected.min = Limit
        <5>1. x = Limit
          BY <1>1, <3>2, <4>1, <4>2
        <5> QED
          BY <4>2, <5>1
      <4> QED
        BY <3>3, <4>2
    <3> QED
      BY <3>3, <3>4 DEF Lowest
  <2>3. Lowest(collected.umin, U)
    <3>1. \A u \in U : u <= Limit
      BY <1>1, <1>2, SamplesNumbers
    <3>2. PICK u \in U : u \in Int
      <4>1. \A u \in U : u \in Int
        BY <1>2
      <4> QED
        BY <2>0, <4>1
    <3>3. collected.umin \in U \cup {Limit} /\ \A y \in U \cup {Limit} : collected.umin <= y
      BY <2>1 DEF Lowest
    <3>4. collected.umin \in U
      <4>1. u <= Limit /\ collected.umin <= u
        BY <3>1, <3>3
      <4>2. CASE collected.umin = Limit
        <5>1. u = Limit
          BY <1>1, <3>2, <4>1, <4>2
        <5> QED
          BY <4>2, <5>1
      <4> QED
        BY <3>3, <4>2
    <3> QED
      BY <3>3, <3>4 DEF Lowest
  <2>4. Highest(collected.umax, U)
    <3>1. PICK u \in U : u \in Nat
      BY <1>2, <2>0
    <3>2. collected.umax \in U \cup {0} /\ \A y \in U \cup {0} : collected.umax >= y
      BY <2>1 DEF Highest
    <3>3. collected.umax \in U
      <4>1. collected.umax >= u
        BY <3>2
      <4>2. CASE collected.umax = 0
        <5>1. u = 0
          BY <3>1, <4>1, <4>2
        <5> QED
          BY <4>2, <5>1
      <4> QED
        BY <3>2, <4>2
    <3> QED
      BY <3>2, <3>3 DEF Highest
  <2>5. ASSUME integral \/ Max(X) > 0 PROVE collected.max = Max(X)
    <3>1. Highest(Max(X), X)
      <4>1. s \in Seq(Int)
        BY SamplesNumbers
      <4> QED
        BY <1>3, <4>1, SomeExtremes DEF X
    <3>2. \E x \in X : x >= least
      <4>1. CASE integral
        <5>1. PICK x \in X : x \in Sample
          BY <1>1, <2>0
        <5>2. x \in Int /\ -Limit <= x /\ least = -Limit /\ Limit \in Int
          BY <1>1, <4>1, <5>1, SamplesNumbers DEF least
        <5> QED
          BY <5>2
      <4>2. CASE Max(X) > 0
        <5>1. Max(X) \in X /\ Max(X) \in Int
          BY <1>1, <3>1 DEF Highest
        <5> DEFINE m == Max(X)
        <5>2. m \in X /\ m \in Int /\ m >= 1
          BY <4>2, <5>1
        <5> HIDE DEF m
        <5>3. least = 1 \/ least = -Limit
          BY DEF least
        <5>4. -Limit <= 0
          BY SamplesNumbers
        <5> QED
          BY <1>1, <5>2, <5>3, <5>4
      <4> QED
        BY <2>5, <4>1, <4>2
    <3>3. Highest(collected.max, X)
      <4>1. collected.max \in X \cup {least} /\ \A y \in X \cup {least} : collected.max >= y
        BY <2>1 DEF Highest
      <4>2. PICK x \in X : x >= least
        BY <3>2
      <4>3. collected.max \in X
        <5>1. CASE collected.max = least
          <6>1. x = least
            BY <1>1, <4>1, <4>2, <5>1
          <6> QED
            BY <5>1, <6>1
        <5> QED
          BY <4>1, <5>1
      <4> QED
        BY <4>1, <4>3 DEF Highest
    <3> QED
      BY <1>1, <3>3, HighestIsMax
  <2>6. U \in SUBSET Int
    BY <1>2
  <2> QED
    BY <1>1, <2>2, <2>3, <2>4, <2>5, <2>6, LowestIsMin, HighestIsMax
<1> HIDE DEF X, U
<1>4. collected.samples = Len(s) /\ collected.total = SumOf(s) /\ (s # <<>> => collected.last_delta = Last(s))
  BY DEF Collects
<1> QED
  BY <1>2, <1>3, <1>4 DEF CollectorTells, X

-----------------------------------------------------------------------------
(* The window.  The k-th latest sample is in the k-th slot before the tail.  *)

slot(k) == IF tail >= k THEN tail - k ELSE tail + MAX_SAMPLES - k

Latest(s, k) == IF k <= Len(s) THEN s[Len(s) + 1 - k] ELSE 0

Rolled == \A k \in 1 .. MAX_SAMPLES : samples[slot(k)] = Latest(seen, k)

RolledType ==
    /\ samples \in [0 .. (MAX_SAMPLES - 1) -> Int] /\ sum \in Int /\ tail \in 0 .. (MAX_SAMPLES - 1)
    /\ seen \in Seq(Sample)

LEMMA RolledMore ==
  ASSUME RolledType, Rolled, NEW x \in Sample, roll(x), seen' = Append(seen, x)
  PROVE  RolledType' /\ Rolled' /\ sum' = sum + x - Latest(seen, MAX_SAMPLES)
<1> DEFINE M == MAX_SAMPLES
           L == Len(seen)
<1>1. M \in Nat \ {0} /\ x \in Int /\ tail \in 0 .. M - 1 /\ L \in Nat
  BY SizeAssumption, SamplesNumbers DEF RolledType
<1>2. tail' = (IF tail + 1 = M THEN 0 ELSE tail + 1)
  <2>1. CASE tail + 1 = M
    BY <1>1, <2>1 DEF roll
  <2>2. CASE tail + 1 < M
    BY <1>1, <2>2 DEF roll
  <2> QED
    BY <1>1, <2>1, <2>2
<1>3. samples' = [samples EXCEPT ![tail] = x] /\ samples[tail] \in Int /\ sum' = sum + x - samples[tail]
  BY <1>1 DEF roll, RolledType
<1>4. slot(M) = tail /\ M \in 1 .. M
  BY <1>1 DEF slot
<1>5. samples[tail] = Latest(seen, M)
  BY <1>4 DEF Rolled
<1>6. RolledType'
  <2>1. seen' \in Seq(Sample)
    BY DEF RolledType
  <2>2. tail' \in 0 .. M - 1
    BY <1>1, <1>2
  <2>3. samples' \in [0 .. (M - 1) -> Int] /\ sum' \in Int
    BY <1>1, <1>3 DEF RolledType
  <2> QED
    BY <2>1, <2>2, <2>3 DEF RolledType
<1>7. ASSUME NEW k \in 1 .. M PROVE samples'[slot(k)'] = Latest(seen', k)
  <2> DEFINE r == Append(seen, x)
  <2>1. Len(r) = L + 1 /\ r[L + 1] = x /\ \A i \in 1 .. L : r[i] = seen[i]
    BY DEF RolledType
  <2>2. slot(k)' = IF tail' >= k THEN tail' - k ELSE tail' + M - k
    BY DEF slot
  <2> HIDE DEF r
  <2>3. CASE k = 1
    <3>1. slot(k)' = tail
      BY <1>1, <1>2, <2>2, <2>3
    <3>2. samples'[tail] = x
      BY <1>1, <1>3 DEF RolledType
    <3>3. Latest(r, 1) = x
      BY <1>1, <2>1 DEF Latest
    <3> QED
      BY <2>3, <3>1, <3>2, <3>3 DEF r
  <2>4. CASE k # 1
    <3>1. k - 1 \in 1 .. M /\ k - 1 < M
      BY <1>1, <2>4
    <3>2. slot(k)' = slot(k - 1) /\ slot(k - 1) # tail /\ slot(k - 1) \in 0 .. M - 1
      <4>1. slot(k - 1) = IF tail >= k - 1 THEN tail - (k - 1) ELSE tail + M - (k - 1)
        BY DEF slot
      <4> QED
        BY <1>1, <1>2, <2>2, <3>1, <4>1
    <3>3. samples'[slot(k - 1)] = Latest(seen, k - 1)
      <4>1. samples[slot(k - 1)] = Latest(seen, k - 1)
        BY <3>1 DEF Rolled
      <4> DEFINE i == slot(k - 1)
      <4>2. i \in 0 .. M - 1 /\ i # tail /\ samples[i] = Latest(seen, k - 1)
        BY <3>2, <4>1
      <4> HIDE DEF i
      <4>3. samples'[i] = samples[i]
        BY <1>3, <4>2 DEF RolledType
      <4> QED
        BY <4>2, <4>3 DEF i
    <3>4. Latest(r, k) = Latest(seen, k - 1)
      <4>1. CASE k <= L + 1
        <5>1. L + 1 + 1 - k = L + 1 - (k - 1) /\ L + 1 + 1 - k \in 1 .. L /\ k - 1 <= L
          BY <1>1, <3>1, <4>1
        <5> QED
          BY <2>1, <4>1, <5>1 DEF Latest
      <4>2. CASE k > L + 1
        BY <1>1, <2>1, <4>2 DEF Latest
      <4> QED
        BY <1>1, <4>1, <4>2
    <3> QED
      BY <3>2, <3>3, <3>4 DEF r
  <2> QED
    BY <2>3, <2>4
<1> QED
  BY <1>3, <1>5, <1>6, <1>7 DEF Rolled

\* The window of a sequence moves by one, or grows, with every sample.
WindowOf(s) == SubSeq(s, IF Len(s) > MAX_SAMPLES THEN Len(s) - MAX_SAMPLES + 1 ELSE 1, Len(s))

LEMMA WindowMore ==
  ASSUME NEW s \in Seq(Int), NEW x \in Int
  PROVE  /\ WindowOf(s) \in Seq(Int)
         /\ SumOf(WindowOf(Append(s, x))) = SumOf(WindowOf(s)) + x - Latest(s, MAX_SAMPLES)
<1> DEFINE M == MAX_SAMPLES
           L == Len(s)
           r == Append(s, x)
<1>1. M \in Nat \ {0} /\ L \in Nat /\ Len(r) = L + 1 /\ r \in Seq(Int) /\ r[L + 1] = x
      /\ \A i \in 1 .. L : r[i] = s[i] /\ s[i] \in Int
  BY SizeAssumption
<1> DEFINE n == IF L > M THEN L - M ELSE 0
           u == SubSeq(s, n + 1, L)
           v == SubSeq(r, n + 1, Len(r))
<1>2. n \in 0 .. L
  BY <1>1
<1>3. u \in Seq(Int) /\ v = Append(u, x)
  <2> HIDE DEF n
  <2>1. Lengthened(Int, s, x, n)
    BY <1>2, SinceMore
  <2> QED
    BY <2>1, Zenon DEF Lengthened
<1>4. WindowOf(s) = u
  BY <1>1 DEF WindowOf
<1>5. SumOf(v) = SumOf(u) + x /\ SumOf(u) \in Int /\ v \in Seq(Int)
  <2> HIDE DEF u, v
  <2>1. Append(u, x) \in Seq(Int)
    BY <1>3
  <2> QED
    BY <1>3, <2>1, SumOfMore
<1>6. CASE L < M
  <2>1. n = 0
    BY <1>1, <1>6
  <2>2. Latest(s, M) = 0
    BY <1>1, <1>6 DEF Latest
  <2> HIDE DEF r
  <2>3. WindowOf(r) = v
    <3>1. ~(Len(r) > M)
      BY <1>1, <1>6
    <3>2. WindowOf(r) = SubSeq(r, 1, Len(r)) /\ n + 1 = 1
      BY <2>1, <3>1 DEF WindowOf
    <3> HIDE DEF n
    <3> QED
      BY <3>2
  <2> HIDE DEF u, v, n
  <2>4. SumOf(WindowOf(r)) = SumOf(WindowOf(s)) + x - Latest(s, M)
    BY <1>4, <1>5, <2>2, <2>3
  <2> QED
    BY <1>3, <1>4, <2>4 DEF r
<1>7. CASE L >= M
  <2>1. n = L - M /\ n + 1 \in 1 .. L /\ Latest(s, M) = s[n + 1] /\ s[n + 1] \in Int
    <3>1. n = L - M /\ n + 1 \in 1 .. L /\ L + 1 - M = n + 1
      BY <1>1, <1>7
    <3> HIDE DEF n
    <3>2. Latest(s, M) = s[L + 1 - M]
      BY <1>1, <1>7 DEF Latest
    <3> QED
      BY <1>1, <3>1, <3>2
  <2>6. n \in Nat /\ n < L /\ n \in 1 .. L \cup {0}
    BY <1>1, <1>7
  <2> HIDE DEF r, n
  <2>2. WindowOf(r) = SubSeq(r, n + 2, Len(r))
    <3>1. Len(r) > M /\ Len(r) - M + 1 = n + 2
      BY <1>1, <1>7, <2>1
    <3> QED
      BY <1>1, <3>1 DEF WindowOf
  <2>3. v # <<>> /\ Head(v) = s[n + 1] /\ Tail(v) = SubSeq(r, n + 2, Len(r))
    <3>1. n \in 0 .. Len(r) - 1
      BY <1>1, <2>6
    <3>2. r[n + 1] = s[n + 1]
      BY <1>1, <2>1
    <3> QED
      BY <1>1, <3>1, <3>2, SinceLess
  <2> HIDE DEF u, v
  <2>4. SumOf(Tail(v)) = SumOf(v) - Head(v)
    BY <1>5, <2>3, SumOfTail
  <2>5. SumOf(WindowOf(r)) = SumOf(WindowOf(s)) + x - Latest(s, M)
    <3> DEFINE e == s[n + 1]
               a == SumOf(u)
    <3>1. SumOf(WindowOf(r)) = SumOf(v) - e /\ SumOf(WindowOf(s)) = a /\ Latest(s, M) = e
      BY <1>4, <2>1, <2>2, <2>3, <2>4
    <3>2. SumOf(v) = a + x /\ a \in Int /\ e \in Int
      BY <1>5, <2>1
    <3> HIDE DEF e, a
    <3> QED
      BY <3>1, <3>2
  <2> QED
    BY <1>3, <1>4, <2>5 DEF r
<1> QED
  BY <1>1, <1>6, <1>7

-----------------------------------------------------------------------------
(* The smoothed averages, scaled.  Halving is exact as long as a factor of 2 *)
(* is left for each sample that may still come.                              *)

\* No bound of the numbers N is passed by the scaled v.
Within(v, N) ==
    /\ \A b \in Int : (\A y \in N : b <= y) => b * Scale <= v
    /\ \A b \in Int : (\A y \in N : y <= b) => v <= b * Scale

Averages(sm, f, s) ==
    LET w == pow2[MaxSamples - Len(s)]
    IN  /\ \E q \in Int : f = 2 * (q * w)
        /\ Within(f, ToSet(s) \cup {initial})
        /\ s = <<>> => sm = {} /\ f = initial * Scale
        /\ s # <<>> => \E v \in Int : /\ sm = {v} /\ f = v + (initial - Head(s)) * w
                                      /\ Within(v, ToSet(s))

LEMMA ScaleFactors ==
  ASSUME NEW n \in Nat, n < MaxSamples
  PROVE  /\ pow2[MaxSamples - (n + 1)] \in Nat \ {0} /\ pow2[n] \in Nat \ {0}
         /\ pow2[MaxSamples - n] = 2 * pow2[MaxSamples - (n + 1)]
         /\ Scale = 2 * (pow2[n] * pow2[MaxSamples - (n + 1)])
<1> DEFINE m == MaxSamples - (n + 1)
           h == pow2[m]
           p == pow2[n]
<1>1. m \in Nat /\ m + 1 = MaxSamples - n /\ n + (m + 1) = MaxSamples
  BY SizeAssumption
<1> HIDE DEF m
<1>2. h \in Nat \ {0} /\ p \in Nat \ {0} /\ pow2[m + 1] = 2 * h
  BY <1>1, Pow2Defined
<1>3. pow2[n + (m + 1)] = p * (2 * h)
  <2> DEFINE j == m + 1
  <2>0. j \in Nat
    BY <1>1
  <2>1. pow2[n + (m + 1)] = pow2[n] * pow2[m + 1]
    <3> HIDE DEF j
    <3>1. pow2[n + j] = pow2[n] * pow2[j]
      BY <2>0, Pow2Sums
    <3> QED
      BY <3>1 DEF j
  <2> QED
    BY <1>2, <2>1
<1>4. Scale = p * (2 * h)
  BY <1>1, <1>3 DEF Scale
<1> HIDE DEF h, p
<1>5. p * (2 * h) = 2 * (p * h)
  BY <1>2
<1> QED
  BY <1>1, <1>2, <1>4, <1>5 DEF h, p, m

LEMMA ScaleIsPositive == Scale \in Nat \ {0}
BY SizeAssumption, Pow2Defined DEF Scale

LEMMA WithinMore ==
  ASSUME NEW N, NEW a \in Int, Within(2 * a, N), NEW x \in Int, NEW e \in Int, x * Scale = 2 * e
  PROVE  Within(a + e, N \cup {x})
<1> DEFINE S == Scale
<1>1. S \in Nat \ {0}
  BY ScaleIsPositive
<1>2. ASSUME NEW b \in Int, \A y \in N \cup {x} : b <= y PROVE b * S <= a + e
  <2>1. b * S <= 2 * a
    BY <1>2 DEF Within
  <2>2. b <= x /\ x * S = 2 * e
    BY <1>2
  <2> HIDE DEF S
  <2>3. b * S <= x * S
    BY ONLY <1>1, <2>2, x \in Int, b \in Int
  <2> DEFINE c == b * S
             d == x * S
  <2>4. c \in Int /\ c <= 2 * a /\ c <= d /\ d = 2 * e
    BY <1>1, <2>1, <2>2, <2>3
  <2> HIDE DEF c, d
  <2>5. c <= a + e
    BY <2>4
  <2> QED
    BY <2>5 DEF c
<1>3. ASSUME NEW b \in Int, \A y \in N \cup {x} : y <= b PROVE a + e <= b * S
  <2>1. 2 * a <= b * S
    BY <1>3 DEF Within
  <2>2. x <= b /\ x * S = 2 * e
    BY <1>3
  <2> HIDE DEF S
  <2>3. x * S <= b * S
    BY ONLY <1>1, <2>2, x \in Int, b \in Int
  <2> DEFINE c == b * S
             d == x * S
  <2>4. c \in Int /\ 2 * a <= c /\ d <= c /\ d = 2 * e
    BY <1>1, <2>1, <2>2, <2>3
  <2> HIDE DEF c, d
  <2>5. a + e <= c
    BY <2>4
  <2> QED
    BY <2>5 DEF c
<1> QED
  BY <1>2, <1>3 DEF Within

LEMMA WithinOne == ASSUME NEW x \in Int PROVE Within(x * Scale, {x})
<1> DEFINE S == Scale
<1>1. S \in Nat \ {0}
  BY ScaleIsPositive
<1> HIDE DEF S
<1>2. \A b \in Int : (b <= x => b * S <= x * S) /\ (x <= b => x * S <= b * S)
  BY <1>1
<1> QED
  BY <1>2 DEF Within, S

LEMMA Halved == \A a, b \in Int : (2 * a + 2 * b) \div 2 = a + b
OBVIOUS

LEMMA AveragesNone == Averages({}, initial * Scale, <<>>)
<1>1. PICK y \in Int : initial = 2 * y
  <2>1. initial \in Int /\ initial % 2 = 0
    BY SampleAssumption
  <2>2. initial = 2 * (initial \div 2) /\ initial \div 2 \in Int
    BY <2>1
  <2> QED
    BY <2>2
<1>2. initial * Scale = 2 * (y * Scale)
  <2>1. Scale \in Nat
    BY ScaleIsPositive
  <2> QED
    BY <1>1, <2>1
<1>3. Len(<<>>) = 0 /\ ToSet(<<>>) = {} /\ MaxSamples - 0 = MaxSamples /\ {} \cup {initial} = {initial}
  BY SizeAssumption DEF ToSet
<1>4. pow2[MaxSamples - Len(<<>>)] = Scale
  BY <1>3 DEF Scale
<1>5. Within(initial * Scale, {initial})
  <2>1. initial \in Int
    BY <1>1
  <2> QED
    BY <2>1, WithinOne
<1> HIDE DEF Within
<1> QED
  BY <1>2, <1>3, <1>4, <1>5 DEF Averages

LEMMA AveragesMore ==
  ASSUME NEW s \in Seq(Sample), Averages(smooth, fast, s), Len(s) < MaxSamples, NEW x \in Sample
  PROVE  Averages(primed(x), biased(x), Append(s, x))
<1> DEFINE n == Len(s)
           S == Scale
           w == pow2[MaxSamples - n]
           h == pow2[MaxSamples - (n + 1)]
           p == pow2[n]
           r == Append(s, x)
<1>1. n \in Nat /\ h \in Nat \ {0} /\ p \in Nat \ {0} /\ w = 2 * h /\ S = 2 * (p * h)
  BY ScaleFactors
<1>2. PICK y \in Int : x = 2 * y
  <2>1. x \in Int /\ x % 2 = 0
    BY SampleAssumption
  <2>2. x = 2 * (x \div 2) /\ x \div 2 \in Int
    BY <2>1
  <2> QED
    BY <2>2
<1>3. /\ Len(r) = n + 1 /\ r # <<>> /\ ToSet(r) = ToSet(s) \cup {x} /\ x \in Int /\ initial \in Int
      /\ Head(r) = (IF s = <<>> THEN x ELSE Head(s))
  <2>1. ToSet(r) = ToSet(s) \cup {x}
    BY SetOfMore
  <2>2. Len(r) = n + 1 /\ r # <<>> /\ Head(r) = r[1] /\ r[n + 1] = x /\ \A i \in 1 .. n : r[i] = s[i]
    OBVIOUS
  <2>3. s = <<>> => n + 1 = 1
    OBVIOUS
  <2>4. s # <<>> => 1 \in 1 .. n /\ Head(s) = s[1]
    OBVIOUS
  <2> HIDE DEF r
  <2> QED
    BY <2>1, <2>2, <2>3, <2>4, SampleAssumption
<1>4. PICK q \in Int : fast = 2 * (q * w)
  BY DEF Averages
<1> DEFINE a == q * w
           e == y * S
<1>5. a \in Int /\ e \in Int /\ fast = 2 * a /\ x * S = 2 * e
  <2> HIDE DEF w, S, h, p
  <2>1. w \in Int /\ S \in Int
    BY <1>1
  <2> QED
    BY <1>2, <1>4, <2>1
<1>6. \E j \in Int : a + e = 2 * (j * h)
  <2> DEFINE j == q + y * p
  <2>1. j \in Int
    BY <1>1
  <2>2. a = 2 * (q * h)
    <3> HIDE DEF w, h
    <3> QED BY <1>1
  <2>3. e = 2 * ((y * p) * h)
    <3>1. e = y * (2 * (p * h))
      BY <1>1
    <3> HIDE DEF h, p, e
    <3>2. y * (2 * (p * h)) = 2 * ((y * p) * h)
      BY <1>1
    <3> QED
      BY <3>1, <3>2
  <2> DEFINE t == y * p
  <2>4. (q + t) * h = q * h + t * h /\ q * h \in Int /\ t * h \in Int
    <3>1. t \in Int
      BY <1>1
    <3> HIDE DEF t, h
    <3> QED
      BY <1>1, <3>1
  <2>5. a + e = 2 * (j * h)
    <3>1. a = 2 * (q * h) /\ e = 2 * (t * h) /\ j = q + t
      BY <2>2, <2>3
    <3> HIDE DEF a, e, t, h, j
    <3> QED
      BY <2>4, <3>1
  <2> QED
    BY <2>1, <2>5
<1> HIDE DEF a, e, S, w, h, p, r
<1>7. biased(x) = a + e
  <2>1. biased(x) = (fast + x * S) \div 2
    BY DEF biased, S
  <2> QED
    BY <1>5, <2>1, Halved
<1>8. Within(a + e, ToSet(r) \cup {initial})
  <2>1. Within(2 * a, ToSet(s) \cup {initial})
    BY <1>5 DEF Averages
  <2>2. x * Scale = 2 * e
    BY <1>5 DEF S
  <2>3. Within(a + e, (ToSet(s) \cup {initial}) \cup {x})
    BY <1>3, <1>5, <2>1, <2>2, WithinMore
  <2>4. (ToSet(s) \cup {initial}) \cup {x} = ToSet(r) \cup {initial}
    BY <1>3
  <2> QED
    BY <2>3, <2>4
<1>9. \E v \in Int : primed(x) = {v} /\ a + e = v + (initial - Head(r)) * h /\ Within(v, ToSet(r))
  <2>1. CASE s = <<>>
    <3>1. smooth = {} /\ fast = initial * S
      BY <2>1 DEF Averages, S
    <3>2. primed(x) = {x * S} /\ x * S \in Int
      BY <1>1, <1>3, <3>1 DEF primed, S
    <3>3. ToSet(r) = {x} /\ Head(r) = x
      BY <1>3, <2>1 DEF ToSet
    <3>4. Within(x * S, ToSet(r))
      BY <1>3, <3>3, WithinOne DEF S
    <3>5. S = 2 * h
      <4>1. n = 0 /\ p = 1
        BY <2>1, Pow2Defined DEF p
      <4> QED
        BY <1>1, <4>1
    <3>6. a + e = x * S + (initial - x) * h
      <4>1. 2 * a = initial * (2 * h) /\ 2 * e = x * (2 * h)
        BY <1>5, <3>1, <3>5
      <4>2. initial * (2 * h) = 2 * (initial * h) /\ x * (2 * h) = 2 * (x * h)
            /\ (initial - x) * h = initial * h - x * h /\ initial * h \in Int /\ x * h \in Int
        BY <1>1, <1>3
      <4>3. a = initial * h /\ e = x * h
        BY <1>5, <4>1, <4>2
      <4>4. x * S = x * h + x * h
        BY <3>5, <4>2
      <4> DEFINE c == initial * h
                 d == x * h
      <4>5. a = c /\ e = d /\ x * S = d + d /\ (initial - x) * h = c - d /\ c \in Int /\ d \in Int
        BY <4>2, <4>3, <4>4
      <4> HIDE DEF c, d
      <4> QED
        BY <4>5
    <3> QED
      BY <3>2, <3>3, <3>4, <3>6
  <2>2. CASE s # <<>>
    <3> DEFINE g == initial - Head(s)
    <3>1. PICK v \in Int : smooth = {v} /\ fast = v + g * w /\ Within(v, ToSet(s))
      BY <2>2 DEF Averages, w
    <3>2. g \in Int
      <4>1. Head(s) \in Sample
        BY <2>2
      <4>2. Head(s) \in Int
        BY <4>1, SamplesNumbers
      <4> QED
        BY <1>3, <4>2
    <3>3. Head(r) = Head(s)
      BY <1>3, <2>2
    <3> HIDE DEF g
    <3> DEFINE c == a - g * h
    <3>4. g * w = 2 * (g * h) /\ g * h \in Int
      BY <1>1, <3>2
    <3>5. c \in Int /\ v = 2 * c
      <4> DEFINE k == g * h
      <4>1. k \in Int /\ fast = v + 2 * k /\ fast = 2 * a /\ c = a - k
        BY <1>5, <3>1, <3>4
      <4> HIDE DEF k, c
      <4> QED
        BY <1>5, <4>1
    <3>6. a + e = (c + e) + g * h
      <4> DEFINE k == g * h
      <4>1. k \in Int /\ c = a - k
        BY <3>4
      <4> HIDE DEF k, c
      <4>2. a + e = (c + e) + k
        BY <1>5, <4>1
      <4> QED
        BY <4>2 DEF k
    <3> HIDE DEF c
    <3>7. primed(x) = {c + e}
      <4>1. primed(x) = {(v + x * S) \div 2}
        BY <3>1 DEF primed, S
      <4>2. (v + x * S) \div 2 = c + e
        BY <1>5, <3>5, Halved
      <4> QED
        BY <4>1, <4>2
    <3>8. Within(c + e, ToSet(r))
      <4>1. Within(2 * c, ToSet(s)) /\ x * Scale = 2 * e
        BY <1>5, <3>1, <3>5 DEF S
      <4>2. Within(c + e, ToSet(s) \cup {x})
        BY <1>3, <1>5, <3>5, <4>1, WithinMore
      <4> QED
        BY <1>3, <4>2
    <3>9. c + e \in Int
      BY <1>5, <3>5
    <3> QED
      BY <3>3, <3>6, <3>7, <3>8, <3>9 DEF g
  <2> QED
    BY <2>1, <2>2
<1>10. pow2[MaxSamples - Len(r)] = h /\ r # <<>>
  BY <1>3 DEF h
<1> HIDE DEF Within
<1>11. Averages(primed(x), biased(x), r)
  BY <1>6, <1>7, <1>8, <1>9, <1>10 DEF Averages
<1> QED
  BY <1>11 DEF r

\* A quotient stays between the bounds its dividend is a multiple of.
LEMMA CutWithin ==
  ASSUME NEW d \in Nat \ {0}, NEW n \in Int, NEW lo \in Int, NEW hi \in Int, lo * d <= n, n <= hi * d
  PROVE  lo <= cut_off(n, d) /\ cut_off(n, d) <= hi
<1>1. ASSUME NEW u \in Nat, NEW l \in Int, NEW m \in Int, l * d <= u, u <= m * d
      PROVE  l <= u \div d /\ u \div d <= m /\ u \div d \in Int
  <2> DEFINE q == u \div d
             e == u % d
  <2>1. u = d * q + e /\ q \in Int /\ e \in 0 .. d - 1
    BY <1>1
  <2> HIDE DEF q, e
  <2>2. d * q <= u /\ u < d * q + d
    BY <2>1
  <2>3. l <= q
    <3> SUFFICES ASSUME q + 1 <= l PROVE FALSE
      BY <2>1
    <3>1. d * (q + 1) <= d * l
      BY <2>1
    <3>2. d * (q + 1) = d * q + d /\ d * l = l * d
      BY <2>1
    <3> QED
      BY <1>1, <2>1, <2>2, <3>1, <3>2
  <2>4. q <= m
    <3> SUFFICES ASSUME m + 1 <= q PROVE FALSE
      BY <2>1
    <3>1. d * (m + 1) <= d * q
      BY <2>1
    <3>2. d * (m + 1) = m * d + d
      BY <2>1
    <3> QED
      BY <1>1, <2>1, <2>2, <3>1, <3>2
  <2> QED
    BY <2>1, <2>3, <2>4 DEF q
<1>2. CASE n >= 0
  BY <1>1, <1>2 DEF cut_off
<1>3. CASE n < 0
  <2>1. -n \in Nat /\ (-hi) * d <= -n /\ -n <= (-lo) * d
    <3>1. (-hi) * d = -(hi * d) /\ (-lo) * d = -(lo * d) /\ hi * d \in Int /\ lo * d \in Int
      OBVIOUS
    <3> QED
      BY <1>3, <3>1
  <2> DEFINE u == -n
             l == -hi
             m == -lo
  <2>2. u \in Nat /\ l \in Int /\ m \in Int /\ l * d <= u /\ u <= m * d
    BY <2>1
  <2> HIDE DEF u, l, m
  <2>3. l <= u \div d /\ u \div d <= m /\ u \div d \in Int
    BY <1>1, <2>2
  <2>4. cut_off(n, d) = -(u \div d)
    BY <1>3 DEF cut_off, u
  <2> QED
    BY <2>3, <2>4 DEF l, m
<1> QED
  BY <1>2, <1>3

LEMMA AverageTold ==
  ASSUME Len(seen) \in Nat, seen \in Seq(Int), sum = SumOf(WindowOf(seen))
  PROVE  LET W == ToSet(Window) \cup (IF Len(seen) < MAX_SAMPLES THEN {0} ELSE {})
         IN  Min(W) <= average /\ average <= Max(W)
<1> DEFINE M == MAX_SAMPLES
           L == Len(seen)
           u == WindowOf(seen)
           W == ToSet(u) \cup (IF L < M THEN {0} ELSE {})
<1>1. M \in Nat \ {0} /\ L \in Nat /\ Window = u
  BY SizeAssumption DEF Window, WindowOf
<1>2. u \in Seq(Int) /\ Len(u) = (IF L < M THEN L ELSE M)
  <2> DEFINE i == IF L > M THEN L - M + 1 ELSE 1
  <2>1. i \in Nat /\ i >= 1 /\ i <= L + 1 /\ L - i + 1 = (IF L < M THEN L ELSE M)
    <3> HIDE DEF L, M, u
    <3>1. CASE L > M
      BY <1>1, <3>1
    <3>2. CASE ~(L > M)
      BY <1>1, <3>2
    <3> QED
      BY <3>1, <3>2
  <2>2. u = SubSeq(seen, i, L)
    BY DEF WindowOf
  <2>3. \A j \in 1 .. L : seen[j] \in Int
    OBVIOUS
  <2> HIDE DEF i, u
  <2>4. SubSeq(seen, i, L) \in Seq(Int)
    BY <1>1, <2>1, <2>3
  <2>5. Len(SubSeq(seen, i, L)) = L - i + 1
    BY <1>1, <2>1
  <2> QED
    BY <2>1, <2>2, <2>4, <2>5
<1> HIDE DEF u
<1>3. W \in SUBSET Int /\ (\E m : Lowest(m, W)) /\ (\E m : Highest(m, W))
  <2>1. CASE u = <<>>
    <3>1. Len(u) = 0 /\ ToSet(u) = {}
      BY <2>1 DEF ToSet
    <3>2. W = {0}
      BY <1>1, <1>2, <3>1
    <3> HIDE DEF W
    <3> QED
      BY <3>2 DEF Lowest, Highest
  <2>2. CASE u # <<>>
    <3>1. /\ ToSet(u) \in SUBSET Int
          /\ Lowest(Min(ToSet(u)), ToSet(u)) /\ Highest(Max(ToSet(u)), ToSet(u))
      BY <1>2, <2>2, SomeExtremes
    <3>2. CASE L < M
      <4> DEFINE none == 0
      <4>1. W = ToSet(u) \cup {none} /\ none \in Int
        BY <3>2
      <4> HIDE DEF none, W
      <4>2. (\E m : Lowest(m, ToSet(u) \cup {none})) /\ (\E m : Highest(m, ToSet(u) \cup {none}))
        BY <3>1, <4>1, LowestOfMore, HighestOfMore
      <4> QED
        BY <3>1, <4>1, <4>2
    <3>3. CASE ~(L < M)
      <4>1. W = ToSet(u)
        BY <3>3
      <4> QED
        BY <3>1, <4>1
    <3> QED
      BY <3>2, <3>3
  <2> QED
    BY <2>1, <2>2
<1>4. PICK lo : Lowest(lo, W)
  BY <1>3
<1>5. PICK hi : Highest(hi, W)
  BY <1>3
<1>6. Min(W) = lo /\ Max(W) = hi /\ lo \in Int /\ hi \in Int
  <2>1. lo \in W /\ hi \in W
    BY <1>4, <1>5 DEF Lowest, Highest
  <2> HIDE DEF W
  <2> QED
    BY <1>3, <1>4, <1>5, <2>1, LowestIsMin, HighestIsMax
<1>7. \A k \in 1 .. Len(u) : lo <= u[k] /\ u[k] <= hi
  <2> SUFFICES ASSUME NEW k \in 1 .. Len(u) PROVE lo <= u[k] /\ u[k] <= hi
    OBVIOUS
  <2>1. u[k] \in W /\ u[k] \in Int
    <3>1. k \in DOMAIN u /\ u[k] \in Int
      BY <1>2
    <3> QED
      BY <3>1 DEF ToSet
  <2> HIDE DEF W
  <2> QED
    BY <1>4, <1>5, <1>6, <2>1 DEF Lowest, Highest
<1>8. lo * Len(u) <= sum /\ sum <= hi * Len(u) /\ sum \in Int
  <2>1. sum = SumOf(u) /\ SumOf(u) \in Int
    <3>1. PICK P : Partial(u, P)
      BY <1>2, PartialSums
    <3> QED
      BY <1>2, <3>1, SumIsPartial DEF u
  <2> QED
    BY <1>2, <1>6, <1>7, <2>1, SumBounded
<1>9. lo * M <= sum /\ sum <= hi * M
  <2>1. CASE L < M
    <3>1. lo <= 0 /\ 0 <= hi
      <4>1. 0 \in W
        BY <2>1
      <4> HIDE DEF W
      <4> QED
        BY <1>4, <1>5, <1>6, <4>1 DEF Lowest, Highest
    <3>2. Len(u) = L
      BY <1>2, <2>1
    <3> DEFINE n == L
               m == M
    <3>3. n \in Nat /\ m \in Nat /\ n <= m /\ lo * n <= sum /\ sum <= hi * n
      BY <1>1, <1>8, <2>1, <3>2
    <3> HIDE DEF n, m
    <3>4. lo * m <= lo * n /\ hi * n <= hi * m
      BY ONLY <1>6, <3>1, <3>3
    <3>5. lo * m \in Int /\ lo * n \in Int /\ hi * m \in Int /\ hi * n \in Int
      BY <1>6, <3>3
    <3>6. lo * m <= sum /\ sum <= hi * m
      <4> DEFINE a == lo * m
                 b == lo * n
                 c == hi * m
                 d == hi * n
      <4>1. a \in Int /\ b \in Int /\ c \in Int /\ d \in Int /\ a <= b /\ b <= sum /\ sum <= d /\ d <= c
        BY <3>3, <3>4, <3>5
      <4> HIDE DEF a, b, c, d
      <4>2. a <= sum /\ sum <= c
        BY <1>8, <4>1
      <4> QED
        BY <4>2 DEF a, c
    <3> QED
      BY <3>6 DEF m
  <2>2. CASE ~(L < M)
    <3>1. Len(u) = M
      BY <1>2, <2>2
    <3> QED
      BY <1>8, <3>1
  <2> QED
    BY <2>1, <2>2
<1>10. lo <= average /\ average <= hi
  BY <1>1, <1>6, <1>8, <1>9, CutWithin DEF average
<1> HIDE DEF W
<1>11. Min(W) <= average /\ average <= Max(W)
  BY <1>6, <1>10
<1> QED
  BY <1>1, <1>11 DEF W

LEMMA WithinExtremes ==
  ASSUME NEW N \in SUBSET Int, NEW v \in Int, Within(v, N),
         NEW lo, Lowest(lo, N), NEW hi, Highest(hi, N)
  PROVE  /\ Min(N) * Scale <= v /\ v <= Max(N) * Scale
         /\ Min(N) <= cut_off(v, Scale) /\ cut_off(v, Scale) <= Max(N)
<1>1. Min(N) = lo /\ Max(N) = hi
  BY LowestIsMin, HighestIsMax
<1>2. lo \in Int /\ hi \in Int /\ (\A y \in N : lo <= y) /\ (\A y \in N : y <= hi)
  BY DEF Lowest, Highest
<1>3. lo * Scale <= v /\ v <= hi * Scale
  BY <1>2 DEF Within
<1>4. lo <= cut_off(v, Scale) /\ cut_off(v, Scale) <= hi
  BY <1>2, <1>3, ScaleIsPositive, CutWithin
<1> QED
  BY <1>1, <1>3, <1>4

LEMMA SmoothedTold ==
  ASSUME NEW s \in Seq(Sample), s = Since(resets.averages), Averages(smooth, fast, s),
         Len(s) <= MaxSamples
  PROVE  /\ PullDiminishes
         /\ LET X == ToSet(s)
            IN  X # {} =>
                  /\ \A v \in smooth : Min(X) * Scale <= v /\ v <= Max(X) * Scale
                  /\ Min(X \cup {initial}) * Scale <= fast /\ fast <= Max(X \cup {initial}) * Scale
                  /\ \A n \in smooth_average : Min(X) <= n /\ n <= Max(X)
                  /\ Min(X \cup {initial}) <= fast_average /\ fast_average <= Max(X \cup {initial})
<1> DEFINE X == ToSet(s)
           n == Len(s)
           w == pow2[MaxSamples - n]
           p == pow2[n]
<1>1. n \in Nat /\ MaxSamples - n \in Nat /\ n + (MaxSamples - n) = MaxSamples
  BY SizeAssumption
<1>2. w \in Nat \ {0} /\ p \in Nat \ {0} /\ Scale = p * w
  <2> DEFINE m == MaxSamples - n
  <2>1. m \in Nat /\ n + m = MaxSamples
    BY <1>1
  <2> HIDE DEF m, n
  <2>2. pow2[n + m] = pow2[n] * pow2[m] /\ pow2[n] \in Nat \ {0} /\ pow2[m] \in Nat \ {0}
    BY <1>1, <2>1, Pow2Sums, Pow2Defined
  <2> QED
    BY <2>1, <2>2 DEF Scale, m
<1>3. Scale \div p = w
  <2> HIDE DEF w, p
  <2>1. \A a \in Nat \ {0}, b \in Nat : (a * b) \div a = b
    OBVIOUS
  <2> QED
    BY <1>2, <2>1
<1>4. initial \in Int /\ s \in Seq(Int)
  BY SampleAssumption, SamplesNumbers
<1>5. fast \in Int /\ Within(fast, X \cup {initial})
  <2>1. PICK q \in Int : fast = 2 * (q * w)
    BY DEF Averages
  <2> HIDE DEF w
  <2>2. fast \in Int
    BY <1>2, <2>1
  <2> QED
    BY <2>2 DEF Averages
<1>6. CASE s = <<>>
  <2>1. X = {} /\ smooth = {} /\ fast = initial * Scale
    BY <1>6 DEF ToSet, Averages
  <2> QED
    BY <1>6, <2>1 DEF PullDiminishes
<1>7. CASE s # <<>>
  <2>1. PICK v \in Int : smooth = {v} /\ fast = v + (initial - Head(s)) * w /\ Within(v, X)
    BY <1>7 DEF Averages
  <2>2. Head(s) \in Int
    BY <1>4, <1>7
  <2>3. smooth = {fast - (initial - Head(s)) * (Scale \div pow2[Len(s)])}
    <3> DEFINE g == initial - Head(s)
               k == g * w
    <3>1. g \in Int /\ smooth = {v} /\ fast = v + k /\ Scale \div pow2[Len(s)] = w
      BY <1>3, <1>4, <2>1, <2>2
    <3>2. k \in Int
      <4> HIDE DEF g, w
      <4> QED BY <1>2, <3>1
    <3> HIDE DEF k
    <3>3. v = fast - k
      BY <3>1, <3>2
    <3> QED
      BY <3>1, <3>3 DEF k, g
  <2>4. PullDiminishes
    BY <1>7, <2>3 DEF PullDiminishes
  <2>5. X \in SUBSET Int /\ Lowest(Min(X), X) /\ Highest(Max(X), X)
    BY <1>4, <1>7, SomeExtremes
  <2> HIDE DEF X
  <2>6. (\E m : Lowest(m, X \cup {initial})) /\ (\E m : Highest(m, X \cup {initial}))
        /\ X \cup {initial} \in SUBSET Int
    BY <1>4, <2>5, LowestOfMore, HighestOfMore
  <2>7. PICK lo : Lowest(lo, X \cup {initial})
    BY <2>6
  <2>8. PICK hi : Highest(hi, X \cup {initial})
    BY <2>6
  <2> HIDE DEF Within
  <2>9. /\ Min(X) * Scale <= v /\ v <= Max(X) * Scale
        /\ Min(X) <= cut_off(v, Scale) /\ cut_off(v, Scale) <= Max(X)
    BY <2>1, <2>5, WithinExtremes
  <2> DEFINE Y == X \cup {initial}
  <2>10. Y \in SUBSET Int /\ Within(fast, Y) /\ Lowest(lo, Y) /\ Highest(hi, Y)
    BY <1>5, <2>6, <2>7, <2>8
  <2> HIDE DEF Y
  <2>11. /\ Min(Y) * Scale <= fast /\ fast <= Max(Y) * Scale
         /\ Min(Y) <= fast_average /\ fast_average <= Max(Y)
    BY <1>5, <2>10, WithinExtremes DEF fast_average
  <2>12. smooth_average = {cut_off(v, Scale)}
    BY <2>1 DEF smooth_average
  <2> QED
    BY <2>1, <2>4, <2>9, <2>11, <2>12 DEF X, Y
<1> QED
  BY <1>6, <1>7

StatsInv ==
    /\ RolledType /\ Rolled /\ sum = SumOf(WindowOf(seen))
    /\ Len(seen) <= MaxSamples
    /\ resets \in [collector : 0 .. Len(seen), averages : 0 .. Len(seen)]
    /\ collected \in CollectedType /\ Collects(collected, Since(resets.collector))
    /\ Averages(smooth, fast, Since(resets.averages))

LEMMA StatsImplies == StatsInv => StatsTell
<1> SUFFICES ASSUME StatsInv PROVE StatsTell
  OBVIOUS
<1> DEFINE c == Since(resets.collector)
           a == Since(resets.averages)
<1>1. /\ seen \in Seq(Sample) /\ seen \in Seq(Int) /\ Len(seen) \in Nat
      /\ resets.collector \in 0 .. Len(seen) /\ resets.averages \in 0 .. Len(seen)
  BY SamplesNumbers DEF StatsInv, RolledType
<1>2. \A n \in 0 .. Len(seen) : Since(n) \in Seq(Sample) /\ Len(Since(n)) = Len(seen) - n
  BY <1>1 DEF Since
<1>3. c \in Seq(Sample) /\ a \in Seq(Sample) /\ Len(a) <= MaxSamples
  <2>1. Len(a) = Len(seen) - resets.averages
    BY <1>1, <1>2
  <2>2. c \in Seq(Sample) /\ a \in Seq(Sample)
    BY <1>1, <1>2
  <2>3. Len(seen) <= MaxSamples /\ MaxSamples \in Nat
    BY SizeAssumption DEF StatsInv
  <2> HIDE DEF a
  <2> QED
    BY <1>1, <2>1, <2>2, <2>3
<1>4. CollectorTells
  <2> HIDE DEF c
  <2> QED BY <1>3, CollectorTold DEF StatsInv, c
<1>5. WindowSum
  BY DEF StatsInv, WindowSum, Window, WindowOf
<1>6. /\ PullDiminishes
      /\ LET X == ToSet(a)
         IN  X # {} =>
               /\ \A v \in smooth : Min(X) * Scale <= v /\ v <= Max(X) * Scale
               /\ Min(X \cup {initial}) * Scale <= fast /\ fast <= Max(X \cup {initial}) * Scale
               /\ \A n \in smooth_average : Min(X) <= n /\ n <= Max(X)
               /\ Min(X \cup {initial}) <= fast_average /\ fast_average <= Max(X \cup {initial})
  <2>1. a = Since(resets.averages) /\ Averages(smooth, fast, a)
    BY DEF StatsInv
  <2> HIDE DEF a
  <2> QED
    BY <1>3, <2>1, SmoothedTold
<1>7. LET W == ToSet(Window) \cup (IF Len(seen) < MAX_SAMPLES THEN {0} ELSE {})
      IN  Min(W) <= average /\ average <= Max(W)
  BY <1>1, AverageTold DEF StatsInv
<1>8. AveragesInRange
  BY <1>6, <1>7 DEF AveragesInRange
<1> QED
  BY <1>4, <1>5, <1>6, <1>8 DEF StatsTell

LEMMA StatsStart == StatsInit => StatsInv
<1> SUFFICES ASSUME StatsInit PROVE StatsInv
  OBVIOUS
<1>1. seen = <<>> /\ Len(seen) = 0 /\ resets = [collector |-> 0, averages |-> 0]
      /\ MaxSamples \in Nat /\ MAX_SAMPLES \in Nat \ {0}
  BY SizeAssumption DEF StatsInit
<1>2. Since(0) = <<>> /\ WindowOf(seen) = <<>>
  BY <1>1 DEF Since, WindowOf
<1>3. RolledType /\ Rolled
  <2>1. RolledType
    BY <1>1 DEF StatsInit, RolledType
  <2>2. ASSUME NEW k \in 1 .. MAX_SAMPLES PROVE samples[slot(k)] = Latest(seen, k)
    <3>1. slot(k) \in 0 .. MAX_SAMPLES - 1
      BY <1>1 DEF StatsInit, slot
    <3>2. Latest(seen, k) = 0
      BY <1>1 DEF Latest
    <3> QED
      BY <3>1, <3>2 DEF StatsInit
  <2> QED
    BY <2>1, <2>2 DEF Rolled
<1>4. sum = SumOf(WindowOf(seen))
  BY <1>2, SumOfNone DEF StatsInit
<1>5. collected \in CollectedType /\ Collects(collected, <<>>)
  BY CollectsNone DEF StatsInit
<1>6. Averages(smooth, fast, <<>>)
  BY AveragesNone DEF StatsInit
<1>7. resets \in [collector : 0 .. Len(seen), averages : 0 .. Len(seen)]
      /\ resets.collector = 0 /\ resets.averages = 0 /\ Len(seen) <= MaxSamples
  BY <1>1
<1> QED
  BY <1>2, <1>3, <1>4, <1>5, <1>6, <1>7 DEF StatsInv

\* A sample is taken by all of them.
LEMMA UpdateTells ==
  ASSUME StatsInv, NEW x \in Sample, update(x)
  PROVE  StatsInv'
<1>1. /\ seen \in Seq(Sample) /\ Len(seen) \in Nat /\ Len(seen) < MaxSamples
      /\ resets.collector \in 0 .. Len(seen) /\ resets.averages \in 0 .. Len(seen)
      /\ resets \in [collector : 0 .. Len(seen), averages : 0 .. Len(seen)]
  BY DEF StatsInv, RolledType, update
<1>2. /\ seen' = Append(seen, x) /\ resets' = resets /\ integral' = integral
      /\ collected' = collect(x) /\ smooth' = primed(x) /\ fast' = biased(x) /\ roll(x)
  BY DEF update
<1>3. Len(seen') = Len(seen) + 1 /\ Len(seen') <= MaxSamples
  <2>1. Len(seen') = Len(seen) + 1
    BY <1>1, <1>2
  <2> QED
    BY <1>1, <2>1, SizeAssumption
<1>4. RolledType' /\ Rolled' /\ sum' = sum + x - Latest(seen, MAX_SAMPLES)
  BY <1>2, RolledMore DEF StatsInv
<1>5. sum' = SumOf(WindowOf(seen))'
  <2>1. seen \in Seq(Int) /\ x \in Int
    BY <1>1, SamplesNumbers
  <2>2. SumOf(WindowOf(Append(seen, x))) = SumOf(WindowOf(seen)) + x - Latest(seen, MAX_SAMPLES)
    BY <2>1, WindowMore
  <2>3. sum = SumOf(WindowOf(seen))
    BY DEF StatsInv
  <2> QED
    BY <1>2, <1>4, <2>2, <2>3
<1>6. ASSUME NEW n \in 0 .. Len(seen)
      PROVE  /\ Since(n) \in Seq(Sample) /\ Len(Since(n)) = Len(seen) - n
             /\ SubSeq(seen', n + 1, Len(seen')) = Append(Since(n), x)
  <2>1. /\ SubSeq(seen, n + 1, Len(seen)) \in Seq(Sample)
        /\ Len(SubSeq(seen, n + 1, Len(seen))) = Len(seen) - n
        /\ SubSeq(Append(seen, x), n + 1, Len(Append(seen, x))) = Append(SubSeq(seen, n + 1, Len(seen)), x)
    <3>1. Lengthened(Sample, seen, x, n)
      BY <1>1, SinceMore
    <3> QED
      BY <3>1, Zenon DEF Lengthened
  <2> QED
    BY <1>2, <2>1 DEF Since
<1>7. collected' \in CollectedType /\ Collects(collected, Since(resets.collector))'
  <2> DEFINE s == Since(resets.collector)
  <2>1. s \in Seq(Sample) /\ Collects(collected, s) /\ collected \in CollectedType
    BY <1>1, <1>6 DEF StatsInv
  <2>2. Since(resets.collector)' = Append(s, x)
    BY <1>1, <1>2, <1>6 DEF Since
  <2> HIDE DEF s
  <2>3. Collects(collect(x), Append(s, x)) /\ collect(x) \in CollectedType
    BY <2>1, CollectsMore
  <2>4. Collects(collected, Since(resets.collector))' <=> Collects(collect(x), Append(s, x))
    BY <1>2, <2>2 DEF Collects, least
  <2> QED
    BY <1>2, <2>3, <2>4
<1>8. Averages(smooth, fast, Since(resets.averages))'
  <2> DEFINE s == Since(resets.averages)
  <2>1. s \in Seq(Sample) /\ Averages(smooth, fast, s) /\ Len(s) < MaxSamples
    <3>1. s \in Seq(Sample) /\ Len(s) = Len(seen) - resets.averages /\ Averages(smooth, fast, s)
      BY <1>1, <1>6 DEF StatsInv
    <3>2. Len(seen) - resets.averages < MaxSamples
      BY <1>1, SizeAssumption
    <3> QED
      BY <3>1, <3>2
  <2>2. Since(resets.averages)' = Append(s, x)
    BY <1>1, <1>2, <1>6 DEF Since
  <2> HIDE DEF s
  <2>3. Averages(primed(x), biased(x), Append(s, x))
    BY <2>1, AveragesMore
  <2> QED
    BY <1>2, <2>2, <2>3
<1>9. (resets \in [collector : 0 .. Len(seen), averages : 0 .. Len(seen)])'
  BY <1>1, <1>2, <1>3
<1> QED
  BY <1>3, <1>4, <1>5, <1>7, <1>8, <1>9 DEF StatsInv

\* After the last sample, there is none.
LEMMA SinceAll == ASSUME seen \in Seq(Sample) PROVE Since(Len(seen)) = <<>>
BY DEF Since

LEMMA StatsStep == StatsInv /\ [StatsNext]_statsVars => StatsInv'
<1> SUFFICES ASSUME StatsInv, [StatsNext]_statsVars PROVE StatsInv'
  OBVIOUS
<1> DEFINE At == resets \in [collector : 0 .. Len(seen), averages : 0 .. Len(seen)]
           Window0 == RolledType /\ Rolled /\ sum = SumOf(WindowOf(seen)) /\ Len(seen) <= MaxSamples
           Collector0 == collected \in CollectedType /\ Collects(collected, Since(resets.collector))
           Smoothed0 == Averages(smooth, fast, Since(resets.averages))
<1>a. StatsInv <=> Window0 /\ At /\ Collector0 /\ Smoothed0
  BY DEF StatsInv
<1>b. (StatsInv <=> Window0 /\ At /\ Collector0 /\ Smoothed0)'
  BY DEF StatsInv
<1>c. UNCHANGED <<samples, sum, tail, seen>> => Window0'
  BY <1>a DEF RolledType, Rolled, slot
<1>d. UNCHANGED <<integral, collected, seen>> /\ resets'.collector = resets.collector => Collector0'
  BY <1>a DEF Collects, least, Since
<1>e. UNCHANGED <<smooth, fast, seen>> /\ resets'.averages = resets.averages => Smoothed0'
  BY <1>a DEF Since
<1>f. seen \in Seq(Sample) /\ Len(seen) \in Nat
  BY DEF StatsInv, RolledType
<1>1. CASE reset_collector
  <2>1. /\ resets' = [resets EXCEPT !.collector = Len(seen)] /\ collected' = Fresh
        /\ UNCHANGED <<integral, samples, sum, tail, smooth, fast, seen>>
    BY <1>1 DEF reset_collector
  <2>2. At' /\ resets'.collector = Len(seen) /\ resets'.averages = resets.averages
    BY <1>a, <1>f, <2>1
  <2>3. Collector0'
    <3>1. Since(resets.collector)' = <<>>
      BY <1>f, <2>1, <2>2, SinceAll DEF Since
    <3>2. Collects(collected, Since(resets.collector))' <=> Collects(Fresh, <<>>)
      BY <2>1, <3>1 DEF Collects, least, Fresh
    <3> QED
      BY <2>1, <3>2, CollectsNone
  <2> QED
    BY <1>b, <1>c, <1>e, <2>1, <2>2, <2>3
<1>2. CASE restart
  <2>1. /\ resets' = [resets EXCEPT !.averages = Len(seen)]
        /\ smooth' = {} /\ fast' = initial * Scale
        /\ UNCHANGED <<integral, collected, samples, sum, tail, seen>>
    BY <1>2 DEF restart
  <2>2. At' /\ resets'.averages = Len(seen) /\ resets'.collector = resets.collector
    BY <1>a, <1>f, <2>1
  <2>3. Smoothed0'
    <3>1. Since(resets.averages)' = <<>>
      BY <1>f, <2>1, <2>2, SinceAll DEF Since
    <3> QED
      BY <2>1, <3>1, AveragesNone
  <2> QED
    BY <1>b, <1>c, <1>d, <2>1, <2>2, <2>3
<1>3. ASSUME NEW x \in Sample, update(x) PROVE StatsInv'
  BY <1>3, UpdateTells
<1>4. CASE UNCHANGED statsVars
  <2>1. UNCHANGED <<integral, collected, samples, sum, tail, smooth, fast, seen, resets>>
    BY <1>4 DEF statsVars
  <2>2. At'
    BY <1>a, <2>1
  <2> QED
    BY <1>b, <1>c, <1>d, <1>e, <2>1, <2>2
<1> QED
  BY <1>1, <1>2, <1>3, <1>4 DEF StatsNext

(***************************************************************************)
(* For all samples, window lengths and resets: the collector tells number, *)
(* total and extremes of the samples since its reset; the sum kept by the  *)
(* rolling average is that of its window; the pull of the initial value of *)
(* a smoothed average is halved with every sample; and no average leaves   *)
(* the range of what it averages, before and after rounding                *)
(* (src/stats/collect.hh, src/stats/rolling_average.hh).                   *)
(***************************************************************************)
THEOREM StatisticsTold == StatsSpec => []StatsTell
<1>1. StatsInit => StatsInv
  BY StatsStart
<1>2. StatsInv /\ [StatsNext]_statsVars => StatsInv'
  BY StatsStep
<1>3. StatsInv => StatsTell
  BY StatsImplies
<1> QED
  BY <1>1, <1>2, <1>3, PTL DEF StatsSpec

-----------------------------------------------------------------------------
(* Paths of any length.  What repeated slashes come to is a fold: the last of *)
(* the sequences that it makes on its way (PathSimplified).                  *)

Letter == {"x", ".", "/", "~", "\\", "1"}

\* A character more of a path without repeated slashes.
Once(r, c) == IF is_sep(c) /\ r # <<>> /\ is_sep(Last(r)) THEN r ELSE Append(r, c)

Simplified(s, P) ==
    P \in [Nat -> Seq(Letter)] /\ P[0] = <<>> /\ \A k \in 1 .. Len(s) : P[k] = Once(P[k - 1], s[k])

LEMMA OnceMore ==
  ASSUME NEW r \in Seq(Letter), NEW c \in Letter
  PROVE  Once(r, c) \in Seq(Letter)
BY DEF Once

LEMMA PathSimplified ==
  ASSUME NEW s \in Seq(Letter)
  PROVE  \E P : Simplified(s, P)
<1> DEFINE char(n) == IF n + 1 \in 1 .. Len(s) THEN s[n + 1] ELSE "x"
           F == [n \in Nat |-> [r \in Seq(Letter) |-> Once(r, char(n))]]
           none == <<>>
<1>1. F \in [Nat -> [Seq(Letter) -> Seq(Letter)]] /\ none \in Seq(Letter)
  <2>1. \A n \in Nat : char(n) \in Letter
    BY DEF Letter
  <2> HIDE DEF char
  <2> QED
    BY <2>1, OnceMore
<1>2. PICK P \in [Nat -> Seq(Letter)] : P[0] = none /\ \A n \in Nat : P[n + 1] = F[n][P[n]]
  <2>1. Recursive(Seq(Letter))
    BY RecursiveAll
  <2> HIDE DEF F, none
  <2> QED
    BY <1>1, <2>1 DEF Recursive
<1>3. ASSUME NEW k \in 1 .. Len(s) PROVE P[k] = Once(P[k - 1], s[k])
  <2>1. k - 1 \in Nat /\ (k - 1) + 1 = k /\ P[k - 1] \in Seq(Letter) /\ char(k - 1) = s[k]
    OBVIOUS
  <2>2. P[k] = F[k - 1][P[k - 1]]
    <3> HIDE DEF F
    <3> QED BY <1>2, <2>1
  <2> HIDE DEF char
  <2> QED
    BY <2>1, <2>2
<1> QED
  BY <1>2, <1>3 DEF Simplified

LEMMA SimpleIsSimplified ==
  ASSUME NEW s \in Seq(Letter), NEW P, Simplified(s, P)
  PROVE  Simple(s) = P[Len(s)] /\ Simple(s) \in Seq(Letter)
<1> DEFINE S == 1 .. Len(s)
           Body(it) == [t \in SUBSET S |-> IF t = {} THEN <<>> ELSE LET x == Max(t) IN Once(it[t \ {x}], s[x])]
           none == <<>>
<1>1. DOMAIN s = S /\ Len(s) \in Nat /\ \A k \in S : s[k] \in Letter
  OBVIOUS
<1>2. Simple(s) = (CHOOSE it : it = Body(it))[S]
  <2>1. Simple(s) = (CHOOSE it : it = [t \in SUBSET DOMAIN s |->
                                       IF t = {} THEN <<>> ELSE LET x == Max(t) IN Once(it[t \ {x}], s[x])])[DOMAIN s]
    BY DEF Simple, FoldLeft, MapThenFoldSet, Once
  <2> QED
    BY <1>1, <2>1
<1>3. IsFiniteSet(S)
  BY FS_Interval
<1>4. \A t \in SUBSET S : t # {} => Max(t) \in t
  BY <1>1, MaxOfSome
<1>5. \E it : it = Body(it)
  <2> DEFINE pick == [t \in SUBSET S |-> Max(t)]
             F == [k \in S |-> [r \in Seq(Letter) |-> Once(r, s[k])]]
  <2>1. F \in [S -> [Seq(Letter) -> Seq(Letter)]] /\ none \in Seq(Letter)
    BY <1>1, OnceMore
  <2>2. \A t \in SUBSET S : t # {} => pick[t] \in t
    BY <1>4
  <2>3. PICK it \in [SUBSET S -> Seq(Letter)] : Recurs(it, S, none, pick, F)
    <3>1. \A T : IsFiniteSet(T) => \A D : \A e \in D : \A p : \A G \in [T -> [D -> D]] :
            (\A t \in SUBSET T : t # {} => p[t] \in t) => \E it \in [SUBSET T -> D] : Recurs(it, T, e, p, G)
      BY SetRecursion
    <3> HIDE DEF pick, F, S, none
    <3>2. \A D : \A e \in D : \A p : \A G \in [S -> [D -> D]] :
            (\A t \in SUBSET S : t # {} => p[t] \in t) => \E it \in [SUBSET S -> D] : Recurs(it, S, e, p, G)
      BY <1>3, <3>1
    <3> QED
      BY <2>1, <2>2, <3>2
  <2>4. ASSUME NEW t \in SUBSET S PROVE it[t] = Body(it)[t]
    <3>1. CASE t = {}
      BY <2>3, <3>1 DEF Recurs
    <3>2. CASE t # {}
      <4> DEFINE x == Max(t)
      <4>1. x \in t /\ x \in S /\ pick[t] = x /\ t \ {x} \in SUBSET S
        BY <1>4, <3>2
      <4>2. it[t] = F[pick[t]][it[t \ {pick[t]}]]
        <5> HIDE DEF F, pick
        <5> QED BY <2>3, <3>2 DEF Recurs
      <4>3. it[t \ {x}] \in Seq(Letter)
        BY <2>3, <4>1
      <4>4. it[t] = Once(it[t \ {x}], s[x])
        <5> HIDE DEF pick, x, S
        <5> QED BY <4>1, <4>2, <4>3
      <4> QED
        BY <3>2, <4>4
    <3> QED
      BY <3>1, <3>2
  <2>5. it = Body(it)
    <3>1. it = [t \in SUBSET S |-> it[t]]
      BY <2>3
    <3>2. Body(it) = [t \in SUBSET S |-> Body(it)[t]]
      OBVIOUS
    <3> HIDE DEF Body
    <3> QED
      BY <2>4, <3>1, <3>2
  <2> QED
    BY <2>5
<1> DEFINE c == CHOOSE it : it = Body(it)
<1>6. c = Body(c)
  <2> HIDE DEF Body
  <2> QED BY <1>5
<1> HIDE DEF c
<1>7. c[{}] = <<>> /\ \A t \in SUBSET S : t # {} => c[t] = Once(c[t \ {Max(t)}], s[Max(t)])
  BY <1>6
<1> DEFINE A == {k \in Nat : k <= Len(s) => c[1 .. k] = P[k]}
<1>8. 0 \in A
  <2>1. 1 .. 0 = {}
    OBVIOUS
  <2> QED
    BY <1>7, <2>1 DEF Simplified
<1>9. ASSUME NEW k \in Nat, k \in A PROVE k + 1 \in A
  <2> SUFFICES ASSUME k + 1 <= Len(s) PROVE c[1 .. k + 1] = P[k + 1]
    OBVIOUS
  <2>1. c[1 .. k] = P[k]
    BY <1>1, <1>9
  <2>2. k + 1 \in S /\ 1 .. k + 1 \in SUBSET S /\ 1 .. k + 1 # {} /\ (k + 1) - 1 = k
    <3>1. k + 1 \in 1 .. k + 1 /\ (k + 1) - 1 = k
      OBVIOUS
    <3>2. k + 1 \in S /\ 1 .. k + 1 \in SUBSET S
      BY <1>1
    <3> QED
      BY <3>1, <3>2
  <2> DEFINE t == 1 .. k + 1
  <2>3. Max(t) = k + 1 /\ t \ {k + 1} = 1 .. k
    <3>1. k + 1 \in Nat /\ k + 1 \in 1 .. k + 1
      OBVIOUS
    <3>2. Max(t) = k + 1
      BY <3>1, MaxOfFirst
    <3>3. t \ {k + 1} = 1 .. k
      OBVIOUS
    <3> QED
      BY <3>2, <3>3
  <2>4. P[k + 1] = Once(P[k], s[k + 1])
    BY <2>2 DEF Simplified
  <2>5. t \in SUBSET S /\ t # {}
    BY <2>2
  <2> HIDE DEF t, S
  <2>6. c[t] = Once(c[t \ {Max(t)}], s[Max(t)])
    BY <1>7, <2>5
  <2>7. c[t] = P[k + 1]
    BY <2>1, <2>3, <2>4, <2>6
  <2> QED
    BY <2>7 DEF t
<1>10. Nat \subseteq A
  <2> HIDE DEF A
  <2> QED BY <1>8, <1>9, NaturalsFrom
<1>11. Simple(s) = c[1 .. Len(s)] /\ Len(s) \in A
  BY <1>1, <1>2, <1>10 DEF c
<1> QED
  BY <1>1, <1>11 DEF Simplified

LEMMA SimpleMore ==
  ASSUME NEW s \in Seq(Letter), NEW c \in Letter
  PROVE  Simple(s) \in Seq(Letter) /\ Simple(Append(s, c)) = Once(Simple(s), c)
<1> DEFINE r == Append(s, c)
<1>1. r \in Seq(Letter) /\ Len(r) = Len(s) + 1 /\ r[Len(r)] = c /\ Len(s) \in Nat /\ \A k \in 1 .. Len(s) : r[k] = s[k]
  OBVIOUS
<1> HIDE DEF r
<1>2. PICK P : Simplified(r, P)
  BY <1>1, PathSimplified
<1>3. Simplified(s, P) /\ P[Len(r)] = Once(P[Len(s)], c)
  <2>1. P \in [Nat -> Seq(Letter)] /\ P[0] = <<>> /\ \A k \in 1 .. Len(r) : P[k] = Once(P[k - 1], r[k])
    BY <1>2 DEF Simplified
  <2>2. \A k \in 1 .. Len(s) : P[k] = Once(P[k - 1], s[k])
    BY <1>1, <2>1
  <2>3. Len(r) \in 1 .. Len(r) /\ Len(r) - 1 = Len(s)
    BY <1>1
  <2>4. P[Len(r)] = Once(P[Len(s)], c)
    BY <1>1, <2>1, <2>3
  <2> QED
    BY <2>1, <2>2, <2>4 DEF Simplified
<1>4. Simple(r) = P[Len(r)] /\ Simple(s) = P[Len(s)] /\ Simple(s) \in Seq(Letter)
  BY <1>1, <1>2, <1>3, SimpleIsSimplified
<1> QED
  BY <1>3, <1>4 DEF r

\* What is appended to two paths that come to the same does not tell them apart.
LEMMA SimpleTogether ==
  ASSUME NEW u \in Seq(Letter), NEW v \in Seq(Letter), NEW w \in Seq(Letter), Simple(u) = Simple(v)
  PROVE  Simple(u \o w) = Simple(v \o w)
<1> DEFINE upto(z, k) == z \o SubSeq(w, 1, k)
           A == {k \in Nat : k <= Len(w) => Simple(upto(u, k)) = Simple(upto(v, k))}
<1>1. 0 \in A
  <2>1. upto(u, 0) = u /\ upto(v, 0) = v
    OBVIOUS
  <2> HIDE DEF upto
  <2> QED
    BY <2>1
<1>2. ASSUME NEW z \in Seq(Letter), NEW k \in Nat, k + 1 <= Len(w)
      PROVE  upto(z, k) \in Seq(Letter) /\ w[k + 1] \in Letter /\ upto(z, k + 1) = Append(upto(z, k), w[k + 1])
  BY <1>2
<1>3. ASSUME NEW k \in Nat, k \in A PROVE k + 1 \in A
  <2> SUFFICES ASSUME k + 1 <= Len(w) PROVE Simple(upto(u, k + 1)) = Simple(upto(v, k + 1))
    OBVIOUS
  <2>1. Simple(upto(u, k)) = Simple(upto(v, k))
    BY <1>3
  <2> HIDE DEF upto
  <2>2. /\ Simple(upto(u, k + 1)) = Once(Simple(upto(u, k)), w[k + 1])
        /\ Simple(upto(v, k + 1)) = Once(Simple(upto(v, k)), w[k + 1])
    BY <1>2, SimpleMore
  <2> QED
    BY <2>1, <2>2
<1>4. Nat \subseteq A
  <2> HIDE DEF A
  <2> QED BY <1>1, <1>3, NaturalsFrom
<1>5. SubSeq(w, 1, Len(w)) = w
  OBVIOUS
<1>6. upto(u, Len(w)) = u \o w /\ upto(v, Len(w)) = v \o w
  BY <1>5
<1>7. Simple(upto(u, Len(w))) = Simple(upto(v, Len(w)))
  <2>1. Len(w) \in Nat
    OBVIOUS
  <2> HIDE DEF upto
  <2> QED
    BY <1>4, <2>1
<1> HIDE DEF upto
<1> QED
  BY <1>6, <1>7

LEMMA SameText ==
  ASSUME NEW S, NEW s \in Seq(S), NEW t \in Seq(S), Len(s) = Len(t), \A k \in 1 .. Len(s) : s[k] = t[k]
  PROVE  s = t
OBVIOUS

Joins(a, b, c) ==
    /\ c \in Seq(Letter) /\ Len(c) = Len(a) + Len(b)
    /\ \A i \in 1 .. Len(a) : c[i] = a[i]
    /\ \A i \in 1 .. Len(b) : c[Len(a) + i] = b[i]

LEMMA Joined ==
  ASSUME NEW a \in Seq(Letter), NEW b \in Seq(Letter)
  PROVE  Joins(a, b, a \o b)
BY DEF Joins

LEMMA Regrouped ==
  ASSUME NEW a \in Seq(Letter), NEW b \in Seq(Letter), NEW c \in Seq(Letter)
  PROVE  (a \o b) \o c = a \o (b \o c)
<1> DEFINE x == (a \o b) \o c
           y == a \o (b \o c)
<1>1. x \in Seq(Letter) /\ y \in Seq(Letter) /\ Len(x) = Len(y) /\ Len(x) = Len(a) + Len(b) + Len(c)
  OBVIOUS
<1>2. ASSUME NEW k \in 1 .. Len(x) PROVE x[k] = y[k]
  <2>1. k \in 1 .. Len(a) + Len(b) + Len(c)
    BY <1>1
  <2>2. CASE k <= Len(a)
    BY <2>1, <2>2
  <2>3. CASE k > Len(a) /\ k <= Len(a) + Len(b)
    BY <2>1, <2>3
  <2>4. CASE k > Len(a) + Len(b)
    BY <2>1, <2>4
  <2> QED
    BY <2>1, <2>2, <2>3, <2>4
<1> HIDE DEF x, y
<1>3. x = y
  BY <1>1, <1>2, SameText
<1> QED
  BY <1>3 DEF x, y

LEMMA SlashAgain ==
  ASSUME NEW u \in Seq(Letter), u # <<>>, u[Len(u)] = "/"
  PROVE  Simple(Append(u, "/")) = Simple(u)
<1> DEFINE n == Len(u) - 1
           v == SubSeq(u, 1, n)
<1>1. "/" \in Letter
  BY DEF Letter
<1>2. n \in Nat /\ v \in Seq(Letter) /\ u = Append(v, "/")
  <2>1. n \in Nat /\ n + 1 = Len(u)
    OBVIOUS
  <2>2. v \in Seq(Letter) /\ Len(v) = n /\ \A k \in 1 .. n : v[k] = u[k]
    BY <2>1
  <2> DEFINE w == Append(v, "/")
  <2> HIDE DEF v
  <2>3. w \in Seq(Letter) /\ Len(w) = Len(u) /\ w[Len(u)] = "/" /\ \A k \in 1 .. n : w[k] = u[k]
    <3>1. w \in Seq(Letter) /\ Len(w) = Len(v) + 1 /\ w[Len(v) + 1] = "/" /\ \A k \in 1 .. Len(v) : w[k] = v[k]
      BY <1>1, <2>2
    <3> HIDE DEF w
    <3>2. Len(v) + 1 = Len(u)
      BY <2>1, <2>2
    <3>3. w \in Seq(Letter) /\ Len(w) = Len(u) /\ w[Len(u)] = "/"
      BY <3>1, <3>2
    <3>4. \A k \in 1 .. n : w[k] = u[k]
      BY <2>2, <3>1
    <3> QED
      BY <3>3, <3>4
  <2>4. \A k \in 1 .. Len(u) : w[k] = u[k]
    BY <2>1, <2>3
  <2> HIDE DEF w
  <2>5. w = u
    BY <2>3, <2>4, SameText
  <2> QED
    BY <2>1, <2>2, <2>5 DEF w
<1> HIDE DEF v, n
<1> DEFINE r == Simple(v)
           q == Simple(u)
<1>3. r \in Seq(Letter) /\ q = Once(r, "/")
  BY <1>1, <1>2, SimpleMore
<1>4. Simple(Append(u, "/")) = Once(q, "/")
  BY <1>1, SimpleMore
<1> HIDE DEF r, q
<1>5. q \in Seq(Letter) /\ q # <<>> /\ Last(q) = "/"
  <2>1. CASE q = r /\ r # <<>> /\ is_sep(Last(r))
    BY <1>3, <2>1 DEF is_sep
  <2>2. CASE q = Append(r, "/")
    BY <1>1, <1>3, <2>2 DEF Last
  <2> QED
    BY <1>3, <2>1, <2>2 DEF Once
<1>6. Once(q, "/") = q
  BY <1>5 DEF Once, is_sep
<1> QED
  BY <1>4, <1>6 DEF q

LEMMA LastOf ==
  ASSUME NEW n \in Nat, NEW S \in SUBSET (1 .. n), NEW m, m = Max({0} \cup S)
  PROVE  m \in 0 .. n /\ (m > 0 => m \in S) /\ \A i \in S : i <= m
<1>1. \E x \in {0} \cup S : \A y \in {0} \cup S : x >= y
  <2>1. CASE S = {}
    BY <2>1
  <2>2. CASE S # {}
    <3>1. PICK x \in S : \A y \in S : x >= y
      BY <2>2, Extremes
    <3> QED
      BY <3>1
  <2> QED
    BY <2>1, <2>2
<1>2. m \in {0} \cup S /\ \A y \in {0} \cup S : m >= y
  BY <1>1 DEF Max
<1> QED
  BY <1>2

\* Where a path is parted: at its last slash, and before the slashes there.
Cut(p, last, kept) ==
    /\ last \in 0 .. Len(p) /\ (last > 0 => p[last] = "/")
    /\ \A i \in 1 .. Len(p) : p[i] = "/" => i <= last
    /\ kept \in 0 .. last /\ (kept > 0 => p[kept] # "/")
    /\ \A i \in 1 .. last : p[i] # "/" => i <= kept

Parted(p, last, kept) ==
    /\ Cut(p, last, kept)
    /\ filename(p) = SubSeq(p, last + 1, Len(p))
    /\ dirname(p) = IF last = 0 THEN <<>>
                    ELSE IF kept > 0 THEN SubSeq(p, 1, kept)
                    ELSE IF last = Len(p) THEN p ELSE <<"/">>

LEMMA PathParted ==
  ASSUME NEW p \in Seq(Letter)
  PROVE  \E last, kept \in Nat : Parted(p, last, kept)
<1> DEFINE S == {i \in DOMAIN p : is_sep(p[i])}
           last == Max({0} \cup S)
           T == {i \in 1 .. last : ~is_sep(p[i])}
           kept == Max({0} \cup T)
<1>1. Len(p) \in Nat /\ DOMAIN p = 1 .. Len(p)
  OBVIOUS
<1>2. S \in SUBSET (1 .. Len(p))
  BY <1>1
<1>3. last \in 0 .. Len(p) /\ (last > 0 => last \in S) /\ \A i \in S : i <= last
  <2> HIDE DEF S
  <2> QED BY <1>1, <1>2, LastOf
<1>4. last \in Nat /\ T \in SUBSET (1 .. last)
  BY <1>1, <1>3
<1>5. kept \in 0 .. last /\ (kept > 0 => kept \in T) /\ \A i \in T : i <= kept
  <2> HIDE DEF T, last
  <2> QED BY <1>4, LastOf
<1>6. /\ filename(p) = SubSeq(p, last + 1, Len(p))
      /\ dirname(p) = IF last = 0 THEN <<>>
                      ELSE IF kept > 0 THEN SubSeq(p, 1, kept)
                      ELSE IF last = Len(p) THEN p ELSE <<"/">>
  BY Zenon DEF filename, dirname
<1>7. /\ last > 0 => p[last] = "/"
      /\ \A i \in 1 .. Len(p) : p[i] = "/" => i <= last
  <2>1. \A i : i \in S <=> i \in 1 .. Len(p) /\ p[i] = "/"
    BY <1>1 DEF is_sep
  <2> HIDE DEF S, last
  <2> QED
    BY <1>3, <2>1
<1>8. /\ kept > 0 => p[kept] # "/"
      /\ \A i \in 1 .. last : p[i] # "/" => i <= kept
  <2>1. \A i : i \in T <=> i \in 1 .. last /\ p[i] # "/"
    BY DEF is_sep
  <2> HIDE DEF T, last, kept
  <2> QED
    BY <1>5, <2>1
<1> HIDE DEF last, kept
<1>9. kept \in Nat
  BY <1>4, <1>5
<1>10. Parted(p, last, kept)
  <2>1. Cut(p, last, kept)
    BY <1>3, <1>5, <1>7, <1>8 DEF Cut
  <2> QED
    BY <1>6, <2>1 DEF Parted
<1> QED
  BY <1>4, <1>9, <1>10

LEMMA OncePrefixed ==
  ASSUME NEW pre \in Seq(Letter), NEW p \in Seq(Letter),
         is_absolute(pre) \/ dotted_optout(pre) \/ syntactically_unprefixable(pre)
  PROVE  prefix_by_intent(pre, prefix_by_intent(pre, p)) = prefix_by_intent(pre, p)
<1> DEFINE Optout(q) == syntactically_unprefixable(q) \/ dotted_optout(q) \/ slashed_optout(q)
           r == prefix_by_intent(pre, p)
<1>1. \A q : Optout(q) => prefix_by_intent(pre, q) = q
  BY DEF prefix_by_intent
<1>2. pre # <<>> /\ Len(pre) \in Nat \ {0}
  <2>1. pre # <<>>
    <3>1. ~is_absolute(<<>>) /\ ~syntactically_unprefixable(<<>>)
      BY DEF is_absolute, syntactically_unprefixable
    <3>2. ~dotted_optout(<<>>)
      BY DEF dotted_optout
    <3> QED
      BY <3>1, <3>2
  <2> QED
    BY <2>1
<1>3. Optout(pre)
  BY DEF is_absolute, slashed_optout, is_sep
<1>4. CASE Optout(p)
  BY <1>1, <1>4
<1>5. CASE ~Optout(p) /\ p = <<>>
  <2>1. r = pre
    BY <1>2, <1>5 DEF prefix_by_intent
  <2> QED
    BY <1>1, <1>3, <2>1
<1>6. CASE ~Optout(p) /\ p # <<>>
  <2> DEFINE sep == IF is_sep(Last(pre)) THEN <<>> ELSE <<"/">>
             more == sep \o p
  <2>1. r = pre \o sep \o p
    BY <1>2, <1>6 DEF prefix_by_intent
  <2>2. sep \in Seq(Letter) /\ more \in Seq(Letter) /\ (pre \o sep) \o p = pre \o more
    <3>1. sep \in Seq(Letter)
      <4>1. "/" \in Letter
        BY DEF Letter
      <4>2. <<>> \in Seq(Letter) /\ <<"/">> \in Seq(Letter)
        BY <4>1
      <4> QED
        BY <4>2
    <3> HIDE DEF sep
    <3>2. (pre \o sep) \o p = pre \o more
      BY <3>1, Regrouped
    <3> QED
      BY <3>1, <3>2
  <2>3. r = pre \o more
    BY <2>1, <2>2
  <2>4. pre = <<".">> => more[1] = "/" /\ Len(more) >= 1
    <3>1. pre = <<".">> => Last(pre) = "."
      BY DEF Last
    <3>2. pre = <<".">> => sep = <<"/">>
      BY <3>1 DEF is_sep
    <3> QED
      BY <3>2
  <2> HIDE DEF more
  <2> DEFINE q == pre \o more
  <2>5. Len(q) = Len(pre) + Len(more) /\ Len(more) \in Nat /\ q[1] = pre[1] /\ (Len(pre) >= 2 => q[2] = pre[2])
        /\ (Len(pre) = 1 /\ Len(more) >= 1 => q[2] = more[1])
    BY <1>2, <2>2
  <2>6. q # <<>>
    BY <1>2, <2>5
  <2> HIDE DEF q
  <2>7. Optout(q)
    <3>1. CASE syntactically_unprefixable(pre)
      BY <2>5, <2>6, <3>1 DEF syntactically_unprefixable
    <3>2. CASE is_absolute(pre)
      BY <2>5, <2>6, <3>2 DEF is_absolute, slashed_optout, is_sep
    <3>3. CASE dotted_optout(pre)
      <4>1. CASE pre = <<".">>
        <5>1. Len(pre) = 1 /\ pre[1] = "."
          BY <4>1
        <5>2. Len(q) >= 2 /\ q[1] = "." /\ q[2] = "/"
          BY <2>4, <2>5, <4>1, <5>1
        <5> QED
          BY <5>2 DEF dotted_optout, is_sep
      <4>2. CASE Len(pre) >= 2 /\ pre[1] = "." /\ is_sep(pre[2])
        BY <2>5, <4>2 DEF dotted_optout
      <4> QED
        BY <3>3, <4>1, <4>2 DEF dotted_optout
    <3> QED
      BY <3>1, <3>2, <3>3
  <2> QED
    BY <1>1, <2>3, <2>7 DEF q
<1> QED
  BY <1>4, <1>5, <1>6

LEMMA Rebased ==
  ASSUME NEW pre \in Seq(Letter), NEW p \in Seq(Letter), NEW r, r = prefix_by_intent(pre, p)
  PROVE  \/ r = p
         \/ p = <<>> /\ r = pre
         \/ /\ pre # <<>> /\ p # <<>> /\ p[1] # "/"
            /\ \/ pre[Len(pre)] = "/" /\ r = pre \o p
               \/ pre[Len(pre)] # "/" /\ r = (pre \o <<"/">>) \o p
<1>1. CASE syntactically_unprefixable(p) \/ dotted_optout(p) \/ slashed_optout(p) \/ pre = <<>> \/ p = <<>>
  BY <1>1 DEF prefix_by_intent
<1>2. CASE ~slashed_optout(p) /\ pre # <<>> /\ p # <<>> /\ r = pre \o (IF is_sep(Last(pre)) THEN <<>> ELSE <<"/">>) \o p
  <2>1. p[1] # "/"
    BY <1>2 DEF slashed_optout, is_sep
  <2>2. CASE pre[Len(pre)] = "/"
    <3>1. r = (pre \o <<>>) \o p
      BY <1>2, <2>2 DEF is_sep, Last
    <3>2. pre \o <<>> = pre
      OBVIOUS
    <3> QED
      BY <1>2, <2>1, <2>2, <3>1, <3>2
  <2>3. CASE pre[Len(pre)] # "/"
    BY <1>2, <2>1, <2>3 DEF is_sep, Last
  <2> QED
    BY <2>2, <2>3
<1> QED
  BY <1>1, <1>2 DEF prefix_by_intent

LEMMA DoubledBy ==
  ASSUME NEW p, NEW i \in 1 .. Len(p) - 1, p[i] = "/", p[i + 1] = "/"
  PROVE  Doubled(p)
BY DEF Doubled, is_sep

LEMMA NothingDoubled ==
  ASSUME NEW pre \in Seq(Letter), NEW p \in Seq(Letter), Doubled(prefix_by_intent(pre, p))
  PROVE  Doubled(pre) \/ Doubled(p)
<1> DEFINE r == prefix_by_intent(pre, p)
           m == Len(pre)
<1>0. Doubled(r) /\ m \in Nat /\ Len(p) \in Nat
  OBVIOUS
<1> HIDE DEF r
<1>1. CASE pre # <<>> /\ p # <<>> /\ p[1] # "/" /\ r = pre \o p
  <2>1. Len(r) = m + Len(p) /\ (\A i \in 1 .. m : r[i] = pre[i]) /\ (\A i \in 1 .. Len(p) : r[m + i] = p[i])
    BY <1>1
  <2>2. PICK i \in 1 .. Len(r) - 1 : r[i] = "/" /\ r[i + 1] = "/"
    BY <1>0 DEF Doubled, is_sep
  <2>3. CASE i < m
    <3>1. i \in 1 .. m - 1 /\ i \in 1 .. m /\ i + 1 \in 1 .. m
      BY <1>0, <2>3
    <3>2. r[i] = pre[i] /\ r[i + 1] = pre[i + 1]
      <4> HIDE DEF m
      <4> QED BY <2>1, <3>1
    <3>3. pre[i] = "/" /\ pre[i + 1] = "/"
      BY <2>2, <3>2
    <3> QED
      BY <3>1, <3>3, DoubledBy
  <2>4. CASE i = m
    <3>1. r[m + 1] = p[1]
      BY <1>0, <1>1, <2>1
    <3> QED
      BY <1>1, <2>2, <2>4, <3>1
  <2>5. CASE i > m
    <3> DEFINE k == i - m
    <3>1. k \in 1 .. Len(p) - 1 /\ k \in 1 .. Len(p) /\ k + 1 \in 1 .. Len(p) /\ m + k = i /\ m + (k + 1) = i + 1
      BY <1>0, <2>1, <2>2, <2>5
    <3> HIDE DEF k, m
    <3>2. r[m + k] = p[k] /\ r[m + (k + 1)] = p[k + 1]
      BY <2>1, <3>1
    <3>3. p[k] = "/" /\ p[k + 1] = "/"
      BY <2>2, <3>1, <3>2
    <3> QED
      BY <3>1, <3>3, DoubledBy
  <2> QED
    BY <1>0, <2>3, <2>4, <2>5
<1>2. CASE pre # <<>> /\ p # <<>> /\ p[1] # "/" /\ pre[m] # "/" /\ r = (pre \o <<"/">>) \o p
  <2>1. /\ Len(r) = m + 1 + Len(p) /\ \A i \in 1 .. m : r[i] = pre[i]
        /\ \A i \in 1 .. Len(p) : r[m + 1 + i] = p[i]
    <3> DEFINE q == pre \o <<"/">>
    <3>1. "/" \in Letter
      BY DEF Letter
    <3>2. q \in Seq(Letter) /\ Len(q) = m + 1 /\ \A i \in 1 .. m : q[i] = pre[i]
      BY <3>1
    <3> HIDE DEF q
    <3>3. Joins(q, p, r)
      BY <1>2, <3>2, Joined DEF q
    <3> HIDE DEF m, q
    <3>4. Len(r) = m + 1 + Len(p)
      BY <1>0, <3>2, <3>3 DEF Joins
    <3>5. \A i \in 1 .. m : r[i] = pre[i]
      <4>1. \A i \in 1 .. m : i \in 1 .. m + 1
        BY <1>0
      <4> QED
        BY <3>2, <3>3, <4>1 DEF Joins
    <3>6. \A i \in 1 .. Len(p) : r[m + 1 + i] = p[i]
      BY <3>2, <3>3 DEF Joins
    <3> QED
      BY <3>4, <3>5, <3>6
  <2>2. PICK i \in 1 .. Len(r) - 1 : r[i] = "/" /\ r[i + 1] = "/"
    BY <1>0 DEF Doubled, is_sep
  <2>3. CASE i < m
    <3>1. i \in 1 .. m - 1 /\ i \in 1 .. m /\ i + 1 \in 1 .. m
      BY <1>0, <2>3
    <3>2. r[i] = pre[i] /\ r[i + 1] = pre[i + 1]
      <4> HIDE DEF m
      <4> QED BY <2>1, <3>1
    <3>3. pre[i] = "/" /\ pre[i + 1] = "/"
      BY <2>2, <3>2
    <3> QED
      BY <3>1, <3>3, DoubledBy
  <2>4. CASE i = m
    <3>1. r[m] = pre[m]
      BY <2>1, <2>2, <2>4
    <3> QED
      BY <1>2, <2>2, <2>4, <3>1
  <2>5. CASE i = m + 1
    <3>1. 1 \in 1 .. Len(p) /\ i + 1 = m + 1 + 1
      BY <1>0, <1>2, <2>5
    <3>2. r[i + 1] = p[1]
      BY <2>1, <3>1
    <3> QED
      BY <1>2, <2>2, <3>2
  <2>6. CASE i > m + 1
    <3> DEFINE k == i - m - 1
    <3>1. /\ k \in 1 .. Len(p) - 1 /\ k \in 1 .. Len(p) /\ k + 1 \in 1 .. Len(p)
          /\ m + 1 + k = i /\ m + 1 + (k + 1) = i + 1
      BY <1>0, <2>1, <2>2, <2>6
    <3> HIDE DEF k, m
    <3>2. r[m + 1 + k] = p[k] /\ r[m + 1 + (k + 1)] = p[k + 1]
      BY <2>1, <3>1
    <3>3. p[k] = "/" /\ p[k + 1] = "/"
      BY <2>2, <3>1, <3>2
    <3> QED
      BY <3>1, <3>3, DoubledBy
  <2> QED
    BY <1>0, <2>3, <2>4, <2>5, <2>6
<1>3. CASE r = p \/ r = pre
  BY <1>0, <1>3
<1> QED
  BY <1>1, <1>2, <1>3, Rebased DEF r

LEMMA StaysBelow ==
  ASSUME NEW pre \in Seq(Letter), NEW p \in Seq(Letter), prefix_by_intent(pre, p) # p, p # <<>>
  PROVE  Simple(prefix_by_intent(pre, p)) = Simple(pre \o <<"/">> \o p)
<1> DEFINE r == prefix_by_intent(pre, p)
<1>1. CASE r = (pre \o <<"/">>) \o p
  BY <1>1
<1>2. CASE pre # <<>> /\ pre[Len(pre)] = "/" /\ r = pre \o p
  <2> DEFINE q == Append(pre, "/")
  <2>1. q \in Seq(Letter) /\ q = pre \o <<"/">>
    <3>1. "/" \in Letter
      BY DEF Letter
    <3> QED
      BY <3>1
  <2>2. Simple(q) = Simple(pre)
    BY <1>2, SlashAgain
  <2> HIDE DEF q, r
  <2>3. Simple(pre \o p) = Simple(q \o p)
    BY <2>1, <2>2, SimpleTogether
  <2> QED
    BY <1>2, <2>1, <2>3 DEF r
<1> QED
  BY <1>1, <1>2, Rebased

LEMMA PartedAt ==
  ASSUME NEW p \in Seq(Letter), NEW last, NEW kept, Cut(p, last, kept)
  PROVE  Parted(p, last, kept)
<1>1. PICK l, k \in Nat : Parted(p, l, k)
  BY PathParted
<1>2. Cut(p, l, k) /\ last \in Nat /\ kept \in Nat /\ Len(p) \in Nat
  BY <1>1 DEF Parted, Cut
<1>3. l = last
  BY <1>2 DEF Cut
<1>4. k = kept
  BY <1>2, <1>3 DEF Cut
<1> QED
  BY <1>1, <1>3, <1>4

LEMMA FirstMore ==
  ASSUME NEW p \in Seq(Letter), NEW k \in 0 .. Len(p) - 1
  PROVE  /\ SubSeq(p, 1, k) \in Seq(Letter) /\ p[k + 1] \in Letter
         /\ SubSeq(p, 1, k + 1) = Append(SubSeq(p, 1, k), p[k + 1])
OBVIOUS

LEMMA Divided ==
  ASSUME NEW p \in Seq(Letter), NEW k \in 0 .. Len(p)
  PROVE  /\ SubSeq(p, 1, k) \in Seq(Letter) /\ SubSeq(p, k + 1, Len(p)) \in Seq(Letter)
         /\ SubSeq(p, 1, k) \o SubSeq(p, k + 1, Len(p)) = p
<1> DEFINE a == SubSeq(p, 1, k)
           b == SubSeq(p, k + 1, Len(p))
           n == Len(p)
<1>1. n \in Nat /\ k \in Nat /\ k <= n
  OBVIOUS
<1>2. a \in Seq(Letter) /\ Len(a) = k /\ \A i \in 1 .. k : a[i] = p[i]
  OBVIOUS
<1>3. b \in Seq(Letter) /\ Len(b) = n - k /\ \A i \in 1 .. n - k : b[i] = p[k + i]
  OBVIOUS
<1> HIDE DEF a, b
<1> DEFINE c == a \o b
<1>4. c \in Seq(Letter) /\ Len(c) = n
  BY <1>1, <1>2, <1>3
<1>5. ASSUME NEW i \in 1 .. n PROVE c[i] = p[i]
  <2>1. CASE i <= k
    <3>1. i \in 1 .. Len(a) /\ i \in 1 .. k
      BY <1>1, <1>2, <2>1
    <3>2. c[i] = a[i]
      BY <1>2, <1>3, <3>1
    <3> HIDE DEF c
    <3> QED
      BY <1>2, <3>1, <3>2
  <2>2. CASE i > k
    <3> DEFINE j == i - k
    <3>1. j \in 1 .. n - k /\ k + j = i
      BY <1>1, <2>2
    <3>2. c[k + j] = b[j]
      BY <1>1, <1>2, <1>3, <3>1
    <3> HIDE DEF j, c
    <3> QED
      BY <1>3, <3>1, <3>2
  <2> HIDE DEF c
  <2> QED
    BY <1>1, <2>1, <2>2
<1> HIDE DEF c
<1>6. c = p
  BY <1>4, <1>5, SameText
<1> QED
  BY <1>2, <1>3, <1>6 DEF a, b, c

LEMMA SlashesMerge ==
  ASSUME NEW p \in Seq(Letter), NEW last \in Nat, NEW kept \in Nat, kept < last, last <= Len(p),
         \A i \in 1 .. last : p[i] # "/" => i <= kept
  PROVE  Simple(SubSeq(p, 1, last)) = Simple(Append(SubSeq(p, 1, kept), "/"))
<1> DEFINE start(k) == SubSeq(p, 1, k)
           A == {j \in Nat : kept + 1 + j <= last => Simple(start(kept + 1 + j)) = Simple(Append(start(kept), "/"))}
<1>1. ASSUME NEW k \in Nat, kept <= k, k < last
      PROVE  /\ start(k) \in Seq(Letter) /\ Len(start(k)) = k /\ start(k + 1) = Append(start(k), "/")
             /\ k > kept => start(k)[k] = "/"
  <2>1. k \in 0 .. Len(p) - 1 /\ k + 1 \in 1 .. last /\ p[k + 1] = "/"
    BY <1>1
  <2>2. start(k) \in Seq(Letter) /\ start(k + 1) = Append(start(k), "/")
    BY <2>1, FirstMore
  <2>3. Len(start(k)) = k
    BY <2>1
  <2>4. k > kept => start(k)[k] = p[k] /\ k \in 1 .. last
    BY <2>1
  <2> QED
    BY <2>2, <2>3, <2>4
<1>2. 0 \in A
  <2>1. start(kept + 1) = Append(start(kept), "/")
    BY <1>1
  <2>2. kept + 1 + 0 = kept + 1
    OBVIOUS
  <2> HIDE DEF start
  <2> QED
    BY <2>1, <2>2
<1>3. ASSUME NEW j \in Nat, j \in A PROVE j + 1 \in A
  <2> SUFFICES ASSUME kept + 1 + (j + 1) <= last
               PROVE  Simple(start(kept + 1 + (j + 1))) = Simple(Append(start(kept), "/"))
    OBVIOUS
  <2> DEFINE k == kept + 1 + j
             u == start(k)
  <2>1. k \in Nat /\ kept < k /\ k < last /\ kept + 1 + (j + 1) = k + 1 /\ k <= last
    OBVIOUS
  <2>2. Simple(u) = Simple(Append(start(kept), "/"))
    BY <1>3, <2>1
  <2> HIDE DEF start, k
  <2>3. u \in Seq(Letter) /\ Len(u) = k /\ start(k + 1) = Append(u, "/") /\ u[k] = "/"
    BY <1>1, <2>1
  <2> HIDE DEF u
  <2>4. u # <<>>
    BY <2>1, <2>3
  <2>5. Simple(Append(u, "/")) = Simple(u)
    BY <2>3, <2>4, SlashAgain
  <2> QED
    BY <2>1, <2>2, <2>3, <2>5
<1>4. Nat \subseteq A
  <2> HIDE DEF A
  <2> QED BY <1>2, <1>3, NaturalsFrom
<1> DEFINE j == last - (kept + 1)
<1>5. j \in Nat /\ kept + 1 + j = last
  OBVIOUS
<1>6. j \in A
  BY <1>4, <1>5
<1> HIDE DEF j, start
<1>7. Simple(start(kept + 1 + j)) = Simple(Append(start(kept), "/"))
  BY <1>5, <1>6
<1> QED
  BY <1>5, <1>7 DEF start

LEMMA PutTogether ==
  ASSUME NEW p \in Seq(Letter)
  PROVE  LET d == dirname(p)
         IN  \/ d # <<>> /\ Last(d) = "\\"
             \/ Simple(endslash_fixup(d) \o basename(p, TRUE)) = Simple(p)
<1> DEFINE d == dirname(p)
           f == filename(p)
<1>1. PICK last, kept \in Nat : Parted(p, last, kept)
  BY PathParted
<1> DEFINE a == SubSeq(p, 1, last)
           b == SubSeq(p, 1, kept)
<1>2. /\ f = SubSeq(p, last + 1, Len(p)) /\ last \in 0 .. Len(p) /\ kept \in 0 .. Len(p)
      /\ (last > 0 => p[last] = "/")
      /\ d = IF last = 0 THEN <<>> ELSE IF kept > 0 THEN b ELSE IF last = Len(p) THEN p ELSE <<"/">>
  BY <1>1 DEF Parted, Cut
<1>3. a \in Seq(Letter) /\ f \in Seq(Letter) /\ a \o f = p /\ b \in Seq(Letter)
  BY <1>2, Divided
<1>4. (kept > 0 => kept < last) /\ \A i \in 1 .. last : p[i] # "/" => i <= kept
  BY <1>1 DEF Parted, Cut
<1>5. "/" \in Letter /\ Append(b, "/") \in Seq(Letter)
  <2>1. "/" \in Letter
    BY DEF Letter
  <2> QED
    BY <1>3, <2>1
<1>6. kept < last => Simple(Append(b, "/") \o f) = Simple(p)
  <2> SUFFICES ASSUME kept < last PROVE Simple(Append(b, "/") \o f) = Simple(p)
    OBVIOUS
  <2>1. Simple(a) = Simple(Append(b, "/"))
    BY <1>2, <1>4, SlashesMerge
  <2> HIDE DEF a, b, f
  <2>2. Simple(a \o f) = Simple(Append(b, "/") \o f)
    BY <1>3, <1>5, <2>1, SimpleTogether
  <2> QED
    BY <1>3, <2>2
<1>7. CASE last = 0
  <2>1. a = <<>> /\ d = <<>>
    BY <1>2, <1>7
  <2>2. endslash_fixup(d) = a
    BY <2>1 DEF endslash_fixup
  <2> QED
    BY <1>3, <2>2 DEF basename
<1>8. CASE last > 0 /\ kept > 0
  <2>1. d = b /\ kept < last /\ Len(b) = kept
    BY <1>2, <1>4, <1>8
  <2> HIDE DEF d, b, f
  <2>2. b # <<>>
    BY <1>3, <1>8, <2>1
  <2>3. p[kept] # "/" /\ Last(b) = p[kept]
    BY <1>1, <1>2, <1>8, <2>1 DEF Parted, Cut, Last, b
  <2>4. CASE Last(b) = "\\"
    BY <2>1, <2>2, <2>4 DEF d
  <2>5. CASE Last(b) # "\\"
    <3>1. endslash_fixup(d) = Append(b, "/")
      BY <2>1, <2>2, <2>3, <2>5 DEF endslash_fixup
    <3> QED
      BY <1>6, <2>1, <3>1 DEF d, f, basename
  <2> QED
    BY <2>4, <2>5
<1>9. CASE last > 0 /\ kept = 0 /\ last = Len(p)
  <2>1. d = p /\ p # <<>> /\ Last(p) = "/" /\ a = p
    BY <1>2, <1>9 DEF Last
  <2>2. endslash_fixup(d) = p
    BY <2>1 DEF endslash_fixup
  <2> QED
    BY <1>3, <2>1, <2>2 DEF basename
<1>10. CASE last > 0 /\ kept = 0 /\ last # Len(p)
  <2>1. d = <<"/">> /\ b = <<>> /\ kept < last
    BY <1>2, <1>10
  <2>2. Append(<<>>, "/") = <<"/">> /\ Last(<<"/">>) = "/"
    BY DEF Last
  <2>3. endslash_fixup(<<"/">>) = <<"/">>
    BY <2>2 DEF endslash_fixup
  <2> HIDE DEF d, b, f
  <2>4. Simple(<<"/">> \o f) = Simple(p)
    BY <1>6, <2>1, <2>2
  <2>5. Simple(endslash_fixup(d) \o f) = Simple(p)
    BY <2>1, <2>3, <2>4
  <2>6. basename(p, TRUE) = f
    BY DEF f, basename
  <2> QED
    BY <2>5, <2>6 DEF d
<1>11. \/ last = 0 \/ (last > 0 /\ kept > 0)
       \/ (last > 0 /\ kept = 0 /\ last = Len(p)) \/ (last > 0 /\ kept = 0 /\ last # Len(p))
  OBVIOUS
<1> HIDE DEF a, b, d, f
<1> QED
  BY <1>7, <1>8, <1>9, <1>10, <1>11, Zenon

-----------------------------------------------------------------------------
(* Names and their dots                                                      *)

Dotted(p, dot) ==
    /\ dot \in 0 .. Len(p) /\ (dot > 0 => p[dot] = ".")
    /\ \A i \in 1 .. Len(p) : p[i] = "." => i <= dot

SplitAs(p, dot) ==
    splitFileName(p) = IF dot = 0 THEN [noExt |-> p, ext |-> <<>>]
                       ELSE [noExt |-> SubSeq(p, 1, dot - 1), ext |-> SubSeq(p, dot + 1, Len(p))]

LEMMA LastDot ==
  ASSUME NEW p \in Seq(Letter), NEW dot, dot = Max({0} \cup {i \in DOMAIN p : p[i] = "."})
  PROVE  Dotted(p, dot)
<1> DEFINE S == {i \in DOMAIN p : p[i] = "."}
<1>1. Len(p) \in Nat /\ DOMAIN p = 1 .. Len(p)
  OBVIOUS
<1>2. S \in SUBSET (1 .. Len(p)) /\ \A i : i \in S <=> i \in 1 .. Len(p) /\ p[i] = "."
  BY <1>1
<1> HIDE DEF S
<1>3. dot = Max({0} \cup S)
  BY DEF S
<1>4. dot \in 0 .. Len(p) /\ (dot > 0 => dot \in S) /\ \A i \in S : i <= dot
  BY <1>1, <1>2, <1>3, LastOf
<1> QED
  BY <1>2, <1>4 DEF Dotted

LEMMA SplitSomewhere ==
  ASSUME NEW p \in Seq(Letter)
  PROVE  \E dot \in Nat : Dotted(p, dot) /\ SplitAs(p, dot)
<1> DEFINE dot == Max({0} \cup {i \in DOMAIN p : p[i] = "."})
<1>1. SplitAs(p, dot)
  BY Zenon DEF splitFileName, SplitAs
<1> HIDE DEF dot
<1>2. Dotted(p, dot)
  BY LastDot DEF dot
<1>3. dot \in Nat
  BY <1>2 DEF Dotted
<1> QED
  BY <1>1, <1>2, <1>3

LEMMA SplitAt ==
  ASSUME NEW p \in Seq(Letter), NEW dot, Dotted(p, dot)
  PROVE  SplitAs(p, dot)
<1>1. PICK e \in Nat : Dotted(p, e) /\ SplitAs(p, e)
  BY SplitSomewhere
<1>2. e = dot
  BY <1>1 DEF Dotted
<1> QED
  BY <1>1, <1>2

LEMMA SuffixCut ==
  ASSUME NEW p \in Seq(Letter)
  PROVE  /\ IsPrefix(basename(p, FALSE), basename(p, TRUE))
         /\ basename(p, FALSE) = <<>> => basename(p, TRUE) = <<>>
<1> DEFINE f == filename(p)
           dot == Max({0} \cup {i \in DOMAIN f : f[i] = "."})
<1>1. f \in Seq(Letter)
  <2>1. PICK last, kept \in Nat : Parted(p, last, kept)
    BY PathParted
  <2>2. last \in 0 .. Len(p) /\ filename(p) = SubSeq(p, last + 1, Len(p))
    BY <2>1 DEF Parted, Cut
  <2> QED
    BY <2>2, Divided
<1>2. /\ basename(p, TRUE) = f
      /\ basename(p, FALSE) = IF dot <= 1 \/ f = <<".", ".">> THEN f ELSE SubSeq(f, 1, dot - 1)
  BY Zenon DEF basename
<1>3. Dotted(f, dot)
  <2> HIDE DEF f
  <2> QED BY <1>1, LastDot
<1> HIDE DEF dot, f
<1>4. CASE basename(p, FALSE) = f
  <2>1. IsPrefix(f, f)
    BY <1>1 DEF IsPrefix
  <2> QED
    BY <1>2, <1>4, <2>1
<1>5. CASE dot > 1 /\ basename(p, FALSE) = SubSeq(f, 1, dot - 1)
  <2> DEFINE g == SubSeq(f, 1, dot - 1)
  <2>1. dot \in 1 .. Len(f) /\ dot - 1 \in 1 .. Len(f)
    BY <1>3, <1>5 DEF Dotted
  <2>2. g \in Seq(Letter) /\ Len(g) = dot - 1 /\ SubSeq(g, 1, Len(g)) = g
    BY <1>1, <2>1
  <2>3. Len(g) <= Len(f) /\ SubSeq(f, 1, Len(g)) = g /\ g # <<>>
    BY <2>1, <2>2
  <2> HIDE DEF g
  <2>4. IsPrefix(g, f)
    BY <2>2, <2>3 DEF IsPrefix
  <2> QED
    BY <1>2, <1>5, <2>3, <2>4 DEF g
<1>6. dot \in Nat
  BY <1>3 DEF Dotted
<1>7. basename(p, FALSE) = f \/ (dot > 1 /\ basename(p, FALSE) = SubSeq(f, 1, dot - 1))
  <2>1. dot <= 1 \/ dot > 1
    BY <1>6
  <2> QED
    BY <1>2, <2>1, Zenon
<1> QED
  BY <1>4, <1>5, <1>7

\* q is p with "1." inserted after the dot at dot.
Numbered(p, dot, q) ==
    /\ q \in Seq(Letter) /\ Len(q) = Len(p) + 2
    /\ \A i \in 1 .. dot : q[i] = p[i]
    /\ q[dot + 1] = "1"
    /\ \A i \in dot .. Len(p) : q[i + 2] = p[i]

LEMMA FromDot ==
  ASSUME NEW p \in Seq(Letter), NEW dot \in 1 .. Len(p), p[dot] = "."
  PROVE  <<".">> \o SubSeq(p, dot + 1, Len(p)) = SubSeq(p, dot, Len(p))
<1> DEFINE c == SubSeq(p, dot + 1, Len(p))
           x == <<".">> \o c
           y == SubSeq(p, dot, Len(p))
           n == Len(p)
<1>1. n \in Nat /\ dot \in Nat /\ "." \in Letter
  BY DEF Letter
<1>2. c \in Seq(Letter) /\ Len(c) = n - dot /\ \A i \in 1 .. n - dot : c[i] = p[dot + i]
  OBVIOUS
<1>3. y \in Seq(Letter) /\ Len(y) = n - dot + 1 /\ \A i \in 1 .. n - dot + 1 : y[i] = p[dot + i - 1]
  OBVIOUS
<1> HIDE DEF c, y
<1>4. x \in Seq(Letter) /\ Len(x) = n - dot + 1
  <2>1. <<".">> \in Seq(Letter) /\ Len(<<".">>) = 1
    BY <1>1
  <2>2. x \in Seq(Letter) /\ Len(x) = 1 + Len(c)
    BY <1>2, <2>1, Joined DEF Joins
  <2> HIDE DEF x
  <2> QED
    BY <1>1, <1>2, <2>2
<1>5. ASSUME NEW i \in 1 .. n - dot + 1 PROVE x[i] = y[i]
  <2>1. CASE i = 1
    <3>1. x[1] = "." /\ dot + 1 - 1 = dot
      BY <1>1, <1>2
    <3> QED
      BY <1>1, <1>3, <2>1, <3>1
  <2>2. CASE i # 1
    <3> DEFINE j == i - 1
    <3>1. j \in 1 .. n - dot /\ 1 + j = i /\ dot + i - 1 = dot + j
      BY <1>1, <2>2
    <3> HIDE DEF j
    <3>2. x[1 + j] = c[j]
      BY <1>1, <1>2, <3>1
    <3> HIDE DEF x
    <3>3. c[j] = p[dot + j] /\ y[i] = p[dot + i - 1]
      BY <1>2, <1>3, <3>1
    <3> QED
      BY <3>1, <3>2, <3>3
  <2> QED
    BY <2>1, <2>2
<1> HIDE DEF x
<1>6. x = y
  BY <1>3, <1>4, <1>5, SameText
<1> QED
  BY <1>6 DEF x, y, c

LEMMA NumberInserted ==
  ASSUME NEW p \in Seq(Letter), NEW dot \in 1 .. Len(p) - 1, Dotted(p, dot)
  PROVE  /\ buildFileName(splitFileName(p), <<>>) = p
         /\ Numbered(p, dot, buildFileName(splitFileName(p), <<"1">>))
<1> DEFINE n == Len(p)
           a == SubSeq(p, 1, dot - 1)
           c == SubSeq(p, dot + 1, n)
           e == SubSeq(p, dot, n)
           m == a \o (<<".">> \o <<"1">>)
           s == splitFileName(p)
<1>1. n \in Nat /\ dot \in Nat /\ dot - 1 \in 0 .. n /\ (dot - 1) + 1 = dot /\ p[dot] = "." /\ dot \in 1 .. n
  BY DEF Dotted
<1>2. s = [noExt |-> a, ext |-> c]
  <2>1. SplitAs(p, dot) /\ dot # 0
    BY <1>1, SplitAt
  <2> QED
    BY <2>1, Zenon DEF SplitAs
<1>3. <<".">> \o c = e
  BY <1>1, FromDot
<1>4. a \in Seq(Letter) /\ e \in Seq(Letter) /\ a \o e = p
  BY <1>1, Divided
<1>5. c # <<>>
  <2>1. Len(c) = n - dot /\ n - dot > 0
    BY <1>1
  <2> HIDE DEF c
  <2> QED
    BY <2>1
<1>6. Len(a) = dot - 1 /\ \A i \in 1 .. dot - 1 : a[i] = p[i]
  BY <1>1
<1>7. Len(e) = n - dot + 1 /\ \A i \in 1 .. n - dot + 1 : e[i] = p[dot + i - 1]
  BY <1>1
<1> HIDE DEF a, c, e, s
<1>8. buildFileName(s, <<>>) = p
  <2>1. buildFileName(s, <<>>) = (a \o <<>>) \o e
    BY <1>2, <1>3, <1>5 DEF buildFileName
  <2>2. a \o <<>> = a
    BY <1>4
  <2> QED
    BY <1>4, <2>1, <2>2
<1>9. buildFileName(s, <<"1">>) = m \o e
  <2>1. <<"1">> # <<>>
    OBVIOUS
  <2> QED
    BY <1>2, <1>3, <1>5, <2>1, Zenon DEF buildFileName
<1>10. /\ m \in Seq(Letter) /\ Len(m) = dot + 1 /\ m[dot] = "." /\ m[dot + 1] = "1"
       /\ \A i \in 1 .. dot - 1 : m[i] = a[i]
  <2>1. "." \in Letter /\ "1" \in Letter
    BY DEF Letter
  <2> DEFINE b == <<".">> \o <<"1">>
  <2>3. <<".">> \in Seq(Letter) /\ <<"1">> \in Seq(Letter)
    BY <2>1
  <2>4. b \in Seq(Letter) /\ Len(b) = 2 /\ b[1] = "." /\ b[2] = "1"
    BY <2>3
  <2> HIDE DEF b
  <2>5. Joins(a, b, a \o b)
    BY <1>4, <2>4, Joined
  <2>6. m = a \o b
    BY DEF b
  <2> HIDE DEF m
  <2>7. m \in Seq(Letter) /\ Len(m) = dot + 1
    BY <1>1, <1>6, <2>4, <2>5, <2>6 DEF Joins
  <2>8. m[(dot - 1) + 1] = b[1] /\ m[(dot - 1) + 2] = b[2]
    BY <1>6, <2>4, <2>5, <2>6 DEF Joins
  <2>9. m[dot] = "." /\ m[dot + 1] = "1"
    <3>1. (dot - 1) + 2 = dot + 1
      BY <1>1
    <3> QED
      BY <1>1, <2>4, <2>8, <3>1
  <2>10. \A i \in 1 .. dot - 1 : m[i] = a[i]
    BY <1>6, <2>5, <2>6 DEF Joins
  <2> QED
    BY <2>7, <2>9, <2>10
<1> HIDE DEF m
<1> DEFINE q == m \o e
<1>q. Joins(m, e, q)
  BY <1>4, <1>10, Joined
<1> HIDE DEF q
<1>11. q \in Seq(Letter) /\ Len(q) = n + 2
  BY <1>1, <1>7, <1>10, <1>q DEF Joins
<1>12. \A i \in 1 .. dot + 1 : q[i] = m[i]
  BY <1>10, <1>q DEF Joins
<1>13. \A i \in 1 .. n - dot + 1 : q[dot + 1 + i] = e[i]
  BY <1>7, <1>10, <1>q DEF Joins
<1>14. ASSUME NEW i \in 1 .. dot PROVE q[i] = p[i]
  <2>1. CASE i = dot
    BY <1>1, <1>10, <1>12, <2>1
  <2>2. CASE i # dot
    <3>1. i \in 1 .. dot - 1 /\ i \in 1 .. dot + 1
      BY <1>1, <2>2
    <3> QED
      BY <1>6, <1>10, <1>12, <3>1
  <2> QED
    BY <2>1, <2>2
<1>15. ASSUME NEW i \in dot .. n PROVE q[i + 2] = p[i]
  <2> DEFINE j == i - dot + 1
  <2>1. j \in 1 .. n - dot + 1 /\ dot + 1 + j = i + 2 /\ dot + j - 1 = i
    BY <1>1
  <2> HIDE DEF j
  <2>2. q[dot + 1 + j] = e[j] /\ e[j] = p[dot + j - 1]
    BY <1>7, <1>13, <2>1
  <2> QED
    BY <2>1, <2>2
<1>16. q[dot + 1] = "1"
  <2>1. dot + 1 \in 1 .. dot + 1
    BY <1>1
  <2> QED
    BY <1>10, <1>12, <2>1
<1>17. Numbered(p, dot, q)
  BY <1>11, <1>14, <1>15, <1>16 DEF Numbered
<1> QED
  BY <1>8, <1>9, <1>17 DEF q, s

\* A number beyond the last slash leaves the directory as it is.
LEMMA SameDirectory ==
  ASSUME NEW p \in Seq(Letter), NEW dot \in 1 .. Len(p), NEW q, Numbered(p, dot, q),
         NEW last \in Nat, NEW kept \in Nat, Parted(p, last, kept), last < dot
  PROVE  dirname(q) = dirname(p)
<1> DEFINE n == Len(p)
<1>1. /\ n \in Nat /\ dot \in Nat /\ last <= n /\ kept <= last /\ dot <= n
      /\ q \in Seq(Letter) /\ Len(q) = n + 2
  BY DEF Numbered, Parted, Cut
<1>2. \A i \in 1 .. dot : q[i] = p[i]
  BY DEF Numbered
<1>3. Cut(q, last, kept)
  <2>1. /\ last > 0 => p[last] = "/"
        /\ \A i \in 1 .. n : p[i] = "/" => i <= last
        /\ kept > 0 => p[kept] # "/"
        /\ \A i \in 1 .. last : p[i] # "/" => i <= kept
    BY DEF Parted, Cut
  <2>2. ASSUME NEW i \in 1 .. Len(q), q[i] = "/" PROVE i <= last
    <3>1. CASE i <= dot
      <4>1. i \in 1 .. dot /\ i \in 1 .. n
        BY <1>1, <3>1
      <4> QED
        BY <1>2, <2>1, <2>2, <4>1
    <3>2. CASE i = dot + 1
      <4>1. q[dot + 1] = "1"
        BY DEF Numbered
      <4> QED
        BY <2>2, <3>2, <4>1
    <3>3. CASE i > dot + 1
      <4> DEFINE j == i - 2
      <4>1. j \in dot .. n /\ j + 2 = i /\ j \in 1 .. n /\ j >= dot
        BY <1>1, <3>3
      <4> HIDE DEF j
      <4>2. q[j + 2] = p[j]
        BY <4>1 DEF Numbered
      <4>3. j <= last
        BY <2>1, <2>2, <4>1, <4>2
      <4> QED
        BY <1>1, <4>1, <4>3
    <3> QED
      BY <1>1, <3>1, <3>2, <3>3
  <2>3. last > 0 => q[last] = "/"
    BY <1>1, <1>2, <2>1
  <2>4. kept > 0 => q[kept] # "/"
    BY <1>1, <1>2, <2>1
  <2>5. \A i \in 1 .. last : q[i] # "/" => i <= kept
    BY <1>1, <1>2, <2>1
  <2> QED
    BY <1>1, <2>2, <2>3, <2>4, <2>5 DEF Cut
<1>4. Parted(q, last, kept)
  BY <1>1, <1>3, PartedAt
<1>5. CASE last = 0
  BY <1>4, <1>5 DEF Parted
<1>6. CASE last > 0 /\ kept > 0
  <2> DEFINE u == SubSeq(q, 1, kept)
             v == SubSeq(p, 1, kept)
  <2>1. dirname(q) = u /\ dirname(p) = v
    BY <1>1, <1>4, <1>6 DEF Parted
  <2>2. u \in Seq(Letter) /\ Len(u) = kept /\ \A i \in 1 .. kept : u[i] = q[i]
    BY <1>1
  <2>3. v \in Seq(Letter) /\ Len(v) = kept /\ \A i \in 1 .. kept : v[i] = p[i]
    BY <1>1
  <2>4. \A i \in 1 .. kept : u[i] = v[i]
    BY <1>1, <1>2, <2>2, <2>3
  <2> HIDE DEF u, v
  <2>5. u = v
    BY <2>2, <2>3, <2>4, SameText
  <2> QED
    BY <2>1, <2>5
<1>7. CASE last > 0 /\ kept = 0
  <2>1. last # Len(p) /\ last # Len(q)
    BY <1>1
  <2> QED
    BY <1>4, <1>7, <2>1 DEF Parted
<1> QED
  BY <1>1, <1>5, <1>6, <1>7

LEMMA NumberBeside ==
  ASSUME NEW p \in Seq(Letter),
         filename(p) # <<>>, Last(filename(p)) # ".", Contains(filename(p), ".")
  PROVE  LET s == splitFileName(p)
         IN  /\ buildFileName(s, <<>>) = p
             /\ dirname(buildFileName(s, <<"1">>)) = dirname(p)
             /\ buildFileName(s, <<"1">>) # p
<1> DEFINE f == filename(p)
           n == Len(p)
           q == buildFileName(splitFileName(p), <<"1">>)
<1>1. PICK last, kept \in Nat : Parted(p, last, kept)
  BY PathParted
<1>2. n \in Nat /\ last \in 0 .. n /\ f = SubSeq(p, last + 1, n)
  BY <1>1 DEF Parted, Cut
<1>3. f \in Seq(Letter) /\ Len(f) = n - last /\ \A i \in 1 .. n - last : f[i] = p[last + i]
  BY <1>2
<1>4. PICK dot \in Nat : Dotted(p, dot)
  BY SplitSomewhere
<1>5. last < dot /\ dot \in 1 .. n - 1
  <2> HIDE DEF f
  <2>1. PICK i \in 1 .. Len(f) : f[i] = "."
    BY DEF Contains, f
  <2>2. last + i \in 1 .. n /\ p[last + i] = "."
    BY <1>2, <1>3, <2>1
  <2>3. last + i <= dot /\ dot <= n /\ p[dot] = "."
    BY <1>2, <2>2, <1>4 DEF Dotted
  <2>4. dot # n
    <3> DEFINE k == n - last
    <3>1. k \in 1 .. n - last /\ last + k = n /\ Len(f) = k
      BY <1>2, <1>3, <2>1
    <3> HIDE DEF k
    <3>2. Last(f) = f[k] /\ f[k] = p[last + k]
      BY <1>3, <3>1 DEF Last
    <3>3. p[n] # "."
      BY <3>1, <3>2 DEF f
    <3> QED
      BY <2>3, <3>3
  <2> QED
    BY <1>2, <2>1, <2>3, <2>4
<1>6. buildFileName(splitFileName(p), <<>>) = p /\ Numbered(p, dot, q)
  BY <1>4, <1>5, NumberInserted
<1> HIDE DEF q
<1>7. dirname(q) = dirname(p)
  <2>1. dot \in 1 .. Len(p)
    BY <1>2, <1>5
  <2> QED
    BY <1>1, <1>5, <1>6, <2>1, SameDirectory
<1>8. q # p
  BY <1>2, <1>6 DEF Numbered
<1> QED
  BY <1>6, <1>7, <1>8 DEF q

\* A path without a dot, and what becomes of it with a number.
LEMMA FormatOfPlain ==
  ASSUME NEW p \in Seq(Letter), Dotted(p, 0)
  PROVE  \A number \in {<<>>, <<"1">>} : isCsv(buildFileName(splitFileName(p), number)) = isCsv(p)
<1> DEFINE n == Len(p)
           s == splitFileName(p)
           b == <<".">> \o <<"1">>
           q == p \o b
<1>1. n \in Nat /\ \A i \in 1 .. n : p[i] # "."
  BY DEF Dotted
<1>2. s = [noExt |-> p, ext |-> <<>>]
  BY SplitAt, Zenon DEF SplitAs
<1>3. b \in Seq(Letter) /\ Len(b) = 2 /\ b[1] = "." /\ b[2] = "1"
  <2>1. "." \in Letter /\ "1" \in Letter
    BY DEF Letter
  <2>2. <<".">> \in Seq(Letter) /\ <<"1">> \in Seq(Letter)
    BY <2>1
  <2> QED
    BY <2>2
<1>4. buildFileName(s, <<>>) = p
  <2>1. p \o <<>> = p
    OBVIOUS
  <2> HIDE DEF s
  <2>2. buildFileName(s, <<>>) = (p \o <<>>) \o <<>>
    BY <1>2, Zenon DEF buildFileName
  <2> QED
    BY <2>1, <2>2, Zenon
<1>5. buildFileName(s, <<"1">>) = q
  <2>1. <<"1">> # <<>>
    OBVIOUS
  <2> HIDE DEF s
  <2>2. buildFileName(s, <<"1">>) = (p \o b) \o <<>>
    BY <1>2, <2>1, Zenon DEF buildFileName
  <2> HIDE DEF b
  <2>3. q \in Seq(Letter)
    BY <1>3
  <2> HIDE DEF q
  <2>4. q \o <<>> = q
    BY <2>3
  <2> QED
    BY <2>2, <2>4 DEF q
<1> HIDE DEF b, s
<1>6. Joins(p, b, q)
  BY <1>3, Joined
<1> HIDE DEF q
<1>7. q \in Seq(Letter) /\ Len(q) = n + 2 /\ q[n + 1] = "." /\ q[n + 2] = "1" /\ \A i \in 1 .. n : q[i] = p[i]
  BY <1>1, <1>3, <1>6 DEF Joins
<1>8. Dotted(q, n + 1)
  <2>1. ASSUME NEW i \in 1 .. Len(q), q[i] = "." PROVE i <= n + 1
    <3>1. i # n + 2
      BY <1>7, <2>1
    <3> QED
      BY <1>1, <1>7, <3>1
  <2> QED
    BY <1>1, <1>7, <2>1 DEF Dotted
<1>9. ~isCsv(q)
  <2>1. splitFileName(q).ext = SubSeq(q, (n + 1) + 1, Len(q))
    <3>1. n + 1 # 0
      BY <1>1
    <3>2. splitFileName(q) = [noExt |-> SubSeq(q, 1, (n + 1) - 1), ext |-> SubSeq(q, (n + 1) + 1, Len(q))]
      BY <1>7, <1>8, <3>1, SplitAt, Zenon DEF SplitAs
    <3> QED
      BY <3>2
  <2> DEFINE e == SubSeq(q, (n + 1) + 1, Len(q))
  <2>2. e[1] = q[n + 2]
    BY <1>1, <1>7
  <2> HIDE DEF e
  <2>3. e # <<"x">>
    <3>1. <<"x">>[1] = "x"
      OBVIOUS
    <3> QED
      BY <1>7, <2>2, <3>1
  <2> QED
    BY <2>1, <2>3 DEF isCsv, e
<1>10. ~isCsv(p)
  BY <1>1 DEF isCsv, Contains
<1>11. isCsv(buildFileName(s, <<>>)) = isCsv(p) /\ isCsv(buildFileName(s, <<"1">>)) = isCsv(p)
  <2>1. isCsv(q) = FALSE
    BY <1>9 DEF isCsv
  <2>2. isCsv(p) = FALSE
    BY <1>10 DEF isCsv
  <2> QED
    BY <1>4, <1>5, <2>1, <2>2
<1> QED
  BY <1>11, Zenon DEF s

LEMMA FormatKept ==
  ASSUME NEW p \in Seq(Letter), p # <<>>, Last(p) # "."
  PROVE  \A number \in {<<>>, <<"1">>} : isCsv(buildFileName(splitFileName(p), number)) = isCsv(p)
<1> DEFINE n == Len(p)
           q == buildFileName(splitFileName(p), <<"1">>)
<1>1. PICK dot \in Nat : Dotted(p, dot)
  BY SplitSomewhere
<1>2. n \in Nat /\ dot <= n /\ dot # n
  <2>1. n \in Nat /\ n > 0 /\ p[n] # "."
    BY DEF Last
  <2> QED
    BY <1>1, <2>1 DEF Dotted
<1>3. CASE dot = 0
  BY <1>1, <1>3, FormatOfPlain
<1>4. CASE dot > 0
  <2>1. dot \in 1 .. n - 1
    BY <1>2, <1>4
  <2>2. buildFileName(splitFileName(p), <<>>) = p /\ Numbered(p, dot, q)
    BY <1>1, <2>1, NumberInserted
  <2> HIDE DEF q
  <2>3. q \in Seq(Letter) /\ Len(q) = n + 2
    BY <2>2 DEF Numbered
  <2>4. \A i \in dot .. n : q[i + 2] = p[i]
    BY <2>2 DEF Numbered
  <2>5. Dotted(q, dot + 2)
    <3>1. q[dot + 2] = "."
      BY <1>1, <1>2, <1>4, <2>4 DEF Dotted
    <3>2. ASSUME NEW i \in 1 .. Len(q), q[i] = "." PROVE i <= dot + 2
      <4>1. CASE i <= dot + 2
        BY <4>1
      <4>2. CASE i > dot + 2
        <5> DEFINE j == i - 2
        <5>1. j \in dot .. n /\ j + 2 = i /\ j \in 1 .. n /\ j > dot
          BY <1>2, <2>3, <4>2
        <5> HIDE DEF j
        <5>2. p[j] = "."
          BY <2>4, <3>2, <5>1
        <5> QED
          BY <1>1, <5>1, <5>2 DEF Dotted
      <4> QED
        BY <4>1, <4>2
    <3> QED
      BY <1>2, <2>3, <3>1, <3>2 DEF Dotted
  <2> DEFINE u == SubSeq(p, dot + 1, n)
             v == SubSeq(q, (dot + 2) + 1, n + 2)
  <2>6. splitFileName(p).ext = u
    <3>1. splitFileName(p) = [noExt |-> SubSeq(p, 1, dot - 1), ext |-> u]
      <4>1. dot # 0
        BY <1>4
      <4> QED
        BY <1>1, <4>1, SplitAt, Zenon DEF SplitAs
    <3> QED
      BY <3>1
  <2>7. splitFileName(q).ext = v
    <3>1. splitFileName(q) = [noExt |-> SubSeq(q, 1, (dot + 2) - 1), ext |-> v]
      <4>1. dot + 2 # 0
        OBVIOUS
      <4> QED
        BY <2>3, <2>5, <4>1, SplitAt, Zenon DEF SplitAs
    <3> QED
      BY <3>1
  <2>8. u \in Seq(Letter) /\ Len(u) = n - dot /\ \A i \in 1 .. n - dot : u[i] = p[dot + i]
    BY <1>2
  <2>9. v \in Seq(Letter) /\ Len(v) = n - dot /\ \A i \in 1 .. n - dot : v[i] = q[(dot + i) + 2]
    BY <1>2, <2>3
  <2>10. \A i \in 1 .. n - dot : dot + i \in dot .. n
    BY <1>2
  <2> HIDE DEF u, v
  <2>11. u = v
    <3>1. \A i \in 1 .. Len(u) : u[i] = v[i]
      BY <2>4, <2>8, <2>9, <2>10
    <3> QED
      BY <2>8, <2>9, <3>1, SameText
  <2>12. Contains(p, ".") /\ Contains(q, ".")
    <3>1. dot \in 1 .. Len(p) /\ p[dot] = "."
      BY <1>1, <1>2, <1>4 DEF Dotted
    <3>2. dot + 2 \in 1 .. Len(q) /\ q[dot + 2] = "."
      BY <1>2, <2>3, <2>5 DEF Dotted
    <3> QED
      BY <3>1, <3>2 DEF Contains
  <2>13. isCsv(q) = isCsv(p)
    BY <2>6, <2>7, <2>11, <2>12 DEF isCsv
  <2> QED
    BY <2>2, <2>13 DEF q
<1> QED
  BY <1>3, <1>4

\* Paths are joined and taken apart without changing what they name: a prefix is applied
\* once and neither doubles a slash nor leaves one out, a path is put together again from
\* its directory and its name, a suffix is cut from the end of a name, the number of a log
\* file leaves it in its directory and its format as it was (src/src/sys/fs.hh and
\* src/src/diag/plog/Util.h), for prefixes and paths of any length.
THEOREM PathsAreKept == PathsInit /\ [][UNCHANGED pathsVars]_pathsVars => []PathsKept
<1> DEFINE Written == prefix \in Seq(Letter) /\ path \in Seq(Letter)
<1>1. PathsInit => Written
  <2>1. Path \subseteq Seq(Letter)
    BY DEF Path, SeqOf, Letter
  <2> QED
    BY <2>1 DEF PathsInit
<1>2. Written /\ [UNCHANGED pathsVars]_pathsVars => Written'
  BY DEF pathsVars
<1>3. Written => PathsKept
  <2> SUFFICES ASSUME prefix \in Seq(Letter), path \in Seq(Letter) PROVE PathsKept
    OBVIOUS
  <2>1. PrefixedOnce
    BY OncePrefixed DEF PrefixedOnce
  <2>2. JoinedByOneSlash
    BY NothingDoubled, StaysBelow DEF JoinedByOneSlash
  <2>3. TakenApart
    BY PutTogether DEF TakenApart
  <2>4. SuffixEndsName
    BY SuffixCut DEF SuffixEndsName
  <2>5. NumberedBeside
    BY NumberBeside DEF NumberedBeside
  <2>6. FormatTold
    BY FormatKept DEF FormatTold
  <2> QED
    BY <2>1, <2>2, <2>3, <2>4, <2>5, <2>6 DEF PathsKept
<1> QED
  BY <1>1, <1>2, <1>3, PTL
=============================================================================
