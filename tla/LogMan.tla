------------------------------- MODULE LogMan -------------------------------
(***************************************************************************)
(* The logging front end of src/diag/log.hh under several threads: the     *)
(* log statements, which first make sure that the one LogMan instance is   *)
(* constructed, the explicit init(), set_level(), and the mutex-guarded    *)
(* initializer that all of them may meet in.  plog, the back end, is       *)
(* modelled as far as this file uses it: one logger object with a level    *)
(* and a list of appenders.                                                *)
(***************************************************************************)
EXTENDS Naturals, Sequences

CONSTANTS Thread, NoThread,
          NDEBUG,        \* is the macro defined?
          Normal,        \* the default level: notice, or SZ_LOG_USE_DEFAULT_LEVEL
          Levels,        \* levels the program logs at, sets, and configures
          MaxCalls       \* bound: calls each thread makes

Level   == 1 .. 6        \* fatal error warning notice info detail
warning == 3
notice  == 4
info    == 5

Targets == {"console", "file"}
Cfg     == [filter_level : Levels, target : Targets]

ASSUME ThreadAssumption == NoThread \notin Thread
ASSUME LevelAssumption == Normal \in Level /\ Levels \subseteq Level
ASSUME BuildAssumption == NDEBUG \in BOOLEAN /\ MaxCalls \in Nat

\* What the constructor configures (log.hh:299-304).
default_cfg == [filter_level |-> IF NDEBUG THEN Normal ELSE info, target |-> "console"]

\* A call in progress: an explicit init(), a log statement at a level, or
\* set_level(); `cfg' is what its thread passes to the initializer.
NoCall == [kind |-> "none", level |-> notice, cfg |-> default_cfg]

VARIABLES
    initialized, init_mutex,
    guard,       \* the static local of instance(): none, running, done
    builder,     \* the thread that runs the constructor, when running
    logger,      \* plog's logger: exists?, maximum severity
    appenders,   \* its appenders: the target of each, and whether it is open
    won,         \* history: the configuration of the initialization
    pc, call,
    calls,       \* calls made so far by each thread
    output       \* the records that reached a target, in order

vars == <<initialized, init_mutex, guard, builder, logger, appenders, won, pc, call, calls, output>>

backend == <<logger, appenders, won, output>>
frontend == <<initialized, init_mutex, guard, builder>>

Init ==
    /\ initialized = FALSE
    /\ init_mutex = NoThread
    /\ guard = "none"
    /\ builder = NoThread
    /\ logger = [exists |-> FALSE, max |-> 0]
    /\ appenders = <<>>
    /\ won = NoCall
    /\ pc = [t \in Thread |-> "idle"]
    /\ call = [t \in Thread |-> NoCall]
    /\ calls = [t \in Thread |-> 0]
    /\ output = <<>>

Goto(t, label) == pc' = [pc EXCEPT ![t] = label]

-----------------------------------------------------------------------------
(* The program's calls.                                                    *)

Start(t, c, label) ==
    /\ pc[t] = "idle"
    /\ calls[t] < MaxCalls
    /\ calls' = [calls EXCEPT ![t] = @ + 1]
    /\ call' = [call EXCEPT ![t] = c]
    /\ Goto(t, label)
    /\ UNCHANGED <<frontend, backend>>

init(t) ==
    \E c \in Cfg : Start(t, [kind |-> "init", level |-> notice, cfg |-> c], "lock")

\* A LOG... statement.  The ones above `notice' are null streams in an NDEBUG
\* build, and do not even initialize anything (log.hh:29-36).
LOG(t) ==
    \E l \in Levels :
        /\ NDEBUG => l <= notice
        /\ Start(t, [kind |-> "log", level |-> l, cfg |-> default_cfg], "instance")

set_level(t) ==
    \E l \in Levels :
        Start(t, [kind |-> "set_level", level |-> l, cfg |-> default_cfg], "instance")

-----------------------------------------------------------------------------
(* instance(): a static local, constructed by the first thread that gets   *)
(* here; a thread that finds the construction running waits for its end.   *)

\* Where a call goes on once it has its instance.
AfterInstance(t) == IF call[t].kind = "set_level" THEN "set" ELSE "check_severity"

\* Faulty variants of the steps are named for their fault and stand before the
\* step; the properties are checked to notice them.
instance_unguarded(t) ==
    /\ pc[t] = "instance"
    /\ \/ /\ guard # "none"
          /\ Goto(t, AfterInstance(t))
          /\ UNCHANGED <<guard, builder>>
       \/ /\ guard = "none"
          /\ guard' = "running"
          /\ builder' = t
          /\ Goto(t, "lock")
    /\ UNCHANGED <<initialized, init_mutex, backend, call, calls>>

instance(t) ==
    /\ pc[t] = "instance"
    /\ \/ /\ guard = "done"
          /\ Goto(t, AfterInstance(t))
          /\ UNCHANGED <<guard, builder>>
       \/ /\ guard = "none"
          /\ guard' = "running"
          /\ builder' = t
          /\ Goto(t, "lock")
    /\ UNCHANGED <<initialized, init_mutex, backend, call, calls>>

-----------------------------------------------------------------------------
(* Initializer::init(), called by init() and by LogMan's constructor.      *)

lock_unwaiting(t) ==
    /\ pc[t] = "lock"
    /\ init_mutex' = t
    /\ Goto(t, "test")
    /\ UNCHANGED <<initialized, guard, builder, backend, call, calls>>

lock(t) ==
    /\ pc[t] = "lock"
    /\ init_mutex = NoThread
    /\ init_mutex' = t
    /\ Goto(t, "test")
    /\ UNCHANGED <<initialized, guard, builder, backend, call, calls>>

test_ignored(t) ==
    /\ pc[t] = "test"
    /\ Goto(t, "plog_init")
    /\ UNCHANGED <<frontend, backend, call, calls>>

test(t) ==
    /\ pc[t] = "test"
    /\ Goto(t, IF initialized THEN "unlock" ELSE "plog_init")
    /\ UNCHANGED <<frontend, backend, call, calls>>

\* __do_init(): plog::init() makes the logger, once, then adds the appender.
\* A log file may fail to open, of which nobody is told (log.cc:167, 178).
plog_init(t) ==
    /\ pc[t] = "plog_init"
    /\ logger' = IF logger.exists THEN logger
                 ELSE [exists |-> TRUE, max |-> call[t].cfg.filter_level]
    /\ won' = call[t]
    /\ Goto(t, "add_appender")
    /\ UNCHANGED <<frontend, appenders, output, call, calls>>

add_appender(t) ==
    /\ pc[t] = "add_appender"
    /\ \E opened \in BOOLEAN :
           /\ call[t].cfg.target = "console" => opened
           /\ appenders' = Append(appenders, [target |-> call[t].cfg.target, open |-> opened])
    /\ Goto(t, "set_initialized")
    /\ UNCHANGED <<frontend, logger, won, output, call, calls>>

set_initialized_unlocking(t) ==
    /\ pc[t] = "set_initialized"
    /\ initialized' = TRUE
    /\ init_mutex' = NoThread
    /\ Goto(t, "report")
    /\ UNCHANGED <<guard, builder, backend, call, calls>>

set_initialized(t) ==
    /\ pc[t] = "set_initialized"
    /\ initialized' = TRUE
    /\ Goto(t, "report")
    /\ UNCHANGED <<init_mutex, guard, builder, backend, call, calls>>

\* What a record of this severity adds to the output.
Passes(severity) == logger.exists /\ severity <= logger.max

Write(kind) ==
    IF \E i \in DOMAIN appenders : appenders[i].open THEN Append(output, kind) ELSE output

report_by_LOGN(t) ==
    /\ pc[t] = "report"
    /\ Goto(t, "instance")
    /\ UNCHANGED <<frontend, backend, call, calls>>

\* __report_after_init(): straight to plog, at the severity of a notice.
report(t) ==
    /\ pc[t] = "report"
    /\ output' = IF Passes(notice) THEN Write("report") ELSE output
    /\ Goto(t, "unlock")
    /\ UNCHANGED <<frontend, logger, appenders, won, call, calls>>

\* Leaving the initializer: init() returns, a constructed instance is used.
unlock(t) ==
    /\ pc[t] = "unlock"
    /\ init_mutex' = NoThread
    /\ IF call[t].kind = "init"
       THEN Goto(t, "idle") /\ UNCHANGED <<guard, builder>>
       ELSE Goto(t, AfterInstance(t)) /\ guard' = "done" /\ builder' = NoThread
    /\ UNCHANGED <<initialized, backend, call, calls>>

-----------------------------------------------------------------------------
(* Logging and set_level(), once there is an instance.                     *)

\* plog tests the severity before it builds the record, and not again.
check_severity(t) ==
    /\ pc[t] = "check_severity"
    /\ Goto(t, IF Passes(call[t].level) THEN "write" ELSE "idle")
    /\ UNCHANGED <<frontend, backend, call, calls>>

write(t) ==
    /\ pc[t] = "write"
    /\ output' = Write(call[t].kind)
    /\ Goto(t, "idle")
    /\ UNCHANGED <<frontend, logger, appenders, won, call, calls>>

\* __set_level(), then the confirmation: a LOG statement of its own if the new
\* level lets a notice through, else a line on cerr.
set(t) ==
    /\ pc[t] = "set"
    /\ logger' = [logger EXCEPT !.max = call[t].level]
    /\ IF call[t].level >= notice
       THEN /\ call' = [call EXCEPT ![t] = [kind |-> "confirm", level |-> notice, cfg |-> default_cfg]]
            /\ Goto(t, "instance")
       ELSE Goto(t, "idle") /\ UNCHANGED call
    /\ UNCHANGED <<frontend, appenders, won, output, calls>>

-----------------------------------------------------------------------------
\* The steps of a call in progress.
Step(t) ==
    \/ instance(t)
    \/ lock(t) \/ test(t) \/ plog_init(t) \/ add_appender(t) \/ set_initialized(t)
    \/ report(t) \/ unlock(t)
    \/ check_severity(t) \/ write(t)
    \/ set(t)

Next == \E t \in Thread : init(t) \/ LOG(t) \/ set_level(t) \/ Step(t)

Spec == Init /\ [][Next]_vars

\* The scheduler runs every thread that can run.
Fairness == \A t \in Thread : WF_vars(Step(t))

FairSpec == Spec /\ Fairness

-----------------------------------------------------------------------------
Labels == {"idle", "instance", "lock", "test", "plog_init", "add_appender", "set_initialized",
           "report", "unlock", "check_severity", "write", "set"}

Locked  == {"test", "plog_init", "add_appender", "set_initialized", "report", "unlock"}
UsesLog == {"check_severity", "write", "set"}

Call == [kind : {"none", "init", "log", "set_level", "confirm"}, level : Level,
         cfg : [filter_level : Level, target : Targets]]

\* Types, and the two locks: the mutex is held exactly by the thread inside the
\* initializer, the static local exactly while some thread constructs it.
TypeInv ==
    /\ initialized \in BOOLEAN
    /\ init_mutex \in Thread \cup {NoThread}
    /\ guard \in {"none", "running", "done"}
    /\ builder \in Thread \cup {NoThread}
    /\ logger \in [exists : BOOLEAN, max : 0 .. 6]
    /\ appenders \in Seq([target : Targets, open : BOOLEAN])
    /\ won \in Call
    /\ pc \in [Thread -> Labels]
    /\ call \in [Thread -> Call]
    /\ calls \in [Thread -> 0 .. MaxCalls]
    /\ output \in Seq({"report", "log", "confirm"})
    /\ guard = "running" <=> builder # NoThread
    /\ \A t \in Thread : init_mutex = t <=> pc[t] \in Locked

\* The logger is set up exactly once, whatever threads race to do it, so that
\* it has one appender and no record is written twice (log.hh:239-249).
InitializedOnce ==
    /\ Len(appenders) <= 1
    /\ initialized => Len(appenders) = 1

\* No thread logs, or changes the level of, a logger that is not completely set
\* up: a record is never dropped because its thread came first, and
\* plog_instance() is never null in __set_level() (log.hh:340).
UsedOnlyWhenReady ==
    \A t \in Thread : pc[t] \in UsesLog => initialized /\ guard = "done"

\* Nothing is logged before the report of the initialization, if that passes
\* the configured level, and there is one report (log.hh:244, 272-290).
ReportComesFirst ==
    \A i \in DOMAIN output : output[i] = "report" <=> (i = 1 /\ won.cfg.filter_level >= notice)

\* The default configuration takes effect "ONLY if an explicit init() hasn't
\* been called yet" (log.hh:295-297), called being: got to the mutex first.
\* Later on nothing but set_level() changes the level, and nothing the target.
FirstConfigurationStays ==
    [][/\ logger.exists /\ logger' # logger =>
              \E t \in Thread : call[t].kind = "set_level" /\ logger'.max = call[t].level
       /\ won.kind # "none" => won' = won]_vars

\* Every call returns: no thread waits for ever on the mutex or on the static
\* local, whichever call its construction was part of.
EveryCallReturns == \A t \in Thread : pc[t] # "idle" ~> pc[t] = "idle"
=============================================================================
