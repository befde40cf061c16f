---------------------------- MODULE LogManProofs ----------------------------
(***************************************************************************)
(* For any number of threads, calls and levels: logging is initialized     *)
(* once, completely before anybody uses it, and the report of the          *)
(* initialization is the first record.  The argument: the mutex separates  *)
(* the threads in the initializer, so that its stages describe the state   *)
(* of the logger, and the static local is only done after an unlock.       *)
(***************************************************************************)
EXTENDS LogMan, TLAPS

Initing  == {"plog_init", "add_appender", "set_initialized", "report"}
Instanced == {"log", "set_level", "confirm"}
AnyOpen  == \E i \in DOMAIN appenders : appenders[i].open

\* What a thread's place tells of its call.
Roles ==
    \A t \in Thread :
        /\ pc[t] = "instance" => call[t].kind \in Instanced
        /\ pc[t] \in {"check_severity", "write"} => call[t].kind \in {"log", "confirm"}
        /\ pc[t] = "set" => call[t].kind = "set_level"
        /\ pc[t] \in {"lock"} \cup Locked =>
               call[t].kind = "init" \/ (call[t].kind \in Instanced /\ builder = t)

\* The static local is done only once the initialization is.
Ready ==
    /\ guard = "done" => initialized /\ \A t \in Thread : pc[t] \notin Initing
    /\ \A t \in Thread : pc[t] \in UsesLog => guard = "done"

Configured == logger.exists /\ logger.max = won.cfg.filter_level

\* The stages of the initialization.
Stages ==
    /\ \/ initialized
       \/ appenders = <<>> /\ won.kind = "none" /\ ~logger.exists
       \/ \E t \in Thread : pc[t] \in {"add_appender", "set_initialized"}
    /\ initialized => Len(appenders) = 1
    /\ ~initialized => output = <<>>
    /\ \A t \in Thread :
        /\ pc[t] \in {"report", "unlock"} => initialized
        /\ pc[t] \in {"plog_init", "add_appender", "set_initialized"} => ~initialized
        /\ pc[t] \in {"plog_init", "add_appender"} => appenders = <<>>
        /\ pc[t] = "plog_init" => won.kind = "none" /\ ~logger.exists
        /\ pc[t] = "set_initialized" => Len(appenders) = 1
        /\ pc[t] \in {"add_appender", "set_initialized", "report"} => Configured
        /\ pc[t] = "report" => output = <<>>

\* What was reported, as soon as it is known.
Reported ==
    /\ output # <<>> => AnyOpen
    /\ initialized /\ AnyOpen /\ won.cfg.filter_level >= notice =>
           output # <<>> \/ \E t \in Thread : pc[t] = "report"
    /\ ReportComesFirst

IInv == TypeInv /\ Roles /\ Ready /\ Stages /\ Reported

-----------------------------------------------------------------------------
LEMMA DefaultCfg == default_cfg \in [filter_level : Level, target : Targets]
BY LevelAssumption DEF default_cfg, Level, info, Targets

\* Which thread is where, after a step of one.
LEMMA Moved ==
  ASSUME TypeInv, NEW t \in Thread, NEW label \in Labels, Goto(t, label)
  PROVE  /\ pc' \in [Thread -> Labels]
         /\ pc'[t] = label
         /\ \A u \in Thread : u # t => pc'[u] = pc[u]
BY DEF TypeInv, Goto

LEMMA Started ==
  ASSUME TypeInv, NEW t \in Thread, NEW c \in Call, NEW label \in Labels, Start(t, c, label)
  PROVE  /\ pc[t] = "idle" /\ UNCHANGED <<frontend, backend>>
         /\ pc' \in [Thread -> Labels] /\ pc'[t] = label
         /\ call' \in [Thread -> Call] /\ call'[t] = c
         /\ calls' \in [Thread -> 0 .. MaxCalls]
         /\ \A u \in Thread : u # t => pc'[u] = pc[u] /\ call'[u] = call[u]
<1>1. /\ pc' \in [Thread -> Labels] /\ pc'[t] = label
      /\ \A u \in Thread : u # t => pc'[u] = pc[u]
  BY Moved DEF Start
<1>2. /\ call' \in [Thread -> Call] /\ call'[t] = c
      /\ \A u \in Thread : u # t => call'[u] = call[u]
  BY DEF Start, TypeInv
<1>3. calls' \in [Thread -> 0 .. MaxCalls]
  BY BuildAssumption DEF Start, TypeInv
<1> QED
  BY <1>1, <1>2, <1>3 DEF Start

\* The program's calls: what each of them begins.
LEMMA Begins ==
  ASSUME TypeInv, NEW t \in Thread, init(t) \/ LOG(t) \/ set_level(t)
  PROVE  \E c \in Call :
             \/ c.kind = "init" /\ Start(t, c, "lock")
             \/ c.kind \in {"log", "set_level"} /\ Start(t, c, "instance")
<1>1. CASE init(t)
  <2>1. PICK c \in Cfg : Start(t, [kind |-> "init", level |-> notice, cfg |-> c], "lock")
    BY <1>1 DEF init
  <2>2. c \in [filter_level : Level, target : Targets]
    BY LevelAssumption DEF Cfg
  <2>3. [kind |-> "init", level |-> notice, cfg |-> c] \in Call
    BY <2>2 DEF Call, Level, notice
  <2> QED
    BY <2>1, <2>3
<1>2. CASE LOG(t)
  <2>1. PICK l \in Levels : Start(t, [kind |-> "log", level |-> l, cfg |-> default_cfg], "instance")
    BY <1>2 DEF LOG
  <2>2. [kind |-> "log", level |-> l, cfg |-> default_cfg] \in Call
    BY LevelAssumption, DefaultCfg DEF Call
  <2> QED
    BY <2>1, <2>2
<1>3. CASE set_level(t)
  <2>1. PICK l \in Levels : Start(t, [kind |-> "set_level", level |-> l, cfg |-> default_cfg], "instance")
    BY <1>3 DEF set_level
  <2>2. [kind |-> "set_level", level |-> l, cfg |-> default_cfg] \in Call
    BY LevelAssumption, DefaultCfg DEF Call
  <2> QED
    BY <2>1, <2>2
<1> QED
  BY <1>1, <1>2, <1>3

-----------------------------------------------------------------------------
LEMMA TypeInit == Init => TypeInv
<1> SUFFICES ASSUME Init PROVE TypeInv
  OBVIOUS
<1>1. NoCall \in Call
  BY DefaultCfg DEF NoCall, Call, Level, notice
<1>2. \A t \in Thread : init_mutex = t <=> pc[t] \in Locked
  BY ThreadAssumption DEF Init, Locked
<1>3. /\ pc \in [Thread -> Labels] /\ call \in [Thread -> Call] /\ won \in Call
      /\ calls \in [Thread -> 0 .. MaxCalls]
  BY <1>1, BuildAssumption DEF Init, Labels
<1>4. /\ appenders \in Seq([target : Targets, open : BOOLEAN])
      /\ output \in Seq({"report", "log", "confirm"})
      /\ logger \in [exists : BOOLEAN, max : 0 .. 6]
  BY DEF Init
<1> QED
  BY <1>2, <1>3, <1>4 DEF Init, TypeInv

\* The mutex after a step of t that neither takes nor releases it, ...
LEMMA MutexKept ==
  ASSUME TypeInv, NEW t \in Thread, NEW label \in Labels, Goto(t, label),
         pc[t] \in Locked <=> label \in Locked, UNCHANGED init_mutex
  PROVE  \A u \in Thread : init_mutex' = u <=> pc'[u] \in Locked
BY Moved DEF TypeInv

LEMMA TypeNext == TypeInv /\ Roles /\ [Next]_vars => TypeInv'
<1> SUFFICES ASSUME TypeInv, Roles, [Next]_vars PROVE TypeInv'
  OBVIOUS
<1>1. CASE UNCHANGED vars
  BY <1>1 DEF vars, TypeInv
<1>2. ASSUME NEW t \in Thread, init(t) \/ LOG(t) \/ set_level(t) PROVE TypeInv'
  <2>1. PICK c \in Call, label \in {"lock", "instance"} : Start(t, c, label)
    BY <1>2, Begins
  <2>2. label \in Labels /\ label \notin Locked
    BY DEF Labels, Locked
  <2>3. pc[t] = "idle" /\ "idle" \notin Locked
    BY <2>1, <2>2, Started DEF Locked
  <2>4. \A u \in Thread : init_mutex' = u <=> pc'[u] \in Locked
    BY <2>1, <2>2, <2>3, Started DEF frontend, TypeInv
  <2> QED
    BY <2>1, <2>2, <2>4, Started DEF frontend, backend, TypeInv
<1>3. ASSUME NEW t \in Thread, instance(t) PROVE TypeInv'
  <2>1. PICK label \in {"lock", "set", "check_severity"} : Goto(t, label)
    BY <1>3 DEF instance, AfterInstance
  <2>2. label \in Labels /\ (pc[t] \in Locked <=> label \in Locked)
    BY <1>3 DEF instance, Labels, Locked
  <2>3. \A u \in Thread : init_mutex' = u <=> pc'[u] \in Locked
    BY <1>3, <2>1, <2>2, MutexKept DEF instance
  <2>4. pc' \in [Thread -> Labels]
    BY <2>1, <2>2, Moved
  <2> QED
    BY <1>3, <2>3, <2>4, ThreadAssumption DEF instance, backend, TypeInv
<1>4. ASSUME NEW t \in Thread, lock(t) PROVE TypeInv'
  <2>1. "test" \in Labels /\ "test" \in Locked
    BY DEF Labels, Locked
  <2>2. \A u \in Thread : init_mutex' = u <=> pc'[u] \in Locked
    BY <1>4, <2>1, Moved, ThreadAssumption DEF lock, TypeInv
  <2>3. pc' \in [Thread -> Labels]
    BY <1>4, <2>1, Moved DEF lock
  <2> QED
    BY <1>4, <2>2, <2>3 DEF lock, backend, TypeInv
<1>5. ASSUME NEW t \in Thread, test(t) PROVE TypeInv'
  <2>1. PICK label \in {"unlock", "plog_init"} : Goto(t, label)
    BY <1>5 DEF test
  <2>2. label \in Labels /\ (pc[t] \in Locked <=> label \in Locked)
    BY <1>5 DEF test, Labels, Locked
  <2> QED
    BY <1>5, <2>1, <2>2, Moved, MutexKept DEF test, frontend, backend, TypeInv
<1>6. ASSUME NEW t \in Thread, plog_init(t) PROVE TypeInv'
  <2>1. "add_appender" \in Labels /\ (pc[t] \in Locked <=> "add_appender" \in Locked)
    BY <1>6 DEF plog_init, Labels, Locked
  <2>2. logger' \in [exists : BOOLEAN, max : 0 .. 6] /\ won' \in Call
    BY <1>6 DEF plog_init, TypeInv, Call, Level
  <2> QED
    BY <1>6, <2>1, <2>2, Moved, MutexKept DEF plog_init, frontend, TypeInv
<1>7. ASSUME NEW t \in Thread, add_appender(t) PROVE TypeInv'
  <2>1. "set_initialized" \in Labels /\ (pc[t] \in Locked <=> "set_initialized" \in Locked)
    BY <1>7 DEF add_appender, Labels, Locked
  <2>2. appenders' \in Seq([target : Targets, open : BOOLEAN])
    <3>1. PICK opened \in BOOLEAN :
             appenders' = Append(appenders, [target |-> call[t].cfg.target, open |-> opened])
      BY <1>7 DEF add_appender
    <3>2. [target |-> call[t].cfg.target, open |-> opened] \in [target : Targets, open : BOOLEAN]
      BY DEF TypeInv, Call
    <3> QED
      BY <3>1, <3>2 DEF TypeInv
  <2> QED
    BY <1>7, <2>1, <2>2, Moved, MutexKept DEF add_appender, frontend, TypeInv
<1>8. ASSUME NEW t \in Thread, set_initialized(t) PROVE TypeInv'
  <2>1. "report" \in Labels /\ (pc[t] \in Locked <=> "report" \in Locked)
    BY <1>8 DEF set_initialized, Labels, Locked
  <2> QED
    BY <1>8, <2>1, Moved, MutexKept DEF set_initialized, backend, TypeInv
<1>9. ASSUME NEW t \in Thread, report(t) PROVE TypeInv'
  <2>1. "unlock" \in Labels /\ (pc[t] \in Locked <=> "unlock" \in Locked)
    BY <1>9 DEF report, Labels, Locked
  <2>2. output' \in Seq({"report", "log", "confirm"})
    BY <1>9 DEF report, Write, TypeInv
  <2> QED
    BY <1>9, <2>1, <2>2, Moved, MutexKept DEF report, frontend, TypeInv
<1>10. ASSUME NEW t \in Thread, unlock(t) PROVE TypeInv'
  <2>1. PICK label \in {"idle", "set", "check_severity"} : Goto(t, label)
    BY <1>10 DEF unlock, AfterInstance
  <2>2. label \in Labels /\ label \notin Locked /\ pc[t] \in Locked
    BY <1>10 DEF unlock, Labels, Locked
  <2>3. \A u \in Thread : init_mutex' = u <=> pc'[u] \in Locked
    <3>1. init_mutex' = NoThread /\ \A u \in Thread : init_mutex' # u
      BY <1>10, ThreadAssumption DEF unlock
    <3>2. \A u \in Thread : u # t => pc[u] \notin Locked
      BY <2>2 DEF TypeInv
    <3> QED
      BY <2>1, <2>2, <3>1, <3>2, Moved
  <2>4. (guard \in {"none", "running", "done"} /\ builder \in Thread \cup {NoThread})'
        /\ (guard = "running" <=> builder # NoThread)'
    BY <1>10 DEF unlock, TypeInv
  <2> QED
    BY <1>10, <2>1, <2>2, <2>3, <2>4, Moved DEF unlock, backend, TypeInv
<1>11. ASSUME NEW t \in Thread, check_severity(t) PROVE TypeInv'
  <2>1. PICK label \in {"write", "idle"} : Goto(t, label)
    BY <1>11 DEF check_severity
  <2>2. label \in Labels /\ (pc[t] \in Locked <=> label \in Locked)
    BY <1>11 DEF check_severity, Labels, Locked
  <2> QED
    BY <1>11, <2>1, <2>2, Moved, MutexKept DEF check_severity, frontend, backend, TypeInv
<1>12. ASSUME NEW t \in Thread, write(t), call[t].kind \in {"log", "confirm"} PROVE TypeInv'
  <2>1. "idle" \in Labels /\ (pc[t] \in Locked <=> "idle" \in Locked)
    BY <1>12 DEF write, Labels, Locked
  <2>2. output' \in Seq({"report", "log", "confirm"})
    BY <1>12 DEF write, Write, TypeInv
  <2> QED
    BY <1>12, <2>1, <2>2, Moved, MutexKept DEF write, frontend, TypeInv
<1>13. ASSUME NEW t \in Thread, set(t) PROVE TypeInv'
  <2>1. PICK label \in {"instance", "idle"} : Goto(t, label)
    BY <1>13 DEF set
  <2>2. label \in Labels /\ (pc[t] \in Locked <=> label \in Locked)
    BY <1>13 DEF set, Labels, Locked
  <2>0. call[t] \in Call
    BY DEF TypeInv
  <2>3. [kind |-> "confirm", level |-> notice, cfg |-> default_cfg] \in Call
    BY DefaultCfg DEF Call, Level, notice
  <2>6. call[t].level \in 0 .. 6
    BY <2>0 DEF Call, Level
  <2>4. call' \in [Thread -> Call]
    BY <1>13, <2>3 DEF set, TypeInv
  <2>5. logger' \in [exists : BOOLEAN, max : 0 .. 6]
    BY <1>13, <2>6 DEF set, TypeInv
  <2> QED
    BY <1>13, <2>1, <2>2, <2>4, <2>5, Moved, MutexKept DEF set, frontend, TypeInv
<1>14. ASSUME NEW t \in Thread, write(t) PROVE call[t].kind \in {"log", "confirm"}
  BY <1>14 DEF write, Roles
<1> QED
  BY <1>1, <1>2, <1>3, <1>4, <1>5, <1>6, <1>7, <1>8, <1>9, <1>10, <1>11, <1>12, <1>13, <1>14 DEF Next, Step

\* The threads that do not move keep their place and their call.
LEMMA Alone ==
  ASSUME TypeInv, NEW t \in Thread, NEW u \in Thread, pc[t] \in Locked, pc[u] \in Locked
  PROVE  t = u
BY DEF TypeInv

LEMMA RolesNext == TypeInv /\ Roles /\ [Next]_vars => Roles'
<1> SUFFICES ASSUME TypeInv, Roles, [Next]_vars PROVE Roles'
  OBVIOUS
<1>1. CASE UNCHANGED vars
  BY <1>1 DEF vars, Roles
<1>2. ASSUME NEW t \in Thread, init(t) \/ LOG(t) \/ set_level(t) PROVE Roles'
  <2>1. PICK c \in Call, label \in {"lock", "instance"} :
            /\ Start(t, c, label)
            /\ label = "lock" => c.kind = "init"
            /\ label = "instance" => c.kind \in {"log", "set_level"}
    BY <1>2, Begins
  <2>2. label \in Labels
    BY DEF Labels
  <2> QED
    BY <2>1, <2>2, Started DEF Roles, Instanced, Locked, frontend
<1>3. ASSUME NEW t \in Thread, instance(t) PROVE Roles'
  <2>1. call[t].kind \in Instanced
    BY <1>3 DEF instance, Roles
  <2>2. CASE guard = "done"
    <3>1. Goto(t, AfterInstance(t)) /\ UNCHANGED <<builder, call>>
      BY <1>3, <2>2 DEF instance
    <3>2. AfterInstance(t) \in {"set", "check_severity"} /\ (AfterInstance(t) = "set" <=> call[t].kind = "set_level")
      BY DEF AfterInstance
    <3>3. AfterInstance(t) \in Labels
      BY <3>2 DEF Labels
    <3> QED
      BY <2>1, <3>1, <3>2, <3>3, Moved DEF Roles, Locked, Instanced
  <2>3. CASE guard = "none"
    <3>1. Goto(t, "lock") /\ builder' = t /\ UNCHANGED call /\ builder = NoThread
      BY <1>3, <2>3 DEF instance, TypeInv
    <3> QED
      BY <2>1, <3>1, Moved, ThreadAssumption DEF Roles, Locked, Labels
  <2> QED
    BY <1>3, <2>2, <2>3 DEF instance
<1>4. ASSUME NEW t \in Thread, lock(t) PROVE Roles'
  BY <1>4, Moved DEF lock, Labels, Locked, Roles
<1>5. ASSUME NEW t \in Thread, test(t) PROVE Roles'
  <2>1. PICK label \in {"unlock", "plog_init"} : Goto(t, label)
    BY <1>5 DEF test
  <2> QED
    BY <1>5, <2>1, Moved DEF test, frontend, Labels, Locked, Roles
<1>6. ASSUME NEW t \in Thread, plog_init(t) PROVE Roles'
  BY <1>6, Moved DEF plog_init, frontend, Labels, Locked, Roles
<1>7. ASSUME NEW t \in Thread, add_appender(t) PROVE Roles'
  BY <1>7, Moved DEF add_appender, frontend, Labels, Locked, Roles
<1>8. ASSUME NEW t \in Thread, set_initialized(t) PROVE Roles'
  BY <1>8, Moved DEF set_initialized, Labels, Locked, Roles
<1>9. ASSUME NEW t \in Thread, report(t) PROVE Roles'
  BY <1>9, Moved DEF report, frontend, Labels, Locked, Roles
<1>10. ASSUME NEW t \in Thread, unlock(t) PROVE Roles'
  <2>1. pc[t] \in Locked /\ UNCHANGED call
    BY <1>10 DEF unlock, Locked
  <2>2. \A u \in Thread : u # t => pc[u] \notin Locked
    BY <2>1, Alone
  <2>3. PICK label \in {"idle", "set", "check_severity"} :
            /\ Goto(t, label)
            /\ label = "idle" => UNCHANGED builder
            /\ label # "idle" => call[t].kind # "init" /\ builder' = NoThread
            /\ label = "set" <=> label # "idle" /\ call[t].kind = "set_level"
    BY <1>10 DEF unlock, AfterInstance
  <2>4. label # "idle" => call[t].kind \in Instanced /\ builder = t
    BY <2>1, <2>3 DEF Roles
  <2>5. label \in Labels
    BY DEF Labels
  <2>6. ASSUME NEW u \in Thread, u # t, pc[u] = "lock"
        PROVE  call[u].kind = "init" \/ (call[u].kind \in Instanced /\ builder' = u)
    BY <2>3, <2>4, <2>6 DEF Roles
  <2> QED
    BY <2>1, <2>2, <2>3, <2>4, <2>5, <2>6, Moved DEF Roles, Locked, Instanced
<1>11. ASSUME NEW t \in Thread, check_severity(t) PROVE Roles'
  <2>1. PICK label \in {"write", "idle"} : Goto(t, label)
    BY <1>11 DEF check_severity
  <2> QED
    BY <1>11, <2>1, Moved DEF check_severity, frontend, Labels, Locked, Roles
<1>12. ASSUME NEW t \in Thread, write(t) PROVE Roles'
  BY <1>12, Moved DEF write, frontend, Labels, Locked, Roles
<1>13. ASSUME NEW t \in Thread, set(t) PROVE Roles'
  <2>1. CASE call[t].level >= notice
    <3>1. /\ Goto(t, "instance") /\ UNCHANGED builder
          /\ call'[t].kind = "confirm" /\ \A u \in Thread : u # t => call'[u] = call[u]
      BY <1>13, <2>1 DEF set, frontend, TypeInv
    <3> QED
      BY <3>1, Moved DEF Roles, Instanced, Labels, Locked
  <2>2. CASE ~(call[t].level >= notice)
    <3>1. Goto(t, "idle") /\ UNCHANGED <<builder, call>>
      BY <1>13, <2>2 DEF set, frontend
    <3> QED
      BY <3>1, Moved DEF Roles, Labels, Locked
  <2> QED
    BY <2>1, <2>2
<1> QED
  BY <1>1, <1>2, <1>3, <1>4, <1>5, <1>6, <1>7, <1>8, <1>9, <1>10, <1>11, <1>12, <1>13 DEF Next, Step

\* A step that leaves the static local alone.
LEMMA ReadyKept ==
  ASSUME TypeInv, Ready, NEW t \in Thread, NEW label \in Labels, Goto(t, label), UNCHANGED guard,
         initialized => initialized',
         label \in UsesLog => pc[t] \in UsesLog,
         label \in Initing => guard # "done"
  PROVE  Ready'
BY Moved DEF Ready

LEMMA ReadyNext == TypeInv /\ Ready /\ Stages /\ [Next]_vars => Ready'
<1> SUFFICES ASSUME TypeInv, Ready, Stages, [Next]_vars PROVE Ready'
  OBVIOUS
<1> USE DEF Labels, UsesLog, Initing
<1>1. CASE UNCHANGED vars
  BY <1>1 DEF vars, Ready
<1>2. ASSUME NEW t \in Thread, init(t) \/ LOG(t) \/ set_level(t) PROVE Ready'
  <2>1. PICK c \in Call, label \in {"lock", "instance"} : Start(t, c, label)
    BY <1>2, Begins
  <2> QED
    BY <2>1, ReadyKept DEF Start, frontend
<1>3. ASSUME NEW t \in Thread, instance(t) PROVE Ready'
  <2>1. CASE guard = "done"
    <3>1. PICK label \in {"set", "check_severity"} : Goto(t, label)
      BY <1>3, <2>1 DEF instance, AfterInstance
    <3>2. UNCHANGED <<guard, initialized>>
      BY <1>3, <2>1 DEF instance
    <3> QED
      BY <2>1, <3>1, <3>2, Moved DEF Ready
  <2>2. CASE guard = "none"
    <3>1. Goto(t, "lock") /\ guard' = "running"
      BY <1>3, <2>2 DEF instance
    <3> QED
      BY <2>2, <3>1, Moved DEF Ready
  <2> QED
    BY <1>3, <2>1, <2>2 DEF instance
<1>4. ASSUME NEW t \in Thread, lock(t) PROVE Ready'
  BY <1>4, ReadyKept DEF lock
<1>5. ASSUME NEW t \in Thread, test(t) PROVE Ready'
  <2>1. PICK label \in {"unlock", "plog_init"} : Goto(t, label) /\ (label = "plog_init" => ~initialized)
    BY <1>5 DEF test
  <2> QED
    BY <1>5, <2>1, ReadyKept DEF test, frontend, Ready
<1>6. ASSUME NEW t \in Thread, plog_init(t) PROVE Ready'
  BY <1>6, ReadyKept DEF plog_init, frontend, Ready
<1>7. ASSUME NEW t \in Thread, add_appender(t) PROVE Ready'
  BY <1>7, ReadyKept DEF add_appender, frontend, Ready
<1>8. ASSUME NEW t \in Thread, set_initialized(t) PROVE Ready'
  BY <1>8, ReadyKept DEF set_initialized, Ready
<1>9. ASSUME NEW t \in Thread, report(t) PROVE Ready'
  BY <1>9, ReadyKept DEF report, frontend
<1>10. ASSUME NEW t \in Thread, unlock(t) PROVE Ready'
  <2>1. pc[t] \in Locked /\ initialized' = initialized /\ initialized
    BY <1>10 DEF unlock, Locked, Stages
  <2>2. \A u \in Thread : u # t => pc[u] \notin Locked
    BY <2>1, Alone
  <2>3. PICK label \in {"idle", "set", "check_severity"} :
            /\ Goto(t, label)
            /\ label = "idle" => UNCHANGED guard
            /\ label # "idle" => guard' = "done"
    BY <1>10 DEF unlock, AfterInstance
  <2> QED
    BY <2>1, <2>2, <2>3, Moved DEF Ready, Locked
<1>11. ASSUME NEW t \in Thread, check_severity(t) PROVE Ready'
  <2>1. PICK label \in {"write", "idle"} : Goto(t, label)
    BY <1>11 DEF check_severity
  <2> QED
    BY <1>11, <2>1, ReadyKept DEF check_severity, frontend
<1>12. ASSUME NEW t \in Thread, write(t) PROVE Ready'
  BY <1>12, ReadyKept DEF write, frontend
<1>13. ASSUME NEW t \in Thread, set(t) PROVE Ready'
  <2>1. PICK label \in {"instance", "idle"} : Goto(t, label)
    BY <1>13 DEF set
  <2> QED
    BY <1>13, <2>1, ReadyKept DEF set, frontend
<1> QED
  BY <1>1, <1>2, <1>3, <1>4, <1>5, <1>6, <1>7, <1>8, <1>9, <1>10, <1>11, <1>12, <1>13 DEF Next, Step

\* A step outside the stages of the initialization.
LEMMA StagesKept ==
  ASSUME TypeInv, Stages, NEW t \in Thread, NEW label \in Labels, Goto(t, label),
         UNCHANGED <<initialized, appenders, won, output>>,
         pc[t] \notin Initing, label \notin Initing,
         label = "unlock" => initialized,
         logger' = logger \/ (initialized /\ \A u \in Thread : pc[u] \notin Initing)
  PROVE  Stages'
BY Moved DEF Stages, Initing, Configured, Labels

LEMMA StagesNext == TypeInv /\ Roles /\ Ready /\ Stages /\ [Next]_vars => Stages'
<1> SUFFICES ASSUME TypeInv, Roles, Ready, Stages, [Next]_vars PROVE Stages'
  OBVIOUS
<1> USE DEF Labels, Initing
<1>1. CASE UNCHANGED vars
  BY <1>1 DEF vars, Stages, Configured
<1>2. ASSUME NEW t \in Thread, init(t) \/ LOG(t) \/ set_level(t) PROVE Stages'
  <2>1. PICK c \in Call, label \in {"lock", "instance"} : Start(t, c, label)
    BY <1>2, Begins
  <2> QED
    BY <2>1, StagesKept DEF Start, frontend, backend
<1>3. ASSUME NEW t \in Thread, instance(t) PROVE Stages'
  <2>1. PICK label \in {"lock", "set", "check_severity"} : Goto(t, label)
    BY <1>3 DEF instance, AfterInstance
  <2> QED
    BY <1>3, <2>1, StagesKept DEF instance, backend
<1>4. ASSUME NEW t \in Thread, lock(t) PROVE Stages'
  BY <1>4, StagesKept DEF lock, backend
<1>5. ASSUME NEW t \in Thread, test(t) PROVE Stages'
  <2>1. CASE initialized
    BY <1>5, <2>1, StagesKept DEF test, frontend, backend
  <2>2. CASE ~initialized
    <3>1. Goto(t, "plog_init") /\ UNCHANGED <<initialized, appenders, won, output, logger>>
      BY <1>5, <2>2 DEF test, frontend, backend
    <3>2. pc[t] \in Locked
      BY <1>5 DEF test, Locked
    <3>3. \A u \in Thread : pc[u] \notin {"add_appender", "set_initialized"}
      BY <1>5, <3>2, Alone DEF test, Locked
    <3> QED
      BY <2>2, <3>1, <3>3, Moved DEF Stages, Configured
  <2> QED
    BY <2>1, <2>2
<1>6. ASSUME NEW t \in Thread, plog_init(t) PROVE Stages'
  <2>1. pc[t] \in Locked /\ \A u \in Thread : u # t => pc[u] \notin Locked
    BY <1>6, Alone DEF plog_init, Locked
  <2>2. /\ ~initialized /\ appenders = <<>> /\ output = <<>> /\ ~logger.exists
        /\ UNCHANGED <<initialized, appenders, output>> /\ Goto(t, "add_appender")
    BY <1>6 DEF plog_init, Stages, frontend
  <2>3. Configured'
    BY <1>6, <2>2 DEF plog_init, Configured
  <2> QED
    BY <2>1, <2>2, <2>3, Moved DEF Stages, Locked
<1>7. ASSUME NEW t \in Thread, add_appender(t) PROVE Stages'
  <2>1. pc[t] \in Locked /\ \A u \in Thread : u # t => pc[u] \notin Locked
    BY <1>7, Alone DEF add_appender, Locked
  <2>2. /\ ~initialized /\ appenders = <<>> /\ output = <<>> /\ Configured
        /\ UNCHANGED <<initialized, logger, won, output>> /\ Goto(t, "set_initialized")
    BY <1>7 DEF add_appender, Stages, frontend
  <2>3. Len(appenders') = 1
    BY <1>7, <2>2 DEF add_appender
  <2>4. Configured'
    BY <2>2 DEF Configured
  <2> QED
    BY <2>1, <2>2, <2>3, <2>4, Moved DEF Stages, Locked
<1>8. ASSUME NEW t \in Thread, set_initialized(t) PROVE Stages'
  <2>1. pc[t] \in Locked /\ \A u \in Thread : u # t => pc[u] \notin Locked
    BY <1>8, Alone DEF set_initialized, Locked
  <2>2. /\ Len(appenders) = 1 /\ output = <<>> /\ Configured /\ initialized'
        /\ UNCHANGED <<appenders, logger, won, output>> /\ Goto(t, "report")
    BY <1>8 DEF set_initialized, Stages, backend
  <2>3. Configured'
    BY <2>2 DEF Configured
  <2> QED
    BY <2>1, <2>2, <2>3, Moved DEF Stages, Locked
<1>9. ASSUME NEW t \in Thread, report(t) PROVE Stages'
  <2>1. pc[t] \in Locked /\ \A u \in Thread : u # t => pc[u] \notin Locked
    BY <1>9, Alone DEF report, Locked
  <2>2. initialized /\ UNCHANGED <<initialized, appenders, logger, won>> /\ Goto(t, "unlock")
    BY <1>9 DEF report, Stages, frontend
  <2> QED
    BY <2>1, <2>2, Moved DEF Stages, Locked
<1>10. ASSUME NEW t \in Thread, unlock(t) PROVE Stages'
  <2>1. PICK label \in {"idle", "set", "check_severity"} : Goto(t, label)
    BY <1>10 DEF unlock, AfterInstance
  <2> QED
    BY <1>10, <2>1, StagesKept DEF unlock, backend
<1>11. ASSUME NEW t \in Thread, check_severity(t) PROVE Stages'
  <2>1. PICK label \in {"write", "idle"} : Goto(t, label)
    BY <1>11 DEF check_severity
  <2> QED
    BY <1>11, <2>1, StagesKept DEF check_severity, frontend, backend
<1>12. ASSUME NEW t \in Thread, write(t) PROVE Stages'
  <2>1. initialized /\ \A u \in Thread : pc[u] \notin Initing
    BY <1>12 DEF write, Ready, UsesLog
  <2>2. UNCHANGED <<initialized, appenders, logger, won>> /\ Goto(t, "idle")
    BY <1>12 DEF write, frontend
  <2> QED
    BY <2>1, <2>2, Moved DEF Stages
<1>13. ASSUME NEW t \in Thread, set(t) PROVE Stages'
  <2>1. PICK label \in {"instance", "idle"} : Goto(t, label)
    BY <1>13 DEF set
  <2>2. initialized /\ \A u \in Thread : pc[u] \notin Initing
    BY <1>13 DEF set, Ready, UsesLog
  <2> QED
    BY <1>13, <2>1, <2>2, StagesKept DEF set, frontend
<1> QED
  BY <1>1, <1>2, <1>3, <1>4, <1>5, <1>6, <1>7, <1>8, <1>9, <1>10, <1>11, <1>12, <1>13 DEF Next, Step

\* A step that is not part of the initialization and writes nothing.
LEMMA ReportedKept ==
  ASSUME TypeInv, Reported, NEW t \in Thread, NEW label \in Labels, Goto(t, label),
         UNCHANGED <<initialized, appenders, won, output>>, pc[t] # "report"
  PROVE  Reported'
BY Moved DEF Reported, ReportComesFirst, AnyOpen

LEMMA ReportedNext == TypeInv /\ Roles /\ Ready /\ Stages /\ Reported /\ [Next]_vars => Reported'
<1> SUFFICES ASSUME TypeInv, Roles, Ready, Stages, Reported, [Next]_vars PROVE Reported'
  OBVIOUS
<1> USE DEF Labels
<1>1. CASE UNCHANGED vars
  BY <1>1 DEF vars, Reported, ReportComesFirst, AnyOpen
<1>2. ASSUME NEW t \in Thread, init(t) \/ LOG(t) \/ set_level(t) PROVE Reported'
  <2>1. PICK c \in Call, label \in {"lock", "instance"} : Start(t, c, label)
    BY <1>2, Begins
  <2> QED
    BY <2>1, ReportedKept DEF Start, frontend, backend
<1>3. ASSUME NEW t \in Thread, instance(t) PROVE Reported'
  <2>1. PICK label \in {"lock", "set", "check_severity"} : Goto(t, label)
    BY <1>3 DEF instance, AfterInstance
  <2> QED
    BY <1>3, <2>1, ReportedKept DEF instance, backend
<1>4. ASSUME NEW t \in Thread, lock(t) PROVE Reported'
  BY <1>4, ReportedKept DEF lock, backend
<1>5. ASSUME NEW t \in Thread, test(t) PROVE Reported'
  <2>1. PICK label \in {"unlock", "plog_init"} : Goto(t, label)
    BY <1>5 DEF test
  <2> QED
    BY <1>5, <2>1, ReportedKept DEF test, frontend, backend
<1>6. ASSUME NEW t \in Thread, plog_init(t) \/ add_appender(t) PROVE Reported'
  <2>1. output' = <<>> /\ ~initialized'
    BY <1>6 DEF plog_init, add_appender, Stages, frontend
  <2> QED
    BY <2>1 DEF Reported, ReportComesFirst
<1>8. ASSUME NEW t \in Thread, set_initialized(t) PROVE Reported'
  <2>1. output' = <<>> /\ pc'[t] = "report"
    BY <1>8, Moved DEF set_initialized, backend, Stages
  <2> QED
    BY <2>1 DEF Reported, ReportComesFirst
<1>9. ASSUME NEW t \in Thread, report(t) PROVE Reported'
  <2>1. output = <<>> /\ (Passes(notice) <=> won.cfg.filter_level >= notice)
    <3>1. logger.exists /\ logger.max = won.cfg.filter_level /\ output = <<>>
      BY <1>9 DEF report, Stages, Configured
    <3>2. won.cfg.filter_level \in 1 .. 6
      BY DEF TypeInv, Call, Level
    <3> QED
      BY <3>1, <3>2 DEF Passes, notice
  <2>2. UNCHANGED <<appenders, won>>
    BY <1>9 DEF report
  <2>3. output' = IF won.cfg.filter_level >= notice /\ AnyOpen THEN <<"report">> ELSE <<>>
    BY <1>9, <2>1 DEF report, Write, AnyOpen
  <2> QED
    BY <2>2, <2>3 DEF Reported, ReportComesFirst, AnyOpen
<1>10. ASSUME NEW t \in Thread, unlock(t) PROVE Reported'
  <2>1. PICK label \in {"idle", "set", "check_severity"} : Goto(t, label)
    BY <1>10 DEF unlock, AfterInstance
  <2> QED
    BY <1>10, <2>1, ReportedKept DEF unlock, backend
<1>11. ASSUME NEW t \in Thread, check_severity(t) PROVE Reported'
  <2>1. PICK label \in {"write", "idle"} : Goto(t, label)
    BY <1>11 DEF check_severity
  <2> QED
    BY <1>11, <2>1, ReportedKept DEF check_severity, frontend, backend
<1>12. ASSUME NEW t \in Thread, write(t) PROVE Reported'
  <2>1. /\ initialized /\ call[t].kind \in {"log", "confirm"}
        /\ \A u \in Thread : pc[u] # "report"
    BY <1>12 DEF write, Roles, Ready, UsesLog, Initing
  <2>2. Goto(t, "idle") /\ UNCHANGED <<initialized, appenders, won>>
    BY <1>12 DEF write, frontend
  <2>3. CASE AnyOpen
    <3>1. output' = Append(output, call[t].kind)
      BY <1>12, <2>3 DEF write, Write, AnyOpen
    <3>2. /\ Len(output') = Len(output) + 1 /\ output'[Len(output) + 1] = call[t].kind
          /\ \A i \in DOMAIN output : output'[i] = output[i]
      BY <3>1 DEF TypeInv
    <3>3. won.cfg.filter_level >= notice => Len(output) >= 1
      BY <2>1, <2>3 DEF Reported, TypeInv
    <3>4. ReportComesFirst'
      <4>1. DOMAIN output' = 1 .. Len(output) + 1 /\ DOMAIN output = 1 .. Len(output) /\ Len(output) \in Nat
        BY <3>1 DEF TypeInv
      <4>2. call[t].kind # "report" /\ won' = won
        BY <2>1, <2>2
      <4> QED
        BY <3>2, <3>3, <4>1, <4>2 DEF Reported, ReportComesFirst
    <3>5. AnyOpen' /\ output' # <<>>
      BY <2>2, <2>3, <3>1, SMTT(30) DEF AnyOpen, TypeInv
    <3> QED
      BY <3>4, <3>5 DEF Reported
  <2>4. CASE ~AnyOpen
    <3>1. UNCHANGED output
      BY <1>12, <2>4 DEF write, Write, AnyOpen
    <3> QED
      BY <1>12, <2>2, <3>1, ReportedKept DEF write
  <2> QED
    BY <2>3, <2>4
<1>13. ASSUME NEW t \in Thread, set(t) PROVE Reported'
  <2>1. PICK label \in {"instance", "idle"} : Goto(t, label)
    BY <1>13 DEF set
  <2> QED
    BY <1>13, <2>1, ReportedKept DEF set, frontend
<1> QED
  BY <1>1, <1>2, <1>3, <1>4, <1>5, <1>6, <1>8, <1>9, <1>10, <1>11, <1>12, <1>13 DEF Next, Step

-----------------------------------------------------------------------------
LEMMA InitInv == Init => IInv
<1> SUFFICES ASSUME Init PROVE IInv
  OBVIOUS
<1>1. Roles /\ Ready
  BY DEF Init, Roles, Ready, Locked, Initing, UsesLog
<1>2. Stages /\ Reported
  BY DEF Init, Stages, Reported, ReportComesFirst, AnyOpen, NoCall
<1> QED
  BY <1>1, <1>2, TypeInit DEF IInv

LEMMA NextInv == IInv /\ [Next]_vars => IInv'
BY TypeNext, RolesNext, ReadyNext, StagesNext, ReportedNext DEF IInv

\* The invariant that the properties rest on.
THEOREM Invariance == Spec => []IInv
BY InitInv, NextInv, PTL DEF Spec

\* Types; and the mutex is held exactly by the thread in the initializer, the
\* static local exactly while its constructor runs.
THEOREM TypeCorrect == Spec => []TypeInv
<1>1. IInv => TypeInv
  BY DEF IInv
<1> QED
  BY <1>1, Invariance, PTL

\* However many threads race to it, the logger gets one appender (log.hh:239).
THEOREM OneInitialization == Spec => []InitializedOnce
<1>1. IInv => InitializedOnce
  <2> SUFFICES ASSUME IInv PROVE Len(appenders) <= 1 /\ (initialized => Len(appenders) = 1)
    BY DEF InitializedOnce
  <2>1. Len(appenders) = 1 => Len(appenders) <= 1
    OBVIOUS
  <2>2. appenders = <<>> => Len(appenders) <= 1
    OBVIOUS
  <2>3. appenders = <<>> \/ Len(appenders) = 1
    BY DEF IInv, Stages
  <2>4. initialized => Len(appenders) = 1
    BY DEF IInv, Stages
  <2> QED
    BY <2>1, <2>2, <2>3, <2>4
<1> QED
  BY <1>1, Invariance, PTL

\* No thread uses a logger that another one is still setting up (log.hh:314).
THEOREM ReadyWhenUsed == Spec => []UsedOnlyWhenReady
<1>1. IInv => UsedOnlyWhenReady
  BY DEF IInv, Ready, UsedOnlyWhenReady
<1> QED
  BY <1>1, Invariance, PTL

\* The report of the initialization is the first record, whoever waits to log
\* (log.hh:244).
THEOREM ReportIsFirst == Spec => []ReportComesFirst
<1>1. IInv => ReportComesFirst
  BY DEF IInv, Reported
<1> QED
  BY <1>1, Invariance, PTL

\* Whoever gets to the mutex first configures the logger, and afterwards only
\* set_level() changes its level (log.hh:295).
THEOREM ConfiguredOnce == Spec => FirstConfigurationStays
<1> DEFINE Stays ==
      /\ logger.exists /\ logger' # logger =>
             \E t \in Thread : call[t].kind = "set_level" /\ logger'.max = call[t].level
      /\ won.kind # "none" => won' = won
<1>1. IInv /\ [Next]_vars => Stays
  <2> SUFFICES ASSUME IInv, [Next]_vars PROVE Stays
    OBVIOUS
  <2>1. CASE UNCHANGED <<logger, won>>
    BY <2>1
  <2>2. ASSUME NEW t \in Thread, plog_init(t) PROVE Stays
    BY <2>2 DEF plog_init, IInv, Stages
  <2>3. ASSUME NEW t \in Thread, set(t) PROVE Stays
    <3>1. call[t].kind = "set_level" /\ won' = won
      BY <2>3 DEF set, IInv, Roles
    <3>2. logger'.max = call[t].level
      BY <2>3 DEF set, IInv, TypeInv
    <3> QED
      BY <3>1, <3>2
  <2>4. ASSUME NEW t \in Thread, init(t) \/ LOG(t) \/ set_level(t) PROVE UNCHANGED <<logger, won>>
    BY <2>4 DEF init, LOG, set_level, Start, backend
  <2>5. ASSUME NEW t \in Thread,
               \/ instance(t) \/ lock(t) \/ test(t) \/ add_appender(t) \/ set_initialized(t)
               \/ report(t) \/ unlock(t) \/ check_severity(t) \/ write(t)
        PROVE  UNCHANGED <<logger, won>>
    BY <2>5 DEF instance, lock, test, add_appender, set_initialized, report, unlock, check_severity,
                write, backend
  <2>6. CASE UNCHANGED vars
    BY <2>6 DEF vars
  <2> QED
    BY <2>1, <2>2, <2>3, <2>4, <2>5, <2>6 DEF Next, Step
<1>2. Stays => [Stays]_vars
  OBVIOUS
<1> QED
  BY <1>1, Invariance, PTL DEF Spec, FirstConfigurationStays
=============================================================================
