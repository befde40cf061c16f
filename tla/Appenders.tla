------------------------------ MODULE Appenders ------------------------------
(***************************************************************************)
(* Threads log through the embedded plog: its logger passes each record to *)
(* a DynamicAppender, which hands it to the console appenders of the       *)
(* moment, and to one console appender directly.  ColorConsoleAppenders    *)
(* switch the colour of their stream, write, and switch it back, under a   *)
(* mutex of their own; but the streams are the program's, std::cout and    *)
(* std::cerr (ConsoleAppender.h:25, 36), and several appenders may have    *)
(* the same one.  Colours are those that the sequences in the text of a    *)
(* stream ask for; what a terminal makes of two streams is left out.       *)
(***************************************************************************)
EXTENDS Naturals

CONSTANTS Thread, NoThread,
          Console,         \* the console appenders
          Direct,          \* the one that is the logger's own
          Stream,          \* std::cout and std::cerr
          Terminal,        \* the streams for which m_isatty is set
          Severities,      \* of the records
          MaxWrites        \* bound: records

ASSUME AppendersAssumption ==
    Direct \in Console /\ Terminal \subseteq Stream /\ Severities \subseteq 1..6 /\ NoThread \notin Thread

VARIABLES m_appenders,     \* of the DynamicAppender
          dynamic_mutex,   \* who holds its mutex
          m_outputStream,  \* of each console appender
          m_mutex,         \* who holds that of a console appender
          doing,           \* where the threads are
          colour,          \* of the streams
          onscreen,        \* severity and colour of the latest record of a stream
          writes
appendersVars == <<m_appenders, dynamic_mutex, m_outputStream, m_mutex, doing, colour, onscreen, writes>>

Idle == [at |-> "idle", severity |-> 4, left |-> {}, console |-> Direct, via |-> "logger"]

AppendersInit ==
    /\ m_appenders = {} /\ dynamic_mutex = NoThread
    /\ m_outputStream \in [Console -> Stream]
    /\ m_mutex = [a \in Console |-> NoThread]
    /\ doing = [t \in Thread |-> Idle]
    /\ colour = [s \in Stream |-> "plain"]
    /\ onscreen = [s \in Stream |-> [severity |-> 4, colour |-> "plain"]]
    /\ writes = 0

\* setColor(): none for `info'
Colour(severity) == <<"white on red", "red", "yellow", "plain", "cyan", "cyan">>[severity]

\* The stream of the appender that a thread is in.
stream(t) == m_outputStream[doing[t].console]

Goto(t, label) == doing' = [doing EXCEPT ![t].at = label]

\* MutexLock, ~MutexLock
Free(mutex) == mutex = NoThread

\* Logger::write() of a record that passes; the appenders come in turn.
log(t, severity) ==
    /\ doing[t].at = "idle" /\ writes < MaxWrites
    /\ doing' = [doing EXCEPT ![t] = [Idle EXCEPT !.at = "dynamic", !.severity = severity]]
    /\ writes' = writes + 1
    /\ UNCHANGED <<m_appenders, m_outputStream, dynamic_mutex, m_mutex, colour, onscreen>>

\* A faulty variant: works on a copy, without the mutex.
lock_dynamic_copying(t) ==
    /\ doing[t].at = "dynamic" /\ Free(dynamic_mutex)
    /\ doing' = [doing EXCEPT ![t] = [@ EXCEPT !.at = "each", !.left = m_appenders]]
    /\ UNCHANGED <<m_appenders, m_outputStream, dynamic_mutex, m_mutex, colour, onscreen, writes>>

\* DynamicAppender::write() begins.
lock_dynamic(t) ==
    /\ doing[t].at = "dynamic" /\ Free(dynamic_mutex)
    /\ dynamic_mutex' = t
    /\ doing' = [doing EXCEPT ![t] = [@ EXCEPT !.at = "each", !.left = m_appenders]]
    /\ UNCHANGED <<m_appenders, m_outputStream, m_mutex, colour, onscreen, writes>>

\* Its loop: the next appender, or the end, and the logger's next appender.
each(t) ==
    /\ doing[t].at = "each"
    /\ \/ /\ \E a \in doing[t].left :
                doing' = [doing EXCEPT ![t] = [@ EXCEPT !.at = "console", !.console = a, !.via = "dynamic",
                                                        !.left = doing[t].left \ {a}]]
          /\ UNCHANGED dynamic_mutex
       \/ /\ doing[t].left = {}
          /\ doing' = [doing EXCEPT ![t] = [@ EXCEPT !.at = "console", !.console = Direct, !.via = "logger"]]
          /\ dynamic_mutex' = NoThread
    /\ UNCHANGED <<m_appenders, m_outputStream, m_mutex, colour, onscreen, writes>>

\* ColorConsoleAppender::write() has formatted the record, and takes the mutex.
lock_console(t) ==
    /\ doing[t].at = "console" /\ Free(m_mutex[doing[t].console])
    /\ m_mutex' = [m_mutex EXCEPT ![doing[t].console] = t]
    /\ Goto(t, "colour")
    /\ UNCHANGED <<m_appenders, m_outputStream, dynamic_mutex, colour, onscreen, writes>>

setColor(t) ==
    /\ doing[t].at = "colour"
    /\ LET c == Colour(doing[t].severity)
       IN  colour' = [colour EXCEPT ![stream(t)] = IF stream(t) \in Terminal /\ c # "plain" THEN c ELSE @]
    /\ Goto(t, "text")
    /\ UNCHANGED <<m_appenders, m_outputStream, dynamic_mutex, m_mutex, onscreen, writes>>

writestr(t) ==
    /\ doing[t].at = "text"
    /\ onscreen' = [onscreen EXCEPT ![stream(t)] = [severity |-> doing[t].severity, colour |-> colour[stream(t)]]]
    /\ Goto(t, "reset")
    /\ UNCHANGED <<m_appenders, m_outputStream, dynamic_mutex, m_mutex, colour, writes>>

\* ... and the mutex is released.
resetColor(t) ==
    /\ doing[t].at = "reset"
    /\ colour' = [colour EXCEPT ![stream(t)] = IF stream(t) \in Terminal THEN "plain" ELSE @]
    /\ m_mutex' = [m_mutex EXCEPT ![doing[t].console] = NoThread]
    /\ Goto(t, IF doing[t].via = "dynamic" THEN "each" ELSE "idle")
    /\ UNCHANGED <<m_appenders, m_outputStream, dynamic_mutex, onscreen, writes>>

\* Under the mutex of the DynamicAppender, by a thread that is not logging.
change(t) ==
    /\ doing[t].at = "idle" /\ Free(dynamic_mutex)
    /\ UNCHANGED <<m_outputStream, dynamic_mutex, m_mutex, doing, colour, onscreen, writes>>

addAppender(t, a)    == change(t) /\ m_appenders' = m_appenders \cup {a}
removeAppender(t, a) == change(t) /\ m_appenders' = m_appenders \ {a}

AppendersNext ==
    \E t \in Thread :
        \/ \E severity \in Severities : log(t, severity)
        \/ lock_dynamic(t) \/ each(t) \/ lock_console(t) \/ setColor(t) \/ writestr(t) \/ resetColor(t)
        \/ \E a \in Console : addAppender(t, a) \/ removeAppender(t, a)

AppendersSpec == AppendersInit /\ [][AppendersNext]_appendersVars

-----------------------------------------------------------------------------
\* An appender may be destroyed once removeAppender() returned: no thread is in, or on
\* its way to, its write() then.
RemovedLeftAlone ==
    \A t \in Thread : doing[t].via = "dynamic" /\ doing[t].at \in {"console", "colour", "text", "reset"}
                          => doing[t].console \in m_appenders

Alone(a) == \A b \in Console : m_outputStream[b] = m_outputStream[a] => b = a

\* On a stream with one appender, each record is shown in the colour of its severity, also
\* if several threads reach the appender, some through the DynamicAppender.  (Appenders
\* with the same stream mix their colours: their mutexes are their own.)
ColoursRight ==
    \A a \in Console : LET shown == onscreen[m_outputStream[a]]
                       IN  Alone(a) /\ m_outputStream[a] \in Terminal => shown.colour = Colour(shown.severity)

\* When nobody writes, the colour of a stream is what it was before, even if several
\* appenders have it; one that is no terminal gets no colours at all.
PlainAtRest ==
    \A s \in Stream : colour[s] # "plain" =>
        s \in Terminal /\ \E a \in Console : m_outputStream[a] = s /\ ~Free(m_mutex[a])

\* The threads never wait for each other in a circle: those with a console appender's mutex
\* want no other, and the one with the DynamicAppender's waits for those only.
SomeoneProceeds ==
    (\E t \in Thread : doing[t].at # "idle") =>
        \E t \in Thread : CASE doing[t].at = "idle"    -> FALSE
                            [] doing[t].at = "dynamic" -> Free(dynamic_mutex)
                            [] doing[t].at = "console" -> Free(m_mutex[doing[t].console])
                            [] OTHER                   -> TRUE

\* Appenders are shared without harm.
AppendersShared == RemovedLeftAlone /\ ColoursRight /\ PlainAtRest /\ SomeoneProceeds
=============================================================================
