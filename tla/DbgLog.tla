------------------------------- MODULE DbgLog -------------------------------
(***************************************************************************)
(* The debug log of src/diag/DBG.hh used by several threads.  A DBGLOG     *)
(* statement builds a temporary that holds one mutex for the whole line,   *)
(* writes its items one by one through a stream shared by all statements,  *)
(* and ends the line and unlocks when it is destroyed.  The name of the    *)
(* current file is shared, too; a statement that names a file switches it. *)
(***************************************************************************)
EXTENDS Naturals, Sequences

CONSTANTS Thread, NoThread,
          File, DefaultFile,
          None,          \* no file named, or none current yet
          MaxStatements  \* bound: statements each thread executes

ASSUME FileAssumption == DefaultFile \in File /\ None \notin File
ASSUME ThreadAssumption == NoThread \notin Thread
ASSUME BoundAssumption == MaxStatements \in Nat

\* A statement writes two items and the end of its line.
Items   == 2
LastPart == Items + 1
Part    == 1 .. LastPart

VARIABLES mutex,
          filename,   \* _s_filename, None before the first call of streamer()
          is_open,    \* of _s_stream
          failed,     \* history: could a file not be opened?
          content,    \* of each file: <<thread, statement number, part>>
          pc,
          wanted,     \* filename_wanted_ of each thread's statement
          part,       \* the part each thread writes next
          executed    \* statements begun by each thread

vars == <<mutex, filename, is_open, failed, content, pc, wanted, part, executed>>
stream == <<filename, is_open, failed, content>>

Init ==
    /\ mutex = NoThread
    /\ filename = None
    /\ is_open = FALSE
    /\ failed = FALSE
    /\ content = [f \in File |-> <<>>]
    /\ pc = [t \in Thread |-> "idle"]
    /\ wanted = [t \in Thread |-> None]
    /\ part = [t \in Thread |-> 1]
    /\ executed = [t \in Thread |-> 0]

\* Faulty variants of the operations are named for their fault and stand before
\* the operation; the properties are checked to notice them.
streamer_unswitching(name, open) ==
    /\ filename' = IF filename # None THEN filename ELSE IF name # None THEN name ELSE DefaultFile
    /\ IF open /\ ~is_open
       THEN \E opened \in BOOLEAN : is_open' = opened /\ failed' = (failed \/ ~opened)
       ELSE UNCHANGED <<is_open, failed>>

streamer_opening_once(name, open) ==
    LET current == IF filename # None THEN filename ELSE IF name # None THEN name ELSE DefaultFile
        switch  == name # None /\ name # current
    IN  /\ filename' = IF switch THEN name ELSE current
        /\ is_open' = IF filename = None THEN open ELSE is_open /\ ~switch
        /\ UNCHANGED failed

\* streamer(name, open): what becomes of the current file and of the stream.
\* An already selected name is not opened again, an empty one is the current.
streamer(name, open) ==
    LET current  == IF filename # None THEN filename ELSE IF name # None THEN name ELSE DefaultFile
        switch   == name # None /\ name # current
        still    == is_open /\ ~switch
    IN  /\ filename' = IF switch THEN name ELSE current
        /\ IF open /\ ~still
           THEN \E opened \in BOOLEAN : is_open' = opened /\ failed' = (failed \/ ~opened)
           ELSE is_open' = still /\ UNCHANGED failed

\* What is written while the file could not be opened is lost.
Put(t) ==
    content' = IF is_open'
               THEN [content EXCEPT ![filename'] = Append(@, <<t, executed[t], part[t]>>)]
               ELSE content

-----------------------------------------------------------------------------
\* DBGLOG ... and DBGLOGX(f) ..., whose first item comes after the lock, and
\* DBGLOG_USE(f), which has no items and ends no line.
Begin(t, name, first) ==
    /\ pc[t] = "idle"
    /\ executed[t] < MaxStatements
    /\ executed' = [executed EXCEPT ![t] = @ + 1]
    /\ wanted' = [wanted EXCEPT ![t] = name]
    /\ part' = [part EXCEPT ![t] = first]
    /\ pc' = [pc EXCEPT ![t] = "construct"]
    /\ UNCHANGED <<mutex, stream>>

DBGLOG(t) == Begin(t, None, 1)

DBGLOGX(t) == \E f \in File : Begin(t, f, 1)

DBGLOG_USE(t) == \E f \in File : Begin(t, f, LastPart + 1)

construct_unlocked(t) ==
    /\ pc[t] = "construct"
    /\ mutex' = t
    /\ IF wanted[t] # None THEN streamer(wanted[t], TRUE) ELSE UNCHANGED <<filename, is_open, failed>>
    /\ pc' = [pc EXCEPT ![t] = IF part[t] > LastPart THEN "close" ELSE "put"]
    /\ UNCHANGED <<content, wanted, part, executed>>

\* The constructors: lock the mutex; the one with a file name opens that file.
construct(t) ==
    /\ pc[t] = "construct"
    /\ mutex = NoThread
    /\ mutex' = t
    /\ IF wanted[t] # None THEN streamer(wanted[t], TRUE) ELSE UNCHANGED <<filename, is_open, failed>>
    /\ pc' = [pc EXCEPT ![t] = IF part[t] > LastPart THEN "close" ELSE "put"]
    /\ UNCHANGED <<content, wanted, part, executed>>

\* operator<< and operator, each write one item.
put_item(t) ==
    /\ pc[t] = "put"
    /\ part[t] <= Items
    /\ streamer(wanted[t], TRUE)
    /\ Put(t)
    /\ part' = [part EXCEPT ![t] = @ + 1]
    /\ UNCHANGED <<mutex, pc, wanted, executed>>

\* The destructor: the end of the line, on the current file, ...
end_line(t) ==
    /\ pc[t] = "put"
    /\ part[t] = LastPart
    /\ streamer(None, TRUE)
    /\ Put(t)
    /\ pc' = [pc EXCEPT ![t] = "close"]
    /\ UNCHANGED <<mutex, wanted, part, executed>>

close_locked(t) ==
    /\ pc[t] = "close"
    /\ streamer(wanted[t], FALSE)
    /\ pc' = [pc EXCEPT ![t] = "idle"]
    /\ UNCHANGED <<mutex, content, wanted, part, executed>>

\* ... then close(), which only closes a file other than the wanted one, and
\* the release of the mutex.
close(t) ==
    /\ pc[t] = "close"
    /\ streamer(wanted[t], FALSE)
    /\ mutex' = NoThread
    /\ pc' = [pc EXCEPT ![t] = "idle"]
    /\ UNCHANGED <<content, wanted, part, executed>>

Step(t) == construct(t) \/ put_item(t) \/ end_line(t) \/ close(t)

Next == \E t \in Thread : DBGLOG(t) \/ DBGLOGX(t) \/ DBGLOG_USE(t) \/ Step(t)

Spec == Init /\ [][Next]_vars

\* The scheduler runs every thread that can run.
FairSpec == Spec /\ \A t \in Thread : WF_vars(Step(t))

-----------------------------------------------------------------------------
\* Types; and an open stream is a named file's, the default one's included
\* (DBG.hh:1263).
TypeInv ==
    /\ mutex \in Thread \cup {NoThread}
    /\ filename \in File \cup {None}
    /\ is_open \in BOOLEAN
    /\ failed \in BOOLEAN
    /\ content \in [File -> Seq(Thread \X (1 .. MaxStatements) \X Part)]
    /\ pc \in [Thread -> {"idle", "construct", "put", "close"}]
    /\ wanted \in [Thread -> File \cup {None}]
    /\ part \in [Thread -> 1 .. LastPart + 1]
    /\ executed \in [Thread -> 0 .. MaxStatements]
    /\ is_open => filename # None

Statement(item) == <<item[1], item[2]>>

\* Lines are not garbled: the parts of a statement stand together and in order
\* in the one file it writes, also when some of them were lost
\* (DBG.hh:1276, "got garbled output across op<< calls otherwise").
LinesNotGarbled ==
    \A f \in File : \A i, j \in 1 .. Len(content[f]) :
        i < j /\ Statement(content[f][i]) = Statement(content[f][j]) =>
            \A k \in i .. j - 1 :
                /\ Statement(content[f][k]) = Statement(content[f][k + 1])
                /\ content[f][k][3] < content[f][k + 1][3]

\* A statement's line is in one file only, and if the statement named a file in
\* that one, whatever files other threads name meanwhile (DBG.hh:1298).
LinesInOneFile ==
    \A f \in File : \A i \in 1 .. Len(content[f]) :
        LET s == Statement(content[f][i])
        IN  /\ \A g \in File \ {f} : \A j \in 1 .. Len(content[g]) : Statement(content[g][j]) # s
            /\ wanted[s[1]] # None /\ executed[s[1]] = s[2] => f = wanted[s[1]]

\* As long as no file failed to open, a statement about to return has written
\* its whole line, across the switches of the shared stream (DBG.hh:1262-1272).
LinesComplete ==
    ~failed => \A t \in Thread :
        pc[t] = "close" /\ part[t] = LastPart =>
            \A p \in Part : \E f \in File : \E i \in 1 .. Len(content[f]) :
                content[f][i] = <<t, executed[t], p>>

\* A line is in one file, and all of it.
LinesWhole == LinesInOneFile /\ LinesComplete

\* Seen by the line, the log is one of whole lines, written at once each
\* (DBG.hh:1276): the first parts of a line appear with its last one.
Unended(item) == pc[item[1]] = "put" /\ item[2] = executed[item[1]]

Ended(f) ==
    CHOOSE n \in 0 .. Len(content[f]) :
        \A i \in 1 .. Len(content[f]) : i <= n <=> ~Unended(content[f][i])

Log == INSTANCE LineLog WITH
    lines <- [f \in File |-> SubSeq(content[f], 1, Ended(f))],
    writing <- {t \in Thread : pc[t] \in {"construct", "put"} /\ part[t] <= LastPart},
    lossy <- failed
ImplementsLineLog == Log!Spec

\* Every statement ends: none waits for the mutex for ever.
EveryStatementEnds == \A t \in Thread : pc[t] # "idle" ~> pc[t] = "idle"
=============================================================================
