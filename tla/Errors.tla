-------------------------------- MODULE Errors --------------------------------
(***************************************************************************)
(* The error reports of src/diag/error.hh and error.cc: each is logged and *)
(* shown on cerr, and some end in an exception or end the program.  A file *)
(* operation that failed leaves its errno to report_file_error(), whose    *)
(* own output may fail, too.                                               *)
(***************************************************************************)
EXTENDS Naturals, Sequences, SequencesExt

CONSTANTS Message,        \* what callers say, besides the empty message
          Errno           \* what a failed operation leaves in errno, besides 0

ASSUME ErrnoAssumption == 0 \notin Errno

Empty == "empty message"   \* ""
AbortMethod == {"Throw", "Abort", "Exit"}

VARIABLES cfg_abort_method, errno,
          logged, cerr,     \* lines that the latest call wrote
          returned,         \* by the latest report_file_error()
          thrown,           \* the latest FatalError
          mode,             \* running, or thrown, aborted, exited
          latest, untold    \* history: what the latest failure left in errno, and whether no
                            \* report has told it yet
told == <<logged, cerr>>
failures == <<latest, untold>>
errorsVars == <<cfg_abort_method, errno, told, returned, thrown, mode, failures>>

ErrorsInit ==
    /\ cfg_abort_method = "Throw"
    /\ errno = 0 /\ latest = 0 /\ untold = FALSE
    /\ logged = <<>> /\ cerr = <<>>
    /\ returned = 0
    /\ thrown = [message |-> Empty, loc |-> "none"]
    /\ mode = "running"

\* A line, with the source location that src_loc_suffix() gives it.
Line(tag, message, loc) == [tag |-> tag, message |-> message, loc |-> loc, cause |-> 0]

\* Lines are written to the log and to cerr, with `err' in errno: that may fail, too, and
\* set errno.  (`due': whether the latest failure before it is still untold.)
Writing(err, due) ==
    \E e \in {0} \cup Errno :
        /\ errno' = IF e # 0 THEN e ELSE err
        /\ latest' = IF e # 0 THEN e ELSE latest
        /\ untold' = (e # 0 \/ due)

\* NOTE_impl(): the location is for the log only.
NOTE_impl(message, loc) ==
    /\ logged' = <<Line("Note", message, loc)>> /\ cerr' = <<Line("Note", message, "none")>>
    /\ Writing(errno, untold) /\ UNCHANGED <<returned, thrown, mode>>

Tells(lines) == logged' = lines /\ cerr' = lines

\* WARNING_impl(), ERROR_impl(), BUG_impl()
report_impl(level, message, loc) ==
    /\ Tells(<<Line(level, message, loc)>>)
    /\ Writing(errno, untold) /\ UNCHANGED <<returned, thrown, mode>>

Leaves(message, loc) ==
    /\ mode' = CASE cfg_abort_method = "Abort" -> "aborted"
                 [] cfg_abort_method = "Exit"  -> "exited"
                 [] cfg_abort_method = "Throw" -> "thrown"
    /\ thrown' = IF cfg_abort_method = "Throw" THEN [message |-> message, loc |-> loc] ELSE thrown
    /\ Writing(errno, untold) /\ UNCHANGED returned

\* ABORT_impl(), after `lines'; an empty message is told without a location.
ABORT_impl(lines, message, loc) ==
    /\ Tells(Append(lines, Line("Abort", message, IF message = Empty THEN "none" ELSE loc)))
    /\ Leaves(message, loc)

\* FATAL_impl() aborts without the message, from a place of its own.
FATAL_impl(message, loc) == ABORT_impl(<<Line("Fatal", message, loc)>>, Empty, "FATAL_impl")

Severity == {"Note", "Warning", "Error", "Fatal", "Bug", "FatalBug", "Abort"}

\* Note() ... Abort()
call(severity, message, loc) ==
    /\ mode = "running"
    /\ \/ severity = "Note" /\ NOTE_impl(message, loc)
       \/ severity \in {"Warning", "Error", "Bug"} /\ report_impl(severity, message, loc)
       \/ severity = "Fatal" /\ FATAL_impl(message, loc)
       \/ severity = "FatalBug" /\ ABORT_impl(<<Line("Bug", message, loc)>>, message, loc)
       \/ severity = "Abort" /\ ABORT_impl(<<>>, message, loc)
    /\ UNCHANGED cfg_abort_method

\* A faulty variant: errno is not reset.
report_file_error_keeping(message) ==
    /\ mode = "running"
    /\ IF message = Empty /\ errno = 0
       THEN Tells(<<>>) /\ UNCHANGED <<errno, failures>>
       ELSE /\ Tells(<<[tag |-> "Error", message |-> message, loc |-> "report_file_error", cause |-> errno]>>)
            /\ Writing(errno, untold /\ errno = 0)
    /\ returned' = errno
    /\ UNCHANGED <<cfg_abort_method, thrown, mode>>

\* report_file_error(): the message and, if there is one, the error that errno
\* tells, which is reset before the report is written; nothing without either.
report_file_error(message) ==
    /\ mode = "running"
    /\ IF message = Empty /\ errno = 0
       THEN Tells(<<>>) /\ UNCHANGED <<errno, failures>>
       ELSE /\ Tells(<<[tag |-> "Error", message |-> message, loc |-> "report_file_error", cause |-> errno]>>)
            /\ Writing(0, untold /\ errno = 0)
    /\ returned' = errno
    /\ UNCHANGED <<cfg_abort_method, thrown, mode>>

\* The program: an operation on a file fails; a handler catches a FatalError; the
\* abort method is set.
fail(e) ==
    /\ mode = "running"
    /\ errno' = e /\ latest' = e /\ untold' = TRUE
    /\ UNCHANGED <<cfg_abort_method, told, returned, thrown, mode>>

catch_FatalError ==
    /\ mode = "thrown" /\ mode' = "running"
    /\ UNCHANGED <<cfg_abort_method, errno, told, returned, thrown, failures>>

configure(method) ==
    /\ mode = "running"
    /\ cfg_abort_method' = method
    /\ UNCHANGED <<errno, told, returned, thrown, mode, failures>>

ErrorsNext ==
    \/ \E severity \in Severity, message \in Message \cup {Empty} : call(severity, message, "caller")
    \/ \E message \in Message \cup {Empty} : report_file_error(message)
    \/ \E e \in Errno : fail(e)
    \/ \E method \in AbortMethod : configure(method)
    \/ catch_FatalError

ErrorsSpec == ErrorsInit /\ [][ErrorsNext]_errorsVars

-----------------------------------------------------------------------------
\* report_file_error() tells and returns the latest failure, for what it was, if no report
\* has told it before, and no failure otherwise: "Also resets errno, returning the value
\* captured on entry" (error.hh:188).  What failed may have been the output of an earlier
\* report, and a failure that another one followed is not told at all.
FileErrorToldOnce ==
    [][\A message \in Message \cup {Empty} : report_file_error(message) =>
           LET cause == IF untold THEN latest ELSE 0
           IN  /\ returned' = cause
               /\ cause # 0 => logged' # <<>> /\ cerr' # <<>>
               /\ logged' # <<>> => Last(logged').cause = cause
               /\ cerr' # <<>> => Last(cerr').cause = cause]_errorsVars

\* However it is configured to end, the program never ends or throws without its
\* message having been logged and shown, a Fatal's with the place of its call,
\* although the exception of a Fatal carries neither.
NothingEndsUntold ==
    [][mode = "running" /\ mode' # "running" =>
           /\ cerr' # <<>> /\ logged' # <<>>
           /\ mode' = "thrown" /\ thrown'.loc # "caller" => Head(cerr').loc = "caller"
           /\ mode' = "thrown" /\ thrown'.loc = "caller" => Last(cerr').message = thrown'.message]_errorsVars

\* Errors are told, once, and for what they were.
ErrorsTold == FileErrorToldOnce /\ NothingEndsUntold
=============================================================================
