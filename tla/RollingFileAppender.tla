------------------------- MODULE RollingFileAppender -------------------------
(***************************************************************************)
(* RollingFileAppender of the embedded plog (Appenders/): a log file and   *)
(* its numbered predecessors, 0 the current one, with a header each.       *)
(* write() and setFileName() hold a mutex and are one step; so are the     *)
(* others, which rely on the program not to race them.  Programs start     *)
(* over on the files of the last run, also after they were killed amidst   *)
(* rolling.  A file may fail to open, to be unlinked or to be renamed, the *)
(* disk may be full.                                                       *)
(*                                                                         *)
(* A file is a sequence of units, the header and records by their number;  *)
(* the sizes are in these units, each of which is written whole or not.    *)
(***************************************************************************)
EXTENDS Integers, Sequences, SequencesExt, FiniteSetsExt

CONSTANTS FileCounts,      \* values of maxFiles: how many files to keep, 0 for no rolling
          FileSizes,       \* values of maxFileSize
          LowestMax,       \* the 1000 of setMaxFileSize()
          MaxRecords,      \* bound: records written
          MaxStarts        \* bound: programs and file names set

ASSUME RollingAssumption ==
    FileCounts \subseteq Nat /\ FileSizes \subseteq Nat /\ LowestMax \in Nat

VARIABLES disk,            \* by number, the files that exist
          m_file,          \* is the current file open?
          m_fileSize, m_maxFileSize, m_maxFiles, m_firstWrite,
          records,         \* so many were passed to write()
          starts,
          stuck            \* history: the numbers that the latest step failed to move
rollingVars == <<disk, m_file, m_fileSize, m_maxFileSize, m_maxFiles, m_firstWrite, records, starts, stuck>>

header == 0
Failed == -1    \* static_cast<size_t>(-1)

\* What write() and rollLogFiles() work on, as a value.
Files0 == [disk |-> disk, file |-> m_file, size |-> m_fileSize]

limited(maxFileSize) == Max({maxFileSize, LowestMax})

\* File::close(), and ~File()
close_file == m_file' = FALSE

\* The destructor of the one before, and the constructor.
constructed(maxFileSize, maxFiles) ==
    /\ close_file /\ m_fileSize' = 0 /\ m_firstWrite' = TRUE
    /\ m_maxFileSize' = limited(maxFileSize) /\ m_maxFiles' = maxFiles

RollingInit ==
    /\ disk = <<>> /\ records = 0 /\ starts = 1 /\ stuck = {}
    /\ m_file = FALSE /\ m_fileSize = 0 /\ m_firstWrite = TRUE
    /\ m_maxFileSize \in {limited(s) : s \in FileSizes} /\ m_maxFiles \in FileCounts

unlink(d, n) == [k \in DOMAIN d \ {n} |-> d[k]]
rename(d, n) == IF n \notin DOMAIN d THEN d
                ELSE [k \in (DOMAIN d \ {n}) \cup {n + 1} |-> IF k = n + 1 THEN d[n] ELSE d[k]]

\* File::write(): to a file that is not open it fails, and to a full disk.
append_to(s, unit, space) ==
    IF s.file /\ space THEN [s EXCEPT !.disk[0] = Append(@, unit), !.size = @ + 1] ELSE s

\* File::open(), to append to the file, which is created if it does not exist.
open_file(s, opens) ==
    LET d == IF 0 \in DOMAIN s.disk THEN s.disk ELSE [k \in DOMAIN s.disk \cup {0} |-> IF k = 0 THEN <<>> ELSE s.disk[k]]
    IN  IF opens THEN [disk |-> d, file |-> TRUE, size |-> Len(d[0])] ELSE [s EXCEPT !.file = FALSE, !.size = Failed]

openLogFile(s, opens, space) ==
    LET opened == open_file(s, opens)
    IN  IF opened.size = 0 THEN append_to(opened, header, space) ELSE opened

\* With m_maxFiles = 0, the last name is that of the current file.
lastNumber == Max({m_maxFiles - 1, 0})

\* A faulty variant: the numbers end one below.
rolled_one_below(d, fails) ==
    FoldLeft(rename, unlink(d, lastNumber - 1), Reverse([k \in 1..Max({lastNumber - 1, 0}) |-> k - 1]))

\* The last file is unlinked, then the others are renamed from the highest number on,
\* except those of `fails': each may fail by itself, and nobody asks.
rolled(d, fails) ==
    FoldLeft(LAMBDA e, n : IF n \in fails THEN e ELSE rename(e, n),
             IF lastNumber \in fails THEN d ELSE unlink(d, lastNumber),
             Reverse([k \in 1..lastNumber |-> k - 1]))

roll_files(s, opens, space, fails) ==
    openLogFile([s EXCEPT !.disk = rolled(@, fails)], opens, space)

becomes(s) == disk' = s.disk /\ m_file' = s.file /\ m_fileSize' = s.size

write(opens, space, fails) ==
    /\ records < MaxRecords
    /\ LET rolls == ~m_firstWrite /\ m_maxFiles > 0 /\ m_fileSize > m_maxFileSize /\ m_fileSize # Failed
           ready == IF m_firstWrite THEN openLogFile(Files0, opens, space)
                    ELSE IF rolls THEN roll_files(Files0, opens, space, fails)
                    ELSE Files0
       IN  /\ rolls \/ fails = {}
           /\ becomes(append_to(ready, records + 1, space))
    /\ records' = records + 1 /\ m_firstWrite' = FALSE /\ stuck' = fails
    /\ UNCHANGED <<m_maxFileSize, m_maxFiles, starts>>

\* rollLogFiles(), called by the program.
rollLogFiles(opens, space, fails) ==
    /\ becomes(roll_files(Files0, opens, space, fails))
    /\ m_firstWrite' = FALSE /\ stuck' = fails
    /\ UNCHANGED <<m_maxFileSize, m_maxFiles, records, starts>>

\* To the name in use: the files are those there are.
setFileName ==
    /\ starts < MaxStarts /\ starts' = starts + 1
    /\ close_file /\ m_firstWrite' = TRUE /\ stuck' = {}
    /\ UNCHANGED <<disk, m_fileSize, m_maxFileSize, m_maxFiles, records>>

setMaxFiles(n) ==
    /\ m_maxFiles' = n /\ stuck' = {}
    /\ UNCHANGED <<disk, m_file, m_fileSize, m_maxFileSize, m_firstWrite, records, starts>>

setMaxFileSize(n) ==
    /\ m_maxFileSize' = limited(n) /\ stuck' = {}
    /\ UNCHANGED <<disk, m_file, m_fileSize, m_maxFiles, m_firstWrite, records, starts>>

\* The program is over, and another starts.
starts_over ==
    /\ starts < MaxStarts /\ starts' = starts + 1
    /\ \E s \in FileSizes, n \in FileCounts : constructed(s, n)
    /\ UNCHANGED records

\* The program ends, or crashes: each record is written at once.
start_over == starts_over /\ UNCHANGED disk /\ stuck' = {}

\* The program is killed amidst rolling: what it did not come to is left as if it had failed.
killed_rolling(fails) == starts_over /\ disk' = rolled(disk, fails) /\ stuck' = fails

\* To unlink or rename a file that does not exist fails as well, and changes nothing.
RollingNext ==
    \/ \E fails \in SUBSET (DOMAIN disk \cap 0..lastNumber) :
           \/ \E opens, space \in BOOLEAN : write(opens, space, fails) \/ rollLogFiles(opens, space, fails)
           \/ killed_rolling(fails)
    \/ setFileName \/ start_over
    \/ \E n \in FileCounts : setMaxFiles(n)
    \/ \E n \in FileSizes : setMaxFileSize(n)

RollingSpec == RollingInit /\ [][RollingNext]_rollingVars

-----------------------------------------------------------------------------
RecordsIn(n) == ToSet(disk[n]) \ {header}

\* Read from the highest number to 0, the files hold the records in the order they were
\* written, none twice, however often programs start over, files fail to open or to be
\* moved, and limits change in between.
InOrder ==
    /\ \A n, k \in DOMAIN disk : n > k => \A r \in RecordsIn(n), q \in RecordsIn(k) : r < q
    /\ \A n \in DOMAIN disk : \A i, j \in DOMAIN disk[n] : 1 < i /\ i < j => disk[n][i] < disk[n][j]

\* A header begins its file: it is not repeated by those who continue the file.
HeadersFirst == \A n \in DOMAIN disk : \A i \in DOMAIN disk[n] : disk[n][i] = header => i = 1

\* The size that decides on rolling is that of the file.
SizeIsCurrent == m_file => 0 \in DOMAIN disk /\ m_fileSize = Len(disk[0])

\* The file n could not be renamed, but the one before it could, to n.
Overwritten(n) == n \in stuck' /\ n - 1 \in DOMAIN disk \ stuck'

\* A step loses at most the oldest file that is to be kept, and a file that failed to be
\* renamed while the one before it was renamed to its name; the others are found again as
\* they were, with more at their ends.
OnlyOldestLost ==
    [][\A n \in DOMAIN disk \ {lastNumber} :
           Overwritten(n) \/ \E k \in DOMAIN disk' : IsPrefix(disk[n], disk'[k])]_rollingVars

\* Rolling keeps the log: what is there is in order and up to date, and no step loses
\* more than it was told to.
RollingKept == [](InOrder /\ HeadersFirst /\ SizeIsCurrent) /\ OnlyOldestLost
=============================================================================
