------------------------------- MODULE LineLog -------------------------------
(***************************************************************************)
(* What the debug log of src/diag/DBG.hh promises to threads that share    *)
(* it: a file grows by whole lines.  Each statement, between its begin and *)
(* its end, writes one, at once, after those of its thread's earlier ones. *)
(* Only once a file could not be opened may a line lack parts.             *)
(***************************************************************************)
EXTENDS Naturals, Sequences

CONSTANTS Thread, File,
          LastPart,      \* of a line, its end
          MaxStatements  \* bound: statements each thread executes

VARIABLES lines,    \* of each file: <<thread, statement number, part>>
          writing,  \* the threads in a statement that has not written its line
          lossy     \* could a file not be opened?
lineVars == <<lines, writing, lossy>>

\* The parts of a line, or what is left of them, in their order.
Parts == {s \in UNION {[1 .. n -> 1 .. LastPart] : n \in 0 .. LastPart} :
              \A i, j \in DOMAIN s : i < j => s[i] < s[j]}

Line(t, n, s) == [i \in DOMAIN s |-> <<t, n, s[i]>>]

\* The statement n comes after those of its thread that have a line.
Follows(t, n) == \A f \in File : \A i \in 1 .. Len(lines[f]) : lines[f][i][1] = t => lines[f][i][2] < n

Init == lines = [f \in File |-> <<>>] /\ writing = {} /\ lossy = FALSE

Begin(t) == t \notin writing /\ writing' = writing \cup {t} /\ UNCHANGED <<lines, lossy>>

WriteLine(t) ==
    /\ t \in writing /\ writing' = writing \ {t}
    /\ \E f \in File, n \in 1 .. MaxStatements, s \in Parts :
        /\ Follows(t, n)
        /\ lines' = [lines EXCEPT ![f] = @ \o Line(t, n, s)]
        /\ lossy' \in BOOLEAN /\ (lossy => lossy')
        /\ lossy' \/ \A p \in 1 .. LastPart : \E i \in DOMAIN s : s[i] = p

\* A file cannot be opened.
Fail == lossy' = TRUE /\ UNCHANGED <<lines, writing>>

Next == Fail \/ \E t \in Thread : Begin(t) \/ WriteLine(t)

Spec == Init /\ [][Next]_lineVars
=============================================================================
