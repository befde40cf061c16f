-------------------------------- MODULE Paths --------------------------------
(***************************************************************************)
(* The functions on paths of src/sys/fs.hh, as built for Unix, and those  *)
(* that name log files (plog/Util.h): one prefix and one path, chosen at   *)
(* the start.  A path is a sequence of characters; "x" stands for those    *)
(* that are not special.  What std::filesystem does for dirname() and      *)
(* basename() is taken from its documentation.                             *)
(***************************************************************************)
EXTENDS Naturals, Sequences, SequencesExt, FiniteSetsExt

CONSTANT MaxPath     \* bound: characters of prefix and path

ASSUME PathAssumption == MaxPath \in Nat

VARIABLES prefix, path
pathsVars == <<prefix, path>>

Path == SeqOf({"x", ".", "/", "~", "\\"}, MaxPath)
PathsInit == prefix \in Path /\ path \in Path

is_sep(ch) == ch = "/"

dirname(p) ==
    LET last == Max({0} \cup {i \in DOMAIN p : is_sep(p[i])})
        kept == Max({0} \cup {i \in 1..last : ~is_sep(p[i])})
    IN  IF last = 0 THEN <<>>
        ELSE IF kept > 0 THEN SubSeq(p, 1, kept)
        ELSE IF last = Len(p) THEN p ELSE <<"/">>

filename(p) == SubSeq(p, Max({0} \cup {i \in DOMAIN p : is_sep(p[i])}) + 1, Len(p))

\* A file name that begins with its last dot, or is "..", has no suffix.
basename(p, keep_last_suffix) ==
    LET f == filename(p)
        dot == Max({0} \cup {i \in DOMAIN f : f[i] = "."})
    IN  IF keep_last_suffix \/ dot <= 1 \/ f = <<".", ".">> THEN f ELSE SubSeq(f, 1, dot - 1)

\* Ends in a slash if not empty; a backslash will do, on any platform.
endslash_fixup(dirpath) ==
    IF dirpath # <<>> /\ Last(dirpath) \notin {"/", "\\"} THEN Append(dirpath, "/") ELSE dirpath

is_absolute(p) == p # <<>> /\ p[1] = "/"

syntactically_unprefixable(p) == p # <<>> /\ p[1] = "~"

dotted_optout(p) == p = <<".">> \/ (Len(p) >= 2 /\ p[1] = "." /\ is_sep(p[2]))

\* A faulty variant: requires something after the slash, as above.
slashed_optout_longer(p) == Len(p) >= 2 /\ is_sep(p[1])

slashed_optout(p) == p # <<>> /\ is_sep(p[1])

prefix_by_intent(pre, p) ==
    IF syntactically_unprefixable(p) \/ dotted_optout(p) \/ slashed_optout(p) \/ pre = <<>> THEN p
    ELSE IF p = <<>> THEN pre
    ELSE pre \o (IF is_sep(Last(pre)) THEN <<>> ELSE <<"/">>) \o p

\* The names of a log file and its predecessors (plog/Util.h): the number goes before the
\* last dot of the path, be it that of a directory.
splitFileName(p) ==
    LET dot == Max({0} \cup {i \in DOMAIN p : p[i] = "."})
    IN  IF dot = 0 THEN [noExt |-> p, ext |-> <<>>]
        ELSE [noExt |-> SubSeq(p, 1, dot - 1), ext |-> SubSeq(p, dot + 1, Len(p))]

buildFileName(s, number) ==
    s.noExt \o (IF number = <<>> THEN <<>> ELSE <<".">> \o number) \o (IF s.ext = <<>> THEN <<>> ELSE <<".">> \o s.ext)

\* The format of a log file is chosen by its extension; <<"x">> stands for that of CSV.
isCsv(fileName) == Contains(fileName, ".") /\ splitFileName(fileName).ext = <<"x">>

-----------------------------------------------------------------------------
\* Prefixing is done once: if a prefix opts out of being prefixed itself, applying it to
\* its own result, as a caller may who does not know whether that is done, changes
\* nothing, whatever the path.
PrefixedOnce ==
    LET p == prefix_by_intent(prefix, path)
    IN  is_absolute(prefix) \/ dotted_optout(prefix) \/ syntactically_unprefixable(prefix)
            => prefix_by_intent(prefix, p) = p

Doubled(p) == \E i \in 1..(Len(p) - 1) : is_sep(p[i]) /\ is_sep(p[i + 1])
Simple(p) == FoldLeft(LAMBDA r, c : IF is_sep(c) /\ r # <<>> /\ is_sep(Last(r)) THEN r ELSE Append(r, c), <<>>, p)

\* Prefixing introduces no empty directory name, and neither merges the prefix with the
\* first name of the path: what is rebased remains below the prefix.
JoinedByOneSlash ==
    LET p == prefix_by_intent(prefix, path)
        rebased == p # path
    IN  /\ Doubled(p) => Doubled(prefix) \/ Doubled(path)
        /\ rebased /\ path # <<>> => Simple(p) = Simple(prefix \o <<"/">> \o path)

\* A path can be taken apart into its directory and its name, and put together again, up
\* to repeated slashes; but not with a directory whose name ends in a backslash:
\* endslash_fixup() takes that for the separator, on Unix too (fs.hh:57).
TakenApart ==
    LET d == dirname(path)
    IN  \/ d # <<>> /\ Last(d) = "\\"
        \/ Simple(endslash_fixup(d) \o basename(path, TRUE)) = Simple(path)

\* The name without its suffix begins the name, and is not empty unless that is: the names
\* that begin with a dot have none to lose.
SuffixEndsName ==
    /\ IsPrefix(basename(path, FALSE), basename(path, TRUE))
    /\ basename(path, FALSE) = <<>> => basename(path, TRUE) = <<>>

\* A log file whose name has a dot, but not at the end, keeps its name, and its
\* predecessors are others, in the same directory.  (Without one, a dot in the name of a
\* directory is taken, and the predecessors go elsewhere.)
NumberedBeside ==
    LET s == splitFileName(path)
        name == filename(path)
    IN  name # <<>> /\ Last(name) # "." /\ Contains(name, ".")
            => /\ buildFileName(s, <<>>) = path
               /\ dirname(buildFileName(s, <<"1">>)) = dirname(path)
               /\ buildFileName(s, <<"1">>) # path

\* The extension that the format was chosen by is that of the files written, the
\* predecessors included, unless the name given ends in a dot, which is lost.
FormatTold ==
    path # <<>> /\ Last(path) # "." =>
        \A number \in {<<>>, <<"1">>} : isCsv(buildFileName(splitFileName(path), number)) = isCsv(path)

\* Paths are joined and taken apart without changing what they name.
PathsKept == PrefixedOnce /\ JoinedByOneSlash /\ TakenApart /\ SuffixEndsName /\ NumberedBeside /\ FormatTold
=============================================================================
