-------------------------------- MODULE SemVer --------------------------------
(***************************************************************************)
(* SemVer of src/semver.hh and semver.cc: the two implementations of       *)
(* parse(), by sscanf() (the default) and by a string stream (if           *)
(* sz_SEMVER_PARSE_WITH_STRINGSTREAM), and the comparisons.  Computations: *)
(* `input' is a text, or `compared' two versions, chosen at the start.  A  *)
(* text is a sequence of characters of the classes below.                  *)
(***************************************************************************)
EXTENDS Integers, Sequences, SequencesExt, FiniteSetsExt

CONSTANTS Text,            \* the inputs
          Unsigned,        \* values of `unsigned': 2^32 in the code
          UnsignedLong,    \* of `unsigned long': 2^64
          Tag_Max_Size

ASSUME SemVerAssumption == Unsigned \in Nat \ {0, 1} /\ UnsignedLong \in Nat \ {0} /\ UnsignedLong % Unsigned = 0
                           /\ Tag_Max_Size \in Nat

\* A digit, a letter, the dot, the minus sign as the other separators, white space.
Char == {"1", "a", ".", "-", " "}
Radix10 == 4               \* of the numbers in a text, small for a small Unsigned
Invalid_ == Unsigned - 1   \* ~0u

Version == [major : 0..Invalid_, minor : 0..Invalid_, patch : 0..Invalid_, tag : {<<>>, <<"a">>, <<"a", "1">>}]

VARIABLES input, compared
semVerVars == <<input, compared>>
SemVerInit ==
    \/ input \in Text /\ compared = <<>>
    \/ input = <<>> /\ compared \in {v \in Version : v.tag = <<"a">>} \X Version

Unset == [major |-> Invalid_, minor |-> Invalid_, patch |-> Invalid_, tag |-> <<>>]
valid(v) == v.major # Invalid_ /\ v.minor # Invalid_ /\ v.patch # Invalid_
is_tag_sep(c) == c \notin {" ", "a"}

-----------------------------------------------------------------------------
\* Both read from a position in the input, and tell the next one; 0 is failure.
At(i) == IF i \in DOMAIN input THEN input[i] ELSE "end"
Past(i, set) == Min({j \in i..(Len(input) + 1) : At(j) \notin set})       \* a run of the set skipped
magnitude(i, j) == FoldLeft(LAMBDA n, c : n * Radix10 + 1, 0, SubSeq(input, i, j - 1))

\* A number, with white space and a sign before it, as strtoul() takes it: modulo the
\* values of unsigned long, or the largest one if it does not fit.
strtoul(size, negative) ==
    IF size >= UnsignedLong THEN UnsignedLong - 1 ELSE (IF negative THEN -size ELSE size) % UnsignedLong
Number(i) ==
    LET sign == Past(i, {" "})
        from == IF At(sign) = "-" THEN sign + 1 ELSE sign
        next == Past(from, {"1"})
        size == magnitude(from, next)
    IN  IF next = from THEN [next |-> 0, value |-> Invalid_, fits |-> FALSE]
        ELSE [next |-> next, value |-> strtoul(size, from # sign) % Unsigned, fits |-> size < Unsigned]

\* %u of sscanf() keeps the low bits of an unsigned long that does not fit, operator>>
\* sets the largest value and fails.
scan_u(i) == IF i = 0 THEN [next |-> 0, value |-> Invalid_] ELSE Number(i)
read_u(i) ==
    IF i = 0 THEN scan_u(0) ELSE LET n == Number(i) IN IF n.fits THEN n ELSE [n EXCEPT !.next = 0]

\* A '.' of the format has to come next; operator>> of a char skips white space.
scan_dot(i) == IF i # 0 /\ At(i) = "." THEN i + 1 ELSE 0
read_dot(i) == LET j == IF i = 0 THEN 0 ELSE Past(i, {" "}) IN IF j # 0 /\ At(j) = "." THEN j + 1 ELSE 0

\* A tag of at most `size' characters from position i, up to white space.
tag(i, size) == SubSeq(input, i, Min({Past(i, Char \ {" "}), i + size}) - 1)

\* Three numbers, one after the other, with dots between them.
Three(number(_), dot(_)) ==
    LET after(ns) == IF ns = <<>> THEN 1 ELSE dot(Last(ns).next)
    IN  FoldLeft(LAMBDA ns, k : Append(ns, number(after(ns))), <<>>, <<1, 2, 3>>)
AsVersion(ns) == [major |-> ns[1].value, minor |-> ns[2].value, patch |-> ns[3].value, tag |-> <<>>]

\* A version whose numbers end at i, by what follows.
WithTag(v, i, size) ==
    CASE At(i) = "end"      -> v
      [] is_tag_sep(At(i)) -> [v EXCEPT !.tag = tag(i + 1, size)]
      [] OTHER              -> Unset

\* A faulty variant: the separator of a tag is not tested.
parse_any_separator ==
    LET ns == Three(scan_u, scan_dot)
        i == ns[3].next
    IN  IF i = 0 \/ At(i) = "end" THEN AsVersion(ns)
        ELSE [AsVersion(ns) EXCEPT !.tag = tag(i + 1, Tag_Max_Size + 1)]

\* parse(): the numbers that sscanf() converted before it failed remain in the
\* version, which is invalid then, as the patch number is not set.  The width in the format
\* counts characters, not the null one that sscanf() appends: a tag of Tag_Max_Size + 1
\* characters fills v.tag, and the null character is written behind it (into the padding
\* of v, in the builds for common machines).
parse ==
    LET ns == Three(scan_u, scan_dot)
    IN  IF ns[3].next = 0 THEN AsVersion(ns) ELSE WithTag(AsVersion(ns), ns[3].next, Tag_Max_Size + 1)

\* parse() with a string stream.  (What it reads beyond a wrong separator of the
\* numbers does not matter: that one is found in the end.)
parse_with_stringstream ==
    LET ns == Three(read_u, read_dot)
    IN  IF ns[3].next = 0 THEN Unset ELSE WithTag(AsVersion(ns), ns[3].next, Tag_Max_Size)

-----------------------------------------------------------------------------
\* Up to the first character that differs, or the null character.
streq(s, t) ==
    LET at(u, i) == IF i <= Len(u) THEN u[i] ELSE "end"
        stop == Min({i \in 1..(Len(s) + 1) : at(s, i) = "end" \/ at(s, i) # at(t, i)})
    IN  at(s, stop) = at(t, stop)

\* operator==
same(a, b) == a.major = b.major /\ a.minor = b.minor /\ a.patch = b.patch /\ streq(a.tag, b.tag)

\* operator<, ignoring the tags
less(a, b) ==
    IF a.major # b.major THEN a.major < b.major
    ELSE IF a.minor # b.minor THEN a.minor < b.minor
    ELSE a.patch < b.patch

-----------------------------------------------------------------------------
\* A tag whose null character is written beyond the array.
Overlong(v) == Len(v.tag) > Tag_Max_Size

\* White space, a sign, digits.
Numeral(s) ==
    /\ s # <<>> /\ Last(s) = "1"
    /\ \A i \in 1..(Len(s) - 1) : s[i] = " " \/ (s[i] \in {"-", "1"} /\ s[i + 1] = "1")
Denotes(s) ==
    LET digits == SelectSeq(s, LAMBDA c : c = "1")
        size == FoldLeft(LAMBDA n, c : n * Radix10 + 1, 0, digits)
    IN  IF size >= UnsignedLong THEN Invalid_ ELSE (IF Contains(s, "-") THEN -size ELSE size) % Unsigned

\* parse() accepts three numerals with dots between them, and nothing or a separator
\* and a tag after them, with those numbers and that tag, as far as there is room in the
\* array, not counting the null character; but it takes the number ~0, which "-1" and
\* numbers too long for an unsigned long denote, too, for an invalid version.  A space is
\* no separator: "1.2.3 " is rejected, by both parsers, against semver.cc:48-51.
ParsesItsGrammar ==
    LET forms == {f \in (DOMAIN input) \X (DOMAIN input) \X (DOMAIN input) :
                    /\ f[1] < f[2] /\ f[2] < f[3]
                    /\ input[f[1]] = "." /\ Numeral(SubSeq(input, 1, f[1] - 1))
                    /\ input[f[2]] = "." /\ Numeral(SubSeq(input, f[1] + 1, f[2] - 1))
                    /\ Numeral(SubSeq(input, f[2] + 1, f[3]))
                    /\ At(f[3] + 1) \in {"end", ".", "-"}}
        denoted(f) == <<Denotes(SubSeq(input, 1, f[1] - 1)), Denotes(SubSeq(input, f[1] + 1, f[2] - 1)),
                        Denotes(SubSeq(input, f[2] + 1, f[3]))>>
        p == parse
    IN  IF valid(p)
        THEN \E f \in forms : /\ <<p.major, p.minor, p.patch>> = denoted(f)
                             /\ ~Contains(p.tag, " ") /\ Len(p.tag) <= Tag_Max_Size + 1
                             /\ IsPrefix(p.tag, SubSeq(input, f[3] + 2, Len(input)))
        ELSE \A f \in forms : \E n \in ToSet(denoted(f)) : n = Invalid_

\* The two implementations accept the same texts, as the same versions, except
\* for numbers that do not fit, white space before the dots, and tags that are too
\* long: the one of sscanf() has a character more than its array has room for.
ParsersAgree ==
    LET p == parse
        q == parse_with_stringstream
        run(i) == magnitude(i, Past(i, {"1"}))
    IN  (\A i \in DOMAIN input : /\ input[i] = " " => At(i + 1) # "."
                                /\ run(i) < Unsigned)
        => /\ valid(p) = valid(q) /\ ~Overlong(q)
           /\ valid(p) => q = IF Overlong(p) THEN [p EXCEPT !.tag = SubSeq(@, 1, Tag_Max_Size)] ELSE p

\* The comparisons order all versions, the invalid and partly parsed ones too, up to their
\* tags: two can be <= and >= each other, but not == ("the tag is ignored!", semver.hh:59).
VersionsAreOrdered ==
    compared # <<>> =>
        LET a == compared[1]
            b == compared[2]
        IN  /\ ~less(a, b) /\ ~less(b, a) <=> same([b EXCEPT !.tag = a.tag], a)
            /\ same(a, b) <=> a = b
            /\ same(a, b) <=> same(b, a)
            /\ ~(less(a, b) /\ less(b, a))
            /\ less(a, b) => \A c \in Version : c.tag = <<>> /\ less(b, c) => less(a, c)
\* Texts are taken for the versions that they denote, by both parsers, and these
\* are ordered.
VersionsUnderstood == ParsesItsGrammar /\ ParsersAgree /\ VersionsAreOrdered
=============================================================================
