------------------------------- MODULE Vectors -------------------------------
(***************************************************************************)
(* The vectors of src/math/vec: VectorData with its run-time accessors     *)
(* (data.hpp), operators between vectors of different number types         *)
(* (_ops.inl), and writing and reading them (ios.hpp), several to one      *)
(* stream.  Of what is written and read only the identity of coordinates   *)
(* matters; numbers that are computed with are scaled by 4, to have halves *)
(* of them and the quarters their products are.                            *)
(***************************************************************************)
EXTENDS Integers, Sequences, SequencesExt

CONSTANTS dim,          \* of the vectors that are written and read: 2 to 4
          Coord,        \* their coordinates
          Tokens,       \* records: bracket_open, separator, bracket_close
          Vector,       \* operands: records of a type, "int" or "float", and numbers
          MaxWritten    \* bound: vectors written to the stream

ASSUME DimAssumption == dim \in 2..4 /\ MaxWritten \in Nat
ASSUME TokensAssumption ==      \* what ios.hpp:9-19 asks for
    \A t \in Tokens : /\ t.separator # <<>>
                      /\ \A i \in 2..Len(t.separator) : t.separator[i] = " "
                      /\ t.bracket_open # <<>> => t.bracket_open[1] # " "
                      /\ t.bracket_close # <<>> => Last(t.bracket_close) # " "
                                                   /\ (t.bracket_open = <<>> => Len(t.bracket_close) = 1)

VARIABLES io,           \* the tokens
          text,         \* of the stream, not yet read
          skipws,       \* a flag of the stream
          eofbit, failbit, \* two more
          written,      \* history: the vectors put, whether white space was before each, and
                        \* how many had been read by then
          found,        \* history: the vectors read, until reading fails
          operands      \* two vectors to compute with
vectorsVars == <<io, text, skipws, eofbit, failbit, written, found, operands>>

VectorsInit ==
    /\ io \in Tokens
    /\ text = <<>> /\ skipws = TRUE /\ eofbit = FALSE /\ failbit = FALSE
    /\ written = <<>> /\ found = <<>>
    /\ operands \in Vector \X Vector

-----------------------------------------------------------------------------
(* Accessors                                                                 *)

get(v, i) == v[i]

\* set(i, val): in four dimensions, set(3, val) sets z (data.hpp:174).
set_coord(v, i, val) == [v EXCEPT ![IF dim = 4 /\ i = 3 THEN 2 ELSE i] = val]

-----------------------------------------------------------------------------
(* Streams                                                                   *)

Blank(s) == SelectInSeq(Append(s, "end"), LAMBDA c : c # " ") - 1     \* white space in front
Skip(s) == SubSeq(s, Blank(s) + 1, Len(s))

\* operator<<
Written(v) ==
    io.bracket_open
    \o FlattenSeq([k \in 1..dim |-> (IF k = 1 THEN <<>> ELSE io.separator) \o <<get(v, k - 1)>>])
    \o io.bracket_close

\* White space has to tell vectors without brackets apart (ios.hpp:20-24).  Nothing is
\* put into a stream that has met its end or failed, and some libraries let it fail then.
insert(v, spaced) ==
    /\ Len(written) < MaxWritten
    /\ spaced \/ written = <<>> \/ io.bracket_open # <<>> \/ io.bracket_close # <<>>
    /\ IF eofbit \/ failbit THEN text' = text /\ failbit' \in {failbit, TRUE}
       ELSE text' = text \o (IF spaced THEN <<" ">> ELSE <<>>) \o Written(v) /\ failbit' = failbit
    /\ written' = Append(written, [v |-> v, spaced |-> spaced, read |-> Len(found)])
    /\ UNCHANGED <<io, skipws, eofbit, found, operands>>

\* in >> std::ws, in >> ch, and in >> std::ws >> val: they leave ch and val as they were on
\* a stream that is bad or at its end.  A number that ends the text was read, but it
\* has met the end.
ready(r) == ~r.eofbit /\ ~r.failbit
setfail(r) == [r EXCEPT !.failbit = TRUE]
ws(r) ==
    IF ~ready(r) THEN setfail(r) ELSE [r EXCEPT !.rest = Skip(@), !.eofbit = Skip(r.rest) = <<>>]

get_ch(r) ==
    LET s == IF r.skipws THEN Skip(r.rest) ELSE r.rest
    IN  IF ~ready(r) THEN setfail(r)
        ELSE IF s = <<>> THEN [setfail(r) EXCEPT !.eofbit = TRUE]
        ELSE [r EXCEPT !.ch = Head(s), !.rest = Tail(s)]

get_val(r) ==
    LET q == ws(r)
        s == q.rest
        digits == SelectInSeq(Append(s, "end"), LAMBDA c : c \notin Coord) - 1
    IN  IF ~ready(q) THEN setfail(q)
        ELSE [q EXCEPT !.failbit = digits = 0, !.eofbit = digits = Len(s), !.rest = SubSeq(s, digits + 1, Len(s)),
                       !.val = IF digits = 0 THEN "0" ELSE IF digits = 1 THEN s[1] ELSE "several digits"]

\* The next character has to be that one.
expect(r, ch) == LET q == get_ch(r) IN [q EXCEPT !.failbit = @ \/ q.ch # ch, !.left = @ \/ q.ch # ch]

\* A faulty variant: white space in the closing bracket is not skipped.
br_close_nonspace_pos_none == 0

\* Of the closing bracket, if there is an opening one
br_close_nonspace_pos == IF io.bracket_open # <<>> THEN Blank(io.bracket_close) ELSE 0

coordinate(r, i) ==
    LET q == IF i = 0 THEN [get_val(r) EXCEPT !.skipws = FALSE]       \* and it stays so
             ELSE LET p == expect(r, io.separator[1]) IN IF p.left THEN p ELSE get_val(p)
    IN  IF r.left \/ q.left THEN q ELSE [q EXCEPT !.v = set_coord(@, i, q.val)]

closing_bracket(r) ==
    IF r.left \/ io.bracket_close = <<>> THEN r
    ELSE expect(IF br_close_nonspace_pos > 0 THEN ws(r) ELSE r,
                io.bracket_close[br_close_nonspace_pos + 1])

\* operator>>, into the vector v; ch is not initialized (nor is val, which cannot be
\* told unless the stream is bad).
extract(v, ch) ==
    LET start == [rest |-> text, skipws |-> skipws, eofbit |-> eofbit, failbit |-> failbit, ch |-> ch,
                  val |-> "0", v |-> v, left |-> FALSE]
        opened == IF io.bracket_open = <<>> THEN start ELSE expect(start, io.bracket_open[1])
        r == closing_bracket(FoldLeft(LAMBDA q, k : IF q.left THEN q ELSE coordinate(q, k - 1),
                                      opened, [k \in 1..dim |-> k]))
    IN  /\ ~failbit
        /\ text' = r.rest /\ skipws' = r.skipws /\ eofbit' = r.eofbit /\ failbit' = r.failbit
        /\ found' = IF r.failbit THEN found ELSE Append(found, r.v)
        /\ UNCHANGED <<io, written, operands>>

VectorsNext ==
    \/ \E v \in [0..(dim - 1) -> Coord], spaced \in BOOLEAN : insert(v, spaced)
    \/ \E ch \in {"(", ",", "?"} : extract([i \in 0..(dim - 1) |-> "0"], ch)

-----------------------------------------------------------------------------
(* Operators: with the other vector, or (if it has one coordinate) a number  *)

\* static_cast<NumT>
cast(type, x) == IF type = "float" THEN x ELSE IF x < 0 THEN -((-x) \div 4) * 4 ELSE (x \div 4) * 4
apply(op, x, y) == IF op = "+" THEN x + y ELSE IF op = "-" THEN x - y ELSE (x * y) \div 4
other(w, i) == IF Len(w.n) = 1 THEN w.n[1] ELSE w.n[i]

\* v op= w: w is converted to the type of v first, implicitly.
compound(op, v, w) ==
    [v EXCEPT !.n = [i \in DOMAIN v.n |-> apply(op, v.n[i], cast(v.type, other(w, i)))]]

\* v op w: the result is computed in the common type, and converted to the type of v.
binary(op, v, w) ==
    [v EXCEPT !.n = [i \in DOMAIN v.n |-> cast(v.type, apply(op, v.n[i], other(w, i)))]]

\* Vector(const V&), for a V of any number type.
convert(type, v) == [type |-> type, n |-> [i \in DOMAIN v.n |-> cast(type, v.n[i])]]

\* operator bool: before any conversion of the numbers.
non_zero(v) == \E i \in DOMAIN v.n : v.n[i] # 0

\* operator == up to a difference that these numbers have not, in the common type.
equal(v, w) == \A i \in DOMAIN v.n : v.n[i] = w.n[i]

minus(v) == [v EXCEPT !.n = [i \in DOMAIN v.n |-> -v.n[i]]]

dot(v, w) == FoldLeft(+, 0, [i \in DOMAIN v.n |-> apply("*", v.n[i], w.n[i])])

length_squared(v) == FoldLeft(+, 0, [i \in DOMAIN v.n |-> apply("*", v.n[i], v.n[i])])

\* std::round: halves away from zero.  Integer vectors have nothing to round.
rounded(v) ==
    IF v.type = "int" THEN v
    ELSE [v EXCEPT !.n = [i \in DOMAIN v.n |-> cast("int", IF v.n[i] < 0 THEN v.n[i] - 2 ELSE v.n[i] + 2)]]

-----------------------------------------------------------------------------
\* The vectors that are read are those that were written, in their order.  (Four-dimensional
\* ones are not.)
ReadsBack ==
    /\ Len(found) <= Len(written)
    /\ \A k \in DOMAIN found : found[k] = written[k].v

\* Reading fails only if no vector is left; or at white space before an opening bracket
\* of any vector but the first: reading the first turns off the skipping for good
\* (ios.hpp:131); or, without a closing bracket, at a vector that was put after all before
\* it had been read: their last number has met the end of the text (ios.hpp:141), and the
\* stream takes nothing more.
ReadingFailsOnlyAt ==
    [][~failbit /\ failbit' =>
          LET k == Len(found) + 1
          IN  \/ k > Len(written)
              \/ k > 1 /\ written[k].spaced /\ io.bracket_open # <<>>
              \/ k > 1 /\ written[k].read = k - 1 /\ io.bracket_close = <<>>]_vectorsVars

\* v op= w is v = v op w, unless w has fractions that the type of v has not: then
\* -1 += 0.5 is -1, but -1 + 0.5 is 0.
CompoundAgrees ==
    LET v == operands[1]
        w == operands[2]
    IN  \A op \in {"+", "-", "*"} :
            v.type = "float" \/ (\A i \in DOMAIN w.n : w.n[i] % 4 = 0) => compound(op, v, w) = binary(op, v, w)

Whole(v) == \A i \in DOMAIN v.n : v.n[i] % 4 = 0

\* Vectors are equal if their difference is no vector at all (unless it is computed in a
\* type that has no fractions), and then each is the other's conversion.
EqualityAgrees ==
    LET v == operands[1]
        w == operands[2]
    IN  Len(v.n) = Len(w.n) =>
            /\ v.type = "float" \/ Whole(w) => (equal(v, w) <=> ~non_zero(binary("-", v, w)))
            /\ equal(v, w) => equal(w, v) /\ convert(w.type, v) = w
            /\ ~non_zero(binary("+", v, minus(v)))

\* The cosine rule: lengths, differences and dot products belong together, for vectors of
\* any two types.
LengthsAgree ==
    LET v == operands[1]
        w == operands[2]
    IN  Len(v.n) = Len(w.n) /\ (v.type = "float" \/ Whole(w)) =>
            length_squared(binary("-", v, w)) = length_squared(v) - 2 * dot(v, w) + length_squared(w)

\* Rounding goes to the nearest integers, the same way on both sides of zero, and
\* an integer vector takes the result as it is.
RoundingAgrees ==
    LET v == operands[1]
        r == rounded(v)
    IN  /\ \A i \in DOMAIN v.n : r.n[i] - v.n[i] \in -2..2
        /\ rounded(minus(v)) = minus(r) /\ rounded(r) = r
        /\ equal(convert("int", r), r)

\* Vectors survive being written and read, and operators agree with each other.
VectorsKept ==
    [](ReadsBack /\ CompoundAgrees /\ EqualityAgrees /\ LengthsAgree /\ RoundingAgrees) /\ ReadingFailsOnlyAt
=============================================================================
