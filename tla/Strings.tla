------------------------------- MODULE Strings -------------------------------
(***************************************************************************)
(* The functions on strings of src/str.hh, str/to_bool.hh and listvals.hh, *)
(* and what DBGASSERT does to show a line of the source (diag/DBG.hh).     *)
(* Computations: their input is chosen at the start, one of `line', `word' *)
(* and `list', with `options'.  A string is a sequence of characters; the  *)
(* characters stand for their classes.                                     *)
(***************************************************************************)
EXTENDS Naturals, Sequences, SequencesExt

CONSTANTS Phrase,      \* strings to trim and to escape
          Word,        \* strings to take for a truth value, in lower case
          List,        \* sequences of strings to list
          Quotes       \* pairs of quotes, in one string

VARIABLES line, word, list, options
stringsVars == <<line, word, list, options>>

StringsInit ==
    \/ line \in Phrase /\ word = <<>> /\ list = <<>> /\ options \in SUBSET {" ", "\n", "x"}
    \/ line = <<>> /\ word \in Word /\ list = <<>> /\ options \in {{}, {"empty_is_true"}}
    \/ line = <<>> /\ word = <<>> /\ list \in List /\ options \in {{q} : q \in Quotes}

space == {" ", "\n"}
leading(s, junk) == CHOOSE n \in 0..Len(s) : /\ \A i \in 1..n : s[i] \in junk
                                             /\ n < Len(s) => s[n + 1] \notin junk

\* Drops leading characters of its argument, but trailing white space.
strtrim(s, leading_junk) ==
    LET res == SubSeq(s, leading(s, leading_junk) + 1, Len(s))
    IN  SubSeq(res, 1, Len(res) - leading(Reverse(res), space))

\* Of spaces (and tabs) only, at both ends.
DBG_trim(s) ==
    LET res == SubSeq(s, leading(s, {" "}) + 1, Len(s))
    IN  SubSeq(res, 1, Len(res) - leading(Reverse(res), {" "}))

\* std::getline(): at the end of the text that was reached before, it leaves the string alone.
getline(r) ==
    LET at == IF Contains(r.rest, "\n") THEN SelectInSeq(r.rest, LAMBDA c : c = "\n") ELSE 0
    IN  IF r.eof THEN [r EXCEPT !.fail = TRUE]
        ELSE IF at > 0 THEN [r EXCEPT !.rest = SubSeq(@, at + 1, Len(@)), !.str = SubSeq(r.rest, 1, at - 1)]
        ELSE [rest |-> <<>>, str |-> r.rest, eof |-> TRUE, fail |-> r.rest = <<>>]

\* The source may have changed since it was compiled: past its end, the last line is shown.
fetch_assert_line(source, n) ==
    LET start == [rest |-> source, str |-> <<>>, eof |-> FALSE, fail |-> FALSE]
    IN  DBG_trim(FoldLeft(LAMBDA r, l : IF r.fail THEN r ELSE getline(r), start, [l \in 1..n |-> l]).str)

escape_quotes(s, quote, escmark) ==
    FlattenSeq([i \in DOMAIN s |-> IF s[i] \in {quote, escmark} THEN <<escmark, s[i]>> ELSE <<s[i]>>])

to_bool(s, flags) ==
    IF s = <<>> THEN "empty_is_true" \in flags
    ELSE IF s[1] = "0" THEN \E i \in 2..Len(s) : s[i] \notin {"0", "."}
    ELSE /\ s[1] \notin {"n", "f"}
         /\ s # <<"o", "f", "f">>
         /\ ~(IsPrefix(<<"d", "i", "s">>, s) /\ Len(s) > 3)

-----------------------------------------------------------------------------
(* listvals(): with quotes around the items that contain white space; a      *)
(* single quote is used on both sides.                                       *)

needs_quotes(s, quote) == quote # <<>> /\ \E i \in DOMAIN s : s[i] \in space
half(quote) == Len(quote) \div 2
opening(quote) == SubSeq(quote, 1, IF half(quote) > 0 THEN half(quote) ELSE 1)

\* A faulty variant: the rest of a single quote is nothing.
closing_rest(quote) == SubSeq(quote, Len(opening(quote)) + 1, Len(quote))

closing(quote) == SubSeq(quote, half(quote) + 1, Len(quote))

\* The length that is reserved, and compared with that of the result.
size(items, prewrap, postwrap, sep, quote) ==
    FoldLeft(LAMBDA n, s : n + Len(s) + (IF ~needs_quotes(s, quote) THEN 0
                                         ELSE IF Len(quote) > 1 THEN Len(quote) ELSE 2),
             Len(prewrap) + (Len(items) - 1) * Len(sep) + Len(postwrap), items)

\* Nothing at all for no items, not even the wrapping.
listvals(items, prewrap, postwrap, sep, quote) ==
    LET item(s) == IF needs_quotes(s, quote) THEN opening(quote) \o s \o closing(quote) ELSE s
    IN  IF items = <<>> THEN <<>>
        ELSE prewrap \o FlattenSeq([i \in DOMAIN items |->
                            item(items[i]) \o (IF i = Len(items) THEN postwrap ELSE sep)])

-----------------------------------------------------------------------------
\* Trimming takes off one end what the caller named and off the other white space,
\* nothing from between, and all there is: trimming again changes nothing.
TrimsTheEnds ==
    LET t == strtrim(line, options)
    IN  /\ \E a, b \in 0..Len(line) :
              /\ a + b <= Len(line) /\ t = SubSeq(line, a + 1, Len(line) - b)
              /\ \A i \in 1..a : line[i] \in options
              /\ \A i \in (Len(line) - b + 1)..Len(line) : line[i] \in space
        /\ strtrim(t, options) = t

\* What `istream >> std::quoted' makes of a text in quotes: it ends at the first quote
\* without an escape mark, and so do we.
Unquoted(s, quote, escmark) ==
    FoldLeft(LAMBDA r, c : IF r.ended THEN r
                           ELSE IF r.marked THEN [r EXCEPT !.text = Append(@, c), !.marked = FALSE]
                           ELSE IF c = escmark THEN [r EXCEPT !.marked = TRUE]
                           ELSE IF c = quote THEN [r EXCEPT !.ended = TRUE]
                           ELSE [r EXCEPT !.text = Append(@, c)],
             [text |-> <<>>, marked |-> FALSE, ended |-> FALSE], s)

\* An escaped text is read back as it was, up to the closing quote and no further
\* ("intended to supplement istream >> std::quoted", str.hh:57).
QuotedReadsBack ==
    LET r == Unquoted(Append(escape_quotes(line, "q", "x"), "q"), "q", "x")
    IN  r.ended /\ r.text = line

\* A numeral is false if it denotes zero, whatever its leading zeros and decimals
\* ("false also if 00000 or 0.0, but not 012 or 0.012!", to_bool.hh:37).
NumeralsByValue ==
    (/\ word # <<>> /\ \A i \in DOMAIN word : word[i] \in {"0", "1", "."}
     /\ word[1] # "." /\ \A i, j \in DOMAIN word : word[i] = "." /\ word[j] = "." => i = j)
        => (to_bool(word, options) <=> Contains(word, "1"))

\* The size calculated in advance is that of the result (the assertion at listvals.hh:98),
\* whatever the number of quotes.
SizeIsExact ==
    \A quote \in options \cap Quotes :
        LET l == listvals(list, <<"(">>, <<")", ".">>, <<",", " ">>, quote)
        IN  list # <<>> => Len(l) = size(list, <<"(">>, <<")", ".">>, <<",", " ">>, quote)

\* The items are found between the separators as they were, but for the quotes, each pair
\* of them in one item.  (Items that contain a separator are not told apart.)
ItemsReadBack ==
    \A quote \in options \cap Quotes :
        LET cut(parts, c) == IF c = "," THEN Append(parts, <<>>)
                             ELSE [parts EXCEPT ![Len(parts)] = Append(@, c)]
            found == FoldLeft(cut, <<<<>>>>, listvals(list, <<>>, <<>>, <<",">>, quote))
        IN  list # <<>> =>
                list = [i \in DOMAIN found |-> SelectSeq(found[i], LAMBDA c : c \notin ToSet(quote))]

\* A failing assertion shows the line it is in, whatever lines, empty ones too, the source
\* has, and whether or not the last one is ended; and is trimmed as by the other trim().
AssertionsFound ==
    /\ \A a, b \in 0..Len(line) :
          LET found_ == SubSeq(line, a + 1, b)
              above == SelectSeq(SubSeq(line, 1, a), LAMBDA c : c = "\n")
          IN  /\ a <= b /\ ~Contains(found_, "\n")
              /\ a > 0 => line[a] = "\n"
              /\ b < Len(line) => line[b + 1] = "\n"
              => fetch_assert_line(line, Len(above) + 1) = strtrim(found_, {" "})
    /\ \A n \in Len(line)..(Len(line) + 2) : ~Contains(fetch_assert_line(line, n), "\n")

\* The conversions lose nothing but what they are there to take away.
StringsKept == AssertionsFound /\ TrimsTheEnds /\ QuotedReadsBack /\ NumeralsByValue /\ SizeIsExact /\ ItemsReadBack
=============================================================================
