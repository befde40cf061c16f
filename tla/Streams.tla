------------------------------- MODULE Streams -------------------------------
(***************************************************************************)
(* The scoped manipulators Hex and Dec of src/streams.hh, on its own       *)
(* streams and on those of the standard library.  A manipulator lives in a *)
(* StreamRef, which every << copies, and each copy resets the flags when   *)
(* it dies, at the end of its statement, the latest first.  Statements on  *)
(* the same stream nest, in the operands of others.                        *)
(***************************************************************************)
EXTENDS Naturals, Sequences, SequencesExt

CONSTANTS MaxStatements,    \* bound: statements open at once
          MaxRefs           \* bound: StreamRefs in a statement

Base == {"dec", "bin", "hex", "oct"}
basefield == Base
Flag == Base \cup {"showbase"}

VARIABLES library,          \* whose stream: sz's or std's
          flags_,           \* of the stream
          statements,       \* open statements, innermost last
          shown             \* the number latest put to the stream
streamsVars == <<library, flags_, statements, shown>>

\* sz::Stream has no initializer for flags_; a std stream starts as dec.
StreamsInit ==
    /\ library \in {"sz", "std"}
    /\ flags_ \in IF library = "sz" THEN SUBSET {"dec", "hex", "showbase"} ELSE {{"dec"}, {"hex"}}
    /\ statements = <<>>
    /\ shown = "none"

\* setf(f) replaces all flags of an sz::Stream, and adds to those of a std one.
setf(flags, f) == IF library = "sz" THEN f ELSE flags \cup f

\* setf(f, mask)
setf_masked(flags, f, mask) == (flags \ mask) \cup (f \cap mask)

\* bHex::_set(), bDec::_set()
manipulated(flags, base) ==
    IF base = "hex" THEN setf(setf_masked(flags, {"hex"}, basefield), {"showbase"})
                    ELSE setf_masked(flags, {"dec"}, basefield)

\* SetFlags::_reset()
reset(flags, old) == setf(flags, old)

\* How a number is printed: not hexadecimal if another base is set as well; an
\* sz::Stream formats with snprintf and its flags tell nothing.
shown_as(flags) == IF library = "std" /\ flags \cap basefield = {"hex"} THEN "hex" ELSE "dec"

-----------------------------------------------------------------------------
Current == Last(statements)

\* A statement on the stream begins, within an operand of another or alone.
\* `refs' are the flags that its StreamRefs will set when they die; history:
\* `before', the flags at its beginning, `saved', those before a Hex() or Dec(), and
\* `given', the base of a Hex(x) or Dec(x).
begin ==
    /\ Len(statements) < MaxStatements
    /\ statements' = Append(statements, [before |-> flags_, saved |-> {}, given |-> "none", refs |-> <<>>])
    /\ UNCHANGED <<library, flags_, shown>>

\* stream << Hex(): it is the StreamRef's own manipulator that sets the flags.
manipulate(base) ==
    /\ statements # <<>> /\ Current.refs = <<>>
    /\ statements' = [statements EXCEPT ![Len(statements)] =
                          [@ EXCEPT !.refs = <<flags_>>, !.saved = {flags_}]]
    /\ flags_' = manipulated(flags_, base)
    /\ UNCHANGED <<library, shown>>

\* stream << Hex(x): `b' sets the flags, then the StreamRef within does, and the
\* number is put; that StreamRef dies, then b, while its copy, which has saved
\* the flags of b, is returned and dies with the statement.
show_value(base) ==
    /\ statements # <<>> /\ Current.refs = <<>>
    /\ LET set == manipulated(flags_, base)
           twice == manipulated(set, base)
       IN  /\ shown' = shown_as(twice)
           /\ statements' = [statements EXCEPT ![Len(statements)] =
                                 [@ EXCEPT !.refs = <<set>>, !.given = base]]
           /\ flags_' = reset(reset(twice, set), flags_)
    /\ UNCHANGED library

\* ref << x: the number is put, and the StreamRef copied into the result.
show ==
    /\ statements # <<>> /\ Len(Current.refs) < MaxRefs
    /\ shown' = shown_as(flags_)
    /\ statements' = IF Current.refs = <<>> THEN statements
                     ELSE [statements EXCEPT ![Len(statements)].refs = Append(@, Last(@))]
    /\ UNCHANGED <<library, flags_>>

\* A faulty variant: the first StreamRef is moved from, and only copies reset.
end_statement_of_copies ==
    /\ statements # <<>>
    /\ flags_' = FoldRight(LAMBDA old, flags : reset(flags, old),
                        IF Current.refs = <<>> THEN <<>> ELSE Tail(Current.refs), flags_)
    /\ statements' = Front(statements)
    /\ UNCHANGED <<library, shown>>

end_statement ==
    /\ statements # <<>>
    /\ flags_' = FoldRight(LAMBDA old, flags : reset(flags, old), Current.refs, flags_)
    /\ statements' = Front(statements)
    /\ UNCHANGED <<library, shown>>

StreamsNext ==
    \/ begin \/ show \/ end_statement
    \/ \E base \in {"hex", "dec"} : manipulate(base) \/ show_value(base)

StreamsSpec == StreamsInit /\ [][StreamsNext]_streamsVars

-----------------------------------------------------------------------------
\* Types; and a standard stream is never left without a base.
StreamsTypeInv ==
    /\ library \in {"sz", "std"} /\ flags_ \subseteq Flag
    /\ library = "std" => flags_ \cap basefield # {}
    /\ \A i \in DOMAIN statements : statements[i].before \subseteq Flag
    /\ shown \in {"none", "dec", "hex"}

\* Hex() and Dec() on an sz::Stream: when the statement ends, the stream has the
\* flags from before the manipulator, although every << copied the StreamRef
\* ("it still works with copying, too", streams.hh:170-172), and whatever statements
\* in its operands left behind.
OwnStreamsRestored ==
    [][Len(statements') < Len(statements) /\ library = "sz" /\ Current.saved # {} =>
           flags_' \in Current.saved]_streamsVars

\* Is this what a Hex(x), or Dec(x), has set?
Marked(flags, base) == IF base = "hex" THEN "showbase" \in flags ELSE flags \cap basefield = {"dec"}

\* Hex(x) and Dec(x) do not: the StreamRef that they return has saved what they had set
\* themselves, and puts it back after them.  An sz::Stream keeps showbase, or dec as its only
\* base, from then on.  Nothing it prints shows that; flags() does.
ValuesLeaveTheirMark ==
    [][Len(statements') < Len(statements) /\ library = "sz" /\ Current.given # "none" =>
           Marked(flags_', Current.given)]_streamsVars

\* A standard stream keeps hex and showbase when a Hex ends, as its setf() only
\* adds flags; but a stream that printed plain numbers in decimal before a
\* statement does so after it, whatever is nested in it.
PlainNumbersStayDecimal ==
    [][Len(statements') < Len(statements) /\ library = "std" =>
           (shown_as(Current.before) = "dec" => shown_as(flags_') = "dec")]_streamsVars

\* The number in Hex(x) or Dec(x) is shown in that base by a standard stream,
\* also by one to which earlier manipulators left their flags.
ValuesInTheirBase ==
    [][\A base \in {"hex", "dec"} : show_value(base) /\ library = "std" => shown' = base]_streamsVars

\* Manipulators have their effect, and leave what is told above, whatever they enclose.
FlagsKept ==
    []StreamsTypeInv /\ OwnStreamsRestored /\ ValuesLeaveTheirMark /\ PlainNumbersStayDecimal /\ ValuesInTheirBase
=============================================================================
