------------------------------- MODULE MemDump -------------------------------
(***************************************************************************)
(* MemDump::of() of src/diag/mem_dump.hh: the lines it prints for a piece  *)
(* of memory; and what plog's HexDump prints for it, in a single line.  A  *)
(* computation: `cfg' and `mem' hold its input, chosen at the start.       *)
(* Of a text only its length in code units matters, and whose it is: a     *)
(* unit is the position of its byte in memory, or one of those below.      *)
(***************************************************************************)
EXTENDS Integers, Sequences, SequencesExt, FiniteSets, FiniteSetsExt

CONSTANTS Config,     \* records: bytes_per_line, groups_per_line, grouped_bytes,
                      \* group_text_too, hex_group_sep, text_group_sep (lengths),
                      \* glyphs (lengths, for the bytes that are mapped, and "other"),
                      \* show_hex, show_text; beyond: the units that follow the null
                      \* character of an empty text in memory, before the next one
          Memory,     \* sequences of bytes: "zero", "plain" ASCII, or "other"
          HexDump,    \* records: m_group, m_digitSeparator, m_groupSeparator (lengths)
          _BUF_SIZE,  \* of TextView
          Radix       \* of the decimal offsets

ASSUME ConfigAssumption == \A c \in Config : c.bytes_per_line \in Nat \ {0} /\ c.groups_per_line \in Nat
                                          /\ c.grouped_bytes \in Nat
ASSUME HexDumpAssumption == \A h \in HexDump : h.m_group \in Nat
ASSUME BufferAssumption == _BUF_SIZE \in Nat \ {0} /\ Radix \in Nat \ {0, 1}

Separator == -1
Padding == -2
NUL == -3
Stray == -4

VARIABLES cfg, mem
memVars == <<cfg, mem>>

MemInit == cfg \in Config /\ mem \in Memory

split_hex_view == cfg.grouped_bytes > 0 \/ cfg.groups_per_line > 1
split_text_view == split_hex_view /\ cfg.group_text_too

\* A faulty variant: the groups are cut from the left, the last one gets the rest.
_group_div_pos_fixed(i) ==
    i # 0 /\ LET size == (cfg.bytes_per_line + cfg.groups_per_line - 1) \div cfg.groups_per_line
             IN  i % (IF cfg.grouped_bytes > 0 THEN cfg.grouped_bytes ELSE size) = 0

\* Is there a separator before the i-th byte of a line?
_group_div_pos(i) ==
    LET group(n) == ((cfg.bytes_per_line - n) * cfg.groups_per_line) \div cfg.bytes_per_line
    IN  /\ i # 0
        /\ IF cfg.grouped_bytes > 0 THEN i % cfg.grouped_bytes = 0
           ELSE group(i) # group(i + 1) /\ group(i + 1) < cfg.groups_per_line

_count_dec_digits(n) == IF n = 0 THEN 1 ELSE CHOOSE d \in 1..n : Radix ^ (d - 1) <= n /\ n < Radix ^ d

FirstUnits(units, n) == SubSeq(units, 1, Min({Len(units), n}))

Times(n, x) == [k \in 1..n |-> x]

\* What the loop of append() finds until a null character: it does not look at the first
\* unit, so that it takes that of an empty text for a unit, and reads beyond it.
Units(text) == IF text = <<>> THEN <<NUL>> \o Times(cfg.beyond, Stray) ELSE text

\* TextView::append() tests the room after each unit, not before the first.
append(view, text) == view \o FirstUnits(Units(text), Max({1, _BUF_SIZE - Len(view)}))

glyph(byte) ==
    IF byte \in DOMAIN cfg.glyphs THEN cfg.glyphs[byte]
    ELSE IF byte = "plain" \/ "other" \notin DOMAIN cfg.glyphs THEN 1 ELSE cfg.glyphs["other"]

\* Bytes of a line, by their positions in memory.
Shown(offset) == offset..(Min({offset + cfg.bytes_per_line, Len(mem)}) - 1)

\* The columns of the i-th byte of a line in its hex view, or of its padding.
hex_cell(offset, i) ==
    LET sep == split_hex_view /\ _group_div_pos(i)
    IN  IF offset + i \in Shown(offset)
        THEN (IF sep THEN Times(cfg.hex_group_sep, Separator) ELSE <<>>) \o Times(3, offset + i)
        ELSE (IF sep THEN Times(cfg.hex_group_sep, Padding) ELSE <<>>) \o Times(3, Padding)

\* What the i-th byte of a line, or its padding, appends to the text view.
text_cell(offset, i) ==
    LET sep == split_text_view /\ _group_div_pos(i)
    IN  IF offset + i \in Shown(offset)
        THEN (IF sep THEN <<Times(cfg.text_group_sep, Separator)>> ELSE <<>>)
             \o <<Times(glyph(mem[offset + i + 1]), offset + i)>>
        ELSE (IF sep THEN [k \in 1..cfg.text_group_sep |-> <<Padding>>] ELSE <<>>) \o <<<<Padding>>>>

\* The offsets the lines start at.
lines == {n \in 0..(Len(mem) - 1) : n % cfg.bytes_per_line = 0}

Cells(cell(_, _), offset) == FlattenSeq([k \in 1..cfg.bytes_per_line |-> cell(offset, k - 1)])
hex(offset) == IF cfg.show_hex THEN Cells(hex_cell, offset) ELSE <<>>
texts(offset) == IF cfg.show_text THEN Cells(text_cell, offset) ELSE <<>>
WholeText(offset) == FlattenSeq(texts(offset))                  \* as long as it needs to be
text_view(offset) == append(FoldLeft(append, <<>>, texts(offset)), <<NUL>>)

\* stat_zeros_seen: they are counted where they are shown in hex, only.
zeros == Cardinality(UNION {{k \in Shown(n) : cfg.show_hex /\ mem[k + 1] = "zero"} : n \in lines})

\* plog's HexDump: what separates a byte from the one before it, and the line.
between(h, k) ==
    IF k = 0 THEN <<>>
    ELSE IF h.m_group > 0 /\ k % h.m_group = 0 THEN Times(h.m_groupSeparator, Separator)
    ELSE Times(h.m_digitSeparator, Padding)
hexdump(h) == FlattenSeq([k \in 1..Len(mem) |-> between(h, k - 1) \o Times(2, k - 1)])

-----------------------------------------------------------------------------
\* The columns of the lines are aligned, that of a last, partial line too: its padding
\* is as wide as bytes and separators would be (mem_dump.hh:180).  Offsets
\* fit in the columns reserved for the largest one.
LinesAlign ==
    \A n \in lines : /\ Len(hex(n)) = Len(hex(0))
                     /\ _count_dec_digits(n) <= _count_dec_digits(Len(mem) - 1)

\* Every byte is shown in hex, once, in the order of memory, below the offset of its line,
\* and counted if it is 0.  (Without the hex view, the statistics tell of no zeros at all.)
EveryByteShown ==
    cfg.show_hex =>
    /\ \A k \in 0..(Len(mem) - 1) : \E n \in lines :
           {m \in lines : k \in ToSet(hex(m))} = {n} /\ n <= k /\ k < n + cfg.bytes_per_line
    /\ \A n \in lines : LET own == SelectSeq(hex(n), LAMBDA x : x \notin {Separator, Padding})
                        IN  \A k \in 1..(Len(own) - 1) : own[k] <= own[k + 1]
    /\ zeros = Cardinality({k \in DOMAIN mem : mem[k] = "zero"})

\* A line without grouped_bytes is split into the groups asked for (or one for each byte, if
\* there are fewer), as even as can be: their sizes differ by one at most, and
\* the last is among the largest ("optimally even groups", mem_dump.hh:212-213).
GroupsEven ==
    split_hex_view /\ cfg.grouped_bytes = 0 =>
        LET cuts == {0, cfg.bytes_per_line} \cup {i \in 1..(cfg.bytes_per_line - 1) : _group_div_pos(i)}
            size(i) == Min({j \in cuts : j > i}) - i
            sizes == {size(i) : i \in cuts \ {cfg.bytes_per_line}}
        IN  /\ Cardinality(cuts) - 1 = Min({cfg.groups_per_line, cfg.bytes_per_line})
            /\ Max(sizes) - Min(sizes) <= 1
            /\ size(Max(cuts \ {cfg.bytes_per_line})) = Max(sizes)

\* A text that fits its buffer, the terminator included, is shown whole, if no separator
\* and no glyph in it is empty: an empty one ends the line's text with its null character.
\* (A text that does not fit is continued beyond the buffer, a unit with each append.)
TextWhole ==
    \A n \in lines : Len(WholeText(n)) < _BUF_SIZE =>
        IF <<>> \in ToSet(texts(n)) THEN NUL \in ToSet(FirstUnits(text_view(n), Len(WholeText(n)) + 1))
        ELSE text_view(n) = Append(WholeText(n), NUL)
\* A byte's place in plog's line follows from its position in memory alone, so that
\* two dumps with the same separators can be compared; nothing trails the last byte.
PlaceTellsByte ==
    \A h \in HexDump, k \in 0..(Len(mem) - 1) :
        LET groups == IF h.m_group = 0 THEN 0 ELSE k \div h.m_group
            place == 2 * k + groups * h.m_groupSeparator + (k - groups) * h.m_digitSeparator
        IN  /\ SubSeq(hexdump(h), place + 1, place + 2) = <<k, k>>
            /\ k = Len(mem) - 1 => Len(hexdump(h)) = place + 2
\* A dump shows its memory completely, in aligned columns and even groups.
DumpIsComplete == LinesAlign /\ EveryByteShown /\ GroupsEven /\ TextWhole /\ PlaceTellsByte
=============================================================================
