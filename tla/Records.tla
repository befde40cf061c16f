------------------------------- MODULE Records -------------------------------
(***************************************************************************)
(* How a log record becomes text: the names of levels (diag/log.cc and the *)
(* severities of plog they are passed as), what is put into the record     *)
(* (plog/Record.h), the function's name taken from its signature and shown *)
(* with the line number, and the message as a field of a CSV file.         *)
(* Computations: the input is chosen at the start.  Strings are sequences  *)
(* of characters, "f" those that are not special, "0" the null character.  *)
(***************************************************************************)
EXTENDS Integers, Sequences, SequencesExt, FiniteSetsExt, FiniteSets

CONSTANTS Signature,          \* what the compiler calls a function
          Content,            \* messages
          Digits,             \* line numbers, as their digits
          kMaxMessageSize,    \* of a CSV field
          FuncShown,          \* so much of the function's name is shown: the 32 of "%.32s"
          LocSize             \* sizeof(loc_buf): 40

VARIABLES signature, message, digits
recordsVars == <<signature, message, digits>>

RecordsInit ==
    \/ signature \in Signature /\ message = <<>> /\ digits \in Digits
    \/ signature = <<>> /\ message \in Content /\ digits = <<"1">>

-----------------------------------------------------------------------------
_invalid_ == 0
fatal == 1
error == 2
warning == 3
notice == 4
info == 5
detail == 6
LogLevel == fatal..detail
debug == info   \* levels from this one on are for debugging only

letter_to_level(code) ==
    CASE code = "F" -> fatal [] code = "E" -> error [] code = "W" -> warning
      [] code = "N" -> notice [] code = "I" -> info [] code = "D" -> detail
      [] OTHER -> _invalid_

level_to_letter(level) == IF level \in LogLevel THEN <<"F", "E", "W", "N", "I", "D">>[level] ELSE "?"

\* The default level's name is short, and so are those of the debug levels, in files.
level_to_str(level, full_form) ==
    IF level \notin LogLevel THEN "?"
    ELSE IF full_form THEN <<"FATAL", "ERROR", "WARNING", "NOTICE", "DEBUG INFO", "DEBUG DETAIL">>[level]
    ELSE <<"FATAL", "ERROR", "WARNING", ".", "DBG", "DBG...">>[level]

\* plog's names of the same numbers; 0 is a severity, too.
severityToString(severity) ==
    IF severity \in LogLevel THEN <<"FATAL", "ERROR", "WARN", "INFO", "DEBUG", "VERB">>[severity] ELSE "NONE"

\* The first letter of a name of either kind, and toupper().
initial_of(str) ==
    CASE str \in {"FATAL", "fatal"} -> "F" [] str \in {"ERROR", "error"} -> "E" [] str \in {"WARN", "warning"} -> "W"
      [] str \in {"INFO", "info"} -> "I" [] str \in {"DEBUG", "debug"} -> "D" [] str \in {"VERB", "verbose"} -> "V"
      [] str \in {"NONE", "none", "NOTICE"} -> "N" [] OTHER -> "?"

\* By the first letter alone, in either case; NOTICE is none of plog's.
severityFromString(str) == SelectInSeq(<<"F", "E", "W", "I", "D", "V">>, LAMBDA letter : letter = initial_of(str))

-----------------------------------------------------------------------------
Nesting(s) == FoldLeft(LAMBDA n, c : n + (IF c = "<" THEN 1 ELSE IF c = ">" THEN -1 ELSE 0), 0, s)

Parens(s) == {i \in DOMAIN s : s[i] = "("}

\* A faulty variant: stops at a space within template arguments.
processFuncName_any_space(func) ==
    IF Parens(func) = {} THEN func
    ELSE LET funcEnd == Min(Parens(func))
         IN  SubSeq(func, Max({0} \cup {i \in 1..(funcEnd - 1) : func[i] = " "}) + 1, funcEnd - 1)

\* From behind the last space before the first parenthesis, but for spaces where the
\* brackets to the right of it, angle ones, do not match.
processFuncName(func) ==
    IF Parens(func) = {} THEN func
    ELSE LET funcEnd == Min(Parens(func))
             spaces == {i \in 1..(funcEnd - 1) : func[i] = " " /\ Nesting(SubSeq(func, i, funcEnd - 1)) = 0}
         IN  SubSeq(func, Max({0} \cup spaces) + 1, funcEnd - 1)

\* What can be put: strings, which are also containers of characters, character pointers,
\* pairs, and containers.
String(s) == [text |-> s, items |-> s]
Pointer(s) == [text |-> s]
Null_pointer == [text |-> <<"(null)">>]
Pair(x, y) == [first |-> x, second |-> y]
Container(s) == [items |-> s]

\* What has a conversion to a string is not taken for a container.
isContainer(data) == "items" \in DOMAIN data /\ "text" \notin DOMAIN data

\* A string is put as a null-terminated one, whatever it has after that.
c_str(s) == SubSeq(s, 1, SelectInSeq(Append(s, "0"), LAMBDA c : c = "0") - 1)

RECURSIVE printed(_)
printed(data) ==
    IF isContainer(data)
      THEN <<"[">> \o FlattenSeq([i \in DOMAIN data.items |->
                         printed(data.items[i]) \o (IF i = Len(data.items) THEN <<>> ELSE <<",", " ">>)]) \o <<"]">>
    ELSE IF "text" \in DOMAIN data THEN c_str(data.text)
    ELSE printed(data.first) \o <<":">> \o printed(data.second)

Record(severity, func, line) == [m_severity |-> severity, m_func |-> func, m_line |-> line, m_message |-> <<>>]

\* record << data
put(record, data) == [record EXCEPT !.m_message = @ \o printed(data)]

\* record.printf(...), with the text that it formats.
printf(record, str) == put(record, Pointer(str))

getMessage(record) == record.m_message
getLine(record) == record.m_line
getFunc(record) == processFuncName(record.m_func)

FirstOf(s, n) == SubSeq(s, 1, IF Len(s) < n THEN Len(s) ELSE n)

\* snprintf(loc_buf, sizeof(loc_buf), " [%.32s@%zu]", ...), and the null character.
location(record) ==
    FirstOf(<<" ", "[">> \o FirstOf(getFunc(record), FuncShown) \o <<"@">> \o getLine(record) \o <<"]">>, LocSize - 1)

\* The colours of a terminal, by their numbers, but for Windows.
Color(level) == IF level \in LogLevel THEN <<91, 31, 33, 97, 92, 32>>[level] ELSE 0

Prefix(level) ==
    CASE level = warning -> "WARNING" [] level = error -> "- ERROR" [] level = fatal -> "--==<< FATAL ERROR"
      [] OTHER -> "none"

\* A line on the console: its colour, which ends with it, and what is shown in that colour
\* besides the time.  The name of the level, which is made ready, is not.
console(record) ==
    LET level == record.m_severity
    IN  [color  |-> Color(level),
         ends   |-> level \in LogLevel,
         text   |-> [prefix  |-> Prefix(level),
                     message |-> getMessage(record),
                     suffix  |-> level = fatal,
                     tid     |-> level >= debug,
                     loc     |-> IF level >= info THEN location(record) ELSE <<>>]]

cut(msg) == IF Len(msg) > kMaxMessageSize THEN FirstOf(msg, kMaxMessageSize) \o <<".", ".", ".">> ELSE msg

\* getline() for every quote ("q"), and once more: there may be nothing after the last.
csv(msg) ==
    LET tokens == FoldLeft(LAMBDA t, c : IF c = "q" THEN Append(t, <<>>) ELSE [t EXCEPT ![Len(t)] = Append(@, c)],
                           <<<<>>>>, cut(msg))
    IN  FlattenSeq([i \in DOMAIN tokens |-> <<"q">> \o tokens[i] \o <<"q">>])

-----------------------------------------------------------------------------
\* The name of a level tells which it is, in each form and for plog, and an unknown level
\* is not taken for a known one.
LevelsTold ==
    /\ \A l \in LogLevel : letter_to_level(level_to_letter(l)) = l
    /\ letter_to_level(level_to_letter(_invalid_)) = _invalid_
    /\ \A l, k \in LogLevel \cup {_invalid_}, full_form \in BOOLEAN :
          level_to_str(l, full_form) = level_to_str(k, full_form) => l = k
    /\ \A s \in LogLevel \cup {0} : severityFromString(severityToString(s)) = s
    /\ \A s \in 1..6 : severityFromString(<<"fatal", "error", "warning", "info", "debug", "verbose">>[s]) = s

\* The record in question.
recorded == printf(Record(info, signature, digits), message)

\* Brackets match, and all spaces are within them.
OneWord(s) ==
    /\ Nesting(s) = 0 /\ \A i \in DOMAIN s : Nesting(SubSeq(s, 1, i)) >= 0
    /\ \A i \in DOMAIN s : s[i] = " " => Nesting(SubSeq(s, 1, i)) > 0

\* The function's name, with its class and their template arguments, is what stands
\* between its type, whatever that is made of, and its parameters.  (Names that contain
\* parentheses or unmatched brackets, such as operator(), operator<, are not found.)
NamesFound ==
    \A i \in 0..Len(signature), j \in Parens(signature) :
        LET name == SubSeq(signature, i + 1, j - 1)
        IN  /\ i < j /\ j = Min(Parens(signature))
            /\ i > 0 => signature[i] = " "
            /\ OneWord(name)
            => getFunc(recorded) = name

\* The line number is shown in full, up to 9999, however long the function's name is
\* ("Long fn. names will be truncated!", log.cc:91): cut off, it would name another line.
NumbersShown ==
    LET shown == location(recorded)
        at == Len(FirstOf(getFunc(recorded), FuncShown)) + 3
    IN  Len(digits) <= LocSize - FuncShown - 4
            => SubSeq(shown, at, at + Len(digits)) = <<"@">> \o digits

\* A line on the console does not name its level, but tells it by its colour, and does not
\* leave that on.  Without colours, warnings and worse tell theirs ("warnings/errors get
\* formatted to say so themselves", log.cc:82), and only the two levels for debugging are
\* not told from each other.
ConsoleTells ==
    LET line(level) == console([recorded EXCEPT !.m_severity = level])
        known == {line(l) : l \in LogLevel}
    IN  message # <<>> =>
            /\ Cardinality({shown.color : shown \in known}) = Cardinality(LogLevel)
            /\ \A shown \in known \cup {line(_invalid_)} : shown.ends = (shown.color # Color(_invalid_))
            /\ \A shown, other \in known :
                    shown.text = other.text => shown = other \/ {shown, other} = {line(info), line(detail)}

\* What a reader of CSV files makes of a field: two quotes are one.
Field(s) ==
    FoldLeft(LAMBDA r, c : IF r.quotes = 0 THEN IF c = "q" THEN [r EXCEPT !.quotes = 1] ELSE [r EXCEPT !.bad = TRUE]
                           ELSE IF r.quotes = 1 THEN IF c = "q" THEN [r EXCEPT !.quotes = 2]
                                                     ELSE [r EXCEPT !.text = Append(@, c)]
                           ELSE IF c = "q" THEN [r EXCEPT !.quotes = 1, !.text = Append(@, c)]
                           ELSE [r EXCEPT !.bad = TRUE],
             [text |-> <<>>, quotes |-> 0, bad |-> FALSE], s)

\* A message is read back from a CSV file as it was, up to the limit: quotes and line
\* ends in it do not end the field, and a null character ends the string that has it
\* and not the message.
FieldsReadBack ==
    LET whole == c_str(message) \o c_str(message)
    IN  /\ Field(csv(getMessage(recorded))) = [text |-> cut(c_str(message)), quotes |-> 2, bad |-> FALSE]
        /\ Field(csv(getMessage(put(recorded, String(message))))) = [text |-> cut(whole), quotes |-> 2, bad |-> FALSE]

\* Whatever is put can be told from what is printed of it, however containers and pairs are
\* nested (if their texts have no such punctuation and pairs are not in pairs), but for a
\* container of one empty text, which looks like an empty one.
ItemsTold ==
    LET upTo2(items) == {Container(s) : s \in {<<>>} \cup {<<x>> : x \in items \ {Pointer(<<>>)}} \cup (items \X items)}
        texts == {Pointer(<<>>), Pointer(c_str(message)), Null_pointer}
        simple == texts \cup {Pair(x, y) : x, y \in texts}
        data == simple \cup upTo2(simple) \cup upTo2(upTo2(texts))
    IN  message # <<>> => Cardinality({printed(d) : d \in data}) = Cardinality(data)

\* What a log file says of a record is what was recorded.
RecordsKept == LevelsTold /\ NamesFound /\ NumbersShown /\ ConsoleTells /\ FieldsReadBack /\ ItemsTold
=============================================================================
