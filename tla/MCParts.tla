------------------------------- MODULE MCParts -------------------------------
(* The small parts, side by side: counters, toggles, averages, the model      *)
(* clock, files, flags of streams, error reports, log files, appenders and      *)
(* vectors; computations on memory, versions, strings, paths and records.    *)
(* They share nothing; a behaviour is one part's (`part'), while the others  *)
(* rest in one of their initial states.  A computation has an input and      *)
(* takes no steps.                                                           *)
EXTENDS Counters, Toggles, Stats, ModelClock, MemDump, SemVer, Strings, Paths, Vectors, Files, Streams,
        Errors, RollingFileAppender, Records, Appenders

SomeSamples == {-4, 0, 2}

\* Lines of up to seven bytes; the lengths of separators and glyphs vary.
SomeConfigs == [bytes_per_line : 1..7, groups_per_line : {0, 1, 2, 3, 8}, grouped_bytes : 0..2,
                group_text_too : BOOLEAN, hex_group_sep : {2}, text_group_sep : {1, 3},
                glyphs : {<<>>, "other" :> 3}, show_hex : {TRUE}, show_text : {TRUE}, beyond : {0}]
               \cup [bytes_per_line : {2, 5}, groups_per_line : {0, 2}, grouped_bytes : 0..2,
                group_text_too : BOOLEAN, hex_group_sep : {2}, text_group_sep : {0, 1},
                glyphs : {<<>>, "other" :> 0}, show_hex : BOOLEAN, show_text : BOOLEAN, beyond : {0, 2}]
SomeMemory == {[k \in 1..n |-> IF k % 3 = 1 THEN "zero" ELSE IF k % 3 = 2 THEN "plain" ELSE "other"] :
                   n \in {0, 1, 5, 7, 11}}

SomeHexDumps == [m_group : {0, 1, 3}, m_digitSeparator : {0, 1}, m_groupSeparator : {1, 2}]

\* Short texts, and those that continue a version.
SomeTexts == SeqOf(Char, 6) \cup {<<"1", ".", "1", ".", "1">> \o more : more \in SeqOf(Char, 4)}

SomePhrases == SeqOf({"a", " ", "x", "q"}, 4) \cup SeqOf({"a", " ", "\n"}, 5)
SomeWords == SeqOf({"0", "1", ".", "n", "a"}, 5) \cup {<<"o", "f", "f">>, <<"d", "i", "s">>, <<"d", "i", "s", "a">>}
SomeLists == SeqOf(SeqOf({"a", " "}, 2), 3)
SomeQuotes == {<<>>, <<"q">>, <<"[", "]">>, <<"<", ">", "|">>}

SomeTokens == [bracket_open : {<<>>, <<"(">>, <<"(", " ">>}, separator : {<<",">>, <<",", " ">>, <<" ">>},
               bracket_close : {<<>>, <<")">>}]
              \cup [bracket_open : {<<"(">>}, separator : {<<",", " ">>}, bracket_close : {<<" ", ")">>}]
\* Even, so that their products are exact.
SomeOperands == [type : {"int"}, n : {<<4, -4>>, <<8>>, <<-8, 0>>}]
                \cup [type : {"float"}, n : {<<2, -6>>, <<4, -4>>, <<4, 8>>, <<-10, 6>>, <<0, 0>>, <<-2>>, <<8>>}]

SomeSignatures == SeqOf({"f", " ", "<", ">", "("}, 5)
SomeContent == SeqOf({"f", "q", "\n"}, 6) \cup SeqOf({"f", "q", "0"}, 3)
SomeDigits == {<<"1">>, <<"1", "2", "3", "4">>, <<"1", "2", "3", "4", "5">>}

VARIABLE part
partsVars == <<countersVars, togglesVars, statsVars, modelVars, memVars, semVerVars, stringsVars, pathsVars,
               vectorsVars, filesVars, streamsVars, errorsVars, rollingVars, recordsVars, appendersVars, part>>

PartsInit ==
    /\ part \in {"counters", "toggles", "stats", "clock", "vectors", "files", "streams", "errors",
                "rolling", "appenders", "operands", "memory", "versions", "strings", "paths", "records"}
    /\ CountersInit /\ (part # "counters" => count = 0 /\ limit = 0)
    /\ TogglesInit /\ (part # "toggles" => ~state)
    /\ StatsInit /\ (part # "stats" => integral)
    /\ ModelInit
    /\ FilesInit /\ (part # "files" => standard = {})
    /\ StreamsInit /\ (part # "streams" => library = "sz" /\ flags_ = {"dec"})
    /\ ErrorsInit
    /\ AppendersInit /\ (part # "appenders" => m_outputStream = CHOOSE f \in [Console -> Stream] : TRUE)
    /\ RollingInit /\ (part # "rolling" => m_maxFileSize = LowestMax /\ m_maxFiles = 0)
    /\ VectorsInit
    /\ part # "vectors" => io = CHOOSE tokens \in Tokens : TRUE
    /\ part # "operands" => operands = CHOOSE o \in Vector \X Vector : TRUE
    /\ IF part = "memory" THEN MemInit ELSE cfg = (CHOOSE c \in Config : TRUE) /\ mem = <<>>
    /\ IF part = "versions" THEN SemVerInit ELSE input = <<>> /\ compared = <<>>
    /\ IF part = "strings" THEN StringsInit ELSE line = <<>> /\ word = <<>> /\ list = <<>> /\ options = {}
    /\ IF part = "paths" THEN PathsInit ELSE prefix = <<>> /\ path = <<>>
    /\ IF part = "records" THEN RecordsInit ELSE signature = <<>> /\ message = <<>> /\ digits = <<>>

PartsNext ==
    /\ UNCHANGED <<memVars, semVerVars, stringsVars, pathsVars, recordsVars, part>>
    /\ \/ /\ part = "counters" /\ CountersNext
          /\ UNCHANGED <<togglesVars, statsVars, modelVars, vectorsVars, filesVars, streamsVars, errorsVars, rollingVars, appendersVars>>
       \/ /\ part = "toggles" /\ TogglesNext
          /\ UNCHANGED <<countersVars, statsVars, modelVars, vectorsVars, filesVars, streamsVars, errorsVars, rollingVars, appendersVars>>
       \/ /\ part = "stats" /\ StatsNext
          /\ UNCHANGED <<countersVars, togglesVars, modelVars, vectorsVars, filesVars, streamsVars, errorsVars, rollingVars, appendersVars>>
       \/ /\ part = "clock" /\ ModelNext
          /\ UNCHANGED <<countersVars, togglesVars, statsVars, vectorsVars, filesVars, streamsVars, errorsVars, rollingVars, appendersVars>>
       \/ /\ part = "vectors" /\ VectorsNext
          /\ UNCHANGED <<countersVars, togglesVars, statsVars, modelVars, filesVars, streamsVars, errorsVars, rollingVars, appendersVars>>
       \/ /\ part = "files" /\ FilesNext
          /\ UNCHANGED <<countersVars, togglesVars, statsVars, modelVars, vectorsVars, streamsVars, errorsVars, rollingVars, appendersVars>>
       \/ /\ part = "streams" /\ StreamsNext
          /\ UNCHANGED <<countersVars, togglesVars, statsVars, modelVars, vectorsVars, filesVars, errorsVars, rollingVars, appendersVars>>
       \/ /\ part = "errors" /\ ErrorsNext
          /\ UNCHANGED <<countersVars, togglesVars, statsVars, modelVars, vectorsVars, filesVars, streamsVars, rollingVars, appendersVars>>
       \/ /\ part = "rolling" /\ RollingNext
          /\ UNCHANGED <<countersVars, togglesVars, statsVars, modelVars, vectorsVars, filesVars, streamsVars, errorsVars, appendersVars>>
       \/ /\ part = "appenders" /\ AppendersNext
          /\ UNCHANGED <<countersVars, togglesVars, statsVars, modelVars, vectorsVars, filesVars, streamsVars, errorsVars, rollingVars>>

PartsSpec == PartsInit /\ [][PartsNext]_partsVars
=============================================================================
