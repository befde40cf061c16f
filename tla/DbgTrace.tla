------------------------------- MODULE DbgTrace -------------------------------
(***************************************************************************)
(* The DBG... and DBGTRACE macros of src/diag/DBG.hh in a debug build: one *)
(* thread writes lines through one shared buffer, follows its scopes, and  *)
(* turns the output on and off.  A statement is the life of a temporary    *)
(* that flushes the buffer when it dies, so an operand of a statement may  *)
(* do all of this, or throw, in the middle of a line.                      *)
(***************************************************************************)
EXTENDS Integers, Sequences, SequencesExt

CONSTANTS Stmt,           \* names of statements, used again when they are over
          Func,           \* names of functions with a DBGTRACE
          Silent,         \* those compiled with DBG_TRACE_SILENT
          MAXNESTLEVEL,   \* Tracer::MAXNESTLEVEL (50)
          MaxOpen,        \* bound: statements and scopes open at once
          MaxItems,       \* bound: items of one statement
          MaxEnabled, MaxDisabled   \* bounds: superfluous DBG_ENABLEs and DBG_DISABLEs

ASSUME LevelAssumption == MAXNESTLEVEL \in Nat \ {0}
ASSUME FuncAssumption == Silent \subseteq Func
\* What else is in a line; the names of statements and functions stand for texts of their own.
Words == {"handler", "Backtrace", "empty", "EXCEPTION", "at", "ASSERTION FAILED", "condition", "TERMINATING",
          "ABORTING", "label", "value"}
ASSUME NamesAssumption == Stmt \cap Func = {} /\ (Stmt \cup Func) \cap Words = {}
ASSUME BoundAssumption == MaxOpen \in Nat /\ MaxItems \in Nat /\ {MaxEnabled, MaxDisabled} \subseteq Nat

VARIABLES enabled, decorate,        \* Out::instance(): the counter; the live instance's cfg_
          outbuf,                   \* outbuf_ of the live and of the silent instance
          made, quiet, dumping,     \* Tracer: constructed?, trace_quietly_, dumping_
          nesting_level, call_stack,
          frames,                   \* the program's open statements and scopes, innermost last
          mode,                     \* running, unwinding (an exception), or ended
          printed, traced,          \* lines and trace line that the latest step printed
          switched, overrun         \* history: see OnlyOpenStatementsBuffered, IndentTellsDepth

Outs   == <<enabled, decorate>>
Tracing == <<quiet, nesting_level, call_stack, overrun>>
vars == <<Outs, outbuf, made, dumping, Tracing, frames, mode, printed, traced, switched>>

\* Out::instance()
instance == IF enabled > 0 THEN "live" ELSE "silent"

\* Out()
OutInit == enabled = 1 /\ decorate = FALSE /\ outbuf = [i \in {"live", "silent"} |-> <<>>]

\* What Tracer() sets; nothing reads it before.
TracerInit == quiet = FALSE /\ dumping = FALSE /\ nesting_level = 0 /\ call_stack = <<>>

Init ==
    /\ OutInit /\ TracerInit /\ made = FALSE
    /\ frames = <<>> /\ mode = "running"
    /\ printed = <<>> /\ traced = <<>>
    /\ switched = FALSE /\ overrun = FALSE

IsStatement(frame) == "id" \in DOMAIN frame
Statements == {frames[i] : i \in {j \in DOMAIN frames : IsStatement(frames[j])}}
Top == Last(frames)
ScopesIn(fs) ==
    LET open[n \in 0..Len(fs)] == IF n = 0 THEN <<>>
                                  ELSE IF IsStatement(fs[n]) THEN open[n - 1]
                                  ELSE Append(open[n - 1], fs[n])
    IN  open[Len(fs)]
Depth == Len(ScopesIn(frames))

\* A state of the buffers with the lines printed so far, to say what a step
\* prints: `text' is put into a buffer; a line's end flushes it.
Now == [buf |-> outbuf, lines |-> <<>>]

Into(s, i, text) == [s EXCEPT !.buf[i] = @ \o text]

\* A faulty variant: the buffer keeps what was printed of an unfinished line.
flush_uncleared(s, i) ==
    [buf   |-> [s.buf EXCEPT ![i] = IF mode = "unwinding" THEN @ ELSE <<>>],
     lines |-> IF i = "live" THEN Append(s.lines, s.buf[i]) ELSE s.lines]

\* A faulty variant: the silent instance has the stream of the live one.
flush_loud(s, i) ==
    [buf   |-> [s.buf EXCEPT ![i] = <<>>],
     lines |-> Append(s.lines, s.buf[i])]

\* FlushLine::flush(), of a line that began on instance i.
flush(s, i) ==
    [buf   |-> [s.buf EXCEPT ![i] = <<>>],
     lines |-> IF i = "live" THEN Append(s.lines, s.buf[i]) ELSE s.lines]

\* raw_line() with all its operands
raw_line(s, text) == flush(Into(s, instance, text), instance)

\* Tracer(): the first use of the tracer tells about the terminate handler.
Tracer(s) == IF made THEN s ELSE raw_line(s, <<"handler">>)

Prints(s) == outbuf' = s.buf /\ printed' = s.lines

\* A faulty variant: from the outermost scope.
backtrace_outermost_first(s, stack) ==
    LET start == raw_line(s, <<"Backtrace">>) IN
    IF stack = <<>> THEN raw_line(start, <<"empty">>)
    ELSE FoldLeft(LAMBDA t, f : raw_line(t, <<f>>), start, stack)

\* The lines of dump_call_stack().
backtrace(s, stack) ==
    LET start == raw_line(s, <<"Backtrace">>) IN
    IF stack = <<>> THEN raw_line(start, <<"empty">>)
    ELSE FoldRight(LAMBDA f, t : raw_line(t, <<f>>), stack, start)

\* ... which returns early, without clearing dumping_, if the stack is empty.
still_dumping == dumping /\ call_stack = <<>>

-----------------------------------------------------------------------------
Running == mode = "running"

\* DBG_ENABLE, DBG_DISABLE
enable(new_enable_state) ==
    /\ Running
    /\ enabled' = enabled + (IF new_enable_state THEN 1 ELSE -1)
    /\ enabled' \in (1 - MaxDisabled)..(1 + MaxEnabled)
    /\ switched' = (switched \/ Statements # {})
    /\ printed' = <<>> /\ traced' = <<>>
    /\ UNCHANGED <<decorate, outbuf, made, dumping, Tracing, frames, mode>>

\* DBGTRACE_QUIET, DBGTRACE_LOUD
off(trace_quietly) ==
    /\ Running
    /\ quiet' = trace_quietly
    /\ made' = TRUE /\ Prints(Tracer(Now)) /\ traced' = <<>>
    /\ UNCHANGED <<Outs, dumping, nesting_level, call_stack, frames, mode, switched, overrun>>

\* ~FlushTraceLine(): a quiet tracer drops the line.
flush_trace_line(line) == traced' = IF ~quiet /\ instance = "live" THEN <<line>> ELSE <<>>

\* What the DBGTRACE of the function's file makes of its scopes.
TraceMode(f) == IF f \in Silent THEN "TRACE_ONLY" ELSE "PRINT"

\* The trace line of a scope.
trace_line(mark, f, level) ==
    IF TraceMode(f) = "PRINT" THEN flush_trace_line([mark |-> mark, func |-> f, indent |-> level])
                              ELSE traced' = <<>>

\* Tracer::enter_scope().  At MAXNESTLEVEL it also clears the byte after indent.
enter_scope(f) ==
    /\ call_stack' = Append(call_stack, f)
    /\ trace_line("{", f, nesting_level)
    /\ nesting_level' = IF nesting_level < MAXNESTLEVEL THEN nesting_level + 1 ELSE nesting_level

\* DBGTRACE
DBGTRACE(f) ==
    /\ Running /\ Len(frames) < MaxOpen
    /\ enter_scope(f)
    /\ made' = TRUE /\ Prints(Tracer(Now))
    /\ frames' = Append(frames, [func |-> f, level |-> nesting_level])
    /\ overrun' = (overrun \/ Depth = MAXNESTLEVEL)
    /\ UNCHANGED <<Outs, dumping, quiet, mode, switched>>

\* A faulty variant: an exception does not close the scope.
leave_scope_unless_unwinding(f) ==
    /\ nesting_level' = IF nesting_level > 0 /\ Running THEN nesting_level - 1 ELSE nesting_level
    /\ trace_line("}", f, nesting_level')
    /\ call_stack' = IF Running THEN Front(call_stack) ELSE call_stack

\* Tracer::leave_scope()
leave_scope(f) ==
    /\ nesting_level' = IF nesting_level > 0 THEN nesting_level - 1 ELSE nesting_level
    /\ trace_line("}", f, nesting_level')
    /\ call_stack' = Front(call_stack)

\* ~Scope(), at the end of the scope or while an exception passes through it.
end_scope ==
    /\ mode # "ended" /\ frames # <<>> /\ ~IsStatement(Top)
    /\ leave_scope(Top.func)
    /\ frames' = Front(frames)
    /\ overrun' = (overrun /\ Depth > 1)
    /\ printed' = <<>>
    /\ UNCHANGED <<Outs, outbuf, made, dumping, quiet, mode, switched>>

-----------------------------------------------------------------------------
\* A statement begins: its temporary takes the buffer and the stream of the
\* instance of this moment, which is also the Out that its items are put to.
Opened(id, kind) == [id |-> id, kind |-> kind, instance |-> instance, items |-> 0,
                     quoted |-> {}, disturbed |-> FALSE]

Begin(id, kind) ==
    /\ Running /\ Len(frames) < MaxOpen
    /\ \A frame \in Statements : frame.id # id
    /\ \A i \in DOMAIN outbuf : ~Contains(outbuf[i], id)
    /\ traced' = <<>>
    /\ UNCHANGED <<enabled, dumping, Tracing, mode, switched>>

\* DBGRAW, DBGMARK, and DBGBOX where there are no message boxes.
DBGRAW(id) ==
    /\ Begin(id, "DBGRAW")
    /\ frames' = Append(frames, Opened(id, "DBGRAW"))
    /\ printed' = <<>>
    /\ UNCHANGED <<decorate, outbuf, made>>

\* DBG, DBGDUMP: dumper_line() writes the prefix and sets the live cfg_.
dumper_line(id, kind) ==
    /\ Begin(id, kind)
    /\ frames' = Append([i \in DOMAIN frames |-> IF IsStatement(frames[i])
                                                 THEN [frames[i] EXCEPT !.disturbed = TRUE]
                                                 ELSE frames[i]],
                        Opened(id, kind))
    /\ made' = TRUE /\ Prints(Into(Tracer(Now), instance, <<id>>))
    /\ decorate' = (kind = "DBGDUMP")

\* Is a C string quoted?  The cfg_ of the Out that dumper_line() returned says so,
\* but cfg_ is only ever set in the live one.
quotes(frame) == frame.instance = "live" /\ decorate

\* An operand was evaluated and is put to the line (op<< and op,): that of a
\* DBGRAW to the stream of its line, others to the databuf() of this moment.
put_item(cstr) ==
    /\ Running /\ frames # <<>> /\ IsStatement(Top) /\ Top.items < MaxItems
    /\ frames' = [frames EXCEPT ![Len(frames)] =
           [Top EXCEPT !.items = @ + 1,
                       !.quoted = IF cstr THEN @ \cup {quotes(Top)} ELSE @]]
    /\ outbuf' = IF Top.kind = "DBGRAW" THEN Into(Now, Top.instance, <<Top.id>>).buf
                                        ELSE Into(Now, instance, <<Top.id>>).buf
    /\ printed' = <<>> /\ traced' = <<>>
    /\ UNCHANGED <<Outs, made, dumping, Tracing, mode, switched>>

\* ~FlushDbgLine(), at the end of the statement or while an exception passes.
end_line ==
    /\ mode # "ended" /\ frames # <<>> /\ IsStatement(Top)
    /\ Prints(flush(Now, Top.instance))
    /\ frames' = Front(frames)
    /\ switched' = (switched /\ (Statements # {Top} \/ \E i \in DOMAIN outbuf : outbuf'[i] # <<>>))
    /\ traced' = <<>>
    /\ UNCHANGED <<Outs, made, dumping, Tracing, mode>>

\* A faulty variant: only what the value put there is left of the buffer.
dumpval_own_only(cstr) ==
    /\ Running
    /\ LET labelled == Into(Tracer([Now EXCEPT !.buf[instance] = <<>>]), instance, <<"label">>)
       IN  Prints(flush(IF cstr THEN labelled ELSE Into(labelled, instance, <<"value">>), instance))
    /\ made' = TRUE /\ traced' = <<>>
    /\ UNCHANGED <<Outs, dumping, Tracing, frames, mode, switched>>

\* DBG_: takes all that is in the buffer, and puts it after the label, or, if
\* the value is a C string, nowhere.
dumpval(cstr) ==
    /\ Running
    /\ LET s == outbuf[instance] \o <<"value">>
           labelled == Into(Tracer([Now EXCEPT !.buf[instance] = <<>>]), instance, <<"label">>)
       IN  Prints(flush(IF cstr THEN labelled ELSE Into(labelled, instance, s), instance))
    /\ made' = TRUE /\ traced' = <<>>
    /\ UNCHANGED <<Outs, dumping, Tracing, frames, mode, switched>>

-----------------------------------------------------------------------------
Unwinds == mode' = "unwinding" /\ made' = TRUE /\ traced' = <<>>
           /\ UNCHANGED <<Outs, Tracing, frames, switched>>

\* Two lines, indented: the first asks the tracer for that.
throwtrace == raw_line(flush(Into(Tracer(Now), instance, <<"EXCEPTION">>), instance), <<"at">>)

\* DBG_throw, DBGTHROW: throwtrace() and trigger_stack_dump().
DBG_throw == Running /\ Unwinds /\ Prints(throwtrace) /\ dumping' = TRUE

\* DBGASSERT of a condition that fails: Asserter::verify().
verify ==
    /\ Running /\ Unwinds
    /\ Prints(Tracer(raw_line(raw_line(raw_line(Now, <<>>), <<"ASSERTION FAILED">>), <<"condition">>)))
    /\ dumping' = TRUE

\* An exception of the program's own.
throw ==
    /\ Running
    /\ mode' = "unwinding" /\ printed' = <<>> /\ traced' = <<>>
    /\ UNCHANGED <<Outs, outbuf, made, dumping, Tracing, frames, switched>>

catch ==
    /\ mode = "unwinding"
    /\ mode' = "running" /\ printed' = <<>> /\ traced' = <<>>
    /\ UNCHANGED <<Outs, outbuf, made, dumping, Tracing, frames, switched>>

Ends == mode' = "ended" /\ traced' = <<>>
        /\ UNCHANGED <<Outs, made, Tracing, frames, switched>>

\* The program exits, in any scope: ~Tracer().
exit ==
    /\ Running /\ Ends
    /\ IF dumping THEN Prints(backtrace(Now, call_stack)) ELSE Prints(Now)
    /\ dumping' = still_dumping

\* Nobody catches the exception, and the program dies, unless the runtime had
\* no terminate handler, so that dbg_terminate_handler() is there, and exits.
terminate ==
    /\ mode = "unwinding" /\ Ends
    /\ \/ Prints(Now) /\ UNCHANGED dumping
       \/ /\ made
          /\ LET told == raw_line(backtrace(Now, call_stack), <<"TERMINATING">>)
             IN  Prints(IF still_dumping THEN backtrace(told, call_stack) ELSE told)
          /\ dumping' = still_dumping

\* DBGABORT: there are no destructors in an abort().
DBGABORT ==
    /\ Running /\ mode' = "ended" /\ traced' = <<>>
    /\ made' = TRUE
    /\ Prints(backtrace(Tracer(raw_line(Now, <<"ABORTING">>)), call_stack))
    /\ dumping' = still_dumping
    /\ UNCHANGED <<Outs, Tracing, frames, switched>>

Next ==
    \/ \E b \in BOOLEAN : enable(b) \/ off(b) \/ put_item(b) \/ dumpval(b)
    \/ \E f \in Func : DBGTRACE(f)
    \/ \E id \in Stmt : DBGRAW(id) \/ dumper_line(id, "DBG") \/ dumper_line(id, "DBGDUMP")
    \/ end_scope \/ end_line
    \/ DBG_throw \/ verify \/ throw \/ catch
    \/ exit \/ terminate \/ DBGABORT

Spec == Init /\ [][Next]_vars

-----------------------------------------------------------------------------
Ids(text) == ToSet(text) \cap Stmt
Open == {frame.id : frame \in Statements}

\* Types, and a tracer that was constructed before anything of it is used.  The
\* level may be MAXNESTLEVEL, one more than the last index of indent[]: then
\* enter_scope() (DBG.hh:1110) ends the indentation one byte after the array,
\* where the compilers pad before call_stack; nothing else is changed by it.
TypeInv ==
    /\ enabled \in Int /\ decorate \in BOOLEAN
    /\ DOMAIN outbuf = {"live", "silent"}
    /\ {made, quiet, dumping, switched, overrun} \subseteq BOOLEAN
    /\ nesting_level \in 0..MAXNESTLEVEL
    /\ call_stack \in Seq(Func)
    /\ Len(frames) <= MaxOpen /\ mode \in {"running", "unwinding", "ended"}
    /\ ~made => ~dumping /\ call_stack = <<>>

\* However statements, exceptions and scopes are nested, the shared buffers hold
\* parts of open statements only, so that a line never begins with the rest of
\* an earlier one (FlushLine, DBG.hh:751-753).  The exception is output switched
\* on or off by an operand (`switched', until the buffers are empty): the rest of
\* that statement goes to a buffer which its own end does not flush.
OnlyOpenStatementsBuffered ==
    ~switched => \A i \in DOMAIN outbuf : Ids(outbuf[i]) \subseteq Open

\* A line mixes statements only if they are nested: what is printed when a
\* single statement is open is of that statement.
LinesMixOnlyWhenNested ==
    [][~switched => \A i \in DOMAIN printed' : Ids(printed'[i]) \subseteq Open]_vars

Infix(part, whole) ==
    \E n \in 0..(Len(whole) - Len(part)) : SubSeq(whole, n + 1, n + Len(part)) = part

\* What was put to the output is printed in that order by the next line that is
\* printed, whoever prints it, a statement, a scope, an exception or the exit;
\* except that a DBG_ of a C string drops the line it is nested in.
NothingLost ==
    [][IF printed' = <<>> THEN IsPrefix(outbuf["live"], outbuf'["live"])
       ELSE Contains(printed', <<"label">>) \/ Infix(outbuf["live"], FlattenSeq(printed'))]_vars

\* The end of a statement that began while the output was enabled, which prints
\* what the live buffer has of it.
EndsLiveLine ==
    /\ frames # <<>> /\ IsStatement(Top) /\ Top.instance = "live"
    /\ frames' = Front(frames) /\ printed' = <<outbuf["live"]>>

\* While the output is disabled, nothing is printed or traced, neither by statements
\* nor by scopes, exceptions and exits; except that, if an operand disabled it, the
\* statement it is in still prints what the live buffer has.
SilentWhenDisabled ==
    [][enabled <= 0 => traced' = <<>> /\ (printed' # <<>> => switched /\ EndsLiveLine)]_vars

\* A C string is quoted if and only if it is in a DBGDUMP that began while the output
\* was enabled, as long as no operand has another DBG or DBGDUMP, which changes the
\* common setting ("disable quoting const char* literals for DBG, but enable for
\* DBGDUMP", DBG.hh:814-816).
QuotedInDumps ==
    \A frame \in Statements :
        frame.kind # "DBGRAW" /\ ~frame.disturbed =>
            frame.quoted \subseteq {frame.kind = "DBGDUMP" /\ frame.instance = "live"}

\* The indentation is the number of open scopes, also after exceptions; after
\* scopes nested deeper than MAXNESTLEVEL, it is right again once all are left.
IndentTellsDepth ==
    /\ nesting_level <= Depth
    /\ ~overrun => nesting_level = Depth

\* The line that closes a scope is indented like the line that opened it.
BracesAlign ==
    [][\A i \in DOMAIN traced' : ~overrun =>
           IF traced'[i].mark = "{" THEN traced'[i].indent = Depth
                                    ELSE traced'[i].indent = Top.level]_vars

Scopes == [i \in 1..Depth |-> ScopesIn(frames)[i].func]

\* A backtrace, wherever it comes from, lists the scopes open at that time, the
\* innermost first, and is not printed twice (DBG.hh:1139), unless it is empty.
BacktraceTellsOpenScopes ==
    [][LET starts == {i \in DOMAIN printed' : Contains(printed'[i], "Backtrace")}
           shown(i) == [k \in DOMAIN Scopes |-> Last(printed'[i + k])]
       IN  /\ \A i \in starts : i + Len(Scopes) <= Len(printed') /\ shown(i) = Reverse(Scopes)
           /\ Scopes # <<>> => \A i, j \in starts : i = j]_vars
\* What the state of the output says of the program: the types, the buffers, the
\* quoting and the indentation.
OutputFollowsProgram == TypeInv /\ OnlyOpenStatementsBuffered /\ QuotedInDumps /\ IndentTellsDepth

\* Trace lines and backtraces show the scopes as they are nested.
ScopesShown == BracesAlign /\ BacktraceTellsOpenScopes
=============================================================================
