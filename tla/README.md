# Specifications of szlib

TLA+ models of [szlib](../src), a C++20 utility library, checked with TLC and, where several actors
share state or where a count could be wrong for sizes that no run reaches, proved with TLAPS. Every
definition is translated from the code it names; a module's name is that of the class or header it
models where the language allows it.

To check a model: `tlc -config RingBuffer.cfg MCRingBuffer.tla`. To check proofs:
`tlapm RingBufferProofs.tla`.

## 1. The system

szlib is a collection of headers; there is no program. Its parts, the state each keeps, what
operates on it, and what makes it correct:

| Component | State | Operations | Hard behaviour | Must hold |
|---|---|---|---|---|
| Ring buffer, `cont/ringbuffer.hh` | an uninitialised array, `_next`, `_oldest`, `_count` | `push_back`, `pop_front`, `pop_back`, `front`, `back`, `find`, `clear` | wrapping, full against empty, stale slots, dropping the oldest | behaves as a bounded deque |
| Lockers, `cont/lockers.hh` | cells, a stack of free keys, its height | `alloc`/`get`, `store`, `[]`, `free`/`release` | keys reused after they were returned, exhaustion, assertions compiled in or out | a cell has one holder, none leaks, contents are kept |
| Log manager, `diag/log.hh`, `log.cc` | `initialized`, a mutex, the static instance; plog's logger, level and appenders | `init`, `LOG...`, `set_level` | threads racing to initialize, a mutex inside the construction of a static local | one complete initialization before any use; every call returns |
| Debug log, end of `diag/DBG.hh` | a mutex, the shared stream and file name | `DBGLOG`, `DBGLOGX`, `DBGLOG_USE` | threads interleaving item by item, file switches, files that do not open | whole lines in the right file |
| Tracing, the rest of `diag/DBG.hh` | two line buffers, the enable count, the indentation and the stack of scopes | `DBG`, `DBGDUMP`, `DBGTRACE`, `DBG_ENABLE`, `DBG_OFF`, assertions, `DBGABORT` | statements nested in operands of others, exceptions, switching in the middle of a line, scopes deeper than the indentation | what is printed follows the program |
| Clocks, `time.hh` | a counter or a floating-point time, the upstream clock | `now`, `since`, `advance` | wraparound, chains with different widths, rounding | spans are right; time advances |
| Test runner, `diag/test/runner.hh` | counters per batch and per thread, `reported` | `Test`, `run`, `skip`, `report`, `reset`, destructor | throwing subjects, nested batches, silenced summaries | the counters tell what happened |
| Counters, `stats/counter.hh` | a count; a limit; an overflow flag and a callback | `++`, `--`, `set` on a plain, a capped and a guarded counter | the type wraps | each overflow is told once; the cap holds |
| Collectors, `stats/collect.hh`, `rolling_average.hh` | totals and extremes; a window of samples and its sum; a smoothed value | `add`, `average` | a window not full yet, wrapping, sums that are corrected and never computed anew | what is kept is what the samples give |
| Stream formatting, `streams.hh` | a stream's flags, objects that restore them | `Hex`, `Dec`, `<<` | the restoring object is copied; statements nest | what a manipulator leaves behind is known |
| Memory dump, `diag/mem_dump.*` | a configuration, a line buffer | `of` | groups that do not divide a line, glyphs longer than one unit | every byte once, aligned |
| Semantic versions, `semver.*` | numbers and a tag | two parsers, comparison | signs, white space, overflow, tags at the limit of the buffer | the parsers agree, and the order is one |
| Strings, `str*`, `listvals.hh` | none | trim, quote, truth values, lists | ends, sizes computed in advance | nothing is lost |
| Files, `sys/file.hh`, `sys/fs.hh` | a `FILE*` and whether it is owned; none | open, close, reuse; joining and taking apart paths | ownership; empty, root and dotted paths | closed once; a path names the same |
| Toggles, `toggle*.hh` | a flag, a callback | `set`, `toggle` | callbacks that set the flag again | the last one called was told the state |
| Errors, `diag/error.*` | `errno`, the logger, cerr | reports, exceptions, `abort`, `exit` | the report itself may fail | no failure told twice, nor as another one |
| Vectors, `math/vec` | coordinates | accessors, arithmetic of mixed types, writing and reading | stream state that stays changed, integer and floating-point results | operators agree; what is written reads back |
| plog, `diag/plog` | a logger and its appenders: rolling files, a dynamic list, colour consoles | `write`, rolling, adding and removing appenders | restarts on the files of the last run, failing renames, threads | the log is kept in order; appenders are used while they exist; colours do not stay on |
| `lang`, `vocab`, `time/chrono.hh`, `diag/src_loc.hh` | none | aliases and macros | – | – |

The components are nearly independent. The log manager calls plog, whose appenders share a console or
write files; errors are reported through both the logger and cerr; the test runner calls user code,
which may call the test runner; clocks call other clocks. All other interaction is through the user's
program, which the models play: clients of a container, threads that log, readers of clocks, nested
statements, callbacks.

## 2. Plan

The order is: first where several actors share state (lockers, log manager, debug log), the ring
buffer with its redundant indices, then clocks and test runner, then everything else that keeps state,
and last what only computes. All of it is done:

1. `BoundedDeque` and `RingBuffer_Static_Int`, proofs in `RingBufferProofs`.
2. `LockerPool` and `lockers`, proofs in `LockersProofs`.
3. `LogMan`, `LineLog` and `DbgLog`, `TestRunner`, proofs in `LogManProofs`, `DbgLogProofs`, `TestRunnerProofs`.
4. `TickClocks`, `ModelClock` with `Powers` (proofs in `PartsProofs`).
5. `DbgTrace`: statements, scopes, exceptions, switches and backtraces, proofs in `DbgTraceProofs`.
6. Small state machines around a resource: `Counters`, `Toggles`, `Files`, `Errors`, `Streams`,
   `Stats` (proofs in `PartsProofs`), `Vectors`.
7. plog's own: `RollingFileAppender`, `Appenders` (proofs in `PartsProofs`).
8. Computations against a reference: `MemDump`, `SemVer`, `Strings`, `Paths` (proofs in `PartsProofs`),
   `Records`.
9. `MCParts`, which puts the modules of 6 to 8 and `ModelClock` side by side.

What is left: the representation of values in `DBG_ptr` and containers, chained floating-point clocks,
and the conversion of numbers to digits in `streams.hh`.

## 3. Modules

Where a component makes several promises, each is a definition with a comment of its own, and the
property that a run checks is their conjunction (`RollingKept`, `FlagsKept`, ...).

### Ring buffer

`RingBuffer_Static_Int` has the class's four fields as variables (without the underscore) and `ret`,
the value the latest call returned. Each member function is an action; `push_back` to a full buffer
includes the `pop_front` it calls. `find` is const and is an operator: `walk[k]` is the index its
loop reaches in round *k*, and the quantifier over the earlier rounds is the condition of its
do-while loop. The array starts with arbitrary values, as it is never initialised. The template's own
restrictions are the assumptions: a capacity above 0 (a TODO in the header leaves it to the user), and
an error value that is reserved from the values (header, lines 19-22). `find` is a const member that
calls the non-const `__i_inc`; a conforming compiler rejects it where it is instantiated, and it is
modelled as it reads.

`BoundedDeque` is the abstract specification, over a sequence. `Deque` instantiates it with
`contents`, the elements from `_oldest` on, as its refinement mapping.

### Lockers

`lockers` has `_slots`, `_free_stack`, `_end_free_i`. The class's operations are actions of a client.
`Asserts` and `DEBUG` are the build: assertions, and the marks left in freed cells and in popped
entries of the stack. `Abort` is a failed assertion, after which nothing happens. A client is
disciplined, using the keys it has, or not, using any key it ever got and `ERROR`. Undisciplined
clients without assertions are excluded by `ResponsibilityAssumption`: the header says that the checks
are then theirs, and the behaviour is undefined. `holds`, `knows` and `stored` are history variables.

`LockerPool` is the abstract specification: a set of keys held by each client. It leaves open what
an unset cell reads. `Pool` maps its `cargo` to `stored`.

### Log manager

`LogMan` models threads step by step. `instance` is the static local that holds the one `LogMan`,
with the wait that C++ prescribes for a thread that finds its construction running. `lock` to
`unlock` is `Initializer::init`, entered by an explicit `init()` and by the constructor; each of its
statements that other threads could observe is an action. `check_severity` and `write` are what
plog's macros expand to; `set` is `__set_level` followed by its confirmation, which is another log
statement, filtered by whatever level holds then: between the two, another thread may have set
another one. A log file
may fail to open, which swallows its records and counts as initialization (`log.cc:167`). plog is
modelled here as `log.hh` uses it: a logger with a maximum severity, created once, and a list of
appenders.

`Records` is how a record becomes text: what is put into it (`put`, `printf`), strings, pointers, pairs
and containers within each other, its getters, level names, the function name taken from a signature,
the 40 characters of a location, what a line on the console shows at which level, and CSV fields.
`severityFromString` looks at the first letter only, in either case (`initial_of`).

### plog's appenders

`RollingFileAppender` has the appender's fields, and `disk`: the files by their number, each a
sequence of records and headers. A size is a number of units, so that a header has one, as a record
has. Opening and writing may fail, and each `unlink` and each `rename` of a rolling by itself: `fails` has
the numbers of the files that stay where they are, and `stuck` those of the latest step. A rename
replaces a file that has the new name, as POSIX has it; where it fails instead, as on Windows, that is
one of the failures. A program may end or crash between any two calls and start over on the same files
with other limits (`start_over`); as each record is written at once, a crash is an end. It may also be
killed amidst rolling, after any of the renames (`killed_rolling`): those it did not come to are left as
if they had failed. `setFileName`, to the same name, reopens.

`Appenders` is a logger with a console appender and a `DynamicAppender` over such appenders, which
several threads write through while others add and remove. Each console appender locks its own mutex
and sets the colour, writes and resets it in three steps. The colour is that of the stream
(`std::cout` or `std::cerr`), which several appenders may have (`m_outputStream`), each with a mutex of
its own: `ColoursRight` is about streams with one appender, and `PlainAtRest` about all. What one terminal
makes of both streams is left out, and that the reset sequence on `std::cout` is not flushed
(`ColorConsoleAppender.h:98`): the colour is what the text of a stream asks for.

### Debug log

`DbgLog` models a statement as the life of its temporary: the constructors lock the mutex (and open a
named file), each item goes through `streamer`, the destructor ends the line, closes another file than
the wanted one, if one is open, and unlocks. `streamer` is the function of that name with its two
static locals, `filename` and `is_open`. Opening may fail at any time.

`LineLog` is the abstract specification: files that grow by whole lines, each written at once, some
time between the begin and the end of its statement, and after the lines of its thread's earlier
statements. Only once a file could not be opened may a line lack parts, and what is left of it is in order.
`Log` maps a file of `DbgLog` to what has ended in it: the parts of a line that is still being written,
which are at the end of one file, are hidden, and shown when the destructor ends the line.

### Tracing

`DbgTrace` is one thread's program of statements and scopes: `frames` is what is open, innermost last.
A statement is the life of its temporary, which flushes the shared buffer when it dies; while it is
open, its operands may do anything, other statements, scopes, switches and exceptions included.
`instance` is the live or the silent output, chosen anew at every use by the count `enabled`. An
exception unwinds frame by frame, as the destructors run; it is caught between any two of them or by
nobody. A backtrace is printed by an assertion, by an exception of `DBGTHROW`, by `DBGABORT`, and at
the exit. `printed` and `traced` are what the latest step printed. `switched` and `overrun` record
that an operand switched the output, and that scopes were deeper than `MAXNESTLEVEL`: the two
circumstances under which the promises are weaker, as the code is written. Whether a C string is quoted
(`quotes`) is read from the instance that the statement began on: only the live one is ever told to
(`DBG.hh:818`), so that dumps begun while the output was disabled are not. A level of `MAXNESTLEVEL` is
reached, and the end of the indentation is then written one byte after `indent` (`DBG.hh:1110`).

### Clocks

`TickClocks` models a tick counter (`source`) and clocks chained to it, each with the size of its
type and the factor of its transformation. A clock may be chained to a chained clock. `t_` is each
clock's own count; only the source's is read by `now()`. A transformation is computed in an int if it
reads a type with fewer values than `IntValues`, and wraps in the type it reads otherwise
(`transformed`). One client measures at a time, while anybody reads
or advances any clock; `age` is the true time that passed. Arguments of `advance` are not negative.

`ModelClock` models `model_clock` with the arithmetic of a binary floating-point type of `Precision`
bits: `Round` is the rounding of the addition to nearest, ties to even. The unit is the least positive
number of the type, of which a chronon (its epsilon) is 2^`Fine`, so that `advance` may be given
fractions of a chronon, too; `whole` records that it was not. `pow2` is a function (of `Powers`), and
not the operator of `Integers`, so that it can be reasoned about.

### Test runner

`TestRunner` has the counters of each batch and of the thread. A case that is run is two steps,
`run` (up to the call of the subject) and `subject_ends`, since a subject may use, create and destroy
other batches, and may throw. `summary` is the verdict last printed for a batch. `happened` is the
history the counters are compared with. The wording of the output is left out.

### Small state machines

- `Counters`: a plain, a capped and a guarded counter receive the same calls. `total` is what a number
  without limits would be.
- `Toggles`: `calls` are the calls of `set()` whose callback is running; a callback may make another.
- `Stats`: the collector of totals and extremes, the rolling average, which is a window and a running
  sum, and the two smoothed averages, fed with the same samples, over exact numbers: samples are even, and
  what is smoothed is scaled by 2^`MaxSamples`, which bounds their number, so that halving is exact.
- `Files`: objects that own or borrow C streams, created and destroyed in any order.
- `Streams`: `statements` are open statements, with the objects that each holds until its end; `flags_`
  is the stream's. The library's streams and the standard ones differ in who sets the flags. `Hex()` and
  `Dec()` restore them on the library's streams (`OwnStreamsRestored`); `Hex(x)` and `Dec(x)` do not
  (`ValuesLeaveTheirMark`).
- `Errors`: `errno`, what was logged and what was shown. The output may fail, too, and set `errno`. What
  failed last, and whether it is still to be told, is a history of its own (`latest`, `untold`), which
  `errno` is compared with.
- `Vectors`: writing to a stream and reading back, several vectors one after the other, with any
  brackets and separators that the header allows, and with the flags that a read leaves on the stream
  (`skipws`, `eofbit`, `failbit`); and, in one step without state, arithmetic between
  integer and floating-point vectors. The latter is scaled by 4, to have the halves and quarters that
  rounding and products need.

### Computations

`MemDump` (and plog's `HexDump`), `SemVer`, `Strings`, `Paths` and `Records` have no steps. Their
variables are an input, chosen at the start; the operators are the code's functions, and the
properties compare them with what they should compute, stated without their algorithm: a column
computed from a byte's index, a version of the grammar in the header, a path taken apart and joined.
In a dump, an empty separator or glyph is appended as its null character and whatever follows it in
memory (`Units`), as the loop of `append` tests its condition last. The numbers of a version are those
of `strtoul` (`UnsignedLong`), of which `sscanf` keeps what fits in an `unsigned`.
Characters are classes (a digit, a letter, a quote); the recursion and loops of the code are folds
and recursive functions (`printed`, which follows the type of nested data, is a recursive operator).

`MCParts` puts these, the small state machines, `ModelClock` and plog's appenders side by side. They
share no state, so a behaviour is one part's, and the others rest: the states are the sum of the
parts', not their product.

## 4. Runs

| Run | Config | Shows |
|---|---|---|
| `ring_buffer` | `RingBuffer.cfg` | indices and count agree, `find` sees exactly the live elements, refinement of `BoundedDeque` |
| `lockers_disciplined` | `LockersDisciplined.cfg` | exclusive use, no leak, contents kept, no assertion fails, refinement of `LockerPool` |
| `lockers_sloppy` | `LockersSloppy.cfg` | with assertions, the stack survives clients that misuse keys (the program may stop: deadlock is not checked) |
| `log_man` | `LogMan.cfg` | one initialization, complete before use and reported first; the first configuration stays; calls return |
| `dbg_log` | `DbgLog.cfg` | lines not mixed, each whole and in its file, refinement of `LineLog`; statements end |
| `dbg_trace` | `DbgTrace.cfg` | buffers, indentation, quoting and backtraces follow the program through nested statements, exceptions and switches |
| `tick_chains` | `TickChains.cfg` | spans shorter than a cycle are right for clocks not wider than what they read |
| `test_runner` | `TestRunner.cfg` | counters and grand totals tell what happened, the assertion in `report` holds, `Stop_On_Failure` stops |
| `parts` | `Parts.cfg` | one property per small part, see below |
| `tick_widening` | `TickWidening.cfg` | *violated*: spans of a clock wider than what it reads |
| `model_clock_strict` | `ModelClockStrict.cfg` | *violated*: every `now()` advances |
| `vectors_read_back` | `VectorsReadBack.cfg` | *violated*: a vector of four dimensions reads back |

The properties of `parts`: guarded counters tell each overflow once, and caps hold (`CountersTell`);
averages are those of the samples in question (`StatsTell`); the floating-point clock is exact below
2.0 if it is advanced by whole chronons, moves with each `now()` below 2.0, and never goes back
(`TimeIsKept`); C streams are open while owned (`OpenWhileOwned`); callbacks
and callers of a toggle are told the same (`TogglesTell`); manipulators have their effect and leave
behind what is told of them (`FlagsKept`); a file error report tells the latest failure that was not told
yet, and nothing ends untold (`ErrorsTold`); vectors of three dimensions read back, and
their operators agree (`VectorsKept`); rolling files keep order, headers and all but the oldest
and what a failed rename costs (`RollingKept`); appenders are used while they exist, colours are right
where they can be and end, and threads do not wait in a circle (`AppendersShared`); dumps, versions, strings,
paths and records as computations (`DumpIsComplete`, `VersionsUnderstood`, `StringsKept`, `PathsKept`,
`RecordsKept`).

Each property of a passing run is checked to notice a plausible fault: the definitions whose names end
in what is wrong with them (`push_back_keeping`, `lock_unwaiting`, ...) replace the original one by
one, and the property then fails. They are used nowhere else.

### Bounds

- Ring buffer: three slots, so that a slot exists between the two where an index wraps; two values,
  so that order and staleness show. All call sequences, without a bound on their length.
- Lockers: three cells, two clients, two cargoes. All call sequences. Two clients suffice for a key to
  be taken by the other one; the theorems cover the rest.
- Log manager: two threads with two calls each: one that races to initialize and one after it. Levels
  on both sides of `notice`, the level of the report.
- Debug log: two threads, two files, two statements each, so that a file switch occurs before, between
  and after the other thread's statements. Two items and the end of line per statement.
- Tracing: three statements and scopes within each other, so that one is closed inside another and
  outside a third; `MAXNESTLEVEL` of 2, one level less than what may be open; one item per statement
  before and after its operands; one superfluous `DBG_DISABLE`. Programs have no bounded length.
  Statement names are symmetric. The view leaves out `printed` and `traced`: no action reads them, they
  appear in action properties only, and TLC evaluates those on every step it generates, also on steps
  to a state seen before.
- Tick clocks: types of 2 to 4 bits and an int of 4; one product wraps, the others are promoted; a
  measurement may last longer than any of their cycles.
- Model clock: 4 bits, a chronon of four units, and time up to 4.0 and more: below a chronon, below 1.0,
  and up to two increases of the distance between representable numbers beyond 2.0. Advances by
  fractions of a chronon, by whole ones, and by numbers that are both.
- Test runner: two batches with two calls between resets: a failure and what comes after it.
- Counters: a type of three values, up to four counts beyond: more than a cycle. Toggles: two callbacks
  within a call. Averages: a window of two, twice its length of samples, of both signs.
- Files: three objects for two streams, so that one is handed on and reused. Streams: two statements,
  two manipulators in each. Vectors: three dimensions, two vectors in a stream, nineteen forms of
  brackets and separators.
- Rolling files: up to three of them, three records, one restart, kill or reopening. The program may also
  roll them itself, so that the oldest is lost; limits change at any time; any of the files there are
  fail to move.
- Appenders: two threads, two appenders, on one stream or on two, one stream of which is a terminal,
  two writes.
- Computations: all inputs of up to four to six characters or elements, and longer ones where a limit is
  to be passed (`SomeTexts`, `SomeWords`); the limits of the code (of a location, a message, a tag) are
  constants and small. Dumps have line lengths up to seven bytes, with groups that divide them and
  groups that do not; those with empty separators and glyphs, and with parts of the view turned off, two
  and five. An `unsigned long` has four times the values of an `unsigned`, so that a number may exceed
  either. Containers have up to two items, which may be containers of texts.

### Fairness

Only `LogMan` and `DbgLog` state liveness. `WF` of each thread's steps says that a thread that can run
is run eventually, which every scheduler these programs run under provides. It is not assumed that a
thread ever makes a call, nor that a mutex is fair: with finitely many calls, none is needed. Threads
stop when they have made their calls, so that deadlock is not checked in these runs; the liveness
property says that none stops inside a call. For `Appenders`, which takes three kinds of mutexes one
in another, `SomeoneProceeds` says in its place that threads never wait in a circle.

## 5. Theorems

The proofs assume nothing but the named assumptions on the constants. The type invariants of the
modules that have proofs are proved and not run; those of the others are part of a run's property.

`Inductions` holds what the other proofs need of induction. The library's induction theorems have
operators as parameters and cannot be instantiated here, but their first-order instances can be
proved. `NaturalsFrom` says that a set that has 0, and the successor of each of its numbers, has all
numbers; it follows from the pigeonhole theorem of `FiniteSetTheorems`. On it rest `NatRecursion` and
`SetRecursion`, that an equation over numbers, or over the subsets of a finite set, has a solution,
which is what the recursive functions and the folds of the community modules choose; that a sum over
a set is what its elements add up to in any order (`Total...`); and `Extremes`, that a set of numbers
up to *n* has a greatest and a least one.

`RingBufferProofs`, for every capacity above 0 and any values:

- `RingSafety`: `TypeInv` and `CountMatchesIndices` always hold. Their conjunction is inductive: the
  write position being `count` slots after the read position is what makes each index stay in range
  and each pop at the back return the newest element.
- `FindIsExact`: `find` is true of the elements, and of nothing that an earlier element left in its
  slot. `walk` is followed by induction: after *k* rounds it is at the position of the element *k*
  back, so that the loop has visited the positions of all elements, and no other, when it stops.
- `RingImplementsDeque`: the refinement. `contents` is defined through `pos`, the position of the
  *k*-th element; lemmas about `pos` say how it moves with `i_inc` and `i_dec` and that distinct
  elements have distinct positions, so that a write at `next` changes no live element.

`LockersProofs`, for every number of cells, clients and cargoes:

- `StackSafety`: `TypeInv` and `FreeKeysDistinct`, under the assumption of the module that clients are
  disciplined or assertions are compiled in. Neither is inductive alone: a key that is returned must
  not be on the stack already, which the assertions check, or which follows from `FreeOrHeld` if the
  client is disciplined. The inductive invariant `IInv` therefore adds, for disciplined clients, the
  four parts of the next two theorems.
- `OneOwner` and `OwnersUndisturbed`: with disciplined clients, `EachKeyOnce` and `HoldersUndisturbed`.
  That the stack has room when a key is returned is a counting argument: it holds distinct keys, and the
  returned one is not among them.
- `LockersImplementPool`: the refinement of `LockerPool`.

`LogManProofs`, for any number of threads, calls and levels: `OneInitialization`, `ReadyWhenUsed`,
`ReportIsFirst`, `ConfiguredOnce`. None of these is inductive: a thread before the test of
`initialized` may or may not initialize. The invariant ties each thread's place to its call (`Roles`),
says that whoever uses the instance finds a complete logger (`Ready`), what the logger looks like at
each statement of the initializer, which only the holder of the mutex is in (`Stages`), and that the
records after it begin with the report (`Reported`).

`DbgLogProofs`, for any number of threads, files and statements: `NothingGarbled`, `LinesAreWhole`
(from `OneFilePerLine` and `NothingMissing`), and `DbgLogImplementsLineLog`. The invariant ties the
program counters to the mutex, and says that the parts of the open line are the end of the file of the
statement that holds it, and of no other. The refinement rests on it: what is hidden of a file is its
end (`EndedSplits`); a construction, an item or a close changes nothing that is shown, wherever it
switches the stream to (`ConstructShows`, `PutShows`, `CloseShows`); and the end of a line shows, in one
file, the parts of that statement, in order, all three unless an opening failed, behind what was shown
before (`EndShows`).

`TestRunnerProofs`, for any number of batches and cases: `AssertionNeverFails`, `StopsOnFailure`, and
`ReportsAreTrue`: the totals are those of what happened, and a batch that is gone has told its
failures. The totals of the thread are a sum over the living batches and what the others left, which
changes by what one step changes; that it does is proved by induction over the set of batches.
Subjects that throw leave the batches around them in the middle of a case; the invariant says that a
batch stands at most once among the running ones, and that each counter is the sum of what is counted.

`PartsProofs`: `CountersCorrect` for every unsigned type, `FilesCorrect` for any number of objects and
streams, `TogglesCorrect` for any depth of callbacks, `ErrorsCorrect` for any messages and errors. The
counters need their congruence to `total` modulo the cycle. The owner of a stream is unique because
`fopen` returns one that is not open. Of errors, the invariant (`ErrnoIsLatest`) is that `errno` is the
latest failure until it is told, and 0 then: it rests on the reset that precedes the report's own
output.

`PartsProofs` also has `SharedWithoutHarm`, for any number of threads, appenders and streams, whichever
appenders share one. A thread's place tells which mutexes it holds (`MutexesHeld`), so that what it
iterates over is still in the list (`AppendersPresent`). A colour on a stream is the work of a thread
between its setting and its resetting, and if the stream has one appender, of the one thread that has
its mutex (`ColoursShown`). That someone proceeds follows from `MutexesHeld` by the order in which the
mutexes are taken.

`LogFilesKept`, in the same module, for any limits, any number of restarts and kills, and unlinking,
renaming and opening that fail one by one at any time. What is proved inductive is `RollingInv`: the
files as they are ordered (`Filed`), and the size, which is that of file 0 as long as it is open
(`SizeIsCurrent`). `Ready` is the same of the intermediate states inside a write, which may roll and
then open: each of the operators a write is made of is shown to lead from such a state to another.
`rolled` renames from the last file down, in a fold, and what it does, for any set of failures, is
proved by induction on the number of renamings: `Moving` tells which numbers are taken after *k* of
them, by a file that came from the number below or by one that stayed. That only the oldest is lost, and
what failed to make room, is an action property, proved of the whole write (`Keeps`): what is not rolled
only gets longer (`Grown`), and what is rolled is found one number higher.

`SpansCorrect`, in the same module, for chains of any number of clocks, of types of any size. Its
hypothesis is `NoneWider`: the number of values of each clock's type divides that of the type its
reading is computed in (an int scaled by the factor, or the type of what it reads). Types have 2^w
values, so that this says that no clock is wider than what it reads; the chain of `tick_chains` is
like that, and that of `tick_widening`, which measures wrongly, is not. Counts are compared by
congruence (`Congruent`): that a reading moves by `scale` for every step of the source is carried down
the chain, from each clock to those that read it, by induction on the depth (`ChainInduction`), and so
is that a cycle of the source is a number of whole cycles of each clock. The invariant (`Measuring`)
says that the source has moved by `age` since the time point was taken.

`TimeIsTold`, in the same module, for a floating-point type of any precision and any reads and advances. A
number is representable if its ulp divides it. Numbers that are not smaller have ulps that are not
smaller (`ExponentsGrow`), and what a number is rounded to is representable (`RoundedFits`: it may be
the next power of two, whose ulp is twice as large). So a representable time is a multiple of the
sum's ulp, or is below all the numbers with that ulp, and rounding the sum does not pass it
(`NeverBelow`). Below 2.0 the ulp is a chronon at most, so that whole chronons are not rounded, and the sum
with a chronon is a number above the time (`NowAdvances`).

`StatisticsTold`, in the same module, for samples of any size and number, windows of any length, and
resets at any time. A total is a fold; it is the last of the partial sums (`PartialSums`, by
induction), so that it grows by what is appended, and that of the window, which moves, by the
difference of two samples (`WindowMore`). The invariant says which slot has which sample (`Rolled`); that
the extremes kept by the collector are those of the samples and the value they start with, which drops
out with the first sample unless the type has no negative start (`Collects`, `CollectorTold`); and,
of the smoothed averages (`Averages`), that a factor of two is left in them for each sample to come, by
which they can be halved exactly, that their distance is that of their starts, halved as often, and
that each bound of the samples bounds them (`Within`).

`PathsAreKept`, in the same module, for prefixes and paths of any length; `Paths` has no steps, so this is
about its operators. What repeated slashes come to is a fold; it is the last of the sequences it makes on
its way (`PathSimplified`, `SimpleIsSimplified`), so that what is appended does not tell apart two paths
that come to the same (`SimpleTogether`), and that a run of slashes comes to one is an induction on its
length (`SlashesMerge`). A path is taken apart at its last slash and at the last character before the
slashes there (`Parted`), and a name at its last dot (`Dotted`); each of these places is unique (`PartedAt`,
`SplitAt`), so that it suffices to show where they are in what is put together. A number inserted behind a
dot (`Numbered`) moves what follows by two characters: the last dot is found two further on, with the
same extension after it, and the last slash where it was, if it is before the dot.

`FlagsAreKept`, in the same module, for any number of nested statements and copies. What the
`StreamRef`s of a statement reset at its end is a fold; `Resets` says by induction what it leaves: on the
library's streams, what the first of them saved, on standard ones, all that any of them saved. The
invariant says that the first one has the flags from before its manipulator, or those that a `Hex(x)`
had set (`Saves`), and that a
stream which was not hexadecimal when a statement began still has, or will get back from an open
`StreamRef`, a base beside it (`DueAll`).

`DbgTraceProofs`, for any statements, functions and nesting:

- `OutputIsOrderly`. The inductive invariant says of the open frames that a statement is open once
  (`Distinct`); that unless an operand switches, all statements are on the instance of the moment and
  the other one's buffer is empty (`OneInstance`), so that the end of a statement flushes what it left;
  that the common setting for quoting is the one of each statement that no operand disturbed, and that
  only dumps begun on the live instance have been quoted (`Quoting`); and that the call stack lists the
  open scopes with their levels (`Levels`), which after an overrun are not theirs any more. The call
  stack is compared with the frames through
  `ScopesIn`, a recursive function over the frames; the provers know nothing of `SelectSeq`.
- `LinesAreUnmixed`, `NothingIsLost`, `DisabledIsSilent`: what a step prints, by the operator that
  prints it, from the same invariant. Disabled output is silent but for the end of a statement that
  began before an operand disabled it: it flushes the live buffer. `Told` says of a state of the buffers
  that what was in the live one is in it or in the lines, and each of `raw_line`, `flush`, `Tracer` and
  `backtrace` keeps it.
- `ScopesAreShown`: a backtrace has a line for each open scope. `backtrace` is a fold, and `Listing` says
  of the lines after *n* of its steps that they end with the last *n* scopes.

Model-checked only, and why:

- Liveness (`EveryCallReturns`, `EveryStatementEnds`) needs fairness, which the provers do not know.
- `VectorsKept`: a small machine over texts, most of whose content is the conversion in a single step.
- `DumpIsComplete`, `VersionsUnderstood`, `StringsKept`, `RecordsKept` are about computations on sequences
  without steps. Their cases are many and shallow, and bounded inputs reach all of them.

## 6. Findings

The three violated runs, each a disagreement of the code with what its comments or tests say:

- `model_clock_strict`: from 2.0 on, adding epsilon rounds back to the same number, and `now()` returns
  it for ever. One `advance(10.0)` of a `model_clock<double>` is enough.
- `tick_widening`: `tick_clock<unsigned>` chained to a `tick_clock<unsigned short>` measures wrongly
  across a wraparound of the source, although the interval is far below its own cycle.
- `vectors_read_back`: `set(3, val)` of a vector of four dimensions assigns `z` (`data.hpp:174`), so that
  reading one stores the fourth coordinate in the third.

Other things noticed in reading, for which there is no run. Containers and log: `lockers` does not
destruct the content of a returned cell (`lockers.hh:31-32` says it does) and its assertions cannot
catch a key that is used after another client got the cell (`lockers.hh:87-88`);
`SZ_LOG_USE_DEFAULT_LEVEL` (`log.hh:12`) has no effect on the implicit initialization of a build
without `NDEBUG`.

Debug log and tracing: a `DBGLOG` statement leaves its file open (`DBG.hh:1254` says it closes it); a
`DBGLOGX` moves the file of all later `DBGLOG` statements (`DBG.hh:61-62` describes it as an exception
for one). Nested statements share a line; `DBG_` of a literal inside another statement drops the text
before it, and of a variable of type `const char*` prints the label only (`DBG.hh:46`); a nested `DBG`
ends the quoting of the `DBGDUMP` around it; a `DBGDUMP` begun while the output is disabled is not quoted,
and sets the live instance to quoting all the same. The terminate handler is not installed where the runtime
has one already (`DBG.hh:16-17`). At `MAXNESTLEVEL` the terminating zero of `indent` is written one
past its end. A backtrace of no scopes does not end the state that suppresses a second one. With
`DBG_OFF`, `DBGTHROW` does not throw and `DBGABORT` does not abort (`DBG.hh:130-132`).

Clocks and counters: a span of exactly one cycle is measured as 0 (`time.hh:35` includes it,
`time.hh:41` does not). The prefix and postfix operators of the counters are each other's
(`counter.hh:30-33`; its test relies on it); assigning to a capped counter bypasses the cap
(`counter.hh:57-58`). A maximum over floating-point samples starts at the smallest positive number, and
a NaN primes the smooth average again.

Test runner: a batch reported in the middle tells nothing of its later failures when it goes
(`runner.hh:480`); a throwing case counts as run and not as failed (`runner.hh:194`); a `skip()` after a
failure under `Stop_On_Failure` counts as implicit (`runner.hh:193`).

Streams, files and errors: manipulators on standard streams add flags and remove none, so that
hexadecimal output may be left on; on the library's own, `Hex(x)` and `Dec(x)` leave `showbase` or `dec`
behind, as the `StreamRef` they return has saved what they had set ("it still works with copying, too",
`streams.hh:170-172`, holds for `Hex()` and `Dec()`); the `operator bool` of `file.hh:27` tests `eof()`
inverted, unlike its copy in `DBG.hh:434`. `endslash_fixup` takes a trailing backslash for a separator
on Unix, too (`fs.hh:57`). The exception of `FATAL` carries neither message nor location, and the
location of a file error is that of the reporting function; an error that comes of writing a report is
told by the next report, as its own. The copy assignment of `ToggleAction` skips its callback; the free
`toggle()` returns what was asked for, the member what became of it.

Strings and versions: `escape_chars` has `||` in the argument of `strchr` (`str.hh:75`); `to_bool` takes
"disabled" for false, but "dis" (`to_bool.hh:59`) and ".0" for true. A version without a patch number
leaves major and minor set although it is not one, and the form that is printed is not parsed. "1.2.3 ",
with a blank as the separator of an empty tag, is not a version, although `semver.cc:48-51` lists it as
one. A tag of one character more than `Tag_Max_Size` is accepted by `sscanf`, which puts its null
character one byte after `v.tag` (`semver.cc:107-111`). In a memory dump, a glyph that does not fit is
written one unit beyond the buffer, an empty separator or glyph ends the line's text and is read beyond
its own end (`mem_dump.hh:116`), the statistics count no zeros if the hex view is turned off
(`mem_dump.hh:167-171`), and lines of no bytes never end.

Vectors: after reading two bracketed vectors separated by blanks the second fails, as skipping white
space stays off (`ios.hpp:131`); without a closing bracket, reading the last vector of a stream sets
`eofbit`, and the stream takes no further ones (`ios.hpp:141`); an integer vector `+=` a floating-point
one rounds differently from `+`.

plog: the size of a file is not checked at the first write after opening, so that a program that
writes one record per start never rolls; one failed opening silences the appender until `setFileName`;
a single rename that fails costs a file, as the next one is renamed to its name (`RollingFileAppender.h:95-98`);
console appenders that share a stream mix their colours, as each has a mutex of its own;
`rollLogFiles()` with no limit on the number of files deletes the current one, and takes no lock; files
with numbers above a lowered limit stay. The trailing dot of a log name is lost, and with it the format
chosen by it; a dot in a directory's name moves the predecessors of a file without one to another
directory. A line number of five digits is cut off after a long function name; `operator()` and
`operator<` are not found as names; a container of one empty item prints as an empty one.

## 7. Not modelled

- Formatting and wording, where no property is about them: the representation of values in `DBG_ptr`
  and of numbers as digits, `::printf`, the texts of summaries.
- Queries of the file system (`exists`, `file_size`, ...) and the pseudo-random and wall-clock sources:
  single calls of the standard library.
- Chained floating-point clocks; lengths and rotations of vectors, which need irrational numbers; the
  `dc` variant of the vectors, which is a copy kept for reference.
- plog's appenders for other systems (Android, Windows, Arduino) and its conversions of characters there.
- `lang`, `vocab`, `time/chrono.hh`, `src_loc.hh`: aliases and macros without state; the shell scripts
  of the test engine.
- Undefined behaviour that the headers leave to the user is excluded by assumption where it is named:
  misuse of `lockers` without assertions, a `DBGLOG` statement inside an operand of another, which
  locks its mutex twice, and an appender that changes the list of a `DynamicAppender` while it is being
  written to.
