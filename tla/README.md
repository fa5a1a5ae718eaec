# A formal model of collab.cpp

collab.cpp is a small C++ library of utilities: crash-safe file replacement, a thread-safe
publisher, logging, versions, fixed-size strings, and a script that derives module units from the
headers. Three of its parts hold state that several threads, processes or power failures get at in
orders no test writes down: `atomic_file_writer`, `publisher` and `log`. They are modelled call by
call and lock by lock, checked with TLC and proved about with TLAPS. The parts that run on
one thread are modelled as what they compute, and checked against what they promise.

Line numbers below are those of the repository's files.

## Inventory

| Component | State | Operations | What is hard | What makes it correct |
|---|---|---|---|---|
| **atomic_file_writer** (`include/collab/atomic_file_writer.hpp`, `detail/*.posix.hpp`, `detail/*.windows.hpp`) | per object: paths, `handle_`, `committed_`, fallback flag; per process: the counter of temp names; outside: a directory, inodes, what of them is on the disk | construct, `write`, `commit`, `allow_cross_filesystem_fallback`, move construction and assignment, destruction; the free `atomic_file_write` functions are these in sequence | power failures between flush and rename, kills, errors of any call half-way through `commit()`, retries after an error, several writers and processes on one target, moved-from objects, reused temp names | the target is never torn; an acknowledged commit is not lost; every descriptor and every temp has one owner; attributes of the target are kept |
| **publisher and subscription** (`publisher.hpp`) | control block: mutex and vector of subscribers, shared with publications in flight; subscriptions: two lambdas over weak references; handlers, which may own subscriptions | `connect`, `disconnect`, `connected`, `operator()`, `subscriber_count`, both moves, both destructors | threads around the snapshot, handlers that connect, disconnect, publish or destroy the publisher, exceptions, destructors of captured subscriptions, weak references to a publisher that is gone | a publication reaches exactly the right handlers, in order; no user code under the lock; one owner per listed subscriber; nothing used after it was freed; nothing leaked; every call returns |
| **log front end** (`log.hpp`) | one process-wide mutex, level, vector of owned sinks | `set_level`, `get_level`, `add_sink`, `clear_sinks`, the per-level calls, with an identifier or without, and their format overloads, `logger<I>` | the format overloads look at the level, unlock, format, and lock again; sinks run, and are destroyed, under a non-recursive mutex; sinks and arguments throw | a message goes to all sinks at one instant at which its level admitted it, or was dropped at one that did not; every call returns |
| **log sinks** (`src/log_native.cpp`) | spdlog loggers, a counter for their names | make, write, destroy | names shared with spdlog's registry; constructors that fail half-way; a process that dies | one registration per living sink; what a returned call logged has left the process |
| **identifier** (`identifier.hpp`) | five names | `bundle_id` | nothing of its own | a line names who logged it |
| **semver** (`semver.hpp`) | none | compare, print | numeric identifiers wrap at 64 bits; `==` compares strings, `<=>` numbers, both by hand | the order is SemVer's, and an order; `==` agrees with it |
| **fixed_string** (`fixed_string.hpp`) | N + 1 characters | construction, copies, concatenation, swap, access, comparison, hash | the boundary N: ranges are cut and filled up, the terminator is never written after construction | contents and length agree; a program cannot tell it from a text |
| **codegen** (`scripts/generate.py`) | a scanner over the lines of a header: its place, the namespaces it is in, what it has found | strip bodies, list exports, list what to emit | nested braces, overloads, namespaces that are nested, reopened and joined by `::` | every declaration is kept in its place, exported if public, and emitted if its body was removed |
| error, manifest, term | none | formatting | nothing | nothing to check |
| module units, `*.decls.hpp` | generated from the headers | the same code again | nothing of their own | the codegen's |

Few of the components meet at run time. The log's front end and its sinks do, through the sinks'
interface and the mutex; they are two modules that compose, and the sinks use identifiers. manifest
holds an identifier and a semver, and does nothing with them. Otherwise there is no composed system:
the modules compose inside a component, over its environment and under its abstract specification.

`PROJECT.json` lists the hazards of this code, each at its line, with the properties that cover it
or the reason why none does.

## Modules

| Module | What it is |
|---|---|
| `FileSystem.tla` | The part of the operating system the writers call: a directory, inodes, attributes, and the set of states a crash may leave. External: modelled from how `detail/*.hpp` uses it. |
| `AtomicFileWriter.tla` | The writer objects: one action per system call of the code with the bookkeeping that follows it. |
| `AtomicFile.tla` | What a caller is promised: a register with indivisible replacements, power failures and acknowledgements. |
| `MCAtomicFileWriter.tla` | Small instances of it. |
| `AtomicFileWriterProofs.tla` | Its first theorems: types, those of the file system included, and the target is whole. |
| `RegisterProofs.tla` | Descriptors, durability, and that the writers implement `AtomicFile`. |
| `TempProofs.tla` | Temps, modes and the fallback. |
| `Publisher.tla` | A publisher, its subscriptions and the threads that use them. |
| `PubSub.tla` | What a user of the publisher is promised: multicast with indivisible joins, quits and addressing. |
| `MCPublisher.tla` | Small instances of it. |
| `PubSubProofs.tla` | Its theorems: types, no user code under the lock, delivery, ownership, reclamation, and that the publisher implements `PubSub`. |
| `SpdlogSinks.tla` | The sinks and what they share: the counter of names, spdlog's registry, the lines written and flushed. Its steps are taken by the threads of `Log`. |
| `Log.tla` | The log's front end over these sinks: the mutex, the level, the vector, the calls in progress. |
| `Journal.tla` | What the application is promised: indivisible posts to all targets, drops and failures for a reason. |
| `MCLog.tla` | A small instance of it. |
| `LogProofs.tla` | Its theorems, and that the log implements `Journal`. |
| `Semver.tla` | Versions: the code's comparisons beside those of the SemVer text. |
| `SemverProofs.tla` | Its theorems: the order is one, it is SemVer's, `==` agrees with it, and a text identifies its version. |
| `FixedString.tla`, `FixedStringProofs.tla` | Variables of fixed strings of different lengths, and theorems about them. |
| `Codegen.tla` | An author who writes a header and the scanner that reads it. |
| `CodegenProofs.tla` | Its theorems: what the tables promise of each form holds for headers of any length. |
| `MCSequential.tla` | Small instances of the last three, one explored while the others rest. |

Operators marked `Bug:` are variants of the definition that follows them. They are part of no
specification; each was checked to break the property `PROJECT.json` names for it when it takes
the place of the definition, so that no property holds for lack of anything to say.

### atomic_file_writer

*The file system.* `dir`, `data` and `attr` are what programs see; `dirDisk`, `dataDisk` and
`attrDisk` the sets of what a power failure may leave. An operation adds its result to the set, a
flush leaves the current value only. This is weaker than any journalling file system: nothing is
assumed to reach the disk unflushed, and nothing is assumed not to. A failed fsync may drop dirty
pages (`fsync_drops`), as some kernels do. Contents are abstracted to who wrote them and how many
bytes; that is enough to tell whole, short, mixed and foreign contents apart.

*The objects.* `obj[o]` is the object in storage `o`: its members and where its code stands.
`handle`, `committed`, `fallback` are the members of those names; `ses` stands for the two paths.
`counter` is the static counter of `make_temp_path`. `ses[s]` and `copied` are history: what was
asked for in a session, when it replaced the target, what the caller was told.

| Code | Actions |
|---|---|
| constructor, `open_temp` | `Construct`, `ConstructFails` (a read-only target is refused: the guard `~ ReadOnly`) |
| `write`, `atomic_file_writer_write` | `BeginWrite`, `WriteSome` (the loop of short writes), `WriteFails` |
| `commit()` | `BeginCommit`, then `SyncTemp` (fsync, close, invalidate the handle), `StatTarget`, `ChmodTemp`, `ChownTemp` (`CopyAttributes`; on Windows one call after the look at the target), `Rename`, `SyncDir`, each with its `...Fails`, the stat excepted |
| `atomic_replace`, the EXDEV branch | `RenameCrossesFilesystems`; opted in: `CopyBegins`, `CopyEnds`, `CopyFails`, `RemoveTemp` |
| destructor, moves, the setter | `Discard` in `Destroy`, `MoveConstruct`, `MoveAssign`, `SetFallback` |
| the environment | `Kill`, `Crash`, `UserChmod` |

`Posix = FALSE` is the Windows variant: a rename that writes through, refused on a read-only
target; no directory flush; one attribute word.

### publisher and subscription

Every thread has a stack of calls (`frame`, `depth`), because user code runs inside a publication
and may call anything from there, to any depth, and because a destructor may be a call too. A
frame holds the locals that matter: the strong references to subscribers (`refs`: the snapshot, or
`sp`), the one to the control block (`ctrl`), the subscription it works on (`key`). Reference
counts are not variables. Something is alive while something refers to it strongly (`Alive`,
`CtrlAlive`); `DropRef` and `DropCtrl` drop references in the order the locals are destroyed, and
the one that drops the last runs the destructor: of a handler, which destroys the subscription it
captured, which is a call of `disconnect()` on top of the stack.

A subscription is a key: a slot of the program, or `n` for the one handler `n` captured. Its value
in `token` is the subscriber that its lambdas name.

| Code | Actions |
|---|---|
| `connect` | `Connect`, `PushBack` (or `PushBackFails`, for the allocations of `:129-130` too), `UnlockPushed`, `ReturnToken` (or `ReturnTokenFails`), `ReturnConnect` |
| `disconnect` and its lambda, `~subscription` | `Disconnect`, `LockCtrl`, `LockSub`, `Erase`, `UnlockErased`, `DropRef`, `DropCtrl`, `ReturnDisconnect` |
| `connected` and its lambda | `Connected`, `LockCtrl`, `LockSub`, `Find`, `UnlockFound`, then as above |
| move construction and assignment | `Move`; onto one that holds something: `MoveAssign`, which disconnects first |
| `operator()` | `Publish`, `Snapshot` (or `SnapshotFails`: no memory for the copy), `UnlockCopied`, `Invoke`, `HandlerReturns` (or `HandlerThrows`), `EndLoop`, `DropRef`, `DropCtrl`, `Return` |
| `subscriber_count` | `Count`, `Find`, `UnlockFound`, `Return` |
| `~publisher` | `DestroyPublisher`, `DropCtrl`, `DropRef` |

The program is any that keeps to the contract: it calls anything at the bottom of a stack or
inside a handler; one subscription object is used by one call at a time (`Idle`); it does not
destroy the publisher under a `connect()` or `subscriber_count()`, which use `*this` to their end,
but may do so under a publication, which does not. Assigning an empty subscription over one
that holds something does what `disconnect()` does and has no action of its own.

`past`, and the fields `must`, `never` and `late` of a frame, are history: what the callers
have been told, so that `Delivery` can be stated from their point of view.

### log

Threads have stacks of calls again, for user code runs inside a call in three places: a formatter,
under no lock; a sink of the application, under the mutex; its destructor, under the mutex in
`clear_sinks()` and under none elsewhere. `KindOf[s]` says what class a sink is of: one of the
library's five, one of the application that may throw (`custom`), or one that also logs
(`chatty`). `life[s]` follows the owner of the object: the factory, the program, the vector, a
parameter that could not be added, nobody.

| Code | Actions |
|---|---|
| `set_level` | `SetLevel` |
| `trace` ... `critical`, `trace_with` ..., `logger<I>` | `LogString`, `LogFormat` (both by `Begin`; `logger` gives the identifier) |
| the level check of the format overloads, `fmt::format` | `CheckLevel`, `Formatted` |
| `log_message` | `LogMessage`, `WriteSink` for each sink, `EndMessage` (the end of the loop, or a throw out of it, by a sink of the application or by a file sink that puts a bundle ID together, `log_native.cpp:164`: `MayThrow`; either way the guard unlocks) |
| `make_*_sink`, `make_spdlog_pair`, `spdlog_sink_base` | `MakeSink`, `OpenLogger` (or `OpenFails`), `Construct` (or its failure after the registration) |
| `add_sink` | `AddSink` (push_back, or its failure), `DiscardSink` (the parameter that was not moved from) |
| the program lets a sink go | `ReleaseSink`, `DiscardSink` |
| `clear_sinks` | `ClearSinks`, `ClearNext` for each sink, `ClearDone` |
| `~spdlog_sink_base` | `DestroySink` |

A call that does all its work under the mutex and calls nothing is one step, taken when the mutex is free. A
sink's line and the flush it causes are one step too: they are one call of spdlog. `call` is history: the
arguments of each call, its outcome, and the levels it has seen (`seen`) while it was open. `leaked` are the
names that constructors left registered when they threw after the registration: no destructor runs for an
object that never was. They are what `RegistryOwned` excepts. `TypeOK` says of the mutex, too, that it is held
exactly while a thread writes to the sinks or clears them.

`Journal` knows no mutex, thread or logger. A message that is posted reaches the targets at one
instant, all of them unless one fails that can (`Fails`: a fallible one, or one that has to make a bundle ID of an
identifier), at a level that admits it. One that is
dropped was below the level at some instant of its call, and one whose formatting failed was
admitted at one. The mapping hides what a dispatch in progress has written (`InDispatch`): it
counts when the last sink has it, which is sound because nobody else can see a sink then, and set
the level, add or clear, without the mutex. A test of the level that was trusted after the lock was
given up (`LogMessageTrusting`) breaks it.

### semver

A string is a sequence of character codes, since what the comparisons tell apart are characters. The upper
half of `Semver.tla` is the code, line by line; the lower half is the SemVer text (grammar, sections 9 to 11),
written without looking at it: fields before fields, numbers by length first. The loops are recursive
functions of the place reached, so that they can be reasoned about. `Make` gathers versions, so that the
properties speak of any three together. `Modulus`, which is 2^64 in the code, scales the integer of a numeric
identifier down to 64: 64 and 65 overflow, and `Fits` keeps `PrecedenceIsSemVer` to what does not.
`OrderingLaws` holds for all. Versions with a leading zero are outside the grammar; for these `==` and `<=>`
disagree (`1.0.0-01`, `1.0.0-1`), which is why `EqualityAgrees` asks one direction of valid versions only.

### fixed_string

A value is its length and its storage, indexed as in the code from 0 to N. The constructors, the
concatenations and `swap` compute the storage character by character; `view` is what everything
else is made from. Construction from a range cuts what does not fit, and fills up what is missing
with NUL: it does not reject. `Textual` says that every way to build or read a fixed string is the same
operation on the text. A NUL is a character like others; a `c_str()` of such a text is shorter, as in
the code.

### codegen

An author opens and closes namespaces and writes declarations; then the scanner runs. A line is the sequence
of its tokens, a comment is one token, a string none: what `_strip_strings_and_comments` does is done. The
text of a namespace is cut at `::` and around the word detail (`Spelling`), so that the tests for a part of it
(`generate.py:106-111`, `Hidden`) see what they see in the script. Each action is one branch of the loop in
`parse()`, and one step consumes an entity from its first line to its last, as the code does. What a branch
makes of the lines that are left is its *reading*: how many of them it takes, which lines it keeps, and which
entity it finds.

| Code | Actions |
|---|---|
| a namespace opened, `namespace a::b {`, closed | `NamespaceOpen`, `NamespaceClose` |
| `template`, `struct`/`class`/`enum`, `inline constexpr` | `Template`, `Type`, `InlineConstant` |
| plain `inline`: a function, a variable, neither | `InlineFunction`, `InlineVariable`, `Refuse` |
| `using x = ...;`, a declaration, the rest | `Alias`, `FreeDeclaration`, `PassThrough` |
| `using_names`, `emit_impl` | `using_names`, `emitted` |

`DeclsArePromised`, `ExportsArePromised` and `EmissionsArePromised` compare what comes out with the tables of
`CODEGEN.md`, computed from what the author wrote and not from the text: where a body ends, which namespace an
entity is in and what its signature is are known to them without scanning. `FormsUnderstood` says the same of
each form by itself; that nothing more is needed for any header is what the theorems say.
`ExportsArePromised` leaves out what is in a namespace whose text misleads the test (`Misleading`), where the promise
is not kept: see the findings.

## What the runs check

All runs set `CHECK_DEADLOCK FALSE`, since the programs modelled stop when their calls, sessions or
declarations are used up, and since a sink that logs does stop its thread for good; that no call
gets stuck otherwise is `CallsReturn`.

| Run | Question | Result |
|---|---|---|
| `AfwCrash` | Two writers of one process, every error of a system call, failed commits retried, the target's mode changed by its owner, a kill or power failure anywhere: is the target whole (`TargetWhole`), an acknowledged commit durable (`Durable`), every descriptor one object's (`HandlesOwned`), the whole a register (`ImplementsRegister`)? | holds |
| `AfwMoves` | Moves in any order with overlapping, failed and resumed commits and a kill: does every descriptor and every temp have one owner (`HandlesOwned`, `TempsOwned`), is the mode kept (`ModeKept`)? | holds for errors before the temp is closed and of the directory's flush |
| `AfwWindows` | The Windows calls in two processes, with the owner toggling read-only | holds |
| `AfwFallback` | What the cross-filesystem fallback gives up: `FallbackWhole`, through failures and kills, and `TargetWhole` up to the first copy, with the failed commits tried again and over a restart that reuses pid and temp names | holds |
| `AfwLeak` | The same `TempsOwned` when the rename fails | **violated**, see findings |
| `AfwModeCrash` | `ModeKept` over a power failure, before or after `commit()` has returned | **violated**, see findings |
| `PubDelivery` | Every publication to exactly the right handlers, once, in order (`Delivery`); no user code under the lock (`LockInnermost`); a refinement of `PubSub` (`ImplementsPubSub`); with every exception | holds |
| `PubTokens` | Subscriptions moved, assigned over, captured, ended by their own handler, with every exception: `OwnedOnce`, `NotReentered`, `Reclaimed` | holds |
| `PubReturn` | Under fairness every call returns (`CallsReturn`) | holds |
| `PubLate` | `NoOpOnceDestroyed` | **violated**, see findings |
| `Log` | Two threads log, set the level, make, add and clear sinks; arguments, sinks and destructors log and throw: does the whole keep the promises of `Journal` (`ImplementsJournal`), is only a thread with a sink that logs ever locked out by itself (`OnlySinksLockThemselves`), does every call return (`CallsReturn`), do registrations and sinks live equally long (`RegistryOwned`), has a returned call's line left the process (`LinesOnDisk`)? | holds |
| `Sequential` | Is `<=>` the order of SemVer (`PrecedenceIsSemVer`) and an order at all (`OrderingLaws`), does `==` agree (`EqualityAgrees`), is the printed form unambiguous (`TextIdentifies`)? Do fixed strings stay `Terminated`, `Textual` and consistently compared (`ComparisonsAgree`)? Does the generator read each form as its tables have it (`FormsUnderstood`), and headers of them (`DeclsArePromised`, `ExportsArePromised`, `EmissionsArePromised`)? | holds, for the forms below |

*Bounds of the writers.* Two writers are enough for every pair of steps of two commits; a third session lets a
temp name be drawn again or an object be reused while another commits; one death falls between any two steps,
and the life after it starts over the leftovers of the first. Contents of one byte distinguish empty, partial
and complete files. `AfwMoves` has three sessions, a kill, and the errors of a write, of a flush and of the
directory's flush, which comes after the close: its object is half committed when it is moved, destroyed or
committed again. The other errors after the close are those of `AfwCrash`, where two sessions are enough for
them.

*Bounds of the publisher.* Two threads and two subscribers give every order of connecting, disconnecting and
publishing, and a list in which order matters; five calls are enough to connect two subscribers, publish, and
disconnect or publish again during that publication. `UserDepth` 2 is one level of calls out of a handler;
destructors go one deeper per subscriber (`MaxDepth`), which `DropRef` never exceeds in these runs since no
more handlers exist than that. `PubReturn` allows a third level and four calls on one slot. Larger instances
were tried once (three subscribers and five calls without `connected` and exceptions, 1.5 million states) with
the same result. `OwnedOnce` makes one exception, for a subscriber whose `connect()` failed to allocate the
token (see findings).

*Bounds of the log.* Two threads give every order of two calls. They are not alike: one is the application,
which does everything, the other a library that logs by format and makes a sink. Three sinks are two file
sinks, which draw their names from one prefix, and a chatty one of the application that also throws, in every
order they can be added in. A console sink is a file sink without its cases: nothing to open, no bundle ID,
always flushed. Two messages are one at trace with an identifier, which only the change to trace admits, and
one at level off, which is always admitted and never flushed. The level is set to trace and to off. Two
changes of the level, or two clearings, or one of each, fall between any two steps; two names let a sink be
made again after one that failed or died.

*Bounds of the sequential parts.* Three versions at a time are what transitivity is about; the 34 versions
hold every pair of kinds of identifier (empty, numeric, text, mixed, with sign characters) in equal and
different positions, leading zeros, overflow, and cores that differ in each field or are negative. Variables
of lengths 0, 1, 2 and 2 and three characters, NUL among them, reach every content of each; `Textual` joins
any two of them, so lengths up to 4. Headers have at most two declarations in at most two nested or successive
namespaces, with all pairs of the 19 forms: what one declaration consumes too much of is the next one. An
outer namespace is lib, std, detail or x::detail, an inner one inner, detail, detail::inner, detailed or
mydetail: each test of the text with names it is right and wrong about.

*Symmetry* of writers of one process, and of threads and slots, is used for invariants, for `ModeKept` and for
the refinements, whose mappings do not mention them by name; not for the liveness run.

*Fairness.* `FairSpec` assumes weak fairness of `Proceed(t)` for each thread: the scheduler runs
every thread that can go on, a handler that only runs returns or throws, and a free lock is taken
in the end. The last is not implied by weak fairness where others take the lock for ever; here
their calls are bounded (`MaxCalls`), as the contention of a real program would have to be, since
`std::shared_mutex` does not promise more. Fairness of new calls is not assumed. The `FairSpec` of the log
is the same in `Step(t)`: formatters and sinks return or throw, and `std::mutex`, which is not fair
either, is free in the end because the calls are finitely many. Its `CallsReturn` is about the executions
in which no thread has locked itself out: one that has keeps the mutex for ever, and everyone waits.

## What is proved

With TLAPS, for every value of the constants (any number of writers, processes, deaths, threads,
subscribers, sinks, messages, names, any lengths and alphabets). Assumed are the named assumptions of
the modules on their constants - bounds are natural numbers; the names of slots, subscribers, threads,
temps and their sentinels differ; the texts of namespaces are sequences of strings - and what the last
column says.

| Theorem | Property | Assuming also |
|---|---|---|
| `TypeCorrect` | `TypeOK` of the writers | |
| `TargetAlwaysWhole` | `TargetWhole` | a failed flush drops no pages |
| `HandlesAlwaysOwned` | `HandlesOwned` | |
| `AlwaysDurable` | `Durable` | a failed flush drops no pages; on POSIX, directories can be flushed |
| `RegisterImplemented` | `ImplementsRegister` | as `AlwaysDurable`, and no fallback copy: no EXDEV or nobody opted in |
| `TempsAlwaysOwned` | `TempsOwned` | POSIX; no error after the temp is closed (`Leaks`) |
| `ModeAlwaysKept` | `ModeKept` | no power failure, no chmod by the owner meanwhile |
| `FallbackAlwaysWhole` | `FallbackWhole` | one writer object, no power failure |
| `PublisherTypeCorrect` | `TypeOK` of the publisher | |
| `NoUserCodeUnderLock` | `LockInnermost` | |
| `DeliveredExactly` | `Delivery` | |
| `NeverReentered` | `NotReentered` | |
| `AlwaysOwnedOnce` | `OwnedOnce` | |
| `AlwaysReclaimed` | `Reclaimed` | |
| `PubSubImplemented` | `ImplementsPubSub` | |
| `NoOtherSelfLock` | `OnlySinksLockThemselves` | |
| `LogTypeCorrect` | `TypeOK` of the log | |
| `LinesAlwaysOnDisk` | `LinesOnDisk` | |
| `RegistryAlwaysOwned` | `RegistryOwned` | |
| `JournalImplemented` | `ImplementsJournal` | |
| `AlwaysTerminated`, `AlwaysTextual`, `ComparisonsAlwaysAgree` | `Terminated`, `Textual`, `ComparisonsAgree` | |
| `AlwaysOrdered` | `OrderingLaws` | |
| `AlwaysSemVer` | `PrecedenceIsSemVer` | |
| `AlwaysAgrees` | `EqualityAgrees` | |
| `AlwaysIdentified` | `TextIdentifies` | |
| `DeclsAlwaysPromised`, `ExportsAlwaysPromised`, `EmissionsAlwaysPromised` | `DeclsArePromised`, `ExportsArePromised`, `EmissionsArePromised` | `FormsUnderstood`, which the run checks of every form |

The assumptions in the last column are not for the proof's sake: without them the property is false. A retried flush
succeeds over pages the first one dropped. EINVAL of the directory's flush is ignored by the code, so that a
commit is acknowledged over a rename that is not on the disk. A fallback copy is torn while it lasts, which
the register knows nothing of. An error after the close leaks the temp (`AfwLeak`), and on Windows a target made
read-only in the meantime is such an error. The mode is copied after
the flush (`AfwModeCrash`) and read before the rename, so that a chmod in between is lost. Two objects that
copy at the same time may mix their bytes, and a power failure may take those of a copy, which nothing flushes.

### The writers

*TargetWhole* is not inductive: it says nothing about temps. The invariant `IInv` adds that every
temp an object still works on is linked under its own name only, in no directory a crash may leave
under the target's (`DirInv`, `TempInv`); that between the flush and the rename its content is
complete and the only one the disk may show (`PhaseInv`); that the live content is always among
the possible ones (`DiskInv`); and that what the target may be linked to is whole (`WholeInv`).
From the first, writing a temp never disturbs the target; from the second, what a rename puts
there is whole; the last is `TargetWhole`. All but the types holds only until a fallback copy
starts, hence the shape `TypeOK /\ (~ copied => Rest)`.

*HandlesOwned*: `OwnInv` says of each object what its members tell of its session (`Own`: a valid handle
is its session's and open, a committed one has none, an object past the close has none), and that no two
objects have the same session. A move hands over session and handle in one step and leaves `NoObject`.

*Durable* compares versions: each session that replaced the target has a rank. `DurInv` says that no
directory a crash may leave is older than any acknowledged session's (`AckInv`), that a commit on its way to the
flush of the directory has replaced the target or been overtaken (`SyncInv`: the flush, which leaves only the
live directory, then makes it the oldest possible), and that the content of whatever the target may be linked to
is all on the disk (`FlushedInv`). Most steps only narrow what a crash may leave of the target (`Narrows`), one
lemma for all of them.

*The register.* A `Rename` is a `Replace`, the return of `SyncDir` (on Windows of the rename) an
`Acknowledge`, a `Crash` a `PowerFailure`; every other step leaves the mapped state alone (`Still`), moves and
errors and kills included. The ranks are the versions, and without copies every possible target has exactly one.

*TempsOwned*: `HeldInv` says that each temp in the directory is one that some object holds, until the first
death.

*ModeKept*: `ModeInv` says that either no file has a mode of its owner's, for ever, or the target has one and
so have what an object remembers from its stat and each temp past its chmod (`TargetModed`). Steps of others
bring no object to these places (`Stay`); between the stat and the rename only the owner could change the
target's. That the file which is renamed is the one whose attributes were copied is `LinkedInv`: what an
object works on, from the constructor to the rename or the removal after a copy, is linked under a name its
process has drawn, and no two objects work on one name. It says nothing of contents, so that copies, dropped
pages and crashes leave it alone.

*FallbackWhole* ends with no copy, so it has an invariant apart from `IInv`. `FallInv` says that no two names
link to one file (`LinkInv`), and what the object knows of the target (`Stands`): while it holds its temp the
target's content is not of its session; after the close the temp is complete; while it copies the target is
its own, and once it removes the temp or flushes the directory, whole. A copy that fails tells the caller;
whoever tries again is refused at the flush of a closed handle, so that nothing better is ever told of that
content (`Untold`: while an object holds its temp or copies it, no failure of a copy has been told). A kill
leaves the session it ends as it was, which is untold for good if it was copying (`Abandoned`).

### The publisher

*TypeOK* needs that frames of `connect` and `disconnect` name a subscriber
(`GoodFrames`): otherwise a list could come to hold `None`.

*LockInnermost* is inductive over the types. Taking the lock and going to the place that unlocks is
one step; a thread outside of such a place does not hold it; and no call is made from one.

*The others* share one invariant, `PubInv`, because each needs what the next one says. It treats the
stacks as one table of calls. `ShapeInv`: what a frame can hold, by what it does. `MadeInv`: only
subscribers that were made are referred to. `KeyInv`: no two calls work on one subscription, and
a captured one is worked on only by its `connect`, by its own handler, or by the destructor of that
handler. `TokenInv`: no subscriber is named twice. `ListInv`: the list is in the order of joining, without
duplicates, and nobody who has left is in it. `CtrlInv`: nobody uses `*this` after `~publisher`, and
no list outlives the control block. `JoinInv`: who has joined and is not leaving is in the list, so that a
snapshot, which is taken in one instant, contains whom it must. `OwnerInv`: who is in the list is named
by somebody. `CaptureInv`: a captured subscription goes with its handler. `Delivery` is part of it. Its
frame fields `must`, `never` and `late` are bounded by the list at the moment of the snapshot (`JoinInv`, `ListInv`)
and what has been served is a prefix of that snapshot.

*The multicast.* `PushBack` is a `Join`, `Erase` a `Quit`, `Snapshot` a `Begin`, `Invoke` a `Deliver`, the
return of the handler or its exception the `Served`, and the last `DropCtrl`, which destroys the list, the
`Close`. What is due to a publication is the part of its snapshot it has not begun (`Hearings`). Nothing else
changes the list or such a part (`Unheard`).

### The log

*OnlySinksLockThemselves* says nothing of a mutex held before its owner asks for it again. `StackInv` adds
that a thread has at most two calls in progress, that it holds the mutex exactly when one of them is a
dispatch or a clear, never both, and that a call on top of such a one was made by a sink that logs
(`ThreadInv`). A step is one of six kinds, each a lemma: a call goes on (`GoesOn`), returns (`Leaves`),
takes the lock (`Locks`), unlocks it (`Unlocks`), calls user code that calls the log (`Calls`), or changes the
sinks between calls (`Between`).

*The others* rest on `LogInv`, which adds four parts to it. Calls are counted from the outermost (`Nth`), so
that one keeps its place while others come and go on top of it. `CallInv`: no message is logged by two calls
in progress, each is open, what is formatted was enabled at a level the call has seen, and what is dispatched
is enabled now - nobody sets the level without the mutex. `SinkInv`: what is being made or discarded belongs
to one call, and the vector holds each sink once. `LineInv`: a dispatch at its i-th sink has written its line
as the last of each sink before (`Written`), and a sink's last line is flushed or at level off (`Flushed`);
`LinesOnDisk` is the latter. `NameInv`: each name was drawn once, so that no two sinks, dead or leaked ones
included, share one, and what a destructor drops from the registry is nobody else's.

*The journal.* `Begin` is a `Call`; `EndMessage` is the `Post`, to the first `i - 1` sinks, all of them or those
before one that throws; the return at `CheckLevel` or `LogMessage` is a `Drop`, a formatter that throws a `Fail`,
`SetLevel` a `SetThreshold`, the successful `AddSink` an `Install`, `ClearDone` a `Clear`. Every other step changes
nothing shown. The proof of the `Post` is where the parts meet: by `StackInv` there is one dispatch at most
(`OneHolder`), so what is hidden is what `Written` says of it; by `CallInv` the message is open and enabled.

### Fixed strings

*Terminated* is nearly inductive: `Inv` adds only that the variables are those declared. Each operation
is shown to give a value of its declared shape (`FromCharsFixed`, `PlusFixed`, ...); *Textual* then
follows from the shape alone, a lemma for each operation, by comparing two sequences character by
character. For *ComparisonsAgree*, `CompareViews` is shown to find the first position at which two texts
differ (`ComparesFirst`; that there is a first one is the well-foundedness of the naturals), and the order by
such positions to be antisymmetric and transitive.

### Versions

The loops of the code are functions of the place they have reached. That such a function exists and obeys its
equations (`Recursion`), and what holds of it at each place (`OneValue`, `Upwards`), comes from the
least place at which it would fail, by the well-foundedness of the naturals.

*OrderingLaws*: both comparisons of sequences - of characters in an identifier, of identifiers in a pre-release -
are one operator, `FirstDifference`, over an ordering of their members. `ListsOrder` proves once that
this is an ordering whenever that of the members is. The identifiers' is: numbers come before text, numbers are
compared as what they are read as, wrapped or not, and texts by their characters.

*PrecedenceIsSemVer* needs that the code's numbers are the specification's. `FitsIsRead`: nothing is wrapped
where the value is less than `Modulus`, because no prefix has a larger value (`ValuesRise`). `NumbersBefore`:
among numbers without a leading zero the longer one is larger, and of two of one length the one with the first
larger digit. The rest is `ListsBefore`: the first difference is where the specification's order of fields
decides.

*EqualityAgrees*: pieces cut at the dots can be put together in one way (`SplitInjective`), and two valid
identifiers that compare equal are the same characters.

*TextIdentifies*: `to_string` is taken apart from the front. The digits of a number end where the first dot or
dash is; a pre-release of a valid version contains no plus (`ValidHasNoPlus`), nor does a number; and no two
numbers have the same digits (`NumeralInjective`, by the remainders of division by ten). `CutAt` says that two
texts that are equal, cut at the first character of a kind neither front part has, have equal parts.

### The generator

A header is any number of entries: declarations, and namespaces opened and closed. The theorems lift what is
true of each form to all headers: if every form in it is understood when it is all that is left to read
(`FormsUnderstood`), the whole is kept, exported and emitted as promised. Without that hypothesis it is false
(`Written` has four such forms, see the findings). It speaks of finitely many fixed texts, so that TLC settles
it.

`GenInv` says of a scanner at work that it has read some number of entries, and no or some lines of the next,
which it passes through line by line (`ReadUpTo`); that what it has kept, found and emitted until then is what
is promised of these entries; and that it is in the namespaces the author was in there. Three facts carry a
step. Where an entity ends is decided by its own lines: whatever follows them, the reading of lines that begin
with a form is the reading of that form (`ReadSame`; it rests on `LastLineSame`, that the first line at which
braces are balanced is found before the form ends). What is left after some entries begins with the next
(`NextIs`). And an entry is one thing only: the line of a namespace is taken by no other branch, nor is the
first line of a form by that of a namespace (`FormsHere`). At the end of the lines all entries are read
(`AllRead`). For the exports, `HiddenIs` says that the test of the text for `detail` and `std` is a test of
the names it is made of wherever the text does not mislead, and `FullNameIs` that the text a scanner puts
together is a sequence of such pieces.

### Only model-checked

* `CallsReturn` of the publisher and the log: liveness under fairness, which is beyond the prover.
* `FormsUnderstood` of the generator: what the helpers of the scanner make of the texts in `Written`, which is
  for TLC to evaluate.
* The three properties of the expected violations are false, each of its own run.

## Findings

* **A failed commit leaks its temp** (`AfwLeak`). `commit()` closes the temp and invalidates `handle_` before
  the rename (`atomic_file_writer.hpp:192`); the destructor removes the temp only while `handle_` is valid
  (`:141`). When a later step throws, the temp stays. The comment at `:17-18` promises that it is discarded.
* **The mode may be lost by a power failure** (`AfwModeCrash`). Attributes are copied after the only flush of
  the temp (`:190`, `:193`). The comment at `:35-36` promises that an overwrite preserves them; a crash once
  the rename has taken place may bring back the mode of `open()`. TLC's shortest trace has it before the flush
  of the directory; that flush does not cover the file, so that it may come after `commit()` has returned as
  well.
* **disconnect() after ~publisher is not always a no-op** (`PubLate`). It asks whether the control block lives
  (`publisher.hpp:141`), which a publication in flight keeps alive (`:165`). The comment at `:33-34` says it
  is one. Nothing unsafe follows.

Seen while modelling, without a run of their own:

* `connect()` that fails to allocate its lambdas leaves a subscriber nobody can disconnect
  (`publisher.hpp:139`); `OwnedOnce` states it as its exception.
* A fallback copy is acknowledged without a flush of the target, though `README.md:337` promises without
  exception that what `commit()` returned from is on the platter; `Durable` is conditional on no copy. A flush
  retried after one that dropped pages succeeds over lost bytes.
* Two fallback copies at once mix their bytes (`posix.hpp:124`). EPERM of `chown` and EINVAL of the directory
  flush are ignored, as the comments there say.
* A sink that logs, or whose destructor does, under `clear_sinks()`, blocks its thread and the whole log
  (`log.hpp:77`, `:69`). Nothing in the documentation says whether a sink may.
* A message at level off passes every level and is not flushed by a file sink (`log_native.cpp:159`).
* `README.md:237` expects that a message may slip through while the level changes. None does: `log_message`
  looks again under the lock; a message may only be dropped.
* A sink constructor that throws after the registration leaves its name registered (`log_native.cpp:71`).
* The generator understands the forms of `Forms` in `Sequential.cfg`, which are those its tables name.
  `Written` has four more, and with any of them TLC violates `FormsUnderstood` and the others; the script does
  the same. A default argument `= {}` (`brace`) makes a function vanish; `inline std::function<void()> cb{};`
  (`paren`) becomes `extern ... void;`; a comment behind the semicolon (`noted`) swallows what follows; of a
  body that starts with `static inline` (`static`) the lines are read as declarations, and its last brace
  closes the namespace (`generate.py:389`). `CODEGEN.md:422` says that violations of the conventions produce
  an error. No header of the repository uses these forms.
* `using_names` tests the text of a namespace (`generate.py:106`): `detail::inner`, of a `detail` in no other
  namespace, is exported, and `lib::detailed` and `lib::mydetail` are not, against `CODEGEN.md:443-445`.
  `ExportsArePromised` states them as its exception (`Misleading`); without it TLC violates it. No header of
  the repository has such a namespace.

All are in the list of hazards as far as they can go wrong.

## Not modelled, and why

* *Inside `std::shared_mutex`, `std::shared_ptr`, `std::function`, the kernel*: taken at their
  interface. A waiting writer does not block readers in the model, so the model has more
  interleavings than implementations that do; a thread never holds one lock while it waits for
  another, nor twice (`LockInnermost`), so that none of them adds a deadlock.
* *Two calls at once on one subscription object*: undefined in the code, excluded by `Idle`.
* *Two processes with the same pid on one volume* (containers): excluded, pids are distinct.
* *error, manifest, term*: no state and no operation, or formatting only.
* *The generated declarations*: the headers once more.
* *The driver of the generator* (`main`, `generate_area`): it matches paths and writes four files one after
  the other; and the text of a unit around what the header contributes.
* *Of the log*: colours, patterns, the text of a line; the order in which static objects are destroyed at exit,
  which is the program's (`log_native.cpp:74` is at its mercy).
* *Of fixed_string*: streams and formatters, which print `view()`; `front()` and `back()` of an empty one,
  which are undefined; deduction guides.
* *Locks under the log's user code*: sinks of the application that take locks of their own.

## Plan

Done, in the order of importance: the writers over the file system and their register; the
publisher and its multicast; the log over its sinks and its journal; versions, fixed strings and the
generator; the theorems of the writers, the publisher, the log, the fixed strings, the versions and the generator,
the three refinements among them.

Next:

1. The driver of the generator, if it comes to write its files less directly than now.
