# bc-seek in TLA+

A TLA+ model of `bc-seek`, a `find`-like search tool: its command line, the
filter that decides on an entry, the sequential and the parallel walk and what
both promise, the output, and the application from start-up to exit code. The
modules are checked with TLC on small instances; theorems about the command
line, the filter, both walks and the application are proved with TLAPS for every
tree, search, command line, number of workers, word size and set of failures. Every
safety property that a run checks is stated by a theorem, in full or under the
hypotheses section 4 names, among them that each of the walks implements the promise
of a search.

## 1. The system

| part | source | state | operations |
|---|---|---|---|
| command line | `src/src/cli/` | option table, configuration store, the bound options | parse types, sizes, ages, modes, thread counts; bind options |
| filter | `src/src/filter/bc_seek_filter.c` | the predicate (constant during a search), the candidate | build the predicate, evaluate a candidate, stat it |
| sequential walk | `src/src/discovery/bc_seek_discovery_walk_sequential.c` | call stack of `iterate_entries`, one shared path buffer, device of the first root, stop flag | visit a root, handle an entry, descend, return, stop |
| parallel walk | `src/src/discovery/bc_seek_discovery_walk_parallel.c` | one slot per worker, a main buffer, device of the first root | handle a root, `visit`, `should_descend`, `on_error`, merge, `writev` loop |
| output | `src/src/output/bc_seek_output.c` | buffered writer, count | open, emit, flush, close |
| application | `src/src/bc_seek_main.c` | what is held (CLI memory, store, runtime, collector, output), thread configuration, exit code | start-up, init, choose a walk, run, exit code, cleanup, release |
| libraries | outside the repository (`bc-core`, `bc-io`, `bc-concurrency`, `bc-runtime`, `bc-allocators`) | worker pool, directory reader, signal flag, error collector | |

`main` binds the options, builds the predicate and runs one of the walks. A
walk calls the filter for each entry and hands accepted paths to the output (the
sequential walk at once, the parallel walk through per-worker buffers and one
`writev` loop at the end). Errors go to a collector; the signal handler sets a
flag that the walks poll. The exit code is 0 if the walk answered true and no
error was collected, 130 after a signal, 1 otherwise.

What is hard in this code:

* the lazy stat: whether a stat is needed is decided in one function, made in
  another, and relied on in four more;
* one path buffer for all levels of the recursion, cut back on every way out;
* failures that are passed on, recorded or dropped depending on where they
  happen;
* a signal between any two steps, also between the look at it and what follows;
* trees that links make endless;
* several workers, a shared queue, partial writes;
* two implementations of the same search;
* matches that stay in a buffer until after the exit code is settled;
* an early exit of `main` at every step of the start-up, each undoing by hand what
  has been done;
* numbers on the command line that are multiplied by a unit in 64-bit arithmetic,
  behind guards that have to be exact.

`PROJECT.json` lists the hazards one by one, with the properties that watch
them.

## 2. The modules

```
FileTree ── SeekFilter ─┬─ FilterCheck ── FilterProofs, MCFilterCheck
                        ├─ SearchSpace ─┬─ WalkSequential ── WalkSequentialProofs,
                        │               │                    MCWalkSequential, MCWalkCycle
             Search (INSTANCEd by) ─────┴─ WalkParallel ──── WalkParallelProofs, MCWalkParallel
SeekFilter ── FilterLemmas (used by all proofs) ── SearchLemmas (used by WalkSequentialProofs,
                                                   WalkParallelProofs, ApplicationProofs)
CliParsers ── CliOptions (with SeekFilter) ── CliCheck ── CliProofs, MCCliCheck
CliOptions + FilterLemmas ── CliLemmas (used by CliProofs, ApplicationProofs)
SearchSpace + CliOptions ── Application ── ApplicationProofs, MCApplication
```

* **FileTree** (external) is the file system as seen through `fstatat`,
  `openat` and `getdents`: inodes, directory entries with a holder and a name,
  links and their targets, devices, entries whose `d_type` is `DT_UNKNOWN`.
  The tree does not change while a search runs.
* **SeekFilter** is `bc_seek_filter.c`, one operator per function. An option
  that was not given is `None`. `filter_evaluate` returns the decision, the
  candidate as it is left behind (the walks read it afterwards) and the number
  of stat calls. `Selected` is the reference: a plain conjunction over the
  options, said of an entry.
* **FilterCheck** evaluates one candidate under one set of options.
* **SearchSpace** holds what both walks are given, and the declarative
  definition of what a search is to find (`IsWanted`, `WantedOf`): chains of
  entries from a root through directories that may be entered, that match. A path
  is a sequence of entries; `PrintedAs` is the line it is printed as, the components
  of the argument (`ArgNames`) and the names below it. The argument `r/s` and the path
  `r/s` below the argument `r` are two paths and one line. `RootsApart` says that no
  argument lies under another or is repeated.
* **Search** is the abstract promise: print only what is wanted, take nothing
  back, end, and report success only when nothing is missing.
* **WalkSequential** is the recursion as an explicit stack of frames
  `[dir, path_length, depth, todo]`. `Look` is the answer "no" of `should_stop` before
  an entry (line 162) or a root (354); from there to the end of the turn `in_turn` is
  set, and a signal that arrives is not seen before the next look. The next step handles
  the entry or root completely, up to the call or the return of `process_directory`;
  `Resume` is what the caller does after a return. The order of entries in a directory
  is arbitrary. The stat of an entry answers what the tree says or, with the fault
  `"stat"`, fails, at each of the two places where one is made (`StatAnswers`).
  `before_signal` is a history variable, the count when the signal came. The length of
  a path is counted in components, so `PathCapacity` stands for the 4096 bytes of the
  buffer.
* **WalkParallel** has the main thread (set-up, roots, merge, write loop) and the
  workers. Each call of `visit` together with `should_descend` is one step:
  the callbacks touch the worker's own slot, and the queue and the error
  collector synchronise themselves. A buffer holds two tokens per match, path
  and separator, so a record can be torn and a write can stop inside a segment.
  The merge goes over the main buffer and the slots in order and keeps each
  non-empty one while the builder has room (`collect_slot_iovec`, `Collected`).

* **CliParsers** is `bc_seek_cli_parsers.c`. A text is a sequence of characters;
  the loops are folds, in modular arithmetic. The word sizes, the units and the
  mode bits are constants. Beside it stands what a text means on unbounded integers
  (`Value`, `SizesOf`).
* **CliOptions** is `bc_seek_cli_spec.c`: the option table, what the library makes
  of it (external: `cli_parse_status`, `cli_store`), and `bind_options`, whose
  refusals are listed in the order of the code (`BindChecks`, and what each prints,
  `Complaints`). `IsCommandLine` says what the library can hand over. `Legal` is what
  a command line means, said of the options given and not of the store.
* **CliCheck** takes one command line through parsing and binding.
* **Application** is `bc_seek_main.c` with `bc_seek_output.c`: `pc` goes through
  `main` and the callbacks `bc_runtime_run` makes, `held` is the set of resources,
  and the writer has a buffer with a capacity. The walk in the middle is not stepped
  through again. It hands over matches, once each, and what it may do to them is
  what the walks do: leave some out with an error (`WalkError`), for the signal
  (`WalkStops`) or with a failed write, or go wrong and say nothing (`WalkStrays`, the
  fault `"silent"`): leave out matches, or take for one an entry that is none. The
  last stands for every such case of section 3. The options it searches with are those
  `bind_options` makes of the command line. Which walk runs decides how the matches get
  to the descriptor. A match is a pair, number of the argument and path, so an argument
  given twice is searched twice. `handed` and `strayed` are history variables: what
  the walk has handed over, and whether it went wrong silently.

Failing calls are a constant `Faults` of the walks and of the application: each kind that is in the
set may fail at any time it is made. `Signal` may happen at any time.

The definitions marked "Mutant" are plausible wrong versions of the definition
that follows them; no specification uses them. Each property has one that breaks
it.

## 3. The runs

All bounds are small, and chosen so that each case of the code happens.

| run | what it shows | states |
|---|---|---|
| `filter` | lazy evaluation = `Selected`, no leaked `STAT_REQUIRED`, at most one stat and only when needed | 725,760 |
| `walk_sequential` | the walk refines `Search`; errors carry the path of what failed; no line twice unless arguments overlap; at most one more path after a signal | 161,566 |
| `walk_cycle` | endless tree, all failures, the stat of an entry included: buffer and stack agree, recursion bounded, nothing unasked, the walk ends | 71,806 |
| `walk_parallel` | two workers refine `Search` under failing opens and writes; pool, merge and write loop end | 89,272 |
| `walk_parallel_faults` | whole lines, only wanted ones, partial writes lose nothing, counts are right, under all failures but one | 556,909 |
| `command_line` | refused exactly if it makes no sense; numbers bound to their exact values; table and binder agree | 26,033 |
| `application` | lifetimes nest, everything released, output emptied only for a search, threads fit, success means that what the walk handed over is delivered, and that it is what was asked for unless the walk strayed silently, 130 after an interruption, the program ends | 497,656 |

Bounds:

* `filter`: two or three values for each option, names that differ in case,
  depths below, at and above the limits, candidates from `getdents` (type known
  or not), from a stat, and with a failing stat.
* `MCWalkSequential`: a tree with a file, a fifo, a link to a directory, a mount
  point, a hidden and an ignored name, two entries of unknown type, a root that
  does not exist and one that is too long; eight searches, among them overlapping,
  repeated and separate arguments and a default root, and `--one-file-system` with roots on both devices in both
  orders. The path capacity 4 is one less than the deepest path.
* `MCWalkCycle`: a link to the root inside the tree, path capacity 6, so that the
  walk goes round the cycle more than once.
* `MCWalkParallel`: two workers, three slots to gather of which two fit one
  `writev`, so that both loops of `write_all_iovec` turn several times. A third
  worker adds nothing to the conflicts: workers share only the queue.

* `command_line`: `UINT64_MAX` and `UINT_MAX` 1023, `INT64_MAX` 511, modes up to
  63, days of 10 seconds, units up to 256: numbers of four digits are below, at
  and above each limit and each limit divided by a unit. Five digits per place,
  leading zeros, every sign and unit, spoilt texts; and all subsets of seven
  options with two or more values each, for the conflicts and the order of checks.
  The guards are proved for every word size (section 4).
* `application`: a tree of four entries, seventeen command lines, one of them with an
  argument given twice, machines with
  1/1, 2/1 and 4/2 processors and cores, every kind of failure, a writer that holds
  two short matches (so a search with four flushes in between and at the end).

In `Application` the process's own steps are weakly fair as a whole: it runs on until
it exits, through whatever fails. Termination of the walks is checked under
`FairSpec`: weak fairness of the thread's own steps
in which no call fails (for the parallel walk of the main thread and of each
worker). The program is not suspended for ever, and a call that may fail does not
have to: otherwise a possible failure would count as a way out of a loop that has
none. Nothing makes a signal or a failure happen. Deadlock is checked
everywhere, and only a walk that has returned may stop.

Runs that show a disagreement (each has an entry under `findings`):

| run | what happens |
|---|---|
| `write_fault_in_subdirectory` | a write that fails below the root directory is forgotten, exit code 0 |
| `mount_point_dropped` | the parallel walk drops a mount point, the sequential prints it |
| `fifo_by_basename` | a fifo matches `--type f` by its name in the working directory |
| `mtime_in_days` | `--mtime N` compares seconds with N days and does not count whole days (the trace has `--mtime 0`) |
| `output_lost_at_close` | the last flush or the close of the file fails, exit code 0 |

Known and not made a run:

* in the sequential walk, if the stat of an entry that is there fails (in a directory that may be read and
  not searched, or by an I/O error), the entry is dropped where an option needs the
  stat (`bc_seek_filter.c:247`, `:267`), and a directory of unknown `d_type`, or one
  behind a followed link, is not entered (`walk_sequential.c:211`). No error is
  collected and the exit code is 0 (`Faults` with `"stat"` violates `RefinesSearch` of
  `WalkSequential`, which `walk_sequential` and `ImplementsSearch` therefore leave out;
  `walk_cycle` has it and shows that nothing unasked is printed for it). The stat of
  a root is reported when it fails; the second one, of a root that is a fifo, socket
  or device (below), is made in the model with the tree's answer only: if it failed, a
  mistake would be avoided and nothing else changed;
* arguments that overlap, as in `bc-seek r r/s`, print the same line more than once, in
  both walks: `EmittedOnce` and `CountsMatch` are about arguments that lie apart;
* if the push of a separator fails, the next match is glued to the path
  (`Faults` with `"push"` violates `WholeLines`);
* if a worker cannot reserve its slot, the pool gives up and the exit code is 0
  (`"reserve"` violates `RefinesSearch`);
* slots beyond the 256 segments of the iovec builder are dropped (`MaxIovec = 2`
  violates `RefinesSearch`);
* an entry whose path does not fit is passed over without an error; the model makes
  the capacity part of what a search is to find;
* with `--one-file-system` the device of the first root holds for all roots. A
  second root on another device is printed, and what lies below it is left out,
  without a word by the parallel walk and with errors by the sequential one;
  conversely a mount of the first root's device below that second root is entered
  (`walk_sequential.c:126-149`, `:254-266`). `IsWanted` asks that a path stays on
  the device of its own root; the theorems about what is printed are for roots of one
  device (`RootsShareDevice`);
* a root that is a fifo, socket or device and is asked for `--type` is looked up a
  second time by its basename in the working directory (`walk_sequential.c:281-301`),
  and may be printed for what it finds there: the cause of `fifo_by_basename`, in
  both walks (`RootsNotMistaken`);
* in the parallel walk the same second look-up is made of an entry that dangles under
  `--follow-symlinks` when an option needs a stat, and a link of unknown `d_type` is
  matched as a link although links are followed (`EntriesNotMistaken`);
* with `--follow-symlinks` a link to an ancestor is walked again inside itself until
  the path capacity ends it, and each entry is printed under every such path
  (`PLAN.md:337` asks for a set of inodes; such paths count as wanted in `IsWanted`, and
  `walk_cycle` shows that the recursion is bounded and ends);
* with `--max-depth N` the sequential walk opens and reads directories at depth N,
  whose entries cannot match (`walk_sequential.c:114` refuses from N + 1 on), the
  parallel walk does not: an unreadable directory there fails only the first;
* `bc_runtime_run`'s answer is dropped: if it gave up before calling `init`, the
  zeroed exit code would be 0. What it may do is outside the repository.

## 4. The proofs

**FilterProofs.** From `OptionsAssumption` (a type option is `f`, `d` or `l`)
and `CandidatesAssumption` (stat fields that are filled in are those `fstatat`
would give):

* `EvaluationIsFinal`: `Spec => []VerdictIsFinal`. `NeedsStat` covers every
  check that can answer `STAT_REQUIRED`, and a stat made for the type serves
  the fields too.
* `EvaluationIsSelection`: `Spec => []VerdictMatchesReference`, check by check,
  then along the two places where a stat may be made.
* `StatsAreLazy`: `Spec => []StatIsLazy`. A check that has not failed without a stat
  and needs one is what makes the first of the two places ask for it.

All are invariants of one evaluation, so the induction is short and the lemmas
about the operators carry the weight.

**WalkSequentialProofs.** For every tree that satisfies `FileTreeAssumption`,
every set of searches, every capacity and every set of failures. The inductive
invariant is

    IInv == TypeOK /\ BufferFollowsStack

`TypeOK` alone is not inductive: that a new frame's directory is an inode needs
`is_directory` to be right about the entry, which needs `fstatat` with the
frame's directory and the entry's name to find that entry, which is
`BufferFollowsStack` (what is still to be read in a frame lies in the frame's
directory). `BufferFollowsStack` in turn says that the k-th frame has length k,
depth k - 1 and the directory to which the first k entries of the buffer lead;
in the loop the buffer is exactly as long as the stack. The proof has one lemma for
each way the stack moves (`ContinueKeepsShape`, `ReturnKeepsShape`,
`DescendKeepsShape`, `RootDescendKeepsShape`) and one case for each action.

* `TypeCorrect`, `BufferInvariant`: the two parts.
* `DescriptorBound`: fewer than `PathCapacity` directories are open.
* `SignalIsFinal`: `Spec => []SignalStopsOutput`, at most one path is printed after the
  signal. Not inductive: `SignalInv` adds that in a turn nothing has been printed since
  the signal, and nothing at all before the first root, which the default root is. A
  step that prints ends its turn (`StepPrintsInTurn`), and the next look sees the signal.

From there the module goes on to what the sequential walk prints. The inductive
invariant (`SearchInductive`) is

    SInv == IInv /\ Descent /\ DeviceOfRoots /\ StopIsSignal

every open directory is one the search was to look into; with `--one-file-system`
all but the first lie on the recorded device, and that is the device of a root; the
walk stops only for the signal. Each action is one of six moves (`Stays`,
`PassesRoot`, `RootDescend`, `Leaves`, `PassesEntry`, `EntersEntry`; lemma `Moves`), and
the rest is argued over the moves.

* `ErrorsCarryTheirPath`: `Spec => []ErrorsAreNamed`, no hypotheses.
* `PrintedOnce`: `Spec => []EmittedOnce`, for arguments that lie apart. Besides the
  count, what has been printed lies behind the walk: through no entry that an open
  directory has still to read (`OutputIsBehind`), so the next path is new. That
  different paths are different lines is `LinesCounted` of SearchLemmas: lines of
  arguments that part somewhere part there too, and below one argument the names in a
  directory differ. It needs each printed path to be `Linked`, every entry in the
  directory the one before it leads to (`OutputLinked`).
* `PrintsOnlyWanted`: `Spec => [](OrdinaryRoots(config) => OutputIsWanted)`. The
  verdict on an entry is the filter's (`EvaluateMeaning` of FilterLemmas), its path is
  a chain by `Descent`.
* `ImplementsSearch`: `Faults \cap {"write", "stat"} = {} => (Spec /\
  OrdinaryRoots(config) => RefinesSearch)`. While nothing has failed, each wanted path has been printed or lies
  ahead (`NothingMissed`); at the end nothing lies ahead.

`OrdinaryRoots` is `RootsShareDevice` and `RootsNotMistaken`, two of the facts of
section 3; a failing write is left out because of `write_fault_in_subdirectory`, a
failing stat of an entry because it is forgotten too (section 3). All other theorems
about the sequential walk hold with both.

**WalkParallelProofs.** For any number of workers from two, any tree, any `IOV_MAX`, every
interleaving and every partial write.

    PInv == TypeOK /\ Merging

`Merging` is the bookkeeping of `write_all_iovec`: what has been written, followed by
what is left after `remaining` tokens of the segments, is the gathered content, and
`remaining` never exceeds what the segments hold. `WriteLosesNothing` does not say the
latter, and without it the inner loop could end with a part of the count unused.
`Flatten`, `Collected` and `SumOfCounts` are recursive functions; what they compute is
shown by an induction over the set of numbers up to which the claim holds
(`FlatExists`, `FlattenDef` and what follows them).

* `ParallelInductive`, `TypeCorrect`, `NothingLost`: `PInv`, `TypeOK` and
  `WriteLosesNothing`, no hypotheses.
* `LinesAreWhole`: `"push" \notin Faults => (Spec => []WholeLines)`. Every buffer holds
  whole lines, as many as it counts (`LineBuffers`). The hypothesis is needed, see
  section 3.
* `CountsAreRight`: `"push" \notin Faults => (Spec => []CountsMatch)`. The number of
  lines: two tokens for each match counted (`LineCount`). That no path is printed twice
  needs, for arguments that lie apart, `OnceInv`: no path stands twice in the buffers, what stands in a buffer, is
  queued or is being read does not lie ahead, and no two workers read the same
  directory. A step takes the entry it handles from ahead to behind (`RootArrives`,
  `EntryArrives`) and brings nothing back (`AheadShrinks`), so what it appends is new.
  That different paths are different lines is `LinesCounted` again, with `LinkedPool` and
  `LinkedBuffers`: what is queued, read and buffered is linked, on every device.
* `ParallelPrintsOnlyWanted`: `Spec => [](Ordinary(config) => OutputIsWanted)`, under
  every failure. What the pool holds is what the search was to look into (`PoolInv`),
  so what is appended is wanted (`WantedBuffers`). After a failed push a line is two
  records glued together, and the property is about the last of them.
* `ParallelImplementsSearch`: `"reserve" \notin Faults /\ WorkerCount < MaxIovec =>
  (Spec /\ Ordinary(config) /\ NoMounts(config) => RefinesSearch)`. While the walk can
  still report success, each wanted path is in a buffer or lies ahead: its root is
  still to be handled, or it leads through a directory in the queue, or through an
  entry that a worker has still to visit (`NothingMissed`, `Ahead`). The pool ends with
  nothing ahead, the merge takes every buffer, the write loop writes all of it.

The hypotheses are the disagreements and known facts of section 3, no more:
`Ordinary` is `OrdinaryRoots`, `EntriesNotMistaken` and `PathsFit` (the pool knows no
path capacity, `IsWanted` does; a tree that followed links make endless is thereby
left out); `NoMounts` because of `mount_point_dropped`; `"reserve"` because the
answer of the pool is dropped; `WorkerCount < MaxIovec` because the builder drops what
does not fit its 256 segments (`walk_parallel.c:31`). `WalkParallelAssumption` has two
conjuncts that say only that the model's values differ: a separator is not a path,
`None` is not a job.

**CliLemmas** and **CliProofs.** From `CliParsersAssumption`, `CliOptionsAssumption`
and `LinesAssumption` (`IsCommandLine` of every line), for every word size, unit and
set of command lines.

* `AddDigitIsExact`, `AddOctalIsExact`, `ThresholdIsExact`, `AgeIsExact`: each step of
  arithmetic is refused exactly if its result does not fit, and is exact
  otherwise. The heart is the division in the guard: `a > (M - d) \div 10` says the
  same as `a * 10 + d > M` (`DigitGuard`, `ProductGuard`), and what does not exceed
  M is its own remainder (`NoWrap`).
* `ParseUnsignedIsExact`, `ParsePermIsExact`: the whole loops, for texts of any length.
  A loop is a fold, and to the provers a fold is a table over sets of indices chosen to
  meet a recursive equation. `FoldTableExists` shows that there is such a table,
  `FoldPrefixes` that it goes through the operands in their order. `Value`, the sum of
  digit times place, is the same number computed from the left (`ValueByHorner`), and
  what is too large stays so whatever follows (`TooLargeStays`). The inductions are over
  the set of prefixes for which the claim holds.
* `ParseSizeIsExact`, `ParseAgeIsExact`, `ParseThreadsIsExact`: a text reads as sign,
  number and unit in at most one way, and the parser finds that way (`SizeIsReading`).
* `AcceptedIffLegal`: for every line, the library and the fourteen checks of the binder
  together pass it exactly if it is `Legal`. `Legal` speaks of the options given, the
  checks of a store with defaults; `LookupIsGiven` connects the two.
* `TableMatchesBinding`: `Spec => []NoInternalError`. The first complaint in the
  order of the code (`ComplaintIsExternal`, by the least element of the failing
  checks) is never one of the internal ones, because the table has a default for
  what the binder takes for granted and lets only known types through
  (`OptionTable`, `StoreHas`).
* `RefusesExactly`, `BindsExactNumbers`: `Spec => []RefusedIffIllegal` and
  `Spec => []NumbersAreExact`. The invariant is `CliInv`, which says what answer of
  parser and checks each status stands for.

`CliOptionsAssumption` says, besides types, that `None` and `Invalid` are none of the
values they are told from; `CliParsersAssumption` that a word is full (`UINT_MAX` is
8k + 7), as an `unsigned int` is.

**ApplicationProofs.** For every set of command lines, machines and failures. The
inductive invariant fixes, for every label of `pc`, what is held, and says that a walk
cut short leaves `signalled` set and, from the report on, exit code 130:

    IInv == pc \in Labels /\ HeldMatchesPc /\ CutIsReported

`LifetimesNest` is not inductive: a release step keeps it only if nothing that points
into what is released is still held, which is a fact about where `main` stands. With
`HeldMatchesPc` each action is a step from one line of that table to another.

* `LifetimesAreNested`, `NothingLeaks`, `SignalIsReported`: the properties
  `LifetimesNest`, `ReleasesAll` and `StoppedIs130`.
* `SuccessDelivers`: `Spec => []Delivered`, no hypotheses. `Delivered` speaks of the end
  alone; `Delivery` says at each label what is on the way: while nothing has failed
  that is told of (`Flawless`), what is on the output, in the writer's buffer and in the
  gathered buffers lists the matches the walk has handed over, each once (`Listing`),
  and an exit code of 0 leads to the end through no other label. That the matches are
  those asked for is claimed only if the walk has not strayed: when it does is the
  business of the theorems about the walks and of section 3. Whichever way the writer
  takes, stream and buffer together grow by what was written (`WriteAppends`).
* `TruncationIsAskedFor`, `PoolFitsMachine`: `Spec => []TruncatesOnlyForASearch` and
  `Spec => []ThreadsFit`, no hypotheses. Neither is inductive: that the line makes sense
  is checked long before the file is opened, and the pool is read long after it was
  filled in. `AInv` carries both: from `configure` on the options are those bound from
  an accepted line (`Accepted`), from `init` on the threads asked for do not exceed the
  processors and the pool is the one computed from them (`Started`), and nothing sets
  either again. What `Accepted` means comes from `AcceptedIffLegal` and
  `ParseThreadsIsExact` (`ThreadsOfLine`).
* `ApplicationTypes`: `Spec => []TypeOK`, from the three invariants and the writer's
  arithmetic: no write and no failed flush leaves more in the buffer than it holds
  (`WriteFits`, `SizeOfRest`, by induction over the tokens).

Only model-checked: termination of the two walks and of the program, and the absence of
deadlock. Liveness under fairness and `ENABLED` are out of the prover's reach.

## 5. Not modelled, and what is assumed of the libraries

* The splitting of `argv` into options and their values, the conversion of the two
  integer options, help texts: the library's. A command line is what it gives for
  each option.
* The pool's own stat of an entry, which the parallel walk uses: it fails in the model
  for links that lead nowhere.
* Characters of paths: trailing slashes of arguments, two spellings of one directory
  (`r` and `./r`, whose lines differ), separators inside the
  buffer, glob matching (`fnmatch` is a parameter), the wording of messages.
* A tree that changes during the search, or between the stat of `--newer` and the
  search.
* The inside of the libraries. Memory exhaustion is the faults `reserve`,
  `bulk`, `push`, `read` and `setup` of the walks and the faults of `Application`.
* `emitted_count` of the output, which nothing reads; the walks' own counts are
  modelled.
* Tests and fuzzers.

Assumed from how the code uses them: `bc_runtime_run` calls `init`, then `run` if
`init` answered true, then `cleanup` in any case; destroying the runtime frees the
memory the collector came from; the writer passes on its buffer before it takes what
does not fit, and keeps what a failed flush did not write; the effective number of
workers may or may not count the main thread (both are tried); the library gives an
option that is absent its default from the table.

## 6. Plan

Done: filter, both walks, the promise, command line, output and application, with a
theorem for every safety property of section 3. What would come next:

1. a tree that changes during a search: `FileTree` would become a component with actions
   of its own, and `IsWanted` a statement about what was there throughout;
2. the hypotheses `NoMounts`, `RootsNotMistaken` and `EntriesNotMistaken` of the theorems
   are facts about the code: each can be dropped when its disagreement is settled.
