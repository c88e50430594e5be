---------------------------- MODULE Application ----------------------------
(***************************************************************************)
(* bc_seek_main.c and bc_seek_output.c: one run of the program, from the   *)
(* command line to the exit code and the bytes on the output.              *)
(*                                                                         *)
(* The walk in the middle hands over matches, each once.  Where it leaves  *)
(* some out it has collected an error, seen the signal or lost a write, or *)
(* it strays and says nothing (WalkStrays).  Which walk runs decides how   *)
(* the matches reach the descriptor: the sequential walk emits them        *)
(* through the buffered writer, the parallel walk gathers them and writes  *)
(* them to the descriptor itself at the end.                               *)
(*                                                                         *)
(* A match is a pair: the number of the argument it was found from, and    *)
(* the path.  An argument given twice makes two matches of one path.  On   *)
(* the output a match is two tokens, itself and the separator.             *)
(***************************************************************************)
EXTENDS SearchSpace, CliOptions

CONSTANTS
  CommandLines,       \* the command lines to run
  Machines,           \* [logical, physical]: processors and cores
  WriterCapacity,     \* BC_SEEK_OUTPUT_BUFFER_BYTES
  EmitStackCapacity,  \* BC_SEEK_OUTPUT_EMIT_STACK_CAPACITY
  Nul, Newline,       \* the two separators
  Faults              \* which calls may fail: a subset of FaultKinds

FaultKinds ==
  {"cli_memory", "cli_store", "runtime", "context", "collector", "open", "attach",
   "walk", "silent", "write", "close"}

ASSUME ApplicationAssumption ==
  /\ WriterCapacity \in Nat
  /\ EmitStackCapacity \in Nat /\ EmitStackCapacity > PathCapacity
  /\ Faults \subseteq FaultKinds
  /\ \A l \in CommandLines : IsCommandLine(l)
  /\ \A m \in Machines : m.logical \in Nat \ {0} /\ m.physical \in 1..m.logical

VARIABLES
  line,       \* the command line
  machine,    \* the machine the program runs on
  pc,         \* where main, or the callback it is in, stands
  held,       \* the resources that are held
  state,      \* bc_seek_cli_options_t of the application state, or None
  pool,       \* bc_concurrency_config_t, None until it is filled in
  parallel,   \* the parallel walk was chosen
  todo,       \* matches the walk has not come to
  gathered,   \* tokens in the buffers of the parallel walk
  walk_ok,    \* the answer of the walk
  errors,     \* the number of collected errors
  buffer,     \* tokens in the buffered writer
  stream,     \* tokens on the output
  truncated,  \* an output file was opened with O_TRUNC
  signalled,  \* the signal handler's flag
  exit_code,  \* of the application state; of the process once pc is "done"
  handed,     \* history: the matches the walk has handed over
  strayed,    \* history: the walk has gone wrong without a word
  cut,        \* history: the walk ended early because of the signal
  lost        \* history: a write has failed

walk_vars == <<parallel, todo, gathered, walk_ok, errors, handed, strayed, cut>>
output_vars == <<buffer, stream, truncated, lost>>
vars == <<line, machine, pc, held, state, pool, walk_vars, output_vars, signalled, exit_code>>

Init ==
  /\ line \in CommandLines
  /\ machine \in Machines
  /\ pc = "memory"
  /\ held = {}
  /\ state = None
  /\ pool = None
  /\ parallel = FALSE
  /\ todo = {}
  /\ gathered = <<>>
  /\ walk_ok = TRUE
  /\ errors = 0
  /\ buffer = <<>>
  /\ stream = <<>>
  /\ truncated = FALSE
  /\ signalled = FALSE
  /\ exit_code = 0
  /\ handed = {}
  /\ strayed = FALSE
  /\ cut = FALSE
  /\ lost = FALSE

At(label) == pc = label
Goto(label) == pc' = label
MayFail(call) == call \in Faults

-----------------------------------------------------------------------------
(* main, up to the runtime. *)

CreateMemory ==
  /\ At("memory")
  /\ held' = {"cli_memory"}
  /\ Goto("store")
  /\ UNCHANGED <<line, machine, state, pool, walk_vars, output_vars, signalled, exit_code>>

CreateMemoryFails ==
  /\ At("memory") /\ MayFail("cli_memory")
  /\ exit_code' = 1
  /\ Goto("done")
  /\ UNCHANGED <<line, machine, held, state, pool, walk_vars, output_vars, signalled>>

CreateStore ==
  /\ At("store")
  /\ held' = held \cup {"cli_store"}
  /\ Goto("parse")
  /\ UNCHANGED <<line, machine, state, pool, walk_vars, output_vars, signalled, exit_code>>

(* The exits of main before there is a runtime. *)
LeaveFrom(label, code) ==
  /\ Goto(label)
  /\ exit_code' = code
  /\ UNCHANGED <<line, machine, held, state, pool, walk_vars, output_vars, signalled>>

CreateStoreFails ==
  At("store") /\ MayFail("cli_store") /\ LeaveFrom("destroy_memory", 1)

(* Help and version are printed to stdout by the library. *)
ParseAnswers ==
  /\ At("parse")
  /\ cli_parse_status(line) \in {"help_global", "help_command", "version"}
  /\ LeaveFrom("destroy_store", 0)

ParseFails ==
  At("parse") /\ cli_parse_status(line) = "error" /\ LeaveFrom("destroy_store", 2)

BindFails ==
  /\ At("parse")
  /\ cli_parse_status(line) = "ok"
  /\ bind_complaint(cli_store(line)) # None
  /\ LeaveFrom("destroy_store", 2)

Bind ==
  /\ At("parse")
  /\ cli_parse_status(line) = "ok"
  /\ bind_complaint(cli_store(line)) = None
  /\ state' = bind_options(cli_store(line), line.roots)
  /\ Goto("configure")
  /\ UNCHANGED <<line, machine, held, pool, walk_vars, output_vars, signalled, exit_code>>

(* bc_concurrency_config_t for a thread option; a zeroed one leaves the    *)
(* number of workers to the library.                                       *)
Pool(explicit, workers, oversubscribe) ==
  [worker_count_explicit |-> explicit, worker_count |-> workers,
   allow_oversubscribe |-> oversubscribe]

(* Mutant: N workers beside the main thread. *)
parallel_config_one_more(threads, m) ==
  CASE threads.mode = "mono" -> Pool(TRUE, 0, FALSE)
    [] threads.mode = "explicit" ->
         Pool(TRUE, threads.workers, threads.workers > m.physical)
    [] threads.mode = "io" -> Pool(TRUE, m.logical, TRUE)
    [] OTHER -> Pool(FALSE, 0, FALSE)

parallel_config(threads, m) ==
  CASE threads.mode = "mono" -> Pool(TRUE, 0, FALSE)
    [] threads.mode = "explicit" ->
         Pool(TRUE, IF threads.workers > 0 THEN threads.workers - 1 ELSE 0,
              threads.workers > m.physical)
    [] threads.mode = "io" ->
         Pool(TRUE, IF m.logical >= 2 THEN m.logical - 1 ELSE 0, TRUE)
    [] OTHER -> Pool(FALSE, 0, FALSE)

(* Mutant: the number of processors is not asked for. *)
NeverTooManyThreads == FALSE

TooManyThreads ==
  state.threads.mode = "explicit" /\ state.threads.workers > machine.logical

ConfigureFails == At("configure") /\ TooManyThreads /\ LeaveFrom("destroy_store", 2)

(* The configuration, and bc_runtime_create with it. *)
CreateRuntime ==
  /\ At("configure") /\ ~TooManyThreads
  /\ pool' = parallel_config(state.threads, machine)
  /\ held' = held \cup {"runtime"}
  /\ Goto("init")
  /\ UNCHANGED <<line, machine, state, walk_vars, output_vars, signalled, exit_code>>

(* Mutant: the store is forgotten on this way out. *)
CreateRuntimeFailsLeaks ==
  /\ At("configure") /\ ~TooManyThreads /\ MayFail("runtime")
  /\ LeaveFrom("destroy_memory", 1)

CreateRuntimeFails ==
  /\ At("configure") /\ ~TooManyThreads /\ MayFail("runtime")
  /\ LeaveFrom("destroy_store", 1)

-----------------------------------------------------------------------------
(* bc_seek_application_init.  bc_runtime_run calls init, run if init       *)
(* returns true, and cleanup in any case.                                  *)

ToFile == state.output.mode = "file"

AppInit ==
  /\ At("init")
  /\ held' = held \cup {"errors", "output"}
  /\ truncated' = ToFile
  /\ Goto("run")
  /\ UNCHANGED <<line, machine, state, pool, walk_vars, buffer, stream, lost, signalled, exit_code>>

(* init gives up at the memory context, the error collector, the open of   *)
(* the file, or the writer; the descriptor of a file is closed then.       *)
AppInitFails(call) ==
  /\ At("init") /\ MayFail(call)
  /\ call = "open" => ToFile
  /\ held' = IF call \in {"open", "attach"} THEN held \cup {"errors"} ELSE held
  /\ truncated' = (call = "attach" /\ ToFile)
  /\ exit_code' = 1
  /\ Goto("cleanup")
  /\ UNCHANGED <<line, machine, state, pool, walk_vars, buffer, stream, lost, signalled>>

-----------------------------------------------------------------------------
(* bc_seek_application_run. *)

RunContextFails ==
  /\ At("run") /\ MayFail("context")
  /\ exit_code' = 1
  /\ Goto("cleanup")
  /\ UNCHANGED <<line, machine, held, state, pool, walk_vars, output_vars, signalled>>

(* What bc_concurrency_effective_worker_count may answer: the workers of   *)
(* the pool, with or without the main thread.                              *)
EffectiveWorkers ==
  LET workers == IF pool.worker_count_explicit THEN pool.worker_count ELSE machine.physical - 1
  IN {workers, workers + 1}

BoundConfig(s) ==
  [options |-> s.options, roots |-> s.roots, follow_symlinks |-> s.follow_symlinks,
   one_file_system |-> s.one_file_system]

(* The paths below the arguments, and those of them the search is for. *)
Places ==
  LET roots == Roots(BoundConfig(state))
  IN {place \in (1..Len(roots)) \X BoundedPaths : place[2][1] = roots[place[1]]}
Wanted == {place \in Places : IsWanted(BoundConfig(state), place[2])}

ChooseWalk ==
  /\ At("run")
  /\ \E effective \in EffectiveWorkers :
       parallel' = (effective >= 2 /\ state.threads.mode # "mono")
  /\ todo' = Wanted
  /\ Goto("walk")
  /\ UNCHANGED <<line, machine, held, state, pool, gathered, walk_ok, errors, handed,
                 strayed, cut, output_vars, signalled, exit_code>>

(* bc_seek_output_t's separator. *)
separator == IF state.null_terminated THEN Nul ELSE Newline
Tokens(match) == <<match, separator>>

TokenSize(t) == IF t \in {Nul, Newline} THEN 1 ELSE PathLength(t[2])
Size(tokens) == FoldLeft(LAMBDA sum, t : sum + TokenSize(t), 0, tokens)

(* External, bc_core_writer: a write that does not fit sends the buffer to *)
(* the descriptor first; what is larger than the buffer goes there itself. *)
writer_write(w, tokens) ==
  IF Size(w.buffer \o tokens) <= WriterCapacity
  THEN [w EXCEPT !.buffer = @ \o tokens]
  ELSE IF Size(tokens) <= WriterCapacity
  THEN [stream |-> w.stream \o w.buffer, buffer |-> tokens]
  ELSE [stream |-> w.stream \o w.buffer \o tokens, buffer |-> <<>>]

(* Mutant: the buffer is filled without a look at its capacity. *)
output_emit_overfills(w, match) == [w EXCEPT !.buffer = @ \o Tokens(match)]

(* One write if path and separator fit on the stack, two if they do not:   *)
(* the paths of the sequential walk always fit (4097 bytes, and 4096).     *)
output_emit(w, match) ==
  IF PathLength(match[2]) + 1 <= EmitStackCapacity
  THEN writer_write(w, Tokens(match))
  ELSE writer_write(writer_write(w, <<match>>), <<separator>>)

Writer == [stream |-> stream, buffer |-> buffer]

SequentialEmit(match) ==
  /\ At("walk") /\ ~parallel /\ match \in todo
  /\ stream' = output_emit(Writer, match).stream
  /\ buffer' = output_emit(Writer, match).buffer
  /\ todo' = todo \ {match}
  /\ handed' = handed \cup {match}
  /\ UNCHANGED <<line, machine, pc, held, state, pool, parallel, gathered, walk_ok, errors,
                 strayed, cut, truncated, lost, signalled, exit_code>>

(* The descriptor refuses the buffer, of which it may have taken a part.   *)
(* The directory is not walked on; at the top of a root the walk answers   *)
(* false, further down the answer is dropped.                              *)
SequentialEmitFails(match) ==
  /\ At("walk") /\ ~parallel /\ match \in todo /\ MayFail("write")
  /\ output_emit(Writer, match).stream # stream
  /\ \E n \in 0..Len(buffer) :
       /\ stream' = stream \o SubSeq(buffer, 1, n)
       /\ buffer' = SubSeq(buffer, n + 1, Len(buffer))
  /\ lost' = TRUE
  /\ walk_ok' \in {walk_ok, FALSE}
  /\ todo' \in SUBSET (todo \ {match})
  /\ UNCHANGED <<line, machine, pc, held, state, pool, parallel, gathered, errors, handed,
                 strayed, cut, truncated, signalled, exit_code>>

ParallelGather(match) ==
  /\ At("walk") /\ parallel /\ match \in todo
  /\ gathered' = gathered \o Tokens(match)
  /\ todo' = todo \ {match}
  /\ handed' = handed \cup {match}
  /\ UNCHANGED <<line, machine, pc, held, state, pool, parallel, walk_ok, errors, strayed,
                 cut, output_vars, signalled, exit_code>>

(* A root, directory or entry fails: an error is collected, what lies      *)
(* below is left out, and the walk answers false or not.                   *)
WalkError ==
  /\ At("walk") /\ MayFail("walk") /\ errors = 0
  /\ errors' = 1
  /\ todo' \in SUBSET todo
  /\ walk_ok' \in {walk_ok, FALSE}
  /\ UNCHANGED <<line, machine, pc, held, state, pool, parallel, gathered, handed, strayed,
                 cut, output_vars, signalled, exit_code>>

(* What a walk can take for a match that is none. *)
Mistakable ==
  {place \in Places : IsChain(BoundConfig(state), place[2])} \ Wanted

(* The walk goes wrong, collects no error and answers as if it had not.    *)
(* Matches are left out: the stat of an entry fails (bc_seek_filter.c:247  *)
(* and :267, walk_sequential.c:211), the parallel walk finds no memory for *)
(* its slots (walk_parallel.c:372), has more than fit the vector (:226) or *)
(* is at a mount point (:130).  Or a fifo is taken for the file that has   *)
(* its name in the working directory (:161 and :333).  Nothing else can    *)
(* tell when this happens, so it is settled before the first match.        *)
WalkStrays ==
  /\ At("walk") /\ MayFail("silent") /\ ~strayed /\ handed = {}
  /\ todo' \in SUBSET (todo \cup Mistakable)
  /\ todo' # todo
  /\ strayed' = TRUE
  /\ UNCHANGED <<line, machine, pc, held, state, pool, parallel, gathered, walk_ok, errors,
                 handed, cut, output_vars, signalled, exit_code>>

(* The walk cannot be set up: false without an error. *)
WalkSetupFails ==
  /\ At("walk") /\ parallel /\ MayFail("walk") /\ gathered = <<>> /\ errors = 0
  /\ walk_ok' = FALSE
  /\ todo' = {}
  /\ Goto("report")
  /\ UNCHANGED <<line, machine, held, state, pool, parallel, gathered, errors, handed,
                 strayed, cut, output_vars, signalled, exit_code>>

WalkStops ==
  /\ At("walk") /\ signalled /\ todo # {}
  /\ todo' = {}
  /\ cut' = TRUE
  /\ UNCHANGED <<line, machine, pc, held, state, pool, parallel, gathered, walk_ok, errors,
                 handed, strayed, output_vars, signalled, exit_code>>

(* The walk returns; the parallel walk has flushed the writer and written  *)
(* all it has gathered.                                                    *)
WalkEnds ==
  /\ At("walk") /\ todo = {}
  /\ stream' = IF gathered # <<>> THEN stream \o buffer \o gathered ELSE stream
  /\ buffer' = IF gathered # <<>> THEN <<>> ELSE buffer
  /\ Goto("report")
  /\ UNCHANGED <<line, machine, held, state, pool, walk_vars, truncated, lost, signalled, exit_code>>

WalkWriteFails ==
  /\ At("walk") /\ todo = {} /\ gathered # <<>> /\ MayFail("write")
  /\ \E n \in 0..(Len(gathered) - 1) : stream' = stream \o SubSeq(gathered, 1, n)
  /\ lost' = TRUE
  /\ walk_ok' = FALSE
  /\ Goto("report")
  /\ UNCHANGED <<line, machine, held, state, pool, parallel, todo, gathered, errors, handed,
                 strayed, cut, buffer, truncated, signalled, exit_code>>

(* Mutant: the errors are looked at before the signal. *)
exit_code_errors_first(interrupted, ok, error_count) ==
  IF error_count > 0 THEN 1 ELSE IF interrupted THEN 130 ELSE IF ~ok THEN 1 ELSE 0

exit_code_of(interrupted, ok, error_count) ==
  IF interrupted THEN 130
  ELSE IF ~ok /\ error_count = 0 THEN 1
  ELSE IF error_count = 0 THEN 0 ELSE 1

(* Mutant: a sequential walk that failed is tried again. *)
ReportRetries ==
  /\ At("report")
  /\ exit_code' = exit_code_of(signalled, walk_ok, errors)
  /\ Goto(IF walk_ok \/ parallel THEN "cleanup" ELSE "walk")
  /\ UNCHANGED <<line, machine, held, state, pool, walk_vars, output_vars, signalled>>

(* The end of run: the signal is looked at once more, the errors are       *)
(* printed, the exit code is settled.                                      *)
Report ==
  /\ At("report")
  /\ exit_code' = exit_code_of(signalled, walk_ok, errors)
  /\ Goto("cleanup")
  /\ UNCHANGED <<line, machine, held, state, pool, walk_vars, output_vars, signalled>>

-----------------------------------------------------------------------------
(* bc_seek_application_cleanup, and the rest of main. *)

(* Mutant: close does not flush. *)
output_close_without_flush == [stream |-> stream, buffer |-> <<>>]

output_close == [stream |-> stream \o buffer, buffer |-> <<>>]

(* Without the memory context the collector is left to the runtime. *)
HeldAfterCleanup ==
  {held \ {"output", "errors"}} \cup (IF MayFail("context") THEN {held \ {"output"}} ELSE {})

(* The output is closed if it was opened. *)
Cleanup ==
  /\ At("cleanup")
  /\ stream' = IF "output" \in held THEN output_close.stream ELSE stream
  /\ buffer' = IF "output" \in held THEN output_close.buffer ELSE buffer
  /\ held' \in HeldAfterCleanup
  /\ Goto("destroy_runtime")
  /\ UNCHANGED <<line, machine, state, pool, walk_vars, truncated, lost, signalled, exit_code>>

(* The last flush fails, or the close of the file does, which may take     *)
(* away what was written before: the answer of bc_seek_output_close is     *)
(* dropped.                                                                *)
CleanupLosesOutput ==
  /\ At("cleanup") /\ "output" \in held /\ MayFail("close")
  /\ \E n \in 0..Len(stream \o buffer) :
       /\ ~ToFile => n \in Len(stream)..(Len(stream \o buffer) - 1)
       /\ stream' = SubSeq(stream \o buffer, 1, n)
  /\ buffer' = <<>>
  /\ lost' = TRUE
  /\ held' \in HeldAfterCleanup
  /\ Goto("destroy_runtime")
  /\ UNCHANGED <<line, machine, state, pool, walk_vars, truncated, signalled, exit_code>>

Release(label, resources, next) ==
  /\ At(label)
  /\ held' = held \ resources
  /\ Goto(next)
  /\ UNCHANGED <<line, machine, state, pool, walk_vars, output_vars, signalled, exit_code>>

(* Mutant: the store, where the strings of the options live, goes first. *)
DestroyRuntimeLast == Release("destroy_runtime", {"cli_store"}, "destroy_store")

(* The memory of the collector goes with the runtime's memory context. *)
DestroyRuntime == Release("destroy_runtime", {"runtime", "errors"}, "destroy_store")

DestroyStore == Release("destroy_store", {"cli_store"}, "destroy_memory")

DestroyMemory == Release("destroy_memory", {"cli_memory"}, "done")

(* SIGINT or SIGTERM, while the runtime handles them. *)
Signal ==
  /\ "runtime" \in held /\ ~signalled
  /\ signalled' = TRUE
  /\ UNCHANGED <<line, machine, pc, held, state, pool, walk_vars, output_vars, exit_code>>

Exited == At("done") /\ UNCHANGED vars

Startup ==
  \/ CreateMemory \/ CreateMemoryFails \/ CreateStore \/ CreateStoreFails
  \/ ParseAnswers \/ ParseFails \/ BindFails \/ Bind
  \/ ConfigureFails \/ CreateRuntime \/ CreateRuntimeFails

Run ==
  \/ AppInit
  \/ \E call \in {"context", "collector", "open", "attach"} : AppInitFails(call)
  \/ RunContextFails \/ ChooseWalk
  \/ \E match \in todo :
       SequentialEmit(match) \/ SequentialEmitFails(match) \/ ParallelGather(match)
  \/ WalkError \/ WalkStrays \/ WalkSetupFails \/ WalkStops \/ WalkEnds \/ WalkWriteFails \/ Report

Shutdown ==
  Cleanup \/ CleanupLosesOutput \/ DestroyRuntime \/ DestroyStore \/ DestroyMemory

Step == Startup \/ Run \/ Shutdown

Next == Step \/ Signal \/ Exited

(* The process runs on; nothing makes a signal arrive. *)
Spec == Init /\ [][Next]_vars /\ WF_vars(Step)

-----------------------------------------------------------------------------
Labels ==
  {"memory", "store", "parse", "configure", "init", "run", "walk", "report",
   "cleanup", "destroy_runtime", "destroy_store", "destroy_memory", "done"}

TokenStreams == Seq((Nat \X BoundedPaths) \cup {Nul, Newline})

Pools ==
  [worker_count_explicit : BOOLEAN, worker_count : Nat, allow_oversubscribe : BOOLEAN]

(* The variables keep their types, the buffered writer stays within its    *)
(* buffer, and the application runs only with options the filter can work  *)
(* with.                                                                   *)
TypeOK ==
  /\ line \in CommandLines
  /\ machine \in Machines
  /\ pc \in Labels
  /\ held \subseteq {"cli_memory", "cli_store", "runtime", "errors", "output"}
  /\ "runtime" \in held => BoundOptions(state.options) /\ pool \in Pools
  /\ parallel \in BOOLEAN /\ walk_ok \in BOOLEAN /\ errors \in Nat
  /\ todo \subseteq Nat \X BoundedPaths /\ handed \subseteq Nat \X BoundedPaths
  /\ {gathered, buffer, stream} \subseteq TokenStreams
  /\ Size(buffer) <= WriterCapacity
  /\ {truncated, signalled, strayed, cut, lost} \subseteq BOOLEAN
  /\ exit_code \in {0, 1, 2, 130}

(* Nothing is released while something that points into it is in use, on   *)
(* any way through main and its callbacks: the options and the predicate   *)
(* point at strings of the store, so the store outlives the runtime        *)
(* (bc_seek_main.c:265), the collector and the output live only inside it. *)
LifetimesNest ==
  /\ "cli_store" \in held => "cli_memory" \in held
  /\ "runtime" \in held => "cli_store" \in held
  /\ held \cap {"errors", "output"} # {} => "runtime" \in held
  /\ pc \in {"run", "walk", "report"} => {"errors", "output"} \subseteq held

(* Every exit of main, the nine early ones included, has released what was *)
(* held, whichever call failed.                                            *)
ReleasesAll == pc = "done" => held = {}

(* A file named by --output is emptied only for a command line that asks   *)
(* for a search and makes sense on this machine: every way to exit code 2  *)
(* comes before the open of bc_seek_output.c:37.                           *)
TruncatesOnlyForASearch ==
  truncated =>
    /\ line.request = "find" /\ Legal(line)
    /\ "threads" \in DOMAIN line.given /\ IsNumber(line.given.threads, 10) =>
         Value(line.given.threads, 10) <= machine.logical

(* The pool and the main thread together are as many threads as the        *)
(* command line asks for, never more than the machine has processors, more *)
(* than its cores only if the library was told so; one thread means the    *)
(* sequential walk (bc_seek_main.c:112, :216-237).                         *)
ThreadsFit ==
  pool # None =>
    LET threads == pool.worker_count + 1
        text == cli_store(line).threads
    IN /\ threads <= machine.logical
       /\ ~pool.allow_oversubscribe => threads <= machine.physical
       /\ IsNumber(text, 10) /\ Value(text, 10) > 0 => threads = Value(text, 10)
       /\ pool.worker_count_explicit /\ threads = 1 => ~parallel

(* Exit code 0 of a search, unless a write has failed: the output holds a  *)
(* line for every match the walk has handed over, each once, and nothing   *)
(* else, whichever walk ran and however the writer's buffer filled up; and *)
(* these are the matches the command line asks for, unless the walk has    *)
(* strayed without a word.  No failure that the walk, init or the runtime  *)
(* does tell of, and no stop, is taken for success.                        *)
Delivered ==
  pc = "done" /\ line.request = "find" /\ exit_code = 0 /\ ~lost =>
    /\ {stream[i] : i \in {k \in DOMAIN stream : k % 2 = 1}} = handed
    /\ Len(stream) = 2 * Cardinality(handed)
    /\ \A i \in DOMAIN stream : i % 2 = 0 => stream[i] = separator
    /\ ~strayed => handed = Wanted

(* "Signal handling: SIGINT / SIGTERM -> exit code 130" (CHANGELOG.md:26): *)
(* a search that a signal has cut short never ends with another code,      *)
(* whatever else has failed, and 130 is given for nothing else.            *)
StoppedIs130 ==
  pc = "done" => (cut => exit_code = 130) /\ (exit_code = 130 => signalled)

(* The program ends, whatever fails and whenever a signal arrives. *)
Terminates == <>(pc = "done")

(* "One line per match on stdout" (PLAN.md:44): a search that reports      *)
(* success has printed its matches.  Not so if the last flush fails: its   *)
(* answer is dropped after the exit code is settled (bc_seek_main.c:145).  *)
SuccessIsDelivered ==
  pc = "done" /\ line.request = "find" /\ exit_code = 0 =>
    Wanted \subseteq {stream[i] : i \in DOMAIN stream}
=============================================================================
