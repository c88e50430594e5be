--------------------------- MODULE WalkSequential ---------------------------
(***************************************************************************)
(* bc_seek_discovery_walk_sequential.c: the single-threaded walk.          *)
(*                                                                         *)
(* The recursion of process_directory is a stack of frames, one for each   *)
(* call of iterate_entries.  All frames share one path buffer; a frame     *)
(* keeps the length the buffer has for its own directory.  A step is a     *)
(* look at the signal, the handling of one entry or root after it, or what *)
(* a call does between its return and the next look of its caller.  SIGINT *)
(* may arrive between any two steps.                                       *)
(***************************************************************************)
EXTENDS SearchSpace

CONSTANT Faults   \* which calls may fail: a subset of FaultKinds

FaultKinds == {"stat", "open", "read", "write"}

ASSUME FaultsAssumption == Faults \subseteq FaultKinds

VARIABLES
  config,          \* predicate, roots and flags of bc_seek_walk_context_t
  pc,              \* "roots", "walk", "resume" or "done"
  in_turn,         \* should_stop has answered no, and its caller is at the
                   \* entry or root it asked for
  root_index,      \* the root argument to visit next
  stack,           \* frames [dir, path_length, depth, todo]
  path_buffer,     \* the shared path, up to its terminating NUL
  returned,        \* what the call that returned last answered
  root_device,     \* None until root_device_resolved
  stop_requested,  \* the walk has seen the signal
  signalled,       \* the signal handler's flag
  before_signal,   \* history: emitted_count when the signal came
  output,          \* the paths bc_seek_output_emit accepted
  emitted_count,   \* of bc_seek_output_t
  errors,          \* [path, dir]: collected errors, with the directory or
                   \* entry that was at fault
  any_ok           \* the answer of the walk

vars == <<config, pc, in_turn, root_index, stack, path_buffer, returned,
          root_device, stop_requested, signalled, before_signal, output,
          emitted_count, errors, any_ok>>

Init ==
  /\ config \in Configs
  /\ pc = "roots"
  /\ in_turn = FALSE
  /\ root_index = 1
  /\ stack = <<>>
  /\ path_buffer = <<>>
  /\ returned = TRUE
  /\ root_device = None
  /\ stop_requested = FALSE
  /\ signalled = FALSE
  /\ before_signal = 0
  /\ output = {}
  /\ emitted_count = 0
  /\ errors = {}
  /\ any_ok = TRUE

-----------------------------------------------------------------------------
should_stop == stop_requested \/ signalled

(* Mutant: the buffer is not cut. *)
truncate_forgotten(buffer, original_length) == buffer

(* Writing at the end of the frame's own path, and cutting back to it. *)
truncate(buffer, original_length) == SubSeq(buffer, 1, original_length)
append_path(buffer, path_length, d) == Append(SubSeq(buffer, 1, path_length), d)

Top == stack[Len(stack)]
Below == SubSeq(stack, 1, Len(stack) - 1)

(* Mutant: what is not accepted is counted too. *)
EmitCountsAll(path, accepted) ==
  /\ output' = IF accepted THEN output \cup {path} ELSE output
  /\ emitted_count' = emitted_count + 1

(* bc_seek_walk_emit_if_match when the write does not fail. *)
Emit(path, accepted) ==
  /\ output' = IF accepted THEN output \cup {path} ELSE output
  /\ emitted_count' = IF accepted THEN emitted_count + 1 ELSE emitted_count

NoEmit == UNCHANGED <<output, emitted_count>>

collector_append(path, dir) == errors' = errors \cup {[path |-> path, dir |-> dir]}

(* Mutant: the outermost call returns into a loop that is not there. *)
ReturnAlwaysResumes(ok) ==
  /\ stack' = Below
  /\ returned' = ok
  /\ in_turn' = FALSE
  /\ pc' = "resume"
  /\ UNCHANGED <<root_index, any_ok>>

(* iterate_entries returns: to the loop of its caller, or to visit_root,   *)
(* whose answer goes into the answer of the walk.                          *)
Return(ok) ==
  /\ stack' = Below
  /\ returned' = ok
  /\ in_turn' = FALSE
  /\ IF Len(stack) > 1
     THEN pc' = "resume" /\ UNCHANGED <<root_index, any_ok>>
     ELSE /\ pc' = "roots"
          /\ root_index' = root_index + 1
          /\ any_ok' = (any_ok /\ ok)

-----------------------------------------------------------------------------
(* The roots, bc_seek_walk_visit_root. *)

RootsLeft == pc = "roots" /\ root_index <= Len(Roots(config))
Root == Roots(config)[root_index]
RootStat == StatOf(Root, config.follow_symlinks)
RootAccepted == RootVerdict(config, Root, RootStat) = ACCEPT
AtRoot == RootsLeft /\ in_turn

(* Mutant: the signal is not looked at between roots. *)
NeverStopBeforeRoot == FALSE

(* The signal is looked at before each argument, not before the default    *)
(* root.                                                                   *)
StopBeforeRoot == config.roots # <<>> /\ should_stop

(* should_stop answers no: the entry or root that is next will be handled, *)
(* also if the signal comes right after the look.                          *)
Look ==
  /\ ~in_turn
  /\ \/ pc = "walk" /\ ~should_stop
     \/ RootsLeft /\ ~StopBeforeRoot
  /\ in_turn' = TRUE
  /\ UNCHANGED <<config, pc, root_index, stack, path_buffer, returned, root_device,
                 stop_requested, signalled, before_signal, output, emitted_count,
                 errors, any_ok>>

(* visit_root returns without a directory to walk. *)
RootAnswers(ok) ==
  /\ root_index' = root_index + 1
  /\ any_ok' = (any_ok /\ ok)
  /\ in_turn' = FALSE
  /\ UNCHANGED <<config, pc, stack, path_buffer, returned, stop_requested, signalled,
                 before_signal>>

RootStop ==
  /\ RootsLeft /\ ~in_turn /\ StopBeforeRoot
  /\ pc' = "done"
  /\ stop_requested' = TRUE
  /\ UNCHANGED <<config, in_turn, root_index, stack, path_buffer, returned, root_device,
                 signalled, before_signal, output, emitted_count, errors, any_ok>>

RootStatFails ==
  /\ AtRoot
  /\ RootStat = NoMeta \/ "stat" \in Faults
  /\ collector_append(<<Root>>, NodeOf(Root, config.follow_symlinks))
  /\ RootAnswers(FALSE)
  /\ NoEmit /\ UNCHANGED root_device

(* Every later step of visit_root has resolved the device first. *)
RootStated ==
  /\ AtRoot
  /\ RootStat # NoMeta
  /\ root_device' = IF config.one_file_system /\ root_device = None
                    THEN RootStat.dev ELSE root_device

RootTooLong ==
  /\ RootStated
  /\ ArgLength[Root] >= PathCapacity
  /\ collector_append(<<Root>>, NodeOf(Root, config.follow_symlinks))
  /\ RootAnswers(FALSE)
  /\ NoEmit

RootFits == RootStated /\ ArgLength[Root] < PathCapacity

RootEmitFails ==
  /\ RootFits
  /\ RootAccepted /\ "write" \in Faults
  /\ RootAnswers(FALSE)
  /\ NoEmit /\ UNCHANGED errors

RootIsWalked ==
  /\ RootStat.type = "directory"
  /\ config.options.max_depth # 0

RootLeaf ==
  /\ RootFits
  /\ ~RootIsWalked
  /\ Emit(<<Root>>, RootAccepted)
  /\ RootAnswers(TRUE)
  /\ UNCHANGED errors

RootOpenFails ==
  /\ RootFits
  /\ RootIsWalked /\ "open" \in Faults
  /\ Emit(<<Root>>, RootAccepted)
  /\ collector_append(<<Root>>, NodeOf(Root, config.follow_symlinks))
  /\ RootAnswers(FALSE)

RootDescend ==
  /\ RootFits
  /\ RootIsWalked
  /\ Emit(<<Root>>, RootAccepted)
  /\ path_buffer' = <<Root>>
  /\ LET dir == NodeOf(Root, config.follow_symlinks)
     IN stack' = <<[dir |-> dir, path_length |-> 1, depth |-> 0,
                    todo |-> EntriesOf(dir)]>>
  /\ pc' = "walk"
  /\ in_turn' = FALSE
  /\ UNCHANGED <<config, root_index, returned, stop_requested, signalled, before_signal,
                 errors, any_ok>>

RootsExhausted ==
  /\ pc = "roots" /\ root_index > Len(Roots(config))
  /\ pc' = "done"
  /\ UNCHANGED <<config, in_turn, root_index, stack, path_buffer, returned, root_device,
                 stop_requested, signalled, before_signal, output, emitted_count,
                 errors, any_ok>>

-----------------------------------------------------------------------------
(* One entry, the loop of bc_seek_walk_iterate_entries. *)

Reading == pc = "walk" /\ in_turn

(* The frame after entry d has been dealt with. *)
Consume(d) == [Top EXCEPT !.todo = @ \ {d}]
Continue(d) ==
  /\ stack' = Append(Below, Consume(d))
  /\ in_turn' = FALSE
  /\ UNCHANGED <<config, pc, root_index, returned, root_device, stop_requested,
                 signalled, before_signal, any_ok>>

(* Mutant: the path capacity is off by one. *)
PassedOneLonger(d) ==
  /\ config.options.include_hidden \/ ~is_hidden_name(NameOf[d])
  /\ ArgLength[path_buffer[1]] + Top.path_length <= PathCapacity

Passed(d) ==
  /\ config.options.include_hidden \/ ~is_hidden_name(NameOf[d])
  /\ ArgLength[path_buffer[1]] + Top.path_length < PathCapacity

PathOf(d) == append_path(path_buffer, Top.path_length, d)

entry_candidate(d) ==
  [path |-> PathOf(d), basename |-> NameOf[d], depth |-> Top.depth + 1,
   entry_type |-> DType(d), type_resolved |-> DType(d) # "any",
   size_bytes |-> 0, modification_time |-> 0, permission_mask |-> 0,
   stat_populated |-> FALSE, follow_symlinks_enabled |-> config.follow_symlinks]

(* What fstatat says of d in its directory; it may fail for an entry that  *)
(* is there, where the directory may be read and not searched for example. *)
EntryStat(d) == fstatat(Top.dir, NameOf[d], config.follow_symlinks)
StatAnswers(d) == {EntryStat(d)} \cup {NoMeta : x \in {"stat"} \cap Faults}

(* The evaluation stats d at most once, here with answer st. *)
Evaluation(d, st) == filter_evaluate(predicate(config), entry_candidate(d), st)
Accepted(d, st) == Evaluation(d, st).decision = ACCEPT

(* Mutant: a link is never looked through. *)
is_directory_by_dtype(d, st, again) ==
  LET c == Evaluation(d, st).candidate
  IN c.type_resolved /\ c.entry_type = "directory"

(* Whether d is a directory, with another stat, answered by again, if the  *)
(* evaluation left that open.  If it fails d is none, without an error.    *)
is_directory(d, st, again) ==
  LET c == Evaluation(d, st).candidate
      open == \/ ~c.type_resolved
              \/ config.follow_symlinks /\ c.entry_type = "symlink"
  IN IF open
     THEN again # NoMeta /\ filter_populate_stat(c, again).entry_type = "directory"
     ELSE c.entry_type = "directory"

should_descend_directory(d) ==
  /\ config.options.max_depth # None => Top.depth + 1 <= config.options.max_depth
  /\ config.options.respect_ignore_defaults => ~filter_ignored_directory_name(NameOf[d])
  /\ config.options.include_hidden \/ ~is_hidden_name(NameOf[d])

Descends(d, st, again) == is_directory(d, st, again) /\ should_descend_directory(d)

(* open_subdir: the device is compared once the directory is open. *)
OtherDevice(d) ==
  /\ config.one_file_system /\ root_device # None
  /\ Meta[NodeOf(d, config.follow_symlinks)].dev # root_device

(* Mutant: the loop does not get past a hidden entry. *)
SkipEntryStays(d) ==
  /\ ~Passed(d)
  /\ path_buffer' = truncate(path_buffer, Top.path_length)
  /\ in_turn' = FALSE
  /\ UNCHANGED <<config, pc, stack, root_index, returned, root_device,
                 stop_requested, signalled, before_signal, any_ok>>
  /\ NoEmit /\ UNCHANGED errors

(* Hidden, or the path does not fit the buffer: passed over in silence. *)
SkipEntry(d) ==
  /\ ~Passed(d)
  /\ path_buffer' = truncate(path_buffer, Top.path_length)
  /\ Continue(d)
  /\ NoEmit /\ UNCHANGED errors

(* The write fails: the loop ends, the buffer keeps the entry's name. *)
EmitFails(d, st) ==
  /\ Passed(d)
  /\ Accepted(d, st) /\ "write" \in Faults
  /\ path_buffer' = PathOf(d)
  /\ Return(FALSE)
  /\ NoEmit
  /\ UNCHANGED <<config, root_device, stop_requested, signalled, before_signal, errors>>

VisitLeaf(d, st, again) ==
  /\ Passed(d)
  /\ ~Descends(d, st, again)
  /\ Emit(PathOf(d), Accepted(d, st))
  /\ path_buffer' = truncate(PathOf(d), Top.path_length)
  /\ Continue(d)
  /\ UNCHANGED errors

(* The directory cannot be opened, or is on another device: an error and   *)
(* on to the next entry.                                                   *)
DescendFails(d, st, again) ==
  /\ Passed(d)
  /\ Descends(d, st, again)
  /\ "open" \in Faults \/ OtherDevice(d)
  /\ Emit(PathOf(d), Accepted(d, st))
  /\ collector_append(PathOf(d), NodeOf(d, config.follow_symlinks))
  /\ path_buffer' = truncate(PathOf(d), Top.path_length)
  /\ Continue(d)

Descend(d, st, again) ==
  /\ Passed(d)
  /\ Descends(d, st, again) /\ ~OtherDevice(d)
  /\ Emit(PathOf(d), Accepted(d, st))
  /\ path_buffer' = PathOf(d)
  /\ LET dir == NodeOf(d, config.follow_symlinks)
     IN stack' = Append(Append(Below, Consume(d)),
                   [dir |-> dir, path_length |-> Top.path_length + 1,
                    depth |-> Top.depth + 1, todo |-> EntriesOf(dir)])
  /\ in_turn' = FALSE
  /\ UNCHANGED <<config, pc, root_index, returned, root_device, stop_requested,
                 signalled, before_signal, errors, any_ok>>

-----------------------------------------------------------------------------
(* The ways a loop ends. *)

LoopEnds(ok) ==
  /\ Return(ok)
  /\ NoEmit
  /\ UNCHANGED <<config, path_buffer, root_device, signalled, before_signal>>

StopDirectory ==
  /\ pc = "walk" /\ ~in_turn /\ should_stop
  /\ stop_requested' = TRUE
  /\ LoopEnds(FALSE)
  /\ UNCHANGED errors

EndOfDirectory ==
  /\ Reading /\ Top.todo = {}
  /\ LoopEnds(TRUE)
  /\ UNCHANGED <<stop_requested, errors>>

(* The reader fails on the way, or cannot be created: that is found out    *)
(* before the signal is looked at for the first time.                      *)
ReadFails ==
  /\ pc = "walk" /\ "read" \in Faults
  /\ in_turn \/ Top.todo = EntriesOf(Top.dir)
  /\ collector_append(path_buffer, Top.dir)
  /\ LoopEnds(FALSE)
  /\ UNCHANGED stop_requested

(* Back in the caller's loop.  A failure below only matters if it was the  *)
(* stop; the buffer is cut back either way.                                *)
Resume ==
  /\ pc = "resume"
  /\ path_buffer' = truncate(path_buffer, Top.path_length)
  /\ IF ~returned /\ should_stop
     THEN stop_requested' = TRUE /\ Return(FALSE)
     ELSE /\ pc' = "walk"
          /\ UNCHANGED <<in_turn, stack, returned, root_index, any_ok, stop_requested>>
  /\ NoEmit
  /\ UNCHANGED <<config, root_device, signalled, before_signal, errors>>

Signal ==
  /\ pc # "done" /\ ~signalled
  /\ signalled' = TRUE
  /\ before_signal' = emitted_count
  /\ UNCHANGED <<config, pc, in_turn, root_index, stack, path_buffer, returned,
                 root_device, stop_requested, output, emitted_count, errors, any_ok>>

(* The walk has returned. *)
Finished == pc = "done" /\ UNCHANGED vars

RootStep ==
  \/ RootStop \/ RootStatFails \/ RootTooLong \/ RootEmitFails \/ RootLeaf
  \/ RootOpenFails \/ RootDescend \/ RootsExhausted

EntryStep ==
  \E d \in Dirents :
    /\ Reading /\ d \in Top.todo
    /\ \/ SkipEntry(d)
       \/ \E st, again \in StatAnswers(d) :
            \/ EmitFails(d, st) \/ VisitLeaf(d, st, again)
            \/ DescendFails(d, st, again) \/ Descend(d, st, again)

WalkStep ==
  \/ Look \/ RootStep \/ EntryStep
  \/ StopDirectory \/ EndOfDirectory \/ ReadFails \/ Resume

Next == WalkStep \/ Signal \/ Finished

Spec == Init /\ [][Next]_vars

(* The steps in which no call fails. *)
FaultFreeStep ==
  \/ Look \/ RootStop \/ (AtRoot /\ RootStat = NoMeta /\ RootStatFails)
  \/ RootTooLong \/ RootLeaf \/ RootDescend \/ RootsExhausted
  \/ \E d \in Dirents :
       /\ Reading /\ d \in Top.todo
       /\ LET st == EntryStat(d)
          IN \/ SkipEntry(d) \/ VisitLeaf(d, st, st) \/ Descend(d, st, st)
             \/ OtherDevice(d) /\ DescendFails(d, st, st)
  \/ StopDirectory \/ EndOfDirectory \/ Resume

(* The program runs on, and a call that may fail does not have to: no      *)
(* failure and no signal is needed to bring the walk to its end.           *)
FairSpec == Spec /\ WF_vars(FaultFreeStep)

-----------------------------------------------------------------------------
Frames ==
  [dir : Inodes, path_length : Nat, depth : Nat, todo : SUBSET Dirents]

(* The variables keep their types, and a frame is on top whenever the loop *)
(* of iterate_entries reads it.                                            *)
TypeOK ==
  /\ config \in Configs
  /\ pc \in {"roots", "walk", "resume", "done"}
  /\ in_turn \in BOOLEAN
  /\ root_index \in Nat \ {0}
  /\ stack \in Seq(Frames)
  /\ path_buffer \in Seq(Dirents)
  /\ returned \in BOOLEAN
  /\ root_device \in Devices \cup {None}
  /\ stop_requested \in BOOLEAN
  /\ signalled \in BOOLEAN
  /\ before_signal \in Nat
  /\ output \subseteq Seq(Dirents)
  /\ emitted_count \in Nat
  /\ errors \subseteq [path : Seq(Dirents), dir : Inodes \cup {NoInode}]
  /\ any_ok \in BOOLEAN
  /\ pc \in {"walk", "resume"} <=> stack # <<>>

(* The shared buffer and the stack of calls describe the same descent: the *)
(* k-th open directory is the one the first k entries of the buffer lead   *)
(* to, and its frame holds that length and the depth that goes with it.    *)
(* This is what append_path and truncate have to keep up through every     *)
(* return, bc_seek_discovery_walk_sequential.c:182-231.                    *)
BufferFollowsStack ==
  /\ Len(stack) <= Len(path_buffer)
  /\ pc = "walk" => Len(path_buffer) = Len(stack)
  /\ stack # <<>> => path_buffer[1] = Roots(config)[root_index]
  /\ \A k \in DOMAIN stack :
       /\ stack[k].path_length = k
       /\ stack[k].depth = k - 1
       /\ stack[k].dir = NodeOf(path_buffer[k], config.follow_symlinks)
       /\ \A d \in stack[k].todo : HolderOf[d] = stack[k].dir
  /\ \A k \in 2..Len(stack) : HolderOf[path_buffer[k]] = stack[k - 1].dir

(* An error names the directory or entry that failed, by a path on which   *)
(* the search really came there: the shared buffer that                    *)
(* bc_runtime_error_collector_append is given holds nothing left over from *)
(* a deeper call.                                                          *)
ErrorsAreNamed ==
  \A e \in errors :
    /\ IsChain(config, e.path)
    /\ e.dir = NodeOf(e.path[Len(e.path)], config.follow_symlinks)

(* No line is printed twice unless one argument lies under another, as in  *)
(* "bc-seek r r/s", or is repeated: emitted_count counts different lines.  *)
EmittedOnce ==
  RootsApart(config) => emitted_count = Cardinality({PrintedAs(path) : path \in output})

(* Everything printed was asked for, in whatever way calls fail. *)
OutputIsWanted == output \subseteq WantedOf[config]

(* Once the signal is there at most one more path is printed, over all     *)
(* roots and all levels of the recursion: the one in hand, for which       *)
(* should_stop (lines 162 and 354) had already answered, or the default    *)
(* root, which is visited unasked.                                         *)
SignalStopsOutput == signalled => emitted_count <= before_signal + 1

(* The descriptors held open by the recursion are bounded by the path      *)
(* capacity, also where links make the tree endless:                       *)
(* bc_seek_discovery_walk_sequential.c:55 and 217-222.                     *)
OpenDirectoriesBounded == Len(stack) < PathCapacity

(* What main makes of the answer of the walk: exit code 0. *)
ReportsSuccess == any_ok /\ errors = {} /\ ~signalled

Outcome ==
  IF pc # "done" THEN "searching"
  ELSE IF ReportsSuccess THEN "complete" ELSE "incomplete"

S == INSTANCE Search WITH wanted <- WantedOf[config], found <- output, outcome <- Outcome

(* The walk keeps the promise of Search: if it reports success, all that   *)
(* was asked for has been printed.  Not if a write fails below the root    *)
(* directory (line 223) or the stat of an entry fails (line 211 and        *)
(* bc_seek_filter.c:247, :267): neither leaves an error.                   *)
RefinesSearch == S!Safety

(* The walk ends, links that lead back into the tree included: the path    *)
(* capacity is what stops those.                                           *)
Terminates == S!Ends
=============================================================================
