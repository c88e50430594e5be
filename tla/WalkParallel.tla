---------------------------- MODULE WalkParallel ----------------------------
(***************************************************************************)
(* bc_seek_discovery_walk_parallel.c: the multi-threaded walk.             *)
(*                                                                         *)
(* For each root, bc_io_walk_parallel (external) runs a pool of workers    *)
(* over a queue of directories and calls visit and should_descend back for *)
(* every entry.  A worker appends its matches to its own slot; once all    *)
(* roots are done the main thread gathers the slots into an iovec and      *)
(* writes it with a writev loop.  Buffers hold two tokens for each match,  *)
(* the path and the separator, so that a record can be torn.               *)
(***************************************************************************)
EXTENDS SearchSpace

CONSTANTS
  WorkerCount,   \* bc_concurrency_effective_worker_count, at least 2
  MaxIovec,      \* BC_SEEK_PARALLEL_MAX_IOVEC
  IovMax,        \* IOV_MAX, the segments one writev takes
  Separator,     \* the token after every path
  Faults         \* which calls may fail: a subset of FaultKinds

FaultKinds == {"setup", "open", "reserve", "bulk", "push", "flush", "writev"}

Workers == 1..WorkerCount

ASSUME WalkParallelAssumption ==
  /\ WorkerCount \in Nat \ {0, 1}
  /\ MaxIovec \in Nat \ {0}
  /\ IovMax \in Nat \ {0}
  /\ Faults \subseteq FaultKinds
  /\ Separator \notin Seq(Dirents)
  /\ None \notin [path : Seq(Dirents), todo : SUBSET Dirents]

VARIABLES
  config,         \* predicate, roots and flags of bc_seek_parallel_context_t
  pc,             \* the main thread: "setup", "roots", "pool", "merge",
                  \* "write", "advance" or "done"
  root_index,     \* the root argument to handle next
  root_device,    \* None until root_device_initialized
  queue,          \* directories found and not yet taken, by path
  job,            \* job[w]: None or [path, todo], the directory w reads
  aborted,        \* a visit returned false
  slots,          \* slots[w]: [initialized, output_bytes, emitted_count]
  main_slot,      \* bc_seek_parallel_root_result_t
  iov,            \* the segments still to write
  remaining,      \* tokens written by the last writev, not yet passed over
  fd,             \* the tokens written to the output
  emitted_count,  \* of bc_seek_output_t
  errors,         \* paths for which an error was collected
  signalled,      \* the signal handler's flag
  ok              \* any_root_ok && merge_ok

pool_vars == <<queue, job, aborted>>
merge_vars == <<iov, remaining, fd, emitted_count>>
vars == <<config, pc, root_index, root_device, pool_vars, slots, main_slot,
          merge_vars, errors, signalled, ok>>

EmptySlot == [initialized |-> FALSE, output_bytes |-> <<>>, emitted_count |-> 0]

Init ==
  /\ config \in Configs
  /\ pc = "setup"
  /\ root_index = 1
  /\ root_device = None
  /\ queue = {}
  /\ job = [w \in Workers |-> None]
  /\ aborted = FALSE
  /\ slots = [w \in Workers |-> EmptySlot]
  /\ main_slot = [EmptySlot EXCEPT !.initialized = TRUE]
  /\ iov = <<>>
  /\ remaining = 0
  /\ fd = <<>>
  /\ emitted_count = 0
  /\ errors = {}
  /\ signalled = FALSE
  /\ ok = TRUE

-----------------------------------------------------------------------------
(* Mutant: the separator is forgotten. *)
append_match_without_separator(buffer, path) ==
  {[ok |-> TRUE, bytes |-> Append(buffer, path)]}

(* The outcomes of append_match: both appends succeed, the first fails, or *)
(* the first succeeds and the push of the separator fails.                 *)
append_match(buffer, path) ==
  {[ok |-> TRUE, bytes |-> buffer \o <<path, Separator>>]}
  \cup {[ok |-> FALSE, bytes |-> buffer] : x \in {"bulk"} \cap Faults}
  \cup {[ok |-> FALSE, bytes |-> Append(buffer, path)] : x \in {"push"} \cap Faults}

(* Mutant: the match is counted even if it was not appended. *)
KeepCounts(slot, r) ==
  [slot EXCEPT !.output_bytes = r.bytes, !.emitted_count = @ + 1]

(* The slot after an append that ended like r: only success is counted. *)
Keep(slot, r) ==
  [slot EXCEPT !.output_bytes = r.bytes,
               !.emitted_count = IF r.ok THEN @ + 1 ELSE @]

record_error(path) == errors' = errors \cup {path}

(* A failed append is recorded and otherwise passed over. *)
NoteAppend(path, r) == IF r.ok THEN UNCHANGED errors ELSE record_error(path)

-----------------------------------------------------------------------------
(* The main thread, up to the walk of a root. *)

Setup ==
  /\ pc = "setup"
  /\ pc' = "roots"
  /\ UNCHANGED <<config, root_index, root_device, pool_vars, slots, main_slot,
                 merge_vars, errors, signalled, ok>>

(* The worker slot cannot be registered or the main buffer not reserved. *)
SetupFails ==
  /\ pc = "setup" /\ "setup" \in Faults
  /\ pc' = "done"
  /\ ok' = FALSE
  /\ UNCHANGED <<config, root_index, root_device, pool_vars, slots, main_slot,
                 merge_vars, errors, signalled>>

RootsLeft == pc = "roots" /\ root_index <= Len(Roots(config))
Root == Roots(config)[root_index]
RootStat == StatOf(Root, config.follow_symlinks)

RootStatFails ==
  /\ RootsLeft
  /\ RootStat = NoMeta
  /\ record_error(<<Root>>)
  /\ ok' = FALSE
  /\ root_index' = root_index + 1
  /\ UNCHANGED <<config, pc, root_device, pool_vars, slots, main_slot, merge_vars,
                 signalled>>

RootIsWalked ==
  /\ RootStat.type = "directory"
  /\ config.options.max_depth # 0

(* The rest of handle_root: the first root fixes the device, the root      *)
(* itself goes to the main buffer, and a directory is handed to the pool.  *)
HandleRoot ==
  /\ RootsLeft
  /\ RootStat # NoMeta
  /\ root_device' = IF config.one_file_system /\ root_device = None
                    THEN RootStat.dev ELSE root_device
  /\ IF RootVerdict(config, Root, RootStat) = ACCEPT
     THEN \E r \in append_match(main_slot.output_bytes, <<Root>>) :
            /\ main_slot' = Keep(main_slot, r)
            /\ NoteAppend(<<Root>>, r)
     ELSE UNCHANGED <<main_slot, errors>>
  /\ IF RootIsWalked
     THEN /\ pc' = "pool"
          /\ queue' = {<<Root>>}
          /\ UNCHANGED root_index
     ELSE /\ root_index' = root_index + 1
          /\ UNCHANGED <<pc, queue>>
  /\ UNCHANGED <<config, job, aborted, slots, merge_vars, signalled, ok>>

-----------------------------------------------------------------------------
(* The pool of bc_io_walk_parallel, and the callbacks it makes. *)

(* The entries of a directory the pool looks at: include_hidden is its     *)
(* own option.                                                             *)
Listed(path) ==
  {d \in EntriesOf(NodeOf(path[Len(path)], config.follow_symlinks)) :
     config.options.include_hidden \/ ~is_hidden_name(NameOf[d])}

TakeDirectory(w) ==
  /\ pc = "pool" /\ job[w] = None
  /\ \E path \in queue :
       /\ queue' = queue \ {path}
       /\ job' = [job EXCEPT ![w] = [path |-> path, todo |-> Listed(path)]]
  /\ UNCHANGED <<config, pc, root_index, root_device, aborted, slots, main_slot,
                 merge_vars, errors, signalled, ok>>

(* Mutant: on_error records nothing. *)
OpenFailsSilently(w) ==
  /\ pc = "pool" /\ job[w] = None /\ "open" \in Faults
  /\ \E path \in queue : queue' = queue \ {path}
  /\ UNCHANGED <<config, pc, root_index, root_device, job, aborted, slots,
                 main_slot, merge_vars, errors, signalled, ok>>

(* The directory cannot be opened or read: on_error. *)
OpenFails(w) ==
  /\ pc = "pool" /\ job[w] = None /\ "open" \in Faults
  /\ \E path \in queue :
       /\ queue' = queue \ {path}
       /\ record_error(path)
  /\ UNCHANGED <<config, pc, root_index, root_device, job, aborted, slots,
                 main_slot, merge_vars, signalled, ok>>

EntryMeta(d) == StatOf(d, config.follow_symlinks)

(* st_dev of the entry against the device of the first root. *)
OtherDevice(d) ==
  /\ config.one_file_system /\ root_device # None
  /\ EntryMeta(d) # NoMeta /\ EntryMeta(d).dev # root_device

(* The candidate of an entry: the pool has stated it already.  parent      *)
(* directory is AT_FDCWD, so a stat of the filter looks there.             *)
walk_candidate(path, d) ==
  LET st == IF EntryMeta(d) = NoMeta THEN Meta[LinkOf[d]] ELSE EntryMeta(d)
      kind == Meta[LinkOf[d]].type
  IN [path |-> path, basename |-> NameOf[d], depth |-> Len(path) - 1,
      entry_type |-> kind, type_resolved |-> kind # "any",
      size_bytes |-> st.size, modification_time |-> st.mtime,
      permission_mask |-> st.perm, stat_populated |-> EntryMeta(d) # NoMeta,
      follow_symlinks_enabled |-> config.follow_symlinks]

Accepted(path, d) ==
  filter_evaluate(predicate(config), walk_candidate(path, d),
                  fstatat(Cwd, NameOf[d], config.follow_symlinks)).decision = ACCEPT

(* Mutant: ignored directories are entered. *)
should_descend_into_ignored(path, d) ==
  /\ config.options.max_depth # None => Len(path) - 1 < config.options.max_depth
  /\ config.options.include_hidden \/ ~is_hidden_name(NameOf[d])
  /\ ~OtherDevice(d)

should_descend(path, d) ==
  /\ config.options.max_depth # None => Len(path) - 1 < config.options.max_depth
  /\ config.options.respect_ignore_defaults => ~filter_ignored_directory_name(NameOf[d])
  /\ config.options.include_hidden \/ ~is_hidden_name(NameOf[d])
  /\ ~OtherDevice(d)

(* The worker has dealt with d; a directory is queued if should_descend    *)
(* agrees.                                                                 *)
NextEntry(w, d) ==
  LET path == Append(job[w].path, d)
      walked == IsDirectory(config, d) /\ should_descend(path, d)
  IN /\ job' = [job EXCEPT ![w].todo = @ \ {d}]
     /\ queue' = IF walked THEN queue \cup {path} ELSE queue
     /\ UNCHANGED <<config, pc, root_index, root_device, aborted, main_slot,
                    merge_vars, signalled, ok>>

(* visit: an entry of another device is dropped. *)
VisitOtherDevice(w, d) ==
  /\ pc = "pool" /\ job[w] # None /\ d \in job[w].todo
  /\ OtherDevice(d)
  /\ NextEntry(w, d)
  /\ UNCHANGED <<slots, errors>>

(* visit: the slot of the worker is there or made, the entry is evaluated  *)
(* and appended.                                                           *)
Visit(w, d) ==
  /\ pc = "pool" /\ job[w] # None /\ d \in job[w].todo
  /\ ~OtherDevice(d)
  /\ LET path == Append(job[w].path, d)
         slot == [slots[w] EXCEPT !.initialized = TRUE]
     IN IF Accepted(path, d)
        THEN \E r \in append_match(slot.output_bytes, path) :
               /\ slots' = [slots EXCEPT ![w] = Keep(slot, r)]
               /\ NoteAppend(path, r)
        ELSE /\ slots' = [slots EXCEPT ![w] = slot]
             /\ UNCHANGED errors
  /\ NextEntry(w, d)

(* visit: the slot cannot be reserved; visit returns false and the pool    *)
(* gives up.                                                               *)
ReserveFails(w, d) ==
  /\ pc = "pool" /\ job[w] # None /\ d \in job[w].todo
  /\ ~OtherDevice(d)
  /\ ~slots[w].initialized /\ "reserve" \in Faults
  /\ aborted' = TRUE
  /\ job' = [job EXCEPT ![w] = None]
  /\ UNCHANGED <<config, pc, root_index, root_device, queue, slots, main_slot,
                 merge_vars, errors, signalled, ok>>

DirectoryDone(w) ==
  /\ pc = "pool" /\ job[w] # None
  /\ job[w].todo = {} \/ aborted \/ signalled
  /\ job' = [job EXCEPT ![w] = None]
  /\ UNCHANGED <<config, pc, root_index, root_device, queue, aborted, slots,
                 main_slot, merge_vars, errors, signalled, ok>>

(* Mutant: the main thread does not wait for the workers. *)
PoolEndsEarly ==
  /\ pc = "pool"
  /\ queue = {} \/ aborted \/ signalled
  /\ pc' = "roots"
  /\ root_index' = root_index + 1
  /\ queue' = {}
  /\ aborted' = FALSE
  /\ UNCHANGED <<config, root_device, job, slots, main_slot, merge_vars, errors,
                 signalled, ok>>

(* bc_io_walk_parallel returns; its answer is discarded. *)
PoolEnds ==
  /\ pc = "pool"
  /\ \A w \in Workers : job[w] = None
  /\ queue = {} \/ aborted \/ signalled
  /\ pc' = "roots"
  /\ root_index' = root_index + 1
  /\ queue' = {}
  /\ aborted' = FALSE
  /\ UNCHANGED <<config, root_device, job, slots, main_slot, merge_vars, errors,
                 signalled, ok>>

-----------------------------------------------------------------------------
(* The main thread, after the last root. *)

RootsExhausted ==
  /\ pc = "roots" /\ root_index > Len(Roots(config))
  /\ pc' = "merge"
  /\ UNCHANGED <<config, root_index, root_device, pool_vars, slots, main_slot,
                 merge_vars, errors, signalled, ok>>

(* collect_slot_iovec: an empty buffer is left out, and so is one that the *)
(* builder has no room for.                                                *)
collect_slot_iovec(builder, slot) ==
  IF ~slot.initialized \/ slot.output_bytes = <<>> \/ Len(builder) >= MaxIovec
  THEN builder ELSE Append(builder, slot)

Collected(buffers) ==
  LET builder[k \in 0..Len(buffers)] ==
        IF k = 0 THEN <<>> ELSE collect_slot_iovec(builder[k - 1], buffers[k])
  IN builder[Len(buffers)]

(* The main buffer first, then the slots in the order of the workers. *)
Gathered == Collected(<<main_slot>> \o slots)

SumOfCounts(parts) ==
  LET sum[k \in 0..Len(parts)] ==
        IF k = 0 THEN 0 ELSE sum[k - 1] + parts[k].emitted_count
  IN sum[Len(parts)]

(* The writer is flushed before the raw descriptor is used. *)
Merge ==
  /\ pc = "merge"
  /\ iov' = [k \in 1..Len(Gathered) |-> Gathered[k].output_bytes]
  /\ pc' = "write"
  /\ UNCHANGED <<config, root_index, root_device, pool_vars, slots, main_slot,
                 remaining, fd, emitted_count, errors, signalled, ok>>

(* The end of the walk, whatever the writes said. *)
CountMerged == emitted_count' = emitted_count + SumOfCounts(Gathered)

FlushFails ==
  /\ pc = "merge" /\ "flush" \in Faults /\ Gathered # <<>>
  /\ CountMerged
  /\ ok' = FALSE
  /\ pc' = "done"
  /\ UNCHANGED <<config, root_index, root_device, pool_vars, slots, main_slot,
                 iov, remaining, fd, errors, signalled>>

Flatten(segments) ==
  LET flat[k \in 0..Len(segments)] ==
        IF k = 0 THEN <<>> ELSE flat[k - 1] \o segments[k]
  IN flat[Len(segments)]

(* writev takes some of the first IOV_MAX segments, nothing only if they   *)
(* are empty; EINTR is no step.                                            *)
Writev ==
  /\ pc = "write" /\ iov # <<>>
  /\ LET offered == Flatten(SubSeq(iov, 1, IF Len(iov) > IovMax THEN IovMax ELSE Len(iov)))
     IN \E written \in IF offered = <<>> THEN {0} ELSE 1..Len(offered) :
          /\ fd' = fd \o SubSeq(offered, 1, written)
          /\ remaining' = written
  /\ pc' = "advance"
  /\ UNCHANGED <<config, root_index, root_device, pool_vars, slots, main_slot,
                 iov, emitted_count, errors, signalled, ok>>

WritevFails ==
  /\ pc = "write" /\ iov # <<>> /\ "writev" \in Faults
  /\ CountMerged
  /\ ok' = FALSE
  /\ pc' = "done"
  /\ UNCHANGED <<config, root_index, root_device, pool_vars, slots, main_slot,
                 iov, remaining, fd, errors, signalled>>

(* Mutant: iov_base is not moved after a partial write. *)
AdvanceForgetsOffset ==
  /\ pc = "advance" /\ remaining > 0
  /\ IF remaining >= Len(iov[1])
     THEN /\ remaining' = remaining - Len(iov[1])
          /\ iov' = Tail(iov)
     ELSE /\ remaining' = 0
          /\ UNCHANGED iov
  /\ UNCHANGED <<config, pc, root_index, root_device, pool_vars, slots, main_slot,
                 fd, emitted_count, errors, signalled, ok>>

(* Mutant: > for >=, a segment written to its end stays as an empty one. *)
AdvanceKeepsEmpty ==
  /\ pc = "advance" /\ remaining > 0
  /\ IF remaining > Len(iov[1])
     THEN /\ remaining' = remaining - Len(iov[1])
          /\ iov' = Tail(iov)
     ELSE /\ remaining' = 0
          /\ iov' = [iov EXCEPT ![1] = SubSeq(@, remaining + 1, Len(@))]
  /\ UNCHANGED <<config, pc, root_index, root_device, pool_vars, slots, main_slot,
                 fd, emitted_count, errors, signalled, ok>>

(* One turn of the inner loop: a whole segment is passed over, or a part.  *)
Advance ==
  /\ pc = "advance" /\ remaining > 0
  /\ IF remaining >= Len(iov[1])
     THEN /\ remaining' = remaining - Len(iov[1])
          /\ iov' = Tail(iov)
     ELSE /\ remaining' = 0
          /\ iov' = [iov EXCEPT ![1] = SubSeq(@, remaining + 1, Len(@))]
  /\ UNCHANGED <<config, pc, root_index, root_device, pool_vars, slots, main_slot,
                 fd, emitted_count, errors, signalled, ok>>

Advanced ==
  /\ pc = "advance" /\ (remaining = 0 \/ iov = <<>>)
  /\ pc' = "write"
  /\ UNCHANGED <<config, root_index, root_device, pool_vars, slots, main_slot,
                 merge_vars, errors, signalled, ok>>

Written ==
  /\ pc = "write" /\ iov = <<>>
  /\ CountMerged
  /\ pc' = "done"
  /\ UNCHANGED <<config, root_index, root_device, pool_vars, slots, main_slot,
                 iov, remaining, fd, errors, signalled, ok>>

Signal ==
  /\ pc # "done" /\ ~signalled
  /\ signalled' = TRUE
  /\ UNCHANGED <<config, pc, root_index, root_device, pool_vars, slots, main_slot,
                 merge_vars, errors, ok>>

Finished == pc = "done" /\ UNCHANGED vars

MainStep ==
  \/ Setup \/ SetupFails \/ RootStatFails \/ HandleRoot \/ PoolEnds
  \/ RootsExhausted \/ Merge \/ FlushFails
  \/ Writev \/ WritevFails \/ Advance \/ Advanced \/ Written

WorkerStep(w) ==
  \/ TakeDirectory(w) \/ OpenFails(w) \/ DirectoryDone(w)
  \/ \E d \in Dirents : VisitOtherDevice(w, d) \/ Visit(w, d) \/ ReserveFails(w, d)

Next == MainStep \/ (\E w \in Workers : WorkerStep(w)) \/ Signal \/ Finished

Spec == Init /\ [][Next]_vars

(* The steps in which no call fails. *)
FaultFreeMain ==
  \/ Setup \/ RootStatFails \/ HandleRoot \/ PoolEnds \/ RootsExhausted \/ Merge
  \/ Writev \/ Advance \/ Advanced \/ Written

FaultFreeWorker(w) ==
  \/ TakeDirectory(w) \/ DirectoryDone(w)
  \/ \E d \in Dirents : VisitOtherDevice(w, d) \/ Visit(w, d)

(* Every thread runs on, and a call that may fail does not have to.        *)
FairSpec ==
  /\ Spec
  /\ WF_vars(FaultFreeMain)
  /\ \A w \in Workers : WF_vars(FaultFreeWorker(w))

-----------------------------------------------------------------------------
Slot == [initialized : BOOLEAN, output_bytes : Seq(Seq(Dirents) \cup {Separator}),
         emitted_count : Nat]

(* The variables keep their types; a worker reads a directory only while   *)
(* the pool runs.                                                          *)
TypeOK ==
  /\ config \in Configs
  /\ pc \in {"setup", "roots", "pool", "merge", "write", "advance", "done"}
  /\ root_index \in Nat \ {0}
  /\ root_device \in Devices \cup {None}
  /\ queue \subseteq Seq(Dirents)
  /\ job \in [Workers -> {None} \cup [path : Seq(Dirents), todo : SUBSET Dirents]]
  /\ pc # "pool" => \A w \in Workers : job[w] = None
  /\ aborted \in BOOLEAN
  /\ slots \in [Workers -> Slot]
  /\ main_slot \in Slot
  /\ iov \in Seq(Seq(Seq(Dirents) \cup {Separator}))
  /\ remaining \in Nat
  /\ fd \in Seq(Seq(Dirents) \cup {Separator})
  /\ emitted_count \in Nat
  /\ errors \subseteq Seq(Dirents)
  /\ signalled \in BOOLEAN
  /\ ok \in BOOLEAN

(* "One line per match" (PLAN.md:44): the output alternates between a path *)
(* and a separator, for every interleaving of the workers and every        *)
(* partial writev, so that every line is a single path.                    *)
WholeLines == \A i \in DOMAIN fd : fd[i] = Separator <=> i % 2 = 0

(* The complete lines on the output. *)
Lines == {i \in DOMAIN fd : fd[i] # Separator /\ i < Len(fd) /\ fd[i + 1] = Separator}
Printed == {fd[i] : i \in Lines}

(* Nothing is printed that was not asked for, whatever fails. *)
OutputIsWanted == Printed \subseteq WantedOf[config]

(* Partial writes lose and repeat nothing: what is written and what is     *)
(* still to be written make up the gathered buffers, in their order, at    *)
(* every turn of both loops of write_all_iovec                             *)
(* (bc_seek_discovery_walk_parallel.c:235-260).                            *)
WriteLosesNothing ==
  LET content == Flatten([k \in 1..Len(Gathered) |-> Gathered[k].output_bytes])
      ahead == Flatten(iov)
  IN /\ pc \in {"write", "advance"} =>
          fd \o SubSeq(ahead, remaining + 1, Len(ahead)) = content
     /\ pc = "done" /\ ok => fd = content

(* The count that the merge adds up over the slots is the number of lines  *)
(* printed, and no line is printed twice, although the workers share the   *)
(* queue, unless one argument lies under another or is repeated.           *)
CountsMatch ==
  pc = "done" /\ ok =>
    /\ emitted_count = Cardinality(Lines)
    /\ RootsApart(config) =>
         emitted_count = Cardinality({PrintedAs(path) : path \in Printed})

(* What main makes of the answer of the walk: exit code 0. *)
ReportsSuccess == ok /\ errors = {} /\ ~signalled

Outcome ==
  IF pc # "done" THEN "searching"
  ELSE IF ReportsSuccess THEN "complete" ELSE "incomplete"

S == INSTANCE Search WITH wanted <- WantedOf[config], found <- Printed, outcome <- Outcome

(* The walk keeps the promise of Search: if it reports success, all that   *)
(* was asked for has been printed.                                         *)
RefinesSearch == S!Safety

(* The walk ends: no directory stays in the queue, no worker and no write  *)
(* loop is left behind.                                                    *)
Terminates == S!Ends
=============================================================================
