----------------------------- MODULE SeekFilter -----------------------------
(***************************************************************************)
(* bc_seek_filter.c: the predicate compiled from the options and its lazy  *)
(* evaluation on one candidate entry.  An option that was not given (its   *)
(* has_* flag is false) has the value None.  A glob is matched by fnmatch, *)
(* which is external: FnMatch(pattern, value, casefold).                   *)
(***************************************************************************)
EXTENDS FileTree, Integers

CONSTANTS
  None,             \* an option that was not given
  FnMatch(_, _, _), \* fnmatch(pattern, value, FNM_CASEFOLD or 0) == 0
  HiddenNames,      \* names that start with a dot, "." itself excepted
  IgnoredNames      \* bc_seek_ignored_directory_names

ASSUME FilterAssumption ==
  /\ HiddenNames \subseteq Names
  /\ IgnoredNames \subseteq Names
  /\ None \notin EntryTypes
  /\ None \notin Int

ACCEPT == "accept"
REJECT == "reject"
STAT_REQUIRED == "stat_required"

-----------------------------------------------------------------------------
(* The two records, and what the command line and the walkers put there.   *)

OptionFields ==
  {"name_glob", "name_case_insensitive", "path_glob", "type_filter",
   "size_filter", "mtime_filter", "newer_reference_mtime", "perm_mask",
   "max_depth", "min_depth", "include_hidden", "respect_ignore_defaults",
   "require_stat", "evaluation_reference_time"}

CandidateFields ==
  {"path", "basename", "depth", "entry_type", "type_resolved", "size_bytes",
   "modification_time", "permission_mask", "stat_populated",
   "follow_symlinks_enabled"}

(* --type knows f, d and l only, and depths are numbers. *)
BoundOptions(o) ==
  /\ DOMAIN o = OptionFields
  /\ o.type_filter \in {None} \cup (EntryTypes \ {"any"})
  /\ o.max_depth \in Nat \cup {None}
  /\ o.min_depth \in Nat
  /\ o.include_hidden \in BOOLEAN
  /\ o.respect_ignore_defaults \in BOOLEAN

(* A candidate that comes with its stat fields has them from the same      *)
(* answer st that fstatat would give.                                      *)
ConsistentCandidate(c, st) ==
  /\ st \in MetaRecords \cup {NoMeta}
  /\ DOMAIN c = CandidateFields
  /\ c.depth \in Nat
  /\ c.type_resolved \in BOOLEAN
  /\ c.stat_populated \in BOOLEAN
  /\ ~c.type_resolved => c.entry_type = "any"
  /\ c.stat_populated =>
       /\ st # NoMeta
       /\ c.size_bytes = st.size
       /\ c.modification_time = st.mtime
       /\ c.permission_mask = st.perm

-----------------------------------------------------------------------------
filter_ignored_directory_name(name) == name \in IgnoredNames

filter_glob_matches(pattern, value, case_insensitive) ==
  FnMatch(pattern, value, case_insensitive)

(* Both comparisons, unsigned for sizes and signed for ages. *)
filter_compare(left, right, op) ==
  CASE op = "greater" -> left > right
    [] op = "less"    -> left < right
    [] OTHER          -> left = right

(* The require_stat flag is what lets the evaluation skip fstatat.         *)
NeedsStat(o) ==
  \/ o.size_filter # None
  \/ o.mtime_filter # None
  \/ o.newer_reference_mtime # None
  \/ o.perm_mask # None

(* The options carry the fields of the predicate, the last two zeroed. *)
predicate_from_options(o, now) ==
  [o EXCEPT !.require_stat = NeedsStat(o), !.evaluation_reference_time = now]

(* fstatat on the candidate; a failed call leaves the candidate alone.     *)
filter_populate_stat(c, st) ==
  IF st = NoMeta THEN c
  ELSE [c EXCEPT
         !.entry_type = IF ~c.type_resolved \/ c.follow_symlinks_enabled
                        THEN st.type ELSE @,
         !.type_resolved = TRUE,
         !.size_bytes = st.size,
         !.modification_time = st.mtime,
         !.permission_mask = st.perm,
         !.stat_populated = TRUE]

Verdict(holds) == IF holds THEN ACCEPT ELSE REJECT

(* Mutant: one level more than --max-depth allows. *)
filter_check_depth_one_more(p, c) ==
  Verdict(/\ c.depth >= p.min_depth
          /\ p.max_depth # None => c.depth <= p.max_depth + 1)

filter_check_depth(p, c) ==
  Verdict(/\ c.depth >= p.min_depth
          /\ p.max_depth # None => c.depth <= p.max_depth)

filter_check_type(p, c) ==
  CASE p.type_filter = None -> ACCEPT
    [] p.type_filter # None /\ ~c.type_resolved -> STAT_REQUIRED
    [] OTHER -> Verdict(c.entry_type = p.type_filter)

filter_check_name(p, c) ==
  Verdict(p.name_glob # None =>
            filter_glob_matches(p.name_glob, c.basename, p.name_case_insensitive))

filter_check_path(p, c) ==
  Verdict(p.path_glob # None => filter_glob_matches(p.path_glob, c.path, FALSE))

(* A check that reads the stat fields answers STAT_REQUIRED without them.  *)
StatCheck(given, c, holds) ==
  CASE ~given -> ACCEPT
    [] given /\ ~c.stat_populated -> STAT_REQUIRED
    [] OTHER -> Verdict(holds)

filter_check_size(p, c) ==
  StatCheck(p.size_filter # None, c,
    filter_compare(c.size_bytes, p.size_filter.threshold, p.size_filter.op))

filter_check_mtime(p, c) ==
  StatCheck(p.mtime_filter # None, c,
    filter_compare(p.evaluation_reference_time - c.modification_time,
                   p.mtime_filter.threshold, p.mtime_filter.op))

filter_check_newer(p, c) ==
  StatCheck(p.newer_reference_mtime # None, c,
    c.modification_time > p.newer_reference_mtime)

filter_check_perm(p, c) ==
  StatCheck(p.perm_mask # None, c,
    c.permission_mask % 4096 = p.perm_mask % 4096)

(* The early returns of the evaluation: the first decision that is not     *)
(* ACCEPT is the answer.                                                   *)
AndThen(first, second) == IF first = ACCEPT THEN second ELSE first

(* The checks that need no stat, once the type is known. *)
CheapChecks(p, c) ==
  AndThen(filter_check_depth(p, c),
    AndThen(filter_check_type(p, c),
      AndThen(filter_check_name(p, c), filter_check_path(p, c))))

(* The checks that read the stat fields. *)
StatChecks(p, c) ==
  AndThen(filter_check_size(p, c),
    AndThen(filter_check_mtime(p, c),
      AndThen(filter_check_newer(p, c), filter_check_perm(p, c))))

(* Mutant: the second populate_stat is not guarded by ~stat_populated. *)
StatForFieldsAlways(p, c, cheap) == cheap = ACCEPT /\ p.require_stat

(* The type is unknown and asked for (line 246). *)
StatForType(p, c) ==
  /\ filter_check_depth(p, c) = ACCEPT
  /\ filter_check_type(p, c) = STAT_REQUIRED

(* A stat field is asked for and not there yet (line 266). *)
StatForFields(p, c, cheap) ==
  cheap = ACCEPT /\ p.require_stat /\ ~c.stat_populated

(* Mutant: a failed stat does not reject. *)
filter_evaluate_ignores_failed_stat(p, c, st) ==
  LET first == StatForType(p, c)
      typed == IF first THEN filter_populate_stat(c, st) ELSE c
      cheap == CheapChecks(p, typed)
      second == StatForFields(p, typed, cheap)
      full  == IF second THEN filter_populate_stat(typed, st) ELSE typed
  IN [decision   |-> AndThen(cheap, StatChecks(p, full)),
      candidate  |-> full,
      stat_calls |-> (IF first THEN 1 ELSE 0) + (IF second THEN 1 ELSE 0)]

(* bc_seek_filter_evaluate: the decision, the candidate as it is left      *)
(* behind, and how often fstatat was called.  st is what fstatat answers   *)
(* for the candidate's parent directory and basename.                      *)
filter_evaluate(p, c, st) ==
  LET first == StatForType(p, c)
      typed == IF first THEN filter_populate_stat(c, st) ELSE c
      cheap == CheapChecks(p, typed)
      second == StatForFields(p, typed, cheap)
      full  == IF second THEN filter_populate_stat(typed, st) ELSE typed
  IN [decision   |-> IF (first \/ second) /\ st = NoMeta THEN REJECT
                     ELSE AndThen(cheap, StatChecks(p, full)),
      candidate  |-> full,
      stat_calls |-> (IF first THEN 1 ELSE 0) + (IF second THEN 1 ELSE 0)]

-----------------------------------------------------------------------------
(***************************************************************************)
(* What the options ask for, said of an entry and not of an evaluation:    *)
(* e is [path, basename, depth, type], meta what stat truly says of it.    *)
(***************************************************************************)
Asks(option, holds) == option # None => holds

Selected(o, now, e, meta) ==
  /\ e.depth >= o.min_depth
  /\ Asks(o.max_depth, e.depth <= o.max_depth)
  /\ Asks(o.type_filter, e.type = o.type_filter)
  /\ Asks(o.name_glob, FnMatch(o.name_glob, e.basename, o.name_case_insensitive))
  /\ Asks(o.path_glob, FnMatch(o.path_glob, e.path, FALSE))
  /\ NeedsStat(o) => meta # NoMeta
  /\ Asks(o.size_filter,
       filter_compare(meta.size, o.size_filter.threshold, o.size_filter.op))
  /\ Asks(o.mtime_filter,
       filter_compare(now - meta.mtime, o.mtime_filter.threshold, o.mtime_filter.op))
  /\ Asks(o.newer_reference_mtime, meta.mtime > o.newer_reference_mtime)
  /\ Asks(o.perm_mask, meta.perm % 4096 = o.perm_mask % 4096)
=============================================================================
