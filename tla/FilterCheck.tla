---------------------------- MODULE FilterCheck ----------------------------
(***************************************************************************)
(* One evaluation of the predicate on one candidate, for every combination *)
(* of options and every candidate the two walkers build, with fstatat      *)
(* answering or failing.  The lazy evaluation of bc_seek_filter.c is       *)
(* compared with the plain conjunction Selected.                           *)
(***************************************************************************)
EXTENDS SeekFilter

CONSTANTS
  OptionSets,   \* the bound options to try
  Candidates,   \* [candidate, answer]: a candidate and what fstatat says
  Now           \* time(NULL) when the predicate is built

VARIABLES
  options,      \* bc_seek_cli_options_t
  candidate,    \* bc_seek_candidate_t, before the evaluation
  answer,       \* the answer fstatat would give for it
  result        \* None, then what the evaluation returned

vars == <<options, candidate, answer, result>>

ASSUME OptionsAssumption == \A o \in OptionSets : BoundOptions(o)

ASSUME CandidatesAssumption ==
  \A x \in Candidates : ConsistentCandidate(x.candidate, x.answer)

Init ==
  /\ options \in OptionSets
  /\ \E x \in Candidates : candidate = x.candidate /\ answer = x.answer
  /\ result = None

Evaluate ==
  /\ result = None
  /\ result' = filter_evaluate(predicate_from_options(options, Now), candidate, answer)
  /\ UNCHANGED <<options, candidate, answer>>

Evaluated == result # None /\ UNCHANGED vars

Next == Evaluate \/ Evaluated

Spec == Init /\ [][Next]_vars

-----------------------------------------------------------------------------
(* The entry behind the candidate: its type is the one the walker already  *)
(* has if that was conclusive, the one stat gives otherwise.               *)
Entry ==
  [path |-> candidate.path, basename |-> candidate.basename,
   depth |-> candidate.depth,
   type |-> IF candidate.type_resolved \/ answer = NoMeta
            THEN candidate.entry_type ELSE answer.type]

(* The evaluation accepts exactly the entries the options select, whatever *)
(* order its checks run in and whichever of the two stats it makes:        *)
(* filter_evaluate, bc_seek_filter.c:235.                                  *)
VerdictMatchesReference ==
  result # None =>
    (result.decision = ACCEPT <=> Selected(options, Now, Entry, answer))

(* STAT_REQUIRED never leaves the evaluation: require_stat covers every    *)
(* check that can answer it (bc_seek_filter.c:109).  The walkers take any  *)
(* decision but ACCEPT for a rejection, so a leak would lose matches.      *)
VerdictIsFinal ==
  result # None => result.decision \in {ACCEPT, REJECT}

(* The candidate that decided is worth a stat: the type was asked for and  *)
(* unknown, or every check that needs no stat had accepted.                *)
WorthAStat ==
  /\ filter_check_depth(options, candidate) = ACCEPT
  /\ \/ options.type_filter # None /\ ~candidate.type_resolved
     \/ /\ NeedsStat(options) /\ ~candidate.stat_populated
        /\ CheapChecks(options, candidate) = ACCEPT

(* The evaluation calls fstatat at most once, and only for a candidate     *)
(* that is worth it: "zero stat syscalls" of CHANGELOG.md.                 *)
StatIsLazy ==
  result # None =>
    /\ result.stat_calls <= 1
    /\ result.stat_calls = 1 => WorthAStat
=============================================================================
