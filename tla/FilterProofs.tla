---------------------------- MODULE FilterProofs ----------------------------
(***************************************************************************)
(* Proofs about the predicate evaluation, for every set of options and     *)
(* every candidate that meets the assumptions of FilterCheck.              *)
(***************************************************************************)
EXTENDS FilterCheck, FilterLemmas

(* What the steps keep: the inputs are never changed, and the result is    *)
(* the evaluation of these inputs.                                         *)
Evaluation ==
  /\ options \in OptionSets
  /\ \E x \in Candidates : candidate = x.candidate /\ answer = x.answer
  /\ result # None =>
       result = filter_evaluate(predicate_from_options(options, Now), candidate, answer)

(* Every state of the check holds the evaluation of its own inputs.        *)
LEMMA EvaluationInvariant == Spec => []Evaluation
  <1>1. Init => Evaluation
    BY DEF Init, Evaluation
  <1>2. Evaluation /\ [Next]_vars => Evaluation'
    BY DEF Evaluation, Next, Evaluate, Evaluated, vars
  <1> QED BY <1>1, <1>2, PTL DEF Spec

(* No evaluation leaves STAT_REQUIRED to a walker, which would drop the    *)
(* entry: bc_seek_filter_evaluate, for any options the command line binds. *)
THEOREM EvaluationIsFinal == Spec => []VerdictIsFinal
  <1>1. Evaluation => VerdictIsFinal
    BY EvaluateMeaning, OptionsAssumption, CandidatesAssumption DEF Evaluation, VerdictIsFinal
  <1> QED BY <1>1, EvaluationInvariant, PTL

(* The lazy evaluation of bc_seek_filter_evaluate is the conjunction of    *)
(* what the options ask for, for all options and candidates.               *)
THEOREM EvaluationIsSelection == Spec => []VerdictMatchesReference
  <1>1. Evaluation => VerdictMatchesReference
    <2> SUFFICES ASSUME Evaluation, result # None
                 PROVE  result.decision = ACCEPT <=> Selected(options, Now, Entry, answer)
      BY DEF VerdictMatchesReference
    <2>1. PICK x \in Candidates : candidate = x.candidate /\ answer = x.answer
      BY DEF Evaluation
    <2>2. Entry = EntryOf(x.candidate, x.answer)
      BY <2>1 DEF Entry, EntryOf
    <2> QED BY <2>1, <2>2, EvaluateMeaning, OptionsAssumption, CandidatesAssumption DEF Evaluation
  <1> QED BY <1>1, EvaluationInvariant, PTL

(* bc_seek_filter_evaluate calls fstatat at most once, and for no          *)
(* candidate that the checks without stat can decide: for all options and  *)
(* candidates, with fstatat answering or failing.                          *)
THEOREM StatsAreLazy == Spec => []StatIsLazy
  <1>1. Evaluation => StatIsLazy
    <2> SUFFICES ASSUME Evaluation, result # None
                 PROVE  result.stat_calls <= 1 /\ (result.stat_calls = 1 => WorthAStat)
      BY DEF StatIsLazy
    <2>1. PICK x \in Candidates : candidate = x.candidate /\ answer = x.answer
      BY DEF Evaluation
    <2>2. BoundOptions(options) /\ ConsistentCandidate(candidate, answer)
      BY <2>1, OptionsAssumption, CandidatesAssumption DEF Evaluation
    <2>3. result = filter_evaluate(predicate_from_options(options, Now), candidate, answer)
      BY DEF Evaluation
    <2> QED BY <2>2, <2>3, EvaluateStats DEF WorthAStat
  <1> QED BY <1>1, EvaluationInvariant, PTL
=============================================================================
