---------------------------- MODULE FilterLemmas ----------------------------
(***************************************************************************)
(* What the operators of SeekFilter compute, for every set of options the  *)
(* command line can bind and every candidate a walker can build.  The      *)
(* proofs about the filter and about both walks rest on these.  The first  *)
(* section, induction over numbers by way of a set, serves all the proofs. *)
(***************************************************************************)
EXTENDS SeekFilter, WellFoundedInduction, TLAPS

-----------------------------------------------------------------------------
(* Natural numbers, for all the proofs. *)

(* A set that has 0, and with every number the next, has them all. *)
LEMMA InductionBySet ==
  ASSUME NEW S, 0 \in S, \A n \in Nat : n \in S => n + 1 \in S
  PROVE  \A n \in Nat : n \in S
  <1> DEFINE R == OpToRel(<, Nat)
             Others == {n \in Nat : n \notin S}
  <1> SUFFICES ASSUME Others # {} PROVE FALSE
    OBVIOUS
  <1>1. \E x \in Others : \A y \in Others : ~(<<y, x>> \in R)
    BY NatLessThanWellFounded, WFMin, Zenon
  <1>2. PICK x \in Others : \A y \in Others : ~(<<y, x>> \in R)
    BY <1>1
  <1>3. \A y \in Nat : <<y, x>> \in R <=> y < x
    BY DEF OpToRel
  <1>4. \A y \in Others : ~(y < x)
    BY <1>2, <1>3, Zenon
  <1>5. x \in Nat /\ x # 0 /\ x \notin S
    OBVIOUS
  <1>6. x - 1 \in Nat /\ x - 1 < x /\ (x - 1) + 1 = x
    BY <1>5
  <1>7. x - 1 \in S
    BY <1>4, <1>6
  <1> QED BY <1>5, <1>6, <1>7

(* The same up to a bound. *)
LEMMA InductionUpTo ==
  ASSUME NEW n \in Nat, NEW S, 0 \in S, \A k \in 0..(n - 1) : k \in S => k + 1 \in S
  PROVE  \A k \in 0..n : k \in S
<1> DEFINE T == {k \in Nat : k <= n => k \in S}
<1>1. 0 \in T
  OBVIOUS
<1>2. ASSUME NEW k \in Nat, k \in T PROVE k + 1 \in T
  <2>1. CASE k + 1 <= n
    BY <1>2, <2>1
  <2>2. CASE ~(k + 1 <= n)
    BY <2>2
  <2> QED BY <2>1, <2>2
<1>3. \A k \in Nat : k \in T
  <2> HIDE DEF T
  <2> QED BY <1>1, <1>2, InductionBySet
<1> QED BY <1>3

(* A set of natural numbers that is not empty has a least element. *)
LEMMA LeastNumber ==
  ASSUME NEW S, S \subseteq Nat, S # {}
  PROVE  \E x \in S : \A y \in S : x <= y
<1> DEFINE R == OpToRel(<, Nat)
<1>1. \E x \in S : \A y \in S : ~(<<y, x>> \in R)
  BY NatLessThanWellFounded, WFMin, Zenon
<1>2. \A x, y \in Nat : <<y, x>> \in R <=> y < x
  BY DEF OpToRel
<1>3. PICK x \in S : \A y \in S : ~(<<y, x>> \in R)
  BY <1>1
<1>4. \A y \in S : ~(y < x)
  BY <1>2, <1>3, Zenon
<1>5. \A y \in S : x <= y
  BY <1>4
<1> QED BY <1>5

-----------------------------------------------------------------------------
(* The filter. *)

(* The three decisions are different, bc_seek_filter_decision_t.           *)
LEMMA DecisionsDiffer ==
  ACCEPT # REJECT /\ ACCEPT # STAT_REQUIRED /\ REJECT # STAT_REQUIRED
  BY DEF ACCEPT, REJECT, STAT_REQUIRED

(* predicate_from_options copies the options and sets the two fields the   *)
(* options do not have.                                                    *)
LEMMA PredicateFields ==
  ASSUME NEW o, BoundOptions(o), NEW now
  PROVE  LET p == predicate_from_options(o, now)
         IN /\ p.require_stat = NeedsStat(o)
            /\ p.evaluation_reference_time = now
            /\ p.name_glob = o.name_glob
            /\ p.name_case_insensitive = o.name_case_insensitive
            /\ p.path_glob = o.path_glob
            /\ p.type_filter = o.type_filter
            /\ p.size_filter = o.size_filter
            /\ p.mtime_filter = o.mtime_filter
            /\ p.newer_reference_mtime = o.newer_reference_mtime
            /\ p.perm_mask = o.perm_mask
            /\ p.max_depth = o.max_depth
            /\ p.min_depth = o.min_depth
  BY DEF BoundOptions, predicate_from_options, OptionFields

(* A stat that is answered fills the fields and leaves the rest alone; the *)
(* type is replaced where it was open, or where links are followed.        *)
LEMMA PopulateFields ==
  ASSUME NEW c, NEW st, ConsistentCandidate(c, st), st # NoMeta
  PROVE  LET f == filter_populate_stat(c, st)
         IN /\ f.stat_populated /\ f.type_resolved
            /\ f.size_bytes = st.size
            /\ f.modification_time = st.mtime
            /\ f.permission_mask = st.perm
            /\ f.path = c.path /\ f.basename = c.basename /\ f.depth = c.depth
            /\ ~c.type_resolved => f.entry_type = st.type
  BY DEF ConsistentCandidate, filter_populate_stat, CandidateFields

-----------------------------------------------------------------------------
(* The checks without stat, once the type is known, decide like the        *)
(* conjunction of what they check: CheapChecks never answers STAT_REQUIRED *)
(* then.                                                                   *)
LEMMA CheapChecksMeaning ==
  ASSUME NEW p, NEW c, p.type_filter # None => c.type_resolved
  PROVE  /\ CheapChecks(p, c) \in {ACCEPT, REJECT}
         /\ CheapChecks(p, c) = ACCEPT <=>
              /\ filter_check_depth(p, c) = ACCEPT
              /\ Asks(p.type_filter, c.entry_type = p.type_filter)
              /\ Asks(p.name_glob,
                   FnMatch(p.name_glob, c.basename, p.name_case_insensitive))
              /\ Asks(p.path_glob, FnMatch(p.path_glob, c.path, FALSE))
  <1>1. filter_check_type(p, c) = Verdict(Asks(p.type_filter, c.entry_type = p.type_filter))
    BY DEF filter_check_type, Asks, Verdict
  <1>2. filter_check_name(p, c) = Verdict(Asks(p.name_glob,
          FnMatch(p.name_glob, c.basename, p.name_case_insensitive)))
    BY DEF filter_check_name, filter_glob_matches, Asks, Verdict
  <1>3. filter_check_path(p, c) = Verdict(Asks(p.path_glob, FnMatch(p.path_glob, c.path, FALSE)))
    BY DEF filter_check_path, filter_glob_matches, Asks, Verdict
  <1>4. filter_check_depth(p, c) \in {ACCEPT, REJECT}
    BY DEF filter_check_depth, Verdict
  <1> QED BY <1>1, <1>2, <1>3, <1>4, DecisionsDiffer DEF CheapChecks, AndThen, Verdict

(* So do the checks that read the stat fields, where the fields are there  *)
(* or none of them is asked for.                                           *)
LEMMA StatChecksMeaning ==
  ASSUME NEW p, NEW c, NeedsStat(p) => c.stat_populated
  PROVE  /\ StatChecks(p, c) \in {ACCEPT, REJECT}
         /\ StatChecks(p, c) = ACCEPT <=>
              /\ Asks(p.size_filter,
                   filter_compare(c.size_bytes, p.size_filter.threshold, p.size_filter.op))
              /\ Asks(p.mtime_filter,
                   filter_compare(p.evaluation_reference_time - c.modification_time,
                                  p.mtime_filter.threshold, p.mtime_filter.op))
              /\ Asks(p.newer_reference_mtime, c.modification_time > p.newer_reference_mtime)
              /\ Asks(p.perm_mask, c.permission_mask % 4096 = p.perm_mask % 4096)
  <1>1. ASSUME NEW option, NEW holds, option # None => c.stat_populated
        PROVE  StatCheck(option # None, c, holds) = Verdict(Asks(option, holds))
    BY <1>1 DEF StatCheck, Verdict, Asks
  <1>2. filter_check_size(p, c) = Verdict(Asks(p.size_filter,
          filter_compare(c.size_bytes, p.size_filter.threshold, p.size_filter.op)))
    BY <1>1 DEF filter_check_size, NeedsStat
  <1>3. filter_check_mtime(p, c) = Verdict(Asks(p.mtime_filter,
          filter_compare(p.evaluation_reference_time - c.modification_time,
                         p.mtime_filter.threshold, p.mtime_filter.op)))
    BY <1>1 DEF filter_check_mtime, NeedsStat
  <1>4. filter_check_newer(p, c) =
          Verdict(Asks(p.newer_reference_mtime, c.modification_time > p.newer_reference_mtime))
    BY <1>1 DEF filter_check_newer, NeedsStat
  <1>5. filter_check_perm(p, c) =
          Verdict(Asks(p.perm_mask, c.permission_mask % 4096 = p.perm_mask % 4096))
    BY <1>1 DEF filter_check_perm, NeedsStat
  <1> QED BY <1>2, <1>3, <1>4, <1>5, DecisionsDiffer DEF StatChecks, AndThen, Verdict

-----------------------------------------------------------------------------
(* The entry behind a candidate, given what fstatat says of it: its type   *)
(* is the one the walker has if that was conclusive, else the one of stat. *)
EntryOf(c, st) ==
  [path |-> c.path, basename |-> c.basename, depth |-> c.depth,
   type |-> IF c.type_resolved \/ st = NoMeta THEN c.entry_type ELSE st.type]

(* filter_evaluate answers ACCEPT for the entries that are selected and    *)
(* REJECT for the others, along each of the ways it can take: with the     *)
(* stat for the type, with the stat for the fields, or without one.        *)
LEMMA EvaluateMeaning ==
  ASSUME NEW o, BoundOptions(o), NEW now, NEW c, NEW st, ConsistentCandidate(c, st)
  PROVE  LET d == filter_evaluate(predicate_from_options(o, now), c, st).decision
         IN /\ d \in {ACCEPT, REJECT}
            /\ d = ACCEPT <=> Selected(o, now, EntryOf(c, st), st)
  <1> DEFINE p == predicate_from_options(o, now)
             first == StatForType(p, c)
             typed == IF first THEN filter_populate_stat(c, st) ELSE c
             cheap == CheapChecks(p, typed)
             second == StatForFields(p, typed, cheap)
             full == IF second THEN filter_populate_stat(typed, st) ELSE typed
             d == IF (first \/ second) /\ st = NoMeta THEN REJECT
                  ELSE AndThen(cheap, StatChecks(p, full))
             e == EntryOf(c, st)
  <1>1. filter_evaluate(p, c, st).decision = d
    BY DEF filter_evaluate
  <1>2. /\ p.require_stat = NeedsStat(o) /\ p.evaluation_reference_time = now
        /\ p.name_glob = o.name_glob /\ p.path_glob = o.path_glob
        /\ p.name_case_insensitive = o.name_case_insensitive
        /\ p.type_filter = o.type_filter /\ p.size_filter = o.size_filter
        /\ p.mtime_filter = o.mtime_filter /\ p.perm_mask = o.perm_mask
        /\ p.newer_reference_mtime = o.newer_reference_mtime
        /\ p.max_depth = o.max_depth /\ p.min_depth = o.min_depth
    BY PredicateFields
  <1>3. NeedsStat(p) <=> NeedsStat(o)
    BY <1>2 DEF NeedsStat
  <1>4. /\ c.type_resolved \in BOOLEAN /\ c.stat_populated \in BOOLEAN
        /\ ~c.type_resolved => c.entry_type = "any"
        /\ c.stat_populated =>
             /\ st # NoMeta /\ c.size_bytes = st.size
             /\ c.modification_time = st.mtime /\ c.permission_mask = st.perm
    BY DEF ConsistentCandidate
  <1>5. o.type_filter = None \/ o.type_filter # "any"
    BY DEF BoundOptions
  <1>6. /\ e.path = c.path /\ e.basename = c.basename /\ e.depth = c.depth
        /\ e.type = IF c.type_resolved \/ st = NoMeta THEN c.entry_type ELSE st.type
    BY DEF EntryOf
  <1>7. st # NoMeta =>
          LET f == filter_populate_stat(c, st)
          IN /\ f.stat_populated /\ f.type_resolved
             /\ f.size_bytes = st.size /\ f.modification_time = st.mtime
             /\ f.permission_mask = st.perm
             /\ f.path = c.path /\ f.basename = c.basename /\ f.depth = c.depth
             /\ ~c.type_resolved => f.entry_type = st.type
    BY PopulateFields
  <1>8. \A f : f.depth = c.depth =>
          (filter_check_depth(p, f) = ACCEPT <=>
             /\ e.depth >= o.min_depth
             /\ Asks(o.max_depth, e.depth <= o.max_depth))
    BY <1>2, <1>6, DecisionsDiffer DEF filter_check_depth, Verdict, Asks
  <1> DEFINE cheapHolds ==
               /\ e.depth >= o.min_depth
               /\ Asks(o.max_depth, e.depth <= o.max_depth)
               /\ Asks(o.type_filter, e.type = o.type_filter)
               /\ Asks(o.name_glob, FnMatch(o.name_glob, e.basename, o.name_case_insensitive))
               /\ Asks(o.path_glob, FnMatch(o.path_glob, e.path, FALSE))
             statHolds ==
               /\ Asks(o.size_filter,
                    filter_compare(st.size, o.size_filter.threshold, o.size_filter.op))
               /\ Asks(o.mtime_filter,
                    filter_compare(now - st.mtime, o.mtime_filter.threshold, o.mtime_filter.op))
               /\ Asks(o.newer_reference_mtime, st.mtime > o.newer_reference_mtime)
               /\ Asks(o.perm_mask, st.perm % 4096 = o.perm_mask % 4096)
  <1>9. Selected(o, now, e, st) <=>
          cheapHolds /\ (NeedsStat(o) => st # NoMeta) /\ statHolds
    BY DEF Selected
  <1>10. \A f : /\ f.stat_populated => /\ f.size_bytes = st.size
                                       /\ f.modification_time = st.mtime
                                       /\ f.permission_mask = st.perm
                /\ NeedsStat(o) => f.stat_populated
                => /\ StatChecks(p, f) \in {ACCEPT, REJECT}
                   /\ StatChecks(p, f) = ACCEPT <=> statHolds
    <2> SUFFICES ASSUME NEW f, NeedsStat(o) => f.stat_populated,
                        f.stat_populated => /\ f.size_bytes = st.size
                                            /\ f.modification_time = st.mtime
                                            /\ f.permission_mask = st.perm
                 PROVE  /\ StatChecks(p, f) \in {ACCEPT, REJECT}
                        /\ StatChecks(p, f) = ACCEPT <=> statHolds
      OBVIOUS
    <2>1. CASE NeedsStat(o)
      BY <2>1, <1>2, <1>3, StatChecksMeaning
    <2>2. CASE ~NeedsStat(o)
      BY <2>2, <1>2, <1>3, StatChecksMeaning DEF NeedsStat, Asks
    <2> QED BY <2>1, <2>2
  <1>11. \A f : /\ f.path = c.path /\ f.basename = c.basename /\ f.depth = c.depth
                /\ o.type_filter # None => f.type_resolved /\ f.entry_type = e.type
                => /\ CheapChecks(p, f) \in {ACCEPT, REJECT}
                   /\ CheapChecks(p, f) = ACCEPT <=> cheapHolds
    <2> SUFFICES ASSUME NEW f, f.path = c.path, f.basename = c.basename, f.depth = c.depth,
                        o.type_filter # None => f.type_resolved /\ f.entry_type = e.type
                 PROVE  /\ CheapChecks(p, f) \in {ACCEPT, REJECT}
                        /\ CheapChecks(p, f) = ACCEPT <=> cheapHolds
      OBVIOUS
    <2>1. p.type_filter # None => f.type_resolved
      BY <1>2
    <2>2. Asks(p.type_filter, f.entry_type = p.type_filter)
            <=> Asks(o.type_filter, e.type = o.type_filter)
      BY <1>2 DEF Asks
    <2>3. filter_check_depth(p, f) = ACCEPT <=>
             /\ e.depth >= o.min_depth
             /\ Asks(o.max_depth, e.depth <= o.max_depth)
      BY <1>8
    <2> HIDE DEF p, e
    <2> QED BY <2>1, <2>2, <2>3, <1>2, <1>6, CheapChecksMeaning, ZenonT(60)
  <1> HIDE DEF p, cheapHolds, statHolds, e
  <1>12. CASE first /\ st = NoMeta
    <2>1. o.type_filter # None /\ ~c.type_resolved
      BY <1>12, <1>2, DecisionsDiffer DEF StatForType, filter_check_type, Verdict
    <2>2. ~cheapHolds
      BY <2>1, <1>4, <1>5, <1>6, <1>12 DEF cheapHolds, Asks
    <2> QED BY <2>2, <1>1, <1>9, <1>12, DecisionsDiffer DEF p, e
  <1>13. CASE first /\ st # NoMeta
    <2>1. o.type_filter # None /\ ~c.type_resolved
      BY <1>13, <1>2, DecisionsDiffer DEF StatForType, filter_check_type, Verdict
    <2>2. typed = filter_populate_stat(c, st)
      BY <1>13
    <2>3. cheap \in {ACCEPT, REJECT} /\ (cheap = ACCEPT <=> cheapHolds)
      BY <2>1, <2>2, <1>6, <1>7, <1>11, <1>13
    <2>4. ~second /\ full = typed
      BY <2>2, <1>7, <1>13 DEF StatForFields
    <2>5. StatChecks(p, full) \in {ACCEPT, REJECT} /\ (StatChecks(p, full) = ACCEPT <=> statHolds)
      BY <2>2, <2>4, <1>7, <1>10, <1>13
    <2> QED BY <2>3, <2>4, <2>5, <1>1, <1>9, <1>13, DecisionsDiffer DEF AndThen, p, e
  <1>14. CASE ~first
    <2>1. typed = c
      BY <1>14
    <2>2. CASE o.type_filter # None /\ ~c.type_resolved
      <3>1. filter_check_type(p, c) = STAT_REQUIRED
        BY <2>2, <1>2 DEF filter_check_type
      <3>2. filter_check_depth(p, c) = REJECT
        BY <3>1, <1>14 DEF StatForType, filter_check_depth, Verdict
      <3>3. cheap = REJECT /\ ~second
        BY <3>2, <2>1, DecisionsDiffer DEF CheapChecks, AndThen, StatForFields
      <3>4. ~cheapHolds
        BY <3>2, <1>8, DecisionsDiffer DEF cheapHolds
      <3> QED BY <3>3, <3>4, <1>1, <1>9, <1>14, DecisionsDiffer DEF AndThen, p, e
    <2>3. CASE o.type_filter # None => c.type_resolved
      <3>1. cheap \in {ACCEPT, REJECT} /\ (cheap = ACCEPT <=> cheapHolds)
        BY <2>1, <2>3, <1>6, <1>11
      <3>2. second <=> cheap = ACCEPT /\ NeedsStat(o) /\ ~c.stat_populated
        BY <2>1, <1>2 DEF StatForFields
      <3>3. CASE second /\ st = NoMeta
        BY <3>2, <3>3, <1>1, <1>9, DecisionsDiffer DEF p, e
      <3>4. CASE second /\ st # NoMeta
        <4>1. full = filter_populate_stat(c, st)
          BY <3>4, <2>1
        <4>2. StatChecks(p, full) \in {ACCEPT, REJECT} /\ (StatChecks(p, full) = ACCEPT <=> statHolds)
          BY <4>1, <3>4, <1>7, <1>10
        <4> QED BY <4>2, <3>1, <3>4, <1>1, <1>9, DecisionsDiffer DEF AndThen, p, e
      <3>5. CASE ~second
        <4>1. full = c
          BY <3>5, <2>1
        <4>2. CASE cheap = ACCEPT
          <5>1. NeedsStat(o) => c.stat_populated
            BY <4>2, <3>2, <3>5
          <5>2. StatChecks(p, c) \in {ACCEPT, REJECT} /\ (StatChecks(p, c) = ACCEPT <=> statHolds)
            BY <5>1, <1>4, <1>10
          <5>3. NeedsStat(o) => st # NoMeta
            BY <5>1, <1>4
          <5> QED BY <5>2, <5>3, <4>1, <4>2, <3>1, <3>5, <1>1, <1>9, <1>14, DecisionsDiffer
                  DEF AndThen, p, e
        <4>3. CASE cheap = REJECT
          BY <4>3, <3>1, <3>5, <1>1, <1>9, <1>14, DecisionsDiffer DEF AndThen, p, e
        <4> QED BY <4>2, <4>3, <3>1
      <3> QED BY <3>3, <3>4, <3>5
    <2> QED BY <2>2, <2>3
  <1> QED BY <1>12, <1>13, <1>14

-----------------------------------------------------------------------------
(* What else the callers rely on. *)

(* What is selected is within the depth limit and of the type asked for.   *)
LEMMA SelectedBounds ==
  \A o, now, e, meta :
    Selected(o, now, e, meta) =>
      /\ o.max_depth # None => e.depth <= o.max_depth
      /\ o.type_filter # None => e.type = o.type_filter
  BY DEF Selected, Asks

(* The evaluation hands the candidate back untouched or with one stat put  *)
(* into it.                                                                *)
LEMMA EvaluateCandidate ==
  \A p, c, st :
    "stat_populated" \in DOMAIN c =>
      filter_evaluate(p, c, st).candidate \in {c, filter_populate_stat(c, st)}
  <1> SUFFICES ASSUME NEW p, NEW c, NEW st, "stat_populated" \in DOMAIN c
               PROVE  filter_evaluate(p, c, st).candidate \in {c, filter_populate_stat(c, st)}
    OBVIOUS
  <1> DEFINE first == StatForType(p, c)
             typed == IF first THEN filter_populate_stat(c, st) ELSE c
             cheap == CheapChecks(p, typed)
             second == StatForFields(p, typed, cheap)
             full == IF second THEN filter_populate_stat(typed, st) ELSE typed
  <1>1. filter_evaluate(p, c, st).candidate = full
    BY DEF filter_evaluate
  <1>2. CASE st = NoMeta
    <2>1. \A f : filter_populate_stat(f, st) = f
      BY <1>2 DEF filter_populate_stat
    <2> QED BY <2>1, <1>1
  <1>3. CASE st # NoMeta /\ first
    <2>1. typed = filter_populate_stat(c, st)
      BY <1>3
    <2>2. typed.stat_populated
      BY <1>3, <2>1 DEF filter_populate_stat
    <2>3. ~second
      BY <2>2 DEF StatForFields
    <2> QED BY <2>1, <2>3, <1>1
  <1>4. CASE ~first
    BY <1>4, <1>1
  <1> QED BY <1>2, <1>3, <1>4

(* At most one stat is made, and only for a candidate worth it: its type   *)
(* is asked for and unknown, or every check without stat has accepted it   *)
(* and a field is still missing.                                           *)
LEMMA EvaluateStats ==
  ASSUME NEW o, BoundOptions(o), NEW now, NEW c, NEW st, ConsistentCandidate(c, st)
  PROVE  LET calls == filter_evaluate(predicate_from_options(o, now), c, st).stat_calls
         IN /\ calls <= 1
            /\ calls = 1 =>
                 /\ filter_check_depth(o, c) = ACCEPT
                 /\ \/ o.type_filter # None /\ ~c.type_resolved
                    \/ /\ NeedsStat(o) /\ ~c.stat_populated
                       /\ CheapChecks(o, c) = ACCEPT
  <1> DEFINE p == predicate_from_options(o, now)
             first == StatForType(p, c)
             typed == IF first THEN filter_populate_stat(c, st) ELSE c
             cheap == CheapChecks(p, typed)
             second == StatForFields(p, typed, cheap)
             calls == (IF first THEN 1 ELSE 0) + (IF second THEN 1 ELSE 0)
  <1>1. filter_evaluate(p, c, st).stat_calls = calls
    BY DEF filter_evaluate
  <1>2. /\ p.require_stat = NeedsStat(o) /\ p.type_filter = o.type_filter
        /\ p.name_glob = o.name_glob /\ p.path_glob = o.path_glob
        /\ p.name_case_insensitive = o.name_case_insensitive
        /\ p.max_depth = o.max_depth /\ p.min_depth = o.min_depth
    BY PredicateFields
  <1> HIDE DEF p
  <1>3. /\ filter_check_depth(p, c) = filter_check_depth(o, c)
        /\ CheapChecks(p, c) = CheapChecks(o, c)
    BY <1>2 DEF CheapChecks, filter_check_depth, filter_check_type, filter_check_name,
       filter_check_path
  <1>4. first => o.type_filter # None /\ ~c.type_resolved
    BY <1>2, DecisionsDiffer DEF StatForType, filter_check_type, Verdict
  <1>5. first => ~second
    <2>1. CASE st # NoMeta
      BY <2>1, PopulateFields DEF StatForFields
    <2>2. CASE st = NoMeta
      <3>1. typed = c
        BY <2>2 DEF filter_populate_stat
      <3>2. first => cheap = STAT_REQUIRED
        BY <3>1, DecisionsDiffer DEF StatForType, CheapChecks, AndThen
      <3> QED BY <3>2, DecisionsDiffer DEF StatForFields
    <2> QED BY <2>1, <2>2
  <1>6. CASE first
    BY <1>1, <1>3, <1>4, <1>5, <1>6 DEF StatForType, p
  <1>7. CASE ~first /\ second
    <2>1. /\ CheapChecks(p, c) = ACCEPT /\ NeedsStat(o) /\ ~c.stat_populated
      BY <1>2, <1>7 DEF StatForFields
    <2>2. filter_check_depth(p, c) = ACCEPT
      BY <2>1, DecisionsDiffer DEF CheapChecks, AndThen, filter_check_depth, Verdict
    <2> QED BY <2>1, <2>2, <1>1, <1>3, <1>7 DEF p
  <1>8. CASE ~first /\ ~second
    BY <1>1, <1>8 DEF p
  <1> QED BY <1>6, <1>7, <1>8

(* A candidate that has its type or is not asked for it, and has its stat  *)
(* fields or is not asked for them, is decided without fstatat: what that  *)
(* would answer is the same.                                               *)
LEMMA AnswerUnused ==
  ASSUME NEW p, NEW c, p.type_filter = None \/ c.type_resolved,
         c.stat_populated \/ ~p.require_stat, NEW st, NEW other
  PROVE  filter_evaluate(p, c, st).decision = filter_evaluate(p, c, other).decision
  <1>1. ~StatForType(p, c)
    BY DecisionsDiffer DEF StatForType, filter_check_type, Verdict
  <1>2. \A cheap : ~StatForFields(p, c, cheap)
    BY DEF StatForFields
  <1>3. \A a : filter_evaluate(p, c, a).decision = AndThen(CheapChecks(p, c), StatChecks(p, c))
    BY <1>1, <1>2 DEF filter_evaluate
  <1> QED BY <1>3

(* A candidate of unknown type that is asked for its type is not accepted  *)
(* if the stat fails, or knows no better.                                  *)
LEMMA UnknownTypeRejected ==
  ASSUME NEW o, BoundOptions(o), NEW now, NEW c, DOMAIN c = CandidateFields,
         ~c.type_resolved, o.type_filter # None,
         NEW st, st = NoMeta \/ st.type = "any"
  PROVE  filter_evaluate(predicate_from_options(o, now), c, st).decision # ACCEPT
  <1> DEFINE p == predicate_from_options(o, now)
             first == StatForType(p, c)
             typed == IF first THEN filter_populate_stat(c, st) ELSE c
             cheap == CheapChecks(p, typed)
  <1>1. p.type_filter = o.type_filter /\ o.type_filter # "any"
    BY PredicateFields DEF BoundOptions
  <1> HIDE DEF p
  <1>2. filter_check_type(p, c) = STAT_REQUIRED
    BY <1>1 DEF filter_check_type
  <1>3. first /\ st # NoMeta => cheap # ACCEPT
    <2> SUFFICES ASSUME first, st # NoMeta PROVE cheap # ACCEPT
      OBVIOUS
    <2>1. typed.type_resolved /\ typed.entry_type = st.type
      BY DEF filter_populate_stat, CandidateFields
    <2> HIDE DEF typed
    <2>2. filter_check_type(p, typed) = REJECT
      BY <2>1, <1>1 DEF filter_check_type, Verdict
    <2> QED BY <2>2, DecisionsDiffer DEF CheapChecks, AndThen
  <1>4. ~first => cheap # ACCEPT
    BY <1>2, DecisionsDiffer DEF CheapChecks, AndThen
  <1> HIDE DEF first, cheap
  <1>5. filter_evaluate(p, c, st).decision # ACCEPT
    <2>1. \E second, full :
            filter_evaluate(p, c, st).decision
              = IF (first \/ second) /\ st = NoMeta THEN REJECT
                ELSE AndThen(cheap, StatChecks(p, full))
      <3> WITNESS StatForFields(p, typed, cheap),
                  IF StatForFields(p, typed, cheap) THEN filter_populate_stat(typed, st) ELSE typed
      <3> QED BY DEF filter_evaluate, first, cheap
    <2> QED BY <2>1, <1>3, <1>4, DecisionsDiffer DEF AndThen
  <1> QED BY <1>5 DEF p

(* What is accepted although the stat fails was decided without one, and   *)
(* so is accepted whatever the stat answers.                               *)
LEMMA AcceptedUnasked ==
  ASSUME NEW p, NEW c, filter_evaluate(p, c, NoMeta).decision = ACCEPT, NEW st
  PROVE  filter_evaluate(p, c, st).decision = ACCEPT
  <1> DEFINE second == StatForFields(p, c, CheapChecks(p, c))
  <1>1. ~StatForType(p, c) /\ ~second
    BY DecisionsDiffer DEF filter_evaluate
  <1>2. \A a : filter_evaluate(p, c, a).decision = AndThen(CheapChecks(p, c), StatChecks(p, c))
    BY <1>1 DEF filter_evaluate
  <1> QED BY <1>2
=============================================================================
