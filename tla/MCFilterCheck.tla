--------------------------- MODULE MCFilterCheck ---------------------------
(***************************************************************************)
(* FilterCheck on a few values of every option and every shape of          *)
(* candidate: from getdents (d_type conclusive or not, stat to be made)    *)
(* and from a stat already made (roots, entries of the parallel walk).     *)
(***************************************************************************)
EXTENDS FilterCheck

(* No entry comes from a tree here: the tree is one empty directory. *)
Empty == <<>>
MCMeta == [i \in Inodes |-> [type |-> "directory", size |-> 0, mtime |-> 0, perm |-> 0, dev |-> 1]]

MCNames == {"ax", "AX"}

MCFnMatch(pattern, value, casefold) ==
  value \in (IF casefold THEN pattern.folded ELSE pattern.exact)

NameGlob == [exact |-> {"ax"}, folded |-> {"ax", "AX"}]
PathGlob == [exact |-> {"r/ax"}, folded |-> {"r/ax", "R/AX"}]

Metas ==
  [type : {"file", "any"}, size : {1, 2}, mtime : {3, 5}, perm : {420, 448}, dev : {1}]
    \cup {[type |-> "symlink", size |-> 2, mtime |-> 5, perm |-> 420, dev |-> 1]}

MCOptionSets ==
  {[name_glob |-> n[1], name_case_insensitive |-> n[2], path_glob |-> p,
    type_filter |-> t, size_filter |-> s, mtime_filter |-> m,
    newer_reference_mtime |-> w, perm_mask |-> q,
    max_depth |-> d[2], min_depth |-> d[1],
    include_hidden |-> FALSE, respect_ignore_defaults |-> TRUE,
    require_stat |-> FALSE, evaluation_reference_time |-> 0] :
      n \in {<<None, FALSE>>, <<NameGlob, FALSE>>, <<NameGlob, TRUE>>},
      p \in {None, PathGlob},
      t \in {None, "file"},
      s \in {None, [op |-> "greater", threshold |-> 1], [op |-> "equal", threshold |-> 1]},
      m \in {None, [op |-> "less", threshold |-> 5]},
      w \in {None, 3},
      q \in {None, 420},
      d \in {<<0, None>>, <<1, 1>>}}

Blank(name, depth, follow) ==
  [path |-> IF name = "ax" THEN "r/ax" ELSE "r/AX", basename |-> name,
   depth |-> depth, entry_type |-> "any", type_resolved |-> FALSE,
   size_bytes |-> 0, modification_time |-> 0, permission_mask |-> 0,
   stat_populated |-> FALSE, follow_symlinks_enabled |-> follow]

WithType(c, t) == [c EXCEPT !.entry_type = t, !.type_resolved = (t # "any")]

WithStat(c, m) ==
  [WithType(c, m.type) EXCEPT
     !.size_bytes = m.size, !.modification_time = m.mtime,
     !.permission_mask = m.perm, !.stat_populated = TRUE]

(* d_type of an entry whose stat says m: silent, or m's own type, or a     *)
(* link that is followed.                                                  *)
DTypes(m, follow) == {"any", m.type} \cup (IF follow THEN {"symlink"} ELSE {})

MCCandidates ==
  LET metas(follow) == {m \in Metas : follow => m.type # "symlink"}
      blank(follow) == {Blank(n, k, follow) : n \in MCNames, k \in {0, 1, 2}}
      fromDirent(follow) ==
        {[candidate |-> WithType(x[1], t), answer |-> x[2]] :
           x \in blank(follow) \X metas(follow), t \in {"any", "file", "symlink"}}
      truthful(follow) ==
        {y \in fromDirent(follow) : y.candidate.entry_type \in DTypes(y.answer, follow)}
      gone(follow) ==
        {[candidate |-> WithType(c, t), answer |-> NoMeta] :
           c \in blank(follow), t \in {"any", "file", "symlink"}}
      stated(follow) ==
        {[candidate |-> WithStat(x[1], x[2]), answer |-> x[2]] :
           x \in blank(follow) \X metas(follow)}
  IN UNION {truthful(f) \cup gone(f) \cup stated(f) : f \in BOOLEAN}
=============================================================================
