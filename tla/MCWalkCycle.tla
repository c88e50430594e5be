----------------------------- MODULE MCWalkCycle -----------------------------
(***************************************************************************)
(* The sequential walk where links lead back: r/f, r/.h, r/s/g and         *)
(* r/s/l -> r, so that with --follow-symlinks the tree has no bottom.      *)
(***************************************************************************)
EXTENDS WalkSequential

MCInodes == {"cwd", "r", "f", "h", "s", "g", "l"}

Entry == [
  r  |-> <<"cwd", "r",  "r">>,
  rf |-> <<"r",   "f",  "f">>,
  rh |-> <<"r",   ".h", "h">>,
  rs |-> <<"r",   "s",  "s">>,
  sg |-> <<"s",   "g",  "g">>,
  sl |-> <<"s",   "l",  "l">>]

MCDirents == DOMAIN Entry
MCHolderOf == [e \in MCDirents |-> Entry[e][1]]
MCNameOf == [e \in MCDirents |-> Entry[e][2]]
MCLinkOf == [e \in MCDirents |-> Entry[e][3]]
MCTargetOf == [MCLinkOf EXCEPT !["sl"] = "r"]
MCNames == {MCNameOf[e] : e \in MCDirents}
MCArgNames == [e \in MCDirents |->
  CASE e = "rf" -> <<"r", "f">>
    [] e = "rs" -> <<"r", "s">>
    [] OTHER -> <<MCNameOf[e]>>]

MCMeta == [n \in MCInodes |->
  [type |-> CASE n \in {"cwd", "r", "s"} -> "directory"
              [] n = "l" -> "symlink"
              [] OTHER -> "file",
   size |-> 1, mtime |-> 1, perm |-> 420, dev |-> 1]]

MCFnMatch(pattern, value, casefold) == value \in pattern

NoOptions ==
  [name_glob |-> None, name_case_insensitive |-> FALSE, path_glob |-> None,
   type_filter |-> None, size_filter |-> None, mtime_filter |-> None,
   newer_reference_mtime |-> None, perm_mask |-> None,
   max_depth |-> None, min_depth |-> 0,
   include_hidden |-> FALSE, respect_ignore_defaults |-> TRUE,
   require_stat |-> FALSE, evaluation_reference_time |-> 0]

MCOptions ==
  {NoOptions, [NoOptions EXCEPT !.max_depth = 1], [NoOptions EXCEPT !.type_filter = "file"]}

MCConfigs ==
  {[options |-> o, roots |-> roots, follow_symlinks |-> f, one_file_system |-> FALSE] :
      o \in MCOptions, f \in BOOLEAN, roots \in {<<"r">>, <<"rf", "rs">>}}
=============================================================================
