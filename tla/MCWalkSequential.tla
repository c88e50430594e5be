-------------------------- MODULE MCWalkSequential --------------------------
(***************************************************************************)
(* The sequential walk on a small tree that has one of everything:         *)
(*                                                                         *)
(*   r/            the root                                                *)
(*     f           a file                                                  *)
(*     s/          a directory with a file g, a fifo p and a directory d   *)
(*     s/d/x       too deep for the path capacity                          *)
(*     l -> s      a link to a directory                                   *)
(*     m/          a mount point, with a file k on the other device        *)
(*     .h          a hidden file                                           *)
(*     i/          a directory with an ignored name, with a file j         *)
(***************************************************************************)
EXTENDS WalkSequential

MCInodes == {"cwd", "r", "f", "s", "g", "p", "d", "x", "l", "m", "k", "h", "i", "j"}

Entry == [
  dot   |-> <<NoInode, ".",  "r">>,
  r     |-> <<"cwd",   "r",  "r">>,
  none  |-> <<NoInode, "none", NoInode>>,
  long  |-> <<NoInode, "f",  "f">>,
  rf    |-> <<"r",     "f",  "f">>,
  rs    |-> <<"r",     "s",  "s">>,
  sg    |-> <<"s",     "g",  "g">>,
  sp    |-> <<"s",     "p",  "p">>,
  sd    |-> <<"s",     "d",  "d">>,
  dx    |-> <<"d",     "x",  "x">>,
  rl    |-> <<"r",     "l",  "l">>,
  rm    |-> <<"r",     "m",  "m">>,
  mk    |-> <<"m",     "k",  "k">>,
  rh    |-> <<"r",     ".h", "h">>,
  ri    |-> <<"r",     "i",  "i">>,
  ij    |-> <<"i",     "j",  "j">>]

MCDirents == DOMAIN Entry
MCHolderOf == [e \in MCDirents |-> Entry[e][1]]
MCNameOf == [e \in MCDirents |-> Entry[e][2]]
MCLinkOf == [e \in MCDirents |-> Entry[e][3]]
MCTargetOf == [MCLinkOf EXCEPT !["rl"] = "s"]
MCNames == {MCNameOf[e] : e \in MCDirents} \cup {".."}

Kind(t, size, dev) == [type |-> t, size |-> size, mtime |-> 1, perm |-> 420, dev |-> dev]
MCMeta == [n \in MCInodes |->
  CASE n \in {"cwd", "r", "s", "d", "i"} -> Kind("directory", 1, 1)
    [] n = "m" -> Kind("directory", 1, 2)
    [] n = "k" -> Kind("file", 2, 2)
    [] n = "p" -> Kind("any", 0, 1)
    [] n = "l" -> Kind("symlink", 1, 1)
    [] n = "f" -> Kind("file", 1, 1)
    [] OTHER   -> Kind("file", 2, 1)]

(* The arguments r/../r/f, r/f, r/s, r/s/p and r/m; one component else. *)
MCArgNames == [e \in MCDirents |->
  CASE e = "long" -> <<"r", "..", "r", "f">>
    [] e = "rf" -> <<"r", "f">>
    [] e = "rs" -> <<"r", "s">>
    [] e = "sp" -> <<"r", "s", "p">>
    [] e = "rm" -> <<"r", "m">>
    [] OTHER -> <<MCNameOf[e]>>]

(* A pattern is the set of the names it matches. *)
MCFnMatch(pattern, value, casefold) == value \in pattern

NoOptions ==
  [name_glob |-> None, name_case_insensitive |-> FALSE, path_glob |-> None,
   type_filter |-> None, size_filter |-> None, mtime_filter |-> None,
   newer_reference_mtime |-> None, perm_mask |-> None,
   max_depth |-> None, min_depth |-> 0,
   include_hidden |-> FALSE, respect_ignore_defaults |-> TRUE,
   require_stat |-> FALSE, evaluation_reference_time |-> 0]

Config(options, roots, follow, onefs) ==
  [options |-> options, roots |-> roots, follow_symlinks |-> follow, one_file_system |-> onefs]

MCConfigs == {
  Config(NoOptions, <<"r">>, FALSE, FALSE),
  Config([NoOptions EXCEPT !.type_filter = "file",
                           !.size_filter = [op |-> "greater", threshold |-> 1]],
         <<>>, TRUE, FALSE),
  Config([NoOptions EXCEPT !.include_hidden = TRUE, !.respect_ignore_defaults = FALSE],
         <<"none", "r">>, FALSE, TRUE),
  Config([NoOptions EXCEPT !.max_depth = 1, !.name_glob = {"f", "g", "r"}],
         <<"long", "rf", "r">>, FALSE, FALSE),
  Config([NoOptions EXCEPT !.max_depth = 0, !.min_depth = 0],
         <<"r", "rs", "r">>, TRUE, TRUE),
  Config([NoOptions EXCEPT !.type_filter = "directory", !.min_depth = 1],
         <<"rs", "sp", "rm">>, TRUE, FALSE),
  Config(NoOptions, <<"rs", "rm">>, FALSE, TRUE),
  Config([NoOptions EXCEPT !.max_depth = 1], <<"none", "rm", "rs", "rf">>, TRUE, TRUE)}
=============================================================================
