--------------------------- MODULE MCWalkParallel ---------------------------
(***************************************************************************)
(* The parallel walk, two workers, on r/f, r/.h, r/s/g, r/i/j (an ignored  *)
(* name) and r/m/k (another device).  Beside r there are a directory q     *)
(* with a fifo p, and a file p that has the name of the fifo.              *)
(***************************************************************************)
EXTENDS WalkParallel

MCInodes == {"cwd", "r", "f", "h", "s", "g", "m", "k", "i", "j", "q", "fifo", "p"}

Entry == [
  none |-> <<NoInode, "none", NoInode>>,
  r    |-> <<"cwd", "r",  "r">>,
  rf   |-> <<"r",   "f",  "f">>,
  rh   |-> <<"r",   ".h", "h">>,
  rs   |-> <<"r",   "s",  "s">>,
  sg   |-> <<"s",   "g",  "g">>,
  rm   |-> <<"r",   "m",  "m">>,
  mk   |-> <<"m",   "k",  "k">>,
  ri   |-> <<"r",   "i",  "i">>,
  ij   |-> <<"i",   "j",  "j">>,
  q    |-> <<"cwd", "q",  "q">>,
  qp   |-> <<"q",   "p",  "fifo">>,
  p    |-> <<"cwd", "p",  "p">>]

MCDirents == DOMAIN Entry
MCHolderOf == [e \in MCDirents |-> Entry[e][1]]
MCNameOf == [e \in MCDirents |-> Entry[e][2]]
MCLinkOf == [e \in MCDirents |-> Entry[e][3]]
MCNames == {MCNameOf[e] : e \in MCDirents}

(* The arguments none, r, q, p, r/f, r/s and so on. *)
MCArgNames == [e \in MCDirents |->
  CASE MCHolderOf[e] = "r" -> <<"r", MCNameOf[e]>>
    [] e = "qp" -> <<"q", "p">>
    [] OTHER -> <<MCNameOf[e]>>]

MCMeta == [n \in MCInodes |->
  [type |-> CASE n \in {"cwd", "r", "s", "m", "i", "q"} -> "directory"
              [] n = "fifo" -> "any"
              [] OTHER -> "file",
   size |-> IF n \in {"f", "k"} THEN 1 ELSE 2, mtime |-> 1, perm |-> 420,
   dev |-> IF n \in {"m", "k"} THEN 2 ELSE 1]]

MCFnMatch(pattern, value, casefold) == value \in pattern

NoOptions ==
  [name_glob |-> None, name_case_insensitive |-> FALSE, path_glob |-> None,
   type_filter |-> None, size_filter |-> None, mtime_filter |-> None,
   newer_reference_mtime |-> None, perm_mask |-> None,
   max_depth |-> None, min_depth |-> 0,
   include_hidden |-> FALSE, respect_ignore_defaults |-> TRUE,
   require_stat |-> FALSE, evaluation_reference_time |-> 0]

Config(options, roots, follow, onefs) ==
  [options |-> options, roots |-> roots, follow_symlinks |-> follow, one_file_system |-> onefs]

FilesOnly == [NoOptions EXCEPT !.type_filter = "file", !.include_hidden = TRUE,
                               !.respect_ignore_defaults = FALSE]
BigFiles == [NoOptions EXCEPT !.size_filter = [op |-> "greater", threshold |-> 1],
                              !.max_depth = 1]

(* Searches that stay on one device, or are not asked to. *)
PlainConfigs == {
  Config(FilesOnly, <<"r">>, FALSE, FALSE),
  Config(BigFiles, <<"none", "rs", "rf", "r">>, FALSE, FALSE),
  Config(NoOptions, <<"rs", "rm", "rs">>, FALSE, FALSE),
  Config(BigFiles, <<"rs", "rm">>, FALSE, FALSE),
  Config([NoOptions EXCEPT !.max_depth = 0], <<>>, FALSE, TRUE)}

(* --one-file-system where a mount point is met. *)
MountConfigs == {Config(FilesOnly, <<"r">>, FALSE, TRUE),
                 Config(NoOptions, <<"r">>, TRUE, TRUE)}

(* --one-file-system with roots on both devices. *)
TwoDeviceConfigs == {Config(NoOptions, <<"rs", "rm">>, FALSE, TRUE),
                     Config(NoOptions, <<"rm", "rf", "rs">>, FALSE, TRUE)}

(* --type f where a fifo is met. *)
FifoConfigs == {Config(FilesOnly, <<"q">>, FALSE, FALSE)}

AllConfigs == PlainConfigs \cup MountConfigs \cup TwoDeviceConfigs
=============================================================================
