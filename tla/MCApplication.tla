--------------------------- MODULE MCApplication ---------------------------
(***************************************************************************)
(* Whole runs of the program on r/f and r/s/g, on machines with one, two   *)
(* and four processors.  The writer holds two matches, so that a search    *)
(* with three makes it flush in between.                                   *)
(***************************************************************************)
EXTENDS Application

MCInodes == {"cwd", "r", "f", "s", "g"}

Entry == [
  r  |-> <<"cwd", "r", "r">>,
  rf |-> <<"r",   "f", "f">>,
  rs |-> <<"r",   "s", "s">>,
  sg |-> <<"s",   "g", "g">>]

MCDirents == DOMAIN Entry
MCHolderOf == [e \in MCDirents |-> Entry[e][1]]
MCNameOf == [e \in MCDirents |-> Entry[e][2]]
MCLinkOf == [e \in MCDirents |-> Entry[e][3]]
MCNames == {MCNameOf[e] : e \in MCDirents}
MCArgNames == [r |-> <<"r">>, rf |-> <<"r", "f">>, rs |-> <<"r", "s">>, sg |-> <<"r", "s", "g">>]

MCMeta == [n \in MCInodes |->
  [type |-> IF n \in {"f", "g"} THEN "file" ELSE "directory",
   size |-> IF n = "g" THEN 9 ELSE 1, mtime |-> 1, perm |-> 420, dev |-> 1]]

MCFnMatch(pattern, value, casefold) == pattern = <<value>>

MCMultiplier == [c |-> 1, b |-> 8]
MCReferenceMtime == [t \in {<<"ref">>} |-> 0]

MCMachines == {[logical |-> 1, physical |-> 1], [logical |-> 2, physical |-> 1],
               [logical |-> 4, physical |-> 2]}

Find(given, roots) == [request |-> "find", given |-> given, roots |-> roots]
Nothing == [o \in {} |-> None]

MCCommandLines ==
  {[request |-> r, given |-> Nothing, roots |-> <<>>] : r \in {"help_global", "help_command", "version"}}
    \cup {Find([threads |-> t, output |-> <<"out">>, max_depth |-> 1], <<>>) :
            t \in {<<"0">>, <<"1">>, <<"2">>, <<"4">>, <<"5">>, <<"io">>, <<"x">>}}
    \cup {Find(Nothing, <<"r">>),
          Find([threads |-> <<"mono">>, size |-> <<"+", "8", "c">>, null |-> TRUE], <<"sg", "sg">>),
          Find([type |-> <<"dir">>, min_depth |-> 1, newer |-> <<"ref">>], <<"r">>),
          Find([name |-> <<"g">>, iname |-> <<"f">>, output |-> <<"out">>], <<"r">>),
          Find([iname |-> <<"f">>, perm |-> <<"6", "4", "4">>], <<"r">>),
          Find([max_depth |-> 0, min_depth |-> 1, output |-> <<"out">>], <<"r">>),
          Find([max_depth |-> Invalid], <<"r">>)}
=============================================================================
