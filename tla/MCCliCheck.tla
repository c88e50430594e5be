----------------------------- MODULE MCCliCheck -----------------------------
(***************************************************************************)
(* CliCheck with words of 10, 9 and 10 bits for UINT64_MAX, INT64_MAX and  *)
(* UINT_MAX, modes of 6 bits, units up to 256 bytes and days of 10         *)
(* seconds: four digits reach and pass every limit.                        *)
(***************************************************************************)
EXTENDS CliCheck

Empty == <<>>
MCMeta == [i \in Inodes |-> [type |-> "directory", size |-> 0, mtime |-> 0, perm |-> 0, dev |-> 1]]
MCFnMatch(pattern, value, casefold) == TRUE

MCMultiplier == [c |-> 1, w |-> 2, b |-> 3, k |-> 4, K |-> 4, M |-> 16, G |-> 64, T |-> 256]

MCReferenceMtime == [t \in {<<"ref">>} |-> 3]

(* Numbers of up to three digits, leading zeros included, and those of     *)
(* four digits around the limits (1023 decimal, 2000 octal).               *)
Numbers ==
  UNION {[1..n -> {"0", "1", "2", "5", "9"}] : n \in 0..3}
    \cup {<<"1", "0">> \o t : t \in [1..2 -> {"0", "1", "2", "3", "4", "9"}]}
    \cup {<<"2", "0">> \o t : t \in [1..2 -> {"0", "1", "7"}]}
Spoilt == {<<"x">>, <<"1", "x">>, <<"x", "1">>, <<"1", "+">>, <<"2", "k", "3">>}

SizeTexts ==
  {s \o n \o u : s \in Signs, n \in Numbers, u \in Units}
    \cup {s \o n : s \in Signs \cup {<<"+", "-">>}, n \in Spoilt}
AgeTexts == {s \o n : s \in Signs, n \in Numbers \cup Spoilt}
ModeTexts == Numbers \cup Spoilt \cup {<<"7", "7">>, <<"+", "1">>}
ThreadTexts == Numbers \cup Spoilt \cup {<<"mono">>, <<"auto">>, <<"io">>, <<"-", "1">>}

Find(given) == [request |-> "find", given |-> given, roots |-> <<>>]

NumberLines ==
  {Find([size |-> t]) : t \in SizeTexts} \cup {Find([mtime |-> t]) : t \in AgeTexts}
    \cup {Find([perm |-> t]) : t \in ModeTexts} \cup {Find([threads |-> t]) : t \in ThreadTexts}

(* Any subset of the options f can be given values for. *)
Partial(f) == {[o \in S |-> f[o]] : S \in SUBSET DOMAIN f}

(* Lines that give several options, some of them empty or in conflict. *)
Values(n, t, d, e, o) ==
  [name |-> n, iname |-> <<"a">>, type |-> t, newer |-> <<"ref">>,
   max_depth |-> d, min_depth |-> e, output |-> o]

MixedLines ==
  {Find(given) : given \in UNION {Partial(Values(n, t, d, e, o)) :
      n \in {<<>>, <<"a">>}, t \in {<<"l">>, <<"socket">>}, d \in {-1, 0, 1, Invalid},
      e \in {-1, 0, 1, Invalid}, o \in {<<>>, <<"out">>}}}
    \cup {Find([newer |-> <<"gone">>]), Find([hidden |-> TRUE, no_ignore |-> TRUE, null |-> TRUE])}
    \cup {Find([type |-> t]) : t \in type_allowed_values \cup {<<>>}}

MCLines ==
  NumberLines \cup MixedLines
    \cup {[Find([o \in {} |-> TRUE]) EXCEPT !.request = r] : r \in {"help_global", "help_command", "version"}}

(* The meaning of --mtime: a few ages around a few numbers of days. *)
AgeLines == {Find([mtime |-> s \o n]) : s \in Signs, n \in {<<"0">>, <<"1">>, <<"2">>}}
=============================================================================
