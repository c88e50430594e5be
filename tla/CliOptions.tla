----------------------------- MODULE CliOptions -----------------------------
(***************************************************************************)
(* bc_seek_cli_spec.c: the option table, and the binding of the values the *)
(* library's command-line parser put into the configuration store.         *)
(*                                                                         *)
(* A command line is [request, given, roots]: what it asks for, the value  *)
(* of each option it gives, and its positional arguments.  The value of a  *)
(* string or enum option is a text, that of an integer option an integer   *)
(* or Invalid, that of a flag TRUE.                                        *)
(***************************************************************************)
EXTENDS SeekFilter, CliParsers

CONSTANTS
  DaySeconds,     \* 86400
  ReferenceMtime  \* st_mtime of the files --newer can name, by their name

Texts == Seq(STRING)
Comparisons == {"greater", "less", "equal"}
ThreadModes == {"mono", "auto", "io", "explicit"}

(* What bind_options prints when it gives up, in the order of BindChecks. *)
Complaints == <<
  "internal error: missing global.threads", "invalid --threads",
  "--name and --iname are mutually exclusive", "invalid --type", "invalid --size",
  "invalid --mtime", "--mtime value out of range", "cannot stat --newer reference",
  "invalid --perm", "--max-depth must be non-negative", "--min-depth must be non-negative",
  "--min-depth cannot exceed --max-depth", "internal error: missing find.output",
  "invalid --output" >>

ASSUME CliOptionsAssumption ==
  /\ DaySeconds \in Nat \ {0}
  /\ \A t \in DOMAIN ReferenceMtime : ReferenceMtime[t] \in Int
  \* what stands for an option not given, or for a parser's false, is no value
  /\ Invalid # None
  /\ None \notin Range(Complaints)
  /\ \A x \in {None, Invalid} :
       /\ x \notin EntryTypes /\ x \notin Texts /\ x \notin {<<"auto">>, <<"-">>}
       /\ x \notin [op : Comparisons, threshold : Nat] /\ x \notin [op : Comparisons, days : Nat]
       /\ x \notin [mode : ThreadModes, workers : Nat]
       /\ x \notin [mode : {"stdout", "file"}, path : Texts \cup {<<"-">>, None}]

-----------------------------------------------------------------------------
(* The option table. *)

type_allowed_values ==
  {<<"f">>, <<"d">>, <<"l">>, <<"file">>, <<"dir">>, <<"link">>, <<"symlink">>}

Option(type, default_value) == [type |-> type, default_value |-> default_value]

global_options == [threads |-> Option("string", <<"auto">>)]

find_options ==
  [name            |-> Option("string", None),
   iname           |-> Option("string", None),
   path            |-> Option("string", None),
   type            |-> Option("enum", None),
   size            |-> Option("string", None),
   mtime           |-> Option("string", None),
   newer           |-> Option("string", None),
   perm            |-> Option("string", None),
   max_depth       |-> Option("integer", None),
   min_depth       |-> Option("integer", 0),
   hidden          |-> Option("flag", None),
   no_ignore       |-> Option("flag", None),
   follow_symlinks |-> Option("flag", None),
   one_file_system |-> Option("flag", None),
   null            |-> Option("flag", None),
   output          |-> Option("string", <<"-">>)]

Merged(f, g) ==
  [o \in DOMAIN f \cup DOMAIN g |-> IF o \in DOMAIN f THEN f[o] ELSE g[o]]

(* Mutant: the table has no default for --output. *)
program_spec_without_output_default ==
  Merged([find_options EXCEPT !["output"] = Option("string", None)], global_options)

program_spec == Merged(find_options, global_options)

(* The values the library's parser can hand over for an option. *)
ValuesOf(o) ==
  CASE program_spec[o].type = "integer" -> Int \cup {Invalid}
    [] program_spec[o].type = "flag" -> {TRUE}
    [] OTHER -> Texts

IsCommandLine(l) ==
  /\ l.request \in {"find", "help_global", "help_command", "version"}
  /\ \A o \in DOMAIN l.given : o \in DOMAIN program_spec /\ l.given[o] \in ValuesOf(o)

(* External, bc_runtime_cli_parse: the help and version requests are       *)
(* answered first; a value of the wrong type is an error; the store gets   *)
(* what was given, and the default of what was not.                        *)
BadValue(o, value) ==
  \/ program_spec[o].type = "enum" /\ value \notin type_allowed_values
  \/ program_spec[o].type = "integer" /\ value = Invalid

cli_parse_status(line) ==
  IF line.request # "find" THEN line.request
  ELSE IF \E o \in DOMAIN line.given : BadValue(o, line.given[o]) THEN "error"
  ELSE "ok"

cli_store(line) ==
  [o \in DOMAIN program_spec |->
     IF o \in DOMAIN line.given THEN line.given[o] ELSE program_spec[o].default_value]

-----------------------------------------------------------------------------
(* The binding. *)

(* An empty string counts as an option that was not given. *)
lookup_string(store, key) == IF store[key] = <<>> THEN None ELSE store[key]

lookup_boolean(store, key) == store[key] = TRUE

bind_output(value) ==
  CASE value = <<"-">> -> [mode |-> "stdout", path |-> None]
    [] value = <<>>    -> Invalid
    [] OTHER           -> [mode |-> "file", path |-> value]

bind_newer_reference(path) ==
  IF path \in DOMAIN ReferenceMtime THEN ReferenceMtime[path] ELSE Invalid

(* The option's value after its parser, None if it was not given. *)
Parsed(value, parse(_)) == IF value = None THEN None ELSE parse(value)

bind_global_threads(store) == Parsed(store.threads, parse_threads)
type_value(store) == Parsed(lookup_string(store, "type"), parse_type_filter)
size_value(store) == Parsed(lookup_string(store, "size"), parse_size_filter)
mtime_value(store) == Parsed(lookup_string(store, "mtime"), parse_mtime_filter)
newer_value(store) == Parsed(lookup_string(store, "newer"), bind_newer_reference)
perm_value(store) == Parsed(lookup_string(store, "perm"), parse_perm_filter)

has(value) == value \notin {None, Invalid}

(* Mutant: the days are not checked before they are multiplied. *)
days_never_out_of_range(mtime) == FALSE

days_out_of_range(mtime) == has(mtime) /\ mtime.days > INT64_MAX \div DaySeconds

(* The age in seconds, in signed 64-bit arithmetic. *)
mtime_threshold(mtime) == (mtime.days * DaySeconds) % (INT64_MAX + 1)

(* Mutant: equal depths are refused. *)
depths_cross_at_equality(store) ==
  store.max_depth # None /\ store.min_depth >= store.max_depth

depths_cross(store) ==
  store.max_depth # None /\ store.min_depth # None /\ store.min_depth > store.max_depth

(* The conditions under which bind_options gives up, in the order in which *)
(* it looks at them.                                                       *)
BindChecks(store) == <<
  store.threads = None,
  bind_global_threads(store) = Invalid,
  has(lookup_string(store, "name")) /\ has(lookup_string(store, "iname")),
  type_value(store) = Invalid,
  size_value(store) = Invalid,
  mtime_value(store) = Invalid,
  days_out_of_range(mtime_value(store)),
  newer_value(store) = Invalid,
  perm_value(store) = Invalid,
  store.max_depth # None /\ store.max_depth < 0,
  store.min_depth # None /\ store.min_depth < 0,
  depths_cross(store),
  store.output = None,
  Parsed(store.output, bind_output) = Invalid >>

(* None, or the complaint of the first check that fails. *)
bind_complaint(store) ==
  LET checks == BindChecks(store)
      failing == {i \in DOMAIN checks : checks[i]}
  IN IF failing = {} THEN None ELSE Complaints[Min(failing)]

(* bc_seek_cli_options_t when there is no complaint: the fields the filter *)
(* gets are under options, require_stat and the time still zero.           *)
bind_options(store, roots) ==
  LET name == lookup_string(store, "name")
      mtime == mtime_value(store)
  IN [threads |-> bind_global_threads(store),
      options |->
        [name_glob |-> IF has(name) THEN name ELSE lookup_string(store, "iname"),
         name_case_insensitive |-> ~has(name) /\ has(lookup_string(store, "iname")),
         path_glob |-> lookup_string(store, "path"),
         type_filter |-> type_value(store),
         size_filter |-> size_value(store),
         mtime_filter |->
           IF has(mtime)
           THEN [op |-> mtime.op, threshold |-> mtime_threshold(mtime)]
           ELSE None,
         newer_reference_mtime |-> newer_value(store),
         perm_mask |-> perm_value(store),
         max_depth |-> store.max_depth,
         min_depth |-> IF store.min_depth = None THEN 0 ELSE store.min_depth,
         include_hidden |-> lookup_boolean(store, "hidden"),
         respect_ignore_defaults |-> ~lookup_boolean(store, "no_ignore"),
         require_stat |-> FALSE, evaluation_reference_time |-> 0],
      follow_symlinks |-> lookup_boolean(store, "follow_symlinks"),
      one_file_system |-> lookup_boolean(store, "one_file_system"),
      null_terminated |-> lookup_boolean(store, "null"),
      output |-> bind_output(store.output),
      roots |-> roots]

-----------------------------------------------------------------------------
(***************************************************************************)
(* What a command line means, said of what it gives and not of the store.  *)
(***************************************************************************)
Given(line, o) == o \in DOMAIN line.given /\ line.given[o] # <<>>

(* The texts a number fits in: the reading of a value as [sign, number,    *)
(* unit] is unique where there is one.                                     *)
FittingSizes(text) == {r \in SizesOf(text) : Bytes(r) <= UINT64_MAX}

FittingAges(text) ==
  {r \in SizesOf(text) : r.unit = <<>> /\ Value(r.number, 10) * DaySeconds <= INT64_MAX}

IsMode(text) == IsNumber(text, 8) /\ Value(text, 8) <= MODE_MAX

IsThreadCount(text) ==
  \/ text \in {<<"mono">>, <<"auto">>, <<"io">>}
  \/ IsNumber(text, 10) /\ Value(text, 10) <= UINT64_MAX

Legal(line) ==
  LET ok(o, test(_)) == o \in DOMAIN line.given => test(line.given[o])
      okIfGiven(o, test(_)) == Given(line, o) => test(line.given[o])
      depth(o) == IF o \in DOMAIN line.given THEN line.given[o] ELSE 0
  IN /\ ok("threads", IsThreadCount)
     /\ ~(Given(line, "name") /\ Given(line, "iname"))
     /\ ok("type", LAMBDA t : t \in type_allowed_values)
     /\ okIfGiven("size", LAMBDA t : FittingSizes(t) # {})
     /\ okIfGiven("mtime", LAMBDA t : FittingAges(t) # {})
     /\ okIfGiven("newer", LAMBDA t : t \in DOMAIN ReferenceMtime)
     /\ okIfGiven("perm", IsMode)
     /\ ok("max_depth", LAMBDA n : n # Invalid /\ n >= 0)
     /\ ok("min_depth", LAMBDA n : n # Invalid /\ n >= 0)
     /\ "max_depth" \in DOMAIN line.given => depth("min_depth") <= depth("max_depth")
     /\ ok("output", LAMBDA t : t # <<>>)
=============================================================================
