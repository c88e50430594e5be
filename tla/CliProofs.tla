----------------------------- MODULE CliProofs -----------------------------
(***************************************************************************)
(* The properties of CliCheck for every set of command lines, every word   *)
(* size and every table of units.  The invariant CliInv says which answers *)
(* of the parser and of the checks a status stands for; the rest is what   *)
(* CliLemmas proves of those operators.                                    *)
(***************************************************************************)
EXTENDS CliCheck, CliLemmas

(* A status tells how the line was answered. *)
CliInv ==
  /\ line \in Lines
  /\ status \in {"ok", "refused", "bound"} => cli_parse_status(line) = "ok"
  /\ status = "error" => cli_parse_status(line) = "error"
  /\ status = "refused" => complaint = bind_complaint(cli_store(line)) /\ complaint # None
  /\ status = "bound" =>
       /\ bind_complaint(cli_store(line)) = None
       /\ bound = bind_options(cli_store(line), line.roots)

(* CliInv is an invariant. *)
LEMMA CliInvariant == Spec => []CliInv
<1>1. Init => CliInv
  BY DEF Init, CliInv
<1>2. CliInv /\ [Next]_vars => CliInv'
  <2> SUFFICES ASSUME CliInv, [Next]_vars
               PROVE  CliInv'
    OBVIOUS
  <2>1. CASE Parse
    <3>1. IsCommandLine(line)
      BY LinesAssumption DEF CliInv
    <3>2. status' \in {"ok", "error", "help_global", "help_command", "version"}
      BY <2>1, <3>1, ParseStatus DEF Parse
    <3> QED BY <2>1, <3>2 DEF Parse, CliInv
  <2>2. CASE BindRefuses
    BY <2>2 DEF BindRefuses, CliInv
  <2>3. CASE Bind
    BY <2>3 DEF Bind, CliInv
  <2>4. CASE UNCHANGED vars
    BY <2>4 DEF vars, CliInv
  <2> QED BY <2>1, <2>2, <2>3, <2>4 DEF Next, Answered
<1> QED BY <1>1, <1>2, PTL DEF Spec

(* With the values the table makes sure of in the store, none of the three *)
(* internal complaints is made.                                            *)
LEMMA ComplaintIsExternal ==
  ASSUME NEW store, store["threads"] # None, store["output"] # None, type_value(store) # Invalid,
         bind_complaint(store) # None
  PROVE  bind_complaint(store) \notin InternalComplaints
<1> DEFINE checks == BindChecks(store)
           failing == {i \in DOMAIN checks : checks[i]}
<1>1. DOMAIN checks = 1..14
  BY DEF BindChecks
<1>2. failing # {} /\ bind_complaint(store) = Complaints[Min(failing)]
  BY DEF bind_complaint
<1>3. Min(failing) \in failing
  BY <1>1, <1>2, LeastElement
<1>4. ~checks[1] /\ ~checks[4] /\ ~checks[13]
  BY DEF BindChecks
<1>5. \A i \in 1..14 : i \in {1, 4, 13} \/ Complaints[i] \notin InternalComplaints
  <2> DEFINE other == {2, 3, 5, 6, 7, 8, 9, 10, 11, 12, 14}
  <2>1. /\ Complaints[2] = "invalid --threads"
        /\ Complaints[3] = "--name and --iname are mutually exclusive"
        /\ Complaints[5] = "invalid --size"
        /\ Complaints[6] = "invalid --mtime"
        /\ Complaints[7] = "--mtime value out of range"
        /\ Complaints[8] = "cannot stat --newer reference"
        /\ Complaints[9] = "invalid --perm"
        /\ Complaints[10] = "--max-depth must be non-negative"
        /\ Complaints[11] = "--min-depth must be non-negative"
        /\ Complaints[12] = "--min-depth cannot exceed --max-depth"
        /\ Complaints[14] = "invalid --output"
    BY DEF Complaints
  <2>2. \A i \in other : Complaints[i] \notin InternalComplaints
    BY <2>1, Zenon DEF InternalComplaints
  <2>3. \A i \in 1..14 : i \in {1, 4, 13} \/ i \in other
    OBVIOUS
  <2> QED BY <2>2, <2>3, Zenon
<1> QED BY <1>1, <1>2, <1>3, <1>4, <1>5

(* The complaints that would tell of a mismatch between the option table   *)
(* and bind_options are never made, for every set of command lines.        *)
THEOREM TableMatchesBinding == Spec => []NoInternalError
<1>1. CliInv => NoInternalError
  <2> SUFFICES ASSUME CliInv, status = "refused"
               PROVE  complaint \notin InternalComplaints
    BY DEF NoInternalError
  <2>1. IsCommandLine(line) /\ cli_parse_status(line) = "ok"
    BY LinesAssumption DEF CliInv
  <2>2. cli_store(line)["threads"] # None /\ cli_store(line)["output"] # None
    BY <2>1, ThreadsChecked, OutputChecked, Zenon
  <2>3. type_value(cli_store(line)) # Invalid
    BY <2>1, ParseStatus, TypeChecked
  <2> QED BY <2>2, <2>3, ComplaintIsExternal DEF CliInv
<1> QED BY <1>1, CliInvariant, PTL

(* A search is refused exactly if its command line makes no sense, for     *)
(* every set of command lines and every word size: neither the parsers,    *)
(* their overflow guards nor the checks of bind_options let a senseless    *)
(* line through or turn a sensible one away.                               *)
THEOREM RefusesExactly == Spec => []RefusedIffIllegal
<1>1. CliInv => RefusedIffIllegal
  <2> SUFFICES ASSUME CliInv
               PROVE  RefusedIffIllegal
    OBVIOUS
  <2>1. IsCommandLine(line)
    BY LinesAssumption DEF CliInv
  <2>2. status \in {"bound", "error", "refused"} => line.request = "find"
    BY <2>1, ParseStatus DEF CliInv
  <2>3. line.request = "find" =>
          (Legal(line) <=> cli_parse_status(line) = "ok" /\ bind_complaint(cli_store(line)) = None)
    BY <2>1, AcceptedIffLegal
  <2> QED BY <2>2, <2>3 DEF RefusedIffIllegal, CliInv
<1> QED BY <1>1, CliInvariant, PTL

(* The sizes, ages, modes and thread counts of an accepted command line    *)
(* are bound to the values their digits stand for, for every text and      *)
(* every word size: nothing wraps on the way.                              *)
THEOREM BindsExactNumbers == Spec => []NumbersAreExact
<1>1. CliInv => NumbersAreExact
  <2> SUFFICES ASSUME CliInv, status = "bound"
               PROVE  NumbersAreExact
    BY DEF NumbersAreExact
  <2> DEFINE store == cli_store(line)
  <2>1. /\ IsCommandLine(line) /\ cli_parse_status(line) = "ok"
        /\ bind_complaint(store) = None /\ bound = bind_options(store, line.roots)
    BY LinesAssumption DEF CliInv
  <2>2. Legal(line) /\ bound.threads = parse_threads(store["threads"]) /\ IsThreadCount(store["threads"])
    BY <2>1, BoundValues, Zenon
  <2>3. /\ bound.options.size_filter = size_value(store)
        /\ bound.options.perm_mask = perm_value(store)
        /\ bound.options.mtime_filter =
             IF has(mtime_value(store))
             THEN [op |-> mtime_value(store).op, threshold |-> mtime_threshold(mtime_value(store))]
             ELSE None
    BY <2>1 DEF bind_options
  <2>4. ASSUME Given(line, "size")
        PROVE  \E r \in SizesOf(line.given["size"]) :
                 bound.options.size_filter = [op |-> OpOfSign(r.sign), threshold |-> Bytes(r)]
    <3>1. line.given["size"] \in Texts /\ size_value(store) = parse_size_filter(line.given["size"])
      BY <2>1, <2>4, SizeChecked, Zenon
    <3>2. FittingSizes(line.given["size"]) # {}
      BY <2>2, <2>4, LegalIs
    <3>3. PICK r \in FittingSizes(line.given["size"]) : TRUE
      BY <3>2
    <3>4. r \in SizesOf(line.given["size"])
      BY DEF FittingSizes
    <3>5. parse_size_filter(line.given["size"]) = [op |-> OpOfSign(r.sign), threshold |-> Bytes(r)]
      BY <3>1, ParseSizeIsExact
    <3> QED BY <2>3, <3>1, <3>4, <3>5, Zenon
  <2>5. ASSUME Given(line, "mtime")
        PROVE  \E r \in SizesOf(line.given["mtime"]) :
                 bound.options.mtime_filter =
                   [op |-> OpOfSign(r.sign), threshold |-> Value(r.number, 10) * DaySeconds]
    <3>1. line.given["mtime"] \in Texts /\ mtime_value(store) = parse_mtime_filter(line.given["mtime"])
      BY <2>1, <2>5, MtimeChecked, Zenon
    <3>2. FittingAges(line.given["mtime"]) # {}
      BY <2>2, <2>5, LegalIs
    <3>3. PICK r \in FittingAges(line.given["mtime"]) : TRUE
      BY <3>2
    <3>4. r \in SizesOf(line.given["mtime"])
      BY DEF FittingAges
    <3>5. /\ has(mtime_value(store)) /\ mtime_value(store).op = OpOfSign(r.sign)
          /\ mtime_threshold(mtime_value(store)) = Value(r.number, 10) * DaySeconds
      BY <3>1, ParseAgeIsExact
    <3> QED BY <2>3, <3>4, <3>5, Zenon
  <2>6. ASSUME Given(line, "perm")
        PROVE  bound.options.perm_mask = Value(line.given["perm"], 8)
    <3>1. IsMode(line.given["perm"])
      BY <2>2, <2>6, LegalIs
    <3> QED BY <2>1, <2>3, <2>6, <3>1, PermChecked, Zenon
  <2>7. ASSUME Given(line, "threads"), IsNumber(line.given["threads"], 10)
        PROVE  bound.threads =
                 [mode |-> IF Value(line.given["threads"], 10) = 0 THEN "mono" ELSE "explicit",
                  workers |-> Value(line.given["threads"], 10)]
    <3>1. store["threads"] = line.given["threads"]
      BY <2>7, OptionTable, StoreHas DEF Given
    <3>2. line.given["threads"] \in Seq(STRING)
      BY <2>1, <2>7, GivenValues DEF Texts, Given
    <3>3. IsThreadCount(line.given["threads"])
      BY <2>2, <3>1
    <3>4. parse_threads(line.given["threads"]) =
            [mode |-> IF Value(line.given["threads"], 10) = 0 THEN "mono" ELSE "explicit",
             workers |-> Value(line.given["threads"], 10)]
      BY <2>7, <3>2, <3>3, ParseThreadsIsExact
    <3> QED BY <2>2, <3>1, <3>4
  <2> QED BY <2>4, <2>5, <2>6, <2>7 DEF NumbersAreExact
<1> QED BY <1>1, CliInvariant, PTL
=============================================================================
