------------------------------ MODULE CliCheck ------------------------------
(***************************************************************************)
(* One command line, parsed by the library and bound by bind_options,      *)
(* compared with what the command line means.                              *)
(***************************************************************************)
EXTENDS CliOptions

CONSTANTS
  Lines,   \* the command lines to try
  Ages     \* ages of entries, in seconds, for the meaning of --mtime

ASSUME LinesAssumption == \A l \in Lines : IsCommandLine(l)

VARIABLES
  line,       \* the command line
  status,     \* "start", an answer of cli_parse_status, "bound" or "refused"
  complaint,  \* what bind_options printed, or None
  bound       \* bc_seek_cli_options_t, once bound

vars == <<line, status, complaint, bound>>

Init ==
  /\ line \in Lines
  /\ status = "start"
  /\ complaint = None
  /\ bound = None

Parse ==
  /\ status = "start"
  /\ status' = cli_parse_status(line)
  /\ UNCHANGED <<line, complaint, bound>>

BindRefuses ==
  /\ status = "ok"
  /\ complaint' = bind_complaint(cli_store(line))
  /\ complaint' # None
  /\ status' = "refused"
  /\ UNCHANGED <<line, bound>>

Bind ==
  /\ status = "ok"
  /\ bind_complaint(cli_store(line)) = None
  /\ bound' = bind_options(cli_store(line), line.roots)
  /\ status' = "bound"
  /\ UNCHANGED <<line, complaint>>

Answered == status \notin {"start", "ok"} /\ UNCHANGED vars

Next == Parse \/ BindRefuses \/ Bind \/ Answered

Spec == Init /\ [][Next]_vars

-----------------------------------------------------------------------------
(* A search is refused exactly if its command line makes no sense: the     *)
(* table, the library and the fourteen checks of bind_options leave        *)
(* nothing out and turn nothing away that fits the integers of the code    *)
(* (bc_seek_cli_parsers.c:26, :118, :168; bc_seek_cli_spec.c:341, :388).   *)
RefusedIffIllegal ==
  /\ status = "bound" => Legal(line)
  /\ status \in {"error", "refused"} => ~Legal(line)

(* The numbers of an accepted command line are bound to their exact        *)
(* values: no addition, shift or product on the way has wrapped around.    *)
NumbersAreExact ==
  status = "bound" =>
    /\ Given(line, "size") =>
         \E r \in SizesOf(line.given.size) :
           bound.options.size_filter = [op |-> OpOfSign(r.sign), threshold |-> Bytes(r)]
    /\ Given(line, "mtime") =>
         \E r \in SizesOf(line.given.mtime) :
           bound.options.mtime_filter =
             [op |-> OpOfSign(r.sign), threshold |-> Value(r.number, 10) * DaySeconds]
    /\ Given(line, "perm") => bound.options.perm_mask = Value(line.given.perm, 8)
    /\ Given(line, "threads") /\ IsNumber(line.given.threads, 10) =>
         LET n == Value(line.given.threads, 10)
         IN bound.threads = [mode |-> IF n = 0 THEN "mono" ELSE "explicit", workers |-> n]

InternalComplaints ==
  {"internal error: missing global.threads", "internal error: missing find.output",
   "invalid --type"}

(* The option table covers what bind_options relies on: it never finds the *)
(* store without a value the table has a default for, nor an enum value    *)
(* that the table lets through and parse_type_filter does not know         *)
(* (bc_seek_cli_spec.c:232, :319, :420).                                   *)
NoInternalError == status = "refused" => complaint \notin InternalComplaints

(* "filter by modification age in 24h units (find(1) semantics)"           *)
(* (bc_seek_cli_spec.c:107): find(1) counts whole days, a fraction of a    *)
(* day is ignored.  The code compares seconds with N times 86400           *)
(* (bc_seek_cli_spec.c:345, bc_seek_filter.c:205-207).                     *)
MtimeCountsDays ==
  status = "bound" /\ Given(line, "mtime") =>
    \A r \in SizesOf(line.given.mtime), age \in Ages :
      filter_compare(age, bound.options.mtime_filter.threshold, bound.options.mtime_filter.op)
        <=> filter_compare(age \div DaySeconds, Value(r.number, 10), OpOfSign(r.sign))
=============================================================================
