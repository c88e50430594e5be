------------------------------- MODULE Search -------------------------------
(***************************************************************************)
(* What a search promises, whichever walker runs it: it prints only what   *)
(* is wanted and takes nothing back, it ends, and if it ends with success *)
(* nothing is missing.  A search that was interrupted or met an error may  *)
(* end with less, but then it says so.                                     *)
(***************************************************************************)
EXTENDS FiniteSets

VARIABLES
  wanted,    \* the paths to print; fixed when the search starts
  found,     \* the paths printed so far
  outcome    \* "searching", then "complete" or "incomplete"

vars == <<wanted, found, outcome>>

Init == found = {} /\ outcome = "searching"

(* Some more wanted paths are printed. *)
Report ==
  /\ outcome = "searching"
  /\ found' \in SUBSET wanted
  /\ found \subseteq found'
  /\ outcome' = "searching"
  /\ UNCHANGED wanted

Complete ==
  /\ outcome = "searching"
  /\ found = wanted
  /\ outcome' = "complete"
  /\ UNCHANGED <<wanted, found>>

Incomplete ==
  /\ outcome = "searching"
  /\ outcome' = "incomplete"
  /\ UNCHANGED <<wanted, found>>

Next == Report \/ Complete \/ Incomplete

(* The safety part: nothing unwanted is printed, nothing printed is taken  *)
(* back, and success means that all of it is there.                        *)
Safety == Init /\ [][Next]_vars

(* The liveness part: the search ends. *)
Ends == <>(outcome # "searching")

Spec == Safety /\ Ends
=============================================================================
