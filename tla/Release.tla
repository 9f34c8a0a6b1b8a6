------------------------------ MODULE Release -------------------------------
(***************************************************************************)
(* Which program runs and what may go wrong around it.  The repository     *)
(* keeps three versions of the store: the submissions projet01 and         *)
(* projet02 (src/provided/grading) and the final code (src/done).          *)
(***************************************************************************)
CONSTANTS
  Releases,   \* the versions in use
  FaultSets   \* the sets of faults in use

ASSUME ReleaseAssumption ==
  /\ Releases \subseteq {"projet01", "projet02", "done"}
  /\ FaultSets \subseteq SUBSET {"lost", "late", "duplicated", "crash", "nomem"}

VARIABLES release, faults

ReleaseInit == release \in Releases /\ faults \in FaultSets

Same == UNCHANGED <<release, faults>>

Final == release = "done"

May(fault) == fault \in faults
=============================================================================
