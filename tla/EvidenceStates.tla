--------------------------- MODULE EvidenceStates ---------------------------
(***************************************************************************)
(* The normative evidence vocabulary: the four states, what a capability   *)
(* records, and the two ways the code combines states.                     *)
(*                                                                         *)
(* conservativeState combines two states; the scanner folds it over the    *)
(* servers of a catalog.  Rollup is the same fold over a set, with the     *)
(* code's verdict "unknown" when there is nothing to fold over.            *)
(***************************************************************************)

Healthy   == "healthy"
Warning   == "warning"
Unhealthy == "unhealthy"
Unknown   == "unknown"

State == {Healthy, Warning, Unhealthy, Unknown}

(* internal/evidence: whether a format has proven a capability. *)
Supported      == "supported"
SupportUnknown == "support-unknown"
Support        == {Supported, SupportUnknown}

(* The format-neutral operations; every built-in format declares all nine. *)
CapabilityID ==
  {"inventory", "catalog", "structural", "dependency", "wal",
   "timeline", "encrypted", "coverage", "retention"}

Capability == [support : Support, state : State]

Complete   == "complete"
Incomplete == "incomplete"
Unscanned  == "no-completed-scan"
Completeness == {Complete, Incomplete, Unscanned}

conservativeState(left, right) ==
  IF Unknown \in {left, right} THEN Unknown
  ELSE IF Unhealthy \in {left, right} THEN Unhealthy
  ELSE IF Warning \in {left, right} THEN Warning
  ELSE Healthy

(* Folding conservativeState over a non-empty collection of states depends *)
(* only on which states occur; over an empty one the callers say unknown.  *)
Rollup(states) ==
  IF states = {} \/ Unknown \in states THEN Unknown
  ELSE IF Unhealthy \in states THEN Unhealthy
  ELSE IF Warning \in states THEN Warning
  ELSE Healthy

=============================================================================
