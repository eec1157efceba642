---------------------------- MODULE GateConstraint ----------------------------
(***************************************************************************)
(* The fail-closed specification of gate_constraint.py: of each axis of    *)
(* the gate's input, the values that must be refused and those that must   *)
(* not get through; everything it lists as known to be opt-in (a digest's  *)
(* form, no action, no step count, no policy) is at fault nowhere.         *)
(***************************************************************************)
EXTENDS Gate

QualityShown(i) == IF i.quality = "absent" THEN i.metaQuality ELSE i.quality

(* In the order in which they are to be refused (REFUSE_ORDER).            *)
Refused(i) ==
  \/ i.digest = "empty"
  \/ i.status \in {"FAIL", "REFUTED", "absent", "misspelt"}
  \/ i.capability = "None"
  \/ i.authorized = "False"
  \/ i.parent \in {"unregistered", "unauthorized"}
  \/ i.parent # "none" /\ i.registry = "None"
  \/ i.action = "of another"
  \/ i.runtime = "unknown"
  \/ i.maxSteps = "set" /\ i.stepCount = "over"
  \/ i.allowOnly # "none" /\ i.action \notin {"None", "unnamed"} /\ ~Listed(i)

NotAllowed(i) ==
  \/ i.status = "INSUFFICIENT_EVIDENCE"
  \/ i.authorized = "truthy"
  \/ i.parent = "truthy"
  \/ i.runtime = "degraded"
  \/ \E n \in DOMAIN Required : i.evidence[Required[n]] # "True"
  \/ i.floor = "set" /\ QualityShown(i) # "high"
  \/ i.maxSteps = "set" /\ i.stepCount \in {"bool", "fraction", "below 1"}
  \/ i.allowOnly = "text"

(* "The set of inputs the gate ALLOWs must equal the set a fail-closed     *)
(* spec allows": whatever is wrong in several places at once, an input     *)
(* goes through when and only when nothing is wrong with it, and one fault *)
(* that must be refused is refused, however many others would defer it     *)
(* (lattice() over the AXES, the single cases and M08 of its mutants).     *)
Constrained ==
  [][decision' # decision =>
       /\ decision' = "ALLOW" <=> ~Refused(input) /\ ~NotAllowed(input)
       /\ Refused(input) => decision' = "REFUSE"]_vars
===============================================================================
