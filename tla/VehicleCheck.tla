----------------------------- MODULE VehicleCheck -----------------------------
(***************************************************************************)
(* vehicle_check (vehicle_action.py): the deterministic check of a flight  *)
(* request against a telemetry snapshot, as the set of the rules that      *)
(* fail.  A reading is the kind the rules tell apart: good, low, unknown   *)
(* or not a finite number; a distance is within its limit, beyond it or    *)
(* not finite.                                                             *)
(***************************************************************************)
EXTENDS Naturals, FiniteSets

Movement == {"takeoff", "goto"}
Snapshots == [fix     : {"good", "low", "nonfinite"},
              sats    : {"good", "low", "nonfinite"},
              ekf     : SUBSET {"absolute", "uninitialized", "glitch"},
              battery : {"good", "low", "unknown", "nonfinite"},
              here    : {"within", "beyond", "nonfinite"},
              gap     : {"absent", "within", "beyond", "nonfinite"}]
Healthy == [fix |-> "good", sats |-> "good", ekf |-> {"absolute"}, battery |-> "good", here |-> "within", gap |-> "within"]

(* A request: the action, its altitude and target, and whether its limits  *)
(* ask for the cross-check with an independent position (V12).             *)
Request(action, alt, there, cross) ==
  [action |-> action, alt |-> IF action \in Movement THEN alt ELSE "none",
   there |-> IF action = "goto" THEN there ELSE "none", cross |-> cross]

Navigation(req, snap) ==
  {r \in {"fix", "sats"} : snap[r] # "good"}
  \cup (IF "uninitialized" \in snap.ekf \/ "absolute" \notin snap.ekf THEN {"ekf position"} ELSE {})
  \cup (snap.ekf \cap {"glitch"})
  \cup (IF req.cross /\ snap.gap # "within" THEN {"gap"} ELSE {})

Space(req, snap) ==
  (IF req.alt # "good" THEN {"altitude"} ELSE {})
  \cup (IF snap.here # "within" THEN {"here"} ELSE {})
  \cup (IF req.action = "goto" /\ req.there # "within" THEN {"target"} ELSE {})

Failures(req, snap) ==
  CASE req.action \in Movement ->
         Space(req, snap) \cup Navigation(req, snap) \cup (IF snap.battery # "good" THEN {"battery"} ELSE {})
    [] req.action = "rtl" -> Navigation(req, snap)
    [] OTHER -> {}

Verdict(req, snap) == IF Failures(req, snap) = {} THEN "PASS" ELSE "FAIL"
===============================================================================
