------------------------------ MODULE MCCorridor ------------------------------
(* The episode for TLC, in units of the slew of one tick, and the recovery  *)
(* decisions, which need no episode: they are looked at before it begins.   *)
EXTENDS Corridor, Recovery

AllConfigs == {"C1", "C2s", "C2", "C2g"}
AllRoots   == {"independent", "common"}

(* The recovery policies decide as the registered table says (V15).         *)
RecoveryAdmissible == t = 0 => Admissible
===============================================================================
