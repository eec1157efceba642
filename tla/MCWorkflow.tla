----------------------------- MODULE MCWorkflow -----------------------------
(* Runs that share one key, for TLC.                                       *)
EXTENDS EffectObservation, TLC

Symmetry == Permutations(Run)
===========================================================================
