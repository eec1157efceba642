----------------------------- MODULE MCFreshness -----------------------------
(* A few appends and accepts of a few packages, for TLC.                    *)
EXTENDS Freshness, TLC

Symmetry == Permutations(Append1) \cup Permutations(Accept) \cup Permutations(Package)
==============================================================================
