---------------------------- MODULE MCCachedStats ----------------------------
(* CachedStats with two interchangeable callers.                             *)
EXTENDS CachedStats, TLC

CallerSymmetry == Permutations(Callers)
=============================================================================
