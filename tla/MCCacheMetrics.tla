---------------------------- MODULE MCCacheMetrics ----------------------------
(***************************************************************************)
(* CacheMetrics on a small instance.                                       *)
(***************************************************************************)
EXTENDS CacheMetrics, TLC

\* The workers are interchangeable.
MCSymmetry == Permutations(Monitors)
=============================================================================
