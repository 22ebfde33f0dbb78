----------------------------- MODULE MCMetrics -----------------------------
(* Small instances of Metrics for TLC. *)
EXTENDS Metrics, TLC

Sym == Permutations(Worker)
=============================================================================
