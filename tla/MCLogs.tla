------------------------------- MODULE MCLogs -------------------------------
(* Small instances of Logs for TLC. *)
EXTENDS Logs, TLC

Sym == Permutations(Worker) \cup Permutations(User)
=============================================================================
