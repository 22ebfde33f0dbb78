----------------------------- MODULE MCSessions -----------------------------
(* Small instances of Sessions for TLC. *)
EXTENDS Sessions, TLC

Sym == Permutations(Worker) \cup Permutations(Client) \cup Permutations(Token)
           \cup Permutations(User)
=============================================================================
