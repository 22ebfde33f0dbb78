----------------------------- MODULE MCAccounts -----------------------------
(* Small instances of Accounts for TLC. *)
EXTENDS Accounts, TLC

CONSTANTS e1, E1, k1

\* Two spellings of one email.
MCEmail == {e1, E1}

MCKey == (e1 :> k1) @@ (E1 :> k1)

Sym == Permutations(Worker) \cup Permutations(User) \cup Permutations(Uuid)
           \cup Permutations(Cred) \cup Permutations(Flow) \cup Permutations(MCEmail)
=============================================================================
