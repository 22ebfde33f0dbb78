------------------------------ MODULE MCReview ------------------------------
(* Small instances of Review for TLC. *)
EXTENDS Review, TLC

CONSTANT d1

\* Every version is of one device.
MCDevice == {d1}

MCDeviceOf == [k \in Key |-> d1]

Sym == Permutations(Worker) \cup Permutations(User) \cup Permutations(Key)
=============================================================================
