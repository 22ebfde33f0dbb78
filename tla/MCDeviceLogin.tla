--------------------------- MODULE MCDeviceLogin ---------------------------
(* Small instances of DeviceLogin for TLC. *)
EXTENDS DeviceLogin, TLC

Sym == Permutations(Worker) \cup Permutations(Client) \cup Permutations(Code)
           \cup Permutations(Token)
=============================================================================
