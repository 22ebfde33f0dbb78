---------------------------- MODULE MCStoreAlone ----------------------------
(* The small instance of StoreAlone for TLC. *)
EXTENDS StoreAlone, MCStore
=============================================================================
