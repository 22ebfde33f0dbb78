----------------------------- MODULE MCWatches -----------------------------
(* Small instances of Watches for TLC. *)
EXTENDS Watches, TLC

CONSTANTS k1, k2, d1

\* Two versions of one device, for counts to change.
MCDeviceOf(k) == d1
=============================================================================
