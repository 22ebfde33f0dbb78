----------------------------- MODULE StoreAlone -----------------------------
(***************************************************************************)
(* Store with a memory of whether the process ever crashed: a crash in the *)
(* middle of a removal leaves a directory that the claims below except.    *)
(* They are of one request at a time (one Worker), with reloads anywhere.  *)
(***************************************************************************)
EXTENDS Store

VARIABLE crashed

AloneInit == Init /\ crashed = FALSE

AloneNext ==
    \/ /\ \/ \E w \in Worker : Call(w) \/ Step(w)
          \/ \E s \in Sha : Age(s)
          \/ ReloadScan \/ ReloadSwap
       /\ UNCHANGED crashed
    \/ Crash /\ crashed' = TRUE

AloneSpec == AloneInit /\ [][AloneNext]_<<vars, crashed>>

\* Without a crash, between requests, every blob the index lists can be served:
\* the path leads to those bytes (get_blob).
ServableAlone == crashed \/ Servable

\* Without a crash, between requests, every version directory is self-contained
\* (write_version_dir, sweep_incoming, reject).
SelfContainedAlone == crashed \/ SelfContained

\* Without a crash, one request at a time, the sweep and the GC reclaim only
\* bytes that a version directory has too, or that nobody wants.
OnlyAbandonedLostAlone == [][crashed \/ LosesOnlyAbandoned]_<<vars, crashed>>
=============================================================================
