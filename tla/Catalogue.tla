----------------------------- MODULE Catalogue -----------------------------
(***************************************************************************)
(* What the firmware store promises its clients: a version is submitted,   *)
(* withdrawn or replaced while it awaits review, and published at most     *)
(* once; once published it never changes and is never taken away.          *)
(***************************************************************************)
CONSTANTS
    Key,      \* device/version coordinates
    Fw,       \* manifests
    KeyOf,    \* the coordinates a manifest names
    Nil       \* absent

VARIABLES
    published,    \* the versions devices are offered
    pending       \* the submissions awaiting review

vars == <<published, pending>>

Init ==
    /\ published = [k \in Key |-> Nil]
    /\ pending = [k \in Key |-> Nil]

Submit(m) ==
    /\ published[KeyOf[m]] = Nil
    /\ pending' = [pending EXCEPT ![KeyOf[m]] = m]
    /\ UNCHANGED published

Withdraw(k) ==
    /\ pending' = [pending EXCEPT ![k] = Nil]
    /\ UNCHANGED published

Approve(k) ==
    /\ pending[k] # Nil
    /\ published[k] = Nil
    /\ published' = [published EXCEPT ![k] = pending[k]]
    /\ pending' = [pending EXCEPT ![k] = Nil]

Publish(m) ==
    /\ published[KeyOf[m]] = Nil
    /\ published' = [published EXCEPT ![KeyOf[m]] = m]
    /\ UNCHANGED pending

Next ==
    \/ \E m \in Fw : Submit(m) \/ Publish(m)
    \/ \E k \in Key : Withdraw(k) \/ Approve(k)

Spec == Init /\ [][Next]_vars
=============================================================================
