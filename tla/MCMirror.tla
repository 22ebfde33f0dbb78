------------------------------ MODULE MCMirror ------------------------------
(* Small instances of Mirror for TLC. *)
EXTENDS Mirror, TLC

CONSTANTS a, b, f, m5

\* m5 gives its two blobs one filename, so that its directory holds b for a.
MCKeyOf == [m \in Fw |-> 1]

MCBlobsOf == [m \in Fw |-> <<<<a, f>>, <<b, f>>>>]

Sym == Permutations(Worker)
=============================================================================
