------------------------------ MODULE MCStore ------------------------------
(* Small instances of Store for TLC. *)
EXTENDS Store, TLC

CONSTANTS a, b, f, g, m1, m2, m3, m4, m5

\* m1 and m2 compete for version 1, under one filename, as releases of one
\* device do; m3 is a version 2 that shares m1's blob; m4 has two blobs, and
\* m5 has two blobs under one filename.
MCKeyOf == [m \in Fw |-> IF m \in {m1, m2} THEN 1 ELSE 2]

MCBlobsOf ==
    [m \in Fw |-> CASE m \in {m1, m3} -> <<<<a, f>>>>
                    [] m = m2 -> <<<<b, f>>>>
                    [] m = m4 -> <<<<a, f>>, <<b, g>>>>
                    [] m = m5 -> <<<<a, f>>, <<b, f>>>>]

Sym == Permutations(Worker)
=============================================================================
