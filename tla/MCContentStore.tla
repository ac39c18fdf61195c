--------------------------- MODULE MCContentStore ---------------------------
(* Small instances of ContentStore for TLC.                                 *)
EXTENDS ContentStore, TLC

CONSTANTS k1, k2, r1, r2, mid, leaf, t, u

\* Content 1 is a file of more than one level of links, content 2 has its last
\* block as its only child.
TwoFiles == (r1 :> {mid}) @@ (mid :> {leaf}) @@ (leaf :> {}) @@ (r2 :> {leaf})
TwoRoots == (1 :> r1) @@ (2 :> r2)

Clients == Permutations({k1, k2})
=============================================================================
