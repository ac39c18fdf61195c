------------------------ MODULE MCGroupReplication ------------------------
(* Small instances of GroupReplication for TLC.                            *)
EXTENDS GroupReplication, TLC

CONSTANTS a, b, g1, t, u

\* One open group of a, with a content of each node.
ByA == g1 :> a
OneGroup == (1 :> g1) @@ (2 :> g1)
BothOwners == (1 :> a) @@ (2 :> b)
TwoTags == (1 :> t) @@ (2 :> u)

\* The group of a with a content of a, and plain content of b with its tag.
GroupAndPlain == (1 :> g1) @@ (2 :> Plain)
OneTag == (1 :> t) @@ (2 :> t)

=============================================================================
