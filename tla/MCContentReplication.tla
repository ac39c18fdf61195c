----------------------- MODULE MCContentReplication -----------------------
(* Small instances of ContentReplication for TLC.                          *)
EXTENDS ContentReplication, TLC

CONSTANTS a, b, x, y

\* Two contents of one owner under two tags.
TwoTags == (1 :> "t") @@ (2 :> "u")
TwoHashes == (1 :> x) @@ (2 :> y)
OneOwner == (1 :> a) @@ (2 :> a)

OneTagOnly == (1 :> "t")
OneHashOnly == (1 :> x)
OneOwnerOnly == (1 :> a)

\* Two contents under the same tag.
OneTag == (1 :> "t") @@ (2 :> "t")
=============================================================================
