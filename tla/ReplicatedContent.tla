------------------------- MODULE ReplicatedContent -------------------------
(***************************************************************************)
(* What content replication promises, without threads, files or crashes:   *)
(* metadata spreads from its owner, blocks spread from nodes that have     *)
(* them, and a node shows a tag to the others only for content it held.    *)
(* ContentReplication implements it.                                       *)
(***************************************************************************)
CONSTANTS Node, Content, Tag, Hash, TagOf, HashOf, OwnerOf

VARIABLES
  held,    \* [Node -> SUBSET Hash]: the hashes a node ever stored
  known,   \* [Node -> SUBSET Content]: the metadata it merged
  shown    \* [Node -> SUBSET Tag]: the tags its filter shows

avars == <<held, known, shown>>

AInit == /\ held = [n \in Node |-> {}]
         /\ known = [n \in Node |-> {}]
         /\ shown = [n \in Node |-> {}]

Published(c) == \E m \in Node : c \in known[m]
MayShow(n, t) == \E c \in Content : TagOf[c] = t /\ HashOf[c] \in held[n]

\* An owner stores content it made.
Store(n, c) ==
  /\ OwnerOf[c] = n
  /\ held' = [held EXCEPT ![n] = @ \cup {HashOf[c]}]
  /\ UNCHANGED <<known, shown>>

\* Metadata comes into being at an owner that stored the content, and from
\* there it spreads.
Learn(n, c) ==
  /\ \/ OwnerOf[c] = n /\ HashOf[c] \in held[n]
     \/ Published(c)
  /\ known' = [known EXCEPT ![n] = @ \cup {c}]
  /\ UNCHANGED <<held, shown>>

\* Published content is copied from a node that stored it.
Fetch(n, c) ==
  /\ Published(c) /\ \E m \in Node : HashOf[c] \in held[m]
  /\ held' = [held EXCEPT ![n] = @ \cup {HashOf[c]}]
  /\ UNCHANGED <<known, shown>>

Show(n, t) ==
  /\ MayShow(n, t)
  /\ shown' = [shown EXCEPT ![n] = @ \cup {t}]
  /\ UNCHANGED <<held, known>>

\* A death or a lost update takes tags away.
Forget(n, tags) ==
  /\ tags \subseteq shown[n]
  /\ shown' = [shown EXCEPT ![n] = tags]
  /\ UNCHANGED <<held, known>>

\* A restart brings tags back, from nothing, and only rightful ones.
Recover(n, tags) ==
  /\ shown[n] = {} /\ \A t \in tags : MayShow(n, t)
  /\ shown' = [shown EXCEPT ![n] = tags]
  /\ UNCHANGED <<held, known>>

ANext ==
  \E n \in Node :
    \/ \E c \in Content : Store(n, c) \/ Learn(n, c) \/ Fetch(n, c)
    \/ \E t \in Tag : Show(n, t)
    \/ \E tags \in SUBSET Tag : Forget(n, tags) \/ Recover(n, tags)

ASpec == AInit /\ [][ANext]_avars

=============================================================================
