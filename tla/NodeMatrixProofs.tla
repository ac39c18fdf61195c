-------------------------- MODULE NodeMatrixProofs --------------------------
(***************************************************************************)
(* Proofs about NodeMatrix, for every set of peers and every bound: types, *)
(* and the invariants that the bookkeeping of connections and the flush    *)
(* keep through deaths and restarts.                                       *)
(***************************************************************************)
EXTENDS NodeMatrix, SequenceTheorems, TLAPS

(* ----------------------------- type correctness ---------------------- *)

LEMMA NoEntryType == NoEntry \in Entry /\ NoEntry.history = <<>>
  BY DEF NoEntry, Entry, Never

LEMMA EmptyHalfType ==
  EmptyHalf \in Half /\ Counts(EmptyHalf) \in Kept /\ EmptyHalf.nodes \in [Peer -> Entry]
  BY NoEntryType DEF EmptyHalf, Half, Counts, Kept, NoEntry

LEMMA ThisHalfType == ASSUME TypeOK PROVE ThisHalf \in Half /\ Counts(ThisHalf) \in Kept
  <1>1. ThisHalf \in Half
    BY DEF TypeOK, ThisHalf, Half
  <1>2. \A p \in Peer : nodes[p].successes \in Nat /\ Len(nodes[p].history) \in Nat
    BY LenProperties DEF TypeOK, Entry
  <1> QED BY <1>1, <1>2 DEF Counts, ThisHalf, Kept, TypeOK

LEMMA ClosedType ==
  ASSUME now \in Nat, NEW e \in Entry
  PROVE  /\ Closed(e) \in Connection /\ AfterDisconnect(e) \in Entry
         /\ AfterDisconnect(e).history = Append(e.history, Closed(e))
  <1>1. Closed(e) \in Connection
    BY DEF Closed, Connection, Entry
  <1>2. Append(e.history, Closed(e)) \in Seq(Connection)
    BY <1>1 DEF Entry
  <1> QED BY <1>1, <1>2 DEF AfterDisconnect, Entry, Never

LEMMA ConnectedType ==
  ASSUME now \in Nat, NEW e \in Entry
  PROVE  [e EXCEPT !.known = TRUE, !.alive = TRUE, !.ipfs = now, !.successes = @ + 1] \in Entry
  <1>1. e.successes + 1 \in Nat
    BY DEF Entry
  <1>2. ASSUME NEW n \in Nat
        PROVE  [e EXCEPT !.known = TRUE, !.alive = TRUE, !.ipfs = now, !.successes = n] \in Entry
    BY DEF Entry
  <1> QED BY <1>1, <1>2

LEMMA MatrixTypeInit == Init => TypeOK
  <1> SUFFICES ASSUME Init PROVE TypeOK
    OBVIOUS
  <1>1. links \in [Peer -> Nat] /\ now \in Nat \ {0}
    BY DEF Init
  <1>2. nodes \in [Peer -> Entry] /\ uptime \in Nat /\ kept \in Kept
    BY EmptyHalfType DEF Init
  <1>3. running \in BOOLEAN /\ listening \in BOOLEAN /\ flushing \in BOOLEAN
        /\ diskContent \in BOOLEAN /\ diskNodes \in Half \cup {None}
    BY DEF Init
  <1>4. flushes \in Nat /\ halts \in Nat /\ stale \subseteq Peer /\ missed \subseteq Peer
    BY DEF Init
  <1> QED BY <1>1, <1>2, <1>3, <1>4 DEF TypeOK

LEMMA MatrixTypeNext == TypeOK /\ [Next]_vars => TypeOK'
  <1> SUFFICES ASSUME TypeOK, [Next]_vars PROVE TypeOK'
    OBVIOUS
  <1> USE DEF TypeOK, keeper, disk
  <1>0. ASSUME UNCHANGED vars PROVE TypeOK'
    BY <1>0 DEF vars
  <1>1. ASSUME NEW p \in Peer, NEW m \in Medium, Discovered(p, m) PROVE TypeOK'
    <2>1. nodes' \in [Peer -> Entry]
      BY <1>1 DEF Discovered, Entry
    <2> QED BY <1>1, <2>1 DEF Discovered
  <1>2. ASSUME NEW p \in Peer, NodeConnected(p) PROVE TypeOK'
    <2>1. nodes' = [nodes EXCEPT ![p] = [nodes[p] EXCEPT
            !.known = TRUE, !.alive = TRUE, !.ipfs = now, !.successes = @ + 1]]
      BY <1>2 DEF NodeConnected
    <2>2. [nodes[p] EXCEPT !.known = TRUE, !.alive = TRUE, !.ipfs = now, !.successes = @ + 1]
            \in Entry
      BY ConnectedType
    <2>3. nodes' \in [Peer -> Entry]
      BY <2>1, <2>2
    <2> QED BY <1>2, <2>3 DEF NodeConnected
  <1>3. ASSUME NEW p \in Peer, ConnectedUnheard(p) PROVE TypeOK'
    BY <1>3 DEF ConnectedUnheard
  <1>4. ASSUME NEW p \in Peer, NodeDisconnected(p) PROVE TypeOK'
    <2>1. nodes' \in [Peer -> Entry]
      BY <1>4, ClosedType DEF NodeDisconnected
    <2> QED BY <1>4, <2>1 DEF NodeDisconnected
  <1>5. ASSUME NEW p \in Peer, DisconnectedUnheard(p) PROVE TypeOK'
    BY <1>5 DEF DisconnectedUnheard
  <1>6. ASSUME Die PROVE TypeOK'
    <2>1. links' \in [Peer -> Nat] /\ nodes' \in [Peer -> Entry] /\ uptime' \in Nat
      BY <1>6, EmptyHalfType DEF Die
    <2>2. halts' \in Nat
      BY <1>6 DEF Die
    <2> QED BY <1>6, <2>1, <2>2 DEF Die
  <1>7. ASSUME Flush PROVE TypeOK'
    BY <1>7, ThisHalfType DEF Flush
  <1>8. ASSUME Ticker PROVE TypeOK'
    <2>1. diskNodes' \in Half /\ uptime' \in Nat
      BY <1>8 DEF Ticker, Half
    <2> QED BY <1>8, <2>1 DEF Ticker
  <1>9. ASSUME FlushContent PROVE TypeOK'
    BY <1>9, ThisHalfType DEF FlushContent
  <1>10. ASSUME Listen \/ Second PROVE TypeOK'
    <2>1. now' \in Nat \ {0} /\ listening' \in BOOLEAN
      <3>1. CASE Listen
        BY <3>1 DEF Listen
      <3>2. CASE Second
        BY <3>2 DEF Second
      <3> QED BY <1>10, <3>1, <3>2
    <2>2. UNCHANGED <<running, links, nodes, uptime, flushing, diskNodes, diskContent, kept,
                      flushes, halts, stale, missed>>
      BY <1>10 DEF Listen, Second
    <2> QED BY <2>1, <2>2
  <1>11. ASSUME Restart PROVE TypeOK'
    <2>1. (IF diskNodes = None \/ ~diskContent THEN EmptyHalf ELSE diskNodes) \in Half
      BY EmptyHalfType
    <2>2. nodes' \in [Peer -> Entry] /\ uptime' \in Nat
      BY <1>11, <2>1 DEF Restart, Half
    <2> QED BY <1>11, <2>2 DEF Restart
  <1>12. CASE Next
    <2> HIDE DEF TypeOK
    <2> QED BY <1>12, <1>1, <1>2, <1>3, <1>4, <1>5, <1>6, <1>7, <1>8, <1>9, <1>10, <1>11
            DEF Next, Halt, Panic
  <1> QED BY <1>0, <1>12

\* Every variable of NodeMatrix keeps its type.
THEOREM MatrixTypeCorrect == Spec => []TypeOK
  <1> QED BY MatrixTypeInit, MatrixTypeNext, PTL DEF Spec

(* ------------------------------ alive, counted ----------------------- *)

\* Before the notifier is there, only what the restart loaded is alive.
AliveInv ==
  /\ AliveIsOpen
  /\ ~listening => \A p \in Peer : nodes[p].alive => p \in stale

LEMMA EmptyAlive == \A p \in Peer : ~EmptyHalf.nodes[p].alive
  BY DEF EmptyHalf, NoEntry

LEMMA AliveNext == TypeOK /\ AliveInv /\ [Next]_vars => AliveInv'
  <1> SUFFICES ASSUME TypeOK, AliveInv, [Next]_vars PROVE AliveInv'
    OBVIOUS
  <1> USE DEF AliveInv, AliveIsOpen
  <1>1. ASSUME UNCHANGED <<nodes, links, stale, listening>> PROVE AliveInv'
    BY <1>1
  <1>2. ASSUME NEW p \in Peer, NEW m \in Medium, Discovered(p, m) PROVE AliveInv'
    <2>1. \A q \in Peer : nodes'[q].alive = nodes[q].alive
      BY <1>2 DEF Discovered, TypeOK, Entry
    <2> QED BY <1>2, <2>1 DEF Discovered
  <1>3. ASSUME NEW p \in Peer, NodeConnected(p) PROVE AliveInv'
    <2>1. \A q \in Peer \ {p} : nodes'[q] = nodes[q] /\ links'[q] = links[q]
      BY <1>3 DEF NodeConnected, TypeOK
    <2>2. links'[p] > 0
      BY <1>3 DEF NodeConnected, TypeOK
    <2> QED BY <1>3, <2>1, <2>2 DEF NodeConnected
  <1>4. ASSUME NEW p \in Peer, ConnectedUnheard(p) PROVE AliveInv'
    BY <1>4 DEF ConnectedUnheard, TypeOK, keeper
  <1>5. ASSUME NEW p \in Peer, NodeDisconnected(p) PROVE AliveInv'
    <2>1. \A q \in Peer \ {p} : nodes'[q] = nodes[q] /\ links'[q] = links[q]
      BY <1>5 DEF NodeDisconnected, TypeOK
    <2>2. ~nodes'[p].alive
      BY <1>5 DEF NodeDisconnected, AfterDisconnect, TypeOK, Entry
    <2> QED BY <1>5, <2>1, <2>2 DEF NodeDisconnected
  <1>6. ASSUME NEW p \in Peer, DisconnectedUnheard(p) PROVE AliveInv'
    BY <1>6 DEF DisconnectedUnheard, keeper
  <1>7. ASSUME Die PROVE AliveInv'
    BY <1>7, EmptyAlive DEF Die
  <1>8. ASSUME Restart PROVE AliveInv'
    BY <1>8 DEF Restart
  <1>9. ASSUME Listen PROVE AliveInv'
    BY <1>9 DEF Listen, keeper
  <1>10. ASSUME Flush \/ Ticker \/ FlushContent \/ Second PROVE AliveInv'
    BY <1>10 DEF Flush, Ticker, FlushContent, Second, keeper
  <1>11. CASE Next
    <2> HIDE DEF AliveInv
    <2> QED BY <1>11, <1>2, <1>3, <1>4, <1>5, <1>6, <1>7, <1>8, <1>9, <1>10 DEF Next, Halt, Panic
  <1> QED BY <1>1, <1>11 DEF vars, keeper

\* A peer that counts as alive has an open connection, or had none that the
\* notifier heard of since the restart that loaded it as alive.
THEOREM AliveCorrect == Spec => []AliveIsOpen
  <1>1. Init => AliveInv
    BY EmptyAlive DEF Init, AliveInv, AliveIsOpen
  <1>2. AliveInv => AliveIsOpen
    BY DEF AliveInv
  <1> QED BY <1>1, <1>2, AliveNext, MatrixTypeInit, MatrixTypeNext, PTL DEF Spec

(* Connections are counted: the same holds of what is on disk.             *)

CountedInv ==
  /\ ConnectionsCounted
  /\ ~running => \A p \in Peer : links[p] = 0
  /\ diskNodes # None => \A p \in Peer \ missed :
       Len(diskNodes.nodes[p].history) <= diskNodes.nodes[p].successes

LEMMA HistoryLens ==
  ASSUME TypeOK
  PROVE  /\ \A p \in Peer : nodes[p].successes \in Nat /\ Len(nodes[p].history) \in Nat
         /\ \A p \in Peer : links[p] \in Nat
         /\ diskNodes # None => \A p \in Peer :
              diskNodes.nodes[p].successes \in Nat /\ Len(diskNodes.nodes[p].history) \in Nat
  BY LenProperties DEF TypeOK, Entry, Half

LEMMA EmptyCounted ==
  \A p \in Peer : EmptyHalf.nodes[p].successes = 0 /\ Len(EmptyHalf.nodes[p].history) = 0
  BY DEF EmptyHalf, NoEntry

LEMMA DiskThis ==
  ASSUME TypeOK, CountedInv, diskNodes'.nodes = nodes
  PROVE  \A p \in Peer \ missed :
           Len(diskNodes'.nodes[p].history) <= diskNodes'.nodes[p].successes
  BY HistoryLens DEF CountedInv, ConnectionsCounted

LEMMA AppendLen ==
  ASSUME now \in Nat, NEW e \in Entry
  PROVE  /\ Len(AfterDisconnect(e).history) = Len(e.history) + 1
         /\ AfterDisconnect(e).successes = e.successes
  <1>1. Closed(e) \in Connection /\ AfterDisconnect(e).history = Append(e.history, Closed(e))
    BY ClosedType
  <1>2. e.history \in Seq(Connection)
    BY DEF Entry
  <1>3. Len(Append(e.history, Closed(e))) = Len(e.history) + 1
    BY <1>1, <1>2, AppendProperties
  <1> QED BY <1>1, <1>3 DEF AfterDisconnect, Entry

LEMMA CountedNext == TypeOK /\ CountedInv /\ [Next]_vars => CountedInv'
  <1> SUFFICES ASSUME TypeOK, CountedInv, [Next]_vars PROVE CountedInv'
    OBVIOUS
  <1> USE DEF CountedInv, ConnectionsCounted
  <1>1. ASSUME UNCHANGED <<nodes, links, running, missed, diskNodes>> PROVE CountedInv'
    BY <1>1
  <1>2. ASSUME NEW p \in Peer, NEW m \in Medium, Discovered(p, m) PROVE CountedInv'
    <2>1. \A q \in Peer : nodes'[q].successes = nodes[q].successes
                         /\ nodes'[q].history = nodes[q].history
      BY <1>2 DEF Discovered, TypeOK, Entry
    <2> QED BY <1>2, <2>1 DEF Discovered, disk
  <1>3. ASSUME NEW p \in Peer, NodeConnected(p) PROVE CountedInv'
    <2>1. \A q \in Peer \ {p} : nodes'[q] = nodes[q] /\ links'[q] = links[q]
      BY <1>3 DEF NodeConnected, TypeOK
    <2>2. /\ links'[p] = links[p] + 1 /\ nodes'[p].successes = nodes[p].successes + 1
          /\ nodes'[p].history = nodes[p].history
      BY <1>3 DEF NodeConnected, TypeOK, Entry
    <2>3. p \notin missed => Len(nodes'[p].history) + links'[p] <= nodes'[p].successes
      BY <2>2, HistoryLens
    <2>4. running /\ UNCHANGED <<running, missed, diskNodes>>
      BY <1>3 DEF NodeConnected, MtxFree, disk
    <2>5. ConnectionsCounted'
      BY <2>1, <2>3, <2>4
    <2> QED BY <2>4, <2>5
  <1>4. ASSUME NEW p \in Peer, ConnectedUnheard(p) PROVE CountedInv'
    BY <1>4 DEF ConnectedUnheard, TypeOK, keeper, disk
  <1>5. ASSUME NEW p \in Peer, NodeDisconnected(p) PROVE CountedInv'
    <2>1. \A q \in Peer \ {p} : nodes'[q] = nodes[q] /\ links'[q] = links[q]
      BY <1>5 DEF NodeDisconnected, TypeOK
    <2>2. nodes'[p] = AfterDisconnect(nodes[p]) /\ links'[p] = links[p] - 1
      BY <1>5 DEF NodeDisconnected, TypeOK
    <2>3. p \notin missed => Len(nodes'[p].history) + links'[p] <= nodes'[p].successes
      BY <2>2, AppendLen, HistoryLens DEF TypeOK
    <2> QED BY <1>5, <2>1, <2>3 DEF NodeDisconnected, disk
  <1>6. ASSUME NEW p \in Peer, DisconnectedUnheard(p) PROVE CountedInv'
    <2>1. \A q \in Peer : links'[q] \in Nat /\ links'[q] <= links[q]
      BY <1>6 DEF DisconnectedUnheard, TypeOK
    <2> QED BY <1>6, <2>1, HistoryLens DEF DisconnectedUnheard, keeper, disk
  <1>7. ASSUME Die PROVE CountedInv'
    BY <1>7, EmptyCounted DEF Die
  <1>8. ASSUME Restart PROVE CountedInv'
    <2>1. \A p \in Peer \ missed : Len(nodes'[p].history) <= nodes'[p].successes
      BY <1>8, EmptyCounted DEF Restart
    <2>2. (\A p \in Peer : links'[p] = 0) /\ running' /\ UNCHANGED <<missed, diskNodes>>
      BY <1>8 DEF Restart, disk
    <2>3. \A p \in Peer : nodes'[p].successes \in Nat /\ Len(nodes'[p].history) \in Nat
      BY <1>8, HistoryLens, EmptyCounted DEF Restart
    <2>4. ConnectionsCounted'
      BY <2>1, <2>2, <2>3
    <2> QED BY <2>2, <2>4
  <1>9. ASSUME Listen \/ Second PROVE CountedInv'
    BY <1>9 DEF Listen, Second, keeper, disk
  <1>10. ASSUME Flush \/ Ticker \/ FlushContent PROVE CountedInv'
    <2>1. UNCHANGED <<nodes, links, running, missed>> /\ (diskNodes' = diskNodes \/ diskNodes'.nodes = nodes)
      BY <1>10 DEF Flush, Ticker, FlushContent, ThisHalf, keeper
    <2> QED BY <2>1, DiskThis
  <1>11. CASE Next
    <2> HIDE DEF CountedInv
    <2> QED BY <1>11, <1>2, <1>3, <1>4, <1>5, <1>6, <1>7, <1>8, <1>9, <1>10 DEF Next, Halt, Panic
  <1> QED BY <1>1, <1>11 DEF vars, keeper, disk

\* No connection that the notifier heard of is forgotten, over restarts from
\* any flush, or one in the middle of a flush.
THEOREM CountedCorrect == Spec => []ConnectionsCounted
  <1>1. Init => CountedInv
    BY EmptyCounted DEF Init, CountedInv, ConnectionsCounted
  <1>2. CountedInv => ConnectionsCounted
    BY DEF CountedInv
  <1> QED BY <1>1, <1>2, CountedNext, MatrixTypeInit, MatrixTypeNext, PTL DEF Spec

(* ------------------------------- times ------------------------------- *)

\* An entry at time t: nothing is later than t, a peer that is not alive has
\* no connection time, and one that is was discovered before it connected.
EntryAt(e, t) ==
  /\ e.ipfs <= t /\ \A m \in Medium : e.found[m] <= t
  /\ ~e.alive => e.ipfs = 0
  /\ e.ipfs # 0 => \A m \in Medium : e.found[m] <= e.ipfs
  /\ \A i \in 1..Len(e.history) : InOrder(e.history[i])

TimesInv ==
  /\ \A p \in Peer : EntryAt(nodes[p], now)
  /\ diskNodes # None => \A p \in Peer : EntryAt(diskNodes.nodes[p], now)

LEMMA NoEntryAt == ASSUME NEW t \in Nat PROVE EntryAt(NoEntry, t)
  <1>1. Len(NoEntry.history) = 0
    BY DEF NoEntry
  <1> QED BY <1>1 DEF EntryAt, NoEntry, Never

LEMMA EntryLater ==
  ASSUME NEW e \in Entry, NEW t \in Nat, EntryAt(e, t)
  PROVE  EntryAt(e, t + 1)
  <1>1. e.ipfs \in Nat /\ e.found \in [Medium -> Nat]
    BY DEF Entry
  <1> QED BY <1>1 DEF EntryAt

LEMMA DiscoveredAt ==
  ASSUME NEW e \in Entry, NEW t \in Nat, EntryAt(e, t), NEW m \in Medium
  PROVE  EntryAt([e EXCEPT !.known = TRUE, !.found[m] = IF e.alive THEN @ ELSE t], t)
  <1> DEFINE d == [e EXCEPT !.known = TRUE, !.found[m] = IF e.alive THEN @ ELSE t]
  <1>1. /\ d.alive = e.alive /\ d.ipfs = e.ipfs /\ d.history = e.history
        /\ \A n \in Medium : d.found[n] = e.found[n] \/ (~e.alive /\ d.found[n] = t)
    BY DEF Entry
  <1>2. e.ipfs \in Nat /\ \A n \in Medium : e.found[n] \in Nat
    BY DEF Entry
  <1> HIDE DEF d
  <1>3. EntryAt(d, t)
    BY <1>1, <1>2 DEF EntryAt
  <1> QED BY <1>3 DEF d

LEMMA ConnectedAt ==
  ASSUME NEW e \in Entry, NEW t \in Nat, EntryAt(e, t)
  PROVE  EntryAt([e EXCEPT !.known = TRUE, !.alive = TRUE, !.ipfs = t, !.successes = @ + 1], t)
  <1> DEFINE d == [e EXCEPT !.known = TRUE, !.alive = TRUE, !.ipfs = t, !.successes = @ + 1]
  <1>1. d.alive /\ d.ipfs = t /\ d.history = e.history /\ d.found = e.found
    BY DEF Entry
  <1> HIDE DEF d
  <1>2. EntryAt(d, t)
    BY <1>1 DEF EntryAt
  <1> QED BY <1>2 DEF d

LEMMA DisconnectedAt ==
  ASSUME now \in Nat, NEW e \in Entry, EntryAt(e, now)
  PROVE  EntryAt(AfterDisconnect(e), now)
  <1> DEFINE d == AfterDisconnect(e)
  <1>1. d.history = Append(e.history, Closed(e)) /\ ~d.alive /\ d.ipfs = 0 /\ d.found = Never
    BY ClosedType DEF AfterDisconnect, Entry
  <1>2. InOrder(Closed(e))
    BY DEF InOrder, Closed, EntryAt
  <1>3. e.history \in Seq(Connection) /\ Closed(e) \in Connection
    BY ClosedType DEF Entry
  <1>4. \A i \in 1..Len(d.history) : InOrder(d.history[i])
    <2> SUFFICES ASSUME NEW i \in 1..Len(d.history) PROVE InOrder(d.history[i])
      OBVIOUS
    <2>1. Len(d.history) = Len(e.history) + 1 /\ Len(e.history) \in Nat
      BY <1>1, <1>3, AppendProperties, LenProperties
    <2>2. CASE i \in 1..Len(e.history)
      <3>1. d.history[i] = e.history[i]
        BY <1>1, <1>3, <2>2, AppendProperties
      <3> QED BY <2>2, <3>1 DEF EntryAt
    <2>3. CASE i = Len(e.history) + 1
      <3>1. d.history[i] = Closed(e)
        BY <1>1, <1>3, <2>3, AppendProperties
      <3> QED BY <1>2, <3>1
    <2> QED BY <2>1, <2>2, <2>3
  <1>5. \A m \in Medium : Never[m] = 0
    BY DEF Never
  <1> QED BY <1>1, <1>4, <1>5 DEF EntryAt

LEMMA EmptyAt == ASSUME NEW t \in Nat, NEW p \in Peer PROVE EntryAt(EmptyHalf.nodes[p], t)
  BY NoEntryAt DEF EmptyHalf

LEMMA TimesNext == TypeOK /\ TimesInv /\ [Next]_vars => TimesInv'
  <1> SUFFICES ASSUME TypeOK, TimesInv, [Next]_vars PROVE TimesInv'
    OBVIOUS
  <1>0. now \in Nat /\ nodes \in [Peer -> Entry]
    BY DEF TypeOK
  <1>1. ASSUME UNCHANGED <<now, nodes, diskNodes>> PROVE TimesInv'
    BY <1>1 DEF TimesInv
  <1>2. ASSUME NEW p \in Peer, UNCHANGED <<now, diskNodes>>, NEW e, EntryAt(e, now),
               nodes' = [nodes EXCEPT ![p] = e]
        PROVE  TimesInv'
    BY <1>0, <1>2 DEF TimesInv
  <1>3. ASSUME NEW p \in Peer, NEW m \in Medium, Discovered(p, m) PROVE TimesInv'
    <2>1. nodes' = [nodes EXCEPT ![p] =
            [nodes[p] EXCEPT !.known = TRUE, !.found[m] = IF nodes[p].alive THEN @ ELSE now]]
      BY <1>3 DEF Discovered
    <2>2. EntryAt([nodes[p] EXCEPT !.known = TRUE,
                                   !.found[m] = IF nodes[p].alive THEN @ ELSE now], now)
      BY <1>0, DiscoveredAt DEF TimesInv
    <2>3. UNCHANGED <<now, diskNodes>>
      BY <1>3 DEF Discovered, disk
    <2> QED BY <1>2, <2>1, <2>2, <2>3
  <1>4. ASSUME NEW p \in Peer, NodeConnected(p) PROVE TimesInv'
    <2>1. nodes' = [nodes EXCEPT ![p] = [nodes[p] EXCEPT
            !.known = TRUE, !.alive = TRUE, !.ipfs = now, !.successes = @ + 1]]
      BY <1>4 DEF NodeConnected
    <2>2. EntryAt([nodes[p] EXCEPT !.known = TRUE, !.alive = TRUE, !.ipfs = now,
                                   !.successes = @ + 1], now)
      BY <1>0, ConnectedAt DEF TimesInv
    <2>3. UNCHANGED <<now, diskNodes>>
      BY <1>4 DEF NodeConnected, disk
    <2> QED BY <1>2, <2>1, <2>2, <2>3
  <1>5. ASSUME NEW p \in Peer, NodeDisconnected(p) PROVE TimesInv'
    <2>1. nodes' = [nodes EXCEPT ![p] = AfterDisconnect(nodes[p])]
      BY <1>5 DEF NodeDisconnected
    <2>2. EntryAt(AfterDisconnect(nodes[p]), now)
      BY <1>0, DisconnectedAt DEF TimesInv
    <2>3. UNCHANGED <<now, diskNodes>>
      BY <1>5 DEF NodeDisconnected, disk
    <2> QED BY <1>2, <2>1, <2>2, <2>3
  <1>6. ASSUME NEW p \in Peer, ConnectedUnheard(p) \/ DisconnectedUnheard(p) PROVE TimesInv'
    BY <1>1, <1>6 DEF ConnectedUnheard, DisconnectedUnheard, keeper, disk
  <1>7. ASSUME Die PROVE TimesInv'
    BY <1>0, <1>7, EmptyAt DEF Die, TimesInv
  <1>8. ASSUME Flush \/ Ticker \/ FlushContent PROVE TimesInv'
    <2>1. UNCHANGED <<now, nodes>> /\ (diskNodes' = diskNodes \/ diskNodes'.nodes = nodes)
      BY <1>8 DEF Flush, Ticker, FlushContent, ThisHalf, keeper
    <2> QED BY <2>1 DEF TimesInv
  <1>9. ASSUME Second PROVE TimesInv'
    <2>1. now' = now + 1 /\ UNCHANGED <<nodes, diskNodes>>
      BY <1>9 DEF Second, keeper, disk
    <2>2. diskNodes # None => \A p \in Peer : diskNodes.nodes[p] \in Entry
      BY DEF TypeOK, Half
    <2> QED BY <1>0, <2>1, <2>2, EntryLater DEF TimesInv
  <1>10. ASSUME Restart PROVE TimesInv'
    <2>1. UNCHANGED <<now, diskNodes>>
      BY <1>10 DEF Restart, disk
    <2>2. nodes' = EmptyHalf.nodes \/ (diskNodes # None /\ nodes' = diskNodes.nodes)
      BY <1>10 DEF Restart
    <2> QED BY <1>0, <2>1, <2>2, EmptyAt DEF TimesInv
  <1>11. ASSUME Listen PROVE TimesInv'
    BY <1>1, <1>11 DEF Listen, keeper, disk
  <1>12. CASE Next
    BY <1>12, <1>3, <1>4, <1>5, <1>6, <1>7, <1>8, <1>9, <1>10, <1>11 DEF Next, Halt, Panic
  <1> QED BY <1>1, <1>12 DEF vars, keeper, disk

\* The times of every connection in the history are in order, however many
\* connections a peer has, also those that a restart or a flush lies between.
THEOREM HistoryCorrect == Spec => []HistoryOrdered
  <1>1. Init => TimesInv
    BY EmptyAt DEF Init, TimesInv
  <1>2. TimesInv => HistoryOrdered
    BY DEF TimesInv, HistoryOrdered, EntryAt
  <1> QED BY <1>1, <1>2, TimesNext, MatrixTypeInit, MatrixTypeNext, PTL DEF Spec

(* ------------------------------ flushes ------------------------------ *)

\* No count of k is above what the half has.
Within(k, half) ==
  /\ k.uptime <= half.uptime
  /\ \A p \in Peer : /\ k.successes[p] <= half.nodes[p].successes
                     /\ k.entries[p] <= Len(half.nodes[p].history)

\* While a flush is between its two Puts the node half on disk is that of the
\* keeper, and until the first flush ends nothing is kept.
FlushInv ==
  /\ running => Within(kept, ThisHalf)
  /\ flushing => running /\ diskNodes = ThisHalf
  /\ IF diskNodes = None \/ ~diskContent
     THEN kept = Counts(EmptyHalf)
     ELSE Within(kept, diskNodes)

LEMMA WithinOwn == ASSUME NEW half \in Half PROVE Within(Counts(half), half)
  <1>1. half.uptime \in Nat
    BY DEF Half
  <1>2. \A p \in Peer : half.nodes[p].successes \in Nat /\ Len(half.nodes[p].history) \in Nat
    BY LenProperties DEF Half, Entry
  <1> QED BY <1>1, <1>2 DEF Within, Counts

LEMMA WithinNow == Within(kept, ThisHalf) <=>
                     /\ kept.uptime <= uptime
                     /\ \A p \in Peer : /\ kept.successes[p] <= nodes[p].successes
                                        /\ kept.entries[p] <= Len(nodes[p].history)
  BY DEF Within, ThisHalf

\* A step outside a flush that loses no count and leaves the disk alone.
LEMMA GrowKeeps ==
  ASSUME TypeOK, FlushInv, MtxFree, uptime' = uptime,
         UNCHANGED <<diskNodes, diskContent, kept, flushing>>,
         \A p \in Peer : /\ nodes'[p].successes \in Nat /\ Len(nodes'[p].history) \in Nat
                         /\ nodes[p].successes <= nodes'[p].successes
                         /\ Len(nodes[p].history) <= Len(nodes'[p].history)
  PROVE  FlushInv'
  <1>1. \A p \in Peer : kept.successes[p] \in Nat /\ kept.entries[p] \in Nat
    BY DEF TypeOK, Kept
  <1>2. Within(kept, ThisHalf)'
    BY <1>1, HistoryLens DEF FlushInv, MtxFree, Within, ThisHalf
  <1>3. ~flushing'
    BY DEF MtxFree
  <1> QED BY <1>2, <1>3 DEF FlushInv, Within, Counts, EmptyHalf

LEMMA FlushNext == TypeOK /\ FlushInv /\ [Next]_vars => FlushInv'
  <1> SUFFICES ASSUME TypeOK, FlushInv, [Next]_vars PROVE FlushInv'
    OBVIOUS
  <1>0. ThisHalf \in Half /\ ThisHalf # None /\ EmptyHalf \in Half
    BY ThisHalfType, EmptyHalfType, NoneIsNoHalf
  <1>1. ASSUME UNCHANGED <<nodes, uptime, running, disk>> PROVE FlushInv'
    BY <1>1 DEF FlushInv, Within, ThisHalf, Counts, EmptyHalf, disk
  <1>2. ASSUME NEW p \in Peer, NEW m \in Medium, Discovered(p, m) PROVE FlushInv'
    <2>1. \A q \in Peer : nodes'[q].successes = nodes[q].successes
                          /\ nodes'[q].history = nodes[q].history
      BY <1>2 DEF Discovered, TypeOK, Entry
    <2>2. /\ MtxFree /\ uptime' = uptime
          /\ UNCHANGED <<diskNodes, diskContent, kept, flushing>>
      BY <1>2 DEF Discovered, disk
    <2>3. \A q \in Peer : /\ nodes'[q].successes \in Nat /\ Len(nodes'[q].history) \in Nat
                          /\ nodes[q].successes <= nodes'[q].successes
                          /\ Len(nodes[q].history) <= Len(nodes'[q].history)
      BY <2>1, HistoryLens
    <2> QED BY <2>2, <2>3, GrowKeeps
  <1>3. ASSUME NEW p \in Peer, NodeConnected(p) PROVE FlushInv'
    <2>1. \A q \in Peer : /\ nodes'[q].successes \in {nodes[q].successes, nodes[q].successes + 1}
                          /\ nodes'[q].history = nodes[q].history
      BY <1>3 DEF NodeConnected, TypeOK, Entry
    <2>2. /\ MtxFree /\ uptime' = uptime
          /\ UNCHANGED <<diskNodes, diskContent, kept, flushing>>
      BY <1>3 DEF NodeConnected, disk
    <2>3. \A q \in Peer : /\ nodes'[q].successes \in Nat /\ Len(nodes'[q].history) \in Nat
                          /\ nodes[q].successes <= nodes'[q].successes
                          /\ Len(nodes[q].history) <= Len(nodes'[q].history)
      BY <2>1, HistoryLens
    <2> QED BY <2>2, <2>3, GrowKeeps
  <1>4. ASSUME NEW p \in Peer, NodeDisconnected(p) PROVE FlushInv'
    <2>1. \A q \in Peer : nodes'[q] = IF q = p THEN AfterDisconnect(nodes[p]) ELSE nodes[q]
      BY <1>4 DEF NodeDisconnected, TypeOK
    <2>2. /\ Len(AfterDisconnect(nodes[p]).history) = Len(nodes[p].history) + 1
          /\ AfterDisconnect(nodes[p]).successes = nodes[p].successes
      BY AppendLen DEF TypeOK
    <2>3. \A q \in Peer : /\ nodes'[q].successes \in Nat /\ Len(nodes'[q].history) \in Nat
                          /\ nodes[q].successes <= nodes'[q].successes
                          /\ Len(nodes[q].history) <= Len(nodes'[q].history)
      BY <2>1, <2>2, HistoryLens
    <2> QED BY <1>4, <2>3, GrowKeeps DEF NodeDisconnected, disk
  <1>5. ASSUME NEW p \in Peer, ConnectedUnheard(p) \/ DisconnectedUnheard(p) PROVE FlushInv'
    BY <1>1, <1>5 DEF ConnectedUnheard, DisconnectedUnheard, keeper
  <1>6. ASSUME Die PROVE FlushInv'
    BY <1>6 DEF Die, FlushInv, Within, Counts, EmptyHalf
  <1>7. ASSUME Flush PROVE FlushInv'
    <2>1. /\ running /\ UNCHANGED <<running, nodes, uptime, kept, diskContent>>
          /\ diskNodes' = ThisHalf
      BY <1>7 DEF Flush, MtxFree, keeper
    <2>2. ThisHalf' = ThisHalf /\ Within(kept, ThisHalf)
      BY <2>1 DEF ThisHalf, FlushInv
    <2>3. ~diskContent => kept = Counts(EmptyHalf)
      BY DEF FlushInv
    <2> QED BY <1>0, <2>1, <2>2, <2>3 DEF FlushInv, Within, Counts, EmptyHalf
  <1>8. ASSUME Ticker PROVE FlushInv'
    <2>1. /\ running /\ UNCHANGED <<running, nodes, kept, diskContent>>
          /\ uptime' = uptime + 30 /\ diskNodes' = ThisHalf'
      BY <1>8 DEF Ticker, MtxFree, ThisHalf
    <2>2. Within(kept, ThisHalf)'
      <3>1. kept.uptime \in Nat /\ uptime \in Nat
        BY DEF TypeOK, Kept
      <3> QED BY <2>1, <3>1 DEF FlushInv, Within, ThisHalf
    <2>3. ~diskContent => kept = Counts(EmptyHalf)
      BY DEF FlushInv
    <2>4. ThisHalf' # None
      <3>1. nodes \in [Peer -> Entry] /\ uptime + 30 \in Nat
        BY DEF TypeOK
      <3>2. [nodes |-> nodes, uptime |-> uptime + 30] \in Half
        BY <3>1 DEF Half
      <3> QED BY <2>1, <3>2, NoneIsNoHalf DEF ThisHalf
    <2> QED BY <2>1, <2>2, <2>3, <2>4 DEF FlushInv, Within, Counts, EmptyHalf
  <1>9. ASSUME FlushContent PROVE FlushInv'
    <2>1. /\ UNCHANGED <<nodes, uptime, diskNodes>> /\ diskNodes = ThisHalf
          /\ kept' = Counts(ThisHalf) /\ diskContent' /\ ~flushing'
      BY <1>9 DEF FlushContent, FlushInv, keeper
    <2>2. Within(kept', ThisHalf)
      BY <1>0, <2>1, WithinOwn
    <2> QED BY <1>0, <2>1, <2>2 DEF FlushInv, Within, ThisHalf
  <1>10. ASSUME Restart PROVE FlushInv'
    <2>1. UNCHANGED <<diskNodes, diskContent, kept, flushing>>
      BY <1>10 DEF Restart, disk
    <2>2. Within(Counts(EmptyHalf), EmptyHalf)
      BY <1>0, WithinOwn
    <2>3. Within(kept, ThisHalf)'
      BY <1>10, <2>1, <2>2 DEF Restart, FlushInv, Within, ThisHalf
    <2>4. ~flushing
      BY <1>10 DEF Restart, FlushInv
    <2> QED BY <2>1, <2>3, <2>4 DEF FlushInv, Within, Counts, EmptyHalf
  <1>11. ASSUME Listen \/ Second PROVE FlushInv'
    BY <1>1, <1>11 DEF Listen, Second, keeper
  <1>12. CASE Next
    BY <1>12, <1>2, <1>3, <1>4, <1>5, <1>6, <1>7, <1>8, <1>9, <1>10, <1>11
       DEF Next, Halt, Panic
  <1> QED BY <1>1, <1>12 DEF vars, keeper

\* No death, in the middle of a flush or between flushes, loses what an
\* earlier flush wrote to its end.
THEOREM FlushCorrect == Spec => []FlushedSurvives
  <1>1. Init => FlushInv
    <2>1. Init => ThisHalf = EmptyHalf
      BY DEF Init, ThisHalf, EmptyHalf
    <2> QED BY <2>1, EmptyHalfType, WithinOwn DEF Init, FlushInv
  <1>2. FlushInv => FlushedSurvives
    BY WithinNow DEF FlushInv, FlushedSurvives
  <1> QED BY <1>1, <1>2, FlushNext, MatrixTypeInit, MatrixTypeNext, PTL DEF Spec
=============================================================================
