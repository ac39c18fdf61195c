--------------------------- MODULE DiscoveryProofs ---------------------------
(***************************************************************************)
(* Proofs about Discovery, for every set of clients and tags, every number *)
(* of watchers of a phone and every bound.                                 *)
(***************************************************************************)
EXTENDS Discovery, SequenceTheorems, TLAPS

\* The steps of Next, one by one.
LEMMA DiscoveryCases ==
  ASSUME Next
  PROVE  \/ \E p \in Phone : AddContent(p)
         \/ \E p \in Phone : StartQuietly(p)
         \/ \E p \in Phone : StartCRDTStateWatcher(p)
         \/ \E p \in Phone : Publish(p)
         \/ \E p, q \in Phone : Replicate(p, q)
         \/ StopHost \/ HostStopped
         \/ HotspotStarted
         \/ \E c \in Client : PeerReported(c)
         \/ \E c \in Client : AdvertiserPeerDifferentStatus(c)
         \/ \E c \in Client : StopClient(c)
         \/ \E c \in Client : DiscoveryPeerDifferentStatus(c)
         \/ \E c \in Client : Connect(c)
         \/ \E c \in Client : LinkComesUp(c)
         \/ \E c \in Client : LinkFails(c)
         \/ \E c \in Client : LinkBreaks(c)
         \/ \E c \in Client : OnConnectionSuccess(c)
         \/ \E c \in Client : OnConnectionFailure(c)
         \/ \E c \in Client : OnDisconnect(c)
         \/ \E p \in Phone, s \in Watcher : \E state \in inbox[p] : Receive(p, s, state)
         \/ \E p \in Phone, s \in Watcher : CheckPart(p, s)
         \/ \E s \in Watcher : StopHotspot(s)
         \/ \E p \in Client, s \in Watcher : Disconnect(p, s)
         \/ \E p \in Client, s \in Watcher : Disconnected(p, s)
  <1>1. CASE \E p \in Phone, s \in Watcher : Watch(p, s)
    <2>1. PICK p \in Phone, s \in Watcher : Watch(p, s)
      BY <1>1
    <2>2. CASE p = Host
      BY <2>1, <2>2 DEF Watch
    <2>3. CASE p # Host
      <3>1. p \in Client
        BY <2>3 DEF Phone
      <3> QED BY <2>1, <2>3, <3>1 DEF Watch
    <2> QED BY <2>2, <2>3
  <1>2. CASE ~\E p \in Phone, s \in Watcher : Watch(p, s)
    BY <1>2 DEF Next, Wifi, WifiCallback
  <1> QED BY <1>1, <1>2

(* ----------------------------- type correctness ---------------------- *)

Pc == {"none", "wait", "same", "part", "reset"}
Links == {"off", "asked", "up"}

LEMMA CutType ==
  ASSUME link \in [Client -> Links], pending \in [Client -> Seq(Event)],
         NEW C, Cut(C)
  PROVE  link' \in [Client -> Links] /\ pending' \in [Client -> Seq(Event)]
  BY DEF Cut, Links, Event

LEMMA SendType ==
  ASSUME inbox \in [Phone -> SUBSET SUBSET Tag], NEW to, NEW state \in SUBSET Tag,
         Send(state, to)
  PROVE  inbox' \in [Phone -> SUBSET SUBSET Tag]
  BY DEF Send

LEMMA GoType ==
  ASSUME watcher \in [Phone -> [Watcher -> Pc]],
         NEW p \in Phone, NEW s \in Watcher, NEW pc \in Pc, Go(p, s, pc)
  PROVE  watcher' \in [Phone -> [Watcher -> Pc]]
  BY DEF Go

LEMMA DiscoveryTypeInit == Init => TypeOK
  <1> SUFFICES ASSUME Init PROVE TypeOK
    OBVIOUS
  <1>1. passed \in [Client -> 0..MaxCallers] /\ pending \in [Client -> Seq(Event)]
    BY DiscoveryAssumption DEF Init, Event
  <1>2. told \in [Phone -> SUBSET Tag] /\ inbox \in [Phone -> SUBSET SUBSET Tag]
    BY DEF Init
  <1>3. watcher \in [Phone -> [Watcher -> Pc]]
    BY DEF Init, Pc
  <1> QED BY <1>1, <1>2, <1>3 DEF Init, TypeOK, Pc

LEMMA DiscoveryTypeNext == TypeOK /\ [Next]_vars => TypeOK'
  <1> SUFFICES ASSUME TypeOK, [Next]_vars PROVE TypeOK'
    OBVIOUS
  <1> USE DEF TypeOK, Phone, ble, server, client, messages
  <1>0. ASSUME UNCHANGED vars PROVE TypeOK'
    BY <1>0 DEF vars
  <1>1. ASSUME NEW p \in Phone, AddContent(p) PROVE TypeOK'
    BY <1>1 DEF AddContent
  <1>2. ASSUME NEW p \in Phone, StartQuietly(p) PROVE TypeOK'
    BY <1>2 DEF StartQuietly, StartDiscovery
  <1>3. ASSUME NEW p \in Phone, StartCRDTStateWatcher(p) PROVE TypeOK'
    BY <1>3 DEF StartCRDTStateWatcher, StartDiscovery
  <1>4. ASSUME NEW p \in Phone, Publish(p) PROVE TypeOK'
    <2>1. PICK to \in SUBSET Peers(p) : PublishTo(p, to)
      BY <1>4 DEF Publish
    <2>2. inbox' \in [Phone -> SUBSET SUBSET Tag]
      <3>1. told[p] \in SUBSET Tag /\ Send(told[p], to)
        BY <2>1 DEF PublishTo
      <3> QED BY <3>1, SendType
    <2> QED BY <2>1, <2>2 DEF PublishTo
  <1>5. ASSUME NEW p \in Phone, NEW q \in Phone, Replicate(p, q) PROVE TypeOK'
    BY <1>5 DEF Replicate
  <1>6. ASSUME StopHost PROVE TypeOK'
    <2>1. link' \in [Client -> Links] /\ pending' \in [Client -> Seq(Event)]
      BY <1>6, CutType DEF StopHost, Links
    <2> QED BY <1>6, <2>1 DEF StopHost, MutexFree, Links
  <1>7. ASSUME HostStopped PROVE TypeOK'
    BY <1>7 DEF HostStopped
  <1>8. ASSUME NEW c \in Client, PeerReported(c) \/ AdvertiserPeerDifferentStatus(c)
        PROVE  TypeOK'
    <2>1. CASE PeerReported(c)
      BY <2>1 DEF PeerReported
    <2>2. CASE AdvertiserPeerDifferentStatus(c)
      <3>1. hotspot' \in BOOLEAN /\ starting' \in BOOLEAN /\ ~closing' /\ called' \subseteq Client
        BY <2>2 DEF AdvertiserPeerDifferentStatus, MutexFree
      <3> QED BY <2>2, <3>1 DEF AdvertiserPeerDifferentStatus
    <2> QED BY <1>8, <2>1, <2>2
  <1>9. ASSUME HotspotStarted PROVE TypeOK'
    BY <1>9 DEF HotspotStarted
  <1>10. ASSUME NEW c \in Client, StopClient(c) PROVE TypeOK'
    <2>1. link' \in [Client -> Links] /\ pending' \in [Client -> Seq(Event)]
      BY <1>10, CutType DEF StopClient, Links
    <2> QED BY <1>10, <2>1 DEF StopClient, Links
  <1>11. ASSUME NEW c \in Client, DiscoveryPeerDifferentStatus(c) PROVE TypeOK'
    BY <1>11, DiscoveryAssumption DEF DiscoveryPeerDifferentStatus
  <1>12. ASSUME NEW c \in Client, Connect(c) PROVE TypeOK'
    <2>1. pending' \in [Client -> Seq(Event)]
      BY <1>12 DEF Connect, Event
    <2>2. passed' \in [Client -> 0..MaxCallers]
      BY <1>12, DiscoveryAssumption DEF Connect
    <2> QED BY <1>12, <2>1, <2>2 DEF Connect
  <1>13. ASSUME NEW c \in Client, LinkComesUp(c) PROVE TypeOK'
    BY <1>13 DEF LinkComesUp, Event
  <1>14. ASSUME NEW c \in Client, LinkFails(c) PROVE TypeOK'
    BY <1>14 DEF LinkFails, Event
  <1>15. ASSUME NEW c \in Client, LinkBreaks(c) PROVE TypeOK'
    <2>1. link' \in [Client -> Links] /\ pending' \in [Client -> Seq(Event)]
      BY <1>15, CutType DEF LinkBreaks, Links
    <2> QED BY <1>15, <2>1 DEF LinkBreaks, Links
  <1>16. ASSUME NEW c \in Client, OnConnectionSuccess(c) PROVE TypeOK'
    BY <1>16 DEF OnConnectionSuccess, Called
  <1>17. ASSUME NEW c \in Client, OnConnectionFailure(c) PROVE TypeOK'
    <2>1. Tail(pending[c]) \in Seq(Event) /\ Append(Tail(pending[c]), "disconnect") \in Seq(Event)
      BY <1>17 DEF OnConnectionFailure, Called, Event
    <2> QED BY <1>17, <2>1 DEF OnConnectionFailure
  <1>18. ASSUME NEW c \in Client, OnDisconnect(c) PROVE TypeOK'
    BY <1>18 DEF OnDisconnect, Called
  <1>19. ASSUME NEW p \in Phone, NEW s \in Watcher, NEW state \in inbox[p], Receive(p, s, state)
         PROVE  TypeOK'
    <2>1. state \in SUBSET Tag
      OBVIOUS
    <2>2. CASE state # filter[p]
      <3>1. inbox' = [inbox EXCEPT ![p] = @ \ {state}] /\ watcher' = watcher
        BY <1>19, <2>2 DEF Receive
      <3>2. inbox' \in [Phone -> SUBSET SUBSET Tag]
        BY <3>1
      <3> QED BY <1>19, <3>1, <3>2 DEF Receive
    <2>3. CASE state = filter[p]
      <3>1. PICK to \in SUBSET Peers(p) :
              inbox' = [q \in Phone |-> IF q = p THEN inbox[q] \ {state}
                                       ELSE IF q \in to THEN inbox[q] \cup {state} ELSE inbox[q]]
        BY <1>19, <2>3 DEF Receive
      <3>2. inbox' \in [Phone -> SUBSET SUBSET Tag]
        BY <2>1, <3>1
      <3>3. watcher' \in [Phone -> [Watcher -> Pc]]
        BY <1>19, <2>3, GoType DEF Receive, Pc
      <3> QED BY <1>19, <3>2, <3>3 DEF Receive, Pc
    <2> QED BY <2>2, <2>3
  <1>20. ASSUME NEW p \in Phone, NEW s \in Watcher, CheckPart(p, s) PROVE TypeOK'
    <2>1. watcher' \in [Phone -> [Watcher -> Pc]]
      BY <1>20 DEF CheckPart, Go, Pc
    <2> QED BY <1>20, <2>1 DEF CheckPart, Pc
  <1>21. ASSUME NEW s \in Watcher, StopHotspot(s) PROVE TypeOK'
    <2>1. watcher' \in [Phone -> [Watcher -> Pc]]
      BY <1>21 DEF StopHotspot, Go, Pc
    <2>2. link' \in [Client -> Links] /\ pending' \in [Client -> Seq(Event)]
      BY <1>21, CutType DEF StopHotspot, Links
    <2>3. hotspot' \in BOOLEAN /\ isHost' \in BOOLEAN
      BY <1>21 DEF StopHotspot
    <2> QED BY <1>21, <2>1, <2>2, <2>3 DEF StopHotspot, Pc, Links
  <1>22. ASSUME NEW c \in Client, NEW s \in Watcher, Disconnect(c, s) PROVE TypeOK'
    <2>1. watcher' \in [Phone -> [Watcher -> Pc]]
      BY <1>22 DEF Disconnect, Go, Pc
    <2>2. link' \in [Client -> Links] /\ pending' \in [Client -> Seq(Event)]
      BY <1>22, CutType DEF Disconnect, Links
    <2> QED BY <1>22, <2>1, <2>2 DEF Disconnect, Pc, Links
  <1>23. ASSUME NEW c \in Client, NEW s \in Watcher, Disconnected(c, s) PROVE TypeOK'
    <2>1. watcher' \in [Phone -> [Watcher -> Pc]]
      BY <1>23 DEF Disconnected, Go, Pc
    <2> QED BY <1>23, <2>1 DEF Disconnected, Pc
  <1>24. CASE Next
    <2> HIDE DEF TypeOK
    <2> QED BY <1>24, DiscoveryCases, <1>1, <1>2, <1>3, <1>4, <1>5, <1>6, <1>7, <1>8, <1>9,
         <1>10, <1>11, <1>12, <1>13, <1>14, <1>15, <1>16, <1>17, <1>18, <1>19, <1>20,
         <1>21, <1>22, <1>23
  <1> QED BY <1>0, <1>24

\* Every variable keeps its type, and the host's mutex has one holder.
THEOREM DiscoveryTypeCorrect == Spec => []TypeOK
  <1> QED BY DiscoveryTypeInit, DiscoveryTypeNext, PTL DEF Spec

(* ------------------------------- the hotspot ------------------------- *)

\* Somebody will set isHost or stop the hotspot; and close has stopped it.
HotspotInv ==
  /\ NoOrphanHotspot
  /\ closing => ~hotspot

\* A step that leaves the hotspot alone, and every watcher that is about to
\* stop it.
LEMMA HotspotFrame ==
  ASSUME HotspotInv, UNCHANGED server,
         \A s \in Watcher : watcher[Host][s] = "reset" => watcher'[Host][s] = "reset"
  PROVE  HotspotInv'
  BY DEF HotspotInv, NoOrphanHotspot, server

LEMMA OtherWatcher ==
  ASSUME TypeOK, NEW p \in Phone, NEW s \in Watcher, NEW pc, Go(p, s, pc),
         p # Host \/ watcher[p][s] # "reset"
  PROVE  \A r \in Watcher : watcher[Host][r] = "reset" => watcher'[Host][r] = "reset"
  BY DEF TypeOK, Go, Phone

LEMMA HotspotNext == TypeOK /\ HotspotInv /\ [Next]_vars => HotspotInv'
  <1> SUFFICES ASSUME TypeOK, HotspotInv, [Next]_vars PROVE HotspotInv'
    OBVIOUS
  <1>1. ASSUME UNCHANGED <<server, watcher>> PROVE HotspotInv'
    BY <1>1, HotspotFrame
  <1>2. ASSUME NEW p \in Phone, StartCRDTStateWatcher(p) PROVE HotspotInv'
    <2>1. \A s \in Watcher : watcher[Host][s] = "reset" => watcher'[Host][s] = "reset"
      BY <1>2 DEF StartCRDTStateWatcher, TypeOK, Phone
    <2> QED BY <1>2, <2>1, HotspotFrame DEF StartCRDTStateWatcher, StartDiscovery
  <1>3. ASSUME StopHost PROVE HotspotInv'
    BY <1>3 DEF StopHost, HotspotInv, NoOrphanHotspot
  <1>4. ASSUME HostStopped PROVE HotspotInv'
    BY <1>4 DEF HostStopped, HotspotInv, NoOrphanHotspot
  <1>5. ASSUME NEW c \in Client, AdvertiserPeerDifferentStatus(c) PROVE HotspotInv'
    <2>1. UNCHANGED <<isHost, closing, watcher>> /\ ~closing
      BY <1>5 DEF AdvertiserPeerDifferentStatus, MutexFree
    <2>2. UNCHANGED <<hotspot, starting>> \/ starting' = TRUE
      BY <1>5 DEF AdvertiserPeerDifferentStatus
    <2> QED BY <2>1, <2>2 DEF HotspotInv, NoOrphanHotspot
  <1>6. ASSUME HotspotStarted PROVE HotspotInv'
    BY <1>6 DEF HotspotStarted, HotspotInv, NoOrphanHotspot
  <1>7. ASSUME NEW p \in Phone, NEW s \in Watcher, NEW state \in inbox[p], Receive(p, s, state)
        PROVE  HotspotInv'
    <2>1. UNCHANGED watcher \/ (Go(p, s, "same") /\ watcher[p][s] = "wait")
      BY <1>7 DEF Receive
    <2>2. \A r \in Watcher : watcher[Host][r] = "reset" => watcher'[Host][r] = "reset"
      BY <2>1, OtherWatcher
    <2> QED BY <1>7, <2>2, HotspotFrame DEF Receive
  <1>8. ASSUME NEW p \in Phone, NEW s \in Watcher, CheckPart(p, s) PROVE HotspotInv'
    <2>1. Go(p, s, IF MayPart(p) THEN "part" ELSE "wait") /\ watcher[p][s] = "same"
      BY <1>8 DEF CheckPart
    <2>2. \A r \in Watcher : watcher[Host][r] = "reset" => watcher'[Host][r] = "reset"
      BY <2>1, OtherWatcher
    <2> QED BY <1>8, <2>2, HotspotFrame DEF CheckPart
  <1>9. ASSUME NEW s \in Watcher, StopHotspot(s) PROVE HotspotInv'
    <2>1. CASE watcher[Host][s] = "part"
      <3>1. isHost' = FALSE /\ Go(Host, s, "reset") /\ UNCHANGED <<hotspot, closing>>
        BY <1>9, <2>1 DEF StopHotspot
      <3>2. watcher'[Host][s] = "reset"
        BY <3>1 DEF Go, TypeOK, Phone
      <3> QED BY <3>1, <3>2 DEF HotspotInv, NoOrphanHotspot
    <2>2. CASE watcher[Host][s] = "reset"
      BY <1>9, <2>2 DEF StopHotspot, HotspotInv, NoOrphanHotspot
    <2> QED BY <1>9, <2>1, <2>2 DEF StopHotspot
  <1>10. ASSUME NEW c \in Client, NEW s \in Watcher, Disconnect(c, s) \/ Disconnected(c, s)
         PROVE  HotspotInv'
    <2>1. c \in Phone /\ c # Host
      BY DiscoveryAssumption DEF Phone
    <2>2. \E pc \in Pc : Go(c, s, pc)
      BY <1>10 DEF Disconnect, Disconnected, Pc
    <2>3. \A r \in Watcher : watcher[Host][r] = "reset" => watcher'[Host][r] = "reset"
      BY <2>1, <2>2, OtherWatcher
    <2> QED BY <1>10, <2>3, HotspotFrame DEF Disconnect, Disconnected
  <1>11. CASE Next /\ ~UNCHANGED <<server, watcher>>
    <2>1. ASSUME NEW p \in Phone PROVE
            /\ AddContent(p) => UNCHANGED <<server, watcher>>
            /\ StartQuietly(p) => UNCHANGED <<server, watcher>>
            /\ Publish(p) => UNCHANGED <<server, watcher>>
            /\ \A q \in Phone : Replicate(p, q) => UNCHANGED <<server, watcher>>
      BY DEF AddContent, StartQuietly, StartDiscovery, Publish, PublishTo, Replicate
    <2>2. ASSUME NEW c \in Client PROVE
            /\ PeerReported(c) => UNCHANGED <<server, watcher>>
            /\ StopClient(c) \/ DiscoveryPeerDifferentStatus(c) \/ Connect(c) =>
                 UNCHANGED <<server, watcher>>
            /\ LinkComesUp(c) \/ LinkFails(c) \/ LinkBreaks(c) => UNCHANGED <<server, watcher>>
            /\ OnConnectionSuccess(c) \/ OnConnectionFailure(c) \/ OnDisconnect(c) =>
                 UNCHANGED <<server, watcher>>
      BY DEF PeerReported, StopClient, DiscoveryPeerDifferentStatus, Connect, LinkComesUp, LinkFails,
             LinkBreaks, OnConnectionSuccess, OnConnectionFailure, OnDisconnect
    <2> QED BY <1>11, DiscoveryCases, <2>1, <2>2, <1>2, <1>3, <1>4, <1>5, <1>6, <1>7, <1>8,
               <1>9, <1>10
  <1>12. CASE UNCHANGED vars
    BY <1>12, <1>1 DEF vars
  <1> QED BY <1>1, <1>11, <1>12

\* However many watchers race the callbacks of BLE and StopDiscovery, a
\* hotspot that is up is known to be up, or about to be stopped.
THEOREM NoOrphanCorrect == Spec => []NoOrphanHotspot
  <1>1. Init => HotspotInv
    BY DEF Init, HotspotInv, NoOrphanHotspot
  <1>2. HotspotInv => NoOrphanHotspot
    BY DEF HotspotInv
  <1> QED BY <1>1, <1>2, HotspotNext, DiscoveryTypeInit, DiscoveryTypeNext, PTL DEF Spec

(* --------------------------------- links ----------------------------- *)

\* What connected will be when the callbacks that wait have run.
WillBe(c) == IF pending[c] = <<>> THEN connected[c] ELSE pending[c][Len(pending[c])] = "success"

LinkInv == \A c \in Client : WillBe(c) => link[c] # "off"

\* A step that leaves link, connected and pending of a client alone.
LEMMA LinkFrame ==
  ASSUME NEW c \in Client, LinkInv,
         link'[c] = link[c], connected'[c] = connected[c], pending'[c] = pending[c]
  PROVE  WillBe(c)' => link'[c] # "off"
  BY DEF LinkInv, WillBe

LEMMA LastOfAppend ==
  ASSUME NEW s \in Seq(Event), NEW e \in Event
  PROVE  Append(s, e) # <<>> /\ Append(s, e)[Len(Append(s, e))] = e
  OBVIOUS

LEMMA LastOfTail ==
  ASSUME NEW s \in Seq(Event), s # <<>>
  PROVE  IF Tail(s) = <<>> THEN s[Len(s)] = Head(s) ELSE Tail(s)[Len(Tail(s))] = s[Len(s)]
  <1>1. Tail(s) \in Seq(Event) /\ Len(Tail(s)) = Len(s) - 1 /\ Len(s) \in Nat \ {0}
    BY HeadTailProperties, EmptySeq
  <1>2. CASE Tail(s) = <<>>
    <2>0. Len(<<>>) = 0
      OBVIOUS
    <2>1. Len(s) = 1
      <3>1. Len(s) - 1 = 0
        BY <1>1, <1>2, <2>0
      <3>2. Len(s) \in Nat
        BY <1>1
      <3> QED BY <3>1, <3>2
    <2>2. Head(s) = s[1]
      OBVIOUS
    <2> QED BY <1>2, <2>1, <2>2
  <1>3. CASE Tail(s) # <<>>
    <2>1. Len(Tail(s)) \in 1..Len(Tail(s)) /\ Len(Tail(s)) + 1 = Len(s)
      BY <1>1, <1>3, EmptySeq
    <2>2. \A i \in 1..Len(Tail(s)) : Tail(s)[i] = s[i + 1]
      BY HeadTailProperties
    <2> QED BY <1>3, <2>1, <2>2
  <1> QED BY <1>2, <1>3

LEMMA CutLinks ==
  ASSUME TypeOK, LinkInv, NEW C, Cut(C), NEW c \in Client,
         connected'[c] = connected[c] \/ connected'[c] = FALSE
  PROVE  WillBe(c)' => link'[c] # "off"
  <1>1. pending[c] \in Seq(Event) /\ "disconnect" \in Event
    BY DEF TypeOK, Event
  <1>2. CASE c \in C /\ link[c] # "off"
    <2>1. pending'[c] = Append(pending[c], "disconnect")
      BY <1>2 DEF Cut
    <2> QED BY <1>1, <2>1, LastOfAppend DEF WillBe
  <1>3. CASE ~(c \in C /\ link[c] # "off")
    <2>1. pending'[c] = pending[c] /\ link'[c] = link[c]
      BY <1>3 DEF Cut
    <2> QED BY <2>1 DEF LinkInv, WillBe
  <1> QED BY <1>2, <1>3

LEMMA LinkNext == TypeOK /\ LinkInv /\ [Next]_vars => LinkInv'
  <1> SUFFICES ASSUME TypeOK, LinkInv, [Next]_vars, NEW c \in Client
               PROVE  WillBe(c)' => link'[c] # "off"
    BY DEF LinkInv
  <1>1. ASSUME UNCHANGED <<link, connected, pending>> PROVE WillBe(c)' => link'[c] # "off"
    BY <1>1, LinkFrame
  <1>2. ASSUME StopHost PROVE WillBe(c)' => link'[c] # "off"
    BY <1>2, CutLinks DEF StopHost
  <1>3. ASSUME NEW d \in Client, StopClient(d) \/ LinkBreaks(d)
        PROVE  WillBe(c)' => link'[c] # "off"
    BY <1>3, CutLinks DEF StopClient, LinkBreaks
  <1>4. ASSUME NEW d \in Client, Connect(d) PROVE WillBe(c)' => link'[c] # "off"
    <2>1. CASE d = c
      BY <1>4, <2>1 DEF Connect, TypeOK
    <2>2. CASE d # c
      BY <1>4, <2>2, LinkFrame DEF Connect, TypeOK
    <2> QED BY <2>1, <2>2
  <1>5. ASSUME NEW d \in Client, LinkComesUp(d) PROVE WillBe(c)' => link'[c] # "off"
    <2>1. CASE d = c
      BY <1>5, <2>1 DEF LinkComesUp, TypeOK
    <2>2. CASE d # c
      BY <1>5, <2>2, LinkFrame DEF LinkComesUp, TypeOK
    <2> QED BY <2>1, <2>2
  <1>6. ASSUME NEW d \in Client, LinkFails(d) PROVE WillBe(c)' => link'[c] # "off"
    <2>1. CASE d = c
      <3>1. pending'[c] = Append(pending[c], "failure") /\ "failure" \in Event
        BY <1>6, <2>1 DEF LinkFails, TypeOK, Event
      <3>2. pending[c] \in Seq(Event)
        BY DEF TypeOK
      <3> QED BY <3>1, <3>2, LastOfAppend DEF WillBe
    <2>2. CASE d # c
      BY <1>6, <2>2, LinkFrame DEF LinkFails, TypeOK
    <2> QED BY <2>1, <2>2
  <1>7. ASSUME NEW d \in Client, OnConnectionSuccess(d) PROVE WillBe(c)' => link'[c] # "off"
    <2>1. CASE d = c
      <3>1. pending[c] \in Seq(Event) /\ pending[c] # <<>> /\ Head(pending[c]) = "success"
        BY <1>7, <2>1 DEF OnConnectionSuccess, Called, TypeOK
      <3>2. pending'[c] = Tail(pending[c]) /\ link'[c] = link[c]
        BY <1>7, <2>1 DEF OnConnectionSuccess, TypeOK
      <3>3. WillBe(c)' => WillBe(c)
        BY <3>1, <3>2, LastOfTail DEF WillBe
      <3> QED BY <3>2, <3>3 DEF LinkInv
    <2>2. CASE d # c
      BY <1>7, <2>2, LinkFrame DEF OnConnectionSuccess, TypeOK
    <2> QED BY <2>1, <2>2
  <1>8. ASSUME NEW d \in Client, OnConnectionFailure(d) PROVE WillBe(c)' => link'[c] # "off"
    <2>1. CASE d = c
      <3>1. pending[c] \in Seq(Event) /\ pending[c] # <<>> /\ Tail(pending[c]) \in Seq(Event)
        BY <1>8, <2>1, HeadTailProperties DEF OnConnectionFailure, Called, TypeOK
      <3>2. connected'[c] = FALSE /\ link'[c] = "off"
        BY <1>8, <2>1 DEF OnConnectionFailure, TypeOK
      <3>3. CASE link[c] = "off"
        <4>1. pending'[c] = Tail(pending[c])
          BY <1>8, <2>1, <3>3 DEF OnConnectionFailure, TypeOK
        <4>2. ~WillBe(c)
          BY <3>3 DEF LinkInv
        <4> QED BY <3>1, <3>2, <4>1, <4>2, LastOfTail DEF WillBe
      <3>4. CASE link[c] # "off"
        <4>1. pending'[c] = Append(Tail(pending[c]), "disconnect") /\ "disconnect" \in Event
          BY <1>8, <2>1, <3>4 DEF OnConnectionFailure, TypeOK, Event
        <4> QED BY <3>1, <4>1, LastOfAppend DEF WillBe
      <3> QED BY <3>3, <3>4
    <2>2. CASE d # c
      BY <1>8, <2>2, LinkFrame DEF OnConnectionFailure, TypeOK
    <2> QED BY <2>1, <2>2
  <1>9. ASSUME NEW d \in Client, OnDisconnect(d) PROVE WillBe(c)' => link'[c] # "off"
    <2>1. CASE d = c
      <3>1. pending[c] \in Seq(Event) /\ pending[c] # <<>>
        BY <1>9, <2>1 DEF OnDisconnect, Called, TypeOK
      <3>2. pending'[c] = Tail(pending[c]) /\ link'[c] = link[c] /\ connected'[c] = FALSE
        BY <1>9, <2>1 DEF OnDisconnect, TypeOK
      <3>3. WillBe(c)' => WillBe(c)
        BY <3>1, <3>2, LastOfTail DEF WillBe
      <3> QED BY <3>2, <3>3 DEF LinkInv
    <2>2. CASE d # c
      BY <1>9, <2>2, LinkFrame DEF OnDisconnect, TypeOK
    <2> QED BY <2>1, <2>2
  <1>10. ASSUME NEW s \in Watcher, StopHotspot(s) PROVE WillBe(c)' => link'[c] # "off"
    <2>1. connected' = connected /\ (UNCHANGED <<link, pending>> \/ Cut(Client))
      BY <1>10 DEF StopHotspot
    <2> QED BY <2>1, <1>1, CutLinks
  <1>11. ASSUME NEW d \in Client, NEW s \in Watcher, Disconnect(d, s)
         PROVE  WillBe(c)' => link'[c] # "off"
    BY <1>11, CutLinks DEF Disconnect
  <1>12. ASSUME NEW d \in Client, NEW s \in Watcher, Disconnected(d, s)
         PROVE  WillBe(c)' => link'[c] # "off"
    BY <1>12 DEF Disconnected, LinkInv, WillBe, TypeOK
  <1>13. CASE Next /\ ~UNCHANGED <<link, connected, pending>>
    <2>1. ASSUME NEW p \in Phone PROVE
            /\ AddContent(p) => UNCHANGED <<link, connected, pending>>
            /\ StartQuietly(p) => UNCHANGED <<link, connected, pending>>
            /\ StartCRDTStateWatcher(p) => UNCHANGED <<link, connected, pending>>
            /\ Publish(p) => UNCHANGED <<link, connected, pending>>
            /\ \A q \in Phone : Replicate(p, q) => UNCHANGED <<link, connected, pending>>
      BY DEF AddContent, StartQuietly, StartCRDTStateWatcher, StartDiscovery, Publish,
             PublishTo, Replicate, client
    <2>2. ASSUME NEW d \in Client PROVE
            /\ PeerReported(d) => UNCHANGED <<link, connected, pending>>
            /\ AdvertiserPeerDifferentStatus(d) => UNCHANGED <<link, connected, pending>>
            /\ DiscoveryPeerDifferentStatus(d) => UNCHANGED <<link, connected, pending>>
      BY DEF PeerReported, AdvertiserPeerDifferentStatus, DiscoveryPeerDifferentStatus
    <2>3. HostStopped \/ HotspotStarted => UNCHANGED <<link, connected, pending>>
      BY DEF HostStopped, HotspotStarted, client
    <2>4. ASSUME NEW p \in Phone, NEW s \in Watcher PROVE
            /\ \A state \in inbox[p] : Receive(p, s, state) => UNCHANGED <<link, connected, pending>>
            /\ CheckPart(p, s) => UNCHANGED <<link, connected, pending>>
      BY DEF Receive, CheckPart, client
    <2> HIDE DEF WillBe
    <2> QED BY <1>13, DiscoveryCases, <2>1, <2>2, <2>3, <2>4, <1>2, <1>3, <1>4, <1>5, <1>6,
               <1>7, <1>8, <1>9, <1>10, <1>11, <1>12
  <1>14. CASE UNCHANGED vars
    BY <1>14, <1>1 DEF vars, client
  <1> QED BY <1>1, <1>13, <1>14

\* However calls of Connect, drops, failures and watchers interleave, a client
\* that counts as connected when its callbacks have run has a link.
THEOREM ConnectedCorrect == Spec => []ConnectedHasLink
  <1>1. Init => LinkInv
    BY DEF Init, LinkInv, WillBe
  <1>2. LinkInv => ConnectedHasLink
    BY DEF LinkInv, WillBe, ConnectedHasLink
  <1> QED BY <1>1, <1>2, LinkNext, DiscoveryTypeInit, DiscoveryTypeNext, PTL DEF Spec
=============================================================================
