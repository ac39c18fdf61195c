------------------------------ MODULE Discovery ------------------------------
(***************************************************************************)
(* Phones that meet over BLE, link over wifi, exchange content and part:   *)
(* the driver callbacks of mobile/discovery.go and the CRDT state watcher  *)
(* of mobile/datahop.go. One phone, Host, advertises; the others, Client,  *)
(* scan.                                                                   *)
(*                                                                         *)
(* The drivers are external. BLE reports phones whose filters differ. The  *)
(* wifi driver hands its callbacks to a phone one at a time and reports    *)
(* the end of every link and of every attempt. Every phone has a package   *)
(* mutex; the state watcher does not use it: the mtx it locks is its own.  *)
(*                                                                         *)
(* Bounds, all in guards: MaxWatchers calls of StartDiscovery on a phone   *)
(* that disconnects automatically, each with a watcher that never ends;    *)
(* MaxCallers callbacks of BLE at a client at once, and one about each     *)
(* client at the host; MaxPending callbacks of wifi waiting for an attempt *)
(* or a link to end or begin, and what the phone itself causes; one copy   *)
(* of a message in flight.                                                 *)
(***************************************************************************)
EXTENDS Naturals, Sequences, FiniteSets

CONSTANTS Host, Client, Tag, MaxWatchers, MaxCallers, MaxPending

ASSUME DiscoveryAssumption ==
  /\ Host \notin Client /\ IsFiniteSet(Client)
  /\ MaxWatchers \in Nat /\ MaxCallers \in Nat /\ MaxPending \in Nat

Phone == Client \cup {Host}
Watcher == 1..MaxWatchers

VARIABLES
  filter,       \* [Phone -> SUBSET Tag]
  discovering,  \* phones whose BLE drivers run
  hotspot,      \* the wifi network of Host is up
  isHost,       \* discoveryService.isHost of Host
  starting,     \* Host is inside AdvertiserPeerDifferentStatus, after Start
  closing,      \* Host is inside close, after wifiHS.Stop
  link,         \* [Client -> "off", "asked" or "up"]: the wifi link to Host
  connected,    \* discoveryService.connected of the clients
  pending,      \* [Client -> Seq]: wifi callbacks that wait for the phone
  passed,       \* [Client -> number of callers that found it not connected]
  called,       \* clients that a caller at Host is about, before the mutex
  told,         \* [Phone -> the filter its publisher has read]
  inbox,        \* [Phone -> filters on their way to it]
  watcher       \* [Phone -> [Watcher -> pc of a state watcher]]

ble == <<filter, discovering>>
server == <<hotspot, isHost, starting, closing>>
client == <<link, connected, pending, passed, called>>
messages == <<told, inbox>>
vars == <<ble, server, client, messages, watcher>>

Init ==
  /\ filter = [p \in Phone |-> {}] /\ discovering = {}
  /\ hotspot = FALSE /\ isHost = FALSE /\ starting = FALSE /\ closing = FALSE
  /\ link = [c \in Client |-> "off"] /\ connected = [c \in Client |-> FALSE]
  /\ pending = [c \in Client |-> <<>>] /\ passed = [c \in Client |-> 0]
  /\ called = {}
  /\ told = [p \in Phone |-> {}] /\ inbox = [p \in Phone |-> {}]
  /\ watcher = [p \in Phone |-> [s \in Watcher |-> "none"]]

Linked == {c \in Client : link[c] = "up"}
Peers(p) == IF p = Host THEN Linked
            ELSE IF p \in Linked THEN (Linked \ {p}) \cup {Host} ELSE {}
Differ(c) == filter[c] # filter[Host]
Watched(p) == \E s \in Watcher : watcher[p][s] # "none"
MutexFree == ~starting /\ ~closing

\* The driver ends what links the clients C have, and will report it.
Cut(C) ==
  /\ link' = [c \in Client |-> IF c \in C THEN "off" ELSE link[c]]
  /\ pending' = [c \in Client |->
       IF c \in C /\ link[c] # "off" THEN Append(pending[c], "disconnect") ELSE pending[c]]

(* ------------------------------- contents ---------------------------- *)

AddContent(p) ==
  /\ \E t \in Tag \ filter[p] : filter' = [filter EXCEPT ![p] = @ \cup {t}]
  /\ UNCHANGED <<discovering, server, client, messages, watcher>>

\* Replication between linked phones, down to the filter.
Replicate(p, q) ==
  /\ q \in Peers(p)
  /\ \E t \in filter[p] \ filter[q] : filter' = [filter EXCEPT ![q] = @ \cup {t}]
  /\ UNCHANGED <<discovering, server, client, messages, watcher>>

(* --------------------- StartDiscovery, StopDiscovery ----------------- *)

StartDiscovery(p) ==
  /\ p \notin discovering
  /\ p = Host => MutexFree
  /\ discovering' = discovering \cup {p}
  /\ UNCHANGED <<filter, server, client, inbox>>

\* Without autoDisconnect, and with it: then there is one watcher more.
StartQuietly(p) == StartDiscovery(p) /\ UNCHANGED <<told, watcher>>

StartCRDTStateWatcher(p) ==
  /\ StartDiscovery(p)
  /\ \E s \in Watcher :
       /\ watcher[p][s] = "none" /\ \A r \in Watcher : r < s => watcher[p][r] # "none"
       /\ watcher' = [watcher EXCEPT ![p][s] = "wait"]
  /\ told' = [told EXCEPT ![p] = filter[p]]

\* A mutant that stops without the package mutex.
StopHostUnlocked ==
  /\ (Host \in discovering \/ hotspot \/ isHost) /\ ~closing
  /\ discovering' = discovering \ {Host}
  /\ hotspot' = FALSE
  /\ Cut(Client)
  /\ closing' = TRUE
  /\ UNCHANGED <<filter, isHost, starting, connected, passed, called, messages, watcher>>

\* StopDiscovery, which does not ask whether the phone discovers, and Close.
\* connected stays, and so do the watchers and the callbacks that wait for the
\* mutex. With nothing to stop it changes nothing.
StopHost ==
  /\ (Host \in discovering \/ hotspot \/ isHost) /\ MutexFree
  /\ discovering' = discovering \ {Host}
  /\ hotspot' = FALSE
  /\ Cut(Client)
  /\ closing' = TRUE
  /\ UNCHANGED <<filter, isHost, starting, connected, passed, called, messages, watcher>>

HostStopped ==
  /\ closing
  /\ isHost' = FALSE
  /\ closing' = FALSE
  /\ UNCHANGED <<ble, hotspot, starting, client, messages, watcher>>

StopClient(c) ==
  /\ c \in discovering \/ link[c] # "off"
  /\ discovering' = discovering \ {c}
  /\ Cut({c})
  /\ UNCHANGED <<filter, server, connected, passed, called, messages, watcher>>

(* -------------------------- callbacks of BLE ------------------------- *)

\* BLE reports a client to the host: the callback waits for the mutex.
PeerReported(c) ==
  /\ {c, Host} \subseteq discovering /\ Differ(c) /\ c \notin called
  /\ called' = called \cup {c}
  /\ UNCHANGED <<ble, server, link, connected, pending, passed, messages, watcher>>

\* AdvertiserPeerDifferentStatus with the mutex, which it may get only after
\* StopDiscovery. It returns when libp2p has a connection to the client, of
\* whatever kind, or isHost is set; or else calls wifiHS.Start, which may
\* fail; OnFailure does nothing.
AdvertiserPeerDifferentStatus(c) ==
  /\ c \in called /\ MutexFree
  /\ called' = called \ {c}
  /\ \/ UNCHANGED <<hotspot, starting>>
     \/ ~isHost /\ hotspot' \in {TRUE, hotspot} /\ starting' = TRUE
  /\ UNCHANGED <<ble, isHost, closing, link, connected, pending, passed, messages, watcher>>

HotspotStarted ==
  /\ starting
  /\ isHost' = TRUE
  /\ starting' = FALSE
  /\ UNCHANGED <<ble, hotspot, closing, client, messages, watcher>>

\* DiscoveryPeerDifferentStatus: connected is read before the lock.
DiscoveryPeerDifferentStatus(c) ==
  /\ {c, Host} \subseteq discovering /\ hotspot /\ Differ(c)
  /\ ~connected[c] /\ passed[c] < MaxCallers
  /\ passed' = [passed EXCEPT ![c] = @ + 1]
  /\ UNCHANGED <<ble, server, link, connected, pending, called, messages, watcher>>

\* wifiCon.Connect, which gives up the link there is.
Connect(c) ==
  /\ passed[c] > 0 /\ Len(pending[c]) <= MaxPending
  /\ passed' = [passed EXCEPT ![c] = @ - 1]
  /\ link' = [link EXCEPT ![c] = "asked"]
  /\ pending' = IF link[c] = "up" THEN [pending EXCEPT ![c] = Append(@, "disconnect")]
                ELSE pending
  /\ UNCHANGED <<ble, server, connected, called, messages, watcher>>

(* --------------------- the wifi driver and callbacks ----------------- *)

LinkComesUp(c) ==
  /\ link[c] = "asked" /\ hotspot /\ Len(pending[c]) < MaxPending
  /\ link' = [link EXCEPT ![c] = "up"]
  /\ pending' = [pending EXCEPT ![c] = Append(@, "success")]
  /\ UNCHANGED <<ble, server, connected, passed, called, messages, watcher>>

LinkFails(c) ==
  /\ link[c] = "asked" /\ Len(pending[c]) < MaxPending
  /\ link' = [link EXCEPT ![c] = "off"]
  /\ pending' = [pending EXCEPT ![c] = Append(@, "failure")]
  /\ UNCHANGED <<ble, server, connected, passed, called, messages, watcher>>

LinkBreaks(c) ==
  /\ link[c] = "up" /\ Len(pending[c]) < MaxPending
  /\ Cut({c})
  /\ UNCHANGED <<ble, server, connected, passed, called, messages, watcher>>

Called(c, event) == pending[c] # <<>> /\ Head(pending[c]) = event

OnConnectionSuccess(c) ==
  /\ Called(c, "success")
  /\ pending' = [pending EXCEPT ![c] = Tail(@)]
  /\ connected' = [connected EXCEPT ![c] = TRUE]
  /\ UNCHANGED <<ble, server, link, passed, called, messages, watcher>>

\* It disconnects, whatever link there is meanwhile.
OnConnectionFailure(c) ==
  /\ Called(c, "failure")
  /\ link' = [link EXCEPT ![c] = "off"]
  /\ pending' = [pending EXCEPT ![c] =
       IF link[c] = "off" THEN Tail(@) ELSE Append(Tail(@), "disconnect")]
  /\ connected' = [connected EXCEPT ![c] = FALSE]
  /\ UNCHANGED <<ble, server, passed, called, messages, watcher>>

\* A mutant that keeps connected.
OnDisconnectKeeps(c) ==
  /\ Called(c, "disconnect")
  /\ pending' = [pending EXCEPT ![c] = Tail(@)]
  /\ UNCHANGED <<ble, server, link, connected, passed, called, messages, watcher>>

OnDisconnect(c) ==
  /\ Called(c, "disconnect")
  /\ pending' = [pending EXCEPT ![c] = Tail(@)]
  /\ connected' = [connected EXCEPT ![c] = FALSE]
  /\ UNCHANGED <<ble, server, link, passed, called, messages, watcher>>

(* -------------------------- the state watcher ------------------------ *)

\* Publish: floodsub brings a state to some of the linked phones.
Send(state, to) == inbox' = [p \in Phone |-> IF p \in to THEN inbox[p] \cup {state} ELSE inbox[p]]

\* A mutant that reads its filter only when it starts.
PublishToOnce(p, to) ==
  /\ Watched(p)
  /\ Send(told[p], to)
  /\ UNCHANGED <<ble, server, client, told, watcher>>

\* The publisher sends the filter it read before its pause, then reads again.
PublishTo(p, to) ==
  /\ Watched(p)
  /\ Send(told[p], to)
  /\ told' = [told EXCEPT ![p] = filter[p]]
  /\ UNCHANGED <<ble, server, client, watcher>>

Publish(p) == \E to \in SUBSET Peers(p) : PublishTo(p, to)

Go(p, s, pc) == watcher' = [watcher EXCEPT ![p][s] = pc]

\* A message of another state is dropped; one of the same state is answered.
Receive(p, s, state) ==
  /\ watcher[p][s] = "wait" /\ state \in inbox[p]
  /\ \/ /\ state # filter[p]
        /\ inbox' = [inbox EXCEPT ![p] = @ \ {state}]
        /\ UNCHANGED watcher
     \/ /\ state = filter[p]
        /\ \E to \in SUBSET Peers(p) :
             inbox' = [q \in Phone |-> IF q = p THEN inbox[q] \ {state}
                                       ELSE IF q \in to THEN inbox[q] \cup {state}
                                       ELSE inbox[q]]
        /\ Go(p, s, "same")
  /\ UNCHANGED <<ble, server, client, told>>

\* What the watcher reads of isHost, connected and Peers.
MayPart(p) ==
  IF p = Host THEN isHost /\ Cardinality(Linked) < 2 ELSE connected[p]

CheckPart(p, s) ==
  /\ watcher[p][s] = "same"
  /\ Go(p, s, IF MayPart(p) THEN "part" ELSE "wait")
  /\ UNCHANGED <<ble, server, client, messages>>

\* A client: wifiCon.Disconnect, then connected = false.
Disconnect(c, s) ==
  /\ watcher[c][s] = "part"
  /\ Cut({c})
  /\ Go(c, s, "reset")
  /\ UNCHANGED <<ble, server, connected, passed, called, messages>>

Disconnected(c, s) ==
  /\ watcher[c][s] = "reset"
  /\ connected' = [connected EXCEPT ![c] = FALSE]
  /\ Go(c, s, "wait")
  /\ UNCHANGED <<ble, server, link, pending, passed, called, messages>>

\* A mutant in which the host stops its hotspot first.
StopHotspotEarly(s) ==
  /\ \/ /\ watcher[Host][s] = "part"
        /\ hotspot' = FALSE /\ Cut(Client)
        /\ Go(Host, s, "reset")
        /\ UNCHANGED isHost
     \/ /\ watcher[Host][s] = "reset"
        /\ isHost' = FALSE
        /\ Go(Host, s, "wait")
        /\ UNCHANGED <<hotspot, link, pending>>
  /\ UNCHANGED <<ble, starting, closing, connected, passed, called, messages>>

\* The host: isHost = false, then wifiHS.Stop.
StopHotspot(s) ==
  /\ \/ /\ watcher[Host][s] = "part"
        /\ isHost' = FALSE
        /\ Go(Host, s, "reset")
        /\ UNCHANGED <<hotspot, link, pending>>
     \/ /\ watcher[Host][s] = "reset"
        /\ hotspot' = FALSE /\ Cut(Client)
        /\ Go(Host, s, "wait")
        /\ UNCHANGED isHost
  /\ UNCHANGED <<ble, starting, closing, connected, passed, called, messages>>

(* ---------------------------- specification -------------------------- *)

Watch(p, s) ==
  \/ \E state \in inbox[p] : Receive(p, s, state)
  \/ CheckPart(p, s)
  \/ IF p = Host THEN StopHotspot(s) ELSE Disconnect(p, s) \/ Disconnected(p, s)

WifiCallback(c) == OnConnectionSuccess(c) \/ OnConnectionFailure(c) \/ OnDisconnect(c)
Wifi(c) == LinkComesUp(c) \/ LinkFails(c) \/ LinkBreaks(c)

Next ==
  \/ \E p \in Phone : AddContent(p) \/ StartQuietly(p) \/ StartCRDTStateWatcher(p) \/ Publish(p)
  \/ \E p, q \in Phone : Replicate(p, q)
  \/ StopHost \/ HostStopped \/ HotspotStarted
  \/ \E c \in Client :
       \/ PeerReported(c) \/ AdvertiserPeerDifferentStatus(c)
       \/ StopClient(c) \/ DiscoveryPeerDifferentStatus(c) \/ Connect(c)
       \/ Wifi(c) \/ WifiCallback(c)
  \/ \E p \in Phone, s \in Watcher : Watch(p, s)

Spec == Init /\ [][Next]_vars

\* Threads that can go on do, publishers publish every ten seconds, and a
\* message between phones that stay linked is not lost for ever.
Fairness ==
  /\ WF_vars(HostStopped) /\ WF_vars(HotspotStarted)
  /\ \A c \in Client : WF_vars(Connect(c)) /\ WF_vars(WifiCallback(c))
  /\ \A p \in Phone :
       /\ SF_vars(PublishTo(p, Peers(p)))
       /\ \A s \in Watcher : WF_vars(Watch(p, s))

FairSpec == Spec /\ Fairness

(* ------------------------------ properties --------------------------- *)

Event == {"success", "failure", "disconnect"}

\* Types, and the package mutex of the host: never in two calls at once.
TypeOK ==
  /\ filter \in [Phone -> SUBSET Tag] /\ discovering \subseteq Phone
  /\ hotspot \in BOOLEAN /\ isHost \in BOOLEAN
  /\ starting \in BOOLEAN /\ closing \in BOOLEAN /\ ~(starting /\ closing)
  /\ link \in [Client -> {"off", "asked", "up"}] /\ connected \in [Client -> BOOLEAN]
  /\ pending \in [Client -> Seq(Event)] /\ passed \in [Client -> 0..MaxCallers]
  /\ called \subseteq Client
  /\ told \in [Phone -> SUBSET Tag] /\ inbox \in [Phone -> SUBSET SUBSET Tag]
  /\ watcher \in [Phone -> [Watcher -> {"none", "wait", "same", "part", "reset"}]]

\* No hotspot is left up that nobody will stop: when it is up, isHost is set,
\* or a call that is under way will set it or stop the hotspot. Start under
\* the package mutex and two watchers outside of it do not break this, since
\* the watchers clear isHost first and stop after.
NoOrphanHotspot ==
  hotspot => isHost \/ starting \/ closing \/ \E s \in Watcher : watcher[Host][s] = "reset"

\* A client that counts as connected has a link or is making one, once the
\* callbacks of its driver have run: or it would refuse every discovery.
ConnectedHasLink ==
  \A c \in Client : connected[c] /\ pending[c] = <<>> => link[c] # "off"

\* A client and the host that both have a watcher part when they have the
\* same state, whatever races left in isHost and connected: one of the two
\* sides ends a link that has become useless. Of a client that is alone with
\* the host: among several the host leaves it to them, and one whose connected
\* was lost does not go.
LinksEnd ==
  \A c \in Client :
    Linked = {c} /\ ~Differ(c) /\ Watched(c) /\ Watched(Host)
      ~> Linked # {c} \/ Differ(c)
=============================================================================
