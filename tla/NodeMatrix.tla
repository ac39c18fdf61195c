----------------------------- MODULE NodeMatrix -----------------------------
(***************************************************************************)
(* The node half of internal/matrix: what a phone records about the peers  *)
(* it discovers and connects to, and how the matrix reaches the datastore. *)
(* The content half is in ContentReplication.                              *)
(*                                                                         *)
(* libp2p calls notifier.Connected and Disconnected once per connection,   *)
(* and a peer may have several; calls reach the notifier only once         *)
(* NetworkNotifiee has registered it. Every operation of the keeper holds  *)
(* its mutex, so each is one step, but a flush is two Puts between which   *)
(* the process may die.                                                    *)
(*                                                                         *)
(* Bounds, all in guards: MaxLinks connections to a peer at a time,        *)
(* one of them made before the notifier, MaxTime seconds, MaxFlushes,      *)
(* MaxConnects connections recorded of a peer, MaxHalts process deaths.    *)
(***************************************************************************)
EXTENDS Naturals, Sequences

CONSTANTS
  Peer,
  Medium,  \* how peers are discovered: "ble", "wifi"
  MaxLinks, MaxTime, MaxConnects, MaxFlushes, MaxHalts, None

ASSUME MatrixBounds ==
  /\ MaxLinks \in Nat /\ MaxTime \in Nat /\ MaxFlushes \in Nat
  /\ MaxConnects \in Nat /\ MaxHalts \in Nat

VARIABLES
  now,          \* Unix time; 0 is the zero value of a time that was never set
  running,      \* the process runs
  listening,    \* the notifier is registered with the host
  links,        \* [Peer -> Nat]: open connections
  nodes,        \* [Peer -> Entry]: NodeMatrix.NodesDiscovered
  uptime,       \* NodeMatrix.TotalUptime
  flushing,     \* a flush has put the node half and not yet the content half
  diskNodes,    \* what is under nodeMatrixKey: a Half or None
  diskContent,  \* whether something is under contentMatrixKey
  flushes, halts,
  stale,        \* history: peers loaded as alive by the last restart and not heard of since
  missed,       \* history: peers with a connection that was never notified
  kept          \* history: the counts of the last flush that ended

keeper == <<nodes, uptime>>
disk == <<flushing, diskNodes, diskContent, kept, flushes>>
vars == <<now, running, listening, links, keeper, disk, halts, stale, missed>>

(* A DiscoveredNodeMatrix: found has BLEDiscoveredAt and WifiConnectedAt,   *)
(* ipfs is IPFSConnectedAt, successes ConnectionSuccessCount. Signal       *)
(* strength, speed, frequency, DiscoveryDelays, durations and failures     *)
(* (nothing calls NodeConnectionFailed) are left out.                      *)
Connection == [found : [Medium -> Nat], ipfs : Nat, end : Nat]
Entry == [known : BOOLEAN, alive : BOOLEAN, successes : Nat, found : [Medium -> Nat],
          ipfs : Nat, history : Seq(Connection)]
Never == [m \in Medium |-> 0]
NoEntry == [known |-> FALSE, alive |-> FALSE, successes |-> 0, found |-> Never,
            ipfs |-> 0, history |-> <<>>]
Half == [nodes : [Peer -> Entry], uptime : Nat]
ASSUME NoneIsNoHalf == None \notin Half
EmptyHalf == [nodes |-> [p \in Peer |-> NoEntry], uptime |-> 0]

\* What only grows in a half.
Kept == [successes : [Peer -> Nat], entries : [Peer -> Nat], uptime : Nat]
Counts(half) == [successes |-> [p \in Peer |-> half.nodes[p].successes],
                 entries |-> [p \in Peer |-> Len(half.nodes[p].history)],
                 uptime |-> half.uptime]

Init ==
  /\ now = 1 /\ running = TRUE /\ listening = FALSE
  /\ links = [p \in Peer |-> 0]
  /\ nodes = EmptyHalf.nodes /\ uptime = 0
  /\ flushing = FALSE /\ diskNodes = None /\ diskContent = FALSE
  /\ flushes = 0 /\ halts = 0 /\ stale = {} /\ missed = {} /\ kept = Counts(EmptyHalf)

(* ------------------------ operations of the keeper ------------------- *)

\* The mutex of the keeper is free: no flush is between its two Puts.
MtxFree == running /\ ~flushing

\* A mutant that records discoveries of connected peers.
DiscoveredAlways(p, m) ==
  /\ MtxFree
  /\ nodes' = [nodes EXCEPT ![p].known = TRUE, ![p].found[m] = now]
  /\ UNCHANGED <<now, running, listening, links, uptime, disk, halts, stale, missed>>

\* BLEDiscovered and WifiConnected: of a peer that is not connected, as far
\* as the matrix knows.
Discovered(p, m) ==
  /\ MtxFree
  /\ nodes' = [nodes EXCEPT ![p].known = TRUE,
                            ![p].found[m] = IF nodes[p].alive THEN @ ELSE now]
  /\ UNCHANGED <<now, running, listening, links, uptime, disk, halts, stale, missed>>

\* A mutant that counts a peer's first connection only.
NodeConnectedOnce(p) ==
  /\ MtxFree /\ listening
  /\ links[p] < MaxLinks /\ nodes[p].successes < MaxConnects
  /\ links' = [links EXCEPT ![p] = @ + 1]
  /\ nodes' = [nodes EXCEPT
       ![p].known = TRUE, ![p].alive = TRUE, ![p].ipfs = now,
       ![p].successes = IF nodes[p].alive THEN @ ELSE @ + 1]
  /\ stale' = stale \ {p}
  /\ UNCHANGED <<now, running, listening, uptime, disk, halts, missed>>

\* notifier.Connected and NodeConnected, for one more connection of p.
NodeConnected(p) ==
  /\ MtxFree /\ listening
  /\ links[p] < MaxLinks /\ nodes[p].successes < MaxConnects
  /\ links' = [links EXCEPT ![p] = @ + 1]
  /\ nodes' = [nodes EXCEPT
       ![p].known = TRUE, ![p].alive = TRUE, ![p].ipfs = now, ![p].successes = @ + 1]
  /\ stale' = stale \ {p}
  /\ UNCHANGED <<now, running, listening, uptime, disk, halts, missed>>

\* A connection made before NetworkNotifiee: nobody records it.
ConnectedUnheard(p) ==
  /\ running /\ ~listening /\ links[p] < MaxLinks /\ p \notin missed
  /\ links' = [links EXCEPT ![p] = @ + 1]
  /\ missed' = missed \cup {p}
  /\ UNCHANGED <<now, running, listening, keeper, disk, halts, stale>>

\* A mutant that leaves the time of the end out.
ClosedEndless(e) == [found |-> e.found, ipfs |-> e.ipfs, end |-> None]

\* What NodeDisconnected appends to the history.
Closed(e) == [found |-> e.found, ipfs |-> e.ipfs, end |-> now]

\* A mutant without the reset of ConnectionAlive.
AfterDisconnectAlive(e) ==
  [e EXCEPT !.history = Append(@, Closed(e)), !.found = Never, !.ipfs = 0]

\* What it leaves of the entry.
AfterDisconnect(e) ==
  [e EXCEPT !.history = Append(@, Closed(e)), !.alive = FALSE,
            !.found = Never, !.ipfs = 0]

\* notifier.Disconnected and NodeDisconnected, for one connection of p.
NodeDisconnected(p) ==
  /\ MtxFree /\ listening
  /\ links[p] > 0 /\ nodes[p].known
  /\ links' = [links EXCEPT ![p] = @ - 1]
  /\ nodes' = [nodes EXCEPT ![p] = AfterDisconnect(@)]
  /\ stale' = stale \ {p}
  /\ UNCHANGED <<now, running, listening, uptime, disk, halts, missed>>

\* The same before NetworkNotifiee.
DisconnectedUnheard(p) ==
  /\ running /\ ~listening /\ links[p] > 0
  /\ links' = [links EXCEPT ![p] = @ - 1]
  /\ UNCHANGED <<now, running, listening, keeper, disk, halts, stale, missed>>

(* ----------------------------- persistence --------------------------- *)

ThisHalf == [nodes |-> nodes, uptime |-> uptime]

\* The first Put of flush, called by Flush and Close.
Flush ==
  /\ MtxFree /\ flushes < MaxFlushes
  /\ diskNodes' = ThisHalf
  /\ flushing' = TRUE /\ flushes' = flushes + 1
  /\ UNCHANGED <<now, running, listening, links, keeper, diskContent, kept, halts, stale, missed>>

\* A tick of StartTicker: it counts 30 seconds and flushes.
Ticker ==
  /\ MtxFree /\ flushes < MaxFlushes
  /\ uptime' = uptime + 30
  /\ diskNodes' = [nodes |-> nodes, uptime |-> uptime']
  /\ flushing' = TRUE /\ flushes' = flushes + 1
  /\ UNCHANGED <<now, running, listening, links, nodes, diskContent, kept, halts, stale, missed>>

\* A mutant that ends the flush when there is no content to put.
FlushContentSkips ==
  /\ running /\ flushing
  /\ flushing' = FALSE
  /\ kept' = Counts(ThisHalf)
  /\ UNCHANGED <<now, running, listening, links, keeper, diskNodes, diskContent, flushes, halts, stale, missed>>

\* The second Put, and the end of a flush.
FlushContent ==
  /\ running /\ flushing
  /\ diskContent' = TRUE
  /\ flushing' = FALSE
  /\ kept' = Counts(ThisHalf)
  /\ UNCHANGED <<now, running, listening, links, keeper, diskNodes, flushes, halts, stale, missed>>

(* --------------------------- the environment ------------------------- *)

\* NetworkNotifiee, once the node has started.
Listen ==
  /\ running /\ ~listening
  /\ listening' = TRUE
  /\ UNCHANGED <<now, running, links, keeper, disk, halts, stale, missed>>

\* The clock.
Second ==
  /\ now < MaxTime
  /\ now' = now + 1
  /\ UNCHANGED <<running, listening, links, keeper, disk, halts, stale, missed>>

Die ==
  /\ running' = FALSE /\ listening' = FALSE /\ flushing' = FALSE
  /\ links' = [p \in Peer |-> 0]
  /\ nodes' = EmptyHalf.nodes /\ uptime' = 0
  /\ stale' = {}
  /\ halts' = halts + 1
  /\ UNCHANGED <<now, diskNodes, diskContent, kept, flushes, missed>>

\* The process is killed, or stopped: the host closes its connections after
\* the last flush either way.
Halt == running /\ halts < MaxHalts /\ Die

\* NodeDisconnected of a peer without an entry dereferences nil, in a
\* goroutine that does not recover.
Panic(p) ==
  /\ MtxFree /\ listening /\ halts < MaxHalts
  /\ links[p] > 0 /\ ~nodes[p].known
  /\ Die

\* NewMatrixKeeper: both keys are there, or the keeper starts empty.
Restart ==
  LET half == IF diskNodes = None \/ ~diskContent THEN EmptyHalf ELSE diskNodes
  IN  /\ ~running
      /\ running' = TRUE
      /\ nodes' = half.nodes /\ uptime' = half.uptime
      /\ stale' = {p \in Peer : half.nodes[p].alive}
      /\ UNCHANGED <<now, listening, links, disk, halts, missed>>

Next ==
  \/ \E p \in Peer :
       \/ \E m \in Medium : Discovered(p, m)
       \/ NodeConnected(p) \/ ConnectedUnheard(p)
       \/ NodeDisconnected(p) \/ DisconnectedUnheard(p) \/ Panic(p)
  \/ Flush \/ Ticker \/ FlushContent
  \/ Listen \/ Second \/ Halt \/ Restart

Spec == Init /\ [][Next]_vars

(* ------------------------------ properties --------------------------- *)

TypeOK ==
  /\ now \in Nat \ {0} /\ running \in BOOLEAN /\ listening \in BOOLEAN
  /\ links \in [Peer -> Nat]
  /\ nodes \in [Peer -> Entry] /\ uptime \in Nat
  /\ flushing \in BOOLEAN /\ diskNodes \in Half \cup {None} /\ diskContent \in BOOLEAN
  /\ flushes \in Nat /\ halts \in Nat /\ stale \subseteq Peer /\ missed \subseteq Peer /\ kept \in Kept

\* A peer is alive in the matrix only while a connection to it is open, but
\* for one that was alive in the flush that the process was started from and
\* that has not connected or disconnected since (BLEDiscovered ignores a peer
\* that is alive, so that it is not discovered either until then).
AliveIsOpen == \A p \in Peer : nodes[p].alive => links[p] > 0 \/ p \in stale

\* The times of a connection are in order, also with several connections to
\* a peer, and after a restart in the middle of one: discovery and wifi come
\* before the connection, and the connection before its end. (A connection
\* that closes after another one of its peer has no times: 0.)
InOrder(c) ==
  c.ipfs # 0 => c.ipfs <= c.end /\ \A m \in Medium : c.found[m] <= c.ipfs
HistoryOrdered ==
  \A p \in Peer : \A i \in 1..Len(nodes[p].history) : InOrder(nodes[p].history[i])

\* The matrix counts at least the connections that are open or in the history
\* of a peer, through restarts from any flush, unless one was made before
\* the notifier was there. A peer with an open connection then has an entry,
\* which NodeDisconnected takes for granted.
ConnectionsCounted ==
  \A p \in Peer \ missed : Len(nodes[p].history) + links[p] <= nodes[p].successes

\* What a flush wrote to its end is still there, or has grown: no death, in
\* the middle of the first flush or of a later one, loses it.
FlushedSurvives ==
  running => /\ kept.uptime <= uptime
             /\ \A p \in Peer :
                  /\ kept.successes[p] <= nodes[p].successes
                  /\ kept.entries[p] <= Len(nodes[p].history)
=============================================================================
