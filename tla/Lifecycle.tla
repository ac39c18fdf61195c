------------------------------ MODULE Lifecycle ------------------------------
(***************************************************************************)
(* Initialising, opening and closing the repository, starting and stopping *)
(* the node: internal/repo, pkg.Common, ipfs.New and autoclose,            *)
(* replication.Manager.Close, IPFSNode.Stop, and the calls of a phone      *)
(* (mobile Init, Start, Stop and Close) that drive them.                   *)
(*                                                                         *)
(* A process opens repositories 1, 2, ... one after the other at one path, *)
(* and starts nodes 1, 2, ... on whichever is open. Nothing waits for the  *)
(* node before: Close does not wait for autoclose, nor autoclose for every *)
(* thread, so nodes and threads of a closed repository run on beside the   *)
(* next one. The threads of a node are merges, which run PutHook, download *)
(* jobs, and Connected callbacks, which resume downloads. Merges and jobs  *)
(* end by adding a tag to their FSRepo's filter and rewriting the state    *)
(* file. The notifier's callbacks use the repository and the node that     *)
(* hop.comm has at the time, whichever host calls them.                    *)
(*                                                                         *)
(* Bounds, all in guards: MaxOpens repositories and MaxStarts nodes of all *)
(* processes; threads in the nodes Busy only, one of each kind at a time   *)
(* in each; MaxHalts deaths. Tag are the tags and Followed the kinds of    *)
(* records that filters and matrices are followed for, a record per kind.  *)
(***************************************************************************)
EXTENDS Naturals

CONSTANTS Tag, AutoDownload, Busy, Followed, MaxOpens, MaxStarts, MaxHalts

ASSUME LifecycleAssumption ==
  /\ AutoDownload \in BOOLEAN /\ Busy \subseteq 1..MaxStarts
  /\ MaxOpens \in Nat /\ MaxStarts \in Nat /\ MaxHalts \in Nat

Repo == 1..MaxOpens
Node == 1..MaxStarts
Kind == {"merge", "job"}

\* What a matrix records: peers, and contents that a download was begun of.
Record == {"peer", "content"}
None == 0

VARIABLES
  running,     \* the process runs
  config,      \* the config file exists (written atomically)
  stateFile,   \* [form, tags]: tags is what it held when it was last whole
  keeperFile,  \* the keeper's file: "absent", "torn" or "whole"
  diskMatrix,  \* the flushed matrix, a set of records
  lock,        \* the FSRepo that holds the lock file, or None
  ds,          \* the FSRepo that has the datastore open, or None
  pkg,         \* packageLock: what its holder does, for which FSRepo
  repo,        \* [Repo -> [phase, filter, matrix]]
  node,        \* [Node -> [phase, r, store]]: phase of Peer and autoclose
  thread,      \* [Node -> [Kind -> pc]]
  cancelled,   \* nodes whose context is done
  watching,    \* nodes whose content watcher runs
  scan,        \* [Node -> Node or None]: the node whose watcher a Connected
               \* callback of the host waits for, in StartUnfinishedDownload
  closer,      \* the caller of Common.Stop: [pc, r]
  halts

disk == <<config, stateFile, keeperFile, diskMatrix>>
held == <<lock, ds>>
nodes == <<node, thread, cancelled, watching, scan>>
vars == <<running, disk, held, pkg, repo, nodes, closer, halts>>

Free == [op |-> "free", r |-> None]
NewRepo == [phase |-> "new", filter |-> {}, matrix |-> {}]
NoNode == [phase |-> "none", r |-> None, store |-> FALSE]
GoneRepo == [NewRepo EXCEPT !.phase = "gone"]
GoneNode == [NoNode EXCEPT !.phase = "closed"]
NoCloser == [pc |-> "none", r |-> None]

\* The repository behind hop.comm, and the node in its Node: the latest ones.
Latest(S) == {x \in S : \A y \in S : y <= x}
Current == Latest({r \in Repo : repo[r].phase \in {"open", "closed"}})
CurrentNode == Latest({n \in Node : node[n].phase # "none" /\ node[n].r \in Current})

Init ==
  /\ running = TRUE
  /\ config = FALSE /\ stateFile = [form |-> "absent", tags |-> {}]
  /\ keeperFile = "absent" /\ diskMatrix = {}
  /\ lock = None /\ ds = None /\ pkg = Free
  /\ repo = [r \in Repo |-> NewRepo]
  /\ node = [n \in Node |-> NoNode]
  /\ thread = [n \in Node |-> [k \in Kind |-> "idle"]]
  /\ cancelled = {} /\ watching = {} /\ scan = [n \in Node |-> None]
  /\ closer = NoCloser /\ halts = 0

(* ----------------------------- repo.Init ----------------------------- *)

\* The config file is there; in one piece, since it is renamed into place.
configIsInitialized == config

initConfig == config' = TRUE

\* A config file that exists makes Init a no-op.
InitConfig ==
  /\ running /\ pkg = Free /\ ~configIsInitialized
  /\ initConfig
  /\ pkg' = [op |-> "init", r |-> None]
  /\ UNCHANGED <<running, stateFile, keeperFile, diskMatrix, held, repo, nodes, closer, halts>>

\* os.Create of initState, called by Init and by openState.
CreateState ==
  /\ running
  /\ \/ pkg.op = "init"
     \/ pkg.op = "state" /\ stateFile.form = "absent"
  /\ stateFile' = [form |-> "torn", tags |-> {}]
  /\ pkg' = [pkg EXCEPT !.op = IF pkg.op = "init" THEN "initState" ELSE "newState"]
  /\ UNCHANGED <<running, config, keeperFile, diskMatrix, held, repo, nodes, closer, halts>>

\* The Write of initState.
WriteFreshState ==
  /\ running /\ pkg.op \in {"initState", "newState"}
  /\ stateFile' = [stateFile EXCEPT !.form = "whole"]
  /\ pkg' = IF pkg.op = "initState" THEN Free ELSE [pkg EXCEPT !.op = "state"]
  /\ UNCHANGED <<running, config, keeperFile, diskMatrix, held, repo, nodes, closer, halts>>

(* ------------------------------ repo.open ---------------------------- *)

openConfig == config

\* leveldb has a lock of its own.
openDatastore(r) == ds = None /\ ds' = r

\* Lock file, config and datastore. While another FSRepo has the lock or the
\* datastore Open returns an error and changes nothing.
OpenLock(r) ==
  /\ running /\ pkg = Free
  /\ repo[r].phase = "new" /\ \A q \in Repo : q < r => repo[q].phase # "new"
  /\ lock = None /\ openConfig /\ openDatastore(r)
  /\ lock' = r
  /\ pkg' = [op |-> "state", r |-> r]
  /\ UNCHANGED <<running, disk, repo, nodes, closer, halts>>

OpenState ==
  /\ running /\ pkg.op = "state" /\ stateFile.form = "whole"
  /\ repo' = [repo EXCEPT ![pkg.r].filter = stateFile.tags]
  /\ pkg' = [pkg EXCEPT !.op = "keeper"]
  /\ UNCHANGED <<running, disk, held, nodes, closer, halts>>

\* NewMatrixKeeper, and the end of a successful open.
Opened(r) ==
  /\ repo' = [repo EXCEPT ![r].phase = "open", ![r].matrix = diskMatrix]
  /\ pkg' = Free

\* LoadStateKeeper: the file is there, or it is created and then written.
OpenKeeper ==
  /\ running /\ pkg.op = "keeper"
  /\ \/ keeperFile = "whole" /\ Opened(pkg.r) /\ UNCHANGED <<keeperFile, held>>
     \/ /\ keeperFile = "absent"
        /\ keeperFile' = "torn"
        /\ pkg' = [pkg EXCEPT !.op = "newKeeper"]
        /\ UNCHANGED <<repo, held>>
     \/ \* the error leaves the datastore open and unlocks the lock file
        /\ keeperFile = "torn"
        /\ repo' = [repo EXCEPT ![pkg.r].phase = "failed"]
        /\ lock' = None
        /\ pkg' = Free
        /\ UNCHANGED <<keeperFile, ds>>
  /\ UNCHANGED <<running, config, stateFile, diskMatrix, nodes, closer, halts>>

WriteKeeper ==
  /\ running /\ pkg.op = "newKeeper"
  /\ keeperFile' = "whole"
  /\ Opened(pkg.r)
  /\ UNCHANGED <<running, config, stateFile, diskMatrix, held, nodes, closer, halts>>

(* ------------------------------- a node ------------------------------ *)

\* A mutant that writes to whatever datastore is open.
FlushOfAny(r) == diskMatrix' = IF ds # None THEN repo[r].matrix ELSE diskMatrix

\* matrix.flush: its Puts fail once the datastore is closed.
FlushOf(r) == diskMatrix' = IF ds = r THEN repo[r].matrix ELSE diskMatrix

\* Common.Start: Config refuses a closed repository. Earlier nodes may still
\* be running, also on the same repository.
Start(n) ==
  /\ running /\ pkg = Free
  /\ node[n].phase = "none" /\ \A m \in Node : m < n => node[m].phase # "none"
  /\ \E r \in Current :
       /\ repo[r].phase = "open"
       /\ node' = [node EXCEPT ![n] = [phase |-> "online", r |-> r, store |-> TRUE]]
  /\ watching' = watching \cup {n}
  /\ UNCHANGED <<running, disk, held, pkg, repo, thread, cancelled, scan, closer, halts>>

HostOpen(n) == running /\ node[n].phase \notin {"none", "closed"}

AddRecord(r, e) == repo' = [repo EXCEPT ![r].matrix = @ \cup ({e} \cap Followed)]

\* A host reports Disconnected, or the BLE or Wi-Fi driver a peer: into the
\* matrix of the repository behind hop.comm, a node or no node.
MatrixEvent ==
  /\ running
  /\ \E r \in Current : AddRecord(r, "peer")
  /\ UNCHANGED <<running, disk, held, pkg, nodes, closer, halts>>

\* The ticker's select may take the tick after the node's context has ended.
Ticker(n) ==
  /\ HostOpen(n)
  /\ FlushOf(node[n].r)
  /\ UNCHANGED <<running, config, stateFile, keeperFile, held, pkg, repo, nodes, closer, halts>>

SetThread(n, k, pc) == thread' = [thread EXCEPT ![n][k] = pc]

\* A merge reaches PutHook, after a Put to the datastore. Remote content goes
\* to the watcher, with autoDownload. Only crdt.Close ends merges: an ended
\* context of the node does not.
Merge(n) ==
  /\ n \in Busy /\ running /\ node[n].store /\ node[n].phase # "crdt" /\ ds = node[n].r
  /\ thread[n]["merge"] = "idle"
  /\ \E pc \in {"add"} \cup (IF AutoDownload THEN {"send"} ELSE {}) : SetThread(n, "merge", pc)
  /\ UNCHANGED <<running, disk, held, pkg, repo, node, cancelled, watching, scan, closer, halts>>

\* contentChan <- m, received by the watcher, whose goroutine has NewContent
\* record the content and starts a job.
HandOver(n) ==
  /\ running /\ n \in watching
  /\ thread[n] = [merge |-> "send", job |-> "idle"]
  /\ thread' = [thread EXCEPT ![n] = [merge |-> "idle", job |-> "fetch"]]
  /\ AddRecord(node[n].r, "content")
  /\ UNCHANGED <<running, disk, held, pkg, node, cancelled, watching, scan, closer, halts>>

\* The notifier's Connected on n's host: NodeConnected, and the manager of
\* the node in hop.comm scans its repository's matrix. An unfinished download
\* whose tag it finds in the store it sends to its own content watcher, on an
\* unbuffered channel and whatever context has ended. Host.Close lets no new
\* connection in.
Connected(n) ==
  /\ n \in Busy /\ HostOpen(n) /\ node[n].phase # "host" /\ scan[n] = None
  /\ \E r \in Current : AddRecord(r, "peer")
  /\ \E m \in CurrentNode :
       \/ scan' = scan
       \/ /\ "content" \in repo[node[m].r].matrix /\ ds = node[m].r
          /\ scan' = [scan EXCEPT ![n] = m]
  /\ UNCHANGED <<running, disk, held, pkg, node, thread, cancelled, watching, closer, halts>>

\* m.download <- *meta of Connected, received by the watcher of that node.
Resume(n) ==
  LET m == scan[n]
  IN  /\ running /\ m \in watching /\ thread[m]["job"] = "idle"
      /\ SetThread(m, "job", "fetch")
      /\ AddRecord(node[m].r, "content")
      /\ scan' = [scan EXCEPT ![n] = None]
      /\ UNCHANGED <<running, disk, held, pkg, node, cancelled, watching, closer, halts>>

\* Download ends: with the content in the datastore, or with an error.
JobEnds(n) ==
  /\ running /\ thread[n]["job"] = "fetch"
  /\ \/ ds = node[n].r /\ SetThread(n, "job", "add")
     \/ SetThread(n, "job", "idle")
  /\ UNCHANGED <<running, disk, held, pkg, repo, node, cancelled, watching, scan, closer, halts>>

\* What Add puts into a filter: a tag in Tag, or one that nobody follows.
Label == {{}} \cup {{t} : t \in Tag}

\* A mutant of SetState without packageLock.
AddTagUnlocked(n, k, tags) ==
  LET r == node[n].r
  IN  /\ running /\ thread[n][k] = "add"
      /\ repo' = [repo EXCEPT ![r].filter = @ \cup tags]
      /\ stateFile' = [stateFile EXCEPT !.form = "torn"]
      /\ SetThread(n, k, "write")
      /\ UNCHANGED <<running, config, keeperFile, diskMatrix, held, pkg, node, cancelled,
                 watching, scan, closer, halts>>

\* State().Add and the truncating open of SetState, under syncMtx and
\* packageLock. No check of closed.
AddTag(n, k, tags) ==
  LET r == node[n].r
  IN  /\ running /\ thread[n][k] = "add" /\ pkg = Free
      /\ repo' = [repo EXCEPT ![r].filter = @ \cup tags]
      /\ stateFile' = [stateFile EXCEPT !.form = "torn"]
      /\ pkg' = [op |-> "write", r |-> r]
      /\ SetThread(n, k, "write")
      /\ UNCHANGED <<running, config, keeperFile, diskMatrix, held, node, cancelled,
                 watching, scan, closer, halts>>

\* The write of SetState.
WriteTags(n, k) ==
  /\ running /\ thread[n][k] = "write"
  /\ stateFile' = [form |-> "whole", tags |-> repo[node[n].r].filter]
  /\ pkg' = Free
  /\ SetThread(n, k, "idle")
  /\ UNCHANGED <<running, config, keeperFile, diskMatrix, held, repo, node, cancelled,
                 watching, scan, closer, halts>>

\* The content watcher returns on ctx.Done.
WatcherLeaves(n) ==
  /\ running /\ n \in watching \cap cancelled
  /\ watching' = watching \ {n}
  /\ UNCHANGED <<running, disk, held, pkg, repo, node, thread, cancelled, scan, closer, halts>>

(* ---------------------------- Stop and Close ------------------------- *)

\* IPFSNode.Stop: cancels the node. Then it waits for Stopped, which the node
\* is told when it is closed.
Stop(n) ==
  /\ running /\ n \in CurrentNode
  /\ cancelled' = cancelled \cup {n}
  /\ UNCHANGED <<running, disk, held, pkg, repo, node, thread, watching, scan, closer, halts>>

\* Common.Stop, called by Close of a phone and by the stop command: Flush,
CloseFlush ==
  /\ running /\ closer = NoCloser
  /\ \E r \in Current : FlushOf(r) /\ closer' = [pc |-> "flushed", r |-> r]
  /\ UNCHANGED <<running, config, stateFile, keeperFile, held, pkg, repo, nodes, halts>>

\* A mutant that unlocks and leaves the datastore open.
CloseRepoUnlocks ==
  /\ running /\ closer.pc = "flushed" /\ pkg = Free
  /\ repo' = [repo EXCEPT ![closer.r].phase = "closed"]
  /\ lock' = IF lock = closer.r THEN None ELSE lock
  /\ closer' = [closer EXCEPT !.pc = "closed"]
  /\ UNCHANGED <<running, disk, ds, pkg, nodes, halts>>

\* FSRepo.Close: the datastore, then the lock. A second Close fails on the
\* closed datastore and changes nothing.
CloseRepo ==
  /\ running /\ closer.pc = "flushed" /\ pkg = Free
  /\ repo' = [repo EXCEPT ![closer.r].phase = "closed"]
  /\ ds' = IF ds = closer.r THEN None ELSE ds
  /\ lock' = IF lock = closer.r THEN None ELSE lock
  /\ closer' = [closer EXCEPT !.pc = "closed"]
  /\ UNCHANGED <<running, disk, pkg, nodes, halts>>

\* A mutant that remembers the repository it closed.
CloseCancelKeeps ==
  /\ running /\ closer.pc = "closed"
  /\ cancelled' = cancelled \cup {n \in Node : node[n].phase # "none" /\ node[n].r = closer.r}
  /\ closer' = [closer EXCEPT !.pc = "none"]
  /\ UNCHANGED <<running, disk, held, pkg, repo, node, thread, watching, scan, halts>>

\* and the end of the context that the nodes' contexts are children of.
CloseCancel ==
  /\ running /\ closer.pc = "closed"
  /\ cancelled' = cancelled \cup {n \in Node : node[n].phase # "none" /\ node[n].r = closer.r}
  /\ closer' = NoCloser
  /\ UNCHANGED <<running, disk, held, pkg, repo, node, thread, watching, scan, halts>>

(* autoclose, holding the mutex of the Peer to its end.                    *)

SetPhase(n, phase) == node' = [node EXCEPT ![n].phase = phase]

\* Matrix.Close, and online = false.
Offline(n) ==
  /\ running /\ node[n].phase = "online" /\ n \in cancelled
  /\ FlushOf(node[n].r)
  /\ SetPhase(n, "offline")
  /\ UNCHANGED <<running, config, stateFile, keeperFile, held, pkg, repo, thread, cancelled,
                 watching, scan, closer, halts>>

\* dlManager.Stop under a context that is done: it waits for the job, or it
\* returns an error, and then Manager.Close leaves the store open.
StopDownloads(n) ==
  /\ running /\ node[n].phase = "offline"
  /\ \/ thread[n]["job"] = "idle" /\ SetPhase(n, "crdt")
     \/ SetPhase(n, "host")
  /\ UNCHANGED <<running, disk, held, pkg, repo, thread, cancelled, watching, scan, closer, halts>>

\* crdt.Close waits for the merge under way.
StoreCloses(n) ==
  /\ running /\ node[n].phase = "crdt" /\ thread[n]["merge"] = "idle"
  /\ node' = [node EXCEPT ![n].phase = "host", ![n].store = FALSE]
  /\ UNCHANGED <<running, disk, held, pkg, repo, thread, cancelled, watching, scan, closer, halts>>

\* A mutant that waits for merges even if the store was left open.
HostWaits(n) ==
  /\ running /\ node[n].phase = "host" /\ scan[n] = None /\ thread[n]["merge"] = "idle"
  /\ SetPhase(n, "closed")
  /\ UNCHANGED <<running, disk, held, pkg, repo, thread, cancelled, watching, scan, closer, halts>>

\* Host.Close, which waits for the notifier's callbacks, and Stopped <- true.
HostCloses(n) ==
  /\ running /\ node[n].phase = "host" /\ scan[n] = None
  /\ SetPhase(n, "closed")
  /\ UNCHANGED <<running, disk, held, pkg, repo, thread, cancelled, watching, scan, closer, halts>>

(* ---------------------------- life and death ------------------------- *)

\* The process ends; so do its locks.
Die ==
  /\ running' = FALSE
  /\ lock' = None /\ ds' = None /\ pkg' = Free
  /\ repo' = [r \in Repo |-> IF repo[r].phase = "new" THEN NewRepo ELSE GoneRepo]
  /\ node' = [n \in Node |-> IF node[n].phase = "none" THEN NoNode ELSE GoneNode]
  /\ thread' = [n \in Node |-> [k \in Kind |-> "idle"]]
  /\ cancelled' = {} /\ watching' = {} /\ scan' = [n \in Node |-> None]
  /\ closer' = NoCloser
  /\ UNCHANGED disk

\* It is killed, or its main function returns.
Halt ==
  /\ running /\ halts < MaxHalts
  /\ halts' = halts + 1
  /\ Die

\* Connected of a host that is still open when Init has put a repository
\* without a node behind hop.comm: Node is nil.
ConnectedPanics(n) ==
  /\ HostOpen(n) /\ CurrentNode = {} /\ halts < MaxHalts
  /\ halts' = halts + 1
  /\ Die

\* openState fails on an empty file, and close calls a cancel that is nil.
OpenPanics ==
  /\ running /\ pkg.op = "state" /\ stateFile.form = "torn"
  /\ Die
  /\ UNCHANGED halts

Restart ==
  /\ ~running
  /\ running' = TRUE
  /\ UNCHANGED <<disk, held, pkg, repo, nodes, closer, halts>>

\* What the phone's application does.
Calls ==
  \/ InitConfig \/ CloseFlush
  \/ \E r \in Repo : OpenLock(r)
  \/ \E n \in Node : Start(n) \/ Stop(n)

\* What goes on once a call has begun.
Opening ==
  CreateState \/ WriteFreshState \/ OpenState \/ OpenKeeper \/ WriteKeeper
Closing == CloseRepo \/ CloseCancel
Autoclose(n) == Offline(n) \/ StopDownloads(n) \/ StoreCloses(n) \/ HostCloses(n)
Working(n, k) == (\E tags \in Label : AddTag(n, k, tags)) \/ WriteTags(n, k)

Next ==
  \/ Calls \/ Opening \/ Closing \/ MatrixEvent \/ Halt \/ OpenPanics \/ Restart
  \/ \E n \in Node :
       \/ Ticker(n) \/ Merge(n) \/ HandOver(n) \/ JobEnds(n) \/ Connected(n) \/ Resume(n)
       \/ ConnectedPanics(n) \/ WatcherLeaves(n) \/ Autoclose(n)
       \/ \E k \in Kind : Working(n, k)

Spec == Init /\ [][Next]_vars

\* Every thread that can go on does; neither a mutex nor a channel starves a
\* waiter.
Fairness ==
  /\ WF_vars(Opening)
  /\ \A n \in Node :
       /\ WF_vars(WatcherLeaves(n)) /\ WF_vars(Autoclose(n))
       /\ SF_vars(JobEnds(n) \/ Working(n, "job"))
  /\ \A n \in Busy : SF_vars(Working(n, "merge")) /\ SF_vars(Resume(n))

FairSpec == Spec /\ Fairness

(* ------------------------------ properties --------------------------- *)

FileForm == {"absent", "torn", "whole"}
TypeOK ==
  /\ running \in BOOLEAN /\ config \in BOOLEAN
  /\ stateFile \in [form : FileForm, tags : SUBSET Tag] /\ keeperFile \in FileForm
  /\ diskMatrix \subseteq Record
  /\ lock \in Repo \cup {None} /\ ds \in Repo \cup {None}
  /\ pkg \in [op : {"free", "init", "initState", "state", "newState", "keeper", "newKeeper", "write"},
              r : Repo \cup {None}]
  /\ repo \in [Repo -> [phase : {"new", "open", "closed", "failed", "gone"},
                        filter : SUBSET Tag, matrix : SUBSET Record]]
  /\ node \in [Node -> [phase : {"none", "online", "offline", "crdt", "host", "closed"},
                        r : Repo \cup {None}, store : BOOLEAN]]
  /\ thread \in [Node -> [Kind -> {"idle", "send", "fetch", "add", "write"}]]
  /\ cancelled \subseteq Node /\ watching \subseteq Node /\ scan \in [Node -> Node \cup {None}]
  /\ closer \in {NoCloser} \cup [pc : {"flushed", "closed"}, r : Repo]
  /\ halts \in 0..MaxHalts

\* While the datastore is open its FSRepo holds the lock file, through every
\* interleaving of Close, Open and a Close of what is closed already; but for
\* one whose Open failed in LoadStateKeeper.
LockedWhileOpen == ds # None => lock = ds \/ repo[ds].phase = "failed"

\* Only a death leaves a state file torn: whatever threads of open and closed
\* repositories rewrite it, somebody is about to complete it, so that a later
\* Open reads it.
TornOnlyByDeath ==
  halts = 0 /\ stateFile.form = "torn" => pkg.op \in {"initState", "newState", "write"}

\* Nothing that was flushed is lost from the flushed matrix: a new keeper
\* starts from the last flush, and a node of an earlier repository, whose
\* ticker and autoclose flush when they please, does not overwrite what the
\* next repository has recorded and flushed meanwhile.
MatrixNeverRegresses == [][diskMatrix \subseteq diskMatrix']_vars

\* A merge of n, or a Connected callback of its host, that waits for a watcher
\* which has left.
Stuck(n) ==
  \/ thread[n]["merge"] = "send" /\ n \notin watching
  \/ scan[n] # None /\ scan[n] \notin watching

\* A node that is told to stop is closed, and callers of Stop return, unless
\* a merge or a Connected callback waits for a watcher that has left (or the
\* process dies): nothing else keeps autoclose waiting, neither downloads, nor
\* a callback that another node's watcher still serves, nor a Close at the
\* same time.
StopEnds ==
  \A n \in Node : n \in cancelled ~> ~running \/ node[n].phase = "closed" \/ Stuck(n)
=============================================================================
