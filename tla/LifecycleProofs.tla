--------------------------- MODULE LifecycleProofs ---------------------------
(***************************************************************************)
(* Proofs about Lifecycle, for every bound: types, the lock of the open    *)
(* datastore, who may leave the state file torn, and the flushed matrix.   *)
(***************************************************************************)
EXTENDS Lifecycle, TLAPS

(* ----------------------------- type correctness ---------------------- *)

RepoType == [phase : {"new", "open", "closed", "failed", "gone"},
             filter : SUBSET Tag, matrix : SUBSET Record]
NodeType == [phase : {"none", "online", "offline", "crdt", "host", "closed"},
             r : Repo \cup {None}, store : BOOLEAN]
ThreadType == [Kind -> {"idle", "send", "fetch", "add", "write"}]
FileType == [form : FileForm, tags : SUBSET Tag]
PkgType == [op : {"free", "init", "initState", "state", "newState", "keeper", "newKeeper",
                  "write"},
            r : Repo \cup {None}]

\* TypeOK in the names above.
Typed ==
  /\ running \in BOOLEAN /\ config \in BOOLEAN
  /\ stateFile \in FileType /\ keeperFile \in FileForm
  /\ diskMatrix \subseteq Record
  /\ lock \in Repo \cup {None} /\ ds \in Repo \cup {None}
  /\ pkg \in PkgType
  /\ repo \in [Repo -> RepoType] /\ node \in [Node -> NodeType]
  /\ thread \in [Node -> ThreadType]
  /\ cancelled \subseteq Node /\ watching \subseteq Node
  /\ scan \in [Node -> Node \cup {None}]
  /\ closer \in {NoCloser} \cup [pc : {"flushed", "closed"}, r : Repo]
  /\ halts \in 0..MaxHalts

\* Nodes that are open or watch, and threads that work, have a repository.
Placed ==
  /\ \A n \in Node : node[n].phase \notin {"none", "closed"} \/ node[n].store => node[n].r \in Repo
  /\ \A n \in Node, k \in Kind : thread[n][k] # "idle" => node[n].r \in Repo
  /\ \A n \in watching : node[n].r \in Repo

TypeInv == Typed /\ Placed

LEMMA Numbers ==
  /\ MaxOpens \in Nat /\ MaxStarts \in Nat /\ MaxHalts \in Nat /\ 0 \in 0..MaxHalts
  /\ Repo \subseteq Nat \ {0} /\ Node \subseteq Nat /\ None \notin Repo
  BY LifecycleAssumption DEF Repo, Node, None

LEMMA FreshTypes ==
  /\ NewRepo \in RepoType /\ GoneRepo \in RepoType
  /\ NoNode \in NodeType /\ GoneNode \in NodeType
  /\ [k \in Kind |-> "idle"] \in ThreadType
  /\ Free \in PkgType
  BY Numbers DEF NewRepo, GoneRepo, NoNode, GoneNode, RepoType, NodeType, ThreadType, PkgType, Free

LEMMA PkgTo ==
  ASSUME pkg \in PkgType,
         NEW op \in {"free", "init", "initState", "state", "newState", "keeper", "newKeeper",
                     "write"},
         NEW r \in Repo \cup {None}
  PROVE  [pkg EXCEPT !.op = op] \in PkgType /\ [op |-> op, r |-> r] \in PkgType
  BY DEF PkgType

LEMMA NodeTo ==
  ASSUME NEW e \in NodeType, NEW b \in BOOLEAN,
         NEW phase \in {"none", "online", "offline", "crdt", "host", "closed"}
  PROVE  /\ [e EXCEPT !.phase = phase] \in NodeType
         /\ [e EXCEPT !.phase = phase, !.store = b] \in NodeType
  BY DEF NodeType

LEMMA RepoTo ==
  ASSUME NEW e \in RepoType, NEW m \in SUBSET Record, NEW tags \in SUBSET Tag,
         NEW phase \in {"new", "open", "closed", "failed", "gone"}
  PROVE  /\ [e EXCEPT !.phase = phase] \in RepoType
         /\ [e EXCEPT !.phase = phase, !.matrix = m] \in RepoType
         /\ [e EXCEPT !.matrix = m] \in RepoType
         /\ [e EXCEPT !.filter = tags] \in RepoType
  BY DEF RepoType

LEMMA SetThreadType ==
  ASSUME thread \in [Node -> ThreadType], NEW n \in Node, NEW k \in Kind,
         NEW pc \in {"idle", "send", "fetch", "add", "write"}, SetThread(n, k, pc)
  PROVE  thread' \in [Node -> ThreadType]
  BY DEF SetThread, ThreadType

LEMMA SetPhaseType ==
  ASSUME node \in [Node -> NodeType], NEW n \in Node,
         NEW phase \in {"none", "online", "offline", "crdt", "host", "closed"},
         SetPhase(n, phase)
  PROVE  node' \in [Node -> NodeType]
  BY NodeTo DEF SetPhase

LEMMA InCurrent ==
  ASSUME NEW r \in Current
  PROVE  r \in Repo /\ repo[r].phase \in {"open", "closed"}
  BY DEF Current, Latest

LEMMA FlushType ==
  ASSUME Typed, NEW r \in Repo, FlushOf(r)
  PROVE  diskMatrix' \subseteq Record
  BY DEF Typed, FlushOf, RepoType

LEMMA AddRecordType ==
  ASSUME Typed, NEW r \in Repo, NEW e \in Record, AddRecord(r, e)
  PROVE  /\ repo' \in [Repo -> RepoType]
         /\ \A q \in Repo : /\ repo'[q].phase = repo[q].phase
                            /\ repo[q].matrix \subseteq repo'[q].matrix
  <1>1. repo[r].matrix \cup ({e} \cap Followed) \in SUBSET Record
    BY DEF Typed, RepoType
  <1>2. repo' \in [Repo -> RepoType]
    BY <1>1, RepoTo DEF AddRecord, Typed
  <1> QED BY <1>2 DEF AddRecord, Typed, RepoType

LEMMA LifecycleInit == Init => TypeInv
  <1> SUFFICES ASSUME Init PROVE TypeInv
    OBVIOUS
  <1>1. repo \in [Repo -> RepoType] /\ node \in [Node -> NodeType]
        /\ thread \in [Node -> ThreadType] /\ pkg \in PkgType
    BY FreshTypes DEF Init
  <1>2. stateFile \in FileType
    BY DEF Init, FileType, FileForm
  <1>3. Typed
    BY <1>1, <1>2, Numbers DEF Init, FileForm, Typed
  <1>4. Placed
    BY DEF Init, Placed, NoNode
  <1> QED BY <1>3, <1>4 DEF TypeInv

\* Steps that start, end and move no node, thread or watcher.
LEMMA PlacedStays ==
  ASSUME Placed, UNCHANGED <<node, thread>>, watching' \subseteq watching
  PROVE  Placed'
  BY DEF Placed

\* Steps of autoclose.
LEMMA PlacedMoves ==
  ASSUME Placed, watching \subseteq Node, UNCHANGED <<thread, watching>>,
         \A m \in Node :
           /\ node'[m].r = node[m].r
           /\ node'[m].phase \notin {"none", "closed"} \/ node'[m].store =>
                node[m].phase \notin {"none", "closed"} \/ node[m].store
  PROVE  Placed'
  BY DEF Placed

\* Steps of Init and Open.
LEMMA OpeningType ==
  ASSUME TypeInv, InitConfig \/ Opening \/ \E r \in Repo : OpenLock(r)
  PROVE  TypeInv'
  <1> USE DEF TypeInv, Typed
  <1>1. UNCHANGED <<node, thread, watching>>
    BY DEF InitConfig, Opening, OpenLock, CreateState, WriteFreshState, OpenState, OpenKeeper,
           WriteKeeper, nodes
  <1>2. CASE InitConfig
    BY <1>1, <1>2, PkgTo, PlacedStays DEF InitConfig, initConfig, held, nodes
  <1>3. CASE CreateState
    BY <1>1, <1>3, PkgTo, PlacedStays DEF CreateState, FileType, FileForm, held, nodes
  <1>4. CASE WriteFreshState
    BY <1>1, <1>4, PkgTo, FreshTypes, PlacedStays
    DEF WriteFreshState, FileType, FileForm, held, nodes
  <1>5. CASE OpenState
    <2>1. repo' \in [Repo -> RepoType]
      BY <1>5, RepoTo DEF OpenState, FileType
    <2> QED BY <1>1, <1>5, <2>1, PkgTo, PlacedStays DEF OpenState, disk, held, nodes
  <1>6. CASE OpenKeeper
    <2>1. CASE Opened(pkg.r) /\ UNCHANGED <<keeperFile, held>>
      <3>1. repo' \in [Repo -> RepoType]
        BY <2>1, RepoTo DEF Opened
      <3> QED BY <1>1, <1>6, <2>1, <3>1, FreshTypes, PlacedStays
              DEF Opened, OpenKeeper, held, nodes
    <2>2. CASE keeperFile' = "torn" /\ pkg' = [pkg EXCEPT !.op = "newKeeper"]
               /\ UNCHANGED <<repo, held>>
      BY <1>1, <1>6, <2>2, PkgTo, PlacedStays DEF OpenKeeper, FileForm, held, nodes
    <2>3. CASE /\ repo' = [repo EXCEPT ![pkg.r].phase = "failed"]
               /\ lock' = None /\ pkg' = Free
               /\ UNCHANGED <<keeperFile, ds>>
      <3>1. repo' \in [Repo -> RepoType]
        BY <2>3, RepoTo
      <3> QED BY <1>1, <1>6, <2>3, <3>1, FreshTypes, PlacedStays DEF OpenKeeper, nodes
    <2> QED BY <1>6, <2>1, <2>2, <2>3 DEF OpenKeeper
  <1>7. CASE WriteKeeper
    <2>1. repo' \in [Repo -> RepoType]
      BY <1>7, RepoTo DEF WriteKeeper, Opened
    <2> QED BY <1>1, <1>7, <2>1, FreshTypes, PlacedStays
            DEF WriteKeeper, Opened, FileForm, held, nodes
  <1>8. ASSUME NEW r \in Repo, OpenLock(r) PROVE TypeInv'
    BY <1>1, <1>8, PkgTo, PlacedStays DEF OpenLock, openDatastore, disk, nodes
  <1> QED BY <1>2, <1>3, <1>4, <1>5, <1>6, <1>7, <1>8 DEF Opening

\* Steps of a node, but for autoclose.
LEMMA NodeSteps ==
  ASSUME TypeInv, NEW n \in Node, NEW k \in Kind,
         \/ Start(n) \/ Ticker(n) \/ Merge(n) \/ HandOver(n) \/ JobEnds(n) \/ Connected(n)
         \/ Resume(n) \/ WatcherLeaves(n) \/ Working(n, k)
  PROVE  TypeInv'
  <1> USE DEF TypeInv, Typed
  <1>1. CASE Start(n)
    <2>1. PICK r \in Current : node' = [node EXCEPT ![n] = [phase |-> "online", r |-> r, store |-> TRUE]]
      BY <1>1 DEF Start
    <2>2. node' \in [Node -> NodeType] /\ r \in Repo
      BY <2>1, InCurrent DEF NodeType
    <2>3. Placed'
      BY <1>1, <2>1, <2>2 DEF Start, Placed, nodes
    <2> QED BY <1>1, <2>2, <2>3 DEF Start, disk, held
  <1>3. CASE Ticker(n)
    <2>1. diskMatrix' \subseteq Record
      BY <1>3, FlushType DEF Ticker, HostOpen, Placed
    <2> QED BY <1>3, <2>1, PlacedStays DEF Ticker, held, nodes
  <1>4. CASE Merge(n)
    <2>1. thread' \in [Node -> ThreadType]
      BY <1>4, SetThreadType DEF Merge, Kind
    <2>2. Placed'
      BY <1>4 DEF Merge, SetThread, Placed
    <2> QED BY <1>4, <2>1, <2>2 DEF Merge, disk, held
  <1>5. CASE HandOver(n)
    <2>1. thread' \in [Node -> ThreadType]
      BY <1>5 DEF HandOver, ThreadType, Kind
    <2>2. node[n].r \in Repo
      BY <1>5 DEF HandOver, Placed, Kind
    <2>3. Placed'
      BY <1>5, <2>2 DEF HandOver, Placed
    <2>4. repo' \in [Repo -> RepoType]
      BY <1>5, <2>2, AddRecordType DEF HandOver, Record
    <2> QED BY <1>5, <2>1, <2>3, <2>4 DEF HandOver, disk, held
  <1>6. CASE JobEnds(n)
    <2>1. thread' \in [Node -> ThreadType]
      BY <1>6, SetThreadType DEF JobEnds, Kind
    <2>2. node[n].r \in Repo
      BY <1>6 DEF JobEnds, Placed, Kind
    <2>3. Placed'
      BY <1>6, <2>2 DEF JobEnds, SetThread, Placed
    <2> QED BY <1>6, <2>1, <2>3 DEF JobEnds, disk, held
  <1>7. CASE WatcherLeaves(n)
    BY <1>7, PlacedStays DEF WatcherLeaves, disk, held
  <1>8. ASSUME NEW tags \in Label, AddTag(n, k, tags) PROVE TypeInv'
    <2>1. thread' \in [Node -> ThreadType]
      BY <1>8, SetThreadType DEF AddTag
    <2>2. node[n].r \in Repo
      BY <1>8 DEF AddTag, Placed
    <2>3. repo' \in [Repo -> RepoType]
      <3>1. repo[node[n].r].filter \cup tags \in SUBSET Tag
        BY <1>8, <2>2 DEF RepoType, Label
      <3> QED BY <1>8, <2>2, <3>1, RepoTo DEF AddTag
    <2>4. Placed'
      BY <1>8, <2>2 DEF AddTag, SetThread, Placed
    <2>5. stateFile' \in FileType /\ pkg' \in PkgType
      BY <1>8, <2>2, PkgTo DEF AddTag, FileType, FileForm
    <2> QED BY <1>8, <2>1, <2>3, <2>4, <2>5 DEF AddTag, held
  <1>9. CASE WriteTags(n, k)
    <2>1. thread' \in [Node -> ThreadType]
      BY <1>9, SetThreadType DEF WriteTags
    <2>2. node[n].r \in Repo
      BY <1>9 DEF WriteTags, Placed
    <2>3. Placed'
      BY <1>9, <2>2 DEF WriteTags, SetThread, Placed
    <2>4. stateFile' \in FileType /\ pkg' \in PkgType
      BY <1>9, <2>2, FreshTypes DEF WriteTags, FileType, FileForm, RepoType
    <2> QED BY <1>9, <2>1, <2>3, <2>4 DEF WriteTags, held
  <1>10. CASE Connected(n)
    <2>1. PICK r \in Current : AddRecord(r, "peer")
      BY <1>10 DEF Connected
    <2>2. repo' \in [Repo -> RepoType]
      BY <2>1, InCurrent, AddRecordType DEF Record
    <2>3. scan' \in [Node -> Node \cup {None}]
      BY <1>10 DEF Connected, CurrentNode, Latest
    <2> QED BY <1>10, <2>2, <2>3, PlacedStays DEF Connected, disk, held
  <1>11. CASE Resume(n)
    <2>1. scan[n] \in Node /\ node[scan[n]].r \in Repo
      BY <1>11 DEF Resume, Placed
    <2>2. repo' \in [Repo -> RepoType]
      BY <1>11, <2>1, AddRecordType DEF Resume, Record
    <2>3. thread' \in [Node -> ThreadType]
      BY <1>11, <2>1, SetThreadType DEF Resume, Kind
    <2>4. Placed'
      BY <1>11, <2>1 DEF Resume, SetThread, Placed
    <2> QED BY <1>11, <2>1, <2>2, <2>3, <2>4 DEF Resume, disk, held
  <1> QED BY <1>1, <1>3, <1>4, <1>5, <1>6, <1>7, <1>8, <1>9, <1>10, <1>11 DEF Working

\* A record of a driver or of a host that lost a connection.
LEMMA EventType == ASSUME TypeInv, MatrixEvent PROVE TypeInv'
  <1>1. repo' \in [Repo -> RepoType]
    BY InCurrent, AddRecordType DEF MatrixEvent, Record, TypeInv
  <1> QED BY <1>1, PlacedStays DEF MatrixEvent, disk, held, nodes, TypeInv, Typed

\* Stop, Close and autoclose.
LEMMA ClosingType ==
  ASSUME TypeInv, CloseFlush \/ Closing \/ \E n \in Node : Stop(n) \/ Autoclose(n)
  PROVE  TypeInv'
  <1> USE DEF TypeInv, Typed
  <1>1. CASE CloseFlush
    <2>1. PICK r \in Current : FlushOf(r) /\ closer' = [pc |-> "flushed", r |-> r]
      BY <1>1 DEF CloseFlush
    <2>2. diskMatrix' \subseteq Record /\ r \in Repo
      BY <2>1, InCurrent, FlushType
    <2> QED BY <1>1, <2>1, <2>2, PlacedStays DEF CloseFlush, held, nodes
  <1>2. CASE CloseRepo
    <2>1. closer \in [pc : {"flushed", "closed"}, r : Repo]
      BY <1>2 DEF CloseRepo, NoCloser
    <2>2. repo' \in [Repo -> RepoType]
      BY <1>2, <2>1, RepoTo DEF CloseRepo
    <2>3. closer' \in [pc : {"flushed", "closed"}, r : Repo]
      BY <1>2, <2>1 DEF CloseRepo
    <2> QED BY <1>2, <2>2, <2>3, PlacedStays DEF CloseRepo, disk, nodes
  <1>3. CASE CloseCancel
    BY <1>3, PlacedStays DEF CloseCancel, disk, held
  <1>4. ASSUME NEW n \in Node, Stop(n) PROVE TypeInv'
    BY <1>4, PlacedStays DEF Stop, disk, held
  <1>5. ASSUME NEW n \in Node, Autoclose(n) PROVE TypeInv'
    <2>1. node' \in [Node -> NodeType]
      <3>1. CASE Offline(n)
        BY <3>1, SetPhaseType DEF Offline
      <3>2. CASE StopDownloads(n)
        BY <3>2, SetPhaseType DEF StopDownloads
      <3>3. CASE StoreCloses(n)
        BY <3>3, NodeTo DEF StoreCloses
      <3>4. CASE HostCloses(n)
        BY <3>4, SetPhaseType DEF HostCloses
      <3> QED BY <1>5, <3>1, <3>2, <3>3, <3>4 DEF Autoclose
    <2>2. Placed'
      <3>1. \A m \in Node :
              /\ node'[m].r = node[m].r
              /\ node'[m].phase \notin {"none", "closed"} \/ node'[m].store =>
                   node[m].phase \notin {"none", "closed"} \/ node[m].store
        BY <1>5 DEF Autoclose, Offline, StopDownloads, StoreCloses, HostCloses, SetPhase, NodeType
      <3>2. UNCHANGED <<thread, watching>>
        BY <1>5 DEF Autoclose, Offline, StopDownloads, StoreCloses, HostCloses
      <3> QED BY <3>1, <3>2, PlacedMoves
    <2>3. diskMatrix' \subseteq Record
      <3>1. CASE Offline(n)
        BY <3>1, FlushType DEF Offline, Placed
      <3>2. CASE ~Offline(n)
        BY <1>5, <3>2 DEF Autoclose, StopDownloads, StoreCloses, HostCloses, disk
      <3> QED BY <3>1, <3>2
    <2> QED BY <1>5, <2>1, <2>2, <2>3
            DEF Autoclose, Offline, StopDownloads, StoreCloses, HostCloses, disk, held
  <1> QED BY <1>1, <1>2, <1>3, <1>4, <1>5 DEF Closing

\* A death, and the next process.
LEMMA DieType ==
  ASSUME TypeInv, Die, halts' \in 0..MaxHalts
  PROVE  TypeInv'
  <1> USE DEF TypeInv, Typed
  <1>1. repo' \in [Repo -> RepoType] /\ node' \in [Node -> NodeType]
        /\ thread' \in [Node -> ThreadType] /\ pkg' \in PkgType
    BY FreshTypes DEF Die
  <1>2. Placed'
    BY DEF Die, Placed, NoNode, GoneNode
  <1> QED BY <1>1, <1>2 DEF Die, disk

LEMMA LifecycleNext == TypeInv /\ [Next]_vars => TypeInv'
  <1> SUFFICES ASSUME TypeInv, [Next]_vars PROVE TypeInv'
    OBVIOUS
  <1>1. CASE UNCHANGED vars
    BY <1>1 DEF TypeInv, Typed, Placed, vars, disk, held, nodes
  <1>2. CASE Halt
    <2>1. halts' \in 0..MaxHalts
      BY <1>2, Numbers DEF Halt, TypeInv, Typed
    <2> QED BY <1>2, <2>1, DieType DEF Halt
  <1>3. CASE OpenPanics
    BY <1>3, DieType DEF OpenPanics, TypeInv, Typed
  <1>4. CASE Restart
    BY <1>4 DEF Restart, TypeInv, Typed, Placed, disk, held, nodes
  <1>5. ASSUME NEW n \in Node, ConnectedPanics(n) PROVE TypeInv'
    <2>1. halts' \in 0..MaxHalts
      BY <1>5, Numbers DEF ConnectedPanics, TypeInv, Typed
    <2> QED BY <1>5, <2>1, DieType DEF ConnectedPanics
  <1> QED BY <1>1, <1>2, <1>3, <1>4, <1>5, OpeningType, NodeSteps, EventType, ClosingType
          DEF Next, Calls, Kind

\* Every variable of Lifecycle keeps its type.
THEOREM LifecycleTypeCorrect == Spec => []TypeOK
  <1>1. TypeInv => TypeOK
    BY DEF TypeInv, Typed, TypeOK, FileType, PkgType, RepoType, NodeType, ThreadType
  <1> QED BY <1>1, LifecycleInit, LifecycleNext, PTL DEF Spec

\* Steps that add to a matrix, all in memory.
Recording(n) == HandOver(n) \/ Connected(n) \/ Resume(n)

LEMMA AddsRecord ==
  ASSUME TypeInv, NEW n \in Node, Recording(n)
  PROVE  /\ \E r \in Repo, e \in Record : AddRecord(r, e)
         /\ UNCHANGED <<disk, held, pkg, node, halts>>
  <1>1. CASE HandOver(n)
    BY <1>1 DEF HandOver, Record, TypeInv, Placed
  <1>2. CASE Connected(n)
    BY <1>2, InCurrent DEF Connected, Record
  <1>3. CASE Resume(n)
    BY <1>3 DEF Resume, Record, TypeInv, Placed
  <1> QED BY <1>1, <1>2, <1>3 DEF Recording

(* ------------------------------ the lock file ------------------------ *)

\* While a repository is being opened it has lock and datastore.
LockInv ==
  /\ LockedWhileOpen
  /\ pkg.op \in {"state", "newState", "keeper", "newKeeper"} =>
       lock = pkg.r /\ ds = pkg.r /\ pkg.r \in Repo /\ repo[pkg.r].phase = "new"

\* Steps that leave the locks alone and put no repository out of "failed".
LEMMA LockStays ==
  ASSUME TypeInv, LockInv, UNCHANGED <<held, pkg>>,
         \A r \in Repo : repo'[r].phase = repo[r].phase
  PROVE  LockInv'
  BY DEF LockInv, LockedWhileOpen, held, TypeInv, Typed, None

LEMMA LockNext == TypeInv /\ LockInv /\ [Next]_vars => LockInv'
  <1> SUFFICES ASSUME TypeInv, LockInv, [Next]_vars PROVE LockInv'
    OBVIOUS
  <1>1. CASE UNCHANGED <<held, pkg, repo>>
    BY <1>1, LockStays
  <1>2. CASE InitConfig \/ CreateState \/ WriteFreshState
    BY <1>2 DEF InitConfig, CreateState, WriteFreshState, Free, LockInv, LockedWhileOpen, held,
                TypeInv, Typed, PkgType
  <1>3. ASSUME NEW r \in Repo, OpenLock(r) PROVE LockInv'
    BY <1>3 DEF OpenLock, openDatastore, LockInv, LockedWhileOpen
  <1>4. CASE OpenState
    BY <1>4 DEF OpenState, LockInv, LockedWhileOpen, held, TypeInv, Typed, PkgType
  <1>5. CASE OpenKeeper \/ WriteKeeper
    BY <1>5 DEF OpenKeeper, WriteKeeper, Opened, Free, LockInv, LockedWhileOpen, held,
                TypeInv, Typed, PkgType, RepoType
  <1>6. ASSUME NEW r \in Repo, NEW e \in Record, AddRecord(r, e), UNCHANGED <<held, pkg>>
        PROVE  LockInv'
    BY <1>6, AddRecordType, LockStays DEF TypeInv
  <1>7. ASSUME NEW n \in Node, NEW k \in Kind, Working(n, k) PROVE LockInv'
    <2>1. ASSUME NEW tags \in Label, AddTag(n, k, tags) PROVE LockInv'
      <3>1. \A r \in Repo : repo'[r].phase = repo[r].phase
        BY <2>1 DEF AddTag, TypeInv, Typed, RepoType
      <3>2. pkg'.op = "write" /\ UNCHANGED <<lock, ds>>
        BY <2>1 DEF AddTag, held
      <3> QED BY <3>1, <3>2 DEF LockInv, LockedWhileOpen, TypeInv, Typed, None
    <2>2. CASE WriteTags(n, k)
      BY <2>2 DEF WriteTags, Free, LockInv, LockedWhileOpen, held
    <2> QED BY <1>7, <2>1, <2>2 DEF Working
  <1>8. CASE CloseRepo
    BY <1>8 DEF CloseRepo, Free, LockInv, LockedWhileOpen, TypeInv, Typed, RepoType, NoCloser, None
  <1>9. CASE Die
    BY <1>9 DEF Die, Free, LockInv, LockedWhileOpen
  <1>10. CASE CloseFlush \/ CloseCancel \/ Restart
    BY <1>10, <1>1 DEF CloseFlush, CloseCancel, Restart
  <1>11. ASSUME NEW n \in Node,
                \/ Start(n) \/ Stop(n) \/ Ticker(n) \/ Merge(n) \/ JobEnds(n)
                \/ WatcherLeaves(n) \/ Autoclose(n)
         PROVE  LockInv'
    BY <1>11, <1>1 DEF Start, Stop, Ticker, Merge, JobEnds, WatcherLeaves, Autoclose,
                       Offline, StopDownloads, StoreCloses, HostCloses
  <1>12. ASSUME NEW n \in Node, Recording(n) PROVE LockInv'
    BY <1>6, <1>12, AddsRecord
  <1>13. CASE MatrixEvent
    BY <1>13, <1>6, InCurrent DEF MatrixEvent, Record
  <1> QED BY <1>1, <1>2, <1>3, <1>4, <1>5, <1>7, <1>8, <1>9, <1>10, <1>11, <1>12, <1>13
          DEF Next, Calls, Opening, Closing, Recording, Halt, OpenPanics, ConnectedPanics, vars

\* The FSRepo whose datastore is open holds the lock file, unless its Open
\* failed: FSRepo.Close, open and LoadStateKeeper.
THEOREM LockCorrect == Spec => []LockedWhileOpen
  <1>1. Init => LockInv
    BY DEF Init, LockInv, LockedWhileOpen, Free
  <1>2. LockInv => LockedWhileOpen
    BY DEF LockInv
  <1> QED BY <1>1, <1>2, LifecycleInit, LifecycleNext, LockNext, PTL DEF Spec

(* ------------------------------ the state file ----------------------- *)

LEMMA TornNext == TypeInv /\ TornOnlyByDeath /\ [Next]_vars => TornOnlyByDeath'
  <1> SUFFICES ASSUME TypeInv, TornOnlyByDeath, [Next]_vars PROVE TornOnlyByDeath'
    OBVIOUS
  <1> USE DEF TornOnlyByDeath
  <1>1. CASE UNCHANGED <<stateFile, pkg, halts>>
    BY <1>1
  <1>2. CASE InitConfig \/ CreateState \/ WriteFreshState
    BY <1>2 DEF InitConfig, CreateState, WriteFreshState, Free, TypeInv, Typed, PkgType, FileType
  <1>3. ASSUME NEW r \in Repo, OpenLock(r) PROVE TornOnlyByDeath'
    BY <1>3 DEF OpenLock, disk, Free
  <1>4. CASE OpenState \/ OpenKeeper \/ WriteKeeper
    BY <1>4 DEF OpenState, OpenKeeper, WriteKeeper, Opened, disk, TypeInv, Typed, PkgType
  <1>5. ASSUME NEW n \in Node, NEW k \in Kind, Working(n, k) PROVE TornOnlyByDeath'
    <2>1. ASSUME NEW tags \in Label, AddTag(n, k, tags) PROVE TornOnlyByDeath'
      <3>1. pkg'.op = "write"
        BY <2>1 DEF AddTag
      <3> QED BY <3>1
    <2>2. CASE WriteTags(n, k)
      BY <2>2 DEF WriteTags
    <2> QED BY <1>5, <2>1, <2>2 DEF Working
  <1>6. ASSUME NEW n \in Node, ConnectedPanics(n) PROVE TornOnlyByDeath'
    BY <1>6 DEF ConnectedPanics, TypeInv, Typed
  <1>7. CASE OpenPanics
    BY <1>7 DEF OpenPanics, Die, disk
  <1>8. CASE CloseFlush \/ CloseRepo \/ CloseCancel \/ Restart
    BY <1>8, <1>1 DEF CloseFlush, CloseRepo, CloseCancel, Restart, disk
  <1>9. ASSUME NEW n \in Node,
               \/ Start(n) \/ Stop(n) \/ Ticker(n) \/ Merge(n) \/ JobEnds(n)
               \/ WatcherLeaves(n) \/ Autoclose(n)
        PROVE  TornOnlyByDeath'
    BY <1>9, <1>1 DEF Start, Stop, Ticker, Merge, JobEnds, WatcherLeaves, Autoclose, Offline,
                      StopDownloads, StoreCloses, HostCloses, disk
  <1>10. CASE MatrixEvent
    BY <1>1, <1>10 DEF MatrixEvent, disk
  <1>11. ASSUME NEW n \in Node, Recording(n) PROVE TornOnlyByDeath'
    BY <1>1, <1>11, AddsRecord DEF disk
  <1>12. CASE Halt
    BY <1>12 DEF Halt, TypeInv, Typed
  <1> QED BY <1>1, <1>2, <1>3, <1>4, <1>5, <1>6, <1>7, <1>8, <1>9, <1>10, <1>11, <1>12
          DEF Next, Calls, Opening, Closing, Recording, vars, disk

\* No interleaving of Open, Close and the threads of any repository leaves
\* the state file torn: SetState and initState under packageLock.
THEOREM TornCorrect == Spec => []TornOnlyByDeath
  <1>1. Init => TornOnlyByDeath
    BY DEF Init, TornOnlyByDeath
  <1> QED BY <1>1, LifecycleInit, LifecycleNext, TornNext, PTL DEF Spec

(* ---------------------------- the flushed matrix --------------------- *)

\* The keeper of the open datastore has all that was flushed; nodes and the
\* caller of Close use repositories that were opened, and a closed one has no
\* datastore.
MatrixInv ==
  /\ \A r \in Repo : repo[r].phase = "closed" => ds # r
  /\ \A r \in Repo : ds = r /\ repo[r].phase = "open" => diskMatrix \subseteq repo[r].matrix
  /\ \A n \in Node : node[n].phase \notin {"none", "closed"} =>
       repo[node[n].r].phase \in {"open", "closed"}

\* What a flush of a repository that was opened does.
LEMMA FlushKeeps ==
  ASSUME TypeInv, MatrixInv, NEW r \in Repo, repo[r].phase \in {"open", "closed"}, FlushOf(r),
         UNCHANGED <<ds, repo>>
  PROVE  /\ diskMatrix \subseteq diskMatrix'
         /\ \A q \in Repo : ds' = q /\ repo'[q].phase = "open" => diskMatrix' \subseteq repo'[q].matrix
  BY DEF MatrixInv, FlushOf

\* Each step keeps MatrixInv and never takes the flushed matrix back.
MatrixStep == MatrixInv' /\ diskMatrix \subseteq diskMatrix'

LEMMA MatrixStays ==
  ASSUME TypeInv, MatrixInv, UNCHANGED <<diskMatrix, ds, repo>>,
         \A n \in Node : node'[n].phase \notin {"none", "closed"} =>
           node'[n].r = node[n].r /\ node[n].phase \notin {"none", "closed"}
  PROVE  MatrixStep
  BY DEF MatrixStep, MatrixInv, TypeInv, Typed

LEMMA MatrixNext == TypeInv /\ LockInv /\ MatrixInv /\ [Next]_vars => MatrixStep
  <1> SUFFICES ASSUME TypeInv, LockInv, MatrixInv, [Next]_vars PROVE MatrixStep
    OBVIOUS
  <1>1. CASE UNCHANGED <<diskMatrix, ds, repo, node>>
    BY <1>1, MatrixStays
  <1>2. CASE OpenState
    BY <1>2 DEF OpenState, disk, held, nodes, MatrixStep, MatrixInv, TypeInv, Typed,
                      Placed, RepoType
  <1>3. CASE OpenKeeper \/ WriteKeeper
    <2>1. UNCHANGED <<diskMatrix, ds, node>> /\ pkg.r \in Repo /\ ds = pkg.r
      BY <1>3 DEF OpenKeeper, WriteKeeper, Opened, nodes, held, LockInv
    <2>2. CASE UNCHANGED repo
      BY <1>1, <2>1, <2>2
    <2>3. CASE Opened(pkg.r)
      BY <2>1, <2>3 DEF Opened, MatrixStep, MatrixInv, TypeInv, Typed, Placed, RepoType
    <2>4. CASE repo' = [repo EXCEPT ![pkg.r].phase = "failed"]
      <3>1. repo[pkg.r].phase = "new"
        BY <1>3, <2>4 DEF OpenKeeper, WriteKeeper, Opened, LockInv
      <3> QED BY <2>1, <2>4, <3>1 DEF MatrixStep, MatrixInv, TypeInv, Typed, Placed, RepoType
    <2> QED BY <1>3, <2>2, <2>3, <2>4 DEF OpenKeeper, WriteKeeper, held
  <1>4. ASSUME NEW r \in Repo, OpenLock(r) PROVE MatrixStep
    BY <1>4 DEF OpenLock, openDatastore, disk, nodes, MatrixStep, MatrixInv
  <1>5. ASSUME NEW n \in Node, Start(n) PROVE MatrixStep
    <2>1. PICK r \in Current :
            /\ repo[r].phase = "open"
            /\ node' = [node EXCEPT ![n] = [phase |-> "online", r |-> r, store |-> TRUE]]
      BY <1>5 DEF Start
    <2> QED BY <1>5, <2>1, InCurrent DEF Start, disk, held, MatrixStep, MatrixInv, TypeInv,
                                               Typed
  <1>6. ASSUME NEW r \in Repo, NEW e \in Record, AddRecord(r, e),
               UNCHANGED <<diskMatrix, ds, node>>
        PROVE  MatrixStep
    <2>1. \A n \in Node : node[n].phase \notin {"none", "closed"} => node[n].r \in Repo
      BY DEF TypeInv, Placed
    <2> QED BY <1>6, <2>1, AddRecordType DEF TypeInv, MatrixStep, MatrixInv
  <1>7. ASSUME NEW n \in Node, NEW k \in Kind, NEW tags \in Label, AddTag(n, k, tags) PROVE MatrixStep
    BY <1>7 DEF AddTag, held, MatrixStep, MatrixInv, TypeInv, Typed, Placed, RepoType
  <1>8. ASSUME NEW n \in Node, NEW k \in Kind, WriteTags(n, k) PROVE MatrixStep
    BY <1>1, <1>8 DEF WriteTags, held
  <1>9. ASSUME NEW n \in Node, Ticker(n) \/ Offline(n) PROVE MatrixStep
    <2>1. node[n].r \in Repo /\ repo[node[n].r].phase \in {"open", "closed"} /\ FlushOf(node[n].r)
      BY <1>9 DEF Ticker, Offline, HostOpen, TypeInv, Placed, MatrixInv
    <2>2. UNCHANGED <<ds, repo>>
      BY <1>9 DEF Ticker, Offline, held
    <2>3. \A m \in Node : node'[m].phase \notin {"none", "closed"} =>
            node'[m].r = node[m].r /\ node[m].phase \notin {"none", "closed"}
      BY <1>9 DEF Ticker, Offline, SetPhase, nodes, TypeInv, Typed, NodeType
    <2> QED BY <2>1, <2>2, <2>3, FlushKeeps DEF MatrixStep, MatrixInv
  <1>10. ASSUME NEW n \in Node, StopDownloads(n) \/ StoreCloses(n) \/ HostCloses(n)
         PROVE  MatrixStep
    <2>1. \A m \in Node : node'[m].phase \notin {"none", "closed"} =>
            node'[m].r = node[m].r /\ node[m].phase \notin {"none", "closed"}
      BY <1>10 DEF StopDownloads, StoreCloses, HostCloses, SetPhase, TypeInv, Typed, NodeType
    <2> QED BY <1>10, <2>1, MatrixStays DEF StopDownloads, StoreCloses, HostCloses, disk, held
  <1>11. CASE CloseFlush
    <2>1. PICK r \in Current : FlushOf(r)
      BY <1>11 DEF CloseFlush
    <2> QED BY <1>11, <2>1, InCurrent, FlushKeeps DEF CloseFlush, held, nodes, MatrixStep, MatrixInv
  <1>12. CASE CloseRepo
    <2>1. closer.r \in Repo /\ ds' # closer.r
      BY <1>12 DEF CloseRepo, NoCloser, TypeInv, Typed, None, Repo
    <2>2. \A r \in Repo \ {closer.r} : repo'[r] = repo[r] /\ (ds' = r => ds = r)
      BY <1>12, <2>1, Numbers DEF CloseRepo, TypeInv, Typed
    <2>3. repo'[closer.r].phase = "closed" /\ UNCHANGED <<diskMatrix, node>>
      BY <1>12, <2>1 DEF CloseRepo, disk, nodes, TypeInv, Typed, RepoType
    <2>4. \A n \in Node : node[n].phase \notin {"none", "closed"} => node[n].r \in Repo
      BY DEF TypeInv, Placed
    <2>5. \A r \in Repo : repo'[r].phase = "closed" => ds' # r
      BY <2>1, <2>2 DEF MatrixInv
    <2>6. \A r \in Repo : ds' = r /\ repo'[r].phase = "open" => diskMatrix' \subseteq repo'[r].matrix
      BY <2>1, <2>2, <2>3 DEF MatrixInv
    <2>7. \A n \in Node : node'[n].phase \notin {"none", "closed"} =>
            repo'[node'[n].r].phase \in {"open", "closed"}
      BY <2>2, <2>3, <2>4 DEF MatrixInv
    <2> QED BY <2>3, <2>5, <2>6, <2>7 DEF MatrixStep, MatrixInv
  <1>13. CASE Die
    BY <1>13, Numbers DEF Die, disk, NewRepo, GoneRepo, NoNode, GoneNode, MatrixStep, MatrixInv
  <1>14. CASE InitConfig \/ CreateState \/ WriteFreshState \/ CloseCancel \/ Restart
    BY <1>1, <1>14 DEF InitConfig, CreateState, WriteFreshState, CloseCancel, Restart, disk, held,
                       nodes
  <1>15. ASSUME NEW n \in Node,
                Stop(n) \/ Merge(n) \/ JobEnds(n) \/ WatcherLeaves(n)
         PROVE  MatrixStep
    BY <1>1, <1>15 DEF Stop, Merge, JobEnds, WatcherLeaves, disk, held
  <1>16. CASE UNCHANGED vars
    BY <1>1, <1>16 DEF vars, disk, held, nodes
  <1>17. ASSUME NEW n \in Node, Recording(n) PROVE MatrixStep
    BY <1>6, <1>17, AddsRecord DEF disk, held
  <1>18. CASE MatrixEvent
    BY <1>6, <1>18, InCurrent DEF MatrixEvent, Record, disk, held, nodes
  <1> QED BY <1>2, <1>3, <1>4, <1>5, <1>7, <1>8, <1>9, <1>10, <1>11, <1>12, <1>13, <1>14, <1>15,
             <1>16, <1>17, <1>18
          DEF Next, Calls, Opening, Closing, Autoclose, Working, Recording, Halt, OpenPanics,
              ConnectedPanics

\* Nothing flushed is lost from the flushed matrix, however many nodes of
\* closed and open repositories flush late, and whichever repository the
\* callbacks record into: matrix.flush, NewMatrixKeeper and FSRepo.Close.
THEOREM MatrixCorrect == Spec => MatrixNeverRegresses
  <1>1. Init => LockInv /\ MatrixInv
    BY DEF Init, LockInv, LockedWhileOpen, MatrixInv, Free, NewRepo, NoNode
  <1>2. MatrixStep => MatrixInv' /\ [diskMatrix \subseteq diskMatrix']_vars
    BY DEF MatrixStep
  <1> QED BY <1>1, <1>2, LifecycleInit, LifecycleNext, LockNext, MatrixNext, PTL
          DEF Spec, MatrixNeverRegresses
=============================================================================
