# A verification project for datahop ipfs-lite

TLA+ specifications of the datahop node in `src/` (Go), TLC configurations that check them on small instances, and
proofs that TLAPS checks for every value of the constants. `PROJECT.json` is the index: components, runs, the lines
each definition models (`map`), hazards, findings and theorems.

## 1. The system

A datahop node is an IPFS node without a daemon's pinning and garbage collection. It adds files under *tags*, keeps the
table of tags in a replicated key-value store, and downloads what other nodes tagged. On phones, nodes find each other
over BLE and compare bloom filters of their tags to decide whether a wifi connection is worth making.

| component | state | operations | talks to |
|---|---|---|---|
| content replication (`internal/replication/replication.go`, part of `matrix.go`, `repo.go`) | the store's view of the tags, filter and state file, download goroutines and their tasks, content matrix | `Tag`, `FindTag`, `Delete`, `PutHook`, `DeleteHook`, `StartContentWatcher`, `DownloaderTask.Execute`, `StartUnfinishedDownload` | hooks called by go-ds-crdt inside a merge; a channel from hook to watcher; callbacks of the download manager; the connection notifier |
| replicated store (go-ds-crdt, external) | put and delete deltas merged, with priorities | merge, hooks, get, query | pubsub and bitswap between connected nodes |
| group replication (`group_replication.go`, `repo/state.go`, group branches of `replication.go`) | groups, members, group index as keys of the store; `StateKeeper` and its file | `CreateGroup`, `CreateOpenGroup`, `GroupAddMember`, `GroupAddContent`, group branches of `PutHook` and of the watcher | the same hooks, locks and watcher |
| content store (`pkg/store/ipfs`, `internal/ipfs/ipfs.go`, `util.go`) | blockstore; calls under way | `Add`, `AddDir`, `Get`, `Delete`, `DeleteFile`, `Download` | block service and bitswap; `Tag`/`Delete` of the manager |
| directory adder (`internal/ipfs/adder.go`) | an MFS root, buffered blocks and a count of live nodes while a directory is added | `AddAll`, `addFileNode`, `addDir`, `add` | DAG service, go-mfs |
| repository and node lifecycle (`repo.go`, `state.go`, `pkg/common.go`, `start.go`, `ipfs.New`, `autoclose`) | lock file, `packageLock`, open/closed, config, state file, datastore, context of a node | `Init`, `Open`, `Close`, `Start`, `Stop`, `autoclose` | everything that holds the repo |
| node matrix (`internal/matrix/matrix.go`) | per peer: discovery and connection times, histories | `BLEDiscovered`, `WifiConnected`, `NodeConnected`, `NodeDisconnected`, ticker, `Flush` | network notifier and BLE callbacks |
| mobile advertising (`mobile/datahop.go`, `discovery.go`) | advertised filter, stop signal, routines | `StartDiscovery`, `StopDiscovery`, `AddAdvertisingInfo`, called by a routine, `Add`, `GroupAdd` | BLE drivers, the filter of the repository |
| mobile discovery and state watcher (same files) | `isHost`, `connected`, wifi and hotspot | driver callbacks, the CRDT state watcher | BLE/wifi drivers, floodsub |
| mobile API, command line, daemon (`mobile/datahop.go`, `cli/`) | one shared command tree, one global `hop` | commands and API calls, a goroutine per client | the node |
| networking, gateway, encryption, configuration | - | set-up of libp2p, an HTTP handler, a cipher, key generation | libraries |

What is hard about it:

* **Interleaving.** A merge runs `PutHook` in the middle of its commit; the watcher's goroutine and the task it queued
  update one matrix entry from two threads; `DeleteHook` updates the filter outside the lock everyone else takes; calls
  of several clients add and delete blocks that contents share; a phone's routine and its API calls advertise at once;
  the state watcher's mutex is not the one of the driver callbacks; threads of a closed repository run on beside the
  next one.
* **Ordering.** Puts and deletes reach nodes in any order: a tombstone before its put, an index key before the
  membership that makes it interesting, two puts of one tag in opposite orders.
* **Deaths.** The filter, its file, the keeper's file, the matrix flush and the commit of a put are separate steps; both
  files are truncated before they are rewritten.
* **Failure and retry.** A failed download is retried by nothing but the next connection. Wifi links fail, break and are
  asked for twice. A directory is walked with its memory freed in between, and the walk may fail deep in the tree.
* **Shutdown.** `Close` waits for nobody, and `autoclose` for some: a merge in its hook, or a `Connected` callback that
  resumes downloads, can wait for a watcher that left. Nodes of a closed repository go on beside the next one, and their
  callbacks record into whichever repository is behind `hop.comm`.

What makes it right: a filter shows only what the node held; a finished entry is a held content; no remote content is
forgotten; a tag spreads in the end; a member's group state is complete however its keys arrived; nobody else keeps a
state of a group; an added content stays whole until somebody deletes a content with a common block; a phone that
discovers goes on advertising its current filter, knows of its hotspot and parts from phones that have the same; an
added directory is all that was visible; the datastore has one owner, files are torn by deaths only, and nothing that
was flushed is lost from the flushed matrix; what the matrix says of peers agrees with their connections; a node that is
told to stop is closed.

## 2. The modules

| module | what it is | code |
|---|---|---|
| `ReplicatedContent` | abstract specification: metadata from its owner, blocks from holders, tags shown only rightfully | what replication promises |
| `ContentReplication` | plain content on several nodes, thread by thread | `replication.go`, `repo.go` state file, `matrix.go` content half, `notifier` |
| `GroupReplication` | groups, members and group content | `group_replication.go`, `state.go`, group branches of `replication.go` |
| `ContentStore` | blocks, index and calls of one node | `pkg/store/ipfs/ipfs.go`, `DeleteFile`, `descendants`, `remove` command |
| `Advertising` | what one phone advertises, session after session | `StartDiscovery`, `StopDiscovery`, `AddAdvertisingInfo`, `FilterFromState` and their callers |
| `NodeMatrix` | what a phone records of its peers, and the flush | `matrix.go` node half, `notifier` |
| `Lifecycle` | opening and closing repositories, starting and stopping nodes | `repo.go`, `state.go` loading, `ipfs.New`, `autoclose`, `Manager.Close`, `pkg/start.go`, `daemon.go` |
| `Discovery` | phones that meet, link and part | `discovery.go` callbacks, state watcher and publisher of `datahop.go` |
| `Adder` | the walk that adds a directory | `adder.go`, `AddDir` |
| `MC...` | instances for TLC (`Advertising`, `NodeMatrix`, `Lifecycle` and `Discovery` need none: their constants are sets and numbers) | |
| `ContentReplicationProofs`, `GroupReplicationProofs`, `ContentStoreProofs`, `AdvertisingProofs`, `NodeMatrixProofs`, `LifecycleProofs`, `DiscoveryProofs`, `AdderProofs` | theorems on the module of that name | |

The components interact through operations that several modules have, each in the detail that its properties need:
`SetState` is a step of two halves in `ContentReplication` and in `Lifecycle`, where threads of several repositories
contend for it; `NodeMatrix` and `Lifecycle` both have the flush, one with its two `Put`s and one with the datastore
closing under it; `Advertising` has the filter a phone advertises, `Discovery` what two phones do when filters differ.

### ContentReplication

A node's store is `merged` (put deltas) and `dels` (the sets of puts that delete deltas tombstone); `height` gives the
priority that orders puts of one key. The merge of a put that wins its key runs `PutHook` (`hook`), which either adds
the tag to `filter` and rewrites `stateFile`, or hands the metadata to the watcher (`Spawn`), and then commits
(`HookCommit`). A job in `jobs` is a goroutine of `StartContentWatcher` (`g`) with its `DownloaderTask` (`t`); the two
run concurrently. `matrix` is `ContentMatrix`, keyed by hash, `disk` its last flush. `State().Add` and `SetState` are
two steps with the file `torn` in between; `FileFree` is `packageLock`. `DeleteHook` is three steps, of which the first
reads the filter's words (`seen`) and the second stores them: the unsynchronised `bloom.Add` may lose its own update or
the one it raced with. A goroutine whose task the download manager refuses returns (`TaskRefused`, where `Refuses`) and
leaves an entry without a tag, which no scan can resume. `Meet` is the two `Connected` callbacks, `ResumeVisit` one
iteration of `StartUnfinishedDownload`. `Halt` may come between any two steps; `Restart` is `Open`, and has no step from
a torn file.

`blocks` holds a hash when the whole content is local; `obtained` is history (every hash ever held) because the
properties speak of what a node *held*: deleting content does not take its tag out of a bloom filter. Block by block,
adding and deleting is `ContentStore`'s subject.

### GroupReplication

Keys are put records of three kinds. `MemberHook`, `IndexHook` and `MetaHook` are the branches of `PutHook`;
`AddOrUpdateState` and `saveStates` are the two halves of the keeper's update, with `KeeperFree` its mutex. The parts
that `ContentReplication` models in detail are coarser here (the module's header lists them): the plain filter and its
file are one step, so is a goroutine up to its download. `DownloadFails` stands for a refused task as well: what
`MembersGetContent` claims ends with either, and nothing obliges the scan to resume.

### ContentStore

A content is a DAG over `Block`, contents may share blocks, a call is a program counter with the blocks it has still to
write, delete or read. `descendants` is the set `DeleteFile`'s walk collects *as the code computes it* (the root and its
links). `whole` is history: contents that an `Add` completed while no `DeleteFile` of a content with a common block was
under way, until such a `DeleteFile` begins.

### Advertising

A filter is a number that grows (0 is none, `GroupFilter` one of a group). `thread` has the routines that
`StartDiscovery` started and the `Add` under way, each with the filter it has read and its place in
`AddAdvertisingInfo`: compare with `info` (`advertisingInfo[CRDTStatus]`), tell `scanInfo`, tell `advInfo`, record. The
package's mutex is held by an `Add` until it returns (`MutexFree`); a routine takes no lock. `stops` counts the
goroutines that `StopDiscovery` left blocked on the unbuffered `stopSignal`; any routine in its `select` takes one.
`StartDiscovery` may fail after its routine has started, so `on` is set or not.

### NodeMatrix

`nodes` is `NodesDiscovered`, `diskNodes` and `diskContent` are the two keys of `flush`, which `flushing` is in the
middle of. Every operation holds the keeper's mutex, so it is one step. `links` counts libp2p's connections to a peer,
for each of which `Connected` and `Disconnected` are called, but not before `Listen` (`NetworkNotifiee`). `stale`,
`missed` and `kept` are history: peers that a restart loaded as alive, peers with a connection nobody reported, and what
the last complete flush wrote. `Panic` is `NodeDisconnected` of a peer that has no entry: the code dereferences nil, and
`ConnectionsCounted` says of which connections that cannot happen.

### Lifecycle

Repositories 1, 2, ... are `FSRepo`s opened one after the other at one path, nodes 1, 2, ... the `Peer`s on them,
several at a time: nothing in `Start` waits for the node before, and one repository may have two. `pkg` is what the
holder of `packageLock` does; `lock` and `ds` are the lock file and leveldb's own lock, each with its owner. `Current`
is the repository behind `hop.comm`, `CurrentNode` its `Node`. `Close` is `CloseFlush`, `CloseRepo`, `CloseCancel`, in
the order of `Common.Stop`; `autoclose` is the phases of a node after "online".

`thread` has the merge and the download job of a node, `scan` the `Connected` callback of its host. All go on after the
repository was closed. Merges and jobs write their own repository's filter to the state file whoever is open. Callbacks
use what is current: `MatrixEvent` (`Disconnected`, BLE, wifi) and `Connected` record into the matrix of `Current`, with
or without a node, and `Connected` has the manager of `CurrentNode` scan its entries. What the scan finds it sends on
that manager's unbuffered channel (`Resume`), without a look at any context, and `Host.Close` of the callback's host
waits for it (`HostCloses`). If there is a repository and no node yet, the callback dereferences nil
(`ConnectedPanics`). A state file that a death left torn makes the next `Open` panic (`OpenPanics`); a torn keeper file
makes it fail with the datastore open.

### Discovery

One phone is the wifi host, the others are clients. `pending` is the queue of callbacks that the wifi driver of a client
has yet to make. What is assumed of the driver (external code, seen from `discovery.go` only): it hands its callbacks to
a phone one at a time, and reports the end of every link and of every attempt that it was asked for. BLE reports phones
whose filters differ: to a host in two steps, `PeerReported` and, with the package's mutex,
`AdvertiserPeerDifferentStatus`, between which `called` has the client and discovery may stop. `passed` counts the
callers that have read `connected` before the lock. `told` is what a publisher read ten seconds ago and will send next.
The package's mutex is `starting` and `closing`; the state watcher does not take it, because the `mtx` it locks
(`datahop.go:398`) is a new one. Limits of the code that the module reaches and no property forbids: a watcher's `isHost
= false` may come between the check and the assignment of a callback, so that `isHost` stays true with the hotspot down
until `StopDiscovery`; a `Start` of the hotspot that fails does the same; phones may part on an old state; a hotspot may
start after `StopDiscovery` and stays until the next; and of several clients linked to one host, those that lost
`connected` stay.

### Adder

A tree is a function from paths to kinds, `mfs` the directory in memory, `flushed` what its stored root stands for,
`buffer` and `stored` the blocks in `bufferedDS` and in the blockstore. `dirs` is the stack of calls of `addDir`.
`addFileNode` flushes and drops the memory at `LiveCacheSize`. A hash stands for what it is computed from, so equal
trees have equal roots, and the root that is returned is compared with that of the tree that should have been added.

## 3. The runs

| run | instance | shows |
|---|---|---|
| `ReplicationFaults` | 2 nodes, 1 content, 2 deaths, 1 failed download, refused tasks, 1 delete; 314 202 states | `TypeOK`; `AdvertisedWasHeld` and `FinishedWasHeld` (filter, state file, matrix and its flush are about content that was held); `OwnTagsShown`; `Implements` (every step is one of `ReplicatedContent`) |
| `ReplicationDownloads` | 2 contents of one tag, one of them a directory, 2 jobs at once, 1 failure, fair; 6 178 | `NoLostDownload`: a winning remote content is shown, on its way, or found again by the next connection; `EveryTagSpreads`: a tagged file is in the end shown everywhere |
| `ReplicationDeleteHook` | 2 tags, 1 delete | violation of `OwnTagsShown` |
| `GroupMembers` | open group, 2 members, a content of each, 1 death, 1 failure; 512 817 | `TypeOK`; `MemberStateComplete`; `NonMembersBlind`; `MembersAgree` |
| `GroupDownloads` | private group, plain content of the same tag, 1 failure, fair; 37 972 | `MembersGetContent` |
| `StoreClients` | 2 clients, 2 tags, a DAG of two levels and one that shares its leaf; 201 219 | `TypeOK`; `WholeUntilDeleted` |
| `AdvertisingSessions` | 2 routines at a time, 3 sessions, 2 filters and a group's, fair; 103 543 | `TypeOK`; `RoutineRuns`: no pending stop signal can end the routine of a running session; `InfoCatchesUp`: the recorded filter becomes the node's |
| `MatrixPeers` | 2 connections to a peer at once, 2 flushes, 1 death; 2 517 801 | `TypeOK`; `AliveIsOpen`, `ConnectionsCounted`, `HistoryOrdered`: flags, counts and times agree with the connections there were; `FlushedSurvives` |
| `LifecycleFiles` | 2 repositories, 2 nodes with a merge each, 1 death; 1 166 779 | `TypeOK`; `LockedWhileOpen`; `TornOnlyByDeath`; `MatrixNeverRegresses`: what was flushed stays flushed, however late the nodes of a closed repository flush |
| `LifecycleStops` | 1 repository, 2 nodes, the first with a merge, a download and a `Connected` callback, fair; 184 294 | `StopEnds`: a node that is told to stop is closed, unless a merge or a callback waits for a watcher that has left |
| `DiscoveryMeets` | a host and a client with a state watcher each, a discovery that races the one before, fair; 488 376 | `TypeOK`; `NoOrphanHotspot`; `ConnectedHasLink`; `LinksEnd`: phones with the same state part |
| `AdderTrees` | every tree of two levels, memory for 2 nodes; 27 960 | `TypeOK`; `MirrorsTree` and `RootIsWhole`: `AddDir` returns the root of what is visible, with every block stored; `Returns` |

Every property of a passing run is broken by the mutant `PROJECT.json` names for it, a plausible bug in the code that
the mutated definition models.

**The violation** of `ReplicationDeleteHook` is a disagreement between the code and what the repository says of it:
every tag in the store "should in bloom" (`ipfs_test.go:379`); `DeleteHook`'s unlocked add loses one. In
`ReplicationFaults` the property holds because its one tag cannot be put while its own delete runs; with two tags it
can.

**Limits of the code that properties are stated around.** The models reach all of these:

* `StartUnfinishedDownload` finds a download by the one tag of an entry keyed by hash, and only under the plain key:
  `NoLostDownload` is about contents that differ (of two tags with one hash, the second overwrites the entry of the
  first), and `MembersGetContent` about group content whose download has not failed. Both, and `EveryTagSpreads`, are
  about managers that refuse no task (`Refuses`).
* After the watcher has left on `ctx.Done`, `PutHook` (`replication.go:164`) and `StartUnfinishedDownload`
  (`replication.go:335`) block on unbuffered channels: the merge, or the `Connected` callback, never ends, `autoclose`
  waits for it and `Stop` for `autoclose`. `StopEnds` excepts these two waits (`Stuck`) and says that nothing else keeps
  `autoclose` from its end.
* A thread of a closed repository may write an old filter over the file of the next one, whole: the next `SetState`
  repairs it, and no property is about the time in between.
* `getLinks` (`ipfs.go:603`) ignores the block it is asked about, so that `DeleteFile` leaves the blocks below the
  root's children: `WholeUntilDeleted` is about what a `DeleteFile` takes, and nothing claims that it takes all.
* An `AddAdvertisingInfo` of a routine that compares before and records after one of `Add` leaves the record with one
  filter and the drivers with another: `InfoCatchesUp` is about the record.
* A driver's report that waited for the mutex while `StopDiscovery` had it starts the hotspot afterwards
  (`discovery.go:207`): `NoOrphanHotspot` says that the phone knows of it, so that the next `StopDiscovery` ends it.
* `LinksEnd` is about a client that is alone with the host.

**Bounds.** `MaxHalts`, `MaxFails`, `MaxDeletes`, `MaxFilter`, `MaxStarts`, `MaxStray`, `MaxOpens`, `Busy`, `Followed`,
`MaxLinks`, `MaxTime`, `MaxFlushes`, `MaxConnects`, `MaxWatchers`, `MaxCallers`, `MaxPending`, `Slots` and `Reserved`
are guards of the models. Two nodes suffice for what the properties say of pairs (owner and downloader, two members);
two contents are what it takes to contend for a tag, an entry or a filter word; two deaths let a node die, recover and
die again, or both die; one failed download leaves an entry to resume, and several failures repeat that. Two jobs at
once are in `ReplicationDownloads`; with deaths they would multiply the states and only repeat threads that share no
state but the file. Three sessions of discovery let a third begin when one of two waiting stop signals has been received
and the other has not; `MaxStray = 0` keeps to callers that stop only what they started: a stray `StopDiscovery` does
end the next session's routine, and no document promises anything of it. `Reserved = 1` keeps a job free for a merge
while a scan resumes downloads, so that the limit on jobs, which is the model's and not the code's, blocks nobody. Two
connections to a peer are what it takes for one to end while the other goes on, three seconds to put a discovery, a
connection and its end at different times, two flushes to lose one that was complete. Two repositories and two nodes let
a node of a closed repository flush and write beside its successor, with threads in both (`Busy`); `AutoDownload` is off
in `LifecycleFiles`, since a job does to the files what a merge does. In `LifecycleStops` one repository is enough, as
`autoclose` waits for nothing that a second one has; the second node is there because a callback may wait for the
watcher of another node than its host's, and may be served by it. A matrix has one entry of each kind (`Record`): a lost
one is seen. `LifecycleStops` follows no tags and of the records only the contents (`Followed`), which are what a scan
finds. `called` has one caller for a client, `scan` one for a host. `MaxCallers = 1` is one caller between the test of
`connected` and the lock; the next may get there as soon as the first has called `Connect`, before any of its callbacks,
which is the race, and `ConnectedCorrect` has any number. One client is what `LinksEnd` is about; the other properties
of `Discovery` are proved for any number. Two levels of a tree with a memory of two nodes have a flush at every point of
the walk. The theorems cover every larger instance of the safety properties they name.

**Deadlock** is not checked in `ReplicationFaults`, `GroupMembers`, `GroupDownloads` and the runs of `Lifecycle`: a
death while a state file is being rewritten leaves it empty, and such a node never opens again (`repo.go:119`,
`state.go:80`), in `Lifecycle` the last repository may be closed, and in `GroupDownloads` all work comes to an end. Nor
is it in `AdvertisingSessions`, where a phone may be at rest after its last session. The other runs check it.

**Fairness.** Weak fairness of threads: goroutines that can run do run, and a merge that has begun goes on. Strong
fairness where a thread waits for a mutex that others take and release (`CallbackAdd`, `GroupCallback`: a Go mutex does
not starve a waiter), for a connection that comes and goes (`MergePut`, `Fetch`: go-ds-crdt rebroadcasts its heads and
bitswap asks again on every connection) or for a receiver on the unbuffered channel (`ResumeVisit`). `Meet` and `Part`
are fair: phones keep meeting. In `Advertising`, goroutines that
can go on do and a routine's timer fires. In `Lifecycle`, an `Open` that has begun and each thread go on (strongly where
they wait for `packageLock`), downloads end, watchers leave when their context is done, and a callback whose watcher can
receive again and again is received in the end (`Resume`); no merge is assumed to come, no watcher to take one, and a
`Close` may stop half way. In `Discovery`,
callbacks that are due are made, watchers go on, and publishers, which send every ten seconds, reach phones that stay
linked in the end; nothing makes BLE report a phone, a link come up or break. In `Adder`, the walk goes on. Nothing is
assumed of `AddFile`, `FetchFails`, `Flush`, `Halt`, `Grow`, `AddContent` or of the calls of an application.

## 4. What is proved

Every safety invariant and every action property of the passing runs is a theorem, for every value of the constants. No
assumption is made beyond the named `ASSUME`s on constants (types of the fields of a content, bounds in `Nat`, what is
above an entry of a tree is a directory), which TLC evaluates in every run, and the hypotheses named below.

* **Types.** `TypeCorrect`, `GroupTypeCorrect`, `StoreTypeCorrect`, `AdvertisingTypeCorrect`, `MatrixTypeCorrect`,
  `LifecycleTypeCorrect`, `DiscoveryTypeCorrect`, `AdderTypeCorrect`: `Spec => []TypeOK`, one step per action. In
  `Lifecycle` this needs `Placed`: nodes that are open and threads that work have a repository.
* **`FinishedCorrect`**, from `SafeCorrect`. `FinishedWasHeld` is not inductive: `SafeInv` adds where content comes
  from. Whoever merged a put, its owner merged it before and stored the content (`OwnerHas`); a merge in its hook is the
  owner's or one the owner has (`HookOK`); a task past `Download` has the blocks (`JobsOK`).
* **`AdvertisedCorrect`** (with `AutoDownload`: without it `PutHook` shows a tag when it is merged), from
  `ShownCorrect`. `ShownInv` adds that a process that is down has no
  memory (`DownIdle`), and that the words `DeleteHook` loaded are still set when it stores its own (`SeenOK`): its race
  loses labels and never makes one.
* **`OwnTagsCorrect`** (`MaxDeletes = 0`). `OwnInv` follows a tag from filter to state file to commit (`OwnHook`,
  `OwnMerged`) and says the file is part of the filter (`InFile`). Without the hypothesis it is false, as
  `ReplicationDeleteHook` shows.
* **`DownloadsCorrect`**: `NoLostDownload`, with `AutoDownload`, no refused tasks, `MaxDeletes = 0` and no two records
  with one root; `LoneDownloadsCorrect` is the same of each record whose root is its own (`Alone`), whatever the others
  share. `TrackInv` follows a content from the hook on. Whoever won its tag, or is in the hook, is in a job or has an
  entry with its tag (`Handed`); a goroutine is over only when the entry has the tag, although its task may be over
  before (`JobTracked`); a finished entry is shown, or its callback is about to show it (`DoneShown`). A put that loses
  at its merge never wins later, which needs that heights of merged puts are final (`Fresh`: what is being added is in
  no store) and that nothing is deleted. TLC finds a lost download without each of the hypotheses: without
  `AutoDownload` a remote tag is shown and never fetched; a refused task leaves an entry without a tag; where two
  records share a root the tag of one replaces the other's in the entry, or one job finishes the entry of another; a put
  that lost wins its tag when the winner is deleted, and no hook runs.
* **`ImplementsCorrect`** (with `AutoDownload`): `ContentReplication` implements `ReplicatedContent` under
  `held <- obtained, known <- merged, shown <- Shows`. Each step maps to one abstract step or a stutter, using `SafeInv`
  for who has what and `ShownInv` for rightful tags.
* **`MemberStateCorrect`**: a member's group state is complete. `MemberInv`: the keeper's file equals its memory unless
  it is being written (`FileOK`); `PutHook` did its part before a put is committed (`HookDone`); both hold over a death
  (`OnDisk`, `Stopped`).
* **`BlindCorrect`** and **`AgreeCorrect`**: only members keep a group's state, and members that merged the same
  contents agree on it. `OriginInv` says where a node's threads and its keeper have a state from: a keeper, a download
  of group content and a hook that hands one on belong to a member; while nothing died, a tag in the keeper or a job is
  that of a put that was merged or is in the hook (`Having`). With `MemberInv` (nothing is missing) equality follows.
* **`RoutineCorrect`**. `Counted`: unless something was stopped twice, there are as many routines as waiting stop
  signals, and one more while discovery is on. It counts over all routines because any of them takes any signal.
* **`WholeCorrect`**: `StoreInv` adds that no `DeleteFile` under way threatens a whole content (`Unthreatened`), that an
  undisturbed `Add` has every block it has written (`CleanAdds`), and that a `DeleteFile` only removes what its walk
  found (`Walked`).
* **`NodeMatrix`**: all five invariants of its run. `AliveInv`: before the notifier is registered only what a restart
  loaded is alive. `CountedInv` says of the flushed half what `ConnectionsCounted` says of memory, so that a restart
  keeps it. `TimesInv` (`EntryAt`): no time recorded, in memory or on disk, is after the clock, and no discovery after
  the connection it led to. `FlushInv`: in the middle of a flush the first key is what is in memory, and until both keys
  are there nothing counts as flushed.
* **`Lifecycle`**: its three invariants (`LifecycleTypeCorrect`, `LockCorrect`, `TornCorrect`) and the action property
  (`MatrixCorrect`). `LockInv` adds that whoever is inside `open` past the lock has lock and datastore;
  `TornOnlyByDeath` is inductive given types; `MatrixInv` adds that the keeper of the open datastore has all that was
  flushed, that a closed repository has no datastore, so that a late flush of its node fails, and that nodes use
  repositories that were opened. Several nodes may be on one repository or on both, and events go to either matrix.
* **`Discovery`**: types with the package mutex, `NoOrphanHotspot` and `ConnectedHasLink`, for every set of clients and
  number of watchers. `HotspotInv` adds that a `close` under way has stopped the hotspot. `LinkInv` says what
  `connected` will be when the last pending callback has run (`WillBe`): true only with a link.
* **`Adder`**: `MirrorCorrect` and `RootCorrect`, for trees of any depth and width and every size of the cache.
  `AddInv`: the stack is the path to where the walk is (`StackOK`, `StepOK`); the memory is a part of the visible tree,
  whose files are whole in the blockstore (`MirrorOK`); and whatever is visible and not in memory is at or below the
  node in hand or an entry still to do (`Covered`), so that nothing is missing when the stack is empty. A step down
  needs `StepDown` (what is below a directory is at or below an entry of it) and `LeafAlone`, lemmas on prefixes that
  replace an induction over the tree. A single file is put beside an empty root (`LeafOK`).

**Only model-checked:** `EveryTagSpreads`, `MembersGetContent`, `InfoCatchesUp`, `StopEnds`, `LinksEnd` and `Returns`
(liveness is out of the prover's reach). Induction over data is out of reach too, so that `Below` of `ContentStore` is
the set of descendants is a definition, not a theorem.

## 5. What is not modelled

* Number of providers, sizes, speeds, encryption, formats of keys and values, logging.
* An error of the datastore in the middle of an operation; go-ds-crdt's heads, repair and rebroadcast.
* A group content that was merged before a node became a member is never downloaded there: `GroupReplication` shows
  that, and `MembersGetContent` is stated for content merged later, as no document promises more.
* The daemon's loop over the clients of its socket (`cli/datahop.go`): a goroutine for each, all with one command tree
  of cobra, whose flags and output one client may replace under another. No document promises anything to several
  clients at once.
* `ipfs.New` that fails half way, an error of `Flush` or of the datastore's `Close`.
* A phone that is host and client at once, errors of pubsub, and what the drivers of a device do inside.
* Networking set-up (libp2p, DHT, zeroconf, `Bootstrap`, `Connect`): calls into libraries with no state of the program's
  own; the models have who is connected to whom. Gateway, cipher, configuration, generated code: no behaviour over time.

## 6. What could come next

In order of what it would add: an abstract specification of a member's
view of a group that `GroupReplication` refines; `Discovery` with two clients for the liveness of several links; the
composition of `Advertising` with `Discovery`, whose BLE reports then compare the advertised filters instead of the
current ones; the daemon's command tree.
