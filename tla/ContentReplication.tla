------------------------- MODULE ContentReplication -------------------------
(***************************************************************************)
(* Replication of plain (non-group) content between datahop nodes:         *)
(* internal/replication/replication.go, the part of internal/matrix that   *)
(* tracks downloads, and the bloom filter that internal/repo persists.     *)
(*                                                                         *)
(* A node that adds content stores its blocks, then tags it: a put delta   *)
(* of a replicated key-value store (go-ds-crdt, external). A node that     *)
(* merges the delta runs PutHook, which either records the tag in the      *)
(* node's filter at once or hands the metadata to the content watcher,     *)
(* whose goroutine and download task fetch the blocks and record the tag.  *)
(* Filter and state file are written under syncMtx and packageLock, except *)
(* by DeleteHook, which does not take syncMtx.                             *)
(*                                                                         *)
(* Bounds, all in guards: MaxHalts process deaths, MaxFails failed         *)
(* downloads, MaxDeletes delete deltas, Slots concurrent download          *)
(* goroutines of a node, of which a resume scan leaves Reserved to merges, *)
(* one DeleteHook of a node at a time.                                     *)
(***************************************************************************)
EXTENDS Naturals, FiniteSets

CONSTANTS
  Node,          \* the peers
  Content,       \* content metadata records; positive, ordered as their JSON bytes
  Tag, Hash,     \* keys of the store, root CIDs
  TagOf, HashOf, OwnerOf,   \* the fields of a ContentMetatag
  Directory,     \* content whose root is a UnixFS directory
  AutoDownload,  \* the autoDownload option of replication.New
  Refuses,       \* dlManager.Go may return an error
  Slots, Reserved, MaxHalts, MaxFails, MaxDeletes

None == 0

ASSUME ContentAssumption ==
  /\ Content \subseteq Nat \ {None} /\ IsFiniteSet(Content)
  /\ TagOf \in [Content -> Tag]
  /\ HashOf \in [Content -> Hash]
  /\ OwnerOf \in [Content -> Node]
  /\ Directory \subseteq Content

ASSUME TagAssumption == "" \notin Tag

ASSUME BoundAssumption ==
  MaxHalts \in Nat /\ MaxFails \in Nat /\ MaxDeletes \in Nat

ASSUME OptionAssumption == AutoDownload \in BOOLEAN /\ Refuses \in BOOLEAN

VARIABLES
  up,         \* [Node -> BOOLEAN]: the process runs
  linked,     \* pairs of nodes with a connection, as a symmetric relation
  height,     \* [Content -> Nat]: CRDT priority of the put delta, 0 before it exists
  merged,     \* [Node -> SUBSET Content]: put deltas merged (persistent)
  dels,       \* [Node -> SUBSET SUBSET Content]: delete deltas merged (persistent)
  blocks,     \* [Node -> SUBSET Hash]: content whose whole DAG is stored (persistent)
  obtained,   \* history: every hash the node's blockstore ever held
  adding,     \* [Node -> SUBSET Content]: Add between AddFile and Manager.Tag
  doomed,     \* [Node -> SUBSET Tag]: Delete between DeleteFile and Manager.Delete
  hook,       \* [Node -> [pc, c]]: the merge that runs PutHook under putElemsMux
  delHook,    \* [Node -> [pc, t, seen]]: the merge that runs DeleteHook
  jobs,       \* [Node -> [Slots -> Job]]: the watcher's goroutines and their tasks
  resume,     \* [Node -> SUBSET Hash]: entries StartUnfinishedDownload has yet to visit
  filter,     \* [Node -> SUBSET Label]: FSRepo.state
  stateFile,  \* [Node -> SUBSET Label]: content of the state file when it is whole
  torn,       \* [Node -> BOOLEAN]: the state file is truncated and not yet rewritten
  matrix,     \* [Node -> [Hash -> Entry]]: MatrixKeeper.ContentMatrix
  disk,       \* [Node -> [Hash -> Entry]]: the flushed contentMatrixKey
  halts, fails, deletes

stored == <<merged, dels, blocks, obtained, height>>
threads == <<adding, doomed, hook, delHook, jobs, resume>>
state == <<filter, stateFile, torn>>
mat == <<matrix, disk>>
budget == <<halts, fails, deletes>>
vars == <<up, linked, stored, threads, state, mat, budget>>

(* ------------------------------ data --------------------------------- *)

\* What a filter can hold: a tag, or the string "removed " followed by it.
Label == {"tag", "removed"} \X Tag
Shown(c) == <<"tag", TagOf[c]>>

Entry == [known: BOOLEAN, tag: Tag \cup {""}, done: BOOLEAN]
NoEntry == [known |-> FALSE, tag |-> "", done |-> FALSE]

(* A goroutine of StartContentWatcher (g) and the DownloaderTask it starts *)
(* (t). g: looking for providers, then dlManager.Go done, then             *)
(* ContentDownloadStarted done. t: queued, blocks fetched, callback inside *)
(* (ContentDownloadFinished done), callback rewriting the state file.      *)
Job == {j \in [c: Content \cup {None},
                g: {"looking", "launched", "over"},
                t: {"none", "queued", "fetched", "finished", "writing", "over"}] :
          j.c = None <=> j.g = "over" /\ j.t = "over"}
NoJob == [c |-> None, g |-> "over", t |-> "over"]

Hook == {k \in [pc: {"idle", "writing", "commit"}, c: Content \cup {None}] :
           k.c = None <=> k.pc = "idle"}
DelHook == {k \in [pc: {"idle", "adding", "added", "writing"},
                    t: Tag \cup {""}, seen: SUBSET Label] : k.t = "" <=> k.pc = "idle"}
IdleHook == [pc |-> "idle", c |-> None]
IdleDelHook == [pc |-> "idle", t |-> "", seen |-> {}]

(* ---------------------- the replicated store (external) -------------- *)

Tombed(n) == UNION dels[n]
InSet(n) == merged[n] \ Tombed(n)

\* go-ds-crdt orders the puts of a key by priority, then by value.
Beats(c, d) == \/ height[c] > height[d]
               \/ height[c] = height[d] /\ c >= d

\* The put whose value Get returns for tag t: one element, or none.
FindTag(n, t) ==
  {c \in InSet(n) : TagOf[c] = t /\ \A d \in InSet(n) : TagOf[d] = t => Beats(c, d)}

\* setValue runs PutHook only for a put that is not tombstoned and wins.
HookFires(n, c) ==
  /\ c \notin Tombed(n)
  /\ \A d \in merged[n] : TagOf[d] = TagOf[c] => Beats(c, d)

Peers(n) == {m \in Node : up[m] /\ <<n, m>> \in linked}

(* --------------------------- locks and files ------------------------- *)

\* packageLock, held while SetState truncates and rewrites the state file.
\* The holders of syncMtx are inside SetState as well, DeleteHook is not.
FileFree(n) == /\ hook[n].pc # "writing"
               /\ delHook[n].pc # "writing"
               /\ \A s \in Slots : jobs[n][s].t # "writing"

\* State().Add and the O_TRUNC open of SetState, inside syncMtx.
AddToState(n, label) ==
  /\ FileFree(n)
  /\ filter' = [filter EXCEPT ![n] = @ \cup {label}]
  /\ torn' = [torn EXCEPT ![n] = TRUE]
  /\ UNCHANGED stateFile

\* The marshal and write of SetState.
WriteState(n) ==
  /\ stateFile' = [stateFile EXCEPT ![n] = filter[n]]
  /\ torn' = [torn EXCEPT ![n] = FALSE]
  /\ UNCHANGED filter

(* ------------------------------ operations --------------------------- *)

Init ==
  /\ up = [n \in Node |-> TRUE]
  /\ linked = {p \in Node \X Node : p[1] # p[2]}
  /\ height = [c \in Content |-> 0]
  /\ merged = [n \in Node |-> {}] /\ dels = [n \in Node |-> {}]
  /\ blocks = [n \in Node |-> {}] /\ obtained = [n \in Node |-> {}]
  /\ adding = [n \in Node |-> {}] /\ doomed = [n \in Node |-> {}]
  /\ hook = [n \in Node |-> IdleHook]
  /\ delHook = [n \in Node |-> IdleDelHook]
  /\ jobs = [n \in Node |-> [s \in Slots |-> NoJob]]
  /\ resume = [n \in Node |-> {}]
  /\ filter = [n \in Node |-> {}] /\ stateFile = [n \in Node |-> {}]
  /\ torn = [n \in Node |-> FALSE]
  /\ matrix = [n \in Node |-> [h \in Hash |-> NoEntry]]
  /\ disk = [n \in Node |-> [h \in Hash |-> NoEntry]]
  /\ halts = 0 /\ fails = 0 /\ deletes = 0

\* store.Add: the blocks of c enter the owner's blockstore.
AddFile(n, c) ==
  /\ up[n] /\ OwnerOf[c] = n /\ c \notin merged[n] \cup adding[n]
  /\ hook[n].c # c
  /\ blocks' = [blocks EXCEPT ![n] = @ \cup {HashOf[c]}]
  /\ obtained' = [obtained EXCEPT ![n] = @ \cup {HashOf[c]}]
  /\ adding' = [adding EXCEPT ![n] = @ \cup {c}]
  /\ UNCHANGED <<up, linked, merged, dels, height, doomed, hook, delHook, jobs,
                 resume, state, mat, budget>>

\* A slot is free again when its goroutine and its task are over.
Done(job) == IF job.g = "over" /\ job.t = "over" THEN NoJob ELSE job
SetJob(n, s, job) == jobs' = [jobs EXCEPT ![n][s] = Done(job)]
SetEntry(n, h, entry) == matrix' = [matrix EXCEPT ![n][h] = entry]

\* A send on the unbuffered contentChan meets the watcher, which starts a
\* goroutine for c in the lowest free slot. Its first step, mat.NewContent,
\* keeps an entry that exists; nothing can tell an entry without a tag from
\* no entry, so the step is taken at once.
Spawn(n, c) ==
  /\ \E s \in Slots :
       /\ jobs[n][s] = NoJob
       /\ \A r \in Slots : r < s => jobs[n][r] # NoJob
       /\ SetJob(n, s, [c |-> c, g |-> "looking", t |-> "none"])
  /\ SetEntry(n, HashOf[c], [matrix[n][HashOf[c]] EXCEPT !.known = TRUE])

\* Mutant: the tag is recorded without waiting for a download.
PutHookAtOnce(n, c) ==
  /\ AddToState(n, Shown(c))
  /\ hook' = [hook EXCEPT ![n] = [pc |-> "writing", c |-> c]]
  /\ UNCHANGED <<jobs, matrix>>

\* PutHook for a plain key, run by the merge of c before its batch commits.
PutHook(n, c) ==
  IF OwnerOf[c] # n /\ AutoDownload
  THEN /\ Spawn(n, c)
       /\ hook' = [hook EXCEPT ![n] = [pc |-> "commit", c |-> c]]
       /\ UNCHANGED state
  ELSE /\ AddToState(n, Shown(c))
       /\ hook' = [hook EXCEPT ![n] = [pc |-> "writing", c |-> c]]
       /\ UNCHANGED <<jobs, matrix>>

\* Manager.Tag: a put delta above everything merged here, processed locally.
TagContent(n, c) ==
  /\ up[n] /\ c \in adding[n] /\ hook[n] = IdleHook
  /\ \E top \in {height[d] : d \in merged[n]} \cup {0} :
       /\ \A d \in merged[n] : height[d] <= top
       /\ height' = [height EXCEPT ![c] = top + 1]
  /\ adding' = [adding EXCEPT ![n] = @ \ {c}]
  /\ PutHook(n, c)
  /\ UNCHANGED <<up, linked, merged, dels, blocks, obtained, doomed, delHook,
                 resume, disk, budget>>

\* A put delta arrives from a connected peer that has it. A put that loses
\* or is tombstoned already is merged without a hook.
MergePut(n, c) ==
  /\ up[n] /\ hook[n] = IdleHook /\ c \notin merged[n]
  /\ \E m \in Peers(n) : c \in merged[m]
  /\ \/ /\ HookFires(n, c)
        /\ PutHook(n, c)
        /\ UNCHANGED merged
     \/ /\ ~HookFires(n, c)
        /\ merged' = [merged EXCEPT ![n] = @ \cup {c}]
        /\ UNCHANGED <<hook, jobs, state, matrix>>
  /\ UNCHANGED <<up, linked, dels, blocks, obtained, height, adding, doomed,
                 delHook, resume, disk, budget>>

\* Mutant: the state file is left as it was.
HookWriteForgets(n) ==
  /\ hook[n].pc = "writing"
  /\ torn' = [torn EXCEPT ![n] = FALSE]
  /\ hook' = [hook EXCEPT ![n].pc = "commit"]
  /\ UNCHANGED <<filter, stateFile, up, linked, stored, adding, doomed, delHook, jobs,
                 resume, mat, budget>>

\* PutHook's SetState ends and syncMtx is released.
HookWrite(n) ==
  /\ hook[n].pc = "writing"
  /\ WriteState(n)
  /\ hook' = [hook EXCEPT ![n].pc = "commit"]
  /\ UNCHANGED <<up, linked, stored, adding, doomed, delHook, jobs, resume, mat, budget>>

\* The merge commits its batch; from here Get sees the put.
HookCommit(n) ==
  /\ hook[n].pc = "commit"
  /\ merged' = [merged EXCEPT ![n] = @ \cup {hook[n].c}]
  /\ hook' = [hook EXCEPT ![n] = IdleHook]
  /\ UNCHANGED <<up, linked, dels, blocks, obtained, height, adding, doomed,
                 delHook, jobs, resume, state, mat, budget>>

(* The content watcher's goroutine in slot s.                               *)
JobFrame == UNCHANGED <<up, linked, merged, dels, height, adding, doomed, hook,
                        delHook, resume, halts, deletes>>

\* FindProviders returned, and dlManager.Go queued the download task.
StartTask(n, s) ==
  /\ jobs[n][s].g = "looking"
  /\ SetJob(n, s, [jobs[n][s] EXCEPT !.g = "launched", !.t = "queued"])
  /\ UNCHANGED <<blocks, obtained, mat, state, fails>> /\ JobFrame

\* dlManager.Go returned an error: the goroutine leaves an entry without a
\* tag, which no resume scan can find in the store.
TaskRefused(n, s) ==
  /\ Refuses /\ jobs[n][s].g = "looking"
  /\ SetJob(n, s, NoJob)
  /\ UNCHANGED <<blocks, obtained, mat, state, fails>> /\ JobFrame

\* Mutant: the entry is not given its tag.
DownloadStartedNoTag(n, s) ==
  /\ jobs[n][s].g = "launched"
  /\ SetJob(n, s, [jobs[n][s] EXCEPT !.g = "over"])
  /\ UNCHANGED <<blocks, obtained, mat, state, fails>> /\ JobFrame

\* mat.ContentDownloadStarted, concurrent with the task.
DownloadStarted(n, s) ==
  LET c == jobs[n][s].c
  IN /\ jobs[n][s].g = "launched"
     /\ SetJob(n, s, [jobs[n][s] EXCEPT !.g = "over"])
     /\ SetEntry(n, HashOf[c], [matrix[n][HashOf[c]] EXCEPT !.tag = TagOf[c]])
     /\ UNCHANGED <<blocks, obtained, disk, state, fails>> /\ JobFrame

(* DownloaderTask.Execute in slot s.                                        *)

\* Bitswap waits until a connected peer, or the node itself, has the blocks.
Reachable(n, c) == \E m \in Peers(n) \cup {n} : HashOf[c] \in blocks[m]

\* syncer.Download read the whole file: every block is local.
Fetch(n, s) ==
  LET c == jobs[n][s].c
  IN /\ jobs[n][s].t = "queued" /\ c \notin Directory /\ Reachable(n, c)
     /\ SetJob(n, s, [jobs[n][s] EXCEPT !.t = "fetched"])
     /\ blocks' = [blocks EXCEPT ![n] = @ \cup {HashOf[c]}]
     /\ obtained' = [obtained EXCEPT ![n] = @ \cup {HashOf[c]}]
     /\ UNCHANGED <<mat, state, fails>> /\ JobFrame

\* Mutant: Execute goes on to the callback after an error.
FetchFailsGoesOn(n, s) ==
  /\ jobs[n][s].t = "queued" /\ fails < MaxFails
  /\ fails' = fails + 1
  /\ SetJob(n, s, [jobs[n][s] EXCEPT !.t = "fetched"])
  /\ UNCHANGED <<blocks, obtained, mat, state>> /\ JobFrame

\* syncer.Download failed: no callback, no retry.
FetchFails(n, s) ==
  /\ jobs[n][s].t = "queued" /\ fails < MaxFails
  /\ fails' = fails + 1
  /\ SetJob(n, s, [jobs[n][s] EXCEPT !.t = "over"])
  /\ UNCHANGED <<blocks, obtained, mat, state>> /\ JobFrame

\* NewDagReader fails for every directory, once its root has come.
DirectoryFails(n, s) ==
  LET c == jobs[n][s].c
  IN /\ jobs[n][s].t = "queued" /\ c \in Directory /\ Reachable(n, c)
     /\ SetJob(n, s, [jobs[n][s] EXCEPT !.t = "over"])
     /\ UNCHANGED <<blocks, obtained, mat, state, fails>> /\ JobFrame

\* The callback's mat.ContentDownloadFinished.
DownloadFinished(n, s) ==
  LET h == HashOf[jobs[n][s].c]
  IN /\ jobs[n][s].t = "fetched"
     /\ SetJob(n, s, [jobs[n][s] EXCEPT !.t = "finished"])
     /\ SetEntry(n, h, [matrix[n][h] EXCEPT !.done = TRUE])
     /\ UNCHANGED <<blocks, obtained, disk, state, fails>> /\ JobFrame

\* The callback adds the tag to the filter under syncMtx ...
CallbackAdd(n, s) ==
  /\ jobs[n][s].t = "finished"
  /\ AddToState(n, Shown(jobs[n][s].c))
  /\ SetJob(n, s, [jobs[n][s] EXCEPT !.t = "writing"])
  /\ UNCHANGED <<blocks, obtained, mat, fails>> /\ JobFrame

\* ... and its SetState ends.
CallbackWrite(n, s) ==
  /\ jobs[n][s].t = "writing"
  /\ WriteState(n)
  /\ SetJob(n, s, [jobs[n][s] EXCEPT !.t = "over"])
  /\ UNCHANGED <<blocks, obtained, mat, fails>> /\ JobFrame

(* Deleting. The root block stands for the content: the node no longer     *)
(* holds it once DeleteFile removed the root.                              *)
DeleteFile(n, t) ==
  /\ up[n] /\ t \notin doomed[n] /\ deletes < MaxDeletes
  /\ \E c \in FindTag(n, t) :
       /\ HashOf[c] \in blocks[n]
       /\ blocks' = [blocks EXCEPT ![n] = @ \ {HashOf[c]}]
  /\ doomed' = [doomed EXCEPT ![n] = @ \cup {t}]
  /\ deletes' = deletes + 1
  /\ UNCHANGED <<up, linked, merged, dels, obtained, height, adding, hook,
                 delHook, jobs, resume, state, mat, halts, fails>>

\* A delete delta enters the store: its tombstones are committed, then
\* DeleteHook starts its unlocked State().Add by loading the filter's words.
Tombstone(n, t, ids) ==
  /\ delHook[n] = IdleDelHook
  /\ dels' = [dels EXCEPT ![n] = @ \cup {ids}]
  /\ delHook' = [delHook EXCEPT ![n] = [pc |-> "adding", t |-> t, seen |-> filter[n]]]

\* Manager.Delete tombstones the puts of the tag that are in the set.
DeleteTag(n, t) ==
  LET ids == {c \in InSet(n) : TagOf[c] = t}
  IN /\ up[n] /\ t \in doomed[n]
     /\ doomed' = [doomed EXCEPT ![n] = @ \ {t}]
     /\ IF ids = {} THEN UNCHANGED <<dels, delHook>> ELSE Tombstone(n, t, ids)
     /\ UNCHANGED <<up, linked, merged, blocks, obtained, height, adding, hook,
                    jobs, resume, state, mat, budget>>

MergeDelete(n, t) ==
  /\ up[n]
  /\ \E m \in Peers(n) : \E ids \in dels[m] \ dels[n] :
       /\ \A c \in ids : TagOf[c] = t
       /\ Tombstone(n, t, ids)
  /\ UNCHANGED <<up, linked, merged, blocks, obtained, height, adding, doomed,
                 hook, jobs, resume, state, mat, budget>>

\* Mutant: the bare key name is added.
DelHookAddNoPrefix(n) ==
  /\ delHook[n].pc = "adding"
  /\ filter' = [filter EXCEPT ![n] = @ \cup {<<"", delHook[n].t>>}]
  /\ delHook' = [delHook EXCEPT ![n].pc = "added"]
  /\ UNCHANGED <<up, linked, stored, adding, doomed, hook, jobs, resume,
                 stateFile, torn, mat, budget>>

\* DeleteHook's Add stores its words. If another Add ran in between, one of
\* the two updates of a shared word can be lost.
DelHookAdd(n) ==
  LET label == <<"removed", delHook[n].t>>
      seen == delHook[n].seen
      results == {filter[n] \cup {label}}
                 \cup (IF seen = filter[n] THEN {} ELSE {seen \cup {label}, filter[n]})
  IN /\ delHook[n].pc = "adding"
     /\ \E f \in results : filter' = [filter EXCEPT ![n] = f]
     /\ delHook' = [delHook EXCEPT ![n].pc = "added"]
     /\ UNCHANGED <<up, linked, stored, adding, doomed, hook, jobs, resume,
                    stateFile, torn, mat, budget>>

\* DeleteHook's SetState, which waits for packageLock only.
DelHookTruncate(n) ==
  /\ delHook[n].pc = "added" /\ FileFree(n)
  /\ torn' = [torn EXCEPT ![n] = TRUE]
  /\ delHook' = [delHook EXCEPT ![n].pc = "writing"]
  /\ UNCHANGED <<up, linked, stored, adding, doomed, hook, jobs, resume,
                 filter, stateFile, mat, budget>>

DelHookWrite(n) ==
  /\ delHook[n].pc = "writing"
  /\ WriteState(n)
  /\ delHook' = [delHook EXCEPT ![n] = IdleDelHook]
  /\ UNCHANGED <<up, linked, stored, adding, doomed, hook, jobs, resume, mat, budget>>

(* Connections, the matrix ticker, process death and restart.               *)

\* Mutant: a connection does not resume downloads.
MeetOnly(n, m) ==
  /\ up[n] /\ up[m] /\ n # m /\ <<n, m>> \notin linked
  /\ linked' = linked \cup {<<n, m>>, <<m, n>>}
  /\ UNCHANGED <<up, stored, threads, state, mat, budget>>

\* Two running nodes connect: both run notifier.Connected, which starts
\* StartUnfinishedDownload over the matrix.
Meet(n, m) ==
  /\ up[n] /\ up[m] /\ n # m /\ <<n, m>> \notin linked
  /\ linked' = linked \cup {<<n, m>>, <<m, n>>}
  /\ resume' = [k \in Node |-> IF k \in {n, m}
                               THEN resume[k] \cup {h \in Hash : matrix[k][h].known}
                               ELSE resume[k]]
  /\ UNCHANGED <<up, stored, adding, doomed, hook, delHook, jobs, state, mat, budget>>

Part(n, m) ==
  /\ <<n, m>> \in linked
  /\ linked' = linked \ {<<n, m>>, <<m, n>>}
  /\ UNCHANGED <<up, stored, threads, state, mat, budget>>

\* One iteration of StartUnfinishedDownload's loop: an unfinished entry whose
\* tag is found is sent to the watcher, any other is passed over.
ResumeVisit(n, h) ==
  LET found == IF matrix[n][h].done THEN {} ELSE FindTag(n, matrix[n][h].tag)
  IN /\ h \in resume[n]
     /\ Cardinality({s \in Slots : jobs[n][s] = NoJob}) > Reserved
     /\ resume' = [resume EXCEPT ![n] = @ \ {h}]
     /\ IF found = {} THEN UNCHANGED <<jobs, matrix>> ELSE \E c \in found : Spawn(n, c)
     /\ UNCHANGED <<up, linked, stored, adding, doomed, hook, delHook, state, disk, budget>>

\* The 30 s ticker, Stop and Close flush the matrix. Nothing but a restart
\* reads the result, so no flush follows the last halt.
Flush(n) ==
  /\ up[n] /\ halts < MaxHalts /\ matrix[n] # disk[n]
  /\ disk' = [disk EXCEPT ![n] = matrix[n]]
  /\ UNCHANGED <<up, linked, stored, threads, state, matrix, budget>>

\* The process dies, at any point: what is in memory is gone.
Halt(n) ==
  /\ up[n] /\ halts < MaxHalts
  /\ halts' = halts + 1
  /\ up' = [up EXCEPT ![n] = FALSE]
  /\ linked' = {p \in linked : n \notin {p[1], p[2]}}
  /\ adding' = [adding EXCEPT ![n] = {}] /\ doomed' = [doomed EXCEPT ![n] = {}]
  /\ hook' = [hook EXCEPT ![n] = IdleHook]
  /\ delHook' = [delHook EXCEPT ![n] = IdleDelHook]
  /\ jobs' = [jobs EXCEPT ![n] = [s \in Slots |-> NoJob]]
  /\ resume' = [resume EXCEPT ![n] = {}]
  /\ filter' = [filter EXCEPT ![n] = {}]
  /\ matrix' = [matrix EXCEPT ![n] = [h \in Hash |-> NoEntry]]
  /\ UNCHANGED <<stored, stateFile, torn, disk, fails, deletes>>

\* Mutant: the filter is rebuilt from the keys of the store.
RestartFromIndex(n) ==
  /\ ~up[n] /\ ~torn[n]
  /\ up' = [up EXCEPT ![n] = TRUE]
  /\ filter' = [filter EXCEPT ![n] = {Shown(c) : c \in merged[n]}]
  /\ matrix' = [matrix EXCEPT ![n] = disk[n]]
  /\ UNCHANGED <<linked, stored, threads, stateFile, torn, disk, budget>>

\* Open reads the state file and the flushed matrix. It never gets past a
\* truncated state file.
Restart(n) ==
  /\ ~up[n] /\ ~torn[n]
  /\ up' = [up EXCEPT ![n] = TRUE]
  /\ filter' = [filter EXCEPT ![n] = stateFile[n]]
  /\ matrix' = [matrix EXCEPT ![n] = disk[n]]
  /\ UNCHANGED <<linked, stored, threads, stateFile, torn, disk, budget>>

Goroutine(n, s) == StartTask(n, s) \/ DownloadStarted(n, s)
Callback(n, s) == DownloadFinished(n, s) \/ CallbackWrite(n, s)
Download(n, s) == \/ Goroutine(n, s) \/ TaskRefused(n, s) \/ Callback(n, s)
                  \/ Fetch(n, s) \/ FetchFails(n, s) \/ DirectoryFails(n, s)
                  \/ CallbackAdd(n, s)

Merging(n) ==
  \/ \E c \in Content : AddFile(n, c) \/ TagContent(n, c) \/ MergePut(n, c)
  \/ HookWrite(n) \/ HookCommit(n)

Deleting(n) ==
  \/ \E t \in Tag : DeleteFile(n, t) \/ DeleteTag(n, t) \/ MergeDelete(n, t)
  \/ DelHookAdd(n) \/ DelHookTruncate(n) \/ DelHookWrite(n)

Next ==
  \E n \in Node :
    \/ Merging(n) \/ Deleting(n)
    \/ \E s \in Slots : Download(n, s)
    \/ \E m \in Node : Meet(n, m) \/ Part(n, m)
    \/ \E h \in Hash : ResumeVisit(n, h)
    \/ Flush(n) \/ Halt(n) \/ Restart(n)

Spec == Init /\ [][Next]_vars

(* ------------------------------ properties --------------------------- *)

StoreType ==
  /\ up \in [Node -> BOOLEAN] /\ linked \subseteq Node \X Node
  /\ height \in [Content -> Nat]
  /\ merged \in [Node -> SUBSET Content] /\ dels \in [Node -> SUBSET SUBSET Content]
  /\ blocks \in [Node -> SUBSET Hash] /\ obtained \in [Node -> SUBSET Hash]
ThreadType ==
  /\ adding \in [Node -> SUBSET Content] /\ doomed \in [Node -> SUBSET Tag]
  /\ hook \in [Node -> Hook] /\ delHook \in [Node -> DelHook]
  /\ resume \in [Node -> SUBSET Hash]
JobType ==
  /\ jobs \in [Node -> [Slots -> Job]]
  /\ matrix \in [Node -> [Hash -> Entry]] /\ disk \in [Node -> [Hash -> Entry]]
StateType ==
  /\ filter \in [Node -> SUBSET Label] /\ stateFile \in [Node -> SUBSET Label]
  /\ torn \in [Node -> BOOLEAN]
BudgetType ==
  /\ halts \in 0..MaxHalts /\ fails \in 0..MaxFails /\ deletes \in 0..MaxDeletes

TypeOK == StoreType /\ ThreadType /\ JobType /\ StateType /\ BudgetType

\* A set of labels whose tags all name content that n held at some time.
Backed(n, labels) ==
  \A t \in Tag : <<"tag", t>> \in labels =>
    \E c \in Content : TagOf[c] = t /\ HashOf[c] \in obtained[n]

\* The filter is what other nodes compare with and what State returns: it
\* never shows a tag for which the node did not hold content, in memory or
\* in the state file, whatever crashed, was lost or raced.
AdvertisedWasHeld == \A n \in Node : Backed(n, filter[n]) /\ Backed(n, stateFile[n])

\* A matrix entry says a download finished only if the blocks were here, and
\* a flushed entry too: StartUnfinishedDownload passes over finished entries.
FinishedWasHeld ==
  \A n \in Node, h \in Hash :
    matrix[n][h].done \/ disk[n][h].done => h \in obtained[n]

\* PutHook rewrites the state file before its merge commits, so a node shows
\* every tag it put itself, and still does after a death at any point.
OwnTagsShown ==
  \A n \in Node : \A c \in merged[n] :
    up[n] /\ OwnerOf[c] = n => Shown(c) \in filter[n]

\* Content c that won tag t at n is on its way: a goroutine or its task has
\* it, or the next Connected event sends it to the watcher again.
InFlight(n, c) == \E s \in Slots : jobs[n][s].c = c
Resumable(n, c) ==
  LET e == matrix[n][HashOf[c]]
  IN e.known /\ ~e.done /\ c \in FindTag(n, e.tag)

\* Every remote content in the store of n is shown, on its way or resumable:
\* no interleaving of merges, downloads, failures and reconnections drops a
\* download. Stated for nodes that did not die: neither a goroutine nor an
\* entry that was not flushed survives. Claimed only where Refuses is FALSE:
\* a refused task leaves an entry that cannot be resumed.
NoLostDownload ==
  halts = 0 =>
    \A n \in Node : \A c \in InSet(n) :
      OwnerOf[c] # n /\ c \in FindTag(n, TagOf[c]) =>
        \/ Shown(c) \in filter[n] /\ matrix[n][HashOf[c]].done
        \/ InFlight(n, c) \/ Resumable(n, c)

\* The nodes keep meeting and parting, and each thread that can go on does.
Fairness ==
  /\ WF_vars(\E n, m \in Node : Meet(n, m)) /\ WF_vars(\E n, m \in Node : Part(n, m))
  /\ \A n \in Node :
       /\ WF_vars(HookWrite(n) \/ HookCommit(n))
       /\ SF_vars(\E c \in Content : MergePut(n, c))
       /\ \A h \in Hash : SF_vars(ResumeVisit(n, h))
       /\ \A s \in Slots :
            /\ WF_vars(Goroutine(n, s) \/ Callback(n, s))
            /\ SF_vars(Fetch(n, s) \/ DirectoryFails(n, s))
            /\ SF_vars(CallbackAdd(n, s))

FairSpec == Spec /\ Fairness

\* A file that stays the content of its tag at its owner is in the end shown
\* by every node, if no node dies or refuses a task: whatever other content
\* the tag had before, a failed download is resumed at a later meeting.
\* Directories are left out: Download cannot read one.
EveryTagSpreads ==
  \A c \in Content \ Directory :
    <>[](c \in FindTag(OwnerOf[c], TagOf[c])) => <>(\A n \in Node : Shown(c) \in filter[n])

\* The whole machinery implements ReplicatedContent.
Shows(n) == {t \in Tag : <<"tag", t>> \in filter[n]}
Abstract == INSTANCE ReplicatedContent
              WITH held <- obtained, known <- merged,
                   shown <- [n \in Node |-> Shows(n)]
Implements == Abstract!ASpec

=============================================================================
