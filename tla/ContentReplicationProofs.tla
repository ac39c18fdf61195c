----------------------- MODULE ContentReplicationProofs -----------------------
(***************************************************************************)
(* Proofs about ContentReplication, for every set of nodes, contents and   *)
(* slots and every bound: its types, where content comes from, what the    *)
(* filter and the state file show, and that it implements                  *)
(* ReplicatedContent.                                                      *)
(***************************************************************************)
EXTENDS ContentReplication, TLAPS

\* The steps of Next, one by one.
LEMMA NextCases ==
  ASSUME Next
  PROVE  \E n \in Node :
           \/ \E c \in Content : AddFile(n, c)
           \/ \E c \in Content : TagContent(n, c)
           \/ \E c \in Content : MergePut(n, c)
           \/ HookWrite(n)
           \/ HookCommit(n)
           \/ \E t \in Tag : DeleteFile(n, t)
           \/ \E t \in Tag : DeleteTag(n, t)
           \/ \E t \in Tag : MergeDelete(n, t)
           \/ DelHookAdd(n)
           \/ DelHookTruncate(n)
           \/ DelHookWrite(n)
           \/ \E s \in Slots : StartTask(n, s)
           \/ \E s \in Slots : TaskRefused(n, s)
           \/ \E s \in Slots : DownloadStarted(n, s)
           \/ \E s \in Slots : Fetch(n, s)
           \/ \E s \in Slots : FetchFails(n, s)
           \/ \E s \in Slots : DirectoryFails(n, s)
           \/ \E s \in Slots : DownloadFinished(n, s)
           \/ \E s \in Slots : CallbackAdd(n, s)
           \/ \E s \in Slots : CallbackWrite(n, s)
           \/ \E m \in Node : Meet(n, m)
           \/ \E m \in Node : Part(n, m)
           \/ \E h \in Hash : ResumeVisit(n, h)
           \/ Flush(n)
           \/ Halt(n)
           \/ Restart(n)
  BY DEF Next, Merging, Deleting, Download, Goroutine, Callback

(* ------------------------------ types -------------------------------- *)

LEMMA IdleTypes ==
  NoJob \in Job /\ NoEntry \in Entry /\ IdleHook \in Hook /\ IdleDelHook \in DelHook
  BY TagAssumption DEF NoJob, Job, NoEntry, Entry, IdleHook, Hook, IdleDelHook, DelHook

\* An update at two keys keeps a function of functions well-typed.
LEMMA NestedUpdate ==
  ASSUME NEW A, NEW B, NEW T, NEW f \in [A -> [B -> T]],
         NEW a \in A, NEW b \in B, NEW v \in T
  PROVE  [f EXCEPT ![a][b] = v] \in [A -> [B -> T]]
  OBVIOUS

LEMMA SetJobType ==
  ASSUME TypeOK, NEW n \in Node, NEW s \in Slots, NEW job,
         job = NoJob \/ job \in Job \/ Done(job) \in Job, SetJob(n, s, job)
  PROVE  jobs' \in [Node -> [Slots -> Job]]
<1>1. Done(job) \in Job
  BY IdleTypes DEF Done
<1>2. jobs \in [Node -> [Slots -> Job]]
  BY DEF TypeOK, JobType
<1>3. [jobs EXCEPT ![n][s] = Done(job)] \in [Node -> [Slots -> Job]]
  BY <1>1, <1>2, NestedUpdate
<1> QED BY <1>3 DEF SetJob

LEMMA SetEntryType ==
  ASSUME TypeOK, NEW n \in Node, NEW h \in Hash, NEW e \in Entry, SetEntry(n, h, e)
  PROVE  matrix' \in [Node -> [Hash -> Entry]]
<1>1. matrix \in [Node -> [Hash -> Entry]]
  BY DEF TypeOK, JobType
<1>2. [matrix EXCEPT ![n][h] = e] \in [Node -> [Hash -> Entry]]
  BY <1>1, NestedUpdate
<1> QED BY <1>2 DEF SetEntry

\* Handing a content to the watcher keeps jobs and entries well-typed.
LEMMA SpawnType ==
  ASSUME TypeOK, NEW n \in Node, NEW c \in Content, Spawn(n, c)
  PROVE  jobs' \in [Node -> [Slots -> Job]] /\ matrix' \in [Node -> [Hash -> Entry]]
<1> USE ContentAssumption
<1>1. [c |-> c, g |-> "looking", t |-> "none"] \in Job
  BY DEF Job
<1>2. HashOf[c] \in Hash
  OBVIOUS
<1>3. matrix[n][HashOf[c]] \in Entry
  BY <1>2 DEF TypeOK, JobType
<1>4. [matrix[n][HashOf[c]] EXCEPT !.known = TRUE] \in Entry
  BY <1>3 DEF Entry
<1>5. jobs' \in [Node -> [Slots -> Job]]
  BY <1>1, SetJobType DEF Spawn
<1>6. matrix' \in [Node -> [Hash -> Entry]]
  BY <1>2, <1>4, SetEntryType DEF Spawn
<1> QED BY <1>5, <1>6

LEMMA AddToStateType ==
  ASSUME TypeOK, NEW n \in Node, NEW c \in Content, AddToState(n, Shown(c))
  PROVE  /\ filter' \in [Node -> SUBSET Label] /\ stateFile' \in [Node -> SUBSET Label]
         /\ torn' \in [Node -> BOOLEAN]
<1>1. Shown(c) \in Label
  BY ContentAssumption DEF Shown, Label
<1> QED BY <1>1 DEF AddToState, TypeOK, StateType, StateType, StateType

LEMMA WriteStateType ==
  ASSUME TypeOK, NEW n \in Node, WriteState(n)
  PROVE  /\ filter' \in [Node -> SUBSET Label] /\ stateFile' \in [Node -> SUBSET Label]
         /\ torn' \in [Node -> BOOLEAN]
  BY DEF WriteState, TypeOK, StateType, StateType, StateType

\* A job that has a content keeps its type under each of the updates above.
LEMMA JobUpdateTypes ==
  ASSUME NEW job \in Job, job.g # "over" \/ job.t # "over"
  PROVE  /\ job.c \in Content
         /\ [job EXCEPT !.g = "launched", !.t = "queued"] \in Job
         /\ Done([job EXCEPT !.g = "over"]) \in Job
         /\ Done([job EXCEPT !.t = "over"]) \in Job
         /\ \A t \in {"fetched", "finished", "writing"} : [job EXCEPT !.t = t] \in Job
<1>1. job.c \in Content
  BY DEF Job
<1>2. job.c # None
  BY <1>1, ContentAssumption
<1>3. [job EXCEPT !.g = "launched", !.t = "queued"] \in Job
  BY <1>1, <1>2 DEF Job
<1>4. Done([job EXCEPT !.g = "over"]) \in Job
  BY <1>1, <1>2, IdleTypes DEF Job, Done
<1>5. Done([job EXCEPT !.t = "over"]) \in Job
  BY <1>1, <1>2, IdleTypes DEF Job, Done
<1>6. \A t \in {"fetched", "finished", "writing"} : [job EXCEPT !.t = t] \in Job
  BY <1>1, <1>2 DEF Job
<1> QED BY <1>1, <1>3, <1>4, <1>5, <1>6

LEMMA TypeInit == Init => TypeOK
<1> SUFFICES ASSUME Init PROVE TypeOK
  OBVIOUS
<1>1. StoreType
  BY DEF Init, StoreType
<1>2. ThreadType
  BY IdleTypes DEF Init, ThreadType
<1>3. JobType
  BY IdleTypes DEF Init, JobType
<1>4. StateType
  BY DEF Init, StateType
<1>5. BudgetType
  BY BoundAssumption DEF Init, BudgetType
<1> QED BY <1>1, <1>2, <1>3, <1>4, <1>5 DEF TypeOK

LEMMA PutHookType ==
  ASSUME TypeOK, NEW n \in Node, NEW c \in Content, PutHook(n, c)
  PROVE  /\ hook' \in [Node -> Hook] /\ jobs' \in [Node -> [Slots -> Job]]
         /\ StateType' /\ matrix' \in [Node -> [Hash -> Entry]]
<1>1. [pc |-> "commit", c |-> c] \in Hook /\ [pc |-> "writing", c |-> c] \in Hook
  BY ContentAssumption DEF Hook
<1>2. CASE OwnerOf[c] # n /\ AutoDownload
  <2>1. hook' \in [Node -> Hook]
    BY <1>1, <1>2 DEF PutHook, TypeOK, ThreadType
  <2>2. StateType'
    BY <1>2 DEF PutHook, TypeOK, StateType, state
  <2> QED BY <1>2, <2>1, <2>2, SpawnType DEF PutHook
<1>3. CASE ~(OwnerOf[c] # n /\ AutoDownload)
  <2>1. hook' \in [Node -> Hook]
    BY <1>1, <1>3 DEF PutHook, TypeOK, ThreadType
  <2>2. StateType'
    BY <1>3, AddToStateType DEF PutHook, StateType
  <2> QED BY <1>3, <2>1, <2>2 DEF PutHook, TypeOK, JobType
<1> QED BY <1>2, <1>3

LEMMA TombstoneType ==
  ASSUME TypeOK, NEW n \in Node, NEW t \in Tag, NEW ids \in SUBSET Content,
         Tombstone(n, t, ids)
  PROVE  dels' \in [Node -> SUBSET SUBSET Content] /\ delHook' \in [Node -> DelHook]
<1>1. [pc |-> "adding", t |-> t, seen |-> filter[n]] \in DelHook
  BY TagAssumption DEF DelHook, TypeOK, StateType
<1>2. delHook' \in [Node -> DelHook]
  BY <1>1 DEF Tombstone, TypeOK, ThreadType
<1>3. dels' \in [Node -> SUBSET SUBSET Content]
  BY DEF Tombstone, TypeOK, StoreType
<1> QED BY <1>2, <1>3

LEMMA AddFileType ==
  ASSUME TypeOK, NEW n \in Node, NEW c \in Content, AddFile(n, c)
  PROVE  TypeOK'
<1>1. JobType' /\ StateType' /\ BudgetType'
  BY DEF AddFile, TypeOK, JobType, StateType, BudgetType, stored, threads, state, mat, budget
<1>2. StoreType'
  BY ContentAssumption DEF AddFile, TypeOK, StoreType
<1>3. ThreadType'
  BY DEF AddFile, TypeOK, ThreadType
<1> QED BY <1>1, <1>2, <1>3 DEF TypeOK

LEMMA TagContentType ==
  ASSUME TypeOK, NEW n \in Node, NEW c \in Content, TagContent(n, c)
  PROVE  TypeOK'
<1>1. BudgetType'
  BY DEF TagContent, TypeOK, BudgetType, stored, threads, state, mat, budget
<1>2. StoreType'
  <2>1. PICK top \in {height[d] : d \in merged[n]} \cup {0} :
           height' = [height EXCEPT ![c] = top + 1]
    BY DEF TagContent
  <2>2. top \in Nat
    BY DEF TypeOK, StoreType
  <2>3. height' \in [Content -> Nat]
    BY <2>1, <2>2 DEF TypeOK, StoreType
  <2> QED BY <2>3 DEF TagContent, TypeOK, StoreType
<1>3. ThreadType'
  BY PutHookType DEF TagContent, TypeOK, ThreadType
<1>4. JobType'
  BY PutHookType DEF TagContent, TypeOK, JobType
<1>5. StateType'
  BY PutHookType DEF TagContent
<1> QED BY <1>1, <1>2, <1>3, <1>4, <1>5 DEF TypeOK

LEMMA MergePutType ==
  ASSUME TypeOK, NEW n \in Node, NEW c \in Content, MergePut(n, c)
  PROVE  TypeOK'
<1>1. BudgetType'
  BY DEF MergePut, TypeOK, BudgetType, stored, threads, state, mat, budget
<1>2. StoreType'
  BY DEF MergePut, TypeOK, StoreType
<1>3. ThreadType'
  BY PutHookType DEF MergePut, TypeOK, ThreadType
<1>4. JobType'
  BY PutHookType DEF MergePut, TypeOK, JobType
<1>5. StateType'
  BY PutHookType DEF MergePut, TypeOK, StateType, state
<1> QED BY <1>1, <1>2, <1>3, <1>4, <1>5 DEF TypeOK

LEMMA HookWriteType ==
  ASSUME TypeOK, NEW n \in Node, HookWrite(n)
  PROVE  TypeOK'
<1>1. StoreType' /\ JobType' /\ BudgetType'
  BY DEF HookWrite, TypeOK, StoreType, JobType, BudgetType, stored, threads, state, mat, budget
<1>2. ThreadType'
  <2>1. hook[n] \in Hook /\ [hook[n] EXCEPT !.pc = "commit"] \in Hook
    BY DEF HookWrite, Hook, TypeOK, ThreadType
  <2> QED BY <2>1 DEF HookWrite, TypeOK, ThreadType
<1>3. StateType'
  BY WriteStateType DEF HookWrite, StateType
<1> QED BY <1>1, <1>2, <1>3 DEF TypeOK

LEMMA HookCommitType ==
  ASSUME TypeOK, NEW n \in Node, HookCommit(n)
  PROVE  TypeOK'
<1>1. JobType' /\ StateType' /\ BudgetType'
  BY DEF HookCommit, TypeOK, JobType, StateType, BudgetType, stored, threads, state, mat, budget
<1>2. StoreType'
  <2>1. hook[n].c \in Content
    BY DEF HookCommit, Hook, TypeOK, ThreadType
  <2> QED BY <2>1 DEF HookCommit, TypeOK, StoreType
<1>3. ThreadType'
  BY IdleTypes DEF HookCommit, TypeOK, ThreadType
<1> QED BY <1>1, <1>2, <1>3 DEF TypeOK

LEMMA DeleteFileType ==
  ASSUME TypeOK, NEW n \in Node, NEW t \in Tag, DeleteFile(n, t)
  PROVE  TypeOK'
<1>1. JobType' /\ StateType'
  BY DEF DeleteFile, TypeOK, JobType, StateType, stored, threads, state, mat, budget
<1>2. StoreType'
  BY DEF DeleteFile, TypeOK, StoreType
<1>3. ThreadType'
  BY DEF DeleteFile, TypeOK, ThreadType
<1>4. BudgetType'
  BY BoundAssumption DEF DeleteFile, TypeOK, BudgetType
<1> QED BY <1>1, <1>2, <1>3, <1>4 DEF TypeOK

LEMMA DeleteTagType ==
  ASSUME TypeOK, NEW n \in Node, NEW t \in Tag, DeleteTag(n, t)
  PROVE  TypeOK'
<1>1. JobType' /\ StateType' /\ BudgetType'
  BY DEF DeleteTag, TypeOK, JobType, StateType, BudgetType, stored, threads, state, mat, budget
<1>2. StoreType'
  <2>1. {c \in InSet(n) : TagOf[c] = t} \in SUBSET Content
    BY DEF InSet, TypeOK, StoreType
  <2>2. dels' \in [Node -> SUBSET SUBSET Content]
    BY <2>1, TombstoneType DEF DeleteTag, TypeOK, StoreType
  <2> QED BY <2>2 DEF DeleteTag, TypeOK, StoreType
<1>3. ThreadType'
  <2>1. {c \in InSet(n) : TagOf[c] = t} \in SUBSET Content
    BY DEF InSet, TypeOK, StoreType
  <2>2. delHook' \in [Node -> DelHook]
    BY <2>1, TombstoneType DEF DeleteTag, TypeOK, ThreadType
  <2> QED BY <2>2 DEF DeleteTag, TypeOK, ThreadType
<1> QED BY <1>1, <1>2, <1>3 DEF TypeOK

LEMMA MergeDeleteType ==
  ASSUME TypeOK, NEW n \in Node, NEW t \in Tag, MergeDelete(n, t)
  PROVE  TypeOK'
<1>0. PICK ids \in SUBSET Content : Tombstone(n, t, ids)
  BY DEF MergeDelete, Peers, TypeOK, StoreType
<1>1. JobType' /\ StateType' /\ BudgetType'
  BY DEF MergeDelete, TypeOK, JobType, StateType, BudgetType, stored, threads, state, mat, budget
<1>2. StoreType'
  BY <1>0, TombstoneType DEF MergeDelete, TypeOK, StoreType
<1>3. ThreadType'
  BY <1>0, TombstoneType DEF MergeDelete, TypeOK, ThreadType
<1> QED BY <1>1, <1>2, <1>3 DEF TypeOK

LEMMA DelHookAddType ==
  ASSUME TypeOK, NEW n \in Node, DelHookAdd(n)
  PROVE  TypeOK'
<1>1. StoreType' /\ JobType' /\ BudgetType'
  BY DEF DelHookAdd, TypeOK, StoreType, JobType, BudgetType, stored, threads, state, mat, budget
<1>2. ThreadType'
  <2>1. [delHook[n] EXCEPT !.pc = "added"] \in DelHook
    BY DEF DelHookAdd, TypeOK, ThreadType, DelHook
  <2> QED BY <2>1 DEF DelHookAdd, TypeOK, ThreadType
<1>3. StateType'
  <2> DEFINE label == <<"removed", delHook[n].t>>
  <2>1. PICK f \in {filter[n] \cup {label}, delHook[n].seen \cup {label}, filter[n]} :
           filter' = [filter EXCEPT ![n] = f]
    BY DEF DelHookAdd
  <2>2. label \in Label
    BY DEF DelHookAdd, TypeOK, ThreadType, DelHook, Label
  <2>3. delHook[n].seen \in SUBSET Label /\ filter[n] \in SUBSET Label
    BY DEF TypeOK, ThreadType, StateType, DelHook
  <2>4. f \in SUBSET Label
    BY <2>2, <2>3
  <2> QED BY <2>1, <2>4 DEF DelHookAdd, TypeOK, StateType
<1> QED BY <1>1, <1>2, <1>3 DEF TypeOK

LEMMA DelHookTruncateType ==
  ASSUME TypeOK, NEW n \in Node, DelHookTruncate(n)
  PROVE  TypeOK'
<1>1. StoreType' /\ JobType' /\ BudgetType'
  BY DEF DelHookTruncate, TypeOK, StoreType, JobType, BudgetType, stored, threads, state, mat, budget
<1>2. ThreadType'
  <2>1. [delHook[n] EXCEPT !.pc = "writing"] \in DelHook
    BY DEF DelHookTruncate, TypeOK, ThreadType, DelHook
  <2> QED BY <2>1 DEF DelHookTruncate, TypeOK, ThreadType
<1>3. StateType'
  BY DEF DelHookTruncate, TypeOK, StateType
<1> QED BY <1>1, <1>2, <1>3 DEF TypeOK

LEMMA DelHookWriteType ==
  ASSUME TypeOK, NEW n \in Node, DelHookWrite(n)
  PROVE  TypeOK'
<1>1. StoreType' /\ JobType' /\ BudgetType'
  BY DEF DelHookWrite, TypeOK, StoreType, JobType, BudgetType, stored, threads, state, mat, budget
<1>2. ThreadType'
  BY IdleTypes DEF DelHookWrite, TypeOK, ThreadType
<1>3. StateType'
  BY WriteStateType DEF DelHookWrite, StateType
<1> QED BY <1>1, <1>2, <1>3 DEF TypeOK

LEMMA StartTaskType ==
  ASSUME TypeOK, NEW n \in Node, NEW s \in Slots, StartTask(n, s)
  PROVE  TypeOK'
<1>1. StoreType' /\ ThreadType' /\ StateType' /\ BudgetType'
  BY DEF StartTask, TypeOK, StoreType, ThreadType, StateType, BudgetType, stored, threads, state, mat, budget, JobFrame
<1>2. JobType'
  <2>1. jobs[n][s] \in Job
    BY DEF TypeOK, JobType
  <2>2. jobs[n][s].g # "over" \/ jobs[n][s].t # "over"
    BY DEF StartTask
  <2>3. jobs' \in [Node -> [Slots -> Job]]
    BY <2>1, <2>2, JobUpdateTypes, SetJobType DEF StartTask
  <2> QED BY <2>3 DEF StartTask, TypeOK, JobType, mat
<1> QED BY <1>1, <1>2 DEF TypeOK

LEMMA TaskRefusedType ==
  ASSUME TypeOK, NEW n \in Node, NEW s \in Slots, TaskRefused(n, s)
  PROVE  TypeOK'
<1>1. StoreType' /\ ThreadType' /\ StateType' /\ BudgetType'
  BY DEF TaskRefused, TypeOK, StoreType, ThreadType, StateType, BudgetType, stored, threads, state, mat, budget, JobFrame
<1>2. jobs' \in [Node -> [Slots -> Job]]
  BY SetJobType DEF TaskRefused
<1>3. JobType'
  BY <1>2 DEF TaskRefused, TypeOK, JobType, mat
<1> QED BY <1>1, <1>3 DEF TypeOK

LEMMA DownloadStartedType ==
  ASSUME TypeOK, NEW n \in Node, NEW s \in Slots, DownloadStarted(n, s)
  PROVE  TypeOK'
<1>1. StoreType' /\ ThreadType' /\ StateType' /\ BudgetType'
  BY DEF DownloadStarted, TypeOK, StoreType, ThreadType, StateType, BudgetType, stored, threads, state, mat, budget, JobFrame
<1>2. JobType'
  <2>1. jobs[n][s] \in Job
    BY DEF TypeOK, JobType
  <2>2. jobs[n][s].g # "over" \/ jobs[n][s].t # "over"
    BY DEF DownloadStarted
  <2>3. jobs' \in [Node -> [Slots -> Job]]
    BY <2>1, <2>2, JobUpdateTypes, SetJobType DEF DownloadStarted
  <2>4. HashOf[jobs[n][s].c] \in Hash /\ TagOf[jobs[n][s].c] \in Tag
    BY <2>1, <2>2, JobUpdateTypes, ContentAssumption
  <2>5. matrix[n][HashOf[jobs[n][s].c]] \in Entry
    BY <2>4 DEF TypeOK, JobType
  <2>6. [matrix[n][HashOf[jobs[n][s].c]] EXCEPT !.tag = TagOf[jobs[n][s].c]] \in Entry
    BY <2>4, <2>5 DEF Entry
  <2>7. matrix' \in [Node -> [Hash -> Entry]]
    BY <2>4, <2>6, SetEntryType DEF DownloadStarted
  <2> QED BY <2>3, <2>7 DEF DownloadStarted, TypeOK, JobType
<1> QED BY <1>1, <1>2 DEF TypeOK

LEMMA FetchType ==
  ASSUME TypeOK, NEW n \in Node, NEW s \in Slots, Fetch(n, s)
  PROVE  TypeOK'
<1>1. ThreadType' /\ StateType' /\ BudgetType'
  BY DEF Fetch, TypeOK, ThreadType, StateType, BudgetType, stored, threads, state, mat, budget, JobFrame
<1>2. StoreType'
  <2>1. jobs[n][s] \in Job /\ (jobs[n][s].g # "over" \/ jobs[n][s].t # "over")
    BY DEF Fetch, TypeOK, JobType
  <2>2. HashOf[jobs[n][s].c] \in Hash
    BY <2>1, JobUpdateTypes, ContentAssumption
  <2> QED BY <2>2 DEF Fetch, JobFrame, TypeOK, StoreType
<1>3. JobType'
  <2>1. jobs[n][s] \in Job
    BY DEF TypeOK, JobType
  <2>2. jobs[n][s].g # "over" \/ jobs[n][s].t # "over"
    BY DEF Fetch
  <2>3. jobs' \in [Node -> [Slots -> Job]]
    BY <2>1, <2>2, JobUpdateTypes, SetJobType DEF Fetch
  <2> QED BY <2>3 DEF Fetch, TypeOK, JobType, mat
<1> QED BY <1>1, <1>2, <1>3 DEF TypeOK

LEMMA FetchFailsType ==
  ASSUME TypeOK, NEW n \in Node, NEW s \in Slots, FetchFails(n, s)
  PROVE  TypeOK'
<1>1. StoreType' /\ ThreadType' /\ StateType'
  BY DEF FetchFails, TypeOK, StoreType, ThreadType, StateType, stored, threads, state, mat, budget, JobFrame
<1>2. JobType'
  <2>1. jobs[n][s] \in Job
    BY DEF TypeOK, JobType
  <2>2. jobs[n][s].g # "over" \/ jobs[n][s].t # "over"
    BY DEF FetchFails
  <2>3. jobs' \in [Node -> [Slots -> Job]]
    BY <2>1, <2>2, JobUpdateTypes, SetJobType DEF FetchFails
  <2> QED BY <2>3 DEF FetchFails, TypeOK, JobType, mat
<1>3. BudgetType'
  BY BoundAssumption DEF FetchFails, JobFrame, TypeOK, BudgetType
<1> QED BY <1>1, <1>2, <1>3 DEF TypeOK

LEMMA DirectoryFailsType ==
  ASSUME TypeOK, NEW n \in Node, NEW s \in Slots, DirectoryFails(n, s)
  PROVE  TypeOK'
<1>1. StoreType' /\ ThreadType' /\ StateType' /\ BudgetType'
  BY DEF DirectoryFails, TypeOK, StoreType, ThreadType, StateType, BudgetType, stored, threads, state, mat, budget, JobFrame
<1>2. JobType'
  <2>1. jobs[n][s] \in Job
    BY DEF TypeOK, JobType
  <2>2. jobs[n][s].g # "over" \/ jobs[n][s].t # "over"
    BY DEF DirectoryFails
  <2>3. jobs' \in [Node -> [Slots -> Job]]
    BY <2>1, <2>2, JobUpdateTypes, SetJobType DEF DirectoryFails
  <2> QED BY <2>3 DEF DirectoryFails, TypeOK, JobType, mat
<1> QED BY <1>1, <1>2 DEF TypeOK

LEMMA DownloadFinishedType ==
  ASSUME TypeOK, NEW n \in Node, NEW s \in Slots, DownloadFinished(n, s)
  PROVE  TypeOK'
<1>1. StoreType' /\ ThreadType' /\ StateType' /\ BudgetType'
  BY DEF DownloadFinished, TypeOK, StoreType, ThreadType, StateType, BudgetType, stored, threads, state, mat, budget, JobFrame
<1>2. JobType'
  <2>1. jobs[n][s] \in Job
    BY DEF TypeOK, JobType
  <2>2. jobs[n][s].g # "over" \/ jobs[n][s].t # "over"
    BY DEF DownloadFinished
  <2>3. jobs' \in [Node -> [Slots -> Job]]
    BY <2>1, <2>2, JobUpdateTypes, SetJobType DEF DownloadFinished
  <2>4. HashOf[jobs[n][s].c] \in Hash /\ TagOf[jobs[n][s].c] \in Tag
    BY <2>1, <2>2, JobUpdateTypes, ContentAssumption
  <2>5. matrix[n][HashOf[jobs[n][s].c]] \in Entry
    BY <2>4 DEF TypeOK, JobType
  <2>6. [matrix[n][HashOf[jobs[n][s].c]] EXCEPT !.done = TRUE] \in Entry
    BY <2>4, <2>5 DEF Entry
  <2>7. matrix' \in [Node -> [Hash -> Entry]]
    BY <2>4, <2>6, SetEntryType DEF DownloadFinished
  <2> QED BY <2>3, <2>7 DEF DownloadFinished, TypeOK, JobType
<1> QED BY <1>1, <1>2 DEF TypeOK

LEMMA CallbackAddType ==
  ASSUME TypeOK, NEW n \in Node, NEW s \in Slots, CallbackAdd(n, s)
  PROVE  TypeOK'
<1>1. StoreType' /\ ThreadType' /\ BudgetType'
  BY DEF CallbackAdd, TypeOK, StoreType, ThreadType, BudgetType, stored, threads, state, mat, budget, JobFrame
<1>2. JobType'
  <2>1. jobs[n][s] \in Job
    BY DEF TypeOK, JobType
  <2>2. jobs[n][s].g # "over" \/ jobs[n][s].t # "over"
    BY DEF CallbackAdd
  <2>3. jobs' \in [Node -> [Slots -> Job]]
    BY <2>1, <2>2, JobUpdateTypes, SetJobType DEF CallbackAdd
  <2> QED BY <2>3 DEF CallbackAdd, TypeOK, JobType, mat
<1>3. StateType'
  <2>1. jobs[n][s].c \in Content
    BY JobUpdateTypes DEF CallbackAdd, TypeOK, JobType
  <2> QED BY <2>1, AddToStateType DEF CallbackAdd, StateType
<1> QED BY <1>1, <1>2, <1>3 DEF TypeOK

LEMMA CallbackWriteType ==
  ASSUME TypeOK, NEW n \in Node, NEW s \in Slots, CallbackWrite(n, s)
  PROVE  TypeOK'
<1>1. StoreType' /\ ThreadType' /\ BudgetType'
  BY DEF CallbackWrite, TypeOK, StoreType, ThreadType, BudgetType, stored, threads, state, mat, budget, JobFrame
<1>2. JobType'
  <2>1. jobs[n][s] \in Job
    BY DEF TypeOK, JobType
  <2>2. jobs[n][s].g # "over" \/ jobs[n][s].t # "over"
    BY DEF CallbackWrite
  <2>3. jobs' \in [Node -> [Slots -> Job]]
    BY <2>1, <2>2, JobUpdateTypes, SetJobType DEF CallbackWrite
  <2> QED BY <2>3 DEF CallbackWrite, TypeOK, JobType, mat
<1>3. StateType'
  BY WriteStateType DEF CallbackWrite, StateType
<1> QED BY <1>1, <1>2, <1>3 DEF TypeOK

LEMMA MeetType ==
  ASSUME TypeOK, NEW n \in Node, NEW m \in Node, Meet(n, m)
  PROVE  TypeOK'
<1>1. JobType' /\ StateType' /\ BudgetType'
  BY DEF Meet, TypeOK, JobType, StateType, BudgetType, stored, threads, state, mat, budget
<1>2. StoreType'
  BY DEF Meet, TypeOK, StoreType, stored
<1>3. ThreadType'
  BY DEF Meet, TypeOK, ThreadType
<1> QED BY <1>1, <1>2, <1>3 DEF TypeOK

LEMMA PartType ==
  ASSUME TypeOK, NEW n \in Node, NEW m \in Node, Part(n, m)
  PROVE  TypeOK'
<1>1. ThreadType' /\ JobType' /\ StateType' /\ BudgetType'
  BY DEF Part, TypeOK, ThreadType, JobType, StateType, BudgetType, stored, threads, state, mat, budget
<1>2. StoreType'
  BY DEF Part, TypeOK, StoreType, stored
<1> QED BY <1>1, <1>2 DEF TypeOK

LEMMA ResumeVisitType ==
  ASSUME TypeOK, NEW n \in Node, NEW h \in Hash, ResumeVisit(n, h)
  PROVE  TypeOK'
<1>1. StoreType' /\ StateType' /\ BudgetType'
  BY DEF ResumeVisit, TypeOK, StoreType, StateType, BudgetType, stored, threads, state, mat, budget
<1>2. ThreadType'
  BY DEF ResumeVisit, TypeOK, ThreadType
<1>3. JobType'
  <2> DEFINE found == IF matrix[n][h].done THEN {} ELSE FindTag(n, matrix[n][h].tag)
  <2>1. found \subseteq Content
    BY DEF FindTag, InSet, TypeOK, StoreType
  <2>2. CASE found = {}
    BY <2>2 DEF ResumeVisit, TypeOK, JobType
  <2>3. CASE found # {}
    <3>1. PICK c \in found : Spawn(n, c)
      BY <2>3 DEF ResumeVisit
    <3>2. jobs' \in [Node -> [Slots -> Job]] /\ matrix' \in [Node -> [Hash -> Entry]]
      BY <2>1, <3>1, SpawnType
    <3> QED BY <3>2 DEF ResumeVisit, TypeOK, JobType
  <2> QED BY <2>2, <2>3
<1> QED BY <1>1, <1>2, <1>3 DEF TypeOK

LEMMA FlushType ==
  ASSUME TypeOK, NEW n \in Node, Flush(n)
  PROVE  TypeOK'
<1>1. StoreType' /\ ThreadType' /\ StateType' /\ BudgetType'
  BY DEF Flush, TypeOK, StoreType, ThreadType, StateType, BudgetType, stored, threads, state, mat, budget
<1>2. JobType'
  BY DEF Flush, TypeOK, JobType, threads
<1> QED BY <1>1, <1>2 DEF TypeOK

LEMMA HaltType ==
  ASSUME TypeOK, NEW n \in Node, Halt(n)
  PROVE  TypeOK'
<1>2. StoreType'
  BY DEF Halt, TypeOK, StoreType, stored
<1>3. ThreadType'
  BY IdleTypes DEF Halt, TypeOK, ThreadType
<1>4. JobType'
  BY IdleTypes DEF Halt, TypeOK, JobType
<1>5. StateType'
  BY DEF Halt, TypeOK, StateType
<1>6. BudgetType'
  BY BoundAssumption DEF Halt, TypeOK, BudgetType
<1> QED BY <1>2, <1>3, <1>4, <1>5, <1>6 DEF TypeOK

LEMMA RestartType ==
  ASSUME TypeOK, NEW n \in Node, Restart(n)
  PROVE  TypeOK'
<1>1. ThreadType' /\ BudgetType'
  BY DEF Restart, TypeOK, ThreadType, BudgetType, stored, threads, state, mat, budget
<1>2. StoreType'
  BY DEF Restart, TypeOK, StoreType, stored
<1>3. JobType'
  BY DEF Restart, TypeOK, JobType, threads
<1>4. StateType'
  BY DEF Restart, TypeOK, StateType
<1> QED BY <1>1, <1>2, <1>3, <1>4 DEF TypeOK

LEMMA TypeStep == TypeOK /\ [Next]_vars => TypeOK'
<1> SUFFICES ASSUME TypeOK, [Next]_vars PROVE TypeOK'
  OBVIOUS
<1>1. CASE UNCHANGED vars
  BY <1>1 DEF TypeOK, StoreType, ThreadType, JobType, StateType, BudgetType, vars,
              stored, threads, state, mat, budget
<1>2. CASE Next
  BY <1>2, NextCases, AddFileType, TagContentType, MergePutType, HookWriteType,
     HookCommitType, DeleteFileType, DeleteTagType, MergeDeleteType,
     DelHookAddType, DelHookTruncateType, DelHookWriteType, StartTaskType, TaskRefusedType,
     DownloadStartedType, FetchType, FetchFailsType, DirectoryFailsType,
     DownloadFinishedType, CallbackAddType, CallbackWriteType, MeetType,
     PartType, ResumeVisitType, FlushType, HaltType,
     RestartType
<1> QED BY <1>1, <1>2

\* Every variable keeps its type: the states the model checker explores are
\* the states the theorems speak of.
THEOREM TypeCorrect == Spec => []TypeOK
<1>1. Init => TypeOK
  BY TypeInit
<1>2. TypeOK /\ [Next]_vars => TypeOK'
  BY TypeStep
<1> QED BY <1>1, <1>2, PTL DEF Spec

(***************************************************************************)
(* The safety properties, from an inductive invariant that says where      *)
(* content comes from: metadata is known to its owner first, and a         *)
(* download task that got past Download has the blocks.                    *)
(***************************************************************************)

\* Whoever merged a put, its owner merged it, and stored its content.
OwnerHas ==
  \A n \in Node : \A c \in merged[n] :
    c \in merged[OwnerOf[c]] /\ HashOf[c] \in obtained[OwnerOf[c]]

AddingOK ==
  \A n \in Node : \A c \in adding[n] : OwnerOf[c] = n /\ HashOf[c] \in obtained[n]

\* A merge in its hook is the owner's own put or one the owner has merged.
HookOK ==
  \A n \in Node : hook[n].pc # "idle" =>
    \/ OwnerOf[hook[n].c] = n /\ HashOf[hook[n].c] \in obtained[n]
    \/ hook[n].c \in merged[OwnerOf[hook[n].c]]

Past == {"fetched", "finished", "writing"}
JobOK(n, j) ==
  /\ j.c # None => j.c \in merged[OwnerOf[j.c]]
  /\ j.t \in Past => HashOf[j.c] \in obtained[n]
JobsOK == \A n \in Node, s \in Slots : JobOK(n, jobs[n][s])

BlocksOK == \A n \in Node : blocks[n] \subseteq obtained[n]

SafeInv == OwnerHas /\ AddingOK /\ HookOK /\ JobsOK /\ BlocksOK /\ FinishedWasHeld

\* What a node stored or merged once, it has for good.
Grow ==
  \A n \in Node : obtained[n] \subseteq obtained'[n] /\ merged[n] \subseteq merged'[n]

(* What an action leaves alone stays right while the stores grow.          *)

LEMMA OwnerHasFrame == ASSUME TypeOK, OwnerHas, Grow, merged' = merged PROVE OwnerHas'
<1>1. \A n \in Node : \A c \in merged[n] : OwnerOf[c] \in Node
  BY ContentAssumption DEF TypeOK, StoreType
<1> QED BY <1>1 DEF OwnerHas, Grow

LEMMA AddingFrame == ASSUME AddingOK, Grow, adding' = adding PROVE AddingOK'
  BY DEF AddingOK, Grow

LEMMA HookFrame == ASSUME TypeOK, HookOK, Grow, hook' = hook PROVE HookOK'
<1>1. \A n \in Node : hook[n].pc # "idle" => OwnerOf[hook[n].c] \in Node
  BY ContentAssumption DEF TypeOK, ThreadType, Hook
<1> QED BY <1>1 DEF HookOK, Grow

LEMMA JobFacts ==
  ASSUME TypeOK, NEW n \in Node, NEW s \in Slots
  PROVE  /\ jobs[n][s] \in Job
         /\ jobs[n][s].c # None => jobs[n][s].c \in Content /\ OwnerOf[jobs[n][s].c] \in Node
         /\ jobs[n][s].t # "over" => jobs[n][s].c # None
         /\ jobs[n][s].g # "over" => jobs[n][s].c # None
<1>1. jobs[n][s] \in Job
  BY DEF TypeOK, JobType
<1> QED BY <1>1, ContentAssumption DEF Job

LEMMA JobsFrame == ASSUME TypeOK, JobsOK, Grow, jobs' = jobs PROVE JobsOK'
<1> SUFFICES ASSUME NEW n \in Node, NEW s \in Slots PROVE JobOK(n, jobs[n][s])'
  BY DEF JobsOK
<1>1. JobOK(n, jobs[n][s])
  BY DEF JobsOK
<1> QED BY <1>1, JobFacts DEF JobOK, Grow

LEMMA BlocksFrame == ASSUME BlocksOK, Grow, blocks' = blocks PROVE BlocksOK'
  BY DEF BlocksOK, Grow

LEMMA FinishedFrame ==
  ASSUME FinishedWasHeld, Grow, matrix' = matrix, disk' = disk PROVE FinishedWasHeld'
  BY DEF FinishedWasHeld, Grow

\* One job changes, and the new one is right.
LEMMA SetJobOK ==
  ASSUME TypeOK, JobsOK, Grow, NEW n \in Node, NEW s \in Slots, NEW job, SetJob(n, s, job),
         job.c # None => job.c \in merged'[OwnerOf[job.c]],
         job.t \in Past => HashOf[job.c] \in obtained'[n]
  PROVE  JobsOK'
<1> SUFFICES ASSUME NEW k \in Node, NEW r \in Slots PROVE JobOK(k, jobs[k][r])'
  BY DEF JobsOK
<1>0. jobs \in [Node -> [Slots -> Job]]
  BY DEF TypeOK, JobType
<1>1. CASE k = n /\ r = s
  <2>1. jobs'[k][r] = Done(job)
    BY <1>0, <1>1 DEF SetJob
  <2>2. CASE Done(job) = job
    BY <1>1, <2>1, <2>2 DEF JobOK
  <2>3. CASE Done(job) = NoJob
    BY <2>1, <2>3 DEF JobOK, NoJob, Past
  <2> QED BY <2>2, <2>3 DEF Done
<1>2. CASE ~(k = n /\ r = s)
  <2>1. jobs'[k][r] = jobs[k][r]
    BY <1>0, <1>2 DEF SetJob
  <2>2. JobOK(k, jobs[k][r])
    BY DEF JobsOK
  <2> QED BY <2>1, <2>2, JobFacts DEF JobOK, Grow
<1> QED BY <1>1, <1>2

\* One entry changes, and it says finished only if it may.
LEMMA SetEntryOK ==
  ASSUME TypeOK, FinishedWasHeld, Grow, disk' = disk,
         NEW n \in Node, NEW h \in Hash, NEW e, SetEntry(n, h, e),
         e.done => h \in obtained'[n]
  PROVE  FinishedWasHeld'
<1>1. matrix \in [Node -> [Hash -> Entry]]
  BY DEF TypeOK, JobType
<1> SUFFICES ASSUME NEW k \in Node, NEW g \in Hash
             PROVE  matrix'[k][g].done \/ disk'[k][g].done => g \in obtained'[k]
  BY DEF FinishedWasHeld
<1>2. CASE k = n /\ g = h
  <2>1. matrix'[k][g] = e
    BY <1>1, <1>2 DEF SetEntry
  <2> QED BY <1>2, <2>1 DEF FinishedWasHeld, Grow
<1>3. CASE ~(k = n /\ g = h)
  <2>1. matrix'[k][g] = matrix[k][g]
    BY <1>1, <1>3 DEF SetEntry
  <2> QED BY <2>1 DEF FinishedWasHeld, Grow
<1> QED BY <1>2, <1>3

LEMMA SpawnOK ==
  ASSUME TypeOK, JobsOK, FinishedWasHeld, Grow, disk' = disk,
         NEW n \in Node, NEW c \in Content, Spawn(n, c), c \in merged[OwnerOf[c]]
  PROVE  JobsOK' /\ FinishedWasHeld'
<1>1. OwnerOf[c] \in Node /\ HashOf[c] \in Hash
  BY ContentAssumption
<1>2. c \in merged'[OwnerOf[c]]
  BY <1>1 DEF Grow
<1> DEFINE job == [c |-> c, g |-> "looking", t |-> "none"]
<1>3. PICK s \in Slots : SetJob(n, s, job)
  BY DEF Spawn
<1>4. job.c = c /\ job.t \notin Past
  BY DEF Past
<1>5. JobsOK'
  <2> HIDE DEF job
  <2> QED BY <1>2, <1>3, <1>4, SetJobOK
<1> DEFINE e == [matrix[n][HashOf[c]] EXCEPT !.known = TRUE]
<1>6. matrix[n][HashOf[c]] \in Entry
  BY <1>1 DEF TypeOK, JobType
<1>7. e.done => HashOf[c] \in obtained'[n]
  BY <1>1, <1>6 DEF Entry, FinishedWasHeld, Grow
<1>8. SetEntry(n, HashOf[c], e)
  BY DEF Spawn
<1>9. FinishedWasHeld'
  <2> HIDE DEF e
  <2> QED BY <1>1, <1>7, <1>8, SetEntryOK
<1> QED BY <1>5, <1>9

\* PutHook leaves n's hook on c, and the other nodes' hooks alone.
LEMMA PutHookHook ==
  ASSUME TypeOK, NEW n \in Node, NEW c \in Content, PutHook(n, c)
  PROVE  \A k \in Node : hook'[k] = hook[k] \/ (k = n /\ hook'[k].c = c)
<1>1. PICK p \in {"writing", "commit"} : hook' = [hook EXCEPT ![n] = [pc |-> p, c |-> c]]
  BY DEF PutHook
<1> QED BY <1>1 DEF TypeOK, ThreadType

LEMMA AddFileSafe ==
  ASSUME TypeOK, SafeInv, NEW n \in Node, NEW c \in Content, AddFile(n, c)
  PROVE  SafeInv'
<1>1. Grow
  BY DEF AddFile, stored, threads, state, mat, budget, Grow, TypeOK, StoreType
<1>2. UNCHANGED <<merged, hook, jobs, matrix, disk>>
  BY DEF AddFile, stored, threads, state, mat, budget
<1>3. OwnerHas' /\ HookOK' /\ JobsOK' /\ FinishedWasHeld'
  BY <1>1, <1>2, OwnerHasFrame, HookFrame, JobsFrame, FinishedFrame DEF SafeInv
<1>4. AddingOK'
  BY <1>1, ContentAssumption DEF AddFile, SafeInv, AddingOK, Grow, TypeOK, StoreType, ThreadType
<1>5. BlocksOK'
  BY <1>1 DEF AddFile, SafeInv, BlocksOK, TypeOK, StoreType
<1> QED BY <1>3, <1>4, <1>5 DEF SafeInv

LEMMA TagContentSafe ==
  ASSUME TypeOK, SafeInv, NEW n \in Node, NEW c \in Content, TagContent(n, c)
  PROVE  SafeInv'
<1>1. Grow
  BY DEF TagContent, stored, threads, state, mat, budget, Grow, TypeOK, StoreType
<1>2. UNCHANGED <<merged, blocks>>
  BY DEF TagContent, stored, threads, state, mat, budget
<1>3. OwnerHas' /\ BlocksOK'
  BY <1>1, <1>2, OwnerHasFrame, BlocksFrame DEF SafeInv
<1>4. AddingOK'
  BY <1>1 DEF TagContent, SafeInv, AddingOK, Grow, TypeOK, ThreadType
<1>5. HookOK'
  <2>1. OwnerOf[c] = n /\ HashOf[c] \in obtained[n]
    BY DEF TagContent, SafeInv, AddingOK
  <2>2. \A k \in Node : hook'[k] = hook[k] \/ (k = n /\ hook'[k].c = c)
    BY PutHookHook DEF TagContent
  <2>3. \A k \in Node : hook[k].pc # "idle" => OwnerOf[hook[k].c] \in Node
    BY ContentAssumption DEF TypeOK, ThreadType, Hook
  <2> QED BY <1>1, <2>1, <2>2, <2>3 DEF HookOK, SafeInv, Grow
<1>6. JobsOK'
  <2>1. jobs' = jobs
    BY DEF TagContent, PutHook, SafeInv, AddingOK
  <2> QED BY <1>1, <2>1, JobsFrame DEF SafeInv
<1>7. FinishedWasHeld'
  <2>1. matrix' = matrix /\ disk' = disk
    BY DEF TagContent, PutHook, SafeInv, AddingOK
  <2> QED BY <1>1, <2>1, FinishedFrame DEF SafeInv
<1> QED BY <1>3, <1>4, <1>5, <1>6, <1>7 DEF SafeInv

LEMMA MergePutSafe ==
  ASSUME TypeOK, SafeInv, NEW n \in Node, NEW c \in Content, MergePut(n, c)
  PROVE  SafeInv'
<1>1. Grow
  BY DEF MergePut, stored, threads, state, mat, budget, Grow, TypeOK, StoreType
<1>2. UNCHANGED <<adding, blocks>>
  BY DEF MergePut, stored, threads, state, mat, budget
<1>3. AddingOK' /\ BlocksOK'
  BY <1>1, <1>2, AddingFrame, BlocksFrame DEF SafeInv
<1>4. OwnerHas'
  <2>1. c \in merged[OwnerOf[c]] /\ HashOf[c] \in obtained[OwnerOf[c]]
    BY DEF MergePut, Peers, SafeInv, OwnerHas
  <2>2. \A k \in Node : merged'[k] \subseteq merged[k] \cup {c}
    BY DEF MergePut, TypeOK, StoreType
  <2>3. \A k \in Node : \A d \in merged[k] : OwnerOf[d] \in Node
    BY ContentAssumption DEF TypeOK, StoreType
  <2> QED BY <1>1, <2>1, <2>2, <2>3, ContentAssumption DEF OwnerHas, SafeInv, Grow
<1>5. HookOK'
  <2>1. c \in merged[OwnerOf[c]] /\ OwnerOf[c] \in Node
    BY ContentAssumption DEF MergePut, Peers, SafeInv, OwnerHas
  <2>2. \A k \in Node : hook'[k] = hook[k] \/ (k = n /\ hook'[k].c = c)
    BY PutHookHook DEF MergePut
  <2>3. \A k \in Node : hook[k].pc # "idle" => OwnerOf[hook[k].c] \in Node
    BY ContentAssumption DEF TypeOK, ThreadType, Hook
  <2> QED BY <1>1, <2>1, <2>2, <2>3 DEF HookOK, SafeInv, Grow
<1>6. JobsOK'
  <2>1. CASE Spawn(n, c)
    <3>1. c \in merged[OwnerOf[c]] /\ disk' = disk
      BY DEF MergePut, Peers, SafeInv, OwnerHas
    <3> QED BY <1>1, <2>1, <3>1, SpawnOK DEF SafeInv
  <2>2. CASE jobs' = jobs
    BY <1>1, <2>2, JobsFrame DEF SafeInv
  <2> QED BY <2>1, <2>2 DEF MergePut, PutHook
<1>7. FinishedWasHeld'
  <2>1. CASE Spawn(n, c)
    <3>1. c \in merged[OwnerOf[c]] /\ disk' = disk
      BY DEF MergePut, Peers, SafeInv, OwnerHas
    <3> QED BY <1>1, <2>1, <3>1, SpawnOK DEF SafeInv
  <2>2. CASE matrix' = matrix
    <3>1. disk' = disk
      BY DEF MergePut
    <3> QED BY <1>1, <2>2, <3>1, FinishedFrame DEF SafeInv
  <2> QED BY <2>1, <2>2 DEF MergePut, PutHook
<1> QED BY <1>3, <1>4, <1>5, <1>6, <1>7 DEF SafeInv

LEMMA HookWriteSafe ==
  ASSUME TypeOK, SafeInv, NEW n \in Node, HookWrite(n)
  PROVE  SafeInv'
<1>1. Grow
  BY DEF HookWrite, WriteState, stored, threads, state, mat, budget, Grow, TypeOK, StoreType
<1>2. UNCHANGED <<merged, adding, jobs, blocks, matrix, disk>>
  BY DEF HookWrite, WriteState, stored, threads, state, mat, budget
<1>3. OwnerHas' /\ AddingOK' /\ JobsOK' /\ BlocksOK' /\ FinishedWasHeld'
  BY <1>1, <1>2, OwnerHasFrame, AddingFrame, JobsFrame, BlocksFrame, FinishedFrame DEF SafeInv
<1>4. HookOK'
  <2>1. \A k \in Node : hook'[k] = hook[k] \/ (k = n /\ hook'[k].c = hook[k].c)
    BY DEF HookWrite, TypeOK, ThreadType, Hook, IdleHook
  <2>2. \A k \in Node : hook[k].pc # "idle" => OwnerOf[hook[k].c] \in Node
    BY ContentAssumption DEF TypeOK, ThreadType, Hook
  <2> QED BY <1>1, <2>1, <2>2 DEF HookOK, SafeInv, Grow, HookWrite
<1> QED BY <1>3, <1>4 DEF SafeInv

LEMMA HookCommitSafe ==
  ASSUME TypeOK, SafeInv, NEW n \in Node, HookCommit(n)
  PROVE  SafeInv'
<1>1. Grow
  BY DEF HookCommit, stored, threads, state, mat, budget, Grow, TypeOK, StoreType
<1>2. UNCHANGED <<adding, jobs, blocks, matrix, disk>>
  BY DEF HookCommit, stored, threads, state, mat, budget
<1>3. AddingOK' /\ JobsOK' /\ BlocksOK' /\ FinishedWasHeld'
  BY <1>1, <1>2, AddingFrame, JobsFrame, BlocksFrame, FinishedFrame DEF SafeInv
<1>4. OwnerHas'
  <2>1. hook[n].c \in Content
    BY DEF HookCommit, TypeOK, ThreadType, Hook
  <2>2. \A k \in Node : merged'[k] = merged[k] \/ (k = n /\ merged'[k] = merged[k] \cup {hook[n].c})
    BY DEF HookCommit, TypeOK, StoreType
  <2>3. hook[n].c \in merged'[n]
    BY DEF HookCommit, TypeOK, StoreType
  <2>4. hook[n].c \in merged'[OwnerOf[hook[n].c]] /\ HashOf[hook[n].c] \in obtained'[OwnerOf[hook[n].c]]
    BY <1>1, <2>1, <2>3, ContentAssumption DEF HookCommit, SafeInv, HookOK, OwnerHas, Grow
  <2>5. \A k \in Node : \A d \in merged[k] : OwnerOf[d] \in Node
    BY ContentAssumption DEF TypeOK, StoreType
  <2> QED BY <1>1, <2>2, <2>4, <2>5 DEF OwnerHas, SafeInv, Grow
<1>5. HookOK'
  <2>1. \A k \in Node : hook'[k] = hook[k] \/ (k = n /\ hook'[k].pc = "idle")
    BY DEF HookCommit, TypeOK, ThreadType, Hook, IdleHook
  <2>2. \A k \in Node : hook[k].pc # "idle" => OwnerOf[hook[k].c] \in Node
    BY ContentAssumption DEF TypeOK, ThreadType, Hook
  <2> QED BY <1>1, <2>1, <2>2 DEF HookOK, SafeInv, Grow
<1> QED BY <1>3, <1>4, <1>5 DEF SafeInv

LEMMA DeleteFileSafe ==
  ASSUME TypeOK, SafeInv, NEW n \in Node, NEW t \in Tag, DeleteFile(n, t)
  PROVE  SafeInv'
<1>1. Grow
  BY DEF DeleteFile, stored, threads, state, mat, budget, Grow, TypeOK, StoreType
<1>2. UNCHANGED <<merged, adding, hook, jobs, matrix, disk>>
  BY DEF DeleteFile, stored, threads, state, mat, budget
<1>3. OwnerHas' /\ AddingOK' /\ HookOK' /\ JobsOK' /\ FinishedWasHeld'
  BY <1>1, <1>2, OwnerHasFrame, AddingFrame, HookFrame, JobsFrame, FinishedFrame DEF SafeInv
<1>4. BlocksOK'
  BY <1>1 DEF DeleteFile, SafeInv, BlocksOK, Grow, TypeOK, StoreType
<1> QED BY <1>3, <1>4 DEF SafeInv

LEMMA DeleteTagSafe ==
  ASSUME TypeOK, SafeInv, NEW n \in Node, NEW t \in Tag, DeleteTag(n, t)
  PROVE  SafeInv'
<1>1. Grow
  BY DEF DeleteTag, Tombstone, stored, threads, state, mat, budget, Grow, TypeOK, StoreType
<1>2. UNCHANGED <<merged, adding, hook, jobs, blocks, matrix, disk>>
  BY DEF DeleteTag, Tombstone, stored, threads, state, mat, budget
<1>3. OwnerHas' /\ AddingOK' /\ HookOK' /\ JobsOK' /\ BlocksOK' /\ FinishedWasHeld'
  BY <1>1, <1>2, OwnerHasFrame, AddingFrame, HookFrame, JobsFrame, BlocksFrame, FinishedFrame DEF SafeInv
<1> QED BY <1>3 DEF SafeInv

LEMMA MergeDeleteSafe ==
  ASSUME TypeOK, SafeInv, NEW n \in Node, NEW t \in Tag, MergeDelete(n, t)
  PROVE  SafeInv'
<1>1. Grow
  BY DEF MergeDelete, Tombstone, stored, threads, state, mat, budget, Grow, TypeOK, StoreType
<1>2. UNCHANGED <<merged, adding, hook, jobs, blocks, matrix, disk>>
  BY DEF MergeDelete, Tombstone, stored, threads, state, mat, budget
<1>3. OwnerHas' /\ AddingOK' /\ HookOK' /\ JobsOK' /\ BlocksOK' /\ FinishedWasHeld'
  BY <1>1, <1>2, OwnerHasFrame, AddingFrame, HookFrame, JobsFrame, BlocksFrame, FinishedFrame DEF SafeInv
<1> QED BY <1>3 DEF SafeInv

LEMMA DelHookAddSafe ==
  ASSUME TypeOK, SafeInv, NEW n \in Node, DelHookAdd(n)
  PROVE  SafeInv'
<1>1. Grow
  BY DEF DelHookAdd, stored, threads, state, mat, budget, Grow, TypeOK, StoreType
<1>2. UNCHANGED <<merged, adding, hook, jobs, blocks, matrix, disk>>
  BY DEF DelHookAdd, stored, threads, state, mat, budget
<1>3. OwnerHas' /\ AddingOK' /\ HookOK' /\ JobsOK' /\ BlocksOK' /\ FinishedWasHeld'
  BY <1>1, <1>2, OwnerHasFrame, AddingFrame, HookFrame, JobsFrame, BlocksFrame, FinishedFrame DEF SafeInv
<1> QED BY <1>3 DEF SafeInv

LEMMA DelHookTruncateSafe ==
  ASSUME TypeOK, SafeInv, NEW n \in Node, DelHookTruncate(n)
  PROVE  SafeInv'
<1>1. Grow
  BY DEF DelHookTruncate, stored, threads, state, mat, budget, Grow, TypeOK, StoreType
<1>2. UNCHANGED <<merged, adding, hook, jobs, blocks, matrix, disk>>
  BY DEF DelHookTruncate, stored, threads, state, mat, budget
<1>3. OwnerHas' /\ AddingOK' /\ HookOK' /\ JobsOK' /\ BlocksOK' /\ FinishedWasHeld'
  BY <1>1, <1>2, OwnerHasFrame, AddingFrame, HookFrame, JobsFrame, BlocksFrame, FinishedFrame DEF SafeInv
<1> QED BY <1>3 DEF SafeInv

LEMMA DelHookWriteSafe ==
  ASSUME TypeOK, SafeInv, NEW n \in Node, DelHookWrite(n)
  PROVE  SafeInv'
<1>1. Grow
  BY DEF DelHookWrite, WriteState, stored, threads, state, mat, budget, Grow, TypeOK, StoreType
<1>2. UNCHANGED <<merged, adding, hook, jobs, blocks, matrix, disk>>
  BY DEF DelHookWrite, WriteState, stored, threads, state, mat, budget
<1>3. OwnerHas' /\ AddingOK' /\ HookOK' /\ JobsOK' /\ BlocksOK' /\ FinishedWasHeld'
  BY <1>1, <1>2, OwnerHasFrame, AddingFrame, HookFrame, JobsFrame, BlocksFrame, FinishedFrame DEF SafeInv
<1> QED BY <1>3 DEF SafeInv

LEMMA StartTaskSafe ==
  ASSUME TypeOK, SafeInv, NEW n \in Node, NEW s \in Slots, StartTask(n, s)
  PROVE  SafeInv'
<1>1. Grow
  BY DEF StartTask, JobFrame, stored, threads, state, mat, budget, Grow, TypeOK, StoreType
<1>2. UNCHANGED <<merged, adding, hook, blocks, matrix, disk>>
  BY DEF StartTask, JobFrame, stored, threads, state, mat, budget
<1>3. OwnerHas' /\ AddingOK' /\ HookOK' /\ BlocksOK' /\ FinishedWasHeld'
  BY <1>1, <1>2, OwnerHasFrame, AddingFrame, HookFrame, BlocksFrame, FinishedFrame DEF SafeInv
<1>4. JobsOK'
  <2> DEFINE job == [jobs[n][s] EXCEPT !.g = "launched", !.t = "queued"]
  <2>1. SetJob(n, s, job)
    BY DEF StartTask
  <2>2. jobs[n][s] \in Job /\ JobOK(n, jobs[n][s])
    BY JobFacts DEF SafeInv, JobsOK
  <2>3. job.c = jobs[n][s].c /\ job.t = "queued"
    BY <2>2 DEF Job
  <2>4. job.c # None => job.c \in merged'[OwnerOf[job.c]]
    BY <1>1, <2>2, <2>3, JobFacts DEF JobOK, Grow
  <2>5. job.t \in Past => HashOf[job.c] \in obtained'[n]
    BY <1>1, <2>2, <2>3 DEF Past
  <2> HIDE DEF job
  <2> QED BY <1>1, <2>1, <2>4, <2>5, SetJobOK DEF SafeInv
<1> QED BY <1>3, <1>4 DEF SafeInv

LEMMA TaskRefusedSafe ==
  ASSUME TypeOK, SafeInv, NEW n \in Node, NEW s \in Slots, TaskRefused(n, s)
  PROVE  SafeInv'
<1>1. Grow
  BY DEF TaskRefused, JobFrame, stored, threads, state, mat, budget, Grow, TypeOK, StoreType
<1>2. UNCHANGED <<merged, adding, hook, blocks, matrix, disk>>
  BY DEF TaskRefused, JobFrame, stored, threads, state, mat, budget
<1>3. OwnerHas' /\ AddingOK' /\ HookOK' /\ BlocksOK' /\ FinishedWasHeld'
  BY <1>1, <1>2, OwnerHasFrame, AddingFrame, HookFrame, BlocksFrame, FinishedFrame DEF SafeInv
<1>4. JobsOK'
  <2>1. SetJob(n, s, NoJob)
    BY DEF TaskRefused
  <2>2. NoJob.c = None /\ NoJob.t \notin Past
    BY DEF NoJob, Past
  <2> QED BY <1>1, <2>1, <2>2, SetJobOK DEF SafeInv
<1> QED BY <1>3, <1>4 DEF SafeInv

LEMMA DownloadStartedSafe ==
  ASSUME TypeOK, SafeInv, NEW n \in Node, NEW s \in Slots, DownloadStarted(n, s)
  PROVE  SafeInv'
<1>1. Grow
  BY DEF DownloadStarted, JobFrame, stored, threads, state, mat, budget, Grow, TypeOK, StoreType
<1>2. UNCHANGED <<merged, adding, hook, blocks>>
  BY DEF DownloadStarted, JobFrame, stored, threads, state, mat, budget
<1>3. OwnerHas' /\ AddingOK' /\ HookOK' /\ BlocksOK'
  BY <1>1, <1>2, OwnerHasFrame, AddingFrame, HookFrame, BlocksFrame DEF SafeInv
<1>4. JobsOK'
  <2> DEFINE job == [jobs[n][s] EXCEPT !.g = "over"]
  <2>1. SetJob(n, s, job)
    BY DEF DownloadStarted
  <2>2. jobs[n][s] \in Job /\ JobOK(n, jobs[n][s])
    BY JobFacts DEF SafeInv, JobsOK
  <2>3. job.c = jobs[n][s].c /\ job.t = jobs[n][s].t
    BY <2>2 DEF Job
  <2>4. job.c # None => job.c \in merged'[OwnerOf[job.c]]
    BY <1>1, <2>2, <2>3, JobFacts DEF JobOK, Grow
  <2>5. job.t \in Past => HashOf[job.c] \in obtained'[n]
    BY <1>1, <2>2, <2>3 DEF JobOK, Grow
  <2> HIDE DEF job
  <2> QED BY <1>1, <2>1, <2>4, <2>5, SetJobOK DEF SafeInv
<1>5. FinishedWasHeld'
  <2> DEFINE c == jobs[n][s].c
             e == [matrix[n][HashOf[c]] EXCEPT !.tag = TagOf[c]]
  <2>1. HashOf[c] \in Hash
    BY JobFacts, ContentAssumption DEF DownloadStarted
  <2>2. SetEntry(n, HashOf[c], e) /\ disk' = disk
    BY DEF DownloadStarted
  <2>3. matrix[n][HashOf[c]] \in Entry
    BY <2>1 DEF TypeOK, JobType
  <2>4. e.done => HashOf[c] \in obtained'[n]
    BY <1>1, <2>1, <2>3 DEF Entry, SafeInv, FinishedWasHeld, Grow
  <2> HIDE DEF e, c
  <2> QED BY <1>1, <2>1, <2>2, <2>4, SetEntryOK DEF SafeInv
<1> QED BY <1>3, <1>4, <1>5 DEF SafeInv

LEMMA FetchSafe ==
  ASSUME TypeOK, SafeInv, NEW n \in Node, NEW s \in Slots, Fetch(n, s)
  PROVE  SafeInv'
<1>1. Grow
  BY DEF Fetch, JobFrame, stored, threads, state, mat, budget, Grow, TypeOK, StoreType
<1>2. UNCHANGED <<merged, adding, hook, matrix, disk>>
  BY DEF Fetch, JobFrame, stored, threads, state, mat, budget
<1>3. OwnerHas' /\ AddingOK' /\ HookOK' /\ FinishedWasHeld'
  BY <1>1, <1>2, OwnerHasFrame, AddingFrame, HookFrame, FinishedFrame DEF SafeInv
<1>4. JobsOK'
  <2> DEFINE job == [jobs[n][s] EXCEPT !.t = "fetched"]
  <2>1. SetJob(n, s, job)
    BY DEF Fetch
  <2>2. jobs[n][s] \in Job /\ JobOK(n, jobs[n][s])
    BY JobFacts DEF SafeInv, JobsOK
  <2>3. job.c = jobs[n][s].c /\ job.t = "fetched"
    BY <2>2 DEF Job
  <2>4. job.c # None => job.c \in merged'[OwnerOf[job.c]]
    BY <1>1, <2>2, <2>3, JobFacts DEF JobOK, Grow
  <2>5. job.t \in Past => HashOf[job.c] \in obtained'[n]
    BY <1>1, <2>2, <2>3 DEF Fetch, TypeOK, StoreType
  <2> HIDE DEF job
  <2> QED BY <1>1, <2>1, <2>4, <2>5, SetJobOK DEF SafeInv
<1>5. BlocksOK'
  BY <1>1 DEF Fetch, SafeInv, BlocksOK, TypeOK, StoreType
<1> QED BY <1>3, <1>4, <1>5 DEF SafeInv

LEMMA FetchFailsSafe ==
  ASSUME TypeOK, SafeInv, NEW n \in Node, NEW s \in Slots, FetchFails(n, s)
  PROVE  SafeInv'
<1>1. Grow
  BY DEF FetchFails, JobFrame, stored, threads, state, mat, budget, Grow, TypeOK, StoreType
<1>2. UNCHANGED <<merged, adding, hook, blocks, matrix, disk>>
  BY DEF FetchFails, JobFrame, stored, threads, state, mat, budget
<1>3. OwnerHas' /\ AddingOK' /\ HookOK' /\ BlocksOK' /\ FinishedWasHeld'
  BY <1>1, <1>2, OwnerHasFrame, AddingFrame, HookFrame, BlocksFrame, FinishedFrame DEF SafeInv
<1>4. JobsOK'
  <2> DEFINE job == [jobs[n][s] EXCEPT !.t = "over"]
  <2>1. SetJob(n, s, job)
    BY DEF FetchFails
  <2>2. jobs[n][s] \in Job /\ JobOK(n, jobs[n][s])
    BY JobFacts DEF SafeInv, JobsOK
  <2>3. job.c = jobs[n][s].c /\ job.t = "over"
    BY <2>2 DEF Job
  <2>4. job.c # None => job.c \in merged'[OwnerOf[job.c]]
    BY <1>1, <2>2, <2>3, JobFacts DEF JobOK, Grow
  <2>5. job.t \in Past => HashOf[job.c] \in obtained'[n]
    BY <1>1, <2>2, <2>3 DEF Past
  <2> HIDE DEF job
  <2> QED BY <1>1, <2>1, <2>4, <2>5, SetJobOK DEF SafeInv
<1> QED BY <1>3, <1>4 DEF SafeInv

LEMMA DirectoryFailsSafe ==
  ASSUME TypeOK, SafeInv, NEW n \in Node, NEW s \in Slots, DirectoryFails(n, s)
  PROVE  SafeInv'
<1>1. Grow
  BY DEF DirectoryFails, JobFrame, stored, threads, state, mat, budget, Grow, TypeOK, StoreType
<1>2. UNCHANGED <<merged, adding, hook, blocks, matrix, disk>>
  BY DEF DirectoryFails, JobFrame, stored, threads, state, mat, budget
<1>3. OwnerHas' /\ AddingOK' /\ HookOK' /\ BlocksOK' /\ FinishedWasHeld'
  BY <1>1, <1>2, OwnerHasFrame, AddingFrame, HookFrame, BlocksFrame, FinishedFrame DEF SafeInv
<1>4. JobsOK'
  <2> DEFINE job == [jobs[n][s] EXCEPT !.t = "over"]
  <2>1. SetJob(n, s, job)
    BY DEF DirectoryFails
  <2>2. jobs[n][s] \in Job /\ JobOK(n, jobs[n][s])
    BY JobFacts DEF SafeInv, JobsOK
  <2>3. job.c = jobs[n][s].c /\ job.t = "over"
    BY <2>2 DEF Job
  <2>4. job.c # None => job.c \in merged'[OwnerOf[job.c]]
    BY <1>1, <2>2, <2>3, JobFacts DEF JobOK, Grow
  <2>5. job.t \in Past => HashOf[job.c] \in obtained'[n]
    BY <1>1, <2>2, <2>3 DEF Past
  <2> HIDE DEF job
  <2> QED BY <1>1, <2>1, <2>4, <2>5, SetJobOK DEF SafeInv
<1> QED BY <1>3, <1>4 DEF SafeInv

LEMMA DownloadFinishedSafe ==
  ASSUME TypeOK, SafeInv, NEW n \in Node, NEW s \in Slots, DownloadFinished(n, s)
  PROVE  SafeInv'
<1>1. Grow
  BY DEF DownloadFinished, JobFrame, stored, threads, state, mat, budget, Grow, TypeOK, StoreType
<1>2. UNCHANGED <<merged, adding, hook, blocks>>
  BY DEF DownloadFinished, JobFrame, stored, threads, state, mat, budget
<1>3. OwnerHas' /\ AddingOK' /\ HookOK' /\ BlocksOK'
  BY <1>1, <1>2, OwnerHasFrame, AddingFrame, HookFrame, BlocksFrame DEF SafeInv
<1>4. JobsOK'
  <2> DEFINE job == [jobs[n][s] EXCEPT !.t = "finished"]
  <2>1. SetJob(n, s, job)
    BY DEF DownloadFinished
  <2>2. jobs[n][s] \in Job /\ JobOK(n, jobs[n][s])
    BY JobFacts DEF SafeInv, JobsOK
  <2>3. job.c = jobs[n][s].c /\ job.t = "finished"
    BY <2>2 DEF Job
  <2>4. job.c # None => job.c \in merged'[OwnerOf[job.c]]
    BY <1>1, <2>2, <2>3, JobFacts DEF JobOK, Grow
  <2>5. job.t \in Past => HashOf[job.c] \in obtained'[n]
    BY <1>1, <2>2, <2>3 DEF DownloadFinished, JobOK, Past, Grow
  <2> HIDE DEF job
  <2> QED BY <1>1, <2>1, <2>4, <2>5, SetJobOK DEF SafeInv
<1>5. FinishedWasHeld'
  <2> DEFINE h == HashOf[jobs[n][s].c]
             e == [matrix[n][h] EXCEPT !.done = TRUE]
  <2>1. h \in Hash
    BY JobFacts, ContentAssumption DEF DownloadFinished
  <2>2. SetEntry(n, h, e) /\ disk' = disk
    BY DEF DownloadFinished
  <2>3. JobOK(n, jobs[n][s])
    BY DEF SafeInv, JobsOK
  <2>4. h \in obtained'[n]
    BY <1>1, <2>3 DEF DownloadFinished, JobOK, Past, Grow
  <2> HIDE DEF e, h
  <2> QED BY <1>1, <2>1, <2>2, <2>4, SetEntryOK DEF SafeInv
<1> QED BY <1>3, <1>4, <1>5 DEF SafeInv

LEMMA CallbackAddSafe ==
  ASSUME TypeOK, SafeInv, NEW n \in Node, NEW s \in Slots, CallbackAdd(n, s)
  PROVE  SafeInv'
<1>1. Grow
  BY DEF CallbackAdd, JobFrame, AddToState, stored, threads, state, mat, budget, Grow, TypeOK, StoreType
<1>2. UNCHANGED <<merged, adding, hook, blocks, matrix, disk>>
  BY DEF CallbackAdd, JobFrame, AddToState, stored, threads, state, mat, budget
<1>3. OwnerHas' /\ AddingOK' /\ HookOK' /\ BlocksOK' /\ FinishedWasHeld'
  BY <1>1, <1>2, OwnerHasFrame, AddingFrame, HookFrame, BlocksFrame, FinishedFrame DEF SafeInv
<1>4. JobsOK'
  <2> DEFINE job == [jobs[n][s] EXCEPT !.t = "writing"]
  <2>1. SetJob(n, s, job)
    BY DEF CallbackAdd
  <2>2. jobs[n][s] \in Job /\ JobOK(n, jobs[n][s])
    BY JobFacts DEF SafeInv, JobsOK
  <2>3. job.c = jobs[n][s].c /\ job.t = "writing"
    BY <2>2 DEF Job
  <2>4. job.c # None => job.c \in merged'[OwnerOf[job.c]]
    BY <1>1, <2>2, <2>3, JobFacts DEF JobOK, Grow
  <2>5. job.t \in Past => HashOf[job.c] \in obtained'[n]
    BY <1>1, <2>2, <2>3 DEF CallbackAdd, JobOK, Past, Grow
  <2> HIDE DEF job
  <2> QED BY <1>1, <2>1, <2>4, <2>5, SetJobOK DEF SafeInv
<1> QED BY <1>3, <1>4 DEF SafeInv

LEMMA CallbackWriteSafe ==
  ASSUME TypeOK, SafeInv, NEW n \in Node, NEW s \in Slots, CallbackWrite(n, s)
  PROVE  SafeInv'
<1>1. Grow
  BY DEF CallbackWrite, JobFrame, WriteState, stored, threads, state, mat, budget, Grow, TypeOK, StoreType
<1>2. UNCHANGED <<merged, adding, hook, blocks, matrix, disk>>
  BY DEF CallbackWrite, JobFrame, WriteState, stored, threads, state, mat, budget
<1>3. OwnerHas' /\ AddingOK' /\ HookOK' /\ BlocksOK' /\ FinishedWasHeld'
  BY <1>1, <1>2, OwnerHasFrame, AddingFrame, HookFrame, BlocksFrame, FinishedFrame DEF SafeInv
<1>4. JobsOK'
  <2> DEFINE job == [jobs[n][s] EXCEPT !.t = "over"]
  <2>1. SetJob(n, s, job)
    BY DEF CallbackWrite
  <2>2. jobs[n][s] \in Job /\ JobOK(n, jobs[n][s])
    BY JobFacts DEF SafeInv, JobsOK
  <2>3. job.c = jobs[n][s].c /\ job.t = "over"
    BY <2>2 DEF Job
  <2>4. job.c # None => job.c \in merged'[OwnerOf[job.c]]
    BY <1>1, <2>2, <2>3, JobFacts DEF JobOK, Grow
  <2>5. job.t \in Past => HashOf[job.c] \in obtained'[n]
    BY <1>1, <2>2, <2>3 DEF Past
  <2> HIDE DEF job
  <2> QED BY <1>1, <2>1, <2>4, <2>5, SetJobOK DEF SafeInv
<1> QED BY <1>3, <1>4 DEF SafeInv

LEMMA MeetSafe ==
  ASSUME TypeOK, SafeInv, NEW n \in Node, NEW m \in Node, Meet(n, m)
  PROVE  SafeInv'
<1>1. Grow
  BY DEF Meet, stored, threads, state, mat, budget, Grow, TypeOK, StoreType
<1>2. UNCHANGED <<merged, adding, hook, jobs, blocks, matrix, disk>>
  BY DEF Meet, stored, threads, state, mat, budget
<1>3. OwnerHas' /\ AddingOK' /\ HookOK' /\ JobsOK' /\ BlocksOK' /\ FinishedWasHeld'
  BY <1>1, <1>2, OwnerHasFrame, AddingFrame, HookFrame, JobsFrame, BlocksFrame, FinishedFrame DEF SafeInv
<1> QED BY <1>3 DEF SafeInv

LEMMA PartSafe ==
  ASSUME TypeOK, SafeInv, NEW n \in Node, NEW m \in Node, Part(n, m)
  PROVE  SafeInv'
<1>1. Grow
  BY DEF Part, stored, threads, state, mat, budget, Grow, TypeOK, StoreType
<1>2. UNCHANGED <<merged, adding, hook, jobs, blocks, matrix, disk>>
  BY DEF Part, stored, threads, state, mat, budget
<1>3. OwnerHas' /\ AddingOK' /\ HookOK' /\ JobsOK' /\ BlocksOK' /\ FinishedWasHeld'
  BY <1>1, <1>2, OwnerHasFrame, AddingFrame, HookFrame, JobsFrame, BlocksFrame, FinishedFrame DEF SafeInv
<1> QED BY <1>3 DEF SafeInv

LEMMA ResumeVisitSafe ==
  ASSUME TypeOK, SafeInv, NEW n \in Node, NEW h \in Hash, ResumeVisit(n, h)
  PROVE  SafeInv'
<1>1. Grow
  BY DEF ResumeVisit, stored, threads, state, mat, budget, Grow, TypeOK, StoreType
<1>2. UNCHANGED <<merged, adding, hook, blocks>>
  BY DEF ResumeVisit, stored, threads, state, mat, budget
<1>3. OwnerHas' /\ AddingOK' /\ HookOK' /\ BlocksOK'
  BY <1>1, <1>2, OwnerHasFrame, AddingFrame, HookFrame, BlocksFrame DEF SafeInv
<1>4. JobsOK'
  <2>1. CASE jobs' = jobs
    BY <1>1, <2>1, JobsFrame DEF SafeInv
  <2>2. CASE \E c \in FindTag(n, matrix[n][h].tag) : Spawn(n, c)
    <3>1. PICK c \in FindTag(n, matrix[n][h].tag) : Spawn(n, c)
      BY <2>2
    <3>2. c \in Content /\ c \in merged[OwnerOf[c]] /\ disk' = disk
      BY DEF FindTag, InSet, SafeInv, OwnerHas, TypeOK, StoreType, ResumeVisit
    <3> QED BY <1>1, <3>1, <3>2, SpawnOK DEF SafeInv
  <2> QED BY <2>1, <2>2 DEF ResumeVisit
<1>5. FinishedWasHeld'
  <2>1. CASE matrix' = matrix
    BY <1>1, <2>1, FinishedFrame DEF SafeInv, ResumeVisit
  <2>2. CASE \E c \in FindTag(n, matrix[n][h].tag) : Spawn(n, c)
    <3>1. PICK c \in FindTag(n, matrix[n][h].tag) : Spawn(n, c)
      BY <2>2
    <3>2. c \in Content /\ c \in merged[OwnerOf[c]] /\ disk' = disk
      BY DEF FindTag, InSet, SafeInv, OwnerHas, TypeOK, StoreType, ResumeVisit
    <3> QED BY <1>1, <3>1, <3>2, SpawnOK DEF SafeInv
  <2> QED BY <2>1, <2>2 DEF ResumeVisit
<1> QED BY <1>3, <1>4, <1>5 DEF SafeInv

LEMMA FlushSafe ==
  ASSUME TypeOK, SafeInv, NEW n \in Node, Flush(n)
  PROVE  SafeInv'
<1>1. Grow
  BY DEF Flush, stored, threads, state, mat, budget, Grow, TypeOK, StoreType
<1>2. UNCHANGED <<merged, adding, hook, jobs, blocks>>
  BY DEF Flush, stored, threads, state, mat, budget
<1>3. OwnerHas' /\ AddingOK' /\ HookOK' /\ JobsOK' /\ BlocksOK'
  BY <1>1, <1>2, OwnerHasFrame, AddingFrame, HookFrame, JobsFrame, BlocksFrame DEF SafeInv
<1>4. FinishedWasHeld'
  BY <1>1 DEF Flush, SafeInv, FinishedWasHeld, Grow, TypeOK, JobType
<1> QED BY <1>3, <1>4 DEF SafeInv

LEMMA HaltSafe ==
  ASSUME TypeOK, SafeInv, NEW n \in Node, Halt(n)
  PROVE  SafeInv'
<1>1. Grow
  BY DEF Halt, stored, threads, state, mat, budget, Grow, TypeOK, StoreType
<1>2. UNCHANGED <<merged, blocks>>
  BY DEF Halt, stored, threads, state, mat, budget
<1>3. OwnerHas' /\ BlocksOK'
  BY <1>1, <1>2, OwnerHasFrame, BlocksFrame DEF SafeInv
<1>4. AddingOK'
  BY <1>1 DEF Halt, SafeInv, AddingOK, Grow, TypeOK, ThreadType
<1>5. HookOK'
  <2>1. \A k \in Node : hook'[k] = hook[k] \/ (k = n /\ hook'[k].pc = "idle")
    BY DEF Halt, TypeOK, ThreadType, Hook, IdleHook
  <2>2. \A k \in Node : hook[k].pc # "idle" => OwnerOf[hook[k].c] \in Node
    BY ContentAssumption DEF TypeOK, ThreadType, Hook
  <2> QED BY <1>1, <2>1, <2>2 DEF HookOK, SafeInv, Grow
<1>6. JobsOK'
  <2>1. \A k \in Node, s \in Slots : jobs'[k][s] \in {jobs[k][s], NoJob}
    BY DEF Halt, TypeOK, JobType
  <2> SUFFICES ASSUME NEW k \in Node, NEW s \in Slots PROVE JobOK(k, jobs[k][s])'
    BY DEF JobsOK
  <2>2. JobOK(k, jobs[k][s])
    BY DEF SafeInv, JobsOK
  <2>3. CASE jobs'[k][s] = jobs[k][s]
    BY <1>1, <2>2, <2>3, JobFacts DEF JobOK, Grow
  <2>4. CASE jobs'[k][s] = NoJob
    BY <2>4 DEF JobOK, NoJob, Past
  <2> QED BY <2>1, <2>3, <2>4
<1>7. FinishedWasHeld'
  <2>1. \A k \in Node, h \in Hash : matrix'[k][h] \in {matrix[k][h], NoEntry}
    BY DEF Halt, TypeOK, JobType
  <2>2. disk' = disk
    BY DEF Halt
  <2>3. \A k \in Node, h \in Hash : matrix'[k][h].done => matrix[k][h].done
    <3>1. ~NoEntry.done
      BY DEF NoEntry
    <3> QED BY <2>1, <3>1, Zenon
  <2> QED BY <1>1, <2>2, <2>3 DEF SafeInv, FinishedWasHeld, Grow
<1> QED BY <1>3, <1>4, <1>5, <1>6, <1>7 DEF SafeInv

LEMMA RestartSafe ==
  ASSUME TypeOK, SafeInv, NEW n \in Node, Restart(n)
  PROVE  SafeInv'
<1>1. Grow
  BY DEF Restart, stored, threads, state, mat, budget, Grow, TypeOK, StoreType
<1>2. UNCHANGED <<merged, adding, hook, jobs, blocks>>
  BY DEF Restart, stored, threads, state, mat, budget
<1>3. OwnerHas' /\ AddingOK' /\ HookOK' /\ JobsOK' /\ BlocksOK'
  BY <1>1, <1>2, OwnerHasFrame, AddingFrame, HookFrame, JobsFrame, BlocksFrame DEF SafeInv
<1>4. FinishedWasHeld'
  BY <1>1 DEF Restart, SafeInv, FinishedWasHeld, Grow, TypeOK, JobType
<1> QED BY <1>3, <1>4 DEF SafeInv

LEMMA SafeStutter == ASSUME TypeOK, SafeInv, UNCHANGED vars PROVE SafeInv'
<1>1. Grow
  BY DEF Grow, vars, stored
<1>2. UNCHANGED <<merged, adding, hook, jobs, blocks, matrix, disk>>
  BY DEF vars, stored, threads, mat
<1> QED BY <1>1, <1>2, OwnerHasFrame, AddingFrame, HookFrame, JobsFrame, BlocksFrame,
           FinishedFrame DEF SafeInv

LEMMA SafeInit == Init => SafeInv
<1> SUFFICES ASSUME Init PROVE SafeInv
  OBVIOUS
<1>1. OwnerHas /\ AddingOK /\ BlocksOK
  BY DEF Init, OwnerHas, AddingOK, BlocksOK
<1>2. HookOK
  BY DEF Init, HookOK, IdleHook
<1>3. JobsOK
  BY DEF Init, JobsOK, JobOK, NoJob, Past
<1>4. FinishedWasHeld
  BY DEF Init, FinishedWasHeld, NoEntry
<1> QED BY <1>1, <1>2, <1>3, <1>4 DEF SafeInv

LEMMA SafeStep == TypeOK /\ SafeInv /\ [Next]_vars => SafeInv'
<1> SUFFICES ASSUME TypeOK, SafeInv, [Next]_vars PROVE SafeInv'
  OBVIOUS
<1>1. CASE UNCHANGED vars
  BY <1>1, SafeStutter
<1>2. CASE Next
  BY <1>2, NextCases, AddFileSafe, TagContentSafe, MergePutSafe, HookWriteSafe,
     HookCommitSafe, DeleteFileSafe, DeleteTagSafe, MergeDeleteSafe,
     DelHookAddSafe, DelHookTruncateSafe, DelHookWriteSafe, StartTaskSafe, TaskRefusedSafe,
     DownloadStartedSafe, FetchSafe, FetchFailsSafe, DirectoryFailsSafe,
     DownloadFinishedSafe, CallbackAddSafe, CallbackWriteSafe, MeetSafe,
     PartSafe, ResumeVisitSafe, FlushSafe, HaltSafe,
     RestartSafe
<1> QED BY <1>1, <1>2

\* SafeInv holds in every reachable state: metadata always reaches its owner's
\* store first, and no task calls back before its blocks were here.
THEOREM SafeCorrect == Spec => []SafeInv
<1>1. Init => SafeInv
  BY SafeInit
<1>2. TypeOK /\ SafeInv /\ [Next]_vars => SafeInv'
  BY SafeStep
<1> QED BY <1>1, <1>2, TypeCorrect, PTL DEF Spec

\* Whatever fails, dies or restarts, an entry that says a download finished,
\* in memory or flushed, is about blocks the node had.
THEOREM FinishedCorrect == Spec => []FinishedWasHeld
<1>1. SafeInv => FinishedWasHeld
  BY DEF SafeInv
<1> QED BY <1>1, SafeCorrect, PTL

(***************************************************************************)
(* What the filter and the state file show: AdvertisedWasHeld, for every   *)
(* instance in which content is downloaded automatically, and OwnTagsShown *)
(* for every one without deletes. Then: ContentReplication implements      *)
(* ReplicatedContent, for every instance with automatic download.          *)
(***************************************************************************)

\* A process that is down has no memory and no threads.
DownIdle ==
  \A n \in Node : ~up[n] =>
    /\ filter[n] = {} /\ resume[n] = {}
    /\ hook[n] = IdleHook /\ delHook[n] = IdleDelHook
    /\ \A s \in Slots : jobs[n][s] = NoJob

\* The words DeleteHook's Add loaded are still set when it stores its own.
SeenOK == \A n \in Node : delHook[n].pc = "adding" => delHook[n].seen \subseteq filter[n]

\* Without automatic download the filter also shows what was only merged.
Rightful == AutoDownload => AdvertisedWasHeld

ShownInv == DownIdle /\ SeenOK /\ Rightful

\* A step of n touches no other node's memory.
Elsewhere(n) ==
  \A k \in Node \ {n} :
    /\ up'[k] = up[k] /\ filter'[k] = filter[k] /\ stateFile'[k] = stateFile[k]
    /\ hook'[k] = hook[k] /\ delHook'[k] = delHook[k]
    /\ jobs'[k] = jobs[k] /\ resume'[k] = resume[k]

BackedBy(hashes, labels) ==
  \A t \in Tag : <<"tag", t>> \in labels =>
    \E c \in Content : TagOf[c] = t /\ HashOf[c] \in hashes

LEMMA BackedMore ==
  ASSUME NEW A, NEW B, NEW L, NEW M, A \subseteq B, M \subseteq L, BackedBy(A, L)
  PROVE  BackedBy(B, M)
  BY DEF BackedBy

LEMMA BackedShown ==
  ASSUME NEW A, NEW L, NEW c \in Content, HashOf[c] \in A, BackedBy(A, L)
  PROVE  BackedBy(A, L \cup {Shown(c)})
  BY DEF BackedBy, Shown

LEMMA BackedRemoved ==
  ASSUME NEW A, NEW L, NEW t, BackedBy(A, L)
  PROVE  BackedBy(A, L \cup {<<"removed", t>>})
  BY DEF BackedBy

LEMMA RightfulBy ==
  /\ Rightful <=> (AutoDownload =>
       \A n \in Node : BackedBy(obtained[n], filter[n]) /\ BackedBy(obtained[n], stateFile[n]))
  /\ Rightful' <=> (AutoDownload =>
       \A n \in Node : BackedBy(obtained'[n], filter'[n]) /\ BackedBy(obtained'[n], stateFile'[n]))
  BY DEF Rightful, AdvertisedWasHeld, Backed, BackedBy

\* It is enough to look at the node that takes the step.
LEMMA ShownLocal ==
  ASSUME ShownInv, Grow, NEW n \in Node, Elsewhere(n), up'[n],
         delHook'[n].pc = "adding" => delHook'[n].seen \subseteq filter'[n],
         AutoDownload => /\ BackedBy(obtained'[n], filter'[n])
                         /\ BackedBy(obtained'[n], stateFile'[n])
  PROVE  ShownInv'
<1>1. DownIdle'
  BY DEF ShownInv, DownIdle, Elsewhere
<1>2. SeenOK'
  BY DEF ShownInv, SeenOK, Elsewhere
<1>3. ASSUME AutoDownload, NEW k \in Node
      PROVE  BackedBy(obtained'[k], filter'[k]) /\ BackedBy(obtained'[k], stateFile'[k])
  <2>1. CASE k = n
    BY <1>3, <2>1
  <2>2. CASE k # n
    <3>1. obtained[k] \subseteq obtained'[k]
      BY DEF Grow
    <3>2. BackedBy(obtained[k], filter[k]) /\ BackedBy(obtained[k], stateFile[k])
      BY <1>3, RightfulBy DEF ShownInv
    <3>3. filter'[k] = filter[k] /\ stateFile'[k] = stateFile[k]
      BY <2>2 DEF Elsewhere
    <3> QED BY <3>1, <3>2, <3>3, BackedMore
  <2> QED BY <2>1, <2>2
<1>4. Rightful'
  BY <1>3, RightfulBy
<1> QED BY <1>1, <1>2, <1>4 DEF ShownInv

\* A step that leaves the filter alone, and at most saves it.
LEMMA ShownFrame ==
  ASSUME ShownInv, Grow, NEW n \in Node, Elsewhere(n), up'[n], filter'[n] = filter[n],
         stateFile'[n] = stateFile[n] \/ stateFile'[n] = filter[n],
         \/ delHook'[n] = delHook[n] \/ delHook'[n].pc # "adding"
         \/ delHook'[n].seen = filter[n]
  PROVE  ShownInv'
<1>1. ASSUME AutoDownload
      PROVE  BackedBy(obtained'[n], filter'[n]) /\ BackedBy(obtained'[n], stateFile'[n])
  <2>1. BackedBy(obtained[n], filter[n]) /\ BackedBy(obtained[n], stateFile[n])
    BY <1>1, RightfulBy DEF ShownInv
  <2>2. obtained[n] \subseteq obtained'[n]
    BY DEF Grow
  <2> QED BY <2>1, <2>2, BackedMore
<1>2. delHook'[n].pc = "adding" => delHook'[n].seen \subseteq filter'[n]
  BY DEF ShownInv, SeenOK
<1> QED BY <1>1, <1>2, ShownLocal

\* A step that adds a tag, of content the node has.
LEMMA ShownAdd ==
  ASSUME ShownInv, Grow, NEW n \in Node, Elsewhere(n), up'[n],
         NEW c \in Content, AutoDownload => HashOf[c] \in obtained[n],
         filter'[n] = filter[n] \cup {Shown(c)}, stateFile'[n] = stateFile[n],
         delHook'[n] = delHook[n]
  PROVE  ShownInv'
<1>1. ASSUME AutoDownload
      PROVE  BackedBy(obtained'[n], filter'[n]) /\ BackedBy(obtained'[n], stateFile'[n])
  <2>1. BackedBy(obtained[n], filter[n]) /\ BackedBy(obtained[n], stateFile[n])
    BY <1>1, RightfulBy DEF ShownInv
  <2>2. obtained[n] \subseteq obtained'[n]
    BY DEF Grow
  <2>3. BackedBy(obtained[n], filter'[n])
    BY <1>1, <2>1, BackedShown
  <2> QED BY <2>1, <2>2, <2>3, BackedMore
<1>2. delHook'[n].pc = "adding" => delHook'[n].seen \subseteq filter'[n]
  BY DEF ShownInv, SeenOK
<1> QED BY <1>1, <1>2, ShownLocal

LEMMA IdlePc == IdleHook.pc = "idle" /\ IdleDelHook.pc = "idle"
  BY DEF IdleHook, IdleDelHook

\* A thread runs only in a running process.
LEMMA ActiveUp ==
  ASSUME ShownInv, NEW n \in Node,
         \/ hook[n].pc # "idle" \/ delHook[n].pc # "idle" \/ resume[n] # {}
         \/ \E s \in Slots : jobs[n][s].g # "over" \/ jobs[n][s].t # "over"
  PROVE  up[n]
<1>1. NoJob.g = "over" /\ NoJob.t = "over"
  BY DEF NoJob
<1> QED BY <1>1, IdlePc DEF ShownInv, DownIdle

(* ------------------------------ the steps ------------------------------ *)


LEMMA AddFileShown ==
  ASSUME TypeOK, SafeInv, ShownInv, Grow, NEW n \in Node, NEW c \in Content, AddFile(n, c)
  PROVE  ShownInv'
<1>1. Elsewhere(n)
  BY DEF AddFile, stored, threads, state, mat, Elsewhere, TypeOK, StoreType, ThreadType, JobType, StateType
<1>2. up'[n]
  BY DEF AddFile
<1>3. filter'[n] = filter[n] /\ (stateFile'[n] = stateFile[n] \/ stateFile'[n] = filter[n])
  BY DEF AddFile, stored, threads, state, mat, TypeOK, StateType
<1>4. \/ delHook'[n] = delHook[n] \/ delHook'[n].pc # "adding"
      \/ delHook'[n].seen = filter[n]
  BY DEF AddFile, stored, threads, state, mat, TypeOK, ThreadType
<1> QED BY <1>1, <1>2, <1>3, <1>4, ShownFrame

LEMMA HookWriteShown ==
  ASSUME TypeOK, SafeInv, ShownInv, Grow, NEW n \in Node, HookWrite(n)
  PROVE  ShownInv'
<1>1. Elsewhere(n)
  BY DEF HookWrite, WriteState, stored, threads, state, mat, Elsewhere, TypeOK, StoreType, ThreadType, JobType, StateType
<1>2. up'[n]
  BY ActiveUp DEF HookWrite, WriteState
<1>3. filter'[n] = filter[n] /\ (stateFile'[n] = stateFile[n] \/ stateFile'[n] = filter[n])
  BY DEF HookWrite, WriteState, stored, threads, state, mat, TypeOK, StateType
<1>4. \/ delHook'[n] = delHook[n] \/ delHook'[n].pc # "adding"
      \/ delHook'[n].seen = filter[n]
  BY DEF HookWrite, WriteState, stored, threads, state, mat, TypeOK, ThreadType
<1> QED BY <1>1, <1>2, <1>3, <1>4, ShownFrame

LEMMA HookCommitShown ==
  ASSUME TypeOK, SafeInv, ShownInv, Grow, NEW n \in Node, HookCommit(n)
  PROVE  ShownInv'
<1>1. Elsewhere(n)
  BY DEF HookCommit, stored, threads, state, mat, Elsewhere, TypeOK, StoreType, ThreadType, JobType, StateType
<1>2. up'[n]
  BY ActiveUp DEF HookCommit
<1>3. filter'[n] = filter[n] /\ (stateFile'[n] = stateFile[n] \/ stateFile'[n] = filter[n])
  BY DEF HookCommit, stored, threads, state, mat, TypeOK, StateType
<1>4. \/ delHook'[n] = delHook[n] \/ delHook'[n].pc # "adding"
      \/ delHook'[n].seen = filter[n]
  BY DEF HookCommit, stored, threads, state, mat, TypeOK, ThreadType
<1> QED BY <1>1, <1>2, <1>3, <1>4, ShownFrame

LEMMA DeleteFileShown ==
  ASSUME TypeOK, SafeInv, ShownInv, Grow, NEW n \in Node, NEW t \in Tag, DeleteFile(n, t)
  PROVE  ShownInv'
<1>1. Elsewhere(n)
  BY DEF DeleteFile, stored, threads, state, mat, Elsewhere, TypeOK, StoreType, ThreadType, JobType, StateType
<1>2. up'[n]
  BY DEF DeleteFile
<1>3. filter'[n] = filter[n] /\ (stateFile'[n] = stateFile[n] \/ stateFile'[n] = filter[n])
  BY DEF DeleteFile, stored, threads, state, mat, TypeOK, StateType
<1>4. \/ delHook'[n] = delHook[n] \/ delHook'[n].pc # "adding"
      \/ delHook'[n].seen = filter[n]
  BY DEF DeleteFile, stored, threads, state, mat, TypeOK, ThreadType
<1> QED BY <1>1, <1>2, <1>3, <1>4, ShownFrame

LEMMA DeleteTagShown ==
  ASSUME TypeOK, SafeInv, ShownInv, Grow, NEW n \in Node, NEW t \in Tag, DeleteTag(n, t)
  PROVE  ShownInv'
<1>1. Elsewhere(n)
  BY DEF DeleteTag, Tombstone, stored, threads, state, mat, Elsewhere, TypeOK, StoreType, ThreadType, JobType, StateType
<1>2. up'[n]
  BY DEF DeleteTag, Tombstone
<1>3. filter'[n] = filter[n] /\ (stateFile'[n] = stateFile[n] \/ stateFile'[n] = filter[n])
  BY DEF DeleteTag, Tombstone, stored, threads, state, mat, TypeOK, StateType
<1>4. \/ delHook'[n] = delHook[n] \/ delHook'[n].pc # "adding"
      \/ delHook'[n].seen = filter[n]
  BY DEF DeleteTag, Tombstone, stored, threads, state, mat, TypeOK, ThreadType
<1> QED BY <1>1, <1>2, <1>3, <1>4, ShownFrame

LEMMA MergeDeleteShown ==
  ASSUME TypeOK, SafeInv, ShownInv, Grow, NEW n \in Node, NEW t \in Tag, MergeDelete(n, t)
  PROVE  ShownInv'
<1>1. Elsewhere(n)
  BY DEF MergeDelete, Tombstone, stored, threads, state, mat, Elsewhere, TypeOK, StoreType, ThreadType, JobType, StateType
<1>2. up'[n]
  BY DEF MergeDelete, Tombstone
<1>3. filter'[n] = filter[n] /\ (stateFile'[n] = stateFile[n] \/ stateFile'[n] = filter[n])
  BY DEF MergeDelete, Tombstone, stored, threads, state, mat, TypeOK, StateType
<1>4. \/ delHook'[n] = delHook[n] \/ delHook'[n].pc # "adding"
      \/ delHook'[n].seen = filter[n]
  BY DEF MergeDelete, Tombstone, stored, threads, state, mat, TypeOK, ThreadType
<1> QED BY <1>1, <1>2, <1>3, <1>4, ShownFrame

LEMMA DelHookTruncateShown ==
  ASSUME TypeOK, SafeInv, ShownInv, Grow, NEW n \in Node, DelHookTruncate(n)
  PROVE  ShownInv'
<1>1. Elsewhere(n)
  BY DEF DelHookTruncate, stored, threads, state, mat, Elsewhere, TypeOK, StoreType, ThreadType, JobType, StateType
<1>2. up'[n]
  BY ActiveUp DEF DelHookTruncate
<1>3. filter'[n] = filter[n] /\ (stateFile'[n] = stateFile[n] \/ stateFile'[n] = filter[n])
  BY DEF DelHookTruncate, stored, threads, state, mat, TypeOK, StateType
<1>4. \/ delHook'[n] = delHook[n] \/ delHook'[n].pc # "adding"
      \/ delHook'[n].seen = filter[n]
  BY DEF DelHookTruncate, stored, threads, state, mat, TypeOK, ThreadType
<1> QED BY <1>1, <1>2, <1>3, <1>4, ShownFrame

LEMMA DelHookWriteShown ==
  ASSUME TypeOK, SafeInv, ShownInv, Grow, NEW n \in Node, DelHookWrite(n)
  PROVE  ShownInv'
<1>1. Elsewhere(n)
  BY DEF DelHookWrite, WriteState, IdleDelHook, stored, threads, state, mat, Elsewhere, TypeOK, StoreType, ThreadType, JobType, StateType
<1>2. up'[n]
  BY ActiveUp DEF DelHookWrite, WriteState, IdleDelHook
<1>3. filter'[n] = filter[n] /\ (stateFile'[n] = stateFile[n] \/ stateFile'[n] = filter[n])
  BY DEF DelHookWrite, WriteState, IdleDelHook, stored, threads, state, mat, TypeOK, StateType
<1>4. \/ delHook'[n] = delHook[n] \/ delHook'[n].pc # "adding"
      \/ delHook'[n].seen = filter[n]
  BY DEF DelHookWrite, WriteState, IdleDelHook, stored, threads, state, mat, TypeOK, ThreadType
<1> QED BY <1>1, <1>2, <1>3, <1>4, ShownFrame

LEMMA StartTaskShown ==
  ASSUME TypeOK, SafeInv, ShownInv, Grow, NEW n \in Node, NEW s \in Slots, StartTask(n, s)
  PROVE  ShownInv'
<1>1. Elsewhere(n)
  BY DEF StartTask, JobFrame, SetJob, stored, threads, state, mat, Elsewhere, TypeOK, StoreType, ThreadType, JobType, StateType
<1>2. up'[n]
  BY ActiveUp DEF StartTask, JobFrame, SetJob
<1>3. filter'[n] = filter[n] /\ (stateFile'[n] = stateFile[n] \/ stateFile'[n] = filter[n])
  BY DEF StartTask, JobFrame, SetJob, stored, threads, state, mat, TypeOK, StateType
<1>4. \/ delHook'[n] = delHook[n] \/ delHook'[n].pc # "adding"
      \/ delHook'[n].seen = filter[n]
  BY DEF StartTask, JobFrame, SetJob, stored, threads, state, mat, TypeOK, ThreadType
<1> QED BY <1>1, <1>2, <1>3, <1>4, ShownFrame

LEMMA TaskRefusedShown ==
  ASSUME TypeOK, SafeInv, ShownInv, Grow, NEW n \in Node, NEW s \in Slots, TaskRefused(n, s)
  PROVE  ShownInv'
<1>1. Elsewhere(n)
  BY DEF TaskRefused, JobFrame, SetJob, stored, threads, state, mat, Elsewhere, TypeOK, StoreType, ThreadType, JobType, StateType
<1>2. up'[n]
  BY ActiveUp DEF TaskRefused, JobFrame, SetJob
<1>3. filter'[n] = filter[n] /\ (stateFile'[n] = stateFile[n] \/ stateFile'[n] = filter[n])
  BY DEF TaskRefused, JobFrame, SetJob, stored, threads, state, mat, TypeOK, StateType
<1>4. \/ delHook'[n] = delHook[n] \/ delHook'[n].pc # "adding"
      \/ delHook'[n].seen = filter[n]
  BY DEF TaskRefused, JobFrame, SetJob, stored, threads, state, mat, TypeOK, ThreadType
<1> QED BY <1>1, <1>2, <1>3, <1>4, ShownFrame

LEMMA DownloadStartedShown ==
  ASSUME TypeOK, SafeInv, ShownInv, Grow, NEW n \in Node, NEW s \in Slots, DownloadStarted(n, s)
  PROVE  ShownInv'
<1>1. Elsewhere(n)
  BY DEF DownloadStarted, JobFrame, SetJob, stored, threads, state, mat, Elsewhere, TypeOK, StoreType, ThreadType, JobType, StateType
<1>2. up'[n]
  BY ActiveUp DEF DownloadStarted, JobFrame, SetJob
<1>3. filter'[n] = filter[n] /\ (stateFile'[n] = stateFile[n] \/ stateFile'[n] = filter[n])
  BY DEF DownloadStarted, JobFrame, SetJob, stored, threads, state, mat, TypeOK, StateType
<1>4. \/ delHook'[n] = delHook[n] \/ delHook'[n].pc # "adding"
      \/ delHook'[n].seen = filter[n]
  BY DEF DownloadStarted, JobFrame, SetJob, stored, threads, state, mat, TypeOK, ThreadType
<1> QED BY <1>1, <1>2, <1>3, <1>4, ShownFrame

LEMMA FetchShown ==
  ASSUME TypeOK, SafeInv, ShownInv, Grow, NEW n \in Node, NEW s \in Slots, Fetch(n, s)
  PROVE  ShownInv'
<1>1. Elsewhere(n)
  BY DEF Fetch, JobFrame, SetJob, stored, threads, state, mat, Elsewhere, TypeOK, StoreType, ThreadType, JobType, StateType
<1>2. up'[n]
  BY ActiveUp DEF Fetch, JobFrame, SetJob
<1>3. filter'[n] = filter[n] /\ (stateFile'[n] = stateFile[n] \/ stateFile'[n] = filter[n])
  BY DEF Fetch, JobFrame, SetJob, stored, threads, state, mat, TypeOK, StateType
<1>4. \/ delHook'[n] = delHook[n] \/ delHook'[n].pc # "adding"
      \/ delHook'[n].seen = filter[n]
  BY DEF Fetch, JobFrame, SetJob, stored, threads, state, mat, TypeOK, ThreadType
<1> QED BY <1>1, <1>2, <1>3, <1>4, ShownFrame

LEMMA FetchFailsShown ==
  ASSUME TypeOK, SafeInv, ShownInv, Grow, NEW n \in Node, NEW s \in Slots, FetchFails(n, s)
  PROVE  ShownInv'
<1>1. Elsewhere(n)
  BY DEF FetchFails, JobFrame, SetJob, stored, threads, state, mat, Elsewhere, TypeOK, StoreType, ThreadType, JobType, StateType
<1>2. up'[n]
  BY ActiveUp DEF FetchFails, JobFrame, SetJob
<1>3. filter'[n] = filter[n] /\ (stateFile'[n] = stateFile[n] \/ stateFile'[n] = filter[n])
  BY DEF FetchFails, JobFrame, SetJob, stored, threads, state, mat, TypeOK, StateType
<1>4. \/ delHook'[n] = delHook[n] \/ delHook'[n].pc # "adding"
      \/ delHook'[n].seen = filter[n]
  BY DEF FetchFails, JobFrame, SetJob, stored, threads, state, mat, TypeOK, ThreadType
<1> QED BY <1>1, <1>2, <1>3, <1>4, ShownFrame

LEMMA DirectoryFailsShown ==
  ASSUME TypeOK, SafeInv, ShownInv, Grow, NEW n \in Node, NEW s \in Slots, DirectoryFails(n, s)
  PROVE  ShownInv'
<1>1. Elsewhere(n)
  BY DEF DirectoryFails, JobFrame, SetJob, stored, threads, state, mat, Elsewhere, TypeOK, StoreType, ThreadType, JobType, StateType
<1>2. up'[n]
  BY ActiveUp DEF DirectoryFails, JobFrame, SetJob
<1>3. filter'[n] = filter[n] /\ (stateFile'[n] = stateFile[n] \/ stateFile'[n] = filter[n])
  BY DEF DirectoryFails, JobFrame, SetJob, stored, threads, state, mat, TypeOK, StateType
<1>4. \/ delHook'[n] = delHook[n] \/ delHook'[n].pc # "adding"
      \/ delHook'[n].seen = filter[n]
  BY DEF DirectoryFails, JobFrame, SetJob, stored, threads, state, mat, TypeOK, ThreadType
<1> QED BY <1>1, <1>2, <1>3, <1>4, ShownFrame

LEMMA DownloadFinishedShown ==
  ASSUME TypeOK, SafeInv, ShownInv, Grow, NEW n \in Node, NEW s \in Slots, DownloadFinished(n, s)
  PROVE  ShownInv'
<1>1. Elsewhere(n)
  BY DEF DownloadFinished, JobFrame, SetJob, stored, threads, state, mat, Elsewhere, TypeOK, StoreType, ThreadType, JobType, StateType
<1>2. up'[n]
  BY ActiveUp DEF DownloadFinished, JobFrame, SetJob
<1>3. filter'[n] = filter[n] /\ (stateFile'[n] = stateFile[n] \/ stateFile'[n] = filter[n])
  BY DEF DownloadFinished, JobFrame, SetJob, stored, threads, state, mat, TypeOK, StateType
<1>4. \/ delHook'[n] = delHook[n] \/ delHook'[n].pc # "adding"
      \/ delHook'[n].seen = filter[n]
  BY DEF DownloadFinished, JobFrame, SetJob, stored, threads, state, mat, TypeOK, ThreadType
<1> QED BY <1>1, <1>2, <1>3, <1>4, ShownFrame

LEMMA CallbackWriteShown ==
  ASSUME TypeOK, SafeInv, ShownInv, Grow, NEW n \in Node, NEW s \in Slots, CallbackWrite(n, s)
  PROVE  ShownInv'
<1>1. Elsewhere(n)
  BY DEF CallbackWrite, JobFrame, SetJob, WriteState, stored, threads, state, mat, Elsewhere, TypeOK, StoreType, ThreadType, JobType, StateType
<1>2. up'[n]
  BY ActiveUp DEF CallbackWrite, JobFrame, SetJob, WriteState
<1>3. filter'[n] = filter[n] /\ (stateFile'[n] = stateFile[n] \/ stateFile'[n] = filter[n])
  BY DEF CallbackWrite, JobFrame, SetJob, WriteState, stored, threads, state, mat, TypeOK, StateType
<1>4. \/ delHook'[n] = delHook[n] \/ delHook'[n].pc # "adding"
      \/ delHook'[n].seen = filter[n]
  BY DEF CallbackWrite, JobFrame, SetJob, WriteState, stored, threads, state, mat, TypeOK, ThreadType
<1> QED BY <1>1, <1>2, <1>3, <1>4, ShownFrame

LEMMA FlushShown ==
  ASSUME TypeOK, SafeInv, ShownInv, Grow, NEW n \in Node, Flush(n)
  PROVE  ShownInv'
<1>1. Elsewhere(n)
  BY DEF Flush, stored, threads, state, mat, Elsewhere, TypeOK, StoreType, ThreadType, JobType, StateType
<1>2. up'[n]
  BY DEF Flush
<1>3. filter'[n] = filter[n] /\ (stateFile'[n] = stateFile[n] \/ stateFile'[n] = filter[n])
  BY DEF Flush, stored, threads, state, mat, TypeOK, StateType
<1>4. \/ delHook'[n] = delHook[n] \/ delHook'[n].pc # "adding"
      \/ delHook'[n].seen = filter[n]
  BY DEF Flush, stored, threads, state, mat, TypeOK, ThreadType
<1> QED BY <1>1, <1>2, <1>3, <1>4, ShownFrame

LEMMA ResumeVisitShown ==
  ASSUME TypeOK, SafeInv, ShownInv, Grow, NEW n \in Node, NEW h \in Hash, ResumeVisit(n, h)
  PROVE  ShownInv'
<1>1. Elsewhere(n)
  BY DEF ResumeVisit, Spawn, SetJob, stored, threads, state, mat, Elsewhere, TypeOK, StoreType, ThreadType, JobType, StateType
<1>2. up'[n]
  BY ActiveUp DEF ResumeVisit, Spawn, SetJob
<1>3. filter'[n] = filter[n] /\ (stateFile'[n] = stateFile[n] \/ stateFile'[n] = filter[n])
  BY DEF ResumeVisit, Spawn, SetJob, stored, threads, state, mat, TypeOK, StateType
<1>4. \/ delHook'[n] = delHook[n] \/ delHook'[n].pc # "adding"
      \/ delHook'[n].seen = filter[n]
  BY DEF ResumeVisit, Spawn, SetJob, stored, threads, state, mat, TypeOK, ThreadType
<1> QED BY <1>1, <1>2, <1>3, <1>4, ShownFrame

LEMMA CallbackAddShown ==
  ASSUME TypeOK, SafeInv, ShownInv, Grow, NEW n \in Node, NEW s \in Slots, CallbackAdd(n, s)
  PROVE  ShownInv'
<1>1. Elsewhere(n)
  BY DEF CallbackAdd, JobFrame, SetJob, AddToState, stored, threads, state, mat, Elsewhere, TypeOK, StoreType, ThreadType, JobType, StateType
<1>2. up'[n]
  BY ActiveUp DEF CallbackAdd, JobFrame, SetJob, AddToState
<1>4. jobs[n][s].c \in Content /\ HashOf[jobs[n][s].c] \in obtained[n]
  BY JobFacts DEF CallbackAdd, SafeInv, JobsOK, JobOK, Past
<1>5. /\ filter'[n] = filter[n] \cup {Shown(jobs[n][s].c)}
      /\ stateFile'[n] = stateFile[n] /\ delHook'[n] = delHook[n]
  BY DEF CallbackAdd, JobFrame, AddToState, TypeOK, StateType
<1> QED BY <1>1, <1>2, <1>4, <1>5, ShownAdd

LEMMA TagContentShown ==
  ASSUME TypeOK, SafeInv, ShownInv, Grow, NEW n \in Node, NEW c \in Content, TagContent(n, c)
  PROVE  ShownInv'
<1>1. Elsewhere(n)
  BY DEF TagContent, PutHook, AddToState, Spawn, SetJob, stored, threads, state, mat, Elsewhere, TypeOK, StoreType, ThreadType, JobType, StateType
<1>2. up'[n]
  BY DEF TagContent, PutHook, AddToState, Spawn, SetJob
<1>3. OwnerOf[c] = n /\ HashOf[c] \in obtained[n]
  BY DEF TagContent, SafeInv, AddingOK
<1>4. HashOf[c] \in obtained[n]
  BY <1>3
<1>5. /\ filter'[n] = filter[n] \cup {Shown(c)}
      /\ stateFile'[n] = stateFile[n] /\ delHook'[n] = delHook[n]
  BY <1>3 DEF TagContent, PutHook, AddToState, TypeOK, StateType
<1> QED BY <1>1, <1>2, <1>4, <1>5, ShownAdd

\* A node never merges its own put from others: it is in its store before.
LEMMA MergePutOthers ==
  ASSUME SafeInv, NEW n \in Node, NEW c \in Content, MergePut(n, c)
  PROVE  OwnerOf[c] # n
  BY DEF MergePut, Peers, SafeInv, OwnerHas

\* So with automatic download a node shows nothing while it merges.
LEMMA MergePutLoads ==
  ASSUME SafeInv, AutoDownload, NEW n \in Node, NEW c \in Content, MergePut(n, c)
  PROVE  UNCHANGED <<filter, stateFile>>
  BY MergePutOthers DEF MergePut, PutHook, state

LEMMA MergePutShown ==
  ASSUME TypeOK, SafeInv, ShownInv, Grow, NEW n \in Node, NEW c \in Content, MergePut(n, c)
  PROVE  ShownInv'
<1>1. Elsewhere(n)
  BY DEF MergePut, PutHook, AddToState, Spawn, SetJob, stored, threads, state, mat, Elsewhere, TypeOK, StoreType, ThreadType, JobType, StateType
<1>2. up'[n]
  BY DEF MergePut, PutHook, AddToState, Spawn, SetJob
<1>3. delHook'[n] = delHook[n] /\ stateFile'[n] = stateFile[n]
  BY DEF MergePut, PutHook, AddToState, state
<1>4. CASE filter' = filter
  BY <1>1, <1>2, <1>3, <1>4, ShownFrame
<1>5. CASE filter' # filter
  <2>1. ~AutoDownload
    BY <1>5, MergePutLoads
  <2>2. filter'[n] = filter[n] \cup {Shown(c)}
    BY <1>5 DEF MergePut, PutHook, AddToState, state, TypeOK, StateType
  <2> QED BY <1>1, <1>2, <1>3, <2>1, <2>2, ShownAdd
<1> QED BY <1>4, <1>5

LEMMA DelHookAddShown ==
  ASSUME TypeOK, SafeInv, ShownInv, Grow, NEW n \in Node, DelHookAdd(n)
  PROVE  ShownInv'
<1>1. Elsewhere(n)
  BY DEF DelHookAdd, Elsewhere, TypeOK, StoreType, ThreadType, JobType, StateType
<1>2. up'[n] /\ stateFile'[n] = stateFile[n] /\ obtained' = obtained
  BY ActiveUp DEF DelHookAdd, stored
<1>3. delHook[n].seen \subseteq filter[n] /\ delHook'[n].pc = "added"
  BY DEF DelHookAdd, ShownInv, SeenOK, TypeOK, ThreadType
<1> DEFINE more == filter[n] \cup {<<"removed", delHook[n].t>>}
<1>4. filter'[n] \subseteq more
  BY <1>3 DEF DelHookAdd, TypeOK, StateType
<1>5. ASSUME AutoDownload
      PROVE  BackedBy(obtained'[n], filter'[n]) /\ BackedBy(obtained'[n], stateFile'[n])
  <2>1. BackedBy(obtained[n], filter[n]) /\ BackedBy(obtained[n], stateFile[n])
    BY <1>5, RightfulBy DEF ShownInv
  <2>2. BackedBy(obtained[n], more)
    BY <2>1, BackedRemoved
  <2> HIDE DEF more
  <2> QED BY <1>2, <1>4, <2>1, <2>2, BackedMore
<1> QED BY <1>1, <1>2, <1>3, <1>5, ShownLocal

LEMMA MeetShown ==
  ASSUME TypeOK, ShownInv, Grow, NEW n \in Node, NEW m \in Node, Meet(n, m)
  PROVE  ShownInv'
<1>1. UNCHANGED <<up, filter, stateFile, hook, delHook, jobs, obtained>>
  BY DEF Meet, stored, state
<1>2. \A k \in Node : ~up[k] => resume'[k] = resume[k]
  BY DEF Meet
<1>3. DownIdle' /\ SeenOK'
  BY <1>1, <1>2 DEF ShownInv, DownIdle, SeenOK
<1>4. Rightful'
  BY <1>1, RightfulBy DEF ShownInv
<1> QED BY <1>3, <1>4 DEF ShownInv

LEMMA ShownStutter ==
  ASSUME ShownInv, UNCHANGED <<up, obtained, filter, stateFile, hook, delHook, jobs, resume>>
  PROVE  ShownInv'
<1>1. DownIdle' /\ SeenOK'
  BY DEF ShownInv, DownIdle, SeenOK
<1>2. Rightful'
  BY RightfulBy DEF ShownInv
<1> QED BY <1>1, <1>2 DEF ShownInv

LEMMA PartShown ==
  ASSUME ShownInv, NEW n \in Node, NEW m \in Node, Part(n, m)
  PROVE  ShownInv'
  BY ShownStutter DEF Part, stored, threads, state

LEMMA HaltShown ==
  ASSUME TypeOK, ShownInv, Grow, NEW n \in Node, Halt(n)
  PROVE  ShownInv'
<1>1. Elsewhere(n)
  BY DEF Halt, Elsewhere, TypeOK, StoreType, ThreadType, JobType, StateType
<1>2. /\ filter'[n] = {} /\ resume'[n] = {} /\ hook'[n] = IdleHook
      /\ delHook'[n] = IdleDelHook /\ \A s \in Slots : jobs'[n][s] = NoJob
  BY DEF Halt, TypeOK, ThreadType, JobType, StateType
<1>3. stateFile' = stateFile /\ obtained' = obtained
  BY DEF Halt, stored
<1>4. DownIdle'
  BY <1>1, <1>2 DEF ShownInv, DownIdle, Elsewhere
<1>5. SeenOK'
  <2>1. delHook'[n].pc = "idle"
    BY <1>2, IdlePc
  <2> QED BY <1>1, <2>1 DEF ShownInv, SeenOK, Elsewhere
<1>6. \A k \in Node : filter'[k] = filter[k] \/ filter'[k] = {}
  BY <1>1, <1>2 DEF Elsewhere
<1>7. Rightful'
  BY <1>3, <1>6, RightfulBy DEF ShownInv, BackedBy
<1> QED BY <1>4, <1>5, <1>7 DEF ShownInv

LEMMA RestartShown ==
  ASSUME TypeOK, ShownInv, Grow, NEW n \in Node, Restart(n)
  PROVE  ShownInv'
<1>1. Elsewhere(n)
  BY DEF Restart, Elsewhere, threads, TypeOK, StoreType, StateType
<1>2. up'[n] /\ filter'[n] = stateFile[n] /\ stateFile' = stateFile /\ obtained' = obtained
  BY DEF Restart, stored, TypeOK, StoreType, StateType
<1>3. delHook'[n] = IdleDelHook
  BY DEF Restart, threads, ShownInv, DownIdle
<1>4. delHook'[n].pc = "idle"
  BY <1>3, IdlePc
<1>5. AutoDownload => /\ BackedBy(obtained'[n], filter'[n])
                      /\ BackedBy(obtained'[n], stateFile'[n])
  BY <1>2, RightfulBy DEF ShownInv
<1> QED BY <1>1, <1>2, <1>4, <1>5, ShownLocal

\* The stores only grow.
LEMMA GrowStep == ASSUME TypeOK, Next PROVE Grow
<1>1. ASSUME NEW n \in Node, NEW c \in Content, AddFile(n, c) PROVE Grow
  BY <1>1 DEF AddFile, stored, Grow, TypeOK, StoreType
<1>2. ASSUME NEW n \in Node, NEW c \in Content, TagContent(n, c) PROVE Grow
  BY <1>2 DEF TagContent, stored, Grow, TypeOK, StoreType
<1>3. ASSUME NEW n \in Node, NEW c \in Content, MergePut(n, c) PROVE Grow
  BY <1>3 DEF MergePut, stored, Grow, TypeOK, StoreType
<1>4. ASSUME NEW n \in Node, HookWrite(n) PROVE Grow
  BY <1>4 DEF HookWrite, stored, Grow, TypeOK, StoreType
<1>5. ASSUME NEW n \in Node, HookCommit(n) PROVE Grow
  BY <1>5 DEF HookCommit, stored, Grow, TypeOK, StoreType
<1>6. ASSUME NEW n \in Node, NEW t \in Tag, DeleteFile(n, t) PROVE Grow
  BY <1>6 DEF DeleteFile, stored, Grow, TypeOK, StoreType
<1>7. ASSUME NEW n \in Node, NEW t \in Tag, DeleteTag(n, t) PROVE Grow
  BY <1>7 DEF DeleteTag, Tombstone, stored, Grow, TypeOK, StoreType
<1>8. ASSUME NEW n \in Node, NEW t \in Tag, MergeDelete(n, t) PROVE Grow
  BY <1>8 DEF MergeDelete, Tombstone, stored, Grow, TypeOK, StoreType
<1>9. ASSUME NEW n \in Node, DelHookAdd(n) PROVE Grow
  BY <1>9 DEF DelHookAdd, stored, Grow, TypeOK, StoreType
<1>10. ASSUME NEW n \in Node, DelHookTruncate(n) PROVE Grow
  BY <1>10 DEF DelHookTruncate, stored, Grow, TypeOK, StoreType
<1>11. ASSUME NEW n \in Node, DelHookWrite(n) PROVE Grow
  BY <1>11 DEF DelHookWrite, stored, Grow, TypeOK, StoreType
<1>12. ASSUME NEW n \in Node, NEW s \in Slots, StartTask(n, s) PROVE Grow
  BY <1>12 DEF StartTask, JobFrame, stored, Grow, TypeOK, StoreType
<1>13. ASSUME NEW n \in Node, NEW s \in Slots, DownloadStarted(n, s) PROVE Grow
  BY <1>13 DEF DownloadStarted, JobFrame, stored, Grow, TypeOK, StoreType
<1>14. ASSUME NEW n \in Node, NEW s \in Slots, Fetch(n, s) PROVE Grow
  BY <1>14 DEF Fetch, JobFrame, stored, Grow, TypeOK, StoreType
<1>15. ASSUME NEW n \in Node, NEW s \in Slots, FetchFails(n, s) PROVE Grow
  BY <1>15 DEF FetchFails, JobFrame, stored, Grow, TypeOK, StoreType
<1>16. ASSUME NEW n \in Node, NEW s \in Slots, DirectoryFails(n, s) PROVE Grow
  BY <1>16 DEF DirectoryFails, JobFrame, stored, Grow, TypeOK, StoreType
<1>17. ASSUME NEW n \in Node, NEW s \in Slots, DownloadFinished(n, s) PROVE Grow
  BY <1>17 DEF DownloadFinished, JobFrame, stored, Grow, TypeOK, StoreType
<1>18. ASSUME NEW n \in Node, NEW s \in Slots, CallbackAdd(n, s) PROVE Grow
  BY <1>18 DEF CallbackAdd, JobFrame, stored, Grow, TypeOK, StoreType
<1>19. ASSUME NEW n \in Node, NEW s \in Slots, CallbackWrite(n, s) PROVE Grow
  BY <1>19 DEF CallbackWrite, JobFrame, stored, Grow, TypeOK, StoreType
<1>20. ASSUME NEW n \in Node, NEW m \in Node, Meet(n, m) PROVE Grow
  BY <1>20 DEF Meet, stored, Grow, TypeOK, StoreType
<1>21. ASSUME NEW n \in Node, NEW m \in Node, Part(n, m) PROVE Grow
  BY <1>21 DEF Part, stored, Grow, TypeOK, StoreType
<1>22. ASSUME NEW n \in Node, NEW h \in Hash, ResumeVisit(n, h) PROVE Grow
  BY <1>22 DEF ResumeVisit, stored, Grow, TypeOK, StoreType
<1>23. ASSUME NEW n \in Node, Flush(n) PROVE Grow
  BY <1>23 DEF Flush, stored, Grow, TypeOK, StoreType
<1>24. ASSUME NEW n \in Node, Halt(n) PROVE Grow
  BY <1>24 DEF Halt, stored, Grow, TypeOK, StoreType
<1>25. ASSUME NEW n \in Node, Restart(n) PROVE Grow
  BY <1>25 DEF Restart, stored, Grow, TypeOK, StoreType
<1>26. ASSUME NEW n \in Node, NEW s \in Slots, TaskRefused(n, s) PROVE Grow
  BY <1>26 DEF TaskRefused, JobFrame, stored, Grow, TypeOK, StoreType
<1> QED BY NextCases, <1>1, <1>2, <1>3, <1>4, <1>5, <1>6, <1>7, <1>8, <1>9, <1>10, <1>11, <1>12,
     <1>13, <1>14, <1>15, <1>16, <1>17, <1>18, <1>19, <1>20, <1>21, <1>22, <1>23, <1>24,
     <1>25, <1>26

LEMMA ShownInit == Init => ShownInv
<1> SUFFICES ASSUME Init PROVE ShownInv
  OBVIOUS
<1>1. DownIdle /\ SeenOK
  BY DEF Init, DownIdle, SeenOK, IdleDelHook
<1>2. Rightful
  BY DEF Init, Rightful, AdvertisedWasHeld, Backed
<1> QED BY <1>1, <1>2 DEF ShownInv

LEMMA ShownStep ==
  ASSUME TypeOK, SafeInv, ShownInv, [Next]_vars
  PROVE  ShownInv'
<1>1. CASE UNCHANGED vars
  BY <1>1, ShownStutter DEF vars, stored, threads, state
<1>2. CASE Next
  BY <1>2, GrowStep, NextCases, AddFileShown, TagContentShown, MergePutShown, HookWriteShown,
     HookCommitShown, DeleteFileShown, DeleteTagShown, MergeDeleteShown,
     DelHookAddShown, DelHookTruncateShown, DelHookWriteShown, StartTaskShown, TaskRefusedShown,
     DownloadStartedShown, FetchShown, FetchFailsShown, DirectoryFailsShown,
     DownloadFinishedShown, CallbackAddShown, CallbackWriteShown, MeetShown,
     PartShown, ResumeVisitShown, FlushShown, HaltShown,
     RestartShown
<1> QED BY <1>1, <1>2

\* ShownInv holds in every reachable state: a node that is down has nothing in
\* memory, and DeleteHook's unlocked Add only ever loses labels.
THEOREM ShownCorrect == Spec => []ShownInv
<1>1. Init => ShownInv
  BY ShownInit
<1>2. TypeOK /\ SafeInv /\ ShownInv /\ [Next]_vars => ShownInv'
  BY ShownStep
<1> QED BY <1>1, <1>2, TypeCorrect, SafeCorrect, PTL DEF Spec

\* With automatic download, the filter and the state file never show a tag for
\* which the node did not hold content, whatever dies, fails or races.
THEOREM AdvertisedCorrect == AutoDownload => (Spec => []AdvertisedWasHeld)
<1> SUFFICES ASSUME AutoDownload PROVE Spec => []AdvertisedWasHeld
  OBVIOUS
<1>1. ShownInv => AdvertisedWasHeld
  BY DEF ShownInv, Rightful
<1> QED BY <1>1, ShownCorrect, PTL

(* ------------------------- own tags ------------------------- *)

\* While nothing is deleted, a node shows every tag it put itself.  The
\* unlocked Add of DeleteHook is the only thing that can take one away.

NoDeletes ==
  \A n \in Node : dels[n] = {} /\ doomed[n] = {} /\ delHook[n] = IdleDelHook

\* The filter of a running process has everything the state file has.
InFile == \A n \in Node : up[n] => stateFile[n] \subseteq filter[n]

\* A node's own put is in the filter while PutHook rewrites the state file, and
\* in the state file before the merge commits.
OwnHook ==
  \A n \in Node : OwnerOf[hook[n].c] = n =>
    /\ hook[n].pc = "writing" => Shown(hook[n].c) \in filter[n]
    /\ hook[n].pc = "commit" => Shown(hook[n].c) \in stateFile[n]

OwnMerged ==
  \A n \in Node : \A c \in merged[n] : OwnerOf[c] = n => Shown(c) \in stateFile[n]

OwnInv == NoDeletes /\ InFile /\ OwnHook /\ OwnMerged

ElsewhereOwn(n) ==
  \A k \in Node \ {n} :
    /\ up'[k] = up[k] /\ filter'[k] = filter[k] /\ stateFile'[k] = stateFile[k]
    /\ hook'[k] = hook[k] /\ merged'[k] = merged[k]

\* It is enough to look at the node that takes the step.
LEMMA OwnLocal ==
  ASSUME OwnInv, NEW n \in Node, ElsewhereOwn(n), NoDeletes',
         up'[n] => stateFile'[n] \subseteq filter'[n],
         OwnerOf[hook'[n].c] = n /\ hook'[n].pc = "writing" => Shown(hook'[n].c) \in filter'[n],
         OwnerOf[hook'[n].c] = n /\ hook'[n].pc = "commit" => Shown(hook'[n].c) \in stateFile'[n],
         \A c \in merged'[n] : OwnerOf[c] = n => Shown(c) \in stateFile'[n]
  PROVE  OwnInv'
<1>1. InFile'
  BY DEF OwnInv, InFile, ElsewhereOwn
<1>2. OwnHook'
  BY DEF OwnInv, OwnHook, ElsewhereOwn, Shown
<1>3. OwnMerged'
  BY DEF OwnInv, OwnMerged, ElsewhereOwn, Shown
<1> QED BY <1>1, <1>2, <1>3 DEF OwnInv

\* A step that neither merges nor runs a hook.
LEMMA OwnFrame ==
  ASSUME OwnInv, NEW n \in Node, ElsewhereOwn(n), UNCHANGED <<dels, doomed, delHook>>,
         up[n], UNCHANGED <<hook, merged>>, filter[n] \subseteq filter'[n],
         stateFile'[n] = stateFile[n] \/ stateFile'[n] = filter[n]
  PROVE  OwnInv'
<1>1. NoDeletes'
  BY DEF OwnInv, NoDeletes
<1>2. stateFile[n] \subseteq stateFile'[n] /\ stateFile'[n] \subseteq filter'[n]
  BY DEF OwnInv, InFile
<1> QED BY <1>1, <1>2, OwnLocal DEF OwnInv, OwnHook, OwnMerged

(* ------------------------------ the steps ------------------------------ *)


LEMMA AddFileOwn ==
  ASSUME TypeOK, SafeInv, ShownInv, OwnInv, NEW n \in Node, NEW c \in Content, AddFile(n, c)
  PROVE  OwnInv'
<1>1. ElsewhereOwn(n)
  BY DEF AddFile, stored, threads, state, mat, ElsewhereOwn, TypeOK, StoreType, StateType
<1>2. up[n] /\ UNCHANGED <<dels, doomed, delHook, hook, merged>>
  BY DEF AddFile, stored, threads, state, mat
<1>3. /\ filter[n] \subseteq filter'[n]
      /\ stateFile'[n] = stateFile[n] \/ stateFile'[n] = filter[n]
  BY DEF AddFile, stored, threads, state, mat, TypeOK, StateType
<1> QED BY <1>1, <1>2, <1>3, OwnFrame

LEMMA StartTaskOwn ==
  ASSUME TypeOK, SafeInv, ShownInv, OwnInv, NEW n \in Node, NEW s \in Slots, StartTask(n, s)
  PROVE  OwnInv'
<1>1. ElsewhereOwn(n)
  BY DEF StartTask, JobFrame, stored, threads, state, mat, ElsewhereOwn, TypeOK, StoreType, StateType
<1>2. up[n] /\ UNCHANGED <<dels, doomed, delHook, hook, merged>>
  BY ActiveUp DEF StartTask, JobFrame, stored, threads, state, mat
<1>3. /\ filter[n] \subseteq filter'[n]
      /\ stateFile'[n] = stateFile[n] \/ stateFile'[n] = filter[n]
  BY DEF StartTask, JobFrame, stored, threads, state, mat, TypeOK, StateType
<1> QED BY <1>1, <1>2, <1>3, OwnFrame

LEMMA TaskRefusedOwn ==
  ASSUME TypeOK, SafeInv, ShownInv, OwnInv, NEW n \in Node, NEW s \in Slots, TaskRefused(n, s)
  PROVE  OwnInv'
<1>1. ElsewhereOwn(n)
  BY DEF TaskRefused, JobFrame, stored, threads, state, mat, ElsewhereOwn, TypeOK, StoreType, StateType
<1>2. up[n] /\ UNCHANGED <<dels, doomed, delHook, hook, merged>>
  BY ActiveUp DEF TaskRefused, JobFrame, stored, threads, state, mat
<1>3. /\ filter[n] \subseteq filter'[n]
      /\ stateFile'[n] = stateFile[n] \/ stateFile'[n] = filter[n]
  BY DEF TaskRefused, JobFrame, stored, threads, state, mat, TypeOK, StateType
<1> QED BY <1>1, <1>2, <1>3, OwnFrame

LEMMA DownloadStartedOwn ==
  ASSUME TypeOK, SafeInv, ShownInv, OwnInv, NEW n \in Node, NEW s \in Slots, DownloadStarted(n, s)
  PROVE  OwnInv'
<1>1. ElsewhereOwn(n)
  BY DEF DownloadStarted, JobFrame, stored, threads, state, mat, ElsewhereOwn, TypeOK, StoreType, StateType
<1>2. up[n] /\ UNCHANGED <<dels, doomed, delHook, hook, merged>>
  BY ActiveUp DEF DownloadStarted, JobFrame, stored, threads, state, mat
<1>3. /\ filter[n] \subseteq filter'[n]
      /\ stateFile'[n] = stateFile[n] \/ stateFile'[n] = filter[n]
  BY DEF DownloadStarted, JobFrame, stored, threads, state, mat, TypeOK, StateType
<1> QED BY <1>1, <1>2, <1>3, OwnFrame

LEMMA FetchOwn ==
  ASSUME TypeOK, SafeInv, ShownInv, OwnInv, NEW n \in Node, NEW s \in Slots, Fetch(n, s)
  PROVE  OwnInv'
<1>1. ElsewhereOwn(n)
  BY DEF Fetch, JobFrame, stored, threads, state, mat, ElsewhereOwn, TypeOK, StoreType, StateType
<1>2. up[n] /\ UNCHANGED <<dels, doomed, delHook, hook, merged>>
  BY ActiveUp DEF Fetch, JobFrame, stored, threads, state, mat
<1>3. /\ filter[n] \subseteq filter'[n]
      /\ stateFile'[n] = stateFile[n] \/ stateFile'[n] = filter[n]
  BY DEF Fetch, JobFrame, stored, threads, state, mat, TypeOK, StateType
<1> QED BY <1>1, <1>2, <1>3, OwnFrame

LEMMA FetchFailsOwn ==
  ASSUME TypeOK, SafeInv, ShownInv, OwnInv, NEW n \in Node, NEW s \in Slots, FetchFails(n, s)
  PROVE  OwnInv'
<1>1. ElsewhereOwn(n)
  BY DEF FetchFails, JobFrame, stored, threads, state, mat, ElsewhereOwn, TypeOK, StoreType, StateType
<1>2. up[n] /\ UNCHANGED <<dels, doomed, delHook, hook, merged>>
  BY ActiveUp DEF FetchFails, JobFrame, stored, threads, state, mat
<1>3. /\ filter[n] \subseteq filter'[n]
      /\ stateFile'[n] = stateFile[n] \/ stateFile'[n] = filter[n]
  BY DEF FetchFails, JobFrame, stored, threads, state, mat, TypeOK, StateType
<1> QED BY <1>1, <1>2, <1>3, OwnFrame

LEMMA DirectoryFailsOwn ==
  ASSUME TypeOK, SafeInv, ShownInv, OwnInv, NEW n \in Node, NEW s \in Slots, DirectoryFails(n, s)
  PROVE  OwnInv'
<1>1. ElsewhereOwn(n)
  BY DEF DirectoryFails, JobFrame, stored, threads, state, mat, ElsewhereOwn, TypeOK, StoreType, StateType
<1>2. up[n] /\ UNCHANGED <<dels, doomed, delHook, hook, merged>>
  BY ActiveUp DEF DirectoryFails, JobFrame, stored, threads, state, mat
<1>3. /\ filter[n] \subseteq filter'[n]
      /\ stateFile'[n] = stateFile[n] \/ stateFile'[n] = filter[n]
  BY DEF DirectoryFails, JobFrame, stored, threads, state, mat, TypeOK, StateType
<1> QED BY <1>1, <1>2, <1>3, OwnFrame

LEMMA DownloadFinishedOwn ==
  ASSUME TypeOK, SafeInv, ShownInv, OwnInv, NEW n \in Node, NEW s \in Slots, DownloadFinished(n, s)
  PROVE  OwnInv'
<1>1. ElsewhereOwn(n)
  BY DEF DownloadFinished, JobFrame, stored, threads, state, mat, ElsewhereOwn, TypeOK, StoreType, StateType
<1>2. up[n] /\ UNCHANGED <<dels, doomed, delHook, hook, merged>>
  BY ActiveUp DEF DownloadFinished, JobFrame, stored, threads, state, mat
<1>3. /\ filter[n] \subseteq filter'[n]
      /\ stateFile'[n] = stateFile[n] \/ stateFile'[n] = filter[n]
  BY DEF DownloadFinished, JobFrame, stored, threads, state, mat, TypeOK, StateType
<1> QED BY <1>1, <1>2, <1>3, OwnFrame

LEMMA CallbackAddOwn ==
  ASSUME TypeOK, SafeInv, ShownInv, OwnInv, NEW n \in Node, NEW s \in Slots, CallbackAdd(n, s)
  PROVE  OwnInv'
<1>1. ElsewhereOwn(n)
  BY DEF CallbackAdd, JobFrame, AddToState, stored, threads, state, mat, ElsewhereOwn, TypeOK, StoreType, StateType
<1>2. up[n] /\ UNCHANGED <<dels, doomed, delHook, hook, merged>>
  BY ActiveUp DEF CallbackAdd, JobFrame, AddToState, stored, threads, state, mat
<1>3. /\ filter[n] \subseteq filter'[n]
      /\ stateFile'[n] = stateFile[n] \/ stateFile'[n] = filter[n]
  BY DEF CallbackAdd, JobFrame, AddToState, stored, threads, state, mat, TypeOK, StateType
<1> QED BY <1>1, <1>2, <1>3, OwnFrame

LEMMA CallbackWriteOwn ==
  ASSUME TypeOK, SafeInv, ShownInv, OwnInv, NEW n \in Node, NEW s \in Slots, CallbackWrite(n, s)
  PROVE  OwnInv'
<1>1. ElsewhereOwn(n)
  BY DEF CallbackWrite, JobFrame, WriteState, stored, threads, state, mat, ElsewhereOwn, TypeOK, StoreType, StateType
<1>2. up[n] /\ UNCHANGED <<dels, doomed, delHook, hook, merged>>
  BY ActiveUp DEF CallbackWrite, JobFrame, WriteState, stored, threads, state, mat
<1>3. /\ filter[n] \subseteq filter'[n]
      /\ stateFile'[n] = stateFile[n] \/ stateFile'[n] = filter[n]
  BY DEF CallbackWrite, JobFrame, WriteState, stored, threads, state, mat, TypeOK, StateType
<1> QED BY <1>1, <1>2, <1>3, OwnFrame

LEMMA ResumeVisitOwn ==
  ASSUME TypeOK, SafeInv, ShownInv, OwnInv, NEW n \in Node, NEW h \in Hash, ResumeVisit(n, h)
  PROVE  OwnInv'
<1>1. ElsewhereOwn(n)
  BY DEF ResumeVisit, stored, threads, state, mat, ElsewhereOwn, TypeOK, StoreType, StateType
<1>2. up[n] /\ UNCHANGED <<dels, doomed, delHook, hook, merged>>
  BY ActiveUp DEF ResumeVisit, stored, threads, state, mat
<1>3. /\ filter[n] \subseteq filter'[n]
      /\ stateFile'[n] = stateFile[n] \/ stateFile'[n] = filter[n]
  BY DEF ResumeVisit, stored, threads, state, mat, TypeOK, StateType
<1> QED BY <1>1, <1>2, <1>3, OwnFrame

LEMMA FlushOwn ==
  ASSUME TypeOK, SafeInv, ShownInv, OwnInv, NEW n \in Node, Flush(n)
  PROVE  OwnInv'
<1>1. ElsewhereOwn(n)
  BY DEF Flush, stored, threads, state, mat, ElsewhereOwn, TypeOK, StoreType, StateType
<1>2. up[n] /\ UNCHANGED <<dels, doomed, delHook, hook, merged>>
  BY DEF Flush, stored, threads, state, mat
<1>3. /\ filter[n] \subseteq filter'[n]
      /\ stateFile'[n] = stateFile[n] \/ stateFile'[n] = filter[n]
  BY DEF Flush, stored, threads, state, mat, TypeOK, StateType
<1> QED BY <1>1, <1>2, <1>3, OwnFrame

LEMMA MeetOwn ==
  ASSUME TypeOK, SafeInv, ShownInv, OwnInv, NEW n \in Node, NEW m \in Node, Meet(n, m)
  PROVE  OwnInv'
<1>1. ElsewhereOwn(n)
  BY DEF Meet, stored, threads, state, mat, ElsewhereOwn, TypeOK, StoreType, StateType
<1>2. up[n] /\ UNCHANGED <<dels, doomed, delHook, hook, merged>>
  BY DEF Meet, stored, threads, state, mat
<1>3. /\ filter[n] \subseteq filter'[n]
      /\ stateFile'[n] = stateFile[n] \/ stateFile'[n] = filter[n]
  BY DEF Meet, stored, threads, state, mat, TypeOK, StateType
<1> QED BY <1>1, <1>2, <1>3, OwnFrame

LEMMA OwnStutter ==
  ASSUME OwnInv, UNCHANGED <<up, filter, stateFile, hook, merged, dels, doomed, delHook>>
  PROVE  OwnInv'
  BY DEF OwnInv, NoDeletes, InFile, OwnHook, OwnMerged

LEMMA PartOwn ==
  ASSUME OwnInv, NEW n \in Node, NEW m \in Node, Part(n, m) PROVE OwnInv'
  BY OwnStutter DEF Part, stored, threads, state

LEMMA TagContentOwn ==
  ASSUME TypeOK, SafeInv, ShownInv, OwnInv, NEW n \in Node, NEW c \in Content, TagContent(n, c)
  PROVE  OwnInv'
<1>1. ElsewhereOwn(n)
  BY DEF TagContent, PutHook, AddToState, ElsewhereOwn, state, TypeOK, StoreType, StateType, ThreadType
<1>2. NoDeletes' /\ up[n] /\ merged' = merged
  BY DEF TagContent, OwnInv, NoDeletes
<1>3. OwnerOf[c] = n
  BY DEF TagContent, SafeInv, AddingOK
<1>4. hook'[n] = [pc |-> "writing", c |-> c]
  BY <1>3 DEF TagContent, PutHook, TypeOK, ThreadType
<1>5. filter'[n] = filter[n] \cup {Shown(c)} /\ stateFile'[n] = stateFile[n]
  BY <1>3 DEF TagContent, PutHook, AddToState, TypeOK, StateType
<1>6. hook'[n].pc = "writing" /\ Shown(hook'[n].c) \in filter'[n]
  BY <1>4, <1>5
<1>7. stateFile'[n] \subseteq filter'[n]
  BY <1>2, <1>5 DEF OwnInv, InFile
<1>8. \A d \in merged'[n] : OwnerOf[d] = n => Shown(d) \in stateFile'[n]
  BY <1>2, <1>5 DEF OwnInv, OwnMerged
<1> QED BY <1>1, <1>2, <1>6, <1>7, <1>8, OwnLocal

LEMMA MergePutOwn ==
  ASSUME TypeOK, SafeInv, ShownInv, OwnInv, NEW n \in Node, NEW c \in Content, MergePut(n, c)
  PROVE  OwnInv'
<1>1. ElsewhereOwn(n)
  BY DEF MergePut, PutHook, AddToState, ElsewhereOwn, state, TypeOK, StoreType, StateType, ThreadType
<1>2. NoDeletes' /\ up[n]
  BY DEF MergePut, OwnInv, NoDeletes
<1>3. OwnerOf[c] # n
  BY MergePutOthers
<1>4. filter[n] \subseteq filter'[n] /\ stateFile'[n] = stateFile[n]
  BY DEF MergePut, PutHook, AddToState, state, TypeOK, StateType
<1>5. hook'[n] = hook[n] \/ hook'[n].c = c
  BY PutHookHook DEF MergePut
<1>6. merged'[n] \subseteq merged[n] \cup {c}
  BY DEF MergePut, TypeOK, StoreType
<1>7. stateFile'[n] \subseteq filter'[n]
  BY <1>2, <1>4 DEF OwnInv, InFile
<1>8. \A d \in merged'[n] : OwnerOf[d] = n => Shown(d) \in stateFile'[n]
  BY <1>3, <1>4, <1>6 DEF OwnInv, OwnMerged
<1>9. OwnerOf[hook'[n].c] = n => hook'[n] = hook[n]
  BY <1>3, <1>5
<1> QED BY <1>1, <1>2, <1>4, <1>7, <1>8, <1>9, OwnLocal DEF OwnInv, OwnHook

LEMMA HookWriteOwn ==
  ASSUME TypeOK, SafeInv, ShownInv, OwnInv, NEW n \in Node, HookWrite(n)
  PROVE  OwnInv'
<1>1. ElsewhereOwn(n)
  BY DEF HookWrite, WriteState, ElsewhereOwn, stored, TypeOK, StoreType, StateType, ThreadType
<1>2. NoDeletes' /\ up[n] /\ merged' = merged
  BY ActiveUp DEF HookWrite, stored, OwnInv, NoDeletes
<1>3. filter'[n] = filter[n] /\ stateFile'[n] = filter[n]
  BY DEF HookWrite, WriteState, TypeOK, StateType
<1>4. hook[n].pc = "writing" /\ hook'[n].pc = "commit" /\ hook'[n].c = hook[n].c
  BY DEF HookWrite, TypeOK, ThreadType, Hook
<1>5. OwnerOf[hook'[n].c] = n => Shown(hook'[n].c) \in stateFile'[n]
  BY <1>3, <1>4 DEF OwnInv, OwnHook
<1>6. stateFile[n] \subseteq stateFile'[n]
  BY <1>2, <1>3 DEF OwnInv, InFile
<1>7. \A d \in merged'[n] : OwnerOf[d] = n => Shown(d) \in stateFile'[n]
  BY <1>2, <1>6 DEF OwnInv, OwnMerged
<1> QED BY <1>1, <1>2, <1>3, <1>4, <1>5, <1>7, OwnLocal

LEMMA HookCommitOwn ==
  ASSUME TypeOK, SafeInv, ShownInv, OwnInv, NEW n \in Node, HookCommit(n)
  PROVE  OwnInv'
<1>1. ElsewhereOwn(n)
  BY DEF HookCommit, ElsewhereOwn, state, TypeOK, StoreType, StateType, ThreadType
<1>2. NoDeletes' /\ filter' = filter /\ stateFile' = stateFile /\ up' = up
  BY DEF HookCommit, state, OwnInv, NoDeletes
<1>3. hook'[n].pc = "idle"
  BY IdlePc DEF HookCommit, TypeOK, ThreadType
<1>4. merged'[n] = merged[n] \cup {hook[n].c} /\ hook[n].pc = "commit"
  BY DEF HookCommit, TypeOK, StoreType
<1>5. \A d \in merged'[n] : OwnerOf[d] = n => Shown(d) \in stateFile'[n]
  BY <1>2, <1>4 DEF OwnInv, OwnMerged, OwnHook
<1>6. up'[n] => stateFile'[n] \subseteq filter'[n]
  BY <1>2 DEF OwnInv, InFile
<1> QED BY <1>1, <1>2, <1>3, <1>5, <1>6, OwnLocal

LEMMA HaltOwn ==
  ASSUME TypeOK, SafeInv, ShownInv, OwnInv, NEW n \in Node, Halt(n)
  PROVE  OwnInv'
<1>1. ElsewhereOwn(n)
  BY DEF Halt, ElsewhereOwn, stored, TypeOK, StoreType, StateType, ThreadType
<1>2. merged' = merged /\ stateFile' = stateFile /\ dels' = dels
  BY DEF Halt, stored
<1>3. NoDeletes'
  BY <1>2 DEF Halt, OwnInv, NoDeletes, TypeOK, ThreadType
<1>4. ~up'[n]
  BY DEF Halt, TypeOK, StoreType
<1>5. hook'[n].pc = "idle"
  BY IdlePc DEF Halt, TypeOK, ThreadType
<1>6. \A d \in merged'[n] : OwnerOf[d] = n => Shown(d) \in stateFile'[n]
  BY <1>2 DEF OwnInv, OwnMerged
<1> QED BY <1>1, <1>3, <1>4, <1>5, <1>6, OwnLocal

LEMMA RestartOwn ==
  ASSUME TypeOK, SafeInv, ShownInv, OwnInv, NEW n \in Node, Restart(n)
  PROVE  OwnInv'
<1>1. ElsewhereOwn(n)
  BY DEF Restart, ElsewhereOwn, stored, threads, TypeOK, StoreType, StateType
<1>2. UNCHANGED <<merged, stateFile, hook>> /\ NoDeletes'
  BY DEF Restart, stored, threads, OwnInv, NoDeletes
<1>3. filter'[n] = stateFile[n]
  BY DEF Restart, TypeOK, StateType
<1>4. hook'[n].pc = "idle"
  BY <1>2, IdlePc DEF Restart, ShownInv, DownIdle
<1>5. \A d \in merged'[n] : OwnerOf[d] = n => Shown(d) \in stateFile'[n]
  BY <1>2 DEF OwnInv, OwnMerged
<1> QED BY <1>1, <1>2, <1>3, <1>4, <1>5, OwnLocal

\* With no deletion there is no delete delta, and DeleteHook never runs.
LEMMA DeletesNever ==
  ASSUME TypeOK, OwnInv, MaxDeletes = 0, NEW n \in Node, Deleting(n)
  PROVE  FALSE
<1>1. deletes = 0
  BY DEF TypeOK, BudgetType
<1>2. \A t \in Tag : ~DeleteFile(n, t)
  BY <1>1 DEF DeleteFile
<1>3. \A t \in Tag : ~DeleteTag(n, t)
  BY DEF DeleteTag, OwnInv, NoDeletes
<1>4. \A t \in Tag : ~MergeDelete(n, t)
  BY DEF MergeDelete, Peers, OwnInv, NoDeletes
<1>5. delHook[n].pc = "idle"
  BY IdlePc DEF OwnInv, NoDeletes
<1>6. ~DelHookAdd(n) /\ ~DelHookTruncate(n) /\ ~DelHookWrite(n)
  BY <1>5 DEF DelHookAdd, DelHookTruncate, DelHookWrite
<1> QED BY <1>2, <1>3, <1>4, <1>6 DEF Deleting

LEMMA OwnInit == Init => OwnInv
<1> SUFFICES ASSUME Init PROVE OwnInv
  OBVIOUS
<1>1. NoDeletes /\ InFile /\ OwnMerged
  BY DEF Init, NoDeletes, InFile, OwnMerged
<1>2. OwnHook
  BY IdlePc DEF Init, OwnHook
<1> QED BY <1>1, <1>2 DEF OwnInv

LEMMA OwnStep ==
  ASSUME MaxDeletes = 0, TypeOK, SafeInv, ShownInv, OwnInv, [Next]_vars
  PROVE  OwnInv'
<1>1. CASE UNCHANGED vars
  BY <1>1, OwnStutter DEF vars, stored, threads, state
<1>2. CASE Next
  <2>1. PICK n \in Node :
          \/ Merging(n) \/ Deleting(n)
          \/ \E s \in Slots : Download(n, s)
          \/ \E m \in Node : Meet(n, m) \/ Part(n, m)
          \/ \E h \in Hash : ResumeVisit(n, h)
          \/ Flush(n) \/ Halt(n) \/ Restart(n)
    BY <1>2 DEF Next
  <2>2. CASE Merging(n)
    BY <2>2, AddFileOwn, TagContentOwn, MergePutOwn, HookWriteOwn, HookCommitOwn DEF Merging
  <2>3. CASE Deleting(n)
    BY <2>3, DeletesNever
  <2>4. CASE \E s \in Slots : Download(n, s)
    BY <2>4, StartTaskOwn, TaskRefusedOwn, DownloadStartedOwn, FetchOwn, FetchFailsOwn, DirectoryFailsOwn,
       DownloadFinishedOwn, CallbackAddOwn, CallbackWriteOwn DEF Download, Goroutine, Callback
  <2> QED BY <2>1, <2>2, <2>3, <2>4, MeetOwn, PartOwn, ResumeVisitOwn, FlushOwn, HaltOwn, RestartOwn
<1> QED BY <1>1, <1>2

\* While nothing is deleted, a node that runs shows every tag it put itself,
\* whatever died, failed or raced in between.
THEOREM OwnTagsCorrect == MaxDeletes = 0 => (Spec => []OwnTagsShown)
<1> SUFFICES ASSUME MaxDeletes = 0 PROVE Spec => []OwnTagsShown
  OBVIOUS
<1>1. Init => OwnInv
  BY OwnInit
<1>2. TypeOK /\ SafeInv /\ ShownInv /\ OwnInv /\ [Next]_vars => OwnInv'
  BY OwnStep
<1>3. OwnInv => OwnTagsShown
  BY DEF OwnInv, OwnMerged, InFile, OwnTagsShown
<1> QED BY <1>1, <1>2, <1>3, TypeCorrect, SafeCorrect, ShownCorrect, PTL DEF Spec

(* ------------------------ no download is lost ------------------------ *)

\* No other record has the root of c: the entries of the matrix are keyed by
\* root, and have one tag.
Alone(c) == \A d \in Content : HashOf[d] = HashOf[c] => d = c

EntryOf(n, c) == matrix[n][HashOf[c]]
Labelled(n, c) == EntryOf(n, c).known /\ EntryOf(n, c).tag = TagOf[c]

\* A goroutine is over when the entry has its tag, and has one task.
JobTracked(n, c) ==
  \A s \in Slots : jobs[n][s].c = c =>
    /\ EntryOf(n, c).known
    /\ jobs[n][s].g = "over" => EntryOf(n, c).tag = TagOf[c]
    /\ jobs[n][s].g = "looking" => jobs[n][s].t = "none"

\* A finished entry is shown, or its callback is about to show it.
DoneShown(n, c) ==
  EntryOf(n, c).done =>
    \/ Shown(c) \in filter[n]
    \/ \E s \in Slots : jobs[n][s].c = c /\ jobs[n][s].t = "finished"

\* Remote content that won its tag, or whose hook ran, is in a job or has an
\* entry with its tag.
Wins(n, c) == c \in FindTag(n, TagOf[c])
Handed(n, c) ==
  OwnerOf[c] # n /\ (Wins(n, c) \/ hook[n].c = c) => InFlight(n, c) \/ Labelled(n, c)

Tracked(n, c) == JobTracked(n, c) /\ DoneShown(n, c) /\ Handed(n, c)

\* What is being added is nowhere in the store yet.
Fresh == \A n \in Node : adding[n] \cap merged[n] = {} /\ hook[n].c \notin adding[n]

TrackInv ==
  /\ Fresh
  /\ halts = 0 => \A n \in Node : up[n] /\ \A c \in Content : Alone(c) => Tracked(n, c)

\* A step that merges nothing at n, and runs no hook.
Quiet(n) ==
  /\ merged'[n] = merged[n] /\ dels'[n] = dels[n] /\ hook'[n].c = hook[n].c
  /\ \A d \in merged[n] : height'[d] = height[d]

LEMMA WinsFrame ==
  ASSUME NEW n \in Node, NEW c \in Content, Quiet(n), Wins(n, c)'
  PROVE  Wins(n, c)
<1>1. InSet(n)' = InSet(n) /\ InSet(n) \subseteq merged[n]
  BY DEF InSet, Tombed, Quiet
<1>2. \A d \in InSet(n) : Beats(c, d)' <=> Beats(c, d)
  BY <1>1 DEF Beats, Quiet, Wins, FindTag
<1> QED BY <1>1, <1>2 DEF Wins, FindTag

LEMMA TrackFrame ==
  ASSUME NEW n \in Node, NEW c \in Content, Tracked(n, c), Quiet(n),
         jobs'[n] = jobs[n], matrix'[n] = matrix[n], filter[n] \subseteq filter'[n]
  PROVE  Tracked(n, c)'
<1>1. JobTracked(n, c)' /\ DoneShown(n, c)'
  BY DEF Tracked, JobTracked, DoneShown, EntryOf, Shown
<1>2. Handed(n, c)'
  BY WinsFrame DEF Tracked, Handed, Quiet, InFlight, Labelled, EntryOf
<1> QED BY <1>1, <1>2 DEF Tracked

\* A step of n leaves what the other nodes track alone.
ElsewhereTracked(n) ==
  \A k \in Node \ {n} :
    /\ Quiet(k) /\ jobs'[k] = jobs[k] /\ matrix'[k] = matrix[k] /\ filter'[k] = filter[k]
    /\ adding'[k] = adding[k] /\ hook'[k] = hook[k]

LEMMA TrackLocal ==
  ASSUME TrackInv, NEW n \in Node, ElsewhereTracked(n), up' = up, halts' = halts,
         adding'[n] \cap merged'[n] = {}, hook'[n].c \notin adding'[n],
         halts = 0 => \A c \in Content : Alone(c) => Tracked(n, c)'
  PROVE  TrackInv'
<1>1. Fresh'
  BY DEF TrackInv, Fresh, ElsewhereTracked, Quiet
<1>2. ASSUME halts = 0, NEW k \in Node, NEW c \in Content, Alone(c)
      PROVE  Tracked(k, c)'
  <2>1. CASE k = n
    BY <1>2, <2>1
  <2>2. CASE k # n
    <3>1. Tracked(k, c)
      BY <1>2 DEF TrackInv
    <3> QED BY <2>2, <3>1, TrackFrame DEF ElsewhereTracked
  <2> QED BY <2>1, <2>2
<1>3. \A c : Alone(c)' <=> Alone(c)
  BY DEF Alone
<1> QED BY <1>1, <1>2, <1>3 DEF TrackInv

\* A step that neither merges nor changes jobs or entries.
LEMMA TrackStill ==
  ASSUME TrackInv, UNCHANGED <<merged, dels, hook, adding, height, jobs, matrix>>,
         up' = up, halts' = halts, \A k \in Node : filter[k] \subseteq filter'[k]
  PROVE  TrackInv'
<1>1. \A k \in Node : Quiet(k)
  BY DEF Quiet
<1>2. ASSUME halts = 0, NEW k \in Node, NEW c \in Content, Alone(c)
      PROVE  Tracked(k, c)'
  <2>1. Tracked(k, c)
    BY <1>2 DEF TrackInv
  <2> QED BY <1>1, <2>1, TrackFrame
<1>3. Fresh'
  BY DEF TrackInv, Fresh
<1>4. \A c : Alone(c)' <=> Alone(c)
  BY DEF Alone
<1> QED BY <1>2, <1>3, <1>4 DEF TrackInv

(* Steps of a goroutine or of a task: one job changes, and its entry.      *)

LEMMA DoneElse ==
  ASSUME NEW n \in Node, NEW s \in Slots, NEW c \in Content, DoneShown(n, c),
         EntryOf(n, c)'.done => EntryOf(n, c).done, filter[n] \subseteq filter'[n],
         \A r \in Slots \ {s} : jobs'[n][r] = jobs[n][r],
         jobs[n][s].c = c => jobs[n][s].t # "finished"
  PROVE  DoneShown(n, c)'
  BY DEF DoneShown, Shown

LEMMA SetJobEffect ==
  ASSUME TypeOK, NEW n \in Node, NEW s \in Slots, NEW j, SetJob(n, s, j)
  PROVE  /\ jobs'[n][s] = Done(j)
         /\ \A r \in Slots \ {s} : jobs'[n][r] = jobs[n][r]
         /\ \A k \in Node \ {n} : jobs'[k] = jobs[k]
  BY DEF SetJob, TypeOK, JobType

\* What every job step does, by the job j it leaves in slot s.
JobStep(n, s, j) ==
  /\ JobFrame /\ SetJob(n, s, j)
  /\ jobs[n][s].c \in Content /\ j.c = jobs[n][s].c
  /\ filter[n] \subseteq filter'[n]
  /\ \A k \in Node \ {n} : filter'[k] = filter[k] /\ matrix'[k] = matrix[k]
  /\ \A h \in Hash \ {HashOf[j.c]} : matrix'[n][h] = matrix[n][h]
  /\ EntryOf(n, j.c).known => EntryOf(n, j.c)'.known
  /\ EntryOf(n, j.c)'.tag \in {EntryOf(n, j.c).tag, TagOf[j.c]}
  /\ j.g = "over" => jobs[n][s].g = "over" \/ EntryOf(n, j.c)'.tag = TagOf[j.c]
  /\ j.g = "looking" => jobs[n][s].g = "looking" /\ jobs[n][s].t # "none"

\* What is tracked of the content that the job is not about.
LEMMA OtherTracked ==
  ASSUME TypeOK, NEW n \in Node, NEW s \in Slots, NEW j, JobStep(n, s, j),
         NEW c \in Content, Alone(c), c # j.c, Tracked(n, c)
  PROVE  Tracked(n, c)'
<1>1. HashOf[c] \in Hash \ {HashOf[j.c]}
  BY ContentAssumption DEF Alone, JobStep
<1>2. matrix'[n][HashOf[c]] = matrix[n][HashOf[c]]
  BY <1>1 DEF JobStep
<1>3. /\ jobs'[n][s] = Done(j)
      /\ \A r \in Slots \ {s} : jobs'[n][r] = jobs[n][r]
  BY SetJobEffect DEF JobStep
<1>4. jobs[n][s].c # c /\ jobs'[n][s].c # c
  BY <1>3, ContentAssumption DEF JobStep, Done, NoJob
<1>5. JobTracked(n, c)'
  BY <1>2, <1>3, <1>4 DEF JobTracked, EntryOf, Tracked
<1>6. DoneShown(n, c)'
  BY <1>2, <1>3, <1>4, DoneElse DEF JobStep, Tracked, EntryOf
<1>7. Handed(n, c)'
  <2>1. Quiet(n) /\ hook' = hook
    BY DEF JobStep, JobFrame, Quiet
  <2>2. InFlight(n, c) \/ Labelled(n, c) => InFlight(n, c)' \/ Labelled(n, c)'
    BY <1>2, <1>3, <1>4 DEF InFlight, Labelled, EntryOf
  <2> QED BY <2>1, <2>2, WinsFrame DEF Handed, Tracked
<1> QED BY <1>5, <1>6, <1>7 DEF Tracked

\* What is tracked of the content that it is about.
LEMMA OwnTracked ==
  ASSUME TypeOK, NEW n \in Node, NEW s \in Slots, NEW j, JobStep(n, s, j),
         NEW c \in Content, c = j.c, Tracked(n, c), DoneShown(n, c)'
  PROVE  Tracked(n, c)'
<1>1. /\ jobs'[n][s] = Done(j)
      /\ \A r \in Slots \ {s} : jobs'[n][r] = jobs[n][r]
  BY SetJobEffect DEF JobStep
<1>2. jobs[n][s].c = c
  BY DEF JobStep
<1>3. EntryOf(n, c).known /\ EntryOf(n, c)'.known
  BY <1>2 DEF Tracked, JobTracked, JobStep
<1>4. EntryOf(n, c).tag = TagOf[c] => EntryOf(n, c)'.tag = TagOf[c]
  BY DEF JobStep
<1>5. j.g = "over" => EntryOf(n, c)'.tag = TagOf[c]
  BY <1>2, <1>4 DEF JobStep, Tracked, JobTracked
<1>6. j.g # "looking"
  BY <1>2 DEF JobStep, Tracked, JobTracked
<1>7. jobs'[n][s] = j \/ (jobs'[n][s] = NoJob /\ j.g = "over")
  BY <1>1 DEF Done
<1>8. NoJob.c # c
  BY ContentAssumption DEF NoJob
<1>9. JobTracked(n, c)'
  <2> SUFFICES ASSUME NEW r \in Slots, jobs'[n][r].c = c
               PROVE  /\ jobs'[n][r].g = "over" => EntryOf(n, c)'.tag = TagOf[c]
                      /\ jobs'[n][r].g = "looking" => jobs'[n][r].t = "none"
    BY <1>3 DEF JobTracked
  <2>1. CASE r = s
    BY <1>5, <1>6, <1>7, <1>8, <2>1
  <2>2. CASE r # s
    BY <1>1, <1>4, <2>2 DEF Tracked, JobTracked
  <2> QED BY <2>1, <2>2
<1>10. Handed(n, c)'
  <2>1. Quiet(n) /\ hook' = hook
    BY DEF JobStep, JobFrame, Quiet
  <2>2. Labelled(n, c) => Labelled(n, c)'
    BY <1>3, <1>4 DEF Labelled
  <2>3. ASSUME NEW r \in Slots, jobs[n][r].c = c
        PROVE  InFlight(n, c)' \/ Labelled(n, c)'
    <3>1. CASE jobs'[n][r].c = c
      BY <3>1 DEF InFlight
    <3>2. CASE jobs'[n][r].c # c
      <4>1. r = s
        BY <1>1, <2>3, <3>2
      <4>2. j.g = "over"
        BY <1>7, <3>2, <4>1
      <4> QED BY <1>3, <1>5, <4>2 DEF Labelled
    <3> QED BY <3>1, <3>2
  <2> QED BY <2>1, <2>2, <2>3, WinsFrame DEF Handed, Tracked, InFlight
<1> QED BY <1>9, <1>10 DEF Tracked

LEMMA JobStepTrack ==
  ASSUME TypeOK, TrackInv, NEW n \in Node, NEW s \in Slots, NEW j, JobStep(n, s, j),
         halts = 0 /\ Tracked(n, j.c) => DoneShown(n, j.c)'
  PROVE  TrackInv'
<1>1. UNCHANGED <<merged, dels, height, adding, hook, up, halts>>
  BY DEF JobStep, JobFrame
<1>2. ElsewhereTracked(n)
  BY <1>1, SetJobEffect DEF JobStep, ElsewhereTracked, Quiet
<1>3. adding'[n] \cap merged'[n] = {} /\ hook'[n].c \notin adding'[n]
  BY <1>1 DEF TrackInv, Fresh
<1>4. ASSUME halts = 0, NEW c \in Content, Alone(c)
      PROVE  Tracked(n, c)'
  <2>1. Tracked(n, c)
    BY <1>4 DEF TrackInv
  <2>2. CASE c = j.c
    BY <1>4, <2>1, <2>2, OwnTracked
  <2>3. CASE c # j.c
    BY <1>4, <2>1, <2>3, OtherTracked
  <2> QED BY <2>2, <2>3
<1> QED BY <1>1, <1>2, <1>3, <1>4, TrackLocal

LEMMA StartTaskTrack ==
  ASSUME TypeOK, TrackInv, NEW n \in Node, NEW s \in Slots, StartTask(n, s) PROVE TrackInv'
<1>0. PICK j : j = [jobs[n][s] EXCEPT !.g = "launched", !.t = "queued"]
  OBVIOUS
<1>1. jobs[n][s] \in Job /\ jobs[n][s].c \in Content /\ jobs[n][s].g = "looking"
  BY JobFacts DEF StartTask
<1>2. j.c = jobs[n][s].c /\ j.g = "launched"
  BY <1>0, <1>1 DEF Job
<1>3. SetJob(n, s, j) /\ JobFrame /\ UNCHANGED <<filter, matrix>>
  BY <1>0 DEF StartTask, mat, state
<1>4. JobStep(n, s, j)
  BY <1>1, <1>2, <1>3 DEF JobStep, EntryOf
<1>5. Tracked(n, j.c) => DoneShown(n, j.c)'
  BY <1>1, <1>2, <1>3, SetJobEffect, DoneElse DEF Tracked, JobTracked, EntryOf
<1> QED BY <1>4, <1>5, JobStepTrack

LEMMA DownloadStartedTrack ==
  ASSUME TypeOK, TrackInv, NEW n \in Node, NEW s \in Slots, DownloadStarted(n, s)
  PROVE  TrackInv'
<1>0. PICK j : j = [jobs[n][s] EXCEPT !.g = "over"]
  OBVIOUS
<1>1. /\ jobs[n][s] \in Job /\ jobs[n][s].c \in Content /\ HashOf[jobs[n][s].c] \in Hash
      /\ jobs[n][s].g = "launched"
  BY JobFacts, ContentAssumption DEF DownloadStarted
<1>2. j.c = jobs[n][s].c /\ j.g = "over" /\ j.t = jobs[n][s].t
  BY <1>0, <1>1 DEF Job
<1>3. SetJob(n, s, j) /\ JobFrame /\ UNCHANGED filter
  BY <1>0 DEF DownloadStarted, state
<1>4. /\ matrix' = [matrix EXCEPT ![n][HashOf[j.c]] = [matrix[n][HashOf[j.c]] EXCEPT !.tag = TagOf[j.c]]]
      /\ matrix \in [Node -> [Hash -> Entry]] /\ HashOf[j.c] \in Hash
  BY <1>1, <1>2 DEF DownloadStarted, SetEntry, TypeOK, JobType
<1>5. /\ \A k \in Node \ {n} : matrix'[k] = matrix[k]
      /\ \A h \in Hash \ {HashOf[j.c]} : matrix'[n][h] = matrix[n][h]
      /\ matrix'[n][HashOf[j.c]] = [matrix[n][HashOf[j.c]] EXCEPT !.tag = TagOf[j.c]]
      /\ matrix[n][HashOf[j.c]] \in Entry
  BY <1>4
<1>6. /\ EntryOf(n, j.c)'.tag = TagOf[j.c] /\ EntryOf(n, j.c)'.known = EntryOf(n, j.c).known
      /\ EntryOf(n, j.c)'.done = EntryOf(n, j.c).done
  BY <1>5 DEF EntryOf, Entry
<1>7. JobStep(n, s, j)
  BY <1>1, <1>2, <1>3, <1>5, <1>6 DEF JobStep
<1>8. Tracked(n, j.c) => DoneShown(n, j.c)'
  <2> SUFFICES ASSUME DoneShown(n, j.c) PROVE DoneShown(n, j.c)'
    BY DEF Tracked
  <2>1. jobs'[n][s] = j \/ jobs[n][s].t = "over"
    BY <1>2, <1>3, SetJobEffect DEF Done
  <2>2. \A r \in Slots \ {s} : jobs'[n][r] = jobs[n][r]
    BY <1>3, SetJobEffect
  <2> QED BY <1>2, <1>3, <1>6, <2>1, <2>2 DEF DoneShown, Shown
<1> QED BY <1>7, <1>8, JobStepTrack

\* A step of the task from queued, fetched or writing to t.
LEMMA TaskTrack ==
  ASSUME TypeOK, TrackInv, NEW n \in Node, NEW s \in Slots, NEW t,
         jobs[n][s].t \in {"queued", "writing"},
         SetJob(n, s, [jobs[n][s] EXCEPT !.t = t]), JobFrame, UNCHANGED <<filter, matrix>>
  PROVE  TrackInv'
<1>0. PICK j : j = [jobs[n][s] EXCEPT !.t = t]
  OBVIOUS
<1>1. jobs[n][s] \in Job /\ jobs[n][s].c \in Content
  BY JobFacts
<1>2. j.c = jobs[n][s].c /\ j.g = jobs[n][s].g /\ SetJob(n, s, j)
  BY <1>0, <1>1 DEF Job
<1>3. JobStep(n, s, j)
  BY <1>0, <1>1, <1>2 DEF JobStep, EntryOf
<1>4. Tracked(n, j.c) => DoneShown(n, j.c)'
  BY <1>1, <1>2, SetJobEffect, DoneElse DEF Tracked, EntryOf
<1> QED BY <1>3, <1>4, JobStepTrack

LEMMA FetchTrack ==
  ASSUME TypeOK, TrackInv, NEW n \in Node, NEW s \in Slots,
         Fetch(n, s) \/ FetchFails(n, s) \/ DirectoryFails(n, s)
  PROVE  TrackInv'
  BY TaskTrack DEF Fetch, FetchFails, DirectoryFails, mat, state

LEMMA CallbackWriteTrack ==
  ASSUME TypeOK, TrackInv, NEW n \in Node, NEW s \in Slots, CallbackWrite(n, s)
  PROVE  TrackInv'
  BY TaskTrack DEF CallbackWrite, WriteState, mat

LEMMA DownloadFinishedTrack ==
  ASSUME TypeOK, TrackInv, NEW n \in Node, NEW s \in Slots, DownloadFinished(n, s)
  PROVE  TrackInv'
<1>0. PICK j : j = [jobs[n][s] EXCEPT !.t = "finished"]
  OBVIOUS
<1>1. /\ jobs[n][s] \in Job /\ jobs[n][s].c \in Content /\ HashOf[jobs[n][s].c] \in Hash
      /\ jobs[n][s].t = "fetched"
  BY JobFacts, ContentAssumption DEF DownloadFinished
<1>2. j.c = jobs[n][s].c /\ j.g = jobs[n][s].g /\ j.t = "finished"
  BY <1>0, <1>1 DEF Job
<1>3. SetJob(n, s, j) /\ JobFrame /\ UNCHANGED filter
  BY <1>0 DEF DownloadFinished, state
<1>4. /\ matrix' = [matrix EXCEPT ![n][HashOf[j.c]] = [matrix[n][HashOf[j.c]] EXCEPT !.done = TRUE]]
      /\ matrix \in [Node -> [Hash -> Entry]] /\ HashOf[j.c] \in Hash
  BY <1>1, <1>2 DEF DownloadFinished, SetEntry, TypeOK, JobType
<1>5. /\ \A k \in Node \ {n} : matrix'[k] = matrix[k]
      /\ \A h \in Hash \ {HashOf[j.c]} : matrix'[n][h] = matrix[n][h]
      /\ matrix'[n][HashOf[j.c]] = [matrix[n][HashOf[j.c]] EXCEPT !.done = TRUE]
      /\ matrix[n][HashOf[j.c]] \in Entry
  BY <1>4
<1>6. EntryOf(n, j.c)'.tag = EntryOf(n, j.c).tag /\ EntryOf(n, j.c)'.known = EntryOf(n, j.c).known
  BY <1>5 DEF EntryOf, Entry
<1>7. JobStep(n, s, j)
  BY <1>1, <1>2, <1>3, <1>5, <1>6 DEF JobStep
<1>8. DoneShown(n, j.c)'
  <2>1. jobs'[n][s] = j
    BY <1>2, <1>3, SetJobEffect DEF Done
  <2> QED BY <1>2, <2>1 DEF DoneShown
<1> QED BY <1>7, <1>8, JobStepTrack

LEMMA CallbackAddTrack ==
  ASSUME TypeOK, TrackInv, NEW n \in Node, NEW s \in Slots, CallbackAdd(n, s)
  PROVE  TrackInv'
<1>0. PICK j : j = [jobs[n][s] EXCEPT !.t = "writing"]
  OBVIOUS
<1>1. jobs[n][s] \in Job /\ jobs[n][s].c \in Content /\ jobs[n][s].t = "finished"
  BY JobFacts DEF CallbackAdd
<1>2. j.c = jobs[n][s].c /\ j.g = jobs[n][s].g
  BY <1>0, <1>1 DEF Job
<1>3. SetJob(n, s, j) /\ JobFrame /\ UNCHANGED matrix
  BY <1>0 DEF CallbackAdd, mat
<1>4. filter' = [filter EXCEPT ![n] = @ \cup {Shown(jobs[n][s].c)}]
  BY DEF CallbackAdd, AddToState
<1>5. /\ filter[n] \subseteq filter'[n] /\ Shown(j.c) \in filter'[n]
      /\ \A k \in Node \ {n} : filter'[k] = filter[k]
  BY <1>2, <1>4 DEF TypeOK, StateType
<1>6. JobStep(n, s, j)
  BY <1>1, <1>2, <1>3, <1>5 DEF JobStep, EntryOf
<1>7. DoneShown(n, j.c)'
  BY <1>5 DEF DoneShown, Shown
<1> QED BY <1>6, <1>7, JobStepTrack

(* Handing a content to the watcher, and merges.                           *)

LEMMA SpawnEntries ==
  ASSUME TypeOK, NEW n \in Node, NEW d \in Content, Spawn(n, d)
  PROVE  /\ \A k \in Node \ {n} : matrix'[k] = matrix[k]
         /\ EntryOf(n, d)'.known
         /\ \A c \in Content :
              /\ EntryOf(n, c)'.tag = EntryOf(n, c).tag
              /\ EntryOf(n, c)'.done = EntryOf(n, c).done
              /\ EntryOf(n, c).known => EntryOf(n, c)'.known
<1>1. /\ matrix' = [matrix EXCEPT ![n][HashOf[d]] = [matrix[n][HashOf[d]] EXCEPT !.known = TRUE]]
      /\ matrix \in [Node -> [Hash -> Entry]] /\ HashOf[d] \in Hash
  BY ContentAssumption DEF Spawn, SetEntry, TypeOK, JobType
<1>2. /\ \A k \in Node \ {n} : matrix'[k] = matrix[k]
      /\ \A h \in Hash \ {HashOf[d]} : matrix'[n][h] = matrix[n][h]
      /\ matrix'[n][HashOf[d]] = [matrix[n][HashOf[d]] EXCEPT !.known = TRUE]
      /\ matrix[n][HashOf[d]] \in Entry
  BY <1>1
<1>3. /\ matrix'[n][HashOf[d]].known
      /\ matrix'[n][HashOf[d]].tag = matrix[n][HashOf[d]].tag
      /\ matrix'[n][HashOf[d]].done = matrix[n][HashOf[d]].done
  BY <1>2 DEF Entry
<1>4. ASSUME NEW c \in Content
      PROVE  /\ matrix'[n][HashOf[c]].tag = matrix[n][HashOf[c]].tag
             /\ matrix'[n][HashOf[c]].done = matrix[n][HashOf[c]].done
             /\ matrix[n][HashOf[c]].known => matrix'[n][HashOf[c]].known
  <2>1. HashOf[c] \in Hash
    BY ContentAssumption
  <2>2. CASE HashOf[c] = HashOf[d]
    BY <1>3, <2>2
  <2>3. CASE HashOf[c] # HashOf[d]
    BY <1>2, <2>1, <2>3
  <2> QED BY <2>2, <2>3
<1> QED BY <1>2, <1>3, <1>4 DEF EntryOf

\* Whatever was tracked stays so, and d is on its way.
LEMMA SpawnTracked ==
  ASSUME TypeOK, NEW n \in Node, NEW d \in Content, Spawn(n, d), filter[n] \subseteq filter'[n]
  PROVE  /\ \A k \in Node \ {n} : jobs'[k] = jobs[k] /\ matrix'[k] = matrix[k]
         /\ InFlight(n, d)'
         /\ \A c \in Content :
              /\ JobTracked(n, c) => JobTracked(n, c)'
              /\ DoneShown(n, c) => DoneShown(n, c)'
              /\ InFlight(n, c) \/ Labelled(n, c) => InFlight(n, c)' \/ Labelled(n, c)'
<1> DEFINE job == [c |-> d, g |-> "looking", t |-> "none"]
<1>1. PICK s \in Slots : jobs[n][s] = NoJob /\ SetJob(n, s, job)
  BY DEF Spawn
<1>2. job.c = d /\ job.g = "looking" /\ job.t = "none" /\ Done(job) = job
  BY DEF Done
<1> HIDE DEF job
<1>3. /\ jobs'[n][s] = job
      /\ \A r \in Slots \ {s} : jobs'[n][r] = jobs[n][r]
      /\ \A k \in Node \ {n} : jobs'[k] = jobs[k]
  BY <1>1, <1>2, SetJobEffect
<1>4. InFlight(n, d)'
  BY <1>2, <1>3 DEF InFlight
<1>5. ASSUME NEW c \in Content
      PROVE  /\ JobTracked(n, c) => JobTracked(n, c)'
             /\ DoneShown(n, c) => DoneShown(n, c)'
             /\ InFlight(n, c) \/ Labelled(n, c) => InFlight(n, c)' \/ Labelled(n, c)'
  <2>1. jobs[n][s].c # c /\ jobs[n][s].t # "finished"
    BY <1>1, ContentAssumption DEF NoJob
  <2>2. JobTracked(n, c) => JobTracked(n, c)'
    <3> SUFFICES ASSUME JobTracked(n, c), NEW r \in Slots, jobs'[n][r].c = c
                 PROVE  /\ EntryOf(n, c)'.known
                        /\ jobs'[n][r].g = "over" => EntryOf(n, c)'.tag = TagOf[c]
                        /\ jobs'[n][r].g = "looking" => jobs'[n][r].t = "none"
      BY DEF JobTracked
    <3>1. CASE r = s
      BY <1>2, <1>3, <3>1, SpawnEntries
    <3>2. CASE r # s
      BY <1>3, <3>2, SpawnEntries DEF JobTracked
    <3> QED BY <3>1, <3>2
  <2>3. DoneShown(n, c) => DoneShown(n, c)'
    BY <1>3, <2>1, SpawnEntries, DoneElse
  <2>4. InFlight(n, c) => InFlight(n, c)'
    BY <1>3, <2>1 DEF InFlight
  <2>5. Labelled(n, c) => Labelled(n, c)'
    BY SpawnEntries DEF Labelled
  <2> QED BY <2>2, <2>3, <2>4, <2>5
<1> QED BY <1>3, <1>4, <1>5, SpawnEntries

LEMMA ResumeVisitTrack ==
  ASSUME TypeOK, TrackInv, NEW n \in Node, NEW h \in Hash, ResumeVisit(n, h) PROVE TrackInv'
<1>1. UNCHANGED <<up, halts, merged, dels, height, hook, adding, filter>>
  BY DEF ResumeVisit, stored, state, budget
<1>2. CASE UNCHANGED <<jobs, matrix>>
  BY <1>1, <1>2, TrackStill
<1>3. ASSUME NEW d \in Content, Spawn(n, d)
      PROVE  TrackInv'
  <2>1. \A k \in Node : Quiet(k)
    BY <1>1 DEF Quiet
  <2>2. ElsewhereTracked(n)
    BY <1>1, <1>3, <2>1, SpawnTracked DEF ElsewhereTracked
  <2>3. ASSUME NEW c \in Content, Tracked(n, c)
        PROVE  Tracked(n, c)'
    <3>1. Handed(n, c)'
      BY <1>1, <1>3, <2>1, <2>3, SpawnTracked, WinsFrame DEF Handed, Tracked
    <3> QED BY <1>1, <1>3, <2>3, <3>1, SpawnTracked DEF Tracked
  <2> QED BY <1>1, <2>2, <2>3, TrackLocal DEF TrackInv, Fresh
<1>4. UNCHANGED <<jobs, matrix>> \/ \E d \in Content : Spawn(n, d)
  <2>1. \A t : FindTag(n, t) \subseteq Content
    BY DEF FindTag, InSet, TypeOK, StoreType
  <2> QED BY <2>1 DEF ResumeVisit
<1> QED BY <1>2, <1>3, <1>4

\* A put that its owner adds is in no other store and in no job's hook yet.
LEMMA NotYetMerged ==
  ASSUME TypeOK, SafeInv, TrackInv, NEW n \in Node, NEW c \in adding[n]
  PROVE  OwnerOf[c] = n /\ \A k \in Node : c \notin merged[k]
<1>1. OwnerOf[c] = n
  BY DEF SafeInv, AddingOK
<1>2. c \notin merged[n]
  BY DEF TrackInv, Fresh
<1> QED BY <1>1, <1>2 DEF SafeInv, OwnerHas

LEMMA TagContentTrack ==
  ASSUME TypeOK, SafeInv, TrackInv, NEW n \in Node, NEW c \in Content, TagContent(n, c)
  PROVE  TrackInv'
<1>1. /\ UNCHANGED <<up, halts, merged, dels>> /\ c \in adding[n] /\ hook[n] = IdleHook
      /\ adding' = [adding EXCEPT ![n] = @ \ {c}]
      /\ \E top : height' = [height EXCEPT ![c] = top]
  BY DEF TagContent, budget
<1>2. OwnerOf[c] = n /\ \A k \in Node : c \notin merged[k]
  BY <1>1, NotYetMerged
<1>3. /\ UNCHANGED <<jobs, matrix>>
      /\ filter' = [filter EXCEPT ![n] = @ \cup {Shown(c)}]
      /\ hook' = [hook EXCEPT ![n] = [pc |-> "writing", c |-> c]]
  BY <1>2 DEF TagContent, PutHook, AddToState
<1>4. \A k \in Node : \A d \in merged[k] : height'[d] = height[d]
  BY <1>1, <1>2 DEF TypeOK, StoreType
<1>5. ElsewhereTracked(n)
  BY <1>1, <1>3, <1>4 DEF ElsewhereTracked, Quiet, TypeOK, StateType, ThreadType
<1>6. hook'[n].c = c /\ filter[n] \subseteq filter'[n] /\ adding'[n] = adding[n] \ {c}
  BY <1>1, <1>3 DEF TypeOK, ThreadType, StateType
<1>7. ASSUME NEW d \in Content, Tracked(n, d)
      PROVE  Tracked(n, d)'
  <2>1. JobTracked(n, d)' /\ DoneShown(n, d)'
    BY <1>3, <1>6, <1>7 DEF Tracked, JobTracked, DoneShown, EntryOf, Shown
  <2>2. Wins(n, d)' => Wins(n, d)
    <3>1. InSet(n)' = InSet(n) /\ InSet(n) \subseteq merged[n]
      BY <1>1 DEF InSet, Tombed
    <3>2. \A e \in InSet(n) : d \in InSet(n) => (Beats(d, e)' <=> Beats(d, e))
      BY <1>4, <3>1 DEF Beats
    <3> QED BY <3>1, <3>2 DEF Wins, FindTag
  <2>3. Handed(n, d)'
    <3>1. InFlight(n, d) \/ Labelled(n, d) => InFlight(n, d)' \/ Labelled(n, d)'
      BY <1>3 DEF InFlight, Labelled, EntryOf
    <3> QED BY <1>2, <1>6, <1>7, <2>2, <3>1 DEF Tracked, Handed
  <2> QED BY <2>1, <2>3 DEF Tracked
<1> QED BY <1>1, <1>5, <1>6, <1>7, TrackLocal DEF TrackInv, Fresh

\* A put that is merged takes no win from another one's rivals.
LEMMA WinsShrink ==
  ASSUME TypeOK, NEW n \in Node, NEW d \in Content, NEW c \in Content, c # d,
         merged'[n] = merged[n] \cup {d}, dels' = dels, height' = height, Wins(n, c)'
  PROVE  Wins(n, c)
<1>1. InSet(n) \subseteq InSet(n)' /\ InSet(n)' \subseteq InSet(n) \cup {d}
  BY DEF InSet, Tombed
<1>2. \A e : Beats(c, e)' <=> Beats(c, e)
  BY DEF Beats
<1> QED BY <1>1, <1>2 DEF Wins, FindTag

LEMMA HookCommitTrack ==
  ASSUME TypeOK, TrackInv, NEW n \in Node, HookCommit(n) PROVE TrackInv'
<1> DEFINE d == hook[n].c
<1>1. /\ UNCHANGED <<up, halts, dels, height, adding, jobs, matrix, filter>>
      /\ merged' = [merged EXCEPT ![n] = @ \cup {d}] /\ hook' = [hook EXCEPT ![n] = IdleHook]
      /\ hook[n].pc = "commit"
  BY DEF HookCommit, state, mat, budget
<1>2. d \in Content
  BY <1>1 DEF TypeOK, ThreadType, Hook
<1>3. merged'[n] = merged[n] \cup {d} /\ hook'[n] = IdleHook
  BY <1>1 DEF TypeOK, StoreType, ThreadType
<1>4. ElsewhereTracked(n)
  BY <1>1 DEF ElsewhereTracked, Quiet, TypeOK, StoreType, ThreadType
<1>5. IdleHook.c = None /\ adding[n] \subseteq Content /\ None \notin Content
  BY ContentAssumption DEF IdleHook, TypeOK, ThreadType
<1>6. adding'[n] \cap merged'[n] = {} /\ hook'[n].c \notin adding'[n]
  BY <1>1, <1>3, <1>5 DEF TrackInv, Fresh
<1>7. ASSUME NEW c \in Content, Tracked(n, c)
      PROVE  Tracked(n, c)'
  <2>1. JobTracked(n, c)' /\ DoneShown(n, c)'
    BY <1>1, <1>7 DEF Tracked, JobTracked, DoneShown, EntryOf, Shown
  <2>2. hook'[n].c # c
    BY <1>3, <1>5
  <2>3. Wins(n, c)' => c = d \/ Wins(n, c)
    BY <1>1, <1>2, <1>3, WinsShrink
  <2>4. Handed(n, c)'
    BY <1>1, <1>7, <2>2, <2>3 DEF Tracked, Handed, InFlight, Labelled, EntryOf
  <2> QED BY <2>1, <2>4 DEF Tracked
<1> QED BY <1>1, <1>4, <1>6, <1>7, TrackLocal DEF TrackInv

LEMMA MergePutTrack ==
  ASSUME AutoDownload, TypeOK, SafeInv, OwnInv, TrackInv,
         NEW n \in Node, NEW d \in Content, MergePut(n, d)
  PROVE  TrackInv'
<1>1. /\ UNCHANGED <<up, halts, dels, height, adding>>
      /\ d \notin merged[n] /\ hook[n] = IdleHook
      /\ \E m \in Node : d \in merged[m]
  BY DEF MergePut, Peers, budget
<1>2. OwnerOf[d] # n
  BY <1>1 DEF SafeInv, OwnerHas
<1>3. d \notin adding[n]
  BY <1>2 DEF SafeInv, AddingOK
<1>4. IdleHook.c = None /\ adding[n] \subseteq Content /\ None \notin Content
  BY ContentAssumption DEF IdleHook, TypeOK, ThreadType
<1>5. CASE HookFires(n, d)
  <2>1. /\ Spawn(n, d) /\ UNCHANGED <<merged, filter>>
        /\ hook' = [hook EXCEPT ![n] = [pc |-> "commit", c |-> d]]
    BY <1>2, <1>5 DEF MergePut, PutHook, state
  <2>2. hook'[n].c = d /\ \A k \in Node \ {n} : hook'[k] = hook[k]
    BY <2>1 DEF TypeOK, ThreadType
  <2>3. ElsewhereTracked(n)
    BY <1>1, <2>1, <2>2, SpawnTracked DEF ElsewhereTracked, Quiet
  <2>4. ASSUME NEW c \in Content, Tracked(n, c)
        PROVE  Tracked(n, c)'
    <3>1. JobTracked(n, c)' /\ DoneShown(n, c)'
      BY <2>1, <2>4, SpawnTracked DEF Tracked
    <3>2. CASE c = d
      BY <2>1, <3>1, <3>2, SpawnTracked DEF Tracked, Handed
    <3>3. CASE c # d
      <4>1. Wins(n, c)' => Wins(n, c)
        BY <1>1, <2>1 DEF Wins, FindTag, InSet, Tombed, Beats
      <4>2. Handed(n, c)'
        BY <2>1, <2>2, <2>4, <3>3, <4>1, SpawnTracked DEF Tracked, Handed
      <4> QED BY <3>1, <4>2 DEF Tracked
    <3> QED BY <3>2, <3>3
  <2>5. adding'[n] \cap merged'[n] = {} /\ hook'[n].c \notin adding'[n]
    BY <1>1, <1>3, <2>1, <2>2 DEF TrackInv, Fresh
  <2> QED BY <1>1, <2>3, <2>4, <2>5, TrackLocal DEF TrackInv
<1>6. CASE ~HookFires(n, d)
  <2>1. /\ merged' = [merged EXCEPT ![n] = @ \cup {d}]
        /\ UNCHANGED <<hook, jobs, filter, matrix>>
    BY <1>6 DEF MergePut, state
  <2>2. merged'[n] = merged[n] \cup {d} /\ \A k \in Node \ {n} : merged'[k] = merged[k]
    BY <2>1 DEF TypeOK, StoreType
  <2>3. ElsewhereTracked(n)
    BY <1>1, <2>1, <2>2 DEF ElsewhereTracked, Quiet
  <2>4. ~Wins(n, d)'
    <3>1. Tombed(n) = {} /\ Tombed(n)' = {}
      BY <1>1 DEF Tombed, OwnInv, NoDeletes
    <3>2. PICK e \in merged[n] : TagOf[e] = TagOf[d] /\ ~Beats(d, e)
      BY <1>6, <3>1 DEF HookFires
    <3>3. e \in InSet(n)' /\ ~Beats(d, e)'
      BY <1>1, <2>2, <3>1, <3>2 DEF InSet, Beats
    <3> QED BY <3>2, <3>3 DEF Wins, FindTag
  <2>5. ASSUME NEW c \in Content, Tracked(n, c)
        PROVE  Tracked(n, c)'
    <3>1. JobTracked(n, c)' /\ DoneShown(n, c)'
      BY <2>1, <2>5 DEF Tracked, JobTracked, DoneShown, EntryOf, Shown
    <3>2. Wins(n, c)' => Wins(n, c)
      BY <1>1, <2>2, <2>4, WinsShrink
    <3>3. Handed(n, c)'
      BY <2>1, <2>5, <3>2 DEF Tracked, Handed, InFlight, Labelled, EntryOf
    <3> QED BY <3>1, <3>3 DEF Tracked
  <2>6. adding'[n] \cap merged'[n] = {} /\ hook'[n].c \notin adding'[n]
    BY <1>1, <1>3, <2>1, <2>2 DEF TrackInv, Fresh
  <2> QED BY <1>1, <2>3, <2>5, <2>6, TrackLocal DEF TrackInv
<1> QED BY <1>5, <1>6

LEMMA AddFileTrack ==
  ASSUME TypeOK, TrackInv, NEW n \in Node, NEW d \in Content, AddFile(n, d) PROVE TrackInv'
<1>1. /\ UNCHANGED <<up, halts, merged, dels, height, hook, jobs, matrix, filter>>
      /\ adding' = [adding EXCEPT ![n] = @ \cup {d}] /\ d \notin merged[n] /\ hook[n].c # d
  BY DEF AddFile, state, mat, budget
<1>2. adding'[n] = adding[n] \cup {d} /\ \A k \in Node \ {n} : adding'[k] = adding[k]
  BY <1>1 DEF TypeOK, ThreadType
<1>3. \A k \in Node : Quiet(k)
  BY <1>1 DEF Quiet
<1>4. ElsewhereTracked(n)
  BY <1>1, <1>2, <1>3 DEF ElsewhereTracked
<1>5. \A c \in Content : Tracked(n, c) => Tracked(n, c)'
  BY <1>1, <1>3, TrackFrame
<1>6. adding'[n] \cap merged'[n] = {} /\ hook'[n].c \notin adding'[n]
  BY <1>1, <1>2 DEF TrackInv, Fresh
<1> QED BY <1>1, <1>4, <1>5, <1>6, TrackLocal DEF TrackInv

LEMMA HookWriteTrack ==
  ASSUME TypeOK, TrackInv, NEW n \in Node, HookWrite(n) PROVE TrackInv'
<1>1. /\ UNCHANGED <<up, halts, merged, dels, height, adding, jobs, matrix, filter>>
      /\ hook' = [hook EXCEPT ![n].pc = "commit"]
  BY DEF HookWrite, WriteState, stored, mat, budget
<1>2. hook[n] \in Hook /\ hook'[n] = [hook[n] EXCEPT !.pc = "commit"]
      /\ \A k \in Node \ {n} : hook'[k] = hook[k]
  BY <1>1 DEF TypeOK, ThreadType
<1>3. hook'[n].c = hook[n].c
  BY <1>2 DEF Hook
<1>4. \A k \in Node : Quiet(k)
  BY <1>1, <1>2, <1>3 DEF Quiet
<1>5. ElsewhereTracked(n)
  BY <1>1, <1>2, <1>4 DEF ElsewhereTracked
<1>6. \A c \in Content : Tracked(n, c) => Tracked(n, c)'
  BY <1>1, <1>4, TrackFrame
<1>7. adding'[n] \cap merged'[n] = {} /\ hook'[n].c \notin adding'[n]
  BY <1>1, <1>3 DEF TrackInv, Fresh
<1> QED BY <1>1, <1>5, <1>6, <1>7, TrackLocal DEF TrackInv

LEMMA HaltTrack ==
  ASSUME TypeOK, TrackInv, NEW n \in Node, Halt(n) PROVE TrackInv'
<1>1. halts' # 0
  BY DEF Halt, TypeOK, BudgetType
<1>2. /\ merged' = merged
      /\ \A k \in Node : adding'[k] \subseteq adding[k]
      /\ \A k \in Node : hook'[k] = hook[k] \/ adding'[k] = {}
  BY DEF Halt, stored, TypeOK, ThreadType
<1>3. Fresh'
  BY <1>2 DEF TrackInv, Fresh
<1> QED BY <1>1, <1>3 DEF TrackInv

LEMMA RestartTrack ==
  ASSUME TypeOK, TrackInv, NEW n \in Node, Restart(n) PROVE TrackInv'
<1>1. ~up[n] /\ UNCHANGED <<halts, merged, adding, hook>>
  BY DEF Restart, stored, threads, budget
<1>2. halts # 0
  BY <1>1 DEF TrackInv
<1> QED BY <1>1, <1>2 DEF TrackInv, Fresh

LEMMA StillTrack ==
  ASSUME TrackInv,
         \/ \E n \in Node : Flush(n) \/ \E m \in Node : Meet(n, m) \/ Part(n, m)
         \/ UNCHANGED vars
  PROVE  TrackInv'
  BY TrackStill DEF Meet, Part, Flush, vars, stored, threads, state, mat, budget

LEMMA TrackInit == Init => TrackInv
<1> SUFFICES ASSUME Init PROVE TrackInv
  OBVIOUS
<1>1. None \notin Content /\ HashOf \in [Content -> Hash]
  BY ContentAssumption
<1>2. Fresh
  BY DEF Init, Fresh
<1>3. ASSUME NEW n \in Node, NEW c \in Content
      PROVE  Tracked(n, c)
  <2>1. \A s \in Slots : jobs[n][s].c # c
    BY <1>1 DEF Init, NoJob
  <2>2. ~EntryOf(n, c).done
    BY <1>1 DEF Init, EntryOf, NoEntry
  <2>3. hook[n].c # c /\ ~Wins(n, c)
    BY <1>1 DEF Init, IdleHook, Wins, FindTag, InSet
  <2> QED BY <2>1, <2>2, <2>3 DEF Tracked, JobTracked, DoneShown, Handed
<1> QED BY <1>2, <1>3 DEF TrackInv, Init

LEMMA TrackStep ==
  ASSUME AutoDownload, ~Refuses, MaxDeletes = 0, TypeOK, SafeInv, OwnInv, TrackInv,
         [Next]_vars
  PROVE  TrackInv'
<1>1. CASE UNCHANGED vars
  BY <1>1, StillTrack
<1>2. CASE Next
  <2>1. PICK n \in Node :
          \/ Merging(n) \/ Deleting(n)
          \/ \E s \in Slots : Download(n, s)
          \/ \E m \in Node : Meet(n, m) \/ Part(n, m)
          \/ \E h \in Hash : ResumeVisit(n, h)
          \/ Flush(n) \/ Halt(n) \/ Restart(n)
    BY <1>2 DEF Next
  <2>2. CASE Merging(n)
    BY <2>2, AddFileTrack, TagContentTrack, MergePutTrack, HookWriteTrack, HookCommitTrack
    DEF Merging
  <2>3. CASE Deleting(n)
    BY <2>3, DeletesNever
  <2>4. CASE \E s \in Slots : Download(n, s)
    BY <2>4, StartTaskTrack, DownloadStartedTrack, FetchTrack, DownloadFinishedTrack,
       CallbackAddTrack, CallbackWriteTrack DEF Download, Goroutine, Callback, TaskRefused
  <2> QED BY <2>1, <2>2, <2>3, <2>4, StillTrack, ResumeVisitTrack, HaltTrack, RestartTrack
<1> QED BY <1>1, <1>2

\* Content whose root no other record has, and that won its tag, is shown, in
\* a job or resumable.
NotLost(n, c) ==
  OwnerOf[c] # n /\ c \in FindTag(n, TagOf[c]) =>
    \/ Shown(c) \in filter[n] /\ matrix[n][HashOf[c]].done
    \/ InFlight(n, c) \/ Resumable(n, c)

LEMMA TrackedNotLost ==
  ASSUME TypeOK, NEW n \in Node, NEW c \in Content, Tracked(n, c) PROVE NotLost(n, c)
<1> SUFFICES ASSUME OwnerOf[c] # n, c \in FindTag(n, TagOf[c])
             PROVE  \/ Shown(c) \in filter[n] /\ matrix[n][HashOf[c]].done
                    \/ InFlight(n, c) \/ Resumable(n, c)
  BY DEF NotLost
<1>1. InFlight(n, c) \/ Labelled(n, c)
  BY DEF Tracked, Handed, Wins
<1>2. CASE Labelled(n, c) /\ ~EntryOf(n, c).done
  BY <1>2 DEF Labelled, EntryOf, Resumable
<1>3. CASE EntryOf(n, c).done
  BY <1>3 DEF Tracked, DoneShown, EntryOf, InFlight
<1> QED BY <1>1, <1>2, <1>3

\* Whatever merges, downloads, failures and reconnections interleave, a node
\* that did not die drops no download of content that shares its root with no
\* other record: with automatic download, a download manager that refuses no
\* task, and while nothing is deleted.
THEOREM LoneDownloadsCorrect ==
  AutoDownload /\ ~Refuses /\ MaxDeletes = 0 =>
    (Spec => [](halts = 0 => \A n \in Node : \A c \in InSet(n) : Alone(c) => NotLost(n, c)))
<1> SUFFICES ASSUME AutoDownload, ~Refuses, MaxDeletes = 0
             PROVE  Spec => [](halts = 0 => \A n \in Node : \A c \in InSet(n) :
                                 Alone(c) => NotLost(n, c))
  OBVIOUS
<1>1. Init => OwnInv /\ TrackInv
  BY OwnInit, TrackInit
<1>2. TypeOK /\ SafeInv /\ ShownInv /\ OwnInv /\ TrackInv /\ [Next]_vars => OwnInv' /\ TrackInv'
  BY OwnStep, TrackStep
<1>3. TypeOK /\ TrackInv =>
        (halts = 0 => \A n \in Node : \A c \in InSet(n) : Alone(c) => NotLost(n, c))
  <2> SUFFICES ASSUME TypeOK, TrackInv, halts = 0, NEW n \in Node, NEW c \in InSet(n), Alone(c)
               PROVE  NotLost(n, c)
    OBVIOUS
  <2>1. c \in Content
    BY DEF InSet, TypeOK, StoreType
  <2> QED BY <2>1, TrackedNotLost DEF TrackInv
<1> QED BY <1>1, <1>2, <1>3, TypeCorrect, SafeCorrect, ShownCorrect, PTL DEF Spec

\* So no download is lost at all where no two records share a root.
THEOREM DownloadsCorrect ==
  AutoDownload /\ ~Refuses /\ MaxDeletes = 0 /\ (\A c \in Content : Alone(c))
    => (Spec => []NoLostDownload)
<1> SUFFICES ASSUME AutoDownload, ~Refuses, MaxDeletes = 0, \A c \in Content : Alone(c)
             PROVE  Spec => []NoLostDownload
  OBVIOUS
<1>1. TypeOK /\ (halts = 0 => \A n \in Node : \A c \in InSet(n) : Alone(c) => NotLost(n, c))
        => NoLostDownload
  <2> SUFFICES ASSUME TypeOK, halts = 0, NEW n \in Node, NEW c \in InSet(n),
                      Alone(c) => NotLost(n, c), OwnerOf[c] # n, c \in FindTag(n, TagOf[c])
               PROVE  \/ Shown(c) \in filter[n] /\ matrix[n][HashOf[c]].done
                      \/ InFlight(n, c) \/ Resumable(n, c)
    BY DEF NoLostDownload
  <2>1. c \in Content
    BY DEF InSet, TypeOK, StoreType
  <2> QED BY <2>1 DEF NotLost
<1> QED BY <1>1, LoneDownloadsCorrect, TypeCorrect, PTL

(* -------------------------- the refinement --------------------------- *)


ShownTags == [n \in Node |-> Shows(n)]

LEMMA StaysAbstract ==
  ASSUME UNCHANGED <<obtained, merged>>, \A k \in Node : Shows(k)' = Shows(k)
  PROVE  UNCHANGED Abstract!avars
  BY DEF Abstract!avars

LEMMA SameFilter == ASSUME filter' = filter PROVE \A k \in Node : Shows(k)' = Shows(k)
  BY DEF Shows

\* A tag is added to one filter.
LEMMA ShowsMore ==
  ASSUME TypeOK, UNCHANGED <<obtained, merged>>, NEW n \in Node, NEW c \in Content,
         HashOf[c] \in obtained[n],
         filter' = [filter EXCEPT ![n] = @ \cup {Shown(c)}]
  PROVE  Abstract!ANext
<1>1. TagOf[c] \in Tag
  BY ContentAssumption
<1>2. Shows(n)' = Shows(n) \cup {TagOf[c]}
  BY <1>1 DEF Shows, Shown, TypeOK, StateType
<1>3. \A k \in Node \ {n} : Shows(k)' = Shows(k)
  BY DEF Shows, TypeOK, StateType
<1>4. ShownTags' = [ShownTags EXCEPT ![n] = @ \cup {TagOf[c]}]
  BY <1>2, <1>3 DEF ShownTags
<1>5. Abstract!Show(n, TagOf[c])
  BY <1>4 DEF Abstract!Show, Abstract!MayShow, ShownTags
<1> QED BY <1>1, <1>5 DEF Abstract!ANext

\* One filter loses tags.
LEMMA ShowsLess ==
  ASSUME TypeOK, UNCHANGED <<obtained, merged>>, NEW n \in Node,
         \A k \in Node \ {n} : filter'[k] = filter[k], Shows(n)' \subseteq Shows(n)
  PROVE  Abstract!ANext
<1>1. \A k \in Node \ {n} : Shows(k)' = Shows(k)
  BY DEF Shows
<1> DEFINE tags == Shows(n)'
<1>2. ShownTags' = [ShownTags EXCEPT ![n] = tags]
  BY <1>1 DEF ShownTags
<1>3. tags \in SUBSET Tag
  BY DEF Shows
<1>4. Abstract!Forget(n, tags)
  BY <1>2 DEF Abstract!Forget, ShownTags
<1> QED
  <2> HIDE DEF tags
  <2> QED BY <1>3, <1>4 DEF Abstract!ANext

LEMMA LearnsAbstract ==
  ASSUME UNCHANGED <<obtained, filter>>, NEW n \in Node, NEW c \in Content,
         \/ OwnerOf[c] = n /\ HashOf[c] \in obtained[n]
         \/ \E m \in Node : c \in merged[m],
         merged' = [merged EXCEPT ![n] = @ \cup {c}]
  PROVE  Abstract!ANext
<1>1. ShownTags' = ShownTags
  BY SameFilter DEF ShownTags
<1>2. Abstract!Learn(n, c)
  BY <1>1 DEF Abstract!Learn, Abstract!Published, ShownTags
<1> QED BY <1>2 DEF Abstract!ANext

LEMMA AddFileRefines ==
  ASSUME NEW n \in Node, NEW c \in Content, AddFile(n, c) PROVE Abstract!ANext
<1>1. ShownTags' = ShownTags
  BY SameFilter DEF ShownTags, AddFile, state
<1>2. Abstract!Store(n, c)
  BY <1>1 DEF Abstract!Store, AddFile, ShownTags
<1> QED BY <1>2 DEF Abstract!ANext

LEMMA FetchRefines ==
  ASSUME TypeOK, SafeInv, NEW n \in Node, NEW s \in Slots, Fetch(n, s) PROVE Abstract!ANext
<1> DEFINE c == jobs[n][s].c
<1>1. ShownTags' = ShownTags
  BY SameFilter DEF ShownTags, Fetch, state
<1>2. c \in Content /\ OwnerOf[c] \in Node /\ c \in merged[OwnerOf[c]]
  BY JobFacts DEF Fetch, SafeInv, JobsOK, JobOK
<1>3. \E m \in Node : HashOf[c] \in obtained[m]
  BY DEF Fetch, Reachable, Peers, SafeInv, BlocksOK
<1>4. /\ obtained' = [obtained EXCEPT ![n] = @ \cup {HashOf[c]}]
      /\ merged' = merged
  BY DEF Fetch, JobFrame
<1>5. Abstract!Fetch(n, c)
  <2> HIDE DEF c
  <2> QED BY <1>1, <1>2, <1>3, <1>4 DEF Abstract!Fetch, Abstract!Published, ShownTags
<1> QED BY <1>2, <1>5 DEF Abstract!ANext

LEMMA TagContentRefines ==
  ASSUME TypeOK, SafeInv, NEW n \in Node, NEW c \in Content, TagContent(n, c)
  PROVE  Abstract!ANext
<1>1. OwnerOf[c] = n /\ HashOf[c] \in obtained[n]
  BY DEF TagContent, SafeInv, AddingOK
<1>2. filter' = [filter EXCEPT ![n] = @ \cup {Shown(c)}] /\ UNCHANGED <<obtained, merged>>
  BY <1>1 DEF TagContent, PutHook, AddToState
<1> QED BY <1>1, <1>2, ShowsMore

LEMMA MergePutRefines ==
  ASSUME TypeOK, SafeInv, AutoDownload, NEW n \in Node, NEW c \in Content, MergePut(n, c)
  PROVE  Abstract!ANext \/ UNCHANGED Abstract!avars
<1>1. UNCHANGED <<obtained, filter>>
  BY MergePutLoads DEF MergePut
<1>2. CASE merged' = merged
  BY <1>1, <1>2, SameFilter, StaysAbstract
<1>3. CASE merged' = [merged EXCEPT ![n] = @ \cup {c}]
  <2>1. \E m \in Node : c \in merged[m]
    BY DEF MergePut, Peers
  <2> QED BY <1>1, <1>3, <2>1, LearnsAbstract
<1> QED BY <1>2, <1>3 DEF MergePut

LEMMA HookCommitRefines ==
  ASSUME TypeOK, SafeInv, NEW n \in Node, HookCommit(n) PROVE Abstract!ANext
<1> DEFINE c == hook[n].c
<1>1. c \in Content
  BY DEF HookCommit, TypeOK, ThreadType, Hook
<1>2. \/ OwnerOf[c] = n /\ HashOf[c] \in obtained[n]
      \/ \E m \in Node : c \in merged[m]
  BY <1>1, ContentAssumption DEF HookCommit, SafeInv, HookOK
<1>3. UNCHANGED <<obtained, filter>> /\ merged' = [merged EXCEPT ![n] = @ \cup {c}]
  BY DEF HookCommit, state
<1> HIDE DEF c
<1> QED BY <1>1, <1>2, <1>3, LearnsAbstract

LEMMA CallbackAddRefines ==
  ASSUME TypeOK, SafeInv, NEW n \in Node, NEW s \in Slots, CallbackAdd(n, s)
  PROVE  Abstract!ANext
<1> DEFINE c == jobs[n][s].c
<1>1. c \in Content /\ HashOf[c] \in obtained[n]
  BY JobFacts DEF CallbackAdd, SafeInv, JobsOK, JobOK, Past
<1>2. filter' = [filter EXCEPT ![n] = @ \cup {Shown(c)}] /\ UNCHANGED <<obtained, merged>>
  BY DEF CallbackAdd, AddToState, JobFrame
<1> HIDE DEF c
<1> QED BY <1>1, <1>2, ShowsMore

LEMMA DelHookAddRefines ==
  ASSUME TypeOK, ShownInv, NEW n \in Node, DelHookAdd(n) PROVE Abstract!ANext
<1>1. UNCHANGED <<obtained, merged>>
  BY DEF DelHookAdd, stored
<1>2. \A k \in Node \ {n} : filter'[k] = filter[k]
  BY DEF DelHookAdd, TypeOK, StateType
<1>3. delHook[n].seen \subseteq filter[n]
  BY DEF DelHookAdd, ShownInv, SeenOK
<1>4. filter'[n] \subseteq filter[n] \cup {<<"removed", delHook[n].t>>}
  BY <1>3 DEF DelHookAdd, TypeOK, StateType
<1>5. Shows(n)' \subseteq Shows(n)
  BY <1>4 DEF Shows
<1> QED BY <1>1, <1>2, <1>5, ShowsLess

LEMMA HaltRefines ==
  ASSUME TypeOK, NEW n \in Node, Halt(n) PROVE Abstract!ANext
<1>1. UNCHANGED <<obtained, merged>>
  BY DEF Halt, stored
<1>2. filter'[n] = {} /\ \A k \in Node \ {n} : filter'[k] = filter[k]
  BY DEF Halt, TypeOK, StateType
<1>3. Shows(n)' \subseteq Shows(n)
  BY <1>2 DEF Shows
<1> QED BY <1>1, <1>2, <1>3, ShowsLess

LEMMA RestartRefines ==
  ASSUME TypeOK, AutoDownload, ShownInv, NEW n \in Node, Restart(n) PROVE Abstract!ANext
<1>1. UNCHANGED <<obtained, merged>>
  BY DEF Restart, stored
<1>2. filter'[n] = stateFile[n] /\ \A k \in Node \ {n} : filter'[k] = filter[k]
  BY DEF Restart, TypeOK, StateType
<1>3. filter[n] = {}
  BY DEF Restart, ShownInv, DownIdle
<1> DEFINE tags == Shows(n)'
<1>4. Shows(n) = {}
  BY <1>3 DEF Shows
<1>5. \A k \in Node \ {n} : Shows(k)' = Shows(k)
  BY <1>2 DEF Shows
<1>6. ShownTags' = [ShownTags EXCEPT ![n] = tags]
  BY <1>5 DEF ShownTags
<1>7. tags \in SUBSET Tag
  BY DEF Shows
<1>8. \A t \in tags : \E c \in Content : TagOf[c] = t /\ HashOf[c] \in obtained[n]
  BY <1>2, RightfulBy DEF ShownInv, BackedBy, Shows
<1>9. Abstract!Recover(n, tags)
  <2> HIDE DEF tags
  <2> QED BY <1>1, <1>4, <1>6, <1>8 DEF Abstract!Recover, Abstract!MayShow, ShownTags
<1> QED
  <2> HIDE DEF tags
  <2> QED BY <1>7, <1>9 DEF Abstract!ANext

\* Every other step is a step of the machinery that ReplicatedContent does not see.
LEMMA HiddenSteps ==
  ASSUME NEW n \in Node,
         \/ HookWrite(n) \/ DelHookTruncate(n) \/ DelHookWrite(n) \/ Flush(n)
         \/ \E t \in Tag : DeleteFile(n, t) \/ DeleteTag(n, t) \/ MergeDelete(n, t)
         \/ \E s \in Slots : \/ StartTask(n, s) \/ DownloadStarted(n, s) \/ FetchFails(n, s)
                             \/ TaskRefused(n, s)
                             \/ DirectoryFails(n, s) \/ DownloadFinished(n, s)
                             \/ CallbackWrite(n, s)
         \/ \E m \in Node : Meet(n, m) \/ Part(n, m)
         \/ \E h \in Hash : ResumeVisit(n, h)
  PROVE  UNCHANGED Abstract!avars
<1>1. UNCHANGED <<obtained, merged, filter>>
  BY DEF HookWrite, DelHookTruncate, DelHookWrite, Flush, DeleteFile, DeleteTag, MergeDelete,
         StartTask, TaskRefused, DownloadStarted, FetchFails, DirectoryFails, DownloadFinished,
         CallbackWrite, Meet, Part, ResumeVisit, JobFrame, WriteState, stored, state
<1> QED BY <1>1, SameFilter, StaysAbstract

LEMMA RefineInit == Init => Abstract!AInit
  BY DEF Init, Abstract!AInit, Shows

LEMMA RefineStep ==
  ASSUME AutoDownload, TypeOK, SafeInv, ShownInv, [Next]_vars
  PROVE  [Abstract!ANext]_(Abstract!avars)
<1>1. CASE UNCHANGED vars
  BY <1>1, SameFilter, StaysAbstract DEF vars, stored, state
<1>2. CASE Next
  BY <1>2, NextCases, HiddenSteps, AddFileRefines, TagContentRefines, MergePutRefines,
     HookCommitRefines, FetchRefines, DelHookAddRefines, CallbackAddRefines, HaltRefines,
     RestartRefines
<1> QED BY <1>1, <1>2

\* With automatic download, everything the replication machinery does is what
\* ReplicatedContent allows: metadata comes from its owner, blocks from a node
\* that stored them, and tags are shown, forgotten and recovered rightfully.
THEOREM ImplementsCorrect == AutoDownload => (Spec => Implements)
<1> SUFFICES ASSUME AutoDownload PROVE Spec => Implements
  OBVIOUS
<1>1. Init => ShownInv /\ Abstract!AInit
  BY ShownInit, RefineInit
<1>2. TypeOK /\ SafeInv /\ ShownInv /\ [Next]_vars => ShownInv' /\ [Abstract!ANext]_(Abstract!avars)
  BY ShownStep, RefineStep
<1> QED BY <1>1, <1>2, TypeCorrect, SafeCorrect, PTL DEF Spec, Implements, Abstract!ASpec
===============================================================================
