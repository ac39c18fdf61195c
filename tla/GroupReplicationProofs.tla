---------------------- MODULE GroupReplicationProofs ----------------------
(***************************************************************************)
(* Proofs about GroupReplication, for every set of nodes, groups and       *)
(* contents and every bound.                                               *)
(***************************************************************************)
EXTENDS GroupReplication, TLAPS

\* The steps of Next, one by one.
LEMMA GroupCases ==
  ASSUME Next
  PROVE  \/ \E g \in Group : CreateGroup(g)
         \/ \E g \in Group : StoreOwner(g)
         \/ \E g \in Group : OpenState(g)
         \/ \E g \in Group : OpenSaved(g)
         \/ \E n \in Node, d \in issued : MergePut(n, d)
         \/ \E n \in Node : HookSave(n)
         \/ \E n \in Node : HookHand(n)
         \/ \E n \in Node : HookCommit(n)
         \/ \E n \in Node, g \in Group, m \in Node : GroupAddMember(n, g, m)
         \/ \E n \in Node, c \in Content : GroupAddContent(n, c)
         \/ \E n \in Node, c \in Content : Download(n, c)
         \/ \E n \in Node, c \in Content : DownloadFails(n, c)
         \/ \E n \in Node, c \in Content : GroupCallback(n, c)
         \/ \E n \in Node, c \in Content : PlainCallback(n, c)
         \/ \E n \in Node, c \in Content : GroupSaved(n, c)
         \/ \E n \in Node, c \in Content : ResumeVisit(n, c)
         \/ \E n \in Node : Connected(n)
         \/ \E n \in Node : Halt(n)
         \/ \E n \in Node : Restart(n)
  BY DEF Next, Creating, Hooking, Watching, Callback

(* ------------------------------ types -------------------------------- *)

KeeperType ==
  /\ gstate \in [Node -> [Group -> State]] /\ gfile \in [Node -> [Group -> State]]
  /\ torn \in [Node -> BOOLEAN]

LEMMA PutTypes ==
  /\ \A g \in Group : Meta(g) \in Put
  /\ \A g \in Group, m, by \in Node : Member(g, m, by) \in Put
  /\ \A c \in Content : Index(c) \in Put
  /\ IdleHook \in Hook /\ NoState \in State
  BY DEF Meta, Member, Index, Put, MetaPut, MemberPut, IndexPut, IdleHook, Hook,
         NoPut, NoState, State

\* No put is the absence of one, and kinds tell puts apart.
LEMMA KindOf ==
  ASSUME NEW d \in Put
  PROVE  d # NoPut /\ (d.kind = "index" => d \in IndexPut)
  BY DEF Put, MetaPut, MemberPut, IndexPut, NoPut

\* AddOrUpdateState and saveStates keep the keeper well-typed.
LEMMA UpdateType ==
  ASSUME KeeperType, NEW n \in Node, NEW g \in Group, NEW tags \in SUBSET Tag,
         AddOrUpdateState(n, g, tags)
  PROVE  KeeperType'
<1>1. gstate[n][g] \in State
  BY DEF KeeperType
<1>2. [member |-> TRUE, tags |-> gstate[n][g].tags \cup tags] \in State
  BY <1>1 DEF State
<1>3. gstate' = [gstate EXCEPT ![n][g] =
                   [member |-> TRUE, tags |-> gstate[n][g].tags \cup tags]]
  BY DEF AddOrUpdateState, KeeperType
<1>4. gstate' \in [Node -> [Group -> State]]
  BY <1>2, <1>3 DEF KeeperType
<1> QED BY <1>4 DEF AddOrUpdateState, KeeperType

LEMMA SaveType ==
  ASSUME KeeperType, NEW n \in Node, saveStates(n)
  PROVE  KeeperType'
  BY DEF saveStates, KeeperType

LEMMA AtType ==
  ASSUME hook \in [Node -> Hook], NEW n \in Node, NEW d \in Put,
         NEW pc \in {"saving", "handing", "commit"}, At(n, pc, d),
         pc = "handing" => d \in IndexPut
  PROVE  hook' \in [Node -> Hook]
<1>1. [pc |-> pc, d |-> d] \in Hook
  BY KindOf DEF Hook
<1> QED BY <1>1 DEF At

LEMMA TagsType ==
  ASSUME NEW n \in Node, NEW g \in Group
  PROVE  {TagOf[c] : c \in Indexed(n, g)} \subseteq Tag
  BY GroupAssumption DEF Indexed

LEMMA GroupPutHookType ==
  ASSUME TypeOK, NEW n \in Node, NEW d \in Put, PutHook(n, d)
  PROVE  hook' \in [Node -> Hook] /\ KeeperType'
<1>0. KeeperType /\ hook \in [Node -> Hook]
  BY DEF TypeOK, KeeperType
<1>1. CASE MetaHook(n, d)
  <2>1. At(n, "commit", d) /\ UNCHANGED keeper
    BY <1>1 DEF MetaHook
  <2> QED BY <2>1, <1>0, AtType DEF keeper, KeeperType
<1>2. CASE MemberHook(n, d)
  <2>1. CASE d.m = n
    <3>1. d.g \in Group
      BY <1>2 DEF MemberHook, MemberPut
    <3>2. AddOrUpdateState(n, d.g, {TagOf[c] : c \in Indexed(n, d.g)}) /\ At(n, "saving", d)
      BY <1>2, <2>1 DEF MemberHook
    <3>3. {TagOf[c] : c \in Indexed(n, d.g)} \in SUBSET Tag
      BY <3>1, TagsType
    <3> QED BY <3>1, <3>2, <3>3, <1>0, UpdateType, AtType
  <2>2. CASE d.m # n
    <3>1. At(n, "commit", d) /\ UNCHANGED keeper
      BY <1>2, <2>2 DEF MemberHook
    <3> QED BY <3>1, <1>0, AtType DEF keeper, KeeperType
  <2> QED BY <2>1, <2>2
<1>3. CASE IndexHook(n, d)
  <2>1. d.c \in Content /\ GroupOf[d.c] \in Group \cup {Plain} /\ TagOf[d.c] \in Tag
    BY <1>3, GroupAssumption DEF IndexHook, IndexPut
  <2>2. CASE GroupOf[d.c] = Plain
    <3>1. At(n, "handing", d) /\ UNCHANGED keeper
      BY <1>3, <2>2 DEF IndexHook
    <3>2. d \in IndexPut
      BY <1>3 DEF IndexHook
    <3> QED BY <3>1, <3>2, <1>0, AtType DEF keeper, KeeperType
  <2>3. CASE GroupOf[d.c] # Plain /\ IsMember(n, GroupOf[d.c], n)
    <3>1. AddOrUpdateState(n, GroupOf[d.c], {TagOf[d.c]}) /\ At(n, "saving", d)
      BY <1>3, <2>3 DEF IndexHook
    <3> QED BY <3>1, <2>1, <2>3, <1>0, UpdateType, AtType
  <2>4. CASE GroupOf[d.c] # Plain /\ ~IsMember(n, GroupOf[d.c], n)
    <3>1. At(n, "commit", d) /\ UNCHANGED keeper
      BY <1>3, <2>4 DEF IndexHook
    <3> QED BY <3>1, <1>0, AtType DEF keeper, KeeperType
  <2> QED BY <2>2, <2>3, <2>4
<1> QED BY <1>1, <1>2, <1>3 DEF PutHook

LEMMA LocalPutType ==
  ASSUME TypeOK, NEW n \in Node, NEW d \in Put, LocalPut(n, d)
  PROVE  hook' \in [Node -> Hook] /\ KeeperType' /\ issued' \subseteq Put
  BY GroupPutHookType DEF LocalPut, TypeOK

\* Handing a content to the watcher keeps jobs and entries well-typed.
LEMMA GroupSpawnType ==
  ASSUME TypeOK, NEW n \in Node, NEW c \in Content, Spawn(n, c)
  PROVE  /\ job' \in [Node -> [Content -> Stage]]
         /\ entry' \in [Node -> [Content -> {"none", "open", "done"}]]
<1>1. job' = [job EXCEPT ![n][c] = IF job[n][c] = "none" THEN "loading" ELSE job[n][c]]
  BY DEF Spawn, TypeOK
<1>2. (IF job[n][c] = "none" THEN "loading" ELSE job[n][c]) \in Stage
  BY DEF TypeOK, Stage
<1>3. entry' = [entry EXCEPT ![n][c] = IF entry[n][c] = "none" THEN "open" ELSE entry[n][c]]
  BY DEF Spawn, TypeOK
<1>4. (IF entry[n][c] = "none" THEN "open" ELSE entry[n][c]) \in {"none", "open", "done"}
  BY DEF TypeOK
<1>5. job' \in [Node -> [Content -> Stage]]
  BY <1>1, <1>2 DEF TypeOK
<1> QED BY <1>3, <1>4, <1>5 DEF TypeOK

LEMMA ToType ==
  ASSUME TypeOK, NEW n \in Node, NEW c \in Content, NEW stage \in Stage, To(n, c, stage)
  PROVE  job' \in [Node -> [Content -> Stage]]
  BY DEF TypeOK, To

LEMMA GroupTypeInit == Init => TypeOK
<1>1. NoState \in State /\ IdleHook \in Hook
  BY PutTypes
<1> QED BY <1>1, LimitAssumption DEF Init, TypeOK, Step, Stage

\* Every step keeps the types.
LEMMA GroupTypeNext == TypeOK /\ [Next]_vars => TypeOK'
<1> SUFFICES ASSUME TypeOK, [Next]_vars PROVE TypeOK'
  OBVIOUS
<1> USE LimitAssumption
<1>0. KeeperType /\ hook \in [Node -> Hook] /\ \A g \in Group : CreatorOf[g] \in Node
  BY GroupAssumption DEF TypeOK, KeeperType
<1>1. ASSUME UNCHANGED vars PROVE TypeOK'
  BY <1>1 DEF vars, keeper, watcher, TypeOK
<1>2. ASSUME NEW g \in Group, CreateGroup(g) PROVE TypeOK'
  <2>1. LocalPut(CreatorOf[g], Meta(g)) /\ Make(g, "group") /\ MakeFrame
    BY <1>2 DEF CreateGroup
  <2>2. hook' \in [Node -> Hook] /\ KeeperType' /\ issued' \subseteq Put
    BY <2>1, <1>0, PutTypes, LocalPutType
  <2> QED BY <2>1, <2>2 DEF Make, MakeFrame, watcher, Step, TypeOK, KeeperType
<1>3. ASSUME NEW g \in Group, StoreOwner(g) PROVE TypeOK'
  <2>1. /\ LocalPut(CreatorOf[g], Member(g, CreatorOf[g], CreatorOf[g]))
        /\ Make(g, "member") /\ MakeFrame
    BY <1>3 DEF StoreOwner
  <2>2. hook' \in [Node -> Hook] /\ KeeperType' /\ issued' \subseteq Put
    BY <2>1, <1>0, PutTypes, LocalPutType
  <2> QED BY <2>1, <2>2 DEF Make, MakeFrame, watcher, Step, TypeOK, KeeperType
<1>4. ASSUME NEW g \in Group, OpenState(g) PROVE TypeOK'
  <2>1. /\ AddOrUpdateState(CreatorOf[g], g, {}) /\ Make(g, "saving")
        /\ UNCHANGED <<issued, hook>> /\ MakeFrame
    BY <1>4 DEF OpenState
  <2>2. KeeperType'
    BY <2>1, <1>0, UpdateType
  <2> QED BY <2>1, <2>2 DEF Make, MakeFrame, watcher, Step, TypeOK, KeeperType
<1>5. ASSUME NEW g \in Group, OpenSaved(g) PROVE TypeOK'
  <2>1. KeeperType'
    BY <1>5, <1>0, SaveType DEF OpenSaved
  <2> QED BY <1>5, <2>1 DEF OpenSaved, Make, MakeFrame, watcher, Step, TypeOK, KeeperType
<1>6. ASSUME NEW n \in Node, NEW d \in issued, MergePut(n, d) PROVE TypeOK'
  <2>1. d \in Put
    BY DEF TypeOK
  <2>2. CASE PutHook(n, d) /\ UNCHANGED merged
    <3>1. hook' \in [Node -> Hook] /\ KeeperType'
      BY <2>1, <2>2, GroupPutHookType
    <3> QED BY <1>6, <2>2, <3>1 DEF MergePut, watcher, TypeOK, KeeperType
  <2>3. CASE merged' = [merged EXCEPT ![n] = @ \cup {d}] /\ UNCHANGED <<hook, keeper>>
    BY <1>6, <2>1, <2>3 DEF MergePut, keeper, watcher, TypeOK
  <2> QED BY <1>6, <2>2, <2>3 DEF MergePut
<1>7. ASSUME NEW n \in Node, HookSave(n) PROVE TypeOK'
  <2>1. hook[n].pc = "saving" /\ hook[n] \in Hook
    BY <1>7, <1>0 DEF HookSave
  <2>2. KeeperType'
    BY <1>7, <1>0, SaveType DEF HookSave
  <2>3. hook[n].d \in Put
    BY <2>1 DEF Hook
  <2>4. hook' \in [Node -> Hook]
    <3>1. CASE hook[n].d.kind = "index"
      BY <1>7, <1>0, <2>3, <3>1, KindOf, AtType DEF HookSave
    <3>2. CASE hook[n].d.kind # "index"
      BY <1>7, <1>0, <2>3, <3>2, AtType DEF HookSave
    <3> QED BY <3>1, <3>2
  <2> QED BY <1>7, <2>2, <2>4 DEF HookSave, watcher, TypeOK, KeeperType
<1>8. ASSUME NEW n \in Node, HookHand(n) PROVE TypeOK'
  <2> DEFINE c == hook[n].d.c
  <2>0. hook[n].d \in IndexPut
    BY <1>8, <1>0 DEF HookHand, Hook
  <2>1. c \in Content /\ TagOf[c] \in Tag /\ hook[n].d \in Put
    BY <2>0, GroupAssumption DEF IndexPut, Put
  <2>2. hook' \in [Node -> Hook]
    BY <1>8, <1>0, <2>1, AtType DEF HookHand
  <2>3. CASE Spawn(n, c) /\ UNCHANGED filter
    BY <1>8, <2>1, <2>2, <2>3, GroupSpawnType DEF HookHand, keeper, TypeOK
  <2>4. CASE filter' = [filter EXCEPT ![n] = @ \cup {TagOf[c]}] /\ UNCHANGED <<job, entry>>
    BY <1>8, <2>1, <2>2, <2>4 DEF HookHand, keeper, TypeOK
  <2> QED BY <1>8, <2>3, <2>4 DEF HookHand
<1>9. ASSUME NEW n \in Node, HookCommit(n) PROVE TypeOK'
  <2>1. hook[n].d \in Put
    BY <1>9, <1>0 DEF HookCommit, Hook
  <2>2. merged' \in [Node -> SUBSET Put]
    BY <1>9, <2>1 DEF HookCommit, TypeOK
  <2>3. hook' \in [Node -> Hook]
    BY <1>9, <1>0, PutTypes DEF HookCommit
  <2> QED BY <1>9, <2>2, <2>3 DEF HookCommit, keeper, watcher, TypeOK
<1>10. ASSUME NEW n \in Node, NEW g \in Group, NEW m \in Node, GroupAddMember(n, g, m)
       PROVE TypeOK'
  <2>1. hook' \in [Node -> Hook] /\ KeeperType' /\ issued' \subseteq Put
    BY <1>10, PutTypes, LocalPutType DEF GroupAddMember
  <2> QED BY <1>10, <2>1 DEF GroupAddMember, watcher, TypeOK, KeeperType
<1>11. ASSUME NEW n \in Node, NEW c \in Content, GroupAddContent(n, c) PROVE TypeOK'
  <2>1. hook' \in [Node -> Hook] /\ KeeperType' /\ issued' \subseteq Put
    BY <1>11, PutTypes, LocalPutType DEF GroupAddContent
  <2> QED BY <1>11, <2>1 DEF GroupAddContent, TypeOK, KeeperType
<1>12. ASSUME NEW n \in Node, NEW c \in Content, Download(n, c) PROVE TypeOK'
  <2>1. job' \in [Node -> [Content -> Stage]]
    BY <1>12, ToType DEF Download, Stage
  <2>2. entry' \in [Node -> [Content -> {"none", "open", "done"}]]
    BY <1>12 DEF Download, TypeOK
  <2> QED BY <1>12, <2>1, <2>2 DEF Download, JobFrame, keeper, TypeOK
<1>13. ASSUME NEW n \in Node, NEW c \in Content, DownloadFails(n, c) PROVE TypeOK'
  <2>1. job' \in [Node -> [Content -> Stage]]
    BY <1>13, ToType DEF DownloadFails, Stage
  <2>2. fails' \in 0..MaxFails
    BY <1>13 DEF DownloadFails, TypeOK
  <2> QED BY <1>13, <2>1, <2>2 DEF DownloadFails, JobFrame, keeper, TypeOK
<1>14. ASSUME NEW n \in Node, NEW c \in Content, GroupCallback(n, c) PROVE TypeOK'
  <2>1. job' \in [Node -> [Content -> Stage]]
    BY <1>14, ToType DEF GroupCallback, Stage
  <2>2. GroupOf[c] \in Group /\ TagOf[c] \in Tag
    BY <1>14, GroupAssumption DEF GroupCallback
  <2>3. KeeperType'
    BY <1>14, <1>0, <2>2, UpdateType DEF GroupCallback
  <2> QED BY <1>14, <2>1, <2>3 DEF GroupCallback, JobFrame, TypeOK, KeeperType
<1>15. ASSUME NEW n \in Node, NEW c \in Content, PlainCallback(n, c) PROVE TypeOK'
  <2>1. job' \in [Node -> [Content -> Stage]] /\ TagOf[c] \in Tag
    BY <1>15, ToType, GroupAssumption DEF PlainCallback, Stage
  <2> QED BY <1>15, <2>1 DEF PlainCallback, JobFrame, keeper, TypeOK
<1>16. ASSUME NEW n \in Node, NEW c \in Content, GroupSaved(n, c) PROVE TypeOK'
  <2>1. job' \in [Node -> [Content -> Stage]]
    BY <1>16, ToType DEF GroupSaved, Stage
  <2>2. KeeperType'
    BY <1>16, <1>0, SaveType DEF GroupSaved
  <2> QED BY <1>16, <2>1, <2>2 DEF GroupSaved, JobFrame, TypeOK, KeeperType
<1>17. ASSUME NEW n \in Node, NEW c \in Content, ResumeVisit(n, c) PROVE TypeOK'
  <2>1. \A d \in FindTag(n, TagOf[c]) : d \in Content
    BY DEF FindTag, Indexed
  <2>2. /\ job' \in [Node -> [Content -> Stage]]
        /\ entry' \in [Node -> [Content -> {"none", "open", "done"}]]
    <3>1. CASE UNCHANGED <<job, entry>>
      BY <3>1 DEF TypeOK
    <3>2. CASE \E d \in FindTag(n, TagOf[c]) : Spawn(n, d)
      BY <2>1, <3>2, GroupSpawnType
    <3>3. UNCHANGED <<job, entry>> \/ \E d \in FindTag(n, TagOf[c]) : Spawn(n, d)
      BY <1>17 DEF ResumeVisit
    <3> QED BY <3>1, <3>2, <3>3
  <2> QED BY <1>17, <2>2 DEF ResumeVisit, keeper, TypeOK
<1>18. ASSUME NEW n \in Node, Connected(n) PROVE TypeOK'
  BY <1>18 DEF Connected, keeper, TypeOK
<1>19. ASSUME NEW n \in Node, Halt(n) PROVE TypeOK'
  <2>1. making' \in [Group -> Step]
    BY <1>19 DEF Halt, TypeOK, Step
  <2>2. hook' \in [Node -> Hook] /\ gstate' \in [Node -> [Group -> State]]
    BY <1>19, PutTypes DEF Halt, TypeOK
  <2>3. job' \in [Node -> [Content -> Stage]]
    BY <1>19 DEF Halt, TypeOK, Stage
  <2>5. entry' \in [Node -> [Content -> {"none", "open", "done"}]]
    <3>1. [entry EXCEPT ![n] = [c \in Content |-> "none"]]
            \in [Node -> [Content -> {"none", "open", "done"}]]
      BY DEF TypeOK
    <3> QED BY <1>19, <3>1 DEF Halt, TypeOK
  <2>4. halts' \in 0..MaxHalts
    BY <1>19 DEF Halt, TypeOK
  <2> QED BY <1>19, <2>1, <2>2, <2>3, <2>4, <2>5 DEF Halt, TypeOK
<1>20. ASSUME NEW n \in Node, Restart(n) PROVE TypeOK'
  BY <1>20 DEF Restart, watcher, TypeOK
<1> QED BY <1>1, <1>2, <1>3, <1>4, <1>5, <1>6, <1>7, <1>8, <1>9, <1>10, <1>11, <1>12,
           <1>13, <1>14, <1>15, <1>16, <1>17, <1>18, <1>19, <1>20, GroupCases

\* Every variable of GroupReplication keeps its type.
THEOREM GroupTypeCorrect == Spec => []TypeOK
<1>1. TypeOK /\ [Next]_vars => TypeOK'
  BY GroupTypeNext
<1> QED BY GroupTypeInit, <1>1, PTL DEF Spec


(* ------------------------- members ------------------------- *)

\* A member's group state is complete, in memory and, over a death, in the
\* keeper's file: MemberStateComplete, for every value of the constants.

\* The file of a running node is its memory, unless it is being written.
FileOK == \A n \in Node : up[n] /\ ~torn[n] => gfile[n] = gstate[n]

\* A node that is down has no threads.
Stopped ==
  \A n \in Node : ~up[n] =>
    /\ hook[n] = IdleHook /\ resume[n] = {}
    /\ \A c \in Content : job[n][c] = "none"
    /\ \A g \in Group : CreatorOf[g] = n => making[g] \in {"none", "over"}

\* st has all that n has merged of group g.
HasAll(st, n, g) == st.member /\ Tags(n, g) \subseteq st.tags

InMemory == \A n \in Node, g \in Group :
  up[n] /\ IsMember(n, g, n) => HasAll(gstate[n][g], n, g)
OnDisk == \A n \in Node, g \in Group :
  ~up[n] /\ ~torn[n] /\ IsMember(n, g, n) => HasAll(gfile[n][g], n, g)

\* What PutHook did for d is in the keeper's memory before d is committed.
DoneFor(n, d) ==
  /\ d \in MemberPut /\ d.m = n => HasAll(gstate[n][d.g], n, d.g)
  /\ d \in IndexPut /\ GroupOf[d.c] # Plain /\ IsMember(n, GroupOf[d.c], n) =>
       TagOf[d.c] \in gstate[n][GroupOf[d.c]].tags
HookDone == \A n \in Node : hook[n].pc # "idle" => DoneFor(n, hook[n].d)

MemberInv == FileOK /\ Stopped /\ InMemory /\ OnDisk /\ HookDone

\* AddOrUpdateState adds, to one group of one node.
LEMMA UpdateAdds ==
  ASSUME TypeOK, NEW n \in Node, NEW g \in Group, NEW tags \in SUBSET Tag,
         AddOrUpdateState(n, g, tags)
  PROVE  /\ gstate'[n][g].member /\ tags \subseteq gstate'[n][g].tags
         /\ \A m \in Node, h \in Group :
              /\ gstate[m][h].member => gstate'[m][h].member
              /\ gstate[m][h].tags \subseteq gstate'[m][h].tags
         /\ torn'[n] /\ gfile' = gfile
         /\ \A m \in Node \ {n} : gstate'[m] = gstate[m] /\ torn'[m] = torn[m]
<1>1. gstate \in [Node -> [Group -> State]] /\ torn \in [Node -> BOOLEAN]
  BY DEF TypeOK
<1>2. gstate' = [gstate EXCEPT ![n][g] =
                   [member |-> TRUE, tags |-> gstate[n][g].tags \cup tags]]
  BY <1>1 DEF AddOrUpdateState
<1>3. gstate'[n][g] = [member |-> TRUE, tags |-> gstate[n][g].tags \cup tags]
  BY <1>1, <1>2
<1>4. \A m \in Node, h \in Group : m # n \/ h # g => gstate'[m][h] = gstate[m][h]
  BY <1>1, <1>2
<1>5. \A m \in Node \ {n} : gstate'[m] = gstate[m]
  BY <1>1, <1>2
<1>6. torn' = [torn EXCEPT ![n] = TRUE] /\ gfile' = gfile
  BY DEF AddOrUpdateState
<1>7. torn'[n] /\ \A m \in Node \ {n} : torn'[m] = torn[m]
  BY <1>1, <1>6
<1>8. \A m \in Node, h \in Group :
        /\ gstate[m][h].member => gstate'[m][h].member
        /\ gstate[m][h].tags \subseteq gstate'[m][h].tags
  BY <1>3, <1>4
<1> QED BY <1>3, <1>5, <1>6, <1>7, <1>8

\* A step of a running node's keeper, or of nobody's.
KeeperStep(n) ==
  \/ UNCHANGED keeper
  \/ \E g \in Group, tags \in SUBSET Tag : AddOrUpdateState(n, g, tags)
  \/ saveStates(n)

\* While nothing is merged, such a step keeps what the keeper has.
LEMMA KeeperKeeps ==
  ASSUME TypeOK, MemberInv, NEW n \in Node, up[n], KeeperStep(n),
         UNCHANGED <<up, merged>>
  PROVE  /\ FileOK' /\ InMemory' /\ OnDisk'
         /\ \A m \in Node, d \in Put : DoneFor(m, d) => DoneFor(m, d)'
<1>1. /\ \A m \in Node, h \in Group :
           /\ gstate[m][h].member => gstate'[m][h].member
           /\ gstate[m][h].tags \subseteq gstate'[m][h].tags
      /\ \A m \in Node : m # n =>
           gstate'[m] = gstate[m] /\ gfile'[m] = gfile[m] /\ torn'[m] = torn[m]
      /\ torn'[n] \/ gfile'[n] = gstate'[n]
  <2>1. CASE UNCHANGED keeper
    BY <2>1 DEF keeper, MemberInv, FileOK
  <2>2. CASE \E g \in Group, tags \in SUBSET Tag : AddOrUpdateState(n, g, tags)
    BY <2>2, UpdateAdds
  <2>3. CASE saveStates(n)
    BY <2>3 DEF saveStates, TypeOK
  <2> QED BY <2>1, <2>2, <2>3 DEF KeeperStep
<1>2. \A m \in Node, h \in Group : (IsMember(m, h, m)' <=> IsMember(m, h, m)) /\ Tags(m, h)' = Tags(m, h)
  BY DEF IsMember, Tags, Indexed
<1>3. FileOK'
  BY <1>1 DEF MemberInv, FileOK
<1>4. InMemory'
  BY <1>1, <1>2 DEF MemberInv, InMemory, HasAll
<1>5. OnDisk'
  BY <1>1, <1>2 DEF MemberInv, OnDisk, HasAll
<1>6. ASSUME NEW m \in Node, NEW d \in Put, DoneFor(m, d) PROVE DoneFor(m, d)'
  <2>1. ASSUME d \in MemberPut, d.m = m PROVE HasAll(gstate[m][d.g], m, d.g)'
    <3>1. d.g \in Group /\ HasAll(gstate[m][d.g], m, d.g)
      BY <1>6, <2>1 DEF DoneFor, MemberPut
    <3> QED BY <3>1, <1>1, <1>2 DEF HasAll
  <2>2. ASSUME d \in IndexPut, GroupOf[d.c] # Plain, IsMember(m, GroupOf[d.c], m)'
        PROVE  TagOf[d.c] \in gstate'[m][GroupOf[d.c]].tags
    <3>1. GroupOf[d.c] \in Group
      BY <2>2, GroupAssumption DEF IndexPut
    <3>2. TagOf[d.c] \in gstate[m][GroupOf[d.c]].tags
      BY <1>2, <1>6, <2>2, <3>1 DEF DoneFor
    <3> QED BY <1>1, <3>1, <3>2
  <2> QED BY <2>1, <2>2 DEF DoneFor
<1> QED BY <1>3, <1>4, <1>5, <1>6

\* PutHook records what it has to before the put is committed.
LEMMA PutHookRecords ==
  ASSUME TypeOK, NEW n \in Node, NEW d \in Put, PutHook(n, d), UNCHANGED merged
  PROVE  /\ KeeperStep(n) /\ DoneFor(n, d)'
         /\ \E pc \in {"saving", "handing", "commit"} :
              hook' = [hook EXCEPT ![n] = [pc |-> pc, d |-> d]]
<1>0. \A m \in Node, h \in Group : (IsMember(m, h, m)' <=> IsMember(m, h, m)) /\ Tags(m, h)' = Tags(m, h)
  BY DEF IsMember, Tags, Indexed
<1>1. CASE MetaHook(n, d)
  BY <1>1 DEF MetaHook, KeeperStep, At, DoneFor, MetaPut, MemberPut, IndexPut
<1>2. CASE MemberHook(n, d)
  <2>0. d \in MemberPut /\ d.g \in Group /\ d \notin IndexPut
    BY <1>2 DEF MemberHook, MemberPut, IndexPut
  <2>1. CASE d.m = n
    <3>1. AddOrUpdateState(n, d.g, Tags(n, d.g)) /\ At(n, "saving", d)
      BY <1>2, <2>1 DEF MemberHook, Tags
    <3>2. Tags(n, d.g) \in SUBSET Tag
      BY <2>0, TagsType DEF Tags
    <3>3. HasAll(gstate[n][d.g], n, d.g)'
      BY <1>0, <2>0, <3>1, <3>2, UpdateAdds DEF HasAll
    <3> QED BY <2>0, <3>1, <3>2, <3>3 DEF KeeperStep, DoneFor, At
  <2>2. CASE d.m # n
    BY <1>2, <2>0, <2>2 DEF MemberHook, KeeperStep, DoneFor, At
  <2> QED BY <2>1, <2>2
<1>3. CASE IndexHook(n, d)
  <2>0. /\ d \in IndexPut /\ d \notin MemberPut /\ d.c \in Content
        /\ GroupOf[d.c] \in Group \cup {Plain} /\ TagOf[d.c] \in Tag
    BY <1>3, GroupAssumption DEF IndexHook, MemberPut, IndexPut
  <2>1. CASE GroupOf[d.c] = Plain
    BY <1>3, <2>0, <2>1 DEF IndexHook, KeeperStep, DoneFor, At
  <2>2. CASE GroupOf[d.c] # Plain /\ IsMember(n, GroupOf[d.c], n)
    <3>1. AddOrUpdateState(n, GroupOf[d.c], {TagOf[d.c]}) /\ At(n, "saving", d)
      BY <1>3, <2>2 DEF IndexHook
    <3>2. TagOf[d.c] \in gstate'[n][GroupOf[d.c]].tags
      BY <2>0, <2>2, <3>1, UpdateAdds
    <3> QED BY <2>0, <2>2, <3>1, <3>2 DEF KeeperStep, DoneFor, At
  <2>3. CASE GroupOf[d.c] # Plain /\ ~IsMember(n, GroupOf[d.c], n)
    <3>1. At(n, "commit", d) /\ UNCHANGED keeper
      BY <1>3, <2>3 DEF IndexHook
    <3>2. ~IsMember(n, GroupOf[d.c], n)'
      BY <2>0, <2>3, <1>0
    <3> QED BY <2>0, <3>1, <3>2 DEF KeeperStep, DoneFor, At
  <2> QED BY <2>0, <2>1, <2>2, <2>3
<1> QED BY <1>1, <1>2, <1>3 DEF PutHook

Kept == FileOK /\ InMemory /\ OnDisk /\ HookDone

\* A step that merges nothing and leaves the hook at its put ...
LEMMA QuietStep ==
  ASSUME TypeOK, MemberInv, NEW n \in Node, up[n], KeeperStep(n),
         UNCHANGED <<up, merged>>,
         UNCHANGED hook \/ (hook[n].pc # "idle" /\ \E pc \in {"handing", "commit"} : At(n, pc, hook[n].d))
  PROVE  Kept'
<1>1. /\ FileOK' /\ InMemory' /\ OnDisk'
      /\ \A m \in Node, d \in Put : DoneFor(m, d) => DoneFor(m, d)'
  BY KeeperKeeps
<1>2. ASSUME NEW m \in Node, hook'[m].pc # "idle" PROVE DoneFor(m, hook[m].d)' /\ hook'[m].d = hook[m].d
  <2>1. hook \in [Node -> Hook]
    BY DEF TypeOK
  <2>2. hook'[m].d = hook[m].d /\ hook[m].pc # "idle"
    BY <1>2, <2>1 DEF At
  <2>3. hook[m].d \in Put
    BY <2>1, <2>2 DEF Hook
  <2>4. DoneFor(m, hook[m].d)
    BY <2>2 DEF MemberInv, HookDone
  <2> QED BY <1>1, <2>2, <2>3, <2>4
<1>3. HookDone'
  BY <1>2 DEF HookDone
<1> QED BY <1>1, <1>3 DEF Kept

\* ... or that begins a put, keeps the invariant.
LEMMA PutStep ==
  ASSUME TypeOK, MemberInv, NEW n \in Node, NEW d \in Put, up[n], PutHook(n, d),
         UNCHANGED <<up, merged>>
  PROVE  Kept'
<1>1. /\ KeeperStep(n) /\ DoneFor(n, d)'
      /\ \E pc \in {"saving", "handing", "commit"} :
           hook' = [hook EXCEPT ![n] = [pc |-> pc, d |-> d]]
  BY PutHookRecords
<1>2. /\ FileOK' /\ InMemory' /\ OnDisk'
      /\ \A m \in Node, e \in Put : DoneFor(m, e) => DoneFor(m, e)'
  BY <1>1, KeeperKeeps
<1>3. HookDone'
  <2>1. SUFFICES ASSUME NEW m \in Node, hook'[m].pc # "idle" PROVE DoneFor(m, hook[m].d)'
    BY DEF HookDone
  <2>2. hook \in [Node -> Hook]
    BY DEF TypeOK
  <2>3. CASE m = n
    BY <1>1, <2>2, <2>3
  <2>4. CASE m # n
    <3>1. hook'[m] = hook[m]
      BY <1>1, <2>2, <2>4
    <3>2. hook[m].d \in Put /\ DoneFor(m, hook[m].d)
      BY <2>1, <2>2, <3>1 DEF Hook, MemberInv, HookDone
    <3> QED BY <1>2, <3>1, <3>2
  <2> QED BY <2>3, <2>4
<1> QED BY <1>2, <1>3 DEF Kept

\* A merge at n changes nothing that another node reads ...
LEMMA MergeElsewhere ==
  ASSUME TypeOK, NEW n \in Node, NEW d, merged' = [merged EXCEPT ![n] = @ \cup {d}],
         NEW m \in Node, NEW h \in Group, m # n
  PROVE  (IsMember(m, h, m)' <=> IsMember(m, h, m)) /\ Tags(m, h)' = Tags(m, h)
<1>1. merged'[m] = merged[m]
  BY DEF TypeOK
<1> QED BY <1>1 DEF IsMember, Tags, Indexed

TagsPut(d, h) == {t \in Tag : d \in IndexPut /\ GroupOf[d.c] = h /\ t = TagOf[d.c]}

\* ... and adds to what n reads at most the membership or the tag of its put.
LEMMA MergeGrows ==
  ASSUME TypeOK, NEW n \in Node, NEW d \in Put,
         merged' = [merged EXCEPT ![n] = @ \cup {d}], NEW h \in Group
  PROVE  /\ IsMember(n, h, n)' =>
              IsMember(n, h, n) \/ (d \in MemberPut /\ d.g = h /\ d.m = n)
         /\ Tags(n, h) \subseteq Tags(n, h)'
         /\ Tags(n, h)' \subseteq Tags(n, h) \cup TagsPut(d, h)
<1>1. merged'[n] = merged[n] \cup {d}
  BY DEF TypeOK
<1>2. ASSUME IsMember(n, h, n)', ~IsMember(n, h, n)
      PROVE  d \in MemberPut /\ d.g = h /\ d.m = n
  <2>1. PICK by \in Node : Member(h, n, by) = d
    BY <1>1, <1>2 DEF IsMember
  <2> QED BY <2>1 DEF Member, MemberPut
<1>3. ASSUME NEW t \in Tags(n, h)', t \notin Tags(n, h)
      PROVE  t \in TagsPut(d, h)
  <2>1. PICK c \in Content : GroupOf[c] = h /\ t = TagOf[c] /\ Index(c) \in merged'[n]
    BY <1>3 DEF Tags, Indexed
  <2>2. Index(c) \notin merged[n]
    BY <1>3, <2>1 DEF Tags, Indexed
  <2>3. d = Index(c)
    BY <1>1, <2>1, <2>2
  <2> QED BY <2>1, <2>3, GroupAssumption DEF Index, IndexPut, TagsPut
<1>4. Tags(n, h) \subseteq Tags(n, h)'
  BY <1>1 DEF Tags, Indexed
<1> QED BY <1>2, <1>3, <1>4

\* HookCommit: what the hook recorded covers what its put adds.
LEMMA CommitKeeps ==
  ASSUME TypeOK, MemberInv, NEW n \in Node, HookCommit(n)
  PROVE  Kept'
<1>0. PICK d : d = hook[n].d
  OBVIOUS
<1>1. hook \in [Node -> Hook] /\ up[n]
  BY DEF TypeOK, HookCommit, MemberInv, Stopped, IdleHook
<1>2. d \in Put /\ DoneFor(n, d)
  BY <1>0, <1>1 DEF HookCommit, Hook, MemberInv, HookDone
<1>3. UNCHANGED <<up, gstate, gfile, torn>>
  BY DEF HookCommit, keeper
<1>4. merged' = [merged EXCEPT ![n] = @ \cup {d}]
  BY <1>0 DEF HookCommit
<1>5. \A m \in Node, h \in Group : m # n =>
        (IsMember(m, h, m)' <=> IsMember(m, h, m)) /\ Tags(m, h)' = Tags(m, h)
  BY <1>4, MergeElsewhere
<1>6. \A h \in Group : IsMember(n, h, n)' =>
         IsMember(n, h, n) \/ (d \in MemberPut /\ d.g = h /\ d.m = n)
  BY <1>2, <1>4, MergeGrows
<1>7. \A h \in Group : Tags(n, h)' \subseteq Tags(n, h) \cup TagsPut(d, h)
  BY <1>2, <1>4, MergeGrows
<1>8. FileOK'
  BY <1>3 DEF MemberInv, FileOK
<1>9. OnDisk'
  BY <1>1, <1>3, <1>5 DEF MemberInv, OnDisk, HasAll
<1>10. InMemory'
  <2>1. SUFFICES ASSUME NEW m \in Node, NEW h \in Group, up[m], IsMember(m, h, m)'
                 PROVE  HasAll(gstate[m][h], m, h)'
    BY <1>3 DEF InMemory
  <2>2. CASE m # n
    BY <1>3, <1>5, <2>1, <2>2 DEF MemberInv, InMemory, HasAll
  <2>3. CASE m = n /\ d \in MemberPut /\ d.g = h /\ d.m = n
    <3>1. HasAll(gstate[n][h], n, h)
      BY <1>2, <2>3 DEF DoneFor
    <3>2. d \notin IndexPut
      BY <2>3 DEF MemberPut, IndexPut
    <3> QED BY <1>3, <1>7, <2>3, <3>1, <3>2 DEF HasAll, TagsPut
  <2>4. CASE m = n /\ IsMember(n, h, n)
    <3>1. HasAll(gstate[n][h], n, h)
      BY <1>1, <2>4 DEF MemberInv, InMemory
    <3>2. ASSUME NEW t \in Tags(n, h)' PROVE t \in gstate[n][h].tags
      <4>1. CASE t \in Tags(n, h)
        BY <3>1, <4>1 DEF HasAll
      <4>2. CASE d \in IndexPut /\ GroupOf[d.c] = h /\ t = TagOf[d.c]
        BY <1>2, <2>4, <4>2, GroupAssumption DEF DoneFor
      <4> QED BY <1>7, <4>1, <4>2 DEF TagsPut
    <3> QED BY <1>3, <2>4, <3>1, <3>2 DEF HasAll
  <2> QED BY <1>6, <2>1, <2>2, <2>3, <2>4
<1>11. HookDone'
  <2>1. SUFFICES ASSUME NEW m \in Node, hook'[m].pc # "idle" PROVE DoneFor(m, hook[m].d)'
    BY DEF HookDone
  <2>2. m # n /\ hook'[m] = hook[m]
    BY <1>1, <2>1 DEF HookCommit, IdleHook
  <2>3. hook[m].d \in Put /\ DoneFor(m, hook[m].d)
    BY <1>1, <2>1, <2>2 DEF Hook, MemberInv, HookDone
  <2>4. ASSUME NEW e \in Put, DoneFor(m, e) PROVE DoneFor(m, e)'
    <3>1. e \in MemberPut => e.g \in Group
      BY DEF MemberPut
    <3>2. e \in IndexPut /\ GroupOf[e.c] # Plain => GroupOf[e.c] \in Group
      BY GroupAssumption DEF IndexPut
    <3> QED BY <1>3, <1>5, <2>2, <2>4, <3>1, <3>2 DEF DoneFor, HasAll
  <2> QED BY <2>2, <2>3, <2>4
<1> QED BY <1>8, <1>9, <1>10, <1>11 DEF Kept

\* A put that loses its key changes nothing that its node reads.
LEMMA LosingKeeps ==
  ASSUME TypeOK, MemberInv, NEW n \in Node, NEW d \in Put, MayLose(n, d),
         merged' = [merged EXCEPT ![n] = @ \cup {d}], UNCHANGED <<up, hook, keeper>>
  PROVE  Kept'
<1>1. PICK e \in merged[n] : SameKey(d, e)
  BY DEF MayLose
<1>2. e \in Put
  BY <1>1 DEF TypeOK
<1>3. ASSUME NEW h \in Group
      PROVE  (IsMember(n, h, n)' <=> IsMember(n, h, n)) /\ Tags(n, h)' = Tags(n, h)
  <2>2. d \in MemberPut /\ d.g = h /\ d.m = n => IsMember(n, h, n)
    <3>1. SUFFICES ASSUME d \in MemberPut, d.g = h, d.m = n PROVE IsMember(n, h, n)
      OBVIOUS
    <3>2. e.kind = "member" /\ e.g = h /\ e.m = n
      BY <1>1, <3>1 DEF SameKey, MemberPut
    <3>3. e \in MemberPut
      BY <1>2, <3>2 DEF Put, MetaPut, IndexPut, MemberPut
    <3>4. e.by \in Node /\ e = Member(h, n, e.by)
      BY <3>2, <3>3 DEF MemberPut, Member
    <3> QED BY <1>1, <3>4 DEF IsMember
  <2>3. d \in IndexPut /\ GroupOf[d.c] = h => TagOf[d.c] \in Tags(n, h)
    <3>1. SUFFICES ASSUME d \in IndexPut, GroupOf[d.c] = h PROVE TagOf[d.c] \in Tags(n, h)
      OBVIOUS
    <3>2. e.kind = "index" /\ GroupOf[e.c] = h /\ TagOf[e.c] = TagOf[d.c]
      BY <1>1, <3>1 DEF SameKey, IndexPut
    <3>3. e.c \in Content /\ e = Index(e.c)
      BY <1>2, <3>2 DEF Put, MetaPut, MemberPut, IndexPut, Index
    <3> QED BY <1>1, <3>2, <3>3 DEF Tags, Indexed
  <2>4. IsMember(n, h, n)' => IsMember(n, h, n) \/ (d \in MemberPut /\ d.g = h /\ d.m = n)
    BY MergeGrows
  <2>5. Tags(n, h) \subseteq Tags(n, h)'
    BY MergeGrows
  <2>6. Tags(n, h)' \subseteq Tags(n, h) \cup TagsPut(d, h)
    BY MergeGrows
  <2>7. IsMember(n, h, n) => IsMember(n, h, n)'
    BY DEF IsMember, TypeOK
  <2>8. (IsMember(n, h, n)' <=> IsMember(n, h, n))
    BY <2>2, <2>4, <2>7 DEF IsMember
  <2>9. Tags(n, h)' = Tags(n, h)
    BY <2>3, <2>5, <2>6 DEF TagsPut
  <2> QED BY <2>8, <2>9
<1>4. \A m \in Node, h \in Group :
        (IsMember(m, h, m)' <=> IsMember(m, h, m)) /\ Tags(m, h)' = Tags(m, h)
  <2>1. \A m \in Node, h \in Group : m # n =>
          (IsMember(m, h, m)' <=> IsMember(m, h, m)) /\ Tags(m, h)' = Tags(m, h)
    BY MergeElsewhere
  <2> QED BY <1>3, <2>1
<1>5. FileOK' /\ InMemory' /\ OnDisk'
  BY <1>4 DEF MemberInv, FileOK, InMemory, OnDisk, HasAll, keeper
<1>6. HookDone'
  <2>1. SUFFICES ASSUME NEW m \in Node, hook[m].pc # "idle" PROVE DoneFor(m, hook[m].d)'
    BY DEF HookDone
  <2>2. hook[m].d \in Put /\ DoneFor(m, hook[m].d)
    BY <2>1 DEF TypeOK, Hook, MemberInv, HookDone
  <2>3. ASSUME NEW x \in Put, DoneFor(m, x) PROVE DoneFor(m, x)'
    <3>1. x \in MemberPut => x.g \in Group
      BY DEF MemberPut
    <3>2. x \in IndexPut /\ GroupOf[x.c] # Plain => GroupOf[x.c] \in Group
      BY GroupAssumption DEF IndexPut
    <3> QED BY <1>4, <2>3, <3>1, <3>2 DEF DoneFor, HasAll, keeper
  <2> QED BY <2>2, <2>3
<1> QED BY <1>5, <1>6 DEF Kept

\* A death leaves the file, a restart reads it.
LEMMA HaltKeeps ==
  ASSUME TypeOK, MemberInv, NEW n \in Node, Halt(n)
  PROVE  Kept'
<1>0. /\ \A m \in Node, h \in Group : (IsMember(m, h, m)' <=> IsMember(m, h, m)) /\ Tags(m, h)' = Tags(m, h)
      /\ up'[n] = FALSE /\ hook'[n] = IdleHook /\ gfile' = gfile /\ torn' = torn
      /\ \A m \in Node \ {n} : up'[m] = up[m] /\ hook'[m] = hook[m] /\ gstate'[m] = gstate[m]
  BY DEF Halt, IsMember, Tags, Indexed, TypeOK
<1>1. FileOK'
  BY <1>0 DEF MemberInv, FileOK
<1>2. InMemory'
  BY <1>0 DEF MemberInv, InMemory, HasAll
<1>3. OnDisk'
  <2>1. ASSUME NEW m \in Node, NEW h \in Group, ~up'[m], ~torn[m], IsMember(m, h, m)
        PROVE  HasAll(gfile[m][h], m, h)
    <3>1. CASE up[m]
      <4>1. HasAll(gstate[m][h], m, h)
        BY <2>1, <3>1 DEF MemberInv, InMemory
      <4>2. gfile[m] = gstate[m]
        BY <2>1, <3>1 DEF MemberInv, FileOK
      <4> QED BY <4>1, <4>2 DEF HasAll
    <3>2. CASE ~up[m]
      BY <2>1, <3>2 DEF MemberInv, OnDisk
    <3> QED BY <3>1, <3>2
  <2> QED BY <1>0, <2>1 DEF OnDisk, HasAll
<1>4. HookDone'
  <2>1. SUFFICES ASSUME NEW m \in Node, hook'[m].pc # "idle" PROVE DoneFor(m, hook[m].d)'
    BY DEF HookDone
  <2>2. m # n /\ hook'[m] = hook[m] /\ gstate'[m] = gstate[m]
    BY <1>0, <2>1 DEF IdleHook
  <2>3. hook[m].d \in Put /\ DoneFor(m, hook[m].d)
    BY <2>1, <2>2 DEF TypeOK, Hook, MemberInv, HookDone
  <2>4. ASSUME NEW x \in Put, DoneFor(m, x) PROVE DoneFor(m, x)'
    <3>1. x \in MemberPut => x.g \in Group
      BY DEF MemberPut
    <3>2. x \in IndexPut /\ GroupOf[x.c] # Plain => GroupOf[x.c] \in Group
      BY GroupAssumption DEF IndexPut
    <3> QED BY <1>0, <2>2, <2>4, <3>1, <3>2 DEF DoneFor, HasAll
  <2> QED BY <2>2, <2>3, <2>4
<1> QED BY <1>1, <1>2, <1>3, <1>4 DEF Kept

LEMMA RestartKeeps ==
  ASSUME TypeOK, MemberInv, NEW n \in Node, Restart(n)
  PROVE  Kept'
<1>0. /\ \A m \in Node, h \in Group : (IsMember(m, h, m)' <=> IsMember(m, h, m)) /\ Tags(m, h)' = Tags(m, h)
      /\ ~up[n] /\ ~torn[n] /\ up'[n] /\ gstate'[n] = gfile[n]
      /\ gfile' = gfile /\ torn' = torn /\ hook' = hook
      /\ \A m \in Node \ {n} : up'[m] = up[m] /\ gstate'[m] = gstate[m]
  BY DEF Restart, IsMember, Tags, Indexed, TypeOK
<1>1. FileOK'
  BY <1>0 DEF MemberInv, FileOK
<1>2. InMemory'
  BY <1>0 DEF MemberInv, InMemory, OnDisk, HasAll
<1>3. OnDisk'
  BY <1>0 DEF MemberInv, OnDisk, HasAll
<1>4. HookDone'
  <2>1. SUFFICES ASSUME NEW m \in Node, hook[m].pc # "idle" PROVE DoneFor(m, hook[m].d)'
    BY <1>0 DEF HookDone
  <2>2. m # n /\ gstate'[m] = gstate[m]
    BY <1>0, <2>1 DEF MemberInv, Stopped, IdleHook
  <2>3. hook[m].d \in Put /\ DoneFor(m, hook[m].d)
    BY <2>1 DEF TypeOK, Hook, MemberInv, HookDone
  <2>4. ASSUME NEW x \in Put, DoneFor(m, x) PROVE DoneFor(m, x)'
    <3>1. x \in MemberPut => x.g \in Group
      BY DEF MemberPut
    <3>2. x \in IndexPut /\ GroupOf[x.c] # Plain => GroupOf[x.c] \in Group
      BY GroupAssumption DEF IndexPut
    <3> QED BY <1>0, <2>2, <2>4, <3>1, <3>2 DEF DoneFor, HasAll
  <2> QED BY <1>0, <2>3, <2>4
<1> QED BY <1>1, <1>2, <1>3, <1>4 DEF Kept

LEMMA MemberInit == Init => TypeOK /\ MemberInv
<1> SUFFICES ASSUME Init PROVE MemberInv
  BY GroupTypeInit
<1>1. \A n \in Node, g \in Group : ~IsMember(n, g, n)
  BY DEF Init, IsMember
<1>2. FileOK /\ Stopped /\ InMemory /\ OnDisk /\ HookDone
  BY <1>1 DEF Init, FileOK, Stopped, InMemory, OnDisk, HookDone, IdleHook
<1> QED BY <1>2 DEF MemberInv

\* A thread of a node only takes a step while the node runs.
LEMMA StoppedNext ==
  ASSUME TypeOK, Stopped, Next
  PROVE  Stopped'
<1>0. /\ hook \in [Node -> Hook] /\ resume \in [Node -> SUBSET Content]
      /\ job \in [Node -> [Content -> Stage]] /\ making \in [Group -> Step]
      /\ up \in [Node -> BOOLEAN] /\ \A g \in Group : CreatorOf[g] \in Node
  BY GroupAssumption DEF TypeOK
<1> DEFINE Idle(m) == /\ hook[m] = IdleHook /\ resume[m] = {}
                      /\ \A c \in Content : job[m][c] = "none"
                      /\ \A g \in Group : CreatorOf[g] = m => making[g] \in {"none", "over"}
<1>1. \A m \in Node : ~up[m] => Idle(m)
  BY DEF Stopped
<1>a. ASSUME UNCHANGED up, NEW n \in Node, up[n],
             \A m \in Node \ {n} : hook'[m] = hook[m] /\ resume'[m] = resume[m] /\ job'[m] = job[m],
             \A g \in Group : CreatorOf[g] # n => making'[g] = making[g]
      PROVE  Stopped'
  BY <1>a, <1>1 DEF Stopped
<1>b. ASSUME NEW n \in Node, NEW d, PutHook(n, d)
      PROVE  \A m \in Node \ {n} : hook'[m] = hook[m]
  BY <1>b, <1>0 DEF PutHook, MetaHook, MemberHook, IndexHook, At
<1>c. ASSUME NEW n \in Node, NEW d, LocalPut(n, d)
      PROVE  up[n] /\ \A m \in Node \ {n} : hook'[m] = hook[m]
  BY <1>c, <1>b DEF LocalPut
<1>2. ASSUME NEW g \in Group, CreateGroup(g) PROVE Stopped'
  BY <1>2, <1>0, <1>a, <1>c DEF CreateGroup, Make, MakeFrame, watcher
<1>3. ASSUME NEW g \in Group, StoreOwner(g) PROVE Stopped'
  BY <1>3, <1>0, <1>a, <1>c DEF StoreOwner, Make, MakeFrame, watcher
<1>4. ASSUME NEW g \in Group, OpenState(g) PROVE Stopped'
  <2>1. up[CreatorOf[g]]
    BY <1>4, <1>0, <1>1 DEF OpenState
  <2> QED BY <1>4, <2>1, <1>0, <1>a DEF OpenState, Make, MakeFrame, watcher
<1>5. ASSUME NEW g \in Group, OpenSaved(g) PROVE Stopped'
  <2>1. up[CreatorOf[g]]
    BY <1>5, <1>0, <1>1 DEF OpenSaved
  <2> QED BY <1>5, <2>1, <1>0, <1>a DEF OpenSaved, Make, MakeFrame, watcher
<1>6. ASSUME NEW n \in Node, NEW d \in issued, MergePut(n, d) PROVE Stopped'
  <2>1. CASE PutHook(n, d)
    BY <1>6, <2>1, <1>a, <1>b DEF MergePut, watcher
  <2>2. CASE UNCHANGED hook
    BY <1>6, <2>2, <1>a DEF MergePut, watcher
  <2> QED BY <1>6, <2>1, <2>2 DEF MergePut
<1>7. ASSUME NEW n \in Node, HookSave(n) PROVE Stopped'
  <2>1. up[n]
    BY <1>7, <1>1 DEF HookSave, IdleHook
  <2> QED BY <1>7, <2>1, <1>0, <1>a DEF HookSave, At, watcher
<1>8. ASSUME NEW n \in Node, HookHand(n) PROVE Stopped'
  <2>1. up[n]
    BY <1>8, <1>1 DEF HookHand, IdleHook
  <2>2. \A m \in Node \ {n} : job'[m] = job[m]
    BY <1>8, <1>0 DEF HookHand, Spawn
  <2> QED BY <1>8, <2>1, <2>2, <1>0, <1>a DEF HookHand, At
<1>9. ASSUME NEW n \in Node, HookCommit(n) PROVE Stopped'
  <2>1. up[n]
    BY <1>9, <1>1 DEF HookCommit, IdleHook
  <2> QED BY <1>9, <2>1, <1>0, <1>a DEF HookCommit, watcher
<1>10. ASSUME NEW n \in Node, NEW g \in Group, NEW m \in Node, GroupAddMember(n, g, m)
       PROVE Stopped'
  BY <1>10, <1>a, <1>c DEF GroupAddMember, watcher
<1>11. ASSUME NEW n \in Node, NEW c \in Content, GroupAddContent(n, c) PROVE Stopped'
  BY <1>11, <1>a, <1>c DEF GroupAddContent
<1>12. ASSUME NEW n \in Node, NEW c \in Content, NEW stage, job[n][c] # "none",
              To(n, c, stage), JobFrame
       PROVE  Stopped'
  <2>1. up[n]
    BY <1>12, <1>1
  <2> QED BY <1>12, <2>1, <1>0, <1>a DEF To, JobFrame
<1>13. ASSUME NEW n \in Node, NEW c \in Content,
              Download(n, c) \/ DownloadFails(n, c) \/ GroupCallback(n, c)
                \/ PlainCallback(n, c) \/ GroupSaved(n, c)
       PROVE  Stopped'
  BY <1>13, <1>12 DEF Download, DownloadFails, GroupCallback, PlainCallback, GroupSaved
<1>14. ASSUME NEW n \in Node, NEW c \in Content, ResumeVisit(n, c) PROVE Stopped'
  <2>1. up[n]
    BY <1>14, <1>1 DEF ResumeVisit
  <2>2. \A m \in Node \ {n} : job'[m] = job[m]
    BY <1>14, <1>0 DEF ResumeVisit, Spawn
  <2> QED BY <1>14, <2>1, <2>2, <1>0, <1>a DEF ResumeVisit
<1>15. ASSUME NEW n \in Node, Connected(n) PROVE Stopped'
  BY <1>15, <1>0, <1>a DEF Connected
<1>16. ASSUME NEW n \in Node, Halt(n) PROVE Stopped'
  <2>1. /\ up' = [up EXCEPT ![n] = FALSE]
        /\ hook' = [hook EXCEPT ![n] = IdleHook] /\ resume' = [resume EXCEPT ![n] = {}]
        /\ job' = [job EXCEPT ![n] = [c \in Content |-> "none"]]
        /\ making' = [g \in Group |-> IF CreatorOf[g] = n /\ making[g] # "none"
                                      THEN "over" ELSE making[g]]
    BY <1>16 DEF Halt
  <2> QED BY <2>1, <1>0, <1>1 DEF Stopped
<1>17. ASSUME NEW n \in Node, Restart(n) PROVE Stopped'
  BY <1>17, <1>0, <1>1 DEF Restart, watcher, Stopped
<1> QED BY <1>2, <1>3, <1>4, <1>5, <1>6, <1>7, <1>8, <1>9, <1>10, <1>11, <1>13, <1>14,
           <1>15, <1>16, <1>17, GroupCases

LEMMA MemberNext == TypeOK /\ MemberInv /\ [Next]_vars => MemberInv'
<1> SUFFICES ASSUME TypeOK, MemberInv, [Next]_vars PROVE MemberInv'
  OBVIOUS
<1>0. /\ \A g \in Group : CreatorOf[g] \in Node
      /\ \A c \in Content : GroupOf[c] # Plain => GroupOf[c] \in Group
      /\ \A c \in Content : {TagOf[c]} \in SUBSET Tag
      /\ {} \in SUBSET Tag /\ hook \in [Node -> Hook]
  BY GroupAssumption DEF TypeOK
\* A thread that runs does so on a running node.
<1>a. \A n \in Node : ~up[n] =>
        /\ hook[n].pc = "idle" /\ \A c \in Content : job[n][c] = "none"
        /\ \A g \in Group : CreatorOf[g] = n => making[g] \in {"none", "over"}
  BY DEF MemberInv, Stopped, IdleHook
<1>b. ASSUME NEW n \in Node, NEW d \in Put, LocalPut(n, d), UNCHANGED <<up, merged>>
      PROVE  Kept'
  BY <1>b, PutStep DEF LocalPut
<1>c. ASSUME NEW n \in Node, up[n], KeeperStep(n), UNCHANGED <<up, merged, hook>>
      PROVE  Kept'
  BY <1>c, QuietStep
<1>1. CASE UNCHANGED vars
  <2>1. UNCHANGED <<up, merged, hook, gstate, gfile, torn, job, making, resume>>
    BY <1>1 DEF vars, keeper, watcher
  <2> QED BY <2>1 DEF MemberInv, FileOK, Stopped, InMemory, OnDisk, HookDone, DoneFor,
                      HasAll, IsMember, Tags, Indexed
<1>2. ASSUME NEW g \in Group, CreateGroup(g) PROVE Kept'
  BY <1>2, <1>0, <1>b, PutTypes DEF CreateGroup, MakeFrame
<1>3. ASSUME NEW g \in Group, StoreOwner(g) PROVE Kept'
  BY <1>3, <1>0, <1>b, PutTypes DEF StoreOwner, MakeFrame
<1>4. ASSUME NEW g \in Group, OpenState(g) PROVE Kept'
  BY <1>4, <1>0, <1>a, <1>c DEF OpenState, MakeFrame, KeeperStep
<1>5. ASSUME NEW g \in Group, OpenSaved(g) PROVE Kept'
  BY <1>5, <1>0, <1>a, <1>c DEF OpenSaved, MakeFrame, KeeperStep
<1>6. ASSUME NEW n \in Node, NEW d \in issued, MergePut(n, d) PROVE Kept'
  <2>1. d \in Put
    BY DEF TypeOK
  <2> QED BY <1>6, <2>1, PutStep, LosingKeeps DEF MergePut
<1>7. ASSUME NEW n \in Node, HookSave(n) PROVE Kept'
  <2>1. up[n] /\ hook[n].pc # "idle" /\ KeeperStep(n) /\ UNCHANGED <<up, merged>>
    BY <1>7, <1>a DEF HookSave, KeeperStep
  <2>2. \E pc \in {"handing", "commit"} : At(n, pc, hook[n].d)
    BY <1>7 DEF HookSave
  <2> QED BY <2>1, <2>2, QuietStep
<1>8. ASSUME NEW n \in Node, HookHand(n) PROVE Kept'
  <2>1. up[n] /\ hook[n].pc # "idle" /\ KeeperStep(n) /\ UNCHANGED <<up, merged>>
    BY <1>8, <1>a DEF HookHand, KeeperStep
  <2>2. At(n, "commit", hook[n].d)
    BY <1>8 DEF HookHand
  <2> QED BY <2>1, <2>2, QuietStep
<1>9. ASSUME NEW n \in Node, HookCommit(n) PROVE Kept'
  BY <1>9, CommitKeeps
<1>10. ASSUME NEW n \in Node, NEW g \in Group, NEW m \in Node, GroupAddMember(n, g, m)
       PROVE  Kept'
  BY <1>10, <1>b, PutTypes DEF GroupAddMember
<1>11. ASSUME NEW n \in Node, NEW c \in Content, GroupAddContent(n, c) PROVE Kept'
  BY <1>11, <1>b, PutTypes DEF GroupAddContent
<1>12. ASSUME NEW n \in Node, NEW c \in Content, GroupCallback(n, c) PROVE Kept'
  <2>1. AddOrUpdateState(n, GroupOf[c], {TagOf[c]}) /\ GroupOf[c] \in Group
    BY <1>12, <1>0 DEF GroupCallback
  <2>2. up[n] /\ KeeperStep(n) /\ UNCHANGED <<up, merged, hook>>
    BY <1>12, <2>1, <1>0, <1>a DEF GroupCallback, JobFrame, KeeperStep
  <2> QED BY <2>2, <1>c
<1>13. ASSUME NEW n \in Node, NEW c \in Content, GroupSaved(n, c) PROVE Kept'
  BY <1>13, <1>a, <1>c DEF GroupSaved, JobFrame, KeeperStep
<1>14. ASSUME NEW n \in Node, NEW c \in Content,
              Download(n, c) \/ DownloadFails(n, c) \/ PlainCallback(n, c)
       PROVE  Kept'
  BY <1>14, <1>a, <1>c DEF Download, DownloadFails, PlainCallback, JobFrame, KeeperStep
<1>15. ASSUME UNCHANGED <<up, merged, hook, keeper>>, NEW n \in Node, up[n] PROVE Kept'
  BY <1>15, <1>c DEF KeeperStep
<1>16. ASSUME NEW n \in Node, NEW c \in Content, ResumeVisit(n, c) PROVE Kept'
  <2>1. up[n]
    BY <1>16 DEF ResumeVisit, MemberInv, Stopped
  <2> QED BY <1>16, <2>1, <1>15 DEF ResumeVisit
<1>17. ASSUME NEW n \in Node, Connected(n) PROVE Kept'
  BY <1>17, <1>15 DEF Connected
<1>18. ASSUME NEW n \in Node, Halt(n) \/ Restart(n) PROVE Kept'
  BY <1>18, HaltKeeps, RestartKeeps
<1>19. ASSUME Next PROVE Kept'
  BY <1>19, <1>2, <1>3, <1>4, <1>5, <1>6, <1>7, <1>8, <1>9, <1>10, <1>11, <1>12, <1>13,
     <1>14, <1>16, <1>17, <1>18, GroupCases
<1>20. ASSUME Next PROVE Stopped'
  BY <1>20, StoppedNext DEF MemberInv
<1> QED BY <1>1, <1>19, <1>20 DEF Kept, MemberInv

\* A running member's state of a group is complete, whatever the order of the
\* puts and whichever deaths came in between.
THEOREM MemberStateCorrect == Spec => []MemberStateComplete
<1>1. TypeOK /\ MemberInv => MemberStateComplete
  BY DEF MemberInv, InMemory, HasAll, MemberStateComplete
<1>2. TypeOK /\ MemberInv /\ [Next]_vars => (TypeOK /\ MemberInv)'
  BY MemberNext, GroupTypeNext
<1> QED BY MemberInit, <1>1, <1>2, PTL DEF Spec
(* ------------------- where a group's state comes from ---------------- *)

\* NonMembersBlind and MembersAgree follow from what each node's threads and
\* its keeper owe to the puts: a keeper, a download and a hook that hands on
\* belong to a member, and while nothing died a recorded tag or a download of
\* a group is one of a put that was merged, or is about to be.
Made(n, g) == \E by \in Node : Member(g, n, by) \in issued
Having(n, c) == Index(c) \in merged[n] \/ hook[n].d = Index(c)

PutsOK(n) ==
  /\ merged[n] \subseteq issued
  /\ hook[n].pc # "idle" => hook[n].d \in issued
  /\ \A c \in Content :
       /\ hook[n].pc \in {"saving", "handing"} /\ hook[n].d = Index(c) /\ GroupOf[c] # Plain =>
            Made(n, GroupOf[c])

JobsOK(n) ==
  \A c \in Content : job[n][c] # "none" /\ GroupOf[c] # Plain =>
    Made(n, GroupOf[c]) /\ (halts = 0 => Having(n, c))

KeeperOK(n) ==
  \A g \in Group :
    /\ gstate[n][g] # NoState \/ gfile[n][g] # NoState => Made(n, g)
    /\ halts = 0 => \A t \in gstate[n][g].tags :
         \E c \in Content : GroupOf[c] = g /\ TagOf[c] = t /\ Having(n, c)

OriginOK(n) == PutsOK(n) /\ JobsOK(n) /\ KeeperOK(n) /\ (halts = 0 => up[n])
OriginInv == \A n \in Node : OriginOK(n)

\* What no step of a running node takes back.
Onward(n) ==
  /\ issued \subseteq issued' /\ halts' = halts
  /\ \A c \in Content : Having(n, c) => Having(n, c)'

SameAt(m) ==
  /\ up'[m] = up[m] /\ merged'[m] = merged[m] /\ hook'[m] = hook[m] /\ job'[m] = job[m]
  /\ gstate'[m] = gstate[m] /\ gfile'[m] = gfile[m]

LEMMA MadeStays ==
  ASSUME issued \subseteq issued', NEW n, NEW g, Made(n, g)
  PROVE  Made(n, g)'
  BY DEF Made

\* A step of one node concerns no other.
LEMMA OriginAt ==
  ASSUME OriginInv, NEW n \in Node, \A m \in Node \ {n} : SameAt(m),
         issued \subseteq issued', halts' = halts, OriginOK(n)'
  PROVE  OriginInv'
<1> SUFFICES ASSUME NEW m \in Node, m # n PROVE OriginOK(m)'
  BY DEF OriginInv
<1>1. OriginOK(m) /\ SameAt(m)
  BY DEF OriginInv
<1>2. \A c \in Content : Having(m, c)' <=> Having(m, c)
  BY <1>1 DEF SameAt, Having
<1>3. PutsOK(m)'
  BY <1>1, MadeStays DEF OriginOK, PutsOK, SameAt
<1>4. JobsOK(m)'
  BY <1>1, <1>2, MadeStays DEF OriginOK, JobsOK, SameAt
<1>5. KeeperOK(m)'
  <2>1. \A g \in Group : gstate'[m][g] # NoState \/ gfile'[m][g] # NoState => Made(m, g)'
    BY <1>1, MadeStays DEF OriginOK, KeeperOK, SameAt
  <2>2. ASSUME halts = 0, NEW g \in Group, NEW t \in gstate'[m][g].tags
        PROVE  \E c \in Content : GroupOf[c] = g /\ TagOf[c] = t /\ Having(m, c)'
    BY <1>1, <1>2, <2>2 DEF OriginOK, KeeperOK, SameAt
  <2> QED BY <2>1, <2>2 DEF KeeperOK
<1> QED BY <1>1, <1>3, <1>4, <1>5 DEF OriginOK, SameAt

(* What the keeper does, and what follows for it.                          *)

LEMMA KeeperSame ==
  ASSUME NEW n \in Node, KeeperOK(n), Onward(n), gstate'[n] = gstate[n], gfile'[n] = gfile[n]
  PROVE  KeeperOK(n)'
<1>1. \A g \in Group : gstate'[n][g] # NoState \/ gfile'[n][g] # NoState => Made(n, g)'
  BY MadeStays DEF KeeperOK, Onward
<1>2. ASSUME halts = 0, NEW g \in Group, NEW t \in gstate'[n][g].tags
      PROVE  \E c \in Content : GroupOf[c] = g /\ TagOf[c] = t /\ Having(n, c)'
  BY <1>2 DEF KeeperOK, Onward
<1> QED BY <1>1, <1>2 DEF KeeperOK, Onward

LEMMA KeeperSaves ==
  ASSUME TypeOK, NEW n \in Node, KeeperOK(n), Onward(n), saveStates(n)
  PROVE  KeeperOK(n)'
<1>1. gstate' = gstate /\ gfile'[n] = gstate[n]
  BY DEF saveStates, TypeOK
<1>2. \A g \in Group : gstate'[n][g] # NoState \/ gfile'[n][g] # NoState => Made(n, g)'
  BY <1>1, MadeStays DEF KeeperOK, Onward
<1>3. ASSUME halts = 0, NEW g \in Group, NEW t \in gstate'[n][g].tags
      PROVE  \E c \in Content : GroupOf[c] = g /\ TagOf[c] = t /\ Having(n, c)'
  BY <1>1, <1>3 DEF KeeperOK, Onward
<1> QED BY <1>2, <1>3 DEF KeeperOK, Onward

LEMMA KeeperAdds ==
  ASSUME TypeOK, NEW n \in Node, KeeperOK(n), Onward(n),
         NEW g \in Group, NEW tags \in SUBSET Tag, AddOrUpdateState(n, g, tags), Made(n, g)',
         halts = 0 => \A t \in tags :
           \E c \in Content : GroupOf[c] = g /\ TagOf[c] = t /\ Having(n, c)'
  PROVE  KeeperOK(n)'
<1>0. gstate \in [Node -> [Group -> State]]
  BY DEF TypeOK
<1>1. /\ gfile' = gfile
      /\ gstate' = [gstate EXCEPT ![n][g] =
                      [member |-> TRUE, tags |-> gstate[n][g].tags \cup tags]]
  BY DEF AddOrUpdateState
<1>2. /\ gstate'[n][g].tags = gstate[n][g].tags \cup tags
      /\ \A h \in Group : h # g => gstate'[n][h] = gstate[n][h]
  BY <1>0, <1>1
<1>3. ASSUME NEW h \in Group, gstate'[n][h] # NoState \/ gfile'[n][h] # NoState
      PROVE  Made(n, h)'
  <2>1. CASE h = g
    BY <2>1
  <2>2. CASE h # g
    BY <1>1, <1>2, <1>3, <2>2, MadeStays DEF KeeperOK, Onward
  <2> QED BY <2>1, <2>2
<1>4. ASSUME halts = 0, NEW h \in Group, NEW t \in gstate'[n][h].tags
      PROVE  \E c \in Content : GroupOf[c] = h /\ TagOf[c] = t /\ Having(n, c)'
  <2>1. CASE h = g /\ t \in tags
    BY <1>4, <2>1
  <2>2. CASE t \in gstate[n][h].tags
    BY <1>4, <2>2 DEF KeeperOK, Onward
  <2> QED BY <1>2, <1>4, <2>1, <2>2
<1> QED BY <1>3, <1>4 DEF KeeperOK, Onward

LEMMA JobsStay ==
  ASSUME NEW n \in Node, JobsOK(n), Onward(n),
         \A c \in Content : job'[n][c] # "none" /\ GroupOf[c] # Plain => job[n][c] # "none"
  PROVE  JobsOK(n)'
  BY MadeStays DEF JobsOK, Onward

\* A hook that neither begins nor ends.
LEMMA PutsStay ==
  ASSUME NEW n \in Node, PutsOK(n), Onward(n), merged'[n] = merged[n], hook'[n] = hook[n]
  PROVE  PutsOK(n)'
  BY MadeStays DEF PutsOK, Onward

LEMMA IndexIs ==
  ASSUME NEW d \in IndexPut
  PROVE  d.c \in Content /\ d = Index(d.c) /\ \A c \in Content : d = Index(c) => c = d.c
  BY DEF IndexPut, Index

LEMMA MemberMade ==
  ASSUME NEW n \in Node, NEW g, IsMember(n, g, n), merged[n] \subseteq issued
  PROVE  Made(n, g)
  BY DEF IsMember, Made

\* PutHook starts a put that was issued.
LEMMA PutHookOrigin ==
  ASSUME TypeOK, NEW n \in Node, OriginOK(n), NEW d \in Put, hook[n] = IdleHook,
         PutHook(n, d), d \in issued', issued \subseteq issued', UNCHANGED <<up, merged, job, halts>>
  PROVE  OriginOK(n)' /\ \A m \in Node \ {n} : SameAt(m)
<1>0. hook \in [Node -> Hook] /\ gstate \in [Node -> [Group -> State]]
  BY DEF TypeOK
<1>1. PICK pc \in {"saving", "handing", "commit"} : At(n, pc, d)
  BY DEF PutHook, MetaHook, MemberHook, IndexHook
<1>2. hook'[n] = [pc |-> pc, d |-> d] /\ \A m \in Node \ {n} : hook'[m] = hook[m]
  BY <1>0, <1>1 DEF At
<1>3. Onward(n)
  <2>1. \A c \in Content : hook[n].d # Index(c)
    BY DEF IdleHook, NoPut, Index
  <2> QED BY <2>1 DEF Onward, Having
<1>4. JobsOK(n)'
  BY <1>3, JobsStay DEF OriginOK
<1>5. \A c \in Content : d = Index(c) => Having(n, c)'
  BY <1>2 DEF Having
<1>a. CASE MetaHook(n, d)
  <2>1. UNCHANGED keeper /\ d \in MetaPut
    BY <1>a DEF MetaHook
  <2>2. KeeperOK(n)'
    BY <1>3, <2>1, KeeperSame DEF OriginOK, keeper
  <2>3. PutsOK(n)'
    BY <1>2, <1>3, <2>1 DEF OriginOK, PutsOK, Onward, MetaPut, Index
  <2> QED BY <1>2, <1>4, <2>1, <2>2, <2>3 DEF OriginOK, SameAt, keeper
<1>b. CASE MemberHook(n, d)
  <2>0. d \in MemberPut /\ d.g \in Group
    BY <1>b DEF MemberHook, MemberPut
  <2>3. PutsOK(n)'
    BY <1>2, <1>3, <2>0 DEF OriginOK, PutsOK, Onward, MemberPut, Index
  <2>1. CASE d.m = n
    <3>1. AddOrUpdateState(n, d.g, Tags(n, d.g))
      BY <1>b, <2>1 DEF MemberHook, Tags
    <3>2. Made(n, d.g)'
      <4>1. d = Member(d.g, n, d.by) /\ d.by \in Node
        BY <2>0, <2>1 DEF MemberPut, Member
      <4> QED BY <4>1 DEF Made
    <3>3. \A t \in Tags(n, d.g) :
            \E c \in Content : GroupOf[c] = d.g /\ TagOf[c] = t /\ Having(n, c)'
      BY DEF Tags, Indexed, Having
    <3>4. Tags(n, d.g) \in SUBSET Tag
      BY <2>0, TagsType DEF Tags
    <3>5. KeeperOK(n)'
      BY <1>3, <2>0, <3>1, <3>2, <3>3, <3>4, KeeperAdds DEF OriginOK
    <3>6. \A m \in Node \ {n} : gstate'[m] = gstate[m] /\ gfile'[m] = gfile[m]
      BY <2>0, <3>1, <3>4, UpdateAdds
    <3> QED BY <1>2, <1>4, <2>3, <3>5, <3>6 DEF OriginOK, SameAt
  <2>2. CASE d.m # n
    <3>1. UNCHANGED keeper
      BY <1>b, <2>2 DEF MemberHook
    <3>2. KeeperOK(n)'
      BY <1>3, <3>1, KeeperSame DEF OriginOK, keeper
    <3> QED BY <1>2, <1>4, <2>3, <3>1, <3>2 DEF OriginOK, SameAt, keeper
  <2> QED BY <2>1, <2>2
<1>c. CASE IndexHook(n, d)
  <2> DEFINE g == GroupOf[d.c]
  <2>0. d \in IndexPut /\ d.c \in Content /\ g \in Group \cup {Plain} /\ TagOf[d.c] \in Tag
    BY <1>c, GroupAssumption DEF IndexHook, IndexPut
  <2>1. d = Index(d.c) /\ \A c \in Content : d = Index(c) => c = d.c
    BY <2>0, IndexIs
  <2>2. CASE g = Plain \/ ~IsMember(n, g, n)
    <3>1. UNCHANGED keeper /\ (g = Plain \/ hook'[n].pc = "commit")
      <4>1. CASE g = Plain
        BY <1>c, <4>1 DEF IndexHook
      <4>2. CASE g # Plain
        <5>1. At(n, "commit", d) /\ UNCHANGED keeper
          BY <1>c, <2>2, <4>2 DEF IndexHook
        <5> QED BY <1>0, <5>1 DEF At
      <4> QED BY <4>1, <4>2
    <3>2. KeeperOK(n)'
      BY <1>3, <3>1, KeeperSame DEF OriginOK, keeper
    <3>3. PutsOK(n)'
      BY <1>2, <1>3, <2>1, <3>1 DEF OriginOK, PutsOK, Onward
    <3> QED BY <1>2, <1>4, <3>1, <3>2, <3>3 DEF OriginOK, SameAt, keeper
  <2>3. CASE g # Plain /\ IsMember(n, g, n)
    <3>1. AddOrUpdateState(n, g, {TagOf[d.c]}) /\ g \in Group
      BY <1>c, <2>0, <2>3 DEF IndexHook
    <3>2. Made(n, g)'
      BY <2>3, MemberMade, MadeStays DEF OriginOK, PutsOK
    <3>3. \A t \in {TagOf[d.c]} :
            \E c \in Content : GroupOf[c] = g /\ TagOf[c] = t /\ Having(n, c)'
      BY <1>5, <2>0, <2>1
    <3>4. KeeperOK(n)'
      BY <1>3, <2>0, <3>1, <3>2, <3>3, KeeperAdds DEF OriginOK
    <3>5. PutsOK(n)'
      BY <1>2, <1>3, <2>1, <3>2 DEF OriginOK, PutsOK, Onward
    <3>6. \A m \in Node \ {n} : gstate'[m] = gstate[m] /\ gfile'[m] = gfile[m]
      BY <2>0, <3>1, UpdateAdds
    <3> QED BY <1>2, <1>4, <3>4, <3>5, <3>6 DEF OriginOK, SameAt
  <2> QED BY <2>2, <2>3
<1> QED BY <1>a, <1>b, <1>c DEF PutHook

LEMMA LocalPutOrigin ==
  ASSUME TypeOK, OriginInv, NEW n \in Node, NEW d \in Put, LocalPut(n, d),
         UNCHANGED <<up, merged, job, halts>>
  PROVE  OriginInv'
<1>1. d \in issued' /\ issued \subseteq issued' /\ PutHook(n, d) /\ hook[n] = IdleHook
  BY DEF LocalPut
<1>2. OriginOK(n)' /\ \A m \in Node \ {n} : SameAt(m)
  BY <1>1, PutHookOrigin DEF OriginInv
<1> QED BY <1>1, <1>2, OriginAt

\* A step that changes neither keeper nor hook nor store.
LEMMA JobOrigin ==
  ASSUME TypeOK, OriginInv, NEW n \in Node, UNCHANGED <<up, issued, merged, hook, keeper, halts>>,
         \A m \in Node \ {n} : job'[m] = job[m],
         \A c \in Content : job'[n][c] # "none" /\ GroupOf[c] # Plain => job[n][c] # "none"
  PROVE  OriginInv'
<1>1. Onward(n) /\ OriginOK(n)
  BY DEF Onward, Having, OriginInv
<1>2. OriginOK(n)'
  BY <1>1, PutsStay, JobsStay, KeeperSame DEF OriginOK, keeper
<1> QED BY <1>2, OriginAt DEF SameAt, keeper

\* A write of the keeper outside a hook, by a member.
LEMMA UpdateOrigin ==
  ASSUME TypeOK, OriginInv, NEW n \in Node, UNCHANGED <<up, issued, merged, hook, halts>>,
         \A m \in Node \ {n} : job'[m] = job[m],
         \A c \in Content : job'[n][c] # "none" => job[n][c] # "none",
         NEW g \in Group, NEW tags \in SUBSET Tag, AddOrUpdateState(n, g, tags), Made(n, g),
         halts = 0 => \A t \in tags :
           \E c \in Content : GroupOf[c] = g /\ TagOf[c] = t /\ Having(n, c)
  PROVE  OriginInv'
<1>1. Onward(n) /\ OriginOK(n) /\ Made(n, g)' /\ \A c \in Content : Having(n, c)' <=> Having(n, c)
  BY DEF Onward, Having, OriginInv, Made
<1>2. KeeperOK(n)'
  BY <1>1, KeeperAdds DEF OriginOK
<1>3. OriginOK(n)'
  BY <1>1, <1>2, PutsStay, JobsStay DEF OriginOK
<1>4. \A m \in Node \ {n} : gstate'[m] = gstate[m] /\ gfile'[m] = gfile[m]
  BY UpdateAdds
<1> QED BY <1>3, <1>4, OriginAt DEF SameAt

LEMMA SaveOrigin ==
  ASSUME TypeOK, OriginInv, NEW n \in Node, UNCHANGED <<up, issued, merged, hook, halts>>,
         \A m \in Node \ {n} : job'[m] = job[m],
         \A c \in Content : job'[n][c] # "none" => job[n][c] # "none", saveStates(n)
  PROVE  OriginInv'
<1>1. Onward(n) /\ OriginOK(n)
  BY DEF Onward, Having, OriginInv
<1>2. OriginOK(n)'
  BY <1>1, KeeperSaves, PutsStay, JobsStay DEF OriginOK
<1>3. \A m \in Node \ {n} : gstate'[m] = gstate[m] /\ gfile'[m] = gfile[m]
  BY DEF saveStates, TypeOK
<1> QED BY <1>2, <1>3, OriginAt DEF SameAt

(* The steps of a hook.                                                    *)

LEMMA HookSaveOrigin ==
  ASSUME TypeOK, OriginInv, NEW n \in Node, HookSave(n)
  PROVE  OriginInv'
<1>0. hook \in [Node -> Hook] /\ OriginOK(n)
  BY DEF TypeOK, OriginInv
<1>1. PICK pc \in {"handing", "commit"} :
        hook'[n] = [pc |-> pc, d |-> hook[n].d] /\ \A m \in Node \ {n} : hook'[m] = hook[m]
  BY <1>0 DEF HookSave, At
<1>2. Onward(n)
  BY <1>1 DEF HookSave, Onward, Having
<1>3. PutsOK(n)'
  BY <1>0, <1>1, <1>2, MadeStays DEF HookSave, OriginOK, PutsOK, Onward
<1>4. KeeperOK(n)' /\ JobsOK(n)'
  BY <1>0, <1>2, KeeperSaves, JobsStay DEF HookSave, OriginOK, watcher
<1>5. \A m \in Node \ {n} : gstate'[m] = gstate[m] /\ gfile'[m] = gfile[m]
  BY DEF HookSave, saveStates, TypeOK
<1> QED BY <1>0, <1>1, <1>3, <1>4, <1>5, OriginAt DEF HookSave, SameAt, OriginOK, watcher

LEMMA HookHandOrigin ==
  ASSUME TypeOK, OriginInv, NEW n \in Node, HookHand(n)
  PROVE  OriginInv'
<1>0. /\ hook \in [Node -> Hook] /\ job \in [Node -> [Content -> Stage]]
      /\ OriginOK(n) /\ hook[n].pc = "handing"
  BY DEF TypeOK, OriginInv, HookHand
<1>1. PICK e \in Content : hook[n].d = Index(e) /\ hook[n].d.c = e
  BY <1>0, IndexIs DEF Hook
<1>2. hook'[n] = [pc |-> "commit", d |-> hook[n].d] /\ \A m \in Node \ {n} : hook'[m] = hook[m]
  BY <1>0 DEF HookHand, At
<1>3. Onward(n) /\ Having(n, e)'
  BY <1>1, <1>2 DEF HookHand, Onward, Having
<1>4. PutsOK(n)'
  BY <1>0, <1>2, <1>3, MadeStays DEF HookHand, OriginOK, PutsOK, Onward
<1>5. KeeperOK(n)'
  BY <1>0, <1>3, KeeperSame DEF HookHand, OriginOK, keeper
<1>6. /\ \A m \in Node \ {n} : job'[m] = job[m]
      /\ \A c \in Content : c # e => job'[n][c] = job[n][c]
  BY <1>0, <1>1 DEF HookHand, Spawn
<1>7. GroupOf[e] # Plain => Made(n, GroupOf[e])'
  BY <1>0, <1>1, <1>3, MadeStays DEF OriginOK, PutsOK, Onward
<1>8. JobsOK(n)'
  <2>1. SUFFICES ASSUME NEW c \in Content, job'[n][c] # "none", GroupOf[c] # Plain
                 PROVE  Made(n, GroupOf[c])' /\ (halts = 0 => Having(n, c)')
    BY <1>3 DEF JobsOK, Onward
  <2>2. CASE c = e
    BY <1>3, <1>7, <2>1, <2>2
  <2>3. CASE c # e
    BY <1>0, <1>3, <1>6, <2>1, <2>3, MadeStays DEF OriginOK, JobsOK, Onward
  <2> QED BY <2>2, <2>3
<1> QED BY <1>0, <1>2, <1>4, <1>5, <1>6, <1>8, OriginAt
        DEF HookHand, SameAt, OriginOK, keeper, Onward

LEMMA HookCommitOrigin ==
  ASSUME TypeOK, OriginInv, NEW n \in Node, HookCommit(n)
  PROVE  OriginInv'
<1>0. hook \in [Node -> Hook] /\ OriginOK(n) /\ hook[n].pc = "commit"
  BY DEF TypeOK, OriginInv, HookCommit
<1>1. /\ hook'[n] = IdleHook /\ merged'[n] = merged[n] \cup {hook[n].d}
      /\ \A m \in Node \ {n} : hook'[m] = hook[m] /\ merged'[m] = merged[m]
  BY <1>0 DEF HookCommit, TypeOK
<1>2. Onward(n)
  BY <1>1 DEF HookCommit, Onward, Having
<1>3. PutsOK(n)'
  BY <1>0, <1>1 DEF HookCommit, OriginOK, PutsOK, IdleHook
<1>4. KeeperOK(n)' /\ JobsOK(n)'
  BY <1>0, <1>2, KeeperSame, JobsStay DEF HookCommit, OriginOK, keeper, watcher
<1> QED BY <1>0, <1>1, <1>3, <1>4, OriginAt DEF HookCommit, SameAt, OriginOK, keeper, watcher

LEMMA MergePutOrigin ==
  ASSUME TypeOK, OriginInv, NEW n \in Node, NEW d \in issued, MergePut(n, d)
  PROVE  OriginInv'
<1>0. d \in Put /\ OriginOK(n)
  BY DEF TypeOK, OriginInv
<1>1. CASE PutHook(n, d) /\ UNCHANGED merged
  <2>1. OriginOK(n)' /\ \A m \in Node \ {n} : SameAt(m)
    BY <1>0, <1>1, PutHookOrigin DEF MergePut, watcher
  <2> QED BY <2>1, OriginAt DEF MergePut
<1>2. CASE merged' = [merged EXCEPT ![n] = @ \cup {d}] /\ UNCHANGED <<hook, keeper>>
  <2>1. merged'[n] = merged[n] \cup {d} /\ \A m \in Node \ {n} : merged'[m] = merged[m]
    BY <1>2 DEF TypeOK
  <2>2. Onward(n)
    BY <1>2, <2>1 DEF MergePut, Onward, Having
  <2>3. PutsOK(n)'
    BY <1>0, <1>2, <2>1, <2>2, MadeStays DEF OriginOK, PutsOK, Onward
  <2>4. KeeperOK(n)' /\ JobsOK(n)'
    BY <1>0, <1>2, <2>2, KeeperSame, JobsStay DEF MergePut, OriginOK, keeper, watcher
  <2> QED BY <1>0, <1>2, <2>1, <2>3, <2>4, OriginAt DEF MergePut, SameAt, OriginOK, keeper, watcher
<1> QED BY <1>1, <1>2 DEF MergePut

(* Deaths: a node keeps its file.                                          *)

LEMMA HaltOrigin ==
  ASSUME TypeOK, OriginInv, NEW n \in Node, Halt(n)
  PROVE  OriginInv'
<1>0. halts \in Nat /\ halts' = halts + 1 /\ halts' # 0
  BY LimitAssumption DEF Halt, TypeOK
<1>1. /\ hook'[n] = IdleHook /\ gstate'[n] = [g \in Group |-> NoState]
      /\ job'[n] = [c \in Content |-> "none"]
      /\ \A m \in Node \ {n} : hook'[m] = hook[m] /\ gstate'[m] = gstate[m] /\ job'[m] = job[m]
  BY DEF Halt, TypeOK
<1>2. issued' = issued /\ merged' = merged /\ gfile' = gfile
  BY DEF Halt
<1>3. SUFFICES ASSUME NEW m \in Node PROVE OriginOK(m)'
  BY DEF OriginInv
<1>4. OriginOK(m) /\ \A g : Made(m, g)' <=> Made(m, g)
  BY <1>2 DEF OriginInv, Made
<1>5. CASE m = n
  BY <1>0, <1>1, <1>2, <1>4, <1>5 DEF OriginOK, PutsOK, JobsOK, KeeperOK, IdleHook
<1>6. CASE m # n
  BY <1>0, <1>1, <1>2, <1>4, <1>6 DEF OriginOK, PutsOK, JobsOK, KeeperOK
<1> QED BY <1>5, <1>6

LEMMA RestartOrigin ==
  ASSUME TypeOK, OriginInv, NEW n \in Node, Restart(n)
  PROVE  OriginInv'
<1>0. OriginOK(n) /\ halts # 0
  BY DEF Restart, OriginInv, OriginOK
<1>1. /\ up'[n] /\ gstate'[n] = gfile[n]
      /\ \A m \in Node \ {n} : up'[m] = up[m] /\ gstate'[m] = gstate[m]
  BY DEF Restart, TypeOK
<1>2. UNCHANGED <<issued, merged, hook, job, gfile, halts>>
  BY DEF Restart, watcher
<1>3. OriginOK(n)'
  BY <1>0, <1>1, <1>2 DEF OriginOK, PutsOK, JobsOK, KeeperOK, Made
<1> QED BY <1>1, <1>2, <1>3, OriginAt DEF SameAt

LEMMA OriginInit == Init => OriginInv
<1> SUFFICES ASSUME Init, NEW n \in Node PROVE OriginOK(n)
  BY DEF OriginInv
<1>1. PutsOK(n) /\ JobsOK(n) /\ up[n]
  BY DEF Init, PutsOK, JobsOK, IdleHook
<1>2. KeeperOK(n)
  BY DEF Init, KeeperOK, NoState
<1> QED BY <1>1, <1>2 DEF OriginOK

LEMMA OriginNext == TypeOK /\ OriginInv /\ [Next]_vars => OriginInv'
<1> SUFFICES ASSUME TypeOK, OriginInv, [Next]_vars PROVE OriginInv'
  OBVIOUS
<1>0. /\ \A g \in Group : CreatorOf[g] \in Node
      /\ \A c \in Content : GroupOf[c] # Plain => GroupOf[c] \in Group
      /\ \A c \in Content : {TagOf[c]} \in SUBSET Tag
      /\ {} \in SUBSET Tag /\ job \in [Node -> [Content -> Stage]]
  BY GroupAssumption DEF TypeOK
<1>1. CASE UNCHANGED vars
  BY <1>1 DEF vars, keeper, watcher, OriginInv, OriginOK, PutsOK, JobsOK, KeeperOK, Made, Having
<1>2. ASSUME NEW g \in Group, CreateGroup(g) PROVE OriginInv'
  BY <1>2, <1>0, PutTypes, LocalPutOrigin DEF CreateGroup, MakeFrame, watcher
<1>3. ASSUME NEW g \in Group, StoreOwner(g) PROVE OriginInv'
  BY <1>3, <1>0, PutTypes, LocalPutOrigin DEF StoreOwner, MakeFrame, watcher
<1>4. ASSUME NEW g \in Group, OpenState(g) PROVE OriginInv'
  <2> DEFINE n == CreatorOf[g]
  <2>1. n \in Node /\ AddOrUpdateState(n, g, {}) /\ UNCHANGED <<up, issued, merged, hook, job, halts>>
    BY <1>4, <1>0 DEF OpenState, MakeFrame, watcher
  <2>2. Made(n, g)
    BY <1>4, <2>1 DEF OpenState, OriginInv, OriginOK, PutsOK, Made
  <2> QED BY <1>0, <2>1, <2>2, UpdateOrigin
<1>5. ASSUME NEW g \in Group, OpenSaved(g) PROVE OriginInv'
  BY <1>5, <1>0, SaveOrigin DEF OpenSaved, MakeFrame, watcher
<1>6. ASSUME NEW n \in Node, NEW d \in issued, MergePut(n, d) PROVE OriginInv'
  BY <1>6, MergePutOrigin
<1>7. ASSUME NEW n \in Node, HookSave(n) PROVE OriginInv'
  BY <1>7, HookSaveOrigin
<1>8. ASSUME NEW n \in Node, HookHand(n) PROVE OriginInv'
  BY <1>8, HookHandOrigin
<1>9. ASSUME NEW n \in Node, HookCommit(n) PROVE OriginInv'
  BY <1>9, HookCommitOrigin
<1>10. ASSUME NEW n \in Node, NEW g \in Group, NEW m \in Node, GroupAddMember(n, g, m)
       PROVE  OriginInv'
  BY <1>10, PutTypes, LocalPutOrigin DEF GroupAddMember, watcher
<1>11. ASSUME NEW n \in Node, NEW c \in Content, GroupAddContent(n, c) PROVE OriginInv'
  BY <1>11, PutTypes, LocalPutOrigin DEF GroupAddContent
<1>12. ASSUME NEW n \in Node, NEW c \in Content, NEW stage, job[n][c] # "none", To(n, c, stage)
       PROVE  /\ \A m \in Node \ {n} : job'[m] = job[m]
              /\ \A d \in Content : job'[n][d] # "none" => job[n][d] # "none"
  BY <1>12, <1>0 DEF To
<1>13. ASSUME NEW n \in Node, NEW c \in Content,
              Download(n, c) \/ DownloadFails(n, c) \/ PlainCallback(n, c)
       PROVE  OriginInv'
  <2>1. /\ UNCHANGED <<up, issued, merged, hook, keeper, halts>> /\ job[n][c] # "none"
        /\ \E stage : To(n, c, stage)
    BY <1>13 DEF Download, DownloadFails, PlainCallback, JobFrame
  <2> QED BY <1>12, <2>1, JobOrigin
<1>14. ASSUME NEW n \in Node, NEW c \in Content, GroupCallback(n, c) PROVE OriginInv'
  <2>1. /\ UNCHANGED <<up, issued, merged, hook, halts>> /\ job[n][c] # "none"
        /\ \E stage : To(n, c, stage)
        /\ AddOrUpdateState(n, GroupOf[c], {TagOf[c]}) /\ GroupOf[c] # Plain
    BY <1>14 DEF GroupCallback, JobFrame
  <2>2. Made(n, GroupOf[c]) /\ (halts = 0 => Having(n, c))
    BY <2>1 DEF OriginInv, OriginOK, JobsOK
  <2> QED BY <1>0, <1>12, <2>1, <2>2, UpdateOrigin
<1>15. ASSUME NEW n \in Node, NEW c \in Content, GroupSaved(n, c) PROVE OriginInv'
  <2>1. /\ UNCHANGED <<up, issued, merged, hook, halts>> /\ job[n][c] # "none"
        /\ \E stage : To(n, c, stage)
        /\ saveStates(n)
    BY <1>15 DEF GroupSaved, JobFrame
  <2> QED BY <1>12, <2>1, SaveOrigin
\* What a scan resumes is plain content.
<1>16. ASSUME NEW n \in Node, NEW c \in Content, ResumeVisit(n, c) PROVE OriginInv'
  <2>1. UNCHANGED <<up, issued, merged, hook, keeper, halts>>
    BY <1>16 DEF ResumeVisit
  <2>2. UNCHANGED job \/ \E d \in Content : GroupOf[d] = Plain /\ Spawn(n, d)
    BY <1>16 DEF ResumeVisit, FindTag, Indexed
  <2>3. /\ \A m \in Node \ {n} : job'[m] = job[m]
        /\ \A d \in Content : job'[n][d] # "none" /\ GroupOf[d] # Plain => job[n][d] # "none"
    BY <1>0, <2>2 DEF Spawn
  <2> QED BY <2>1, <2>3, JobOrigin
<1>17. ASSUME NEW n \in Node, Connected(n) PROVE OriginInv'
  BY <1>17, JobOrigin DEF Connected
<1>18. ASSUME NEW n \in Node, Halt(n) \/ Restart(n) PROVE OriginInv'
  BY <1>18, HaltOrigin, RestartOrigin
<1> QED BY <1>1, <1>2, <1>3, <1>4, <1>5, <1>6, <1>7, <1>8, <1>9, <1>10, <1>11, <1>13,
           <1>14, <1>15, <1>16, <1>17, <1>18, GroupCases

\* A node keeps a state of a group only if somebody made it a member.
THEOREM BlindCorrect == Spec => []NonMembersBlind
<1>1. OriginInv => NonMembersBlind
  BY DEF OriginInv, OriginOK, KeeperOK, Made, NonMembersBlind
<1>2. TypeOK /\ OriginInv /\ [Next]_vars => (TypeOK /\ OriginInv)'
  BY OriginNext, GroupTypeNext
<1> QED BY GroupTypeInit, OriginInit, <1>1, <1>2, PTL DEF Spec

\* Two members that merged the same contents of a group have the same group
\* filter, while no process dies: it is exactly what they merged.
THEOREM AgreeCorrect == Spec => []MembersAgree
<1>1. TypeOK /\ MemberInv /\ OriginInv => MembersAgree
  <2> SUFFICES ASSUME TypeOK, MemberInv, OriginInv, halts = 0,
                      NEW n \in Node, NEW m \in Node, NEW g \in Group,
                      IsMember(n, g, n), IsMember(m, g, m),
                      hook[n] = IdleHook, hook[m] = IdleHook, Tags(n, g) = Tags(m, g)
               PROVE  gstate[n][g].tags = gstate[m][g].tags
    BY DEF MembersAgree
  <2>1. ASSUME NEW k \in Node, IsMember(k, g, k), hook[k] = IdleHook
        PROVE  gstate[k][g].tags = Tags(k, g)
    <3>1. OriginOK(k) /\ up[k]
      BY DEF OriginInv, OriginOK
    <3>2. Tags(k, g) \subseteq gstate[k][g].tags
      BY <2>1, <3>1 DEF MemberInv, InMemory, HasAll
    <3>3. \A c \in Content : Having(k, c) => Index(c) \in merged[k]
      BY <2>1 DEF Having, IdleHook, NoPut, Index
    <3>4. gstate[k][g].tags \subseteq Tags(k, g)
      BY <3>1, <3>3 DEF OriginOK, KeeperOK, Tags, Indexed
    <3> QED BY <3>2, <3>4
  <2> QED BY <2>1
<1>2. TypeOK /\ MemberInv /\ OriginInv /\ [Next]_vars => (TypeOK /\ MemberInv /\ OriginInv)'
  BY MemberNext, OriginNext, GroupTypeNext
<1> QED BY MemberInit, OriginInit, <1>1, <1>2, PTL DEF Spec
=============================================================================
