------------------------- MODULE GroupReplication -------------------------
(***************************************************************************)
(* Groups: internal/replication/group_replication.go, the group branches   *)
(* of PutHook and of the content watcher in replication.go, and the        *)
(* StateKeeper of internal/repo/state.go with its file.                    *)
(*                                                                         *)
(* A group lives in the replicated store as three kinds of keys: its       *)
(* metadata, one key per member, one index key per content. The puts of a  *)
(* group reach a node in any order, one at a time; each runs PutHook       *)
(* before it is committed. PutHook records a group in the StateKeeper of   *)
(* a member, whichever of the member key and the index keys came first.    *)
(*                                                                         *)
(* ContentReplication models plain content in more detail: here an Add to  *)
(* the plain filter and its SetState are one step, so are the steps of a   *)
(* goroutine of the watcher up to the download, a matrix entry has the     *)
(* tag of its content from the start, every content has a hash of its own  *)
(* and a flush before a death saw the whole matrix or nothing.             *)
(*                                                                         *)
(* Bounds, in guards: MaxHalts process deaths, MaxFails failed downloads.  *)
(***************************************************************************)
EXTENDS Naturals, FiniteSets

CONSTANTS
  Node, Group, Content, Tag,
  Open,         \* the groups made by CreateOpenGroup
  CreatorOf,    \* [Group -> Node]
  GroupOf,      \* [Content -> Group \cup {Plain}]: the Group field of a ContentMetatag
  OwnerOf,      \* [Content -> Node]
  TagOf,        \* [Content -> Tag]
  Plain,        \* the empty Group field
  AutoDownload, MaxHalts, MaxFails

ASSUME GroupAssumption ==
  /\ Plain \notin Group /\ Open \subseteq Group
  /\ CreatorOf \in [Group -> Node]
  /\ GroupOf \in [Content -> Group \cup {Plain}]
  /\ OwnerOf \in [Content -> Node]
  /\ TagOf \in [Content -> Tag]

ASSUME LimitAssumption ==
  AutoDownload \in BOOLEAN /\ MaxHalts \in Nat /\ MaxFails \in Nat

VARIABLES
  up,       \* [Node -> BOOLEAN]
  issued,   \* every put some node began, kept as history
  merged,   \* [Node -> SUBSET Put]: puts committed to the store (persistent)
  making,   \* [Group -> step of CreateGroup or CreateOpenGroup at the creator]
  hook,     \* [Node -> [pc, d]]: the merge that runs PutHook under putElemsMux
  gstate,   \* [Node -> [Group -> [member, tags]]]: StateKeeper.states
  gfile,    \* [Node -> ...]: the keeper's file when it is whole
  torn,     \* [Node -> BOOLEAN]: the file is truncated and not yet rewritten
  filter,   \* [Node -> SUBSET Tag]: FSRepo.state and its file
  blocks,   \* [Node -> SUBSET Content]: content whose blocks are stored
  job,      \* [Node -> [Content -> stage of the watcher's goroutine and task]]
  entry,    \* [Node -> [Content -> state of the ContentMatrix entry]]
  resume,   \* [Node -> SUBSET Content]: entries StartUnfinishedDownload has to visit
  halts, fails

keeper == <<gstate, gfile, torn>>
watcher == <<blocks, job, entry, resume>>
vars == <<up, issued, merged, making, hook, keeper, filter, watcher, halts, fails>>

(* ------------------------------ data --------------------------------- *)

\* The keys /groups/g, /group-member/m/g and /group-index/g/tag (or /tag for
\* plain content) with their values; by is the node that put a member key.
MetaPut == [kind: {"group"}, g: Group]
MemberPut == [kind: {"member"}, g: Group, m: Node, by: Node]
IndexPut == [kind: {"index"}, c: Content]
Put == MetaPut \cup MemberPut \cup IndexPut

Meta(g) == [kind |-> "group", g |-> g]
Member(g, m, by) == [kind |-> "member", g |-> g, m |-> m, by |-> by]
Index(c) == [kind |-> "index", c |-> c]

NoPut == [kind |-> "none"]
Hook == {k \in [pc: {"idle", "saving", "handing", "commit"}, d: Put \cup {NoPut}] :
           /\ k.pc = "idle" <=> k.d = NoPut
           /\ k.pc = "handing" => k.d \in IndexPut}
IdleHook == [pc |-> "idle", d |-> NoPut]

State == [member: BOOLEAN, tags: SUBSET Tag]
NoState == [member |-> FALSE, tags |-> {}]

Step == {"none", "group", "member", "saving", "over"}
Stage == {"none", "loading", "loaded", "saving"}

(* ---------------------------- the store ------------------------------ *)

\* The member key of m in g as n reads it: checkMembership.
IsMember(n, g, m) == \E by \in Node : Member(g, m, by) \in merged[n]

\* The index keys of g that n reads: getContentMetadata.
Indexed(n, g) == {c \in Content : GroupOf[c] = g /\ Index(c) \in merged[n]}

\* FindTag looks for the plain key of the tag. Which of several puts of that
\* key wins is left open.
FindTag(n, t) == {c \in Indexed(n, Plain) : TagOf[c] = t}

SameKey(d, e) ==
  \/ d.kind = "group" /\ e = d
  \/ d.kind = "member" /\ e.kind = "member" /\ d.g = e.g /\ d.m = e.m
  \/ /\ d.kind = "index" /\ e.kind = "index"
     /\ GroupOf[d.c] = GroupOf[e.c] /\ TagOf[d.c] = TagOf[e.c]

\* A put runs the hook if it wins its key. The first put of a key wins; a
\* later one wins or loses by its priority, which is left open.
MayLose(n, d) == \E e \in merged[n] : SameKey(d, e)

(* --------------------------- the StateKeeper -------------------------- *)

\* The keeper's mutex, held while the file is truncated and rewritten.
KeeperFree(n) ==
  /\ hook[n].pc # "saving"
  /\ \A c \in Content : job[n][c] # "saving"
  /\ \A g \in Group : CreatorOf[g] = n => making[g] # "saving"

AddOrUpdateState(n, g, tags) ==
  /\ KeeperFree(n)
  /\ gstate' = [gstate EXCEPT ![n][g] = [member |-> TRUE, tags |-> @.tags \cup tags]]
  /\ torn' = [torn EXCEPT ![n] = TRUE]
  /\ UNCHANGED gfile

saveStates(n) ==
  /\ gfile' = [gfile EXCEPT ![n] = gstate[n]]
  /\ torn' = [torn EXCEPT ![n] = FALSE]
  /\ UNCHANGED gstate

(* ------------------------------ PutHook ------------------------------- *)

Init ==
  /\ up = [n \in Node |-> TRUE]
  /\ issued = {} /\ merged = [n \in Node |-> {}]
  /\ making = [g \in Group |-> "none"]
  /\ hook = [n \in Node |-> IdleHook]
  /\ gstate = [n \in Node |-> [g \in Group |-> NoState]]
  /\ gfile = [n \in Node |-> [g \in Group |-> NoState]]
  /\ torn = [n \in Node |-> FALSE]
  /\ filter = [n \in Node |-> {}] /\ blocks = [n \in Node |-> {}]
  /\ job = [n \in Node |-> [c \in Content |-> "none"]]
  /\ entry = [n \in Node |-> [c \in Content |-> "none"]]
  /\ resume = [n \in Node |-> {}]
  /\ halts = 0 /\ fails = 0

At(n, pc, d) == hook' = [hook EXCEPT ![n] = [pc |-> pc, d |-> d]]

\* /groups/g: nothing to do.
MetaHook(n, d) ==
  /\ d \in MetaPut
  /\ At(n, "commit", d) /\ UNCHANGED keeper

\* Mutant: a new member starts from an empty state.
MemberHookEmpty(n, d) ==
  /\ d \in MemberPut
  /\ IF d.m = n THEN AddOrUpdateState(n, d.g, {}) /\ At(n, "saving", d)
                ELSE At(n, "commit", d) /\ UNCHANGED keeper

\* Mutant: the contents are recorded instead of their tags.
MemberHookContent(n, d) ==
  /\ d \in MemberPut
  /\ IF d.m = n THEN AddOrUpdateState(n, d.g, Indexed(n, d.g)) /\ At(n, "saving", d)
                ELSE At(n, "commit", d) /\ UNCHANGED keeper

\* /group-member/m/g: only m itself records the group, with the tags of every
\* index key it has.
MemberHook(n, d) ==
  /\ d \in MemberPut
  /\ IF d.m = n
     THEN /\ AddOrUpdateState(n, d.g, {TagOf[c] : c \in Indexed(n, d.g)})
          /\ At(n, "saving", d)
     ELSE At(n, "commit", d) /\ UNCHANGED keeper

\* Mutant: the membership is not looked at.
IndexHookForAll(n, d) ==
  /\ d \in IndexPut
  /\ IF GroupOf[d.c] = Plain
     THEN At(n, "handing", d) /\ UNCHANGED keeper
     ELSE AddOrUpdateState(n, GroupOf[d.c], {TagOf[d.c]}) /\ At(n, "saving", d)

\* Mutant: the tag of remote content is left to the download's callback.
IndexHookLate(n, d) ==
  /\ d \in IndexPut
  /\ LET g == GroupOf[d.c]
     IN CASE g # Plain /\ ~IsMember(n, g, n) -> At(n, "commit", d) /\ UNCHANGED keeper
          [] g # Plain /\ IsMember(n, g, n) /\ OwnerOf[d.c] = n ->
               AddOrUpdateState(n, g, {TagOf[d.c]}) /\ At(n, "saving", d)
          [] OTHER -> At(n, "handing", d) /\ UNCHANGED keeper

\* /group-index/g/tag: a member records the tag and hands the content on;
\* for any other node PutHook returns. Plain content is handed on.
IndexHook(n, d) ==
  /\ d \in IndexPut
  /\ LET g == GroupOf[d.c]
     IN CASE g = Plain -> At(n, "handing", d) /\ UNCHANGED keeper
          [] g # Plain /\ IsMember(n, g, n) ->
               AddOrUpdateState(n, g, {TagOf[d.c]}) /\ At(n, "saving", d)
          [] g # Plain /\ ~IsMember(n, g, n) -> At(n, "commit", d) /\ UNCHANGED keeper

PutHook(n, d) == MetaHook(n, d) \/ MemberHook(n, d) \/ IndexHook(n, d)

\* A put made by n itself: it wins its key, above all that n has merged.
LocalPut(n, d) ==
  /\ up[n] /\ hook[n] = IdleHook /\ d \notin merged[n]
  /\ issued' = issued \cup {d}
  /\ PutHook(n, d)

\* A put made elsewhere arrives.
MergePut(n, d) ==
  /\ up[n] /\ hook[n] = IdleHook /\ d \notin merged[n]
  /\ \E m \in Node : up[m] /\ d \in merged[m]
  /\ \/ PutHook(n, d) /\ UNCHANGED merged
     \/ /\ MayLose(n, d)
        /\ merged' = [merged EXCEPT ![n] = @ \cup {d}]
        /\ UNCHANGED <<hook, keeper>>
  /\ UNCHANGED <<up, issued, making, filter, watcher, halts, fails>>

\* Mutant: group content is recorded, but never handed on.
HookSaveOnly(n) ==
  /\ hook[n].pc = "saving"
  /\ saveStates(n)
  /\ At(n, "commit", hook[n].d)
  /\ UNCHANGED <<up, issued, merged, making, filter, watcher, halts, fails>>

\* AddOrUpdateState of the hook ends and syncMtx is released.
HookSave(n) ==
  /\ hook[n].pc = "saving"
  /\ saveStates(n)
  /\ At(n, IF hook[n].d.kind = "index" THEN "handing" ELSE "commit", hook[n].d)
  /\ UNCHANGED <<up, issued, merged, making, filter, watcher, halts, fails>>

\* The watcher starts a goroutine and its task for c; a second one for a
\* content that is on its way has the effect of the first.
Spawn(n, c) ==
  /\ job' = [job EXCEPT ![n][c] = IF @ = "none" THEN "loading" ELSE @]
  /\ entry' = [entry EXCEPT ![n][c] = IF @ = "none" THEN "open" ELSE @]

\* Remote content goes to the watcher, any other into the plain filter, under
\* syncMtx: also the group content that n put itself.
HookHand(n) ==
  LET d == hook[n].d
  IN /\ hook[n].pc = "handing"
     /\ IF OwnerOf[d.c] # n /\ AutoDownload
        THEN Spawn(n, d.c) /\ UNCHANGED filter
        ELSE /\ \A c \in Content : job[n][c] # "saving"
             /\ filter' = [filter EXCEPT ![n] = @ \cup {TagOf[d.c]}]
             /\ UNCHANGED <<job, entry>>
     /\ At(n, "commit", d)
     /\ UNCHANGED <<up, issued, merged, making, keeper, blocks, resume, halts, fails>>

HookCommit(n) ==
  /\ hook[n].pc = "commit"
  /\ merged' = [merged EXCEPT ![n] = @ \cup {hook[n].d}]
  /\ hook' = [hook EXCEPT ![n] = IdleHook]
  /\ UNCHANGED <<up, issued, making, keeper, filter, watcher, halts, fails>>

(* --------------------------- group operations ------------------------- *)

MakeFrame == UNCHANGED <<up, merged, filter, watcher, halts, fails>>
Make(g, step) == making' = [making EXCEPT ![g] = step]

\* CreateGroup and CreateOpenGroup put the metadata, then the membership of
\* the creator, each only if the put before it succeeded ...
CreateGroup(g) ==
  /\ making[g] = "none"
  /\ LocalPut(CreatorOf[g], Meta(g))
  /\ Make(g, "group") /\ MakeFrame

StoreOwner(g) ==
  LET n == CreatorOf[g]
  IN /\ making[g] = "group" /\ Meta(g) \in merged[n]
     /\ LocalPut(n, Member(g, n, n))
     /\ Make(g, "member") /\ MakeFrame

\* ... and CreateOpenGroup records the group once more.
OpenState(g) ==
  LET n == CreatorOf[g]
  IN /\ g \in Open /\ making[g] = "member" /\ Member(g, n, n) \in merged[n]
     /\ AddOrUpdateState(n, g, {})
     /\ Make(g, "saving")
     /\ UNCHANGED <<issued, hook>> /\ MakeFrame

OpenSaved(g) ==
  /\ making[g] = "saving"
  /\ saveStates(CreatorOf[g])
  /\ Make(g, "over")
  /\ UNCHANGED <<issued, hook>> /\ MakeFrame

\* What a node checks before it puts a member or a content: it has the
\* metadata, a private group is its own, and its member key is there. No key
\* of a group is ever deleted, so what was read still holds at the put.
MayWrite(n, g) ==
  /\ Meta(g) \in merged[n]
  /\ g \in Open \/ CreatorOf[g] = n
  /\ IsMember(n, g, n)

GroupAddMember(n, g, m) ==
  /\ MayWrite(n, g)
  /\ LocalPut(n, Member(g, m, n))
  /\ UNCHANGED <<up, merged, making, filter, watcher, halts, fails>>

\* IPFSNode.GroupAdd and, for plain content, Add: the blocks, then the put. A
\* GroupAdd that is refused leaves blocks that no key names, and is left out.
GroupAddContent(n, c) ==
  /\ OwnerOf[c] = n
  /\ GroupOf[c] # Plain => MayWrite(n, GroupOf[c])
  /\ blocks' = [blocks EXCEPT ![n] = @ \cup {c}]
  /\ LocalPut(n, Index(c))
  /\ UNCHANGED <<up, merged, making, filter, job, entry, resume, halts, fails>>

(* ------------------------------ downloads ----------------------------- *)

JobFrame == UNCHANGED <<up, issued, merged, making, hook, resume, halts>>
To(n, c, stage) == job' = [job EXCEPT ![n][c] = stage]

\* The task read the content, and its callback calls ContentDownloadFinished.
Download(n, c) ==
  /\ job[n][c] = "loading"
  /\ \E m \in Node : up[m] /\ c \in blocks[m]
  /\ To(n, c, "loaded")
  /\ blocks' = [blocks EXCEPT ![n] = @ \cup {c}]
  /\ entry' = [entry EXCEPT ![n][c] = "done"]
  /\ UNCHANGED <<keeper, filter, fails>> /\ JobFrame

DownloadFails(n, c) ==
  /\ job[n][c] = "loading" /\ fails < MaxFails
  /\ fails' = fails + 1
  /\ To(n, c, "none")
  /\ UNCHANGED <<keeper, filter, blocks, entry>> /\ JobFrame

\* The rest of the callback, under syncMtx: group content goes into the
\* state of its group, plain content into the filter.
GroupCallback(n, c) ==
  /\ job[n][c] = "loaded" /\ GroupOf[c] # Plain
  /\ AddOrUpdateState(n, GroupOf[c], {TagOf[c]})
  /\ To(n, c, "saving")
  /\ UNCHANGED <<filter, blocks, entry, fails>> /\ JobFrame

GroupSaved(n, c) ==
  /\ job[n][c] = "saving"
  /\ saveStates(n)
  /\ To(n, c, "none")
  /\ UNCHANGED <<filter, blocks, entry, fails>> /\ JobFrame

PlainCallback(n, c) ==
  /\ job[n][c] = "loaded" /\ GroupOf[c] = Plain
  /\ hook[n].pc # "saving" /\ \A d \in Content : job[n][d] # "saving"
  /\ filter' = [filter EXCEPT ![n] = @ \cup {TagOf[c]}]
  /\ To(n, c, "none")
  /\ UNCHANGED <<keeper, blocks, entry, fails>> /\ JobFrame

\* notifier.Connected: two running nodes meet, and StartUnfinishedDownload
\* goes over the matrix of each.
Connected(n) ==
  /\ up[n] /\ \E m \in Node \ {n} : up[m]
  /\ resume' = [resume EXCEPT ![n] = @ \cup {c \in Content : entry[n][c] # "none"}]
  /\ UNCHANGED <<up, issued, merged, making, hook, keeper, filter, blocks, job,
                 entry, halts, fails>>

ResumeVisit(n, c) ==
  LET found == IF entry[n][c] = "done" THEN {} ELSE FindTag(n, TagOf[c])
  IN /\ c \in resume[n]
     /\ resume' = [resume EXCEPT ![n] = @ \ {c}]
     /\ IF found = {} THEN UNCHANGED <<job, entry>> ELSE \E d \in found : Spawn(n, d)
     /\ UNCHANGED <<up, issued, merged, making, hook, keeper, filter, blocks,
                    halts, fails>>

(* --------------------------- death and restart ------------------------ *)

Halt(n) ==
  /\ up[n] /\ halts < MaxHalts
  /\ halts' = halts + 1
  /\ up' = [up EXCEPT ![n] = FALSE]
  /\ making' = [g \in Group |-> IF CreatorOf[g] = n /\ making[g] # "none"
                                THEN "over" ELSE making[g]]
  /\ hook' = [hook EXCEPT ![n] = IdleHook]
  /\ gstate' = [gstate EXCEPT ![n] = [g \in Group |-> NoState]]
  /\ job' = [job EXCEPT ![n] = [c \in Content |-> "none"]]
  /\ entry' \in {entry, [entry EXCEPT ![n] = [c \in Content |-> "none"]]}
  /\ resume' = [resume EXCEPT ![n] = {}]
  /\ UNCHANGED <<issued, merged, gfile, torn, filter, blocks, fails>>

\* LoadStateKeeper reads the file, and fails on an empty one.
Restart(n) ==
  /\ ~up[n] /\ ~torn[n]
  /\ up' = [up EXCEPT ![n] = TRUE]
  /\ gstate' = [gstate EXCEPT ![n] = gfile[n]]
  /\ UNCHANGED <<issued, merged, making, hook, gfile, torn, filter, watcher, halts, fails>>

Hooking(n) == HookSave(n) \/ HookHand(n) \/ HookCommit(n)
Creating(g) == CreateGroup(g) \/ StoreOwner(g) \/ OpenState(g) \/ OpenSaved(g)
Callback(n, c) == GroupCallback(n, c) \/ PlainCallback(n, c)
Watching(n, c) == \/ Download(n, c) \/ DownloadFails(n, c) \/ Callback(n, c)
                  \/ GroupSaved(n, c) \/ ResumeVisit(n, c)

Next ==
  \/ \E g \in Group : Creating(g)
  \/ \E n \in Node :
       \/ \E d \in issued : MergePut(n, d)
       \/ Hooking(n) \/ Connected(n) \/ Halt(n) \/ Restart(n)
       \/ \E g \in Group, m \in Node : GroupAddMember(n, g, m)
       \/ \E c \in Content : GroupAddContent(n, c) \/ Watching(n, c)

Spec == Init /\ [][Next]_vars

(* ------------------------------ properties --------------------------- *)

TypeOK ==
  /\ up \in [Node -> BOOLEAN]
  /\ issued \subseteq Put /\ merged \in [Node -> SUBSET Put]
  /\ making \in [Group -> Step] /\ hook \in [Node -> Hook]
  /\ gstate \in [Node -> [Group -> State]] /\ gfile \in [Node -> [Group -> State]]
  /\ torn \in [Node -> BOOLEAN] /\ filter \in [Node -> SUBSET Tag]
  /\ blocks \in [Node -> SUBSET Content] /\ job \in [Node -> [Content -> Stage]]
  /\ entry \in [Node -> [Content -> {"none", "open", "done"}]]
  /\ resume \in [Node -> SUBSET Content]
  /\ halts \in 0..MaxHalts /\ fails \in 0..MaxFails

Tags(n, g) == {TagOf[c] : c \in Indexed(n, g)}

\* A running member's state of a group has the membership and the tag of
\* every content in its index, whichever of the two was merged first,
\* whatever a callback wrote meanwhile and whatever death came in between.
MemberStateComplete ==
  \A n \in Node, g \in Group :
    up[n] /\ IsMember(n, g, n) =>
      gstate[n][g].member /\ Tags(n, g) \subseteq gstate[n][g].tags

\* A node keeps a state for a group, in memory or in its file, only if
\* somebody made it a member: a callback or an index key never makes one.
NonMembersBlind ==
  \A n \in Node, g \in Group :
    gstate[n][g] # NoState \/ gfile[n][g] # NoState =>
      \E by \in Node : Member(g, n, by) \in issued

\* The group filters of two members that merged the same contents are equal,
\* which is how discovery sees that they have nothing to exchange.
MembersAgree ==
  halts = 0 =>
    \A n, m \in Node, g \in Group :
      /\ IsMember(n, g, n) /\ IsMember(m, g, m)
      /\ hook[n] = IdleHook /\ hook[m] = IdleHook
      /\ Tags(n, g) = Tags(m, g)
      => gstate[n][g].tags = gstate[m][g].tags

Fairness ==
  \A n \in Node :
    /\ WF_vars(Hooking(n))
    /\ WF_vars(\E d \in issued : MergePut(n, d))
    /\ \A c \in Content :
         /\ WF_vars(Download(n, c) \/ GroupSaved(n, c) \/ PlainCallback(n, c))
         /\ SF_vars(GroupCallback(n, c))

FairSpec == Spec /\ Fairness

\* A content put into a group reaches every node that is a member by then and
\* has not merged it yet, unless a process dies or the download fails.
MembersGetContent ==
  \A n \in Node, c \in Content :
    /\ up[n] /\ GroupOf[c] # Plain /\ IsMember(n, GroupOf[c], n)
    /\ Index(c) \in merged[OwnerOf[c]] /\ Index(c) \notin merged[n]
    /\ hook[n].d # Index(c)
    ~> c \in blocks[n] \/ halts > 0 \/ fails > 0

=============================================================================
