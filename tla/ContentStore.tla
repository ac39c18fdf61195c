--------------------------- MODULE ContentStore ---------------------------
(***************************************************************************)
(* The content store of one node: pkg/store/ipfs over the block DAGs of    *)
(* internal/ipfs. Clients (command line, mobile calls, gateway) add, get   *)
(* and delete content by its tag at the same time; the blocks and the      *)
(* index survive the death of the process, what the clients were doing     *)
(* does not.                                                               *)
(*                                                                         *)
(* A content is a DAG of blocks, and contents may share blocks. An AddFile *)
(* writes the blocks one by one, a DeleteFile removes one by one those     *)
(* that its walk found, and nothing relates the two.                       *)
(*                                                                         *)
(* The index is the replicated store as this node sees it. Puts and        *)
(* deletes of other nodes are ContentReplication's subject; here other     *)
(* nodes only serve blocks. An error of the datastore is left out.         *)
(***************************************************************************)
EXTENDS Naturals, FiniteSets

CONSTANTS
  Client, Content, Tag, Block,
  Links,      \* [Block -> SUBSET Block]: the links of a node of the DAG
  Root,       \* [Content -> Block]
  Remote,     \* blocks that connected peers serve
  None        \* no content

ASSUME StoreAssumption ==
  /\ None \notin Content
  /\ Links \in [Block -> SUBSET Block] /\ Root \in [Content -> Block]
  /\ Remote \subseteq Block

VARIABLES
  blocks,     \* SUBSET Block: the blockstore
  index,      \* [Tag -> Content \cup {None}]: the tags of the replicated store
  op,         \* [Client -> what the client's call is doing]
  whole       \* SUBSET Content: history, see AddTag

vars == <<blocks, index, op, whole>>

(* ------------------------------- DAGs --------------------------------- *)

\* The blocks below and including b.
Below == [b \in Block |->
  {x \in Block : \A S \in SUBSET Block : b \in S /\ (\A y \in S : Links[y] \subseteq S) => x \in S}]

Dag == [c \in Content |-> Below[Root[c]]]

\* What descendants collects: getLinks ignores the block it is asked about and
\* lists the links of the root, at every depth of the walk.
descendants(c) == {Root[c]} \cup Links[Root[c]]

(* ------------------------------- calls -------------------------------- *)

Idle == [pc |-> "idle"]

Call ==
  {Idle}
  \cup [pc: {"adding"}, t: Tag, c: Content, todo: SUBSET Block, clean: BOOLEAN]
  \cup [pc: {"deleting", "walking", "untagging"}, t: Tag, c: Content]
  \cup [pc: {"removing"}, t: Tag, c: Content, todo: (SUBSET Block) \ {{}}]
  \cup [pc: {"again"}, t: Tag]
  \cup [pc: {"reading"}, c: Content, todo: (SUBSET Block) \ {{}}]

Init ==
  /\ blocks = {} /\ index = [t \in Tag |-> None]
  /\ op = [k \in Client |-> Idle]
  /\ whole = {}

Become(k, call) == op' = [op EXCEPT ![k] = call]
Return(k) == Become(k, Idle)

\* A DeleteFile of d takes blocks of c.
Threatens(d, c) == descendants(d) \cap Dag[c] # {}
Deleting == {k \in Client : op[k].pc \in {"deleting", "walking", "removing"}}

\* Add and AddDir: AddFile builds the DAG first.
Add(k, t, c) ==
  /\ op[k] = Idle
  /\ Become(k, [pc |-> "adding", t |-> t, c |-> c, todo |-> Dag[c],
                clean |-> \A d \in Deleting : ~Threatens(op[d].c, c)])
  /\ UNCHANGED <<blocks, index, whole>>

\* The block service writes a block unless it is there. The batches of AddDir
\* are written in parallel, so any block may be next.
AddBlock(k) ==
  /\ op[k].pc = "adding"
  /\ \E b \in op[k].todo :
       /\ blocks' = blocks \cup {b}
       /\ Become(k, [op[k] EXCEPT !.todo = @ \ {b}])
  /\ UNCHANGED <<index, whole>>

\* Mutant: the content is tagged before its DAG is complete.
AddTagEarly(k) ==
  /\ op[k].pc = "adding" /\ Cardinality(op[k].todo) < 2
  /\ index' = [index EXCEPT ![op[k].t] = op[k].c]
  /\ whole' = IF op[k].clean THEN whole \cup {op[k].c} ELSE whole
  /\ Return(k)
  /\ UNCHANGED blocks

\* The tag is put under its key, over whatever was there. History: an Add that
\* no DeleteFile of a common block overlapped makes its content whole.
AddTag(k) ==
  /\ op[k].pc = "adding" /\ op[k].todo = {}
  /\ index' = [index EXCEPT ![op[k].t] = op[k].c]
  /\ whole' = IF op[k].clean THEN whole \cup {op[k].c} ELSE whole
  /\ Return(k)
  /\ UNCHANGED blocks

\* Delete: FindTag fails, or says which content to remove. History: from here
\* on the contents with a common block are in danger.
Delete(k, t) ==
  LET c == index[t]
  IN /\ op[k] = Idle /\ c # None
     /\ op' = [d \in Client |->
          CASE d = k -> [pc |-> "deleting", t |-> t, c |-> c]
            [] d # k /\ op[d].pc = "adding" ->
                 [op[d] EXCEPT !.clean = @ /\ ~Threatens(c, op[d].c)]
            [] OTHER -> op[d]]
     /\ whole' = {d \in whole : ~Threatens(c, d)}
     /\ UNCHANGED <<blocks, index>>

\* DeleteFile refuses a content whose root is not in the blockstore ...
DeleteFileHas(k) ==
  /\ op[k].pc = "deleting"
  /\ IF Root[op[k].c] \in blocks
     THEN Become(k, [op[k] EXCEPT !.pc = "walking"])
     ELSE Return(k)
  /\ UNCHANGED <<blocks, index, whole>>

\* ... and reads the root for its links, from a peer if it went meanwhile, ...
DeleteFileWalk(k) ==
  LET r == Root[op[k].c]
  IN /\ op[k].pc = "walking"
     /\ r \in blocks \cup Remote
     /\ blocks' = blocks \cup {r}
     /\ Become(k, [pc |-> "removing", t |-> op[k].t, c |-> op[k].c,
                   todo |-> descendants(op[k].c)])
     /\ UNCHANGED <<index, whole>>

\* Mutant: the end of the walk's set is not noticed.
DeleteBlockOn(k) ==
  /\ op[k].pc = "removing"
  /\ \E b \in op[k].todo :
       /\ blocks' = blocks \ {b}
       /\ Become(k, [op[k] EXCEPT !.todo = @ \ {b}])
  /\ UNCHANGED <<index, whole>>

\* ... and removes what the walk found, in any order.
DeleteBlock(k) ==
  /\ op[k].pc = "removing"
  /\ \E b \in op[k].todo :
       /\ blocks' = blocks \ {b}
       /\ Become(k, IF op[k].todo = {b} THEN [pc |-> "untagging", t |-> op[k].t, c |-> op[k].c]
                                        ELSE [op[k] EXCEPT !.todo = @ \ {b}])
  /\ UNCHANGED <<index, whole>>

\* Manager.Delete of the key, whatever it holds by now. The remove command
\* then deletes the key once more.
Untag(k) ==
  /\ op[k].pc \in {"untagging", "again"}
  /\ index' = [index EXCEPT ![op[k].t] = None]
  /\ \/ Return(k)
     \/ op[k].pc = "untagging" /\ Become(k, [pc |-> "again", t |-> op[k].t])
  /\ UNCHANGED <<blocks, whole>>

\* Get, or a download: the reader fetches what the blockstore lacks from the
\* peers, and keeps it.
Get(k, t) ==
  /\ op[k] = Idle /\ index[t] # None
  /\ Become(k, [pc |-> "reading", c |-> index[t], todo |-> Dag[index[t]]])
  /\ UNCHANGED <<blocks, index, whole>>

ReadBlock(k) ==
  /\ op[k].pc = "reading"
  /\ \E b \in op[k].todo \cap (blocks \cup Remote) :
       /\ b = Root[op[k].c] \/ \E x \in Dag[op[k].c] \ op[k].todo : b \in Links[x]
       /\ blocks' = blocks \cup {b}
       /\ Become(k, IF op[k].todo = {b} THEN Idle ELSE [op[k] EXCEPT !.todo = @ \ {b}])
  /\ UNCHANGED <<index, whole>>

\* A reader is closed early, or the context of a call that waits for a block
\* of a peer ends.
GiveUp(k) ==
  /\ op[k].pc \in {"reading", "walking"}
  /\ Return(k)
  /\ UNCHANGED <<blocks, index, whole>>

\* The process dies; the datastore keeps the blocks and the index.
Halt ==
  /\ op' = [k \in Client |-> Idle]
  /\ UNCHANGED <<blocks, index, whole>>

Next ==
  \/ Halt
  \/ \E k \in Client :
       \/ \E t \in Tag : Delete(k, t) \/ Get(k, t) \/ \E c \in Content : Add(k, t, c)
       \/ AddBlock(k) \/ AddTag(k)
       \/ DeleteFileHas(k) \/ DeleteFileWalk(k) \/ DeleteBlock(k) \/ Untag(k)
       \/ ReadBlock(k) \/ GiveUp(k)

Spec == Init /\ [][Next]_vars

(* ----------------------------- properties ----------------------------- *)

TypeOK ==
  /\ blocks \subseteq Block /\ index \in [Tag -> Content \cup {None}]
  /\ op \in [Client -> Call] /\ whole \subseteq Content

\* A content that was added stays whole until a DeleteFile begins on a content
\* of whose root and first links it contains one: no other call, interleaved
\* as it may be, and no death takes a block of it.
WholeUntilDeleted == \A c \in whole : Dag[c] \subseteq blocks
=============================================================================
