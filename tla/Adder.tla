-------------------------------- MODULE Adder --------------------------------
(***************************************************************************)
(* Peer.AddDir and internal/ipfs/adder.go: AddAll walks a tree of files,   *)
(* builds a directory in memory (go-mfs) beside it, flushes that directory *)
(* when it has grown, and returns the root of the DAG.                     *)
(*                                                                         *)
(* A tree maps paths, sequences of names, to kinds: "dir", "symlink",      *)
(* "special" (a device, a socket), "unreadable" (a file that fails while   *)
(* it is read) and the contents of files. A block is what its hash stands  *)
(* for: for a directory all that is below it, for a file or a symlink the  *)
(* kind, and a file has a second block. go-mfs, the buffered DAG and the   *)
(* iterator of go-ipfs-files are external.                                 *)
(***************************************************************************)
EXTENDS Naturals, Sequences, SequencesExt

CONSTANTS Tree,           \* the trees that AddDir is called on
          Hidden,         \* names that begin with a dot
          LiveCacheSize

ASSUME AdderAssumption ==
  /\ LiveCacheSize \in Nat \ {0}
  /\ \A t \in Tree : <<>> \in DOMAIN t /\ DOMAIN t \subseteq Seq(STRING)
  \* What is above an entry is a directory of the tree.
  /\ \A t \in Tree : \A p \in DOMAIN t : \A k \in 0..(Len(p) - 1) :
       SubSeq(p, 1, k) \in DOMAIN t /\ t[SubSeq(p, 1, k)] = "dir"

VARIABLES
  tree,       \* what is on disk
  pc,         \* the step that is next
  path,       \* the node that addFileNode is called on
  dirs,       \* the calls of addDir: [path, todo]
  mfs,        \* the directory in memory, a tree
  flushed,    \* the part of it that its stored root stands for
  buffer,     \* blocks in bufferedDS
  stored,     \* blocks in the blockstore
  liveNodes,
  result      \* the root that AddAll returns, or NoRoot

vars == <<tree, pc, path, dirs, mfs, flushed, buffer, stored, liveNodes, result>>

NoRoot == [kind |-> "none", part |-> "root", below |-> {}]
Empty == [p \in {<<>>} |-> "dir"]

\* Tree t with an entry of that kind at p, in the place of what was there.
With(t, p, kind) == [q \in DOMAIN t \cup {p} |-> IF q = p THEN kind ELSE t[q]]

Below(t, p) == {q \in DOMAIN t : q # p /\ IsPrefix(p, q)}
Relative(p, q) == SubSeq(q, Len(p) + 1, Len(q))

Root(kind) == [kind |-> kind, part |-> "root", below |-> {}]
Chunk(kind) == [Root(kind) EXCEPT !.part = "chunk"]

\* The root block of what tree t has at path p.
Block(t, p) == [Root(t[p]) EXCEPT !.below = {<<Relative(p, q), t[q]>> : q \in Below(t, p)}]

LeafBlocks(kind) == IF kind = "symlink" THEN {Root(kind)} ELSE {Root(kind), Chunk(kind)}

DirBlocks(t) == {Block(t, p) : p \in {q \in DOMAIN t : t[q] = "dir"}}

Init ==
  /\ tree \in Tree
  /\ pc = "node" /\ path = <<>> /\ dirs = <<>>
  /\ mfs = Empty /\ flushed = Empty
  /\ buffer = {} /\ stored = {} /\ liveNodes = 0
  /\ result = NoRoot

Fail ==
  /\ pc' = "failed"
  /\ UNCHANGED <<path, dirs, mfs, flushed, buffer, stored, result>>

(* ----------------------------- addFileNode --------------------------- *)

\* A mutant that frees the memory without flushing it.
FreeMem ==
  /\ mfs' = flushed
  /\ UNCHANGED <<flushed, stored>>

\* mfs: FlushMemFree stores every directory that is in memory and drops it.
FlushMemFree ==
  /\ stored' = stored \cup DirBlocks(mfs)
  /\ flushed' = mfs
  /\ UNCHANGED mfs

\* A mutant that flushes one node late.
addFileNodeLate ==
  /\ pc = "node"
  /\ IF liveNodes > LiveCacheSize
     THEN FlushMemFree /\ liveNodes' = 1
     ELSE liveNodes' = liveNodes + 1 /\ UNCHANGED <<mfs, flushed, stored>>
  /\ pc' = CASE tree[path] = "dir" -> "mkdir"
             [] tree[path] = "symlink" -> "symlink"
             [] tree[path] = "special" -> "failed"
             [] OTHER -> "file"
  /\ UNCHANGED <<tree, path, dirs, buffer, result>>

addFileNode ==
  /\ pc = "node"
  /\ IF liveNodes >= LiveCacheSize
     THEN FlushMemFree /\ liveNodes' = 1
     ELSE liveNodes' = liveNodes + 1 /\ UNCHANGED <<mfs, flushed, stored>>
  /\ pc' = CASE tree[path] = "dir" -> "mkdir"
             [] tree[path] = "symlink" -> "symlink"
             [] tree[path] = "special" -> "failed"
             [] OTHER -> "file"
  /\ UNCHANGED <<tree, path, dirs, buffer, result>>

\* mfs.PutNode and Mkdir; the top directory is the root of mfs already. A top
\* file has no path: it is put under its own hash.
MfsPath == IF path = <<>> THEN <<"cid">> ELSE path

After == IF dirs = <<>> THEN "root" ELSE "entries"

\* addNode: PutNode stores the node it is given, and not what that links to.
addNode ==
  /\ pc = "put"
  /\ mfs' = With(mfs, MfsPath, tree[path])
  /\ stored' = stored \cup {Root(tree[path])}
  /\ pc' = After
  /\ UNCHANGED <<tree, path, dirs, flushed, buffer, liveNodes, result>>

addSymlink ==
  /\ pc = "symlink"
  /\ stored' = stored \cup LeafBlocks("symlink")
  /\ pc' = "put"
  /\ UNCHANGED <<tree, path, dirs, mfs, flushed, buffer, liveNodes, result>>

\* add: the layout goes through bufferedDS.
addFile ==
  /\ pc = "file"
  /\ \/ tree[path] = "unreadable" /\ Fail
     \/ /\ tree[path] # "unreadable"
        /\ buffer' = buffer \cup LeafBlocks(tree[path])
        /\ pc' = "commit"
        /\ UNCHANGED <<path, dirs, mfs, flushed, stored, result>>
  /\ UNCHANGED <<tree, liveNodes>>

\* A mutant without the Commit.
CommitNothing ==
  /\ pc = "commit"
  /\ pc' = "put"
  /\ UNCHANGED <<tree, path, dirs, mfs, flushed, buffer, stored, liveNodes, result>>

Commit ==
  /\ pc = "commit"
  /\ stored' = stored \cup buffer
  /\ buffer' = {}
  /\ pc' = "put"
  /\ UNCHANGED <<tree, path, dirs, mfs, flushed, liveNodes, result>>

(* -------------------------------- addDir ----------------------------- *)

\* The iterator leaves out hidden files.
Entries(p) == {q \in DOMAIN tree : q # <<>> /\ Front(q) = p /\ Last(q) \notin Hidden}

addDir ==
  /\ pc = "mkdir"
  /\ mfs' = IF path = <<>> THEN mfs ELSE With(mfs, path, "dir")
  /\ dirs' = Append(dirs, [path |-> path, todo |-> Entries(path)])
  /\ pc' = "entries"
  /\ UNCHANGED <<tree, path, flushed, buffer, stored, liveNodes, result>>

Top == dirs[Len(dirs)]

\* A mutant that never looks at it.Err.
NextSkips ==
  /\ pc = "entries"
  /\ \E q \in Top.todo :
       /\ dirs' = [dirs EXCEPT ![Len(dirs)].todo = @ \ {q}]
       /\ IF tree[q] = "special"
          THEN UNCHANGED <<pc, path>> ELSE path' = q /\ pc' = "node"
  /\ UNCHANGED <<tree, mfs, flushed, buffer, stored, liveNodes, result>>

\* it.Next: an entry that is no file ends the walk, and it.Err says so.
NextEntry ==
  /\ pc = "entries"
  /\ \E q \in Top.todo :
       \/ /\ tree[q] = "special"
          /\ Fail
       \/ /\ tree[q] # "special"
          /\ dirs' = [dirs EXCEPT ![Len(dirs)].todo = @ \ {q}]
          /\ path' = q
          /\ pc' = "node"
          /\ UNCHANGED <<mfs, flushed, buffer, stored, result>>
  /\ UNCHANGED <<tree, liveNodes>>

LeaveDir ==
  /\ pc = "entries" /\ Top.todo = {}
  /\ dirs' = Front(dirs)
  /\ pc' = IF Len(dirs) = 1 THEN "root" ELSE "entries"
  /\ UNCHANGED <<tree, path, mfs, flushed, buffer, stored, liveNodes, result>>

(* -------------------------------- AddAll ----------------------------- *)

FlushRoot ==
  /\ pc = "root"
  /\ stored' = stored \cup DirBlocks(mfs)
  /\ flushed' = mfs
  /\ pc' = "swap"
  /\ UNCHANGED <<tree, path, dirs, mfs, buffer, liveNodes, result>>

\* A directory is the root of mfs, anything else its first child.
SwapRoot ==
  /\ pc = "swap"
  /\ result' = IF tree[<<>>] = "dir" THEN Block(flushed, <<>>) ELSE Block(flushed, <<"cid">>)
  /\ pc' = "done"
  /\ UNCHANGED <<tree, path, dirs, mfs, flushed, buffer, stored, liveNodes>>

Returned == pc \in {"done", "failed"} /\ UNCHANGED vars

Step ==
  \/ addFileNode \/ addNode \/ addSymlink \/ addFile \/ Commit
  \/ addDir \/ NextEntry \/ LeaveDir \/ FlushRoot \/ SwapRoot

Next == Step \/ Returned

Spec == Init /\ [][Next]_vars /\ WF_vars(Step)

(* ------------------------------ properties --------------------------- *)

TypeOK ==
  /\ path \in DOMAIN tree
  /\ pc \in {"node", "mkdir", "symlink", "file", "commit", "put", "entries", "root", "swap",
             "done", "failed"}
  /\ \A i \in DOMAIN dirs : dirs[i].path \in DOMAIN tree /\ dirs[i].todo \subseteq DOMAIN tree
  /\ \A i \in 2..Len(dirs) : Front(dirs[i].path) = dirs[i - 1].path
  /\ DOMAIN flushed \subseteq DOMAIN mfs
  /\ liveNodes \in 0..LiveCacheSize

\* What AddDir must build: the tree without what is hidden.
Visible == {p \in DOMAIN tree : \A i \in DOMAIN p : p[i] \notin Hidden}
Expected == [p \in Visible |-> tree[p]]
Broken == \E p \in Visible : tree[p] \in {"special", "unreadable"}

\* AddAll returns the DAG of the whole visible tree, however often memory was
\* freed on the way; of a tree with a broken entry it returns no root.
MirrorsTree ==
  pc = "done" => ~Broken /\ result = Block(Expected, <<>>)

\* Every block of a root that was returned is in the blockstore: those of
\* directories, files and symlinks alike.
RootIsWhole ==
  pc = "done" => \A p \in Visible :
    /\ Block(Expected, p) \in stored
    /\ tree[p] # "dir" => LeafBlocks(tree[p]) \subseteq stored

\* AddAll returns: with a root unless the tree has a broken entry.
Returns == <>(IF Broken THEN pc = "failed" ELSE pc = "done")
=============================================================================
