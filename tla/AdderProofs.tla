----------------------------- MODULE AdderProofs -----------------------------
(***************************************************************************)
(* The safety properties of Adder, proved for every set of trees, whatever *)
(* their depth, every set of hidden names and every size of the cache.     *)
(***************************************************************************)
EXTENDS Adder, SequenceTheorems, TLAPS

(* ------------------------ the inductive invariant -------------------- *)

\* The steps with a node in hand.
Working == {"node", "mkdir", "symlink", "file", "commit", "put"}

IsDir == tree[<<>>] = "dir"

Frame == [path : Visible, todo : SUBSET Visible]

StackOK ==
  /\ dirs \in Seq(Frame)
  /\ \A i \in 1..Len(dirs) :
       /\ tree[dirs[i].path] = "dir"
       /\ \A q \in dirs[i].todo : Front(q) = dirs[i].path
  /\ \A i \in 2..Len(dirs) : Front(dirs[i].path) = dirs[i - 1].path

\* The stack belongs to where the walk is.
StepOK ==
  /\ pc \in Working \cup {"entries", "root", "swap", "done", "failed"}
  /\ pc \in Working => dirs = <<>> \/ Front(path) = Top.path
  /\ pc = "entries" => dirs # <<>>
  /\ pc \in {"root", "swap", "done"} => dirs = <<>>

Bad == {"special", "unreadable"}

\* What each step knows of the node in hand.
KindOK ==
  /\ pc = "mkdir" => tree[path] = "dir"
  /\ pc = "symlink" => tree[path] = "symlink"
  /\ pc = "file" => tree[path] \notin {"dir", "special"}
  /\ pc = "commit" => tree[path] \notin {"dir"} \cup Bad /\ LeafBlocks(tree[path]) \subseteq buffer
  /\ pc = "put" => tree[path] \notin {"dir"} \cup Bad /\ LeafBlocks(tree[path]) \subseteq stored

\* A file or symlink that was put is whole in the blockstore.
Kept(p) == tree[p] # "dir" => tree[p] \notin Bad /\ LeafBlocks(tree[p]) \subseteq stored

\* The memory holds a part of the tree.
MirrorOK ==
  IsDir =>
    /\ <<>> \in DOMAIN mfs
    /\ DOMAIN mfs \subseteq Visible
    /\ mfs = [p \in DOMAIN mfs |-> tree[p]]
    /\ \A p \in DOMAIN mfs : Kept(p)

\* What is not there yet is at or below the node in hand, or an entry to do.
Ahead(p) ==
  \/ pc \in Working /\ IsPrefix(path, p)
  \/ \E i \in 1..Len(dirs) : \E q \in dirs[i].todo : IsPrefix(q, p)
Covered == IsDir /\ pc # "failed" => \A p \in Visible : p \in DOMAIN mfs \/ Ahead(p)

\* A single file: the memory is empty until it is put under its own hash.
LeafOK ==
  ~IsDir =>
    /\ dirs = <<>> /\ path = <<>> /\ pc \notin {"mkdir", "entries"}
    /\ IF pc \in {"root", "swap", "done"}
       THEN mfs = With(Empty, <<"cid">>, tree[<<>>]) /\ Kept(<<>>)
       ELSE mfs = Empty

FlushOK ==
  /\ DOMAIN flushed \subseteq DOMAIN mfs
  /\ pc \in {"swap", "done"} => flushed = mfs /\ DirBlocks(mfs) \subseteq stored
  /\ pc = "done" =>
       result = IF IsDir THEN Block(flushed, <<>>) ELSE Block(flushed, <<"cid">>)

AddInv ==
  /\ tree \in Tree /\ path \in Visible /\ liveNodes \in 0..LiveCacheSize
  /\ StackOK /\ StepOK /\ KindOK /\ MirrorOK /\ Covered /\ LeafOK /\ FlushOK

(* ------------------------------- paths ------------------------------- *)

LEMMA PartOf ==
  ASSUME NEW S, NEW p \in Seq(S), NEW k \in 0..Len(p)
  PROVE  /\ SubSeq(p, 1, k) \in Seq(S)
         /\ Len(SubSeq(p, 1, k)) = k
         /\ \A i \in 1..k : SubSeq(p, 1, k)[i] = p[i]
<1>1. Len(p) \in Nat
  BY LenProperties
<1>2. k \in Int /\ \A i \in 1..k : p[i] \in S
  BY <1>1, ElementOfSeq
<1>3. /\ SubSeq(p, 1, k) \in Seq(S)
      /\ Len(SubSeq(p, 1, k)) = IF 1 <= k THEN k - 1 + 1 ELSE 0
      /\ \A i \in 1..(k - 1 + 1) : SubSeq(p, 1, k)[i] = p[1 + i - 1]
  BY <1>2, SubSeqProperties
<1> QED  BY <1>1, <1>2, <1>3

LEMMA FrontOf ==
  ASSUME NEW S, NEW p \in Seq(S), p # <<>>
  PROVE  /\ Len(p) \in Nat \ {0}
         /\ Front(p) \in Seq(S)
         /\ Len(Front(p)) = Len(p) - 1
         /\ \A i \in 1..(Len(p) - 1) : Front(p)[i] = p[i]
<1>1. Len(p) \in Nat \ {0}
  BY EmptySeq
<1>2. Len(p) - 1 \in 0..Len(p)
  BY <1>1
<1> QED  BY <1>1, <1>2, PartOf DEF Front

LEMMA PrefixOf ==
  ASSUME NEW S, NEW p \in Seq(S), NEW q \in Seq(S)
  PROVE  IsPrefix(p, q) <=> Len(p) <= Len(q) /\ \A i \in 1..Len(p) : p[i] = q[i]
<1>1. Len(p) \in Nat /\ Len(q) \in Nat
  BY LenProperties
<1>2. SubSeq(p, 1, Len(p)) = p
  BY SubSeqFull
<1>3. SUFFICES ASSUME Len(p) <= Len(q)
               PROVE  p = SubSeq(q, 1, Len(p)) <=> \A i \in 1..Len(p) : p[i] = q[i]
  BY <1>1, <1>2 DEF IsPrefix
<1>4. /\ SubSeq(q, 1, Len(p)) \in Seq(S)
      /\ Len(SubSeq(q, 1, Len(p))) = Len(p)
      /\ \A i \in 1..Len(p) : SubSeq(q, 1, Len(p))[i] = q[i]
  BY <1>1, <1>3, PartOf
<1>5. ASSUME \A i \in 1..Len(p) : p[i] = q[i]
      PROVE  p = SubSeq(q, 1, Len(p))
  BY <1>4, <1>5, SeqEqual
<1> QED  BY <1>4, <1>5

LEMMA PathSeq ==
  ASSUME tree \in Tree
  PROVE  <<>> \in Visible /\ Visible \subseteq DOMAIN tree /\ Visible \subseteq Seq(STRING)
<1>1. <<>> \in DOMAIN tree /\ DOMAIN tree \subseteq Seq(STRING)
  BY AdderAssumption
<1>2. DOMAIN (<<>>) = {}
  OBVIOUS
<1> QED  BY <1>1, <1>2 DEF Visible

\* What is above something visible is a directory, and visible.
LEMMA Above ==
  ASSUME tree \in Tree, NEW p \in Visible, NEW k \in 0..(Len(p) - 1)
  PROVE  SubSeq(p, 1, k) \in Visible /\ tree[SubSeq(p, 1, k)] = "dir"
<1>1. p \in DOMAIN tree /\ p \in Seq(STRING)
  BY PathSeq
<1>2. Len(p) \in Nat /\ k \in 0..Len(p) /\ DOMAIN p = 1..Len(p)
  BY <1>1, LenProperties
<1>3. /\ SubSeq(p, 1, k) \in Seq(STRING)
      /\ Len(SubSeq(p, 1, k)) = k
      /\ \A i \in 1..k : SubSeq(p, 1, k)[i] = p[i]
  BY <1>1, <1>2, PartOf
<1>4. SubSeq(p, 1, k) \in DOMAIN tree /\ tree[SubSeq(p, 1, k)] = "dir"
  BY <1>1, AdderAssumption
<1>5. DOMAIN SubSeq(p, 1, k) = 1..k
  BY <1>3, LenProperties
<1>6. \A i \in 1..k : i \in 1..Len(p) /\ p[i] \notin Hidden
  BY <1>2 DEF Visible
<1>7. \A i \in DOMAIN SubSeq(p, 1, k) : SubSeq(p, 1, k)[i] \notin Hidden
  BY <1>3, <1>5, <1>6
<1> QED  BY <1>4, <1>7 DEF Visible

\* Nothing is below what is no directory.
LEMMA LeafAlone ==
  ASSUME tree \in Tree, NEW p \in Visible, NEW q \in DOMAIN tree, IsPrefix(p, q), tree[p] # "dir"
  PROVE  p = q
<1>1. p \in Seq(STRING) /\ q \in Seq(STRING)
  BY PathSeq, AdderAssumption
<1>2. Len(p) \in Nat /\ Len(q) \in Nat
  BY <1>1, LenProperties
<1>3. Len(p) <= Len(q) /\ \A i \in 1..Len(p) : p[i] = q[i]
  BY <1>1, PrefixOf
<1>4. CASE Len(p) = Len(q)
  BY <1>1, <1>3, <1>4, SeqEqual
<1>5. CASE Len(p) < Len(q)
  <2>1. Len(p) \in 0..(Len(q) - 1)
    BY <1>2, <1>5
  <2>2. tree[SubSeq(q, 1, Len(p))] = "dir"
    BY <2>1, AdderAssumption
  <2>3. SubSeq(p, 1, Len(p)) = p
    BY <1>1, SubSeqFull
  <2>4. SubSeq(q, 1, Len(p)) = p
    BY <2>3 DEF IsPrefix
  <2> QED  BY <2>2, <2>4
<1> QED  BY <1>2, <1>3, <1>4, <1>5

LEMMA EntriesVisible ==
  ASSUME tree \in Tree, NEW p \in Visible
  PROVE  Entries(p) \subseteq Visible /\ \A q \in Entries(p) : q # <<>> /\ Front(q) = p
<1> SUFFICES ASSUME NEW q \in Entries(p)
             PROVE  q \in Visible
  BY DEF Entries
<1>1. q \in DOMAIN tree /\ q # <<>> /\ Front(q) = p /\ q[Len(q)] \notin Hidden
  BY DEF Entries, Last
<1>2. q \in Seq(STRING)
  BY <1>1, AdderAssumption
<1>3. /\ Len(q) \in Nat \ {0}
      /\ Len(p) = Len(q) - 1
      /\ \A i \in 1..(Len(q) - 1) : p[i] = q[i]
  BY <1>1, <1>2, FrontOf
<1>4. DOMAIN q = 1..Len(q)
  BY <1>2, LenProperties
<1>5. DOMAIN p = 1..Len(p)
  BY PathSeq, LenProperties
<1>6. \A i \in 1..(Len(q) - 1) : q[i] \notin Hidden
  BY <1>3, <1>5 DEF Visible
<1> QED  BY <1>1, <1>3, <1>4, <1>6 DEF Visible

\* Something visible strictly below a directory is at or below an entry of it.
LEMMA StepDown ==
  ASSUME tree \in Tree, NEW p \in Visible, NEW q \in Visible, IsPrefix(p, q), p # q
  PROVE  \E c \in Entries(p) : IsPrefix(c, q)
<1>1. p \in Seq(STRING) /\ q \in Seq(STRING)
  BY PathSeq
<1>2. Len(p) \in Nat /\ Len(q) \in Nat /\ DOMAIN q = 1..Len(q)
  BY <1>1, LenProperties
<1>3. Len(p) <= Len(q) /\ \A i \in 1..Len(p) : p[i] = q[i]
  BY <1>1, PrefixOf
<1>4. Len(p) < Len(q)
  BY <1>1, <1>2, <1>3, SeqEqual
<1> DEFINE n == Len(p) + 1
           c == SubSeq(q, 1, n)
<1>5. n \in 0..Len(q) /\ n \in 1..Len(q)
  BY <1>2, <1>4
<1> HIDE DEF n
<1>6. c \in Seq(STRING) /\ Len(c) = n /\ \A i \in 1..n : c[i] = q[i]
  BY <1>1, <1>5, PartOf
<1>7. c \in DOMAIN tree
  <2>1. CASE n = Len(q)
    BY <1>1, <2>1, SubSeqFull, PathSeq
  <2>2. CASE n # Len(q)
    <3>1. n \in 0..(Len(q) - 1)
      <4>1. Len(q) \in Nat
        BY <1>2
      <4> QED  BY <1>5, <2>2, <4>1
    <3> QED  BY <3>1, Above, PathSeq
  <2> QED  BY <2>1, <2>2
<1> HIDE DEF c
<1>8. c # <<>>
  BY <1>5, <1>6, EmptySeq
<1>9. Front(c) = p
  <2>1. Front(c) \in Seq(STRING) /\ Len(Front(c)) = n - 1
        /\ \A i \in 1..(n - 1) : Front(c)[i] = c[i]
    BY <1>6, <1>8, FrontOf
  <2>2. n - 1 = Len(p)
    BY <1>2 DEF n
  <2>3. \A i \in 1..Len(p) : i \in 1..n
    BY <1>2 DEF n
  <2>4. \A i \in 1..Len(p) : Front(c)[i] = p[i]
    BY <1>3, <1>6, <2>1, <2>2, <2>3
  <2> QED  BY <1>1, <2>1, <2>2, <2>4, SeqEqual
<1>10. Last(c) \notin Hidden
  <2>1. c[n] = q[n]
    BY <1>5, <1>6
  <2> QED  BY <1>2, <1>5, <1>6, <2>1 DEF Last, Visible
<1>11. IsPrefix(c, q)
  BY <1>1, <1>5, <1>6, PrefixOf
<1> QED  BY <1>7, <1>8, <1>9, <1>10, <1>11 DEF Entries

LEMMA SelfPrefix ==
  ASSUME NEW p
  PROVE  Len(p) \in Nat => IsPrefix(p, p)
  BY DEF IsPrefix

(* ---------------------- what a step leaves alone --------------------- *)

LEMMA SameTree ==
  ASSUME tree' = tree
  PROVE  Visible' = Visible /\ Frame' = Frame /\ IsDir' = IsDir
  BY DEF Visible, Frame, IsDir

LEMMA StackFrame ==
  ASSUME StackOK, tree' = tree, dirs' = dirs
  PROVE  StackOK'
  BY SameTree DEF StackOK

LEMMA KeptFrame ==
  ASSUME tree' = tree, stored \subseteq stored', NEW p, Kept(p)
  PROVE  Kept(p)'
  BY DEF Kept

LEMMA MirrorFrame ==
  ASSUME MirrorOK, tree' = tree, mfs' = mfs, stored \subseteq stored'
  PROVE  MirrorOK'
  BY SameTree, KeptFrame DEF MirrorOK

LEMMA CoveredFrame ==
  ASSUME Covered, tree' = tree, mfs' = mfs, dirs' = dirs, path' = path,
         pc \in Working => pc' \in Working \cup {"failed"}, pc # "failed"
  PROVE  Covered'
  BY SameTree DEF Covered, Ahead, Working

LEMMA LeafFrame ==
  ASSUME LeafOK, tree' = tree, mfs' = mfs, dirs' = dirs, path' = path,
         stored \subseteq stored', ~IsDir => pc' \notin {"mkdir", "entries"},
         pc \in {"root", "swap", "done"} <=> pc' \in {"root", "swap", "done"}
  PROVE  LeafOK'
  BY SameTree, KeptFrame DEF LeafOK

\* A step in the middle of the walk, which returns nothing yet.
LEMMA FlushFrame ==
  ASSUME pc' \notin {"swap", "done"}, DOMAIN flushed' \subseteq DOMAIN mfs'
  PROVE  FlushOK'
  BY DEF FlushOK

\* Whoever is in hand at the top is the whole tree.
LEMMA DirInHand ==
  ASSUME AddInv
  PROVE  /\ tree[path] = "dir" => IsDir
         /\ path # <<>> => IsDir
         /\ ~IsDir => path = <<>> /\ Visible = {<<>>}
<1>1. tree \in Tree /\ path \in Visible
  BY DEF AddInv
<1>2. ASSUME NEW p \in Visible, p # <<>>
      PROVE  IsDir
  <2>1. p \in Seq(STRING)
    BY <1>1, PathSeq
  <2>2. 0 \in 0..(Len(p) - 1)
    BY <1>2, <2>1, EmptySeq
  <2>3. SubSeq(p, 1, 0) = <<>>
    BY SubSeqEmpty
  <2> QED  BY <1>1, <2>2, <2>3, Above DEF IsDir
<1> QED  BY <1>1, <1>2, PathSeq DEF IsDir

(* ------------------------------ the steps ---------------------------- *)

LEMMA InitAddInv == Init => AddInv
<1> SUFFICES ASSUME Init PROVE AddInv
  OBVIOUS
<1>1. tree \in Tree /\ path \in Visible /\ liveNodes \in 0..LiveCacheSize
  BY PathSeq, AdderAssumption DEF Init
<1>2. StackOK
  BY EmptySeq DEF Init, StackOK
<1>3. StepOK /\ KindOK
  BY DEF Init, StepOK, KindOK, Working
<1>4. MirrorOK
  BY PathSeq DEF Init, MirrorOK, Empty, IsDir, Kept
<1>5. Covered
  <2> SUFFICES ASSUME NEW p \in Visible
               PROVE  Ahead(p)
    BY DEF Covered
  <2>1. p \in Seq(STRING) /\ Len(p) \in Nat
    BY <1>1, PathSeq, LenProperties
  <2>2. IsPrefix(<<>>, p)
    <3>1. <<>> \in Seq(STRING) /\ Len(<<>>) = 0 /\ 1..0 = {}
      BY EmptySeq
    <3>2. Len(<<>>) <= Len(p) /\ \A i \in 1..Len(<<>>) : <<>>[i] = p[i]
      BY <2>1, <3>1
    <3> QED  BY <2>1, <3>1, <3>2, PrefixOf
  <2> QED  BY <2>2 DEF Ahead, Init, Working
<1>6. LeafOK /\ FlushOK
  BY DEF Init, LeafOK, FlushOK
<1> QED  BY <1>1, <1>2, <1>3, <1>4, <1>5, <1>6 DEF AddInv

LEMMA addFileNodeStep == AddInv /\ addFileNode => AddInv'
<1> SUFFICES ASSUME AddInv, addFileNode PROVE AddInv'
  OBVIOUS
<1> USE DEF AddInv
<1>1. /\ mfs' = mfs /\ stored \subseteq stored' /\ DOMAIN flushed' \subseteq DOMAIN mfs'
      /\ liveNodes' \in 0..LiveCacheSize
  BY AdderAssumption DEF addFileNode, FlushMemFree, FlushOK
<1>2. /\ tree' = tree /\ path' = path /\ dirs' = dirs /\ pc = "node"
      /\ pc' \in Working \cup {"failed"}
  BY DEF addFileNode, Working
<1>3. KindOK' /\ (~IsDir => pc' \notin {"mkdir", "entries"})
  <2>1. pc' \notin {"commit", "put", "entries"}
        /\ (pc' = "mkdir" => tree[path] = "dir") /\ (pc' = "symlink" => tree[path] = "symlink")
        /\ (pc' = "file" => tree[path] \notin {"dir", "special"})
    BY DEF addFileNode
  <2> QED  BY <1>2, <2>1, DirInHand DEF KindOK
<1>4. StepOK'
  BY <1>2 DEF StepOK, Working, Top
<1>5. StackOK' /\ MirrorOK' /\ Covered'
  BY <1>1, <1>2, StackFrame, MirrorFrame, CoveredFrame DEF Working
<1>6. LeafOK' /\ FlushOK'
  BY <1>1, <1>2, <1>3, LeafFrame, FlushFrame DEF Working
<1> QED  BY <1>1, <1>2, <1>3, <1>4, <1>5, <1>6, SameTree

LEMMA addSymlinkStep == AddInv /\ addSymlink => AddInv'
<1> SUFFICES ASSUME AddInv, addSymlink PROVE AddInv'
  OBVIOUS
<1> USE DEF AddInv
<1>1. /\ tree' = tree /\ path' = path /\ dirs' = dirs /\ mfs' = mfs /\ flushed' = flushed
      /\ liveNodes' = liveNodes /\ pc = "symlink" /\ pc' = "put"
      /\ stored' = stored \cup LeafBlocks("symlink")
  BY DEF addSymlink
<1>2. KindOK'
  BY <1>1 DEF KindOK, Bad
<1>3. StepOK'
  BY <1>1 DEF StepOK, Working, Top
<1>4. StackOK' /\ MirrorOK' /\ Covered'
  BY <1>1, StackFrame, MirrorFrame, CoveredFrame DEF Working
<1>5. LeafOK' /\ FlushOK'
  BY <1>1, LeafFrame, FlushFrame DEF FlushOK
<1> QED  BY <1>1, <1>2, <1>3, <1>4, <1>5, SameTree

LEMMA addFileStep == AddInv /\ addFile => AddInv'
<1> SUFFICES ASSUME AddInv, addFile PROVE AddInv'
  OBVIOUS
<1> USE DEF AddInv
<1>1. /\ tree' = tree /\ path' = path /\ dirs' = dirs /\ mfs' = mfs /\ flushed' = flushed
      /\ stored' = stored /\ liveNodes' = liveNodes /\ pc = "file"
      /\ pc' \in {"commit", "failed"}
  BY DEF addFile, Fail
<1>2. KindOK'
  <2>1. pc' = "commit" =>
          tree[path] # "unreadable" /\ LeafBlocks(tree[path]) \subseteq buffer'
    BY DEF addFile, Fail
  <2> QED  BY <1>1, <2>1 DEF KindOK, Bad
<1>3. StepOK'
  BY <1>1 DEF StepOK, Working, Top
<1>4. StackOK' /\ MirrorOK' /\ Covered'
  BY <1>1, StackFrame, MirrorFrame, CoveredFrame DEF Working
<1>5. LeafOK' /\ FlushOK'
  BY <1>1, LeafFrame, FlushFrame DEF FlushOK
<1> QED  BY <1>1, <1>2, <1>3, <1>4, <1>5, SameTree

LEMMA CommitStep == AddInv /\ Commit => AddInv'
<1> SUFFICES ASSUME AddInv, Commit PROVE AddInv'
  OBVIOUS
<1> USE DEF AddInv
<1>1. /\ tree' = tree /\ path' = path /\ dirs' = dirs /\ mfs' = mfs /\ flushed' = flushed
      /\ stored' = stored \cup buffer /\ liveNodes' = liveNodes
      /\ pc = "commit" /\ pc' = "put"
  BY DEF Commit
<1>2. KindOK'
  BY <1>1 DEF KindOK
<1>3. StepOK'
  BY <1>1 DEF StepOK, Working, Top
<1>4. StackOK' /\ MirrorOK' /\ Covered'
  BY <1>1, StackFrame, MirrorFrame, CoveredFrame DEF Working
<1>5. LeafOK' /\ FlushOK'
  BY <1>1, LeafFrame, FlushFrame DEF FlushOK
<1> QED  BY <1>1, <1>2, <1>3, <1>4, <1>5, SameTree

LEMMA addNodeStep == AddInv /\ addNode => AddInv'
<1> SUFFICES ASSUME AddInv, addNode PROVE AddInv'
  OBVIOUS
<1> USE DEF AddInv
<1>1. /\ tree' = tree /\ path' = path /\ dirs' = dirs /\ flushed' = flushed
      /\ liveNodes' = liveNodes /\ pc = "put" /\ stored \subseteq stored'
      /\ pc' = IF dirs = <<>> THEN "root" ELSE "entries"
      /\ mfs' = With(mfs, MfsPath, tree[path])
  BY DEF addNode, After
<1>2. tree[path] # "dir" /\ Kept(path)
  BY <1>1 DEF KindOK, Kept
<1>3. Kept(path)'
  BY <1>1, <1>2, KeptFrame
<1>4. KindOK' /\ StepOK' /\ StackOK'
  BY <1>1, StackFrame DEF KindOK, StepOK, Working
<1>5. DOMAIN mfs' = DOMAIN mfs \cup {MfsPath}
  BY <1>1 DEF With
<1>6. FlushOK'
  BY <1>1, <1>5, FlushFrame DEF FlushOK
<1>7. ASSUME IsDir
      PROVE  /\ mfs' = With(mfs, path, tree[path])
             /\ DOMAIN mfs' = DOMAIN mfs \cup {path}
  BY <1>1, <1>2, <1>5, <1>7 DEF IsDir, MfsPath
<1>8. MirrorOK'
  <2> SUFFICES ASSUME IsDir
               PROVE  /\ <<>> \in DOMAIN mfs' /\ DOMAIN mfs' \subseteq Visible
                      /\ mfs' = [p \in DOMAIN mfs' |-> tree[p]]
                      /\ \A p \in DOMAIN mfs' : Kept(p)'
    BY <1>1, SameTree DEF MirrorOK
  <2>1. \A p \in DOMAIN mfs : mfs[p] = tree[p] /\ Kept(p)
    BY DEF MirrorOK
  <2>2. mfs' = [p \in DOMAIN mfs' |-> tree[p]]
    BY <1>7, <2>1 DEF With
  <2>3. \A p \in DOMAIN mfs : Kept(p)'
    BY <1>1, <2>1, KeptFrame
  <2>4. DOMAIN mfs' = DOMAIN mfs \cup {path} /\ path \in Visible
    BY <1>7
  <2>5. <<>> \in DOMAIN mfs /\ DOMAIN mfs \subseteq Visible
    BY DEF MirrorOK
  <2>6. \A p \in DOMAIN mfs' : Kept(p)'
    BY <1>1, <1>3, <2>3, <2>4 DEF Kept
  <2> QED  BY <2>2, <2>4, <2>5, <2>6
<1>9. Covered'
  <2> SUFFICES ASSUME IsDir, NEW p \in Visible, p \notin DOMAIN mfs'
               PROVE  Ahead(p)'
    BY <1>1, SameTree DEF Covered
  <2>1. Ahead(p)
    BY <1>1, <1>7 DEF Covered
  <2>2. ~IsPrefix(path, p)
    BY <1>2, <1>7, LeafAlone, PathSeq
  <2> QED  BY <1>1, <2>1, <2>2 DEF Ahead
<1>10. LeafOK'
  <2> SUFFICES ASSUME ~IsDir
               PROVE  /\ dirs = <<>> /\ path = <<>>
                      /\ mfs' = With(Empty, <<"cid">>, tree[<<>>]) /\ Kept(<<>>)'
    BY <1>1, SameTree DEF LeafOK
  <2>1. dirs = <<>> /\ path = <<>> /\ mfs = Empty
    BY <1>1 DEF LeafOK
  <2> QED  BY <1>1, <1>3, <2>1 DEF MfsPath
<1> QED  BY <1>1, <1>4, <1>6, <1>8, <1>9, <1>10, SameTree

LEMMA addDirStep == AddInv /\ addDir => AddInv'
<1> SUFFICES ASSUME AddInv, addDir PROVE AddInv'
  OBVIOUS
<1> USE DEF AddInv
<1> DEFINE fr == [path |-> path, todo |-> Entries(path)]
           n == Len(dirs)
<1>1. /\ tree' = tree /\ path' = path /\ flushed' = flushed /\ stored' = stored
      /\ liveNodes' = liveNodes /\ pc = "mkdir" /\ pc' = "entries"
      /\ mfs' = IF path = <<>> THEN mfs ELSE With(mfs, path, "dir")
      /\ dirs' = Append(dirs, fr)
  BY DEF addDir
<1>2. tree[path] = "dir" /\ IsDir
  BY <1>1, DirInHand DEF KindOK
<1>3. fr \in Frame /\ \A q \in Entries(path) : Front(q) = path
  BY EntriesVisible DEF Frame
<1>4. /\ n \in Nat /\ dirs' \in Seq(Frame) /\ dirs' # <<>> /\ Len(dirs') = n + 1
      /\ \A i \in 1..n : dirs'[i] = dirs[i]
      /\ dirs'[n + 1] = fr
  BY <1>1, <1>3, AppendProperties, LenProperties DEF StackOK
<1>5. fr.path = path /\ fr.todo = Entries(path)
  OBVIOUS
<1> HIDE DEF fr
<1>6. StackOK'
  <2>1. ASSUME NEW i \in 1..(n + 1)
        PROVE  tree[dirs'[i].path] = "dir" /\ \A q \in dirs'[i].todo : Front(q) = dirs'[i].path
    <3>1. CASE i = n + 1
      BY <1>2, <1>3, <1>4, <1>5, <3>1
    <3>2. CASE i # n + 1
      <4>1. i \in 1..n
        BY <1>4, <3>2
      <4> QED  BY <1>4, <4>1 DEF StackOK
    <3> QED  BY <3>1, <3>2
  <2>2. ASSUME NEW i \in 2..(n + 1)
        PROVE  Front(dirs'[i].path) = dirs'[i - 1].path
    <3>1. CASE i = n + 1
      <4>1. n \in 1..n /\ dirs # <<>> /\ i - 1 = n
        BY <1>4, <3>1, EmptySeq
      <4>2. Front(path) = dirs[n].path
        BY <1>1, <4>1 DEF StepOK, Working, Top
      <4> QED  BY <1>4, <1>5, <3>1, <4>1, <4>2
    <3>2. CASE i # n + 1
      <4>1. i \in 2..n /\ i \in 1..n /\ i - 1 \in 1..n
        BY <1>4, <3>2
      <4> QED  BY <1>4, <4>1 DEF StackOK
    <3> QED  BY <3>1, <3>2
  <2> QED  BY <1>1, <1>4, <2>1, <2>2, SameTree DEF StackOK
<1>7. StepOK' /\ KindOK'
  BY <1>1, <1>4 DEF StepOK, KindOK, Working
<1>8. DOMAIN mfs' = DOMAIN mfs \cup {path}
  BY <1>1, <1>2 DEF With, MirrorOK
<1>9. FlushOK' /\ LeafOK'
  BY <1>1, <1>2, <1>8, FlushFrame, SameTree DEF FlushOK, LeafOK
<1>10. MirrorOK'
  <2>1. \A p \in DOMAIN mfs : mfs[p] = tree[p] /\ Kept(p)
    BY <1>2 DEF MirrorOK
  <2>2. mfs' = [p \in DOMAIN mfs' |-> tree[p]]
    BY <1>1, <1>2, <1>8, <2>1 DEF With, MirrorOK
  <2>3. \A p \in DOMAIN mfs' : Kept(p)'
    BY <1>1, <1>2, <1>8, <2>1 DEF Kept
  <2> QED  BY <1>1, <1>2, <1>8, <2>2, <2>3, SameTree DEF MirrorOK
<1>11. Covered'
  <2> SUFFICES ASSUME NEW p \in Visible, p \notin DOMAIN mfs'
               PROVE  \E i \in 1..(n + 1) : \E q \in dirs'[i].todo : IsPrefix(q, p)
    BY <1>1, <1>4, SameTree DEF Covered, Ahead
  <2>1. Ahead(p)
    BY <1>1, <1>2, <1>8 DEF Covered
  <2>2. CASE IsPrefix(path, p)
    <3>1. \E c \in Entries(path) : IsPrefix(c, p)
      BY <1>8, <2>2, StepDown
    <3> QED  BY <1>4, <1>5, <3>1
  <2>3. CASE ~IsPrefix(path, p)
    <3>1. PICK i \in 1..n : \E q \in dirs[i].todo : IsPrefix(q, p)
      BY <2>1, <2>3 DEF Ahead
    <3>2. i \in 1..(n + 1)
      BY <1>4
    <3> QED  BY <1>4, <3>1, <3>2
  <2> QED  BY <2>2, <2>3
<1> QED  BY <1>1, <1>6, <1>7, <1>9, <1>10, <1>11, SameTree

LEMMA NextEntryStep == AddInv /\ NextEntry => AddInv'
<1> SUFFICES ASSUME AddInv, NextEntry PROVE AddInv'
  OBVIOUS
<1> USE DEF AddInv
<1> DEFINE n == Len(dirs)
<1>1. /\ tree' = tree /\ mfs' = mfs /\ flushed' = flushed /\ stored' = stored
      /\ liveNodes' = liveNodes /\ pc = "entries"
  BY DEF NextEntry, Fail
<1>2. IsDir /\ dirs # <<>> /\ dirs \in Seq(Frame)
  BY <1>1 DEF LeafOK, StepOK, StackOK
<1>3. n \in 1..n /\ n \in Nat /\ dirs[n] \in Frame /\ Top = dirs[n]
  BY <1>2, EmptySeq, ElementOfSeq DEF Top
<1>4. MirrorOK'
  BY <1>1, MirrorFrame
<1>5. CASE pc' = "failed" /\ dirs' = dirs /\ path' = path
  <2>1. StackOK' /\ Covered' /\ LeafOK' /\ FlushOK'
    BY <1>1, <1>2, <1>5, StackFrame, CoveredFrame, LeafFrame, FlushFrame DEF FlushOK, Working
  <2>2. StepOK' /\ KindOK'
    BY <1>1, <1>5 DEF StepOK, KindOK, Working
  <2> QED  BY <1>1, <1>4, <1>5, <2>1, <2>2, SameTree
<1>6. ASSUME NEW q \in Top.todo, path' = q, pc' = "node",
             dirs' = [dirs EXCEPT ![Len(dirs)].todo = @ \ {q}]
      PROVE  AddInv'
  <2> DEFINE fr == [dirs[n] EXCEPT !.todo = @ \ {q}]
  <2>1. q \in Visible /\ fr \in Frame /\ fr.path = dirs[n].path /\ fr.todo = dirs[n].todo \ {q}
    BY <1>3 DEF Frame
  <2>2. dirs' = [dirs EXCEPT ![n] = fr]
    BY <1>6
  <2> HIDE DEF fr
  <2>3. /\ dirs' \in Seq(Frame) /\ Len(dirs') = n
        /\ \A i \in 1..n : dirs'[i] = IF i = n THEN fr ELSE dirs[i]
    BY <1>2, <1>3, <2>1, <2>2, ExceptSeq
  <2>4. \A i \in 1..n : dirs'[i].path = dirs[i].path /\ dirs'[i].todo \subseteq dirs[i].todo
    BY <2>1, <2>3
  <2>5. StackOK'
    <3>1. \A i \in 2..n : i \in 1..n /\ i - 1 \in 1..n
      BY <1>3
    <3> QED  BY <1>1, <2>3, <2>4, <3>1, SameTree DEF StackOK
  <2>6. StepOK' /\ KindOK'
    <3>1. Front(q) = dirs[n].path
      BY <1>3 DEF StackOK
    <3>2. Top' = dirs'[n]
      BY <2>3 DEF Top
    <3> QED  BY <1>3, <1>6, <2>4, <3>1, <3>2 DEF StepOK, KindOK, Working
  <2>7. Covered'
    <3> SUFFICES ASSUME NEW p \in Visible, p \notin DOMAIN mfs
                 PROVE  \/ IsPrefix(q, p)
                        \/ \E i \in 1..n : \E r \in dirs'[i].todo : IsPrefix(r, p)
      BY <1>1, <1>6, <2>3, SameTree DEF Covered, Ahead, Working
    <3>1. PICK i \in 1..n : \E r \in dirs[i].todo : IsPrefix(r, p)
      BY <1>1, <1>2 DEF Covered, Ahead, Working
    <3>2. PICK r \in dirs[i].todo : IsPrefix(r, p)
      BY <3>1
    <3>3. r = q \/ r \in dirs'[i].todo
      BY <2>1, <2>3
    <3> QED  BY <3>2, <3>3
  <2>8. LeafOK' /\ FlushOK'
    BY <1>1, <1>2, <1>6, FlushFrame, SameTree DEF FlushOK, LeafOK
  <2> QED  BY <1>1, <1>4, <1>6, <2>1, <2>5, <2>6, <2>7, <2>8, SameTree
<1> QED  BY <1>5, <1>6 DEF NextEntry, Fail

LEMMA LeaveDirStep == AddInv /\ LeaveDir => AddInv'
<1> SUFFICES ASSUME AddInv, LeaveDir PROVE AddInv'
  OBVIOUS
<1> USE DEF AddInv
<1> DEFINE n == Len(dirs)
<1>1. /\ tree' = tree /\ mfs' = mfs /\ flushed' = flushed /\ stored' = stored /\ path' = path
      /\ liveNodes' = liveNodes /\ pc = "entries" /\ Top.todo = {}
      /\ dirs' = Front(dirs) /\ pc' = IF n = 1 THEN "root" ELSE "entries"
  BY DEF LeaveDir
<1>2. IsDir /\ dirs # <<>> /\ dirs \in Seq(Frame)
  BY <1>1 DEF LeafOK, StepOK, StackOK
<1>3. /\ n \in Nat \ {0} /\ dirs' \in Seq(Frame) /\ Len(dirs') = n - 1
      /\ \A i \in 1..(n - 1) : dirs'[i] = dirs[i]
  BY <1>1, <1>2, FrontOf
<1>4. dirs' = <<>> <=> n = 1
  BY <1>3, EmptySeq
<1>5. \A i \in 1..(n - 1) : i \in 1..n
  BY <1>3
<1>6. StackOK'
  <2>1. \A i \in 2..(n - 1) : i \in 2..n /\ i \in 1..(n - 1) /\ i - 1 \in 1..(n - 1)
    BY <1>3
  <2> QED  BY <1>1, <1>3, <1>5, <2>1, SameTree DEF StackOK
<1>7. StepOK' /\ KindOK'
  BY <1>1, <1>4 DEF StepOK, KindOK, Working
<1>8. MirrorOK'
  BY <1>1, MirrorFrame
<1>9. Covered'
  <2> SUFFICES ASSUME NEW p \in Visible, p \notin DOMAIN mfs
               PROVE  \E i \in 1..(n - 1) : \E r \in dirs'[i].todo : IsPrefix(r, p)
    BY <1>1, <1>3, SameTree DEF Covered, Ahead
  <2>1. PICK i \in 1..n : \E r \in dirs[i].todo : IsPrefix(r, p)
    BY <1>1, <1>2 DEF Covered, Ahead, Working
  <2>2. i # n
    BY <1>1, <2>1 DEF Top
  <2>3. i \in 1..(n - 1)
    BY <1>3, <2>2
  <2> QED  BY <1>3, <2>1, <2>3
<1>10. LeafOK' /\ FlushOK'
  BY <1>1, <1>2, FlushFrame, SameTree DEF FlushOK, LeafOK
<1> QED  BY <1>1, <1>6, <1>7, <1>8, <1>9, <1>10, SameTree

LEMMA FlushRootStep == AddInv /\ FlushRoot => AddInv'
<1> SUFFICES ASSUME AddInv, FlushRoot PROVE AddInv'
  OBVIOUS
<1> USE DEF AddInv
<1>1. /\ tree' = tree /\ mfs' = mfs /\ flushed' = mfs /\ path' = path /\ dirs' = dirs
      /\ liveNodes' = liveNodes /\ pc = "root" /\ pc' = "swap"
      /\ stored' = stored \cup DirBlocks(mfs)
  BY DEF FlushRoot
<1>2. StackOK' /\ MirrorOK' /\ Covered' /\ LeafOK'
  BY <1>1, StackFrame, MirrorFrame, CoveredFrame, LeafFrame DEF Working
<1>3. StepOK' /\ KindOK' /\ FlushOK'
  BY <1>1 DEF StepOK, KindOK, FlushOK, Working
<1> QED  BY <1>1, <1>2, <1>3, SameTree

LEMMA SwapRootStep == AddInv /\ SwapRoot => AddInv'
<1> SUFFICES ASSUME AddInv, SwapRoot PROVE AddInv'
  OBVIOUS
<1> USE DEF AddInv
<1>1. /\ tree' = tree /\ mfs' = mfs /\ flushed' = flushed /\ path' = path /\ dirs' = dirs
      /\ liveNodes' = liveNodes /\ pc = "swap" /\ pc' = "done" /\ stored' = stored
      /\ result' = IF IsDir THEN Block(flushed, <<>>) ELSE Block(flushed, <<"cid">>)
  BY DEF SwapRoot, IsDir
<1>2. StackOK' /\ MirrorOK' /\ Covered' /\ LeafOK'
  BY <1>1, StackFrame, MirrorFrame, CoveredFrame, LeafFrame DEF Working
<1>3. StepOK' /\ KindOK'
  BY <1>1 DEF StepOK, KindOK, Working
<1>4. FlushOK'
  <2>1. flushed = mfs /\ DirBlocks(mfs) \subseteq stored
    BY <1>1 DEF FlushOK
  <2> QED  BY <1>1, <2>1, SameTree DEF FlushOK
<1> QED  BY <1>1, <1>2, <1>3, <1>4, SameTree

LEMMA AddInvFrame == AddInv /\ UNCHANGED vars => AddInv'
<1> SUFFICES ASSUME AddInv, UNCHANGED vars PROVE AddInv'
  OBVIOUS
<1> USE DEF AddInv, vars
<1>1. StackOK' /\ MirrorOK'
  BY StackFrame, MirrorFrame
<1>2. Covered' /\ StepOK' /\ KindOK'
  BY SameTree DEF Covered, Ahead, StepOK, KindOK, Top
<1>3. LeafOK' /\ FlushOK'
  BY SameTree, KeptFrame DEF LeafOK, FlushOK
<1> QED  BY <1>1, <1>2, <1>3, SameTree

LEMMA AddInductive == AddInv /\ [Next]_vars => AddInv'
  BY addFileNodeStep, addNodeStep, addSymlinkStep, addFileStep, CommitStep, addDirStep,
     NextEntryStep, LeaveDirStep, FlushRootStep, SwapRootStep, AddInvFrame
  DEF Next, Step, Returned

LEMMA AddInvHolds == Spec => []AddInv
  BY InitAddInv, AddInductive, PTL DEF Spec

(* ----------------------------- the theorems -------------------------- *)

\* Types, and the stack is the way from the top to where the walk is.
THEOREM AdderTypeCorrect == Spec => []TypeOK
<1>1. AddInv => TypeOK
  <2> SUFFICES ASSUME AddInv PROVE TypeOK
    OBVIOUS
  <2> USE DEF AddInv
  <2>1. path \in DOMAIN tree /\ DOMAIN flushed \subseteq DOMAIN mfs /\ Visible \subseteq DOMAIN tree
    BY PathSeq DEF FlushOK
  <2>2. DOMAIN dirs = 1..Len(dirs) /\ \A i \in 1..Len(dirs) : dirs[i] \in Frame
    BY LenProperties, ElementOfSeq DEF StackOK
  <2>3. \A i \in DOMAIN dirs : dirs[i].path \in DOMAIN tree /\ dirs[i].todo \subseteq DOMAIN tree
    BY <2>1, <2>2 DEF Frame
  <2>4. \A i \in 2..Len(dirs) : Front(dirs[i].path) = dirs[i - 1].path
    BY DEF StackOK
  <2> QED  BY <2>1, <2>3, <2>4 DEF TypeOK, StepOK, Working
<1> QED  BY <1>1, AddInvHolds, PTL

LEMMA LeafBlock ==
  ASSUME NEW t, NEW p \in DOMAIN t, Below(t, p) = {}
  PROVE  Block(t, p) = Root(t[p])
  BY DEF Block, Root

\* In the directory, all of the tree that is visible is in memory at the end.
LEMMA WholeAtTheEnd ==
  ASSUME AddInv, pc = "done", IsDir
  PROVE  mfs = Expected /\ \A p \in Visible : Kept(p)
<1>1. dirs = <<>> /\ DOMAIN mfs \subseteq Visible
  BY DEF AddInv, StepOK, MirrorOK
<1>2. 1..Len(dirs) = {}
  BY <1>1, EmptySeq
<1>3. \A p \in Visible : p \in DOMAIN mfs
  BY <1>2 DEF AddInv, Covered, Ahead, Working
<1> QED  BY <1>1, <1>3 DEF AddInv, MirrorOK, Expected

LEMMA LoneFile ==
  ASSUME AddInv, pc = "done", ~IsDir
  PROVE  /\ Visible = {<<>>} /\ Kept(<<>>)
         /\ Block(Expected, <<>>) = Root(tree[<<>>])
         /\ Block(mfs, <<"cid">>) = Root(tree[<<>>])
<1>1. Visible = {<<>>} /\ Kept(<<>>) /\ mfs = With(Empty, <<"cid">>, tree[<<>>])
  BY DirInHand DEF AddInv, LeafOK
<1>2. DOMAIN Expected = {<<>>} /\ Expected[<<>>] = tree[<<>>]
  BY <1>1 DEF Expected
<1>3. Below(Expected, <<>>) = {}
  BY <1>2 DEF Below
<1>4. DOMAIN mfs = {<<>>, <<"cid">>} /\ mfs[<<"cid">>] = tree[<<>>]
  BY <1>1 DEF With, Empty
<1>5. Below(mfs, <<"cid">>) = {}
  <2>1. Len(<<>>) = 0 /\ Len(<<"cid">>) = 1
    OBVIOUS
  <2>2. ~IsPrefix(<<"cid">>, <<>>)
    BY <2>1 DEF IsPrefix
  <2> QED  BY <1>4, <2>2 DEF Below
<1> QED  BY <1>1, <1>2, <1>3, <1>4, <1>5, LeafBlock

\* The root that AddAll returns is that of the whole visible tree, however
\* deep the tree is and however often memory was freed on the way; there is
\* none of a tree with a broken entry.
THEOREM MirrorCorrect == Spec => []MirrorsTree
<1>1. AddInv => MirrorsTree
  <2> SUFFICES ASSUME AddInv, pc = "done"
               PROVE  ~Broken /\ result = Block(Expected, <<>>)
    BY DEF MirrorsTree
  <2>1. /\ flushed = mfs
        /\ result = IF IsDir THEN Block(flushed, <<>>) ELSE Block(flushed, <<"cid">>)
    BY DEF AddInv, FlushOK
  <2>2. CASE IsDir
    BY <2>1, <2>2, WholeAtTheEnd DEF Broken, Kept, Bad
  <2>3. CASE ~IsDir
    BY <2>1, <2>3, LoneFile DEF Broken, Kept, Bad, IsDir
  <2> QED  BY <2>2, <2>3
<1> QED  BY <1>1, AddInvHolds, PTL

\* Every block below a root that was returned is in the blockstore, those of
\* directories, files and symlinks alike.
THEOREM RootCorrect == Spec => []RootIsWhole
<1>1. AddInv => RootIsWhole
  <2> SUFFICES ASSUME AddInv, pc = "done", NEW p \in Visible
               PROVE  /\ Block(Expected, p) \in stored
                      /\ tree[p] # "dir" => LeafBlocks(tree[p]) \subseteq stored
    BY DEF RootIsWhole
  <2>1. DOMAIN Expected = Visible /\ Expected[p] = tree[p] /\ tree \in Tree
    BY DEF Expected, AddInv
  <2>2. Kept(p)
    BY WholeAtTheEnd, LoneFile
  <2>3. CASE tree[p] = "dir"
    <3>1. IsDir
      BY <2>3, LoneFile DEF IsDir
    <3>2. mfs = Expected /\ DirBlocks(mfs) \subseteq stored
      BY <3>1, WholeAtTheEnd DEF AddInv, FlushOK
    <3> QED  BY <2>1, <2>3, <3>2 DEF DirBlocks
  <2>4. CASE tree[p] # "dir"
    <3>1. Below(Expected, p) = {}
      BY <2>1, <2>4, LeafAlone, PathSeq DEF Below
    <3>2. Block(Expected, p) = Root(tree[p])
      BY <2>1, <3>1, LeafBlock
    <3>3. LeafBlocks(tree[p]) \subseteq stored /\ Root(tree[p]) \in LeafBlocks(tree[p])
      BY <2>2, <2>4 DEF Kept, LeafBlocks
    <3> QED  BY <3>2, <3>3
  <2> QED  BY <2>3, <2>4
<1> QED  BY <1>1, AddInvHolds, PTL
=============================================================================
