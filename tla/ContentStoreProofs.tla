------------------------ MODULE ContentStoreProofs ------------------------
(***************************************************************************)
(* Proofs about ContentStore, for every set of clients, tags and contents  *)
(* and every graph of blocks.                                              *)
(***************************************************************************)
EXTENDS ContentStore, TLAPS

\* The steps of Next, one by one.
LEMMA StoreCases ==
  ASSUME Next
  PROVE  \/ Halt
         \/ \E k \in Client, t \in Tag, c \in Content : Add(k, t, c)
         \/ \E k \in Client : AddBlock(k)
         \/ \E k \in Client : AddTag(k)
         \/ \E k \in Client, t \in Tag : Delete(k, t)
         \/ \E k \in Client : DeleteFileHas(k)
         \/ \E k \in Client : DeleteFileWalk(k)
         \/ \E k \in Client : DeleteBlock(k)
         \/ \E k \in Client : Untag(k)
         \/ \E k \in Client, t \in Tag : Get(k, t)
         \/ \E k \in Client : ReadBlock(k)
         \/ \E k \in Client : GiveUp(k)
  BY DEF Next

(* ------------------------------- types -------------------------------- *)

\* What a call carries, by its step.
LEMMA CallOf ==
  ASSUME op \in [Client -> Call], NEW k \in Client
  PROVE  /\ op[k].pc = "adding" => op[k] \in
              [pc: {"adding"}, t: Tag, c: Content, todo: SUBSET Block, clean: BOOLEAN]
         /\ op[k].pc \in {"deleting", "walking", "untagging"} => op[k] \in
              [pc: {"deleting", "walking", "untagging"}, t: Tag, c: Content]
         /\ op[k].pc = "removing" => op[k] \in
              [pc: {"removing"}, t: Tag, c: Content, todo: (SUBSET Block) \ {{}}]
         /\ op[k].pc = "again" => op[k] \in [pc: {"again"}, t: Tag]
         /\ op[k].pc = "reading" => op[k] \in
              [pc: {"reading"}, c: Content, todo: (SUBSET Block) \ {{}}]
<1>1. op[k] \in Call
  OBVIOUS
<1> QED BY <1>1 DEF Call, Idle

\* Every content has blocks, and so has what a walk collects.
LEMMA DagType ==
  ASSUME NEW c \in Content
  PROVE  /\ Dag[c] \in (SUBSET Block) \ {{}}
         /\ descendants(c) \in (SUBSET Block) \ {{}}
<1>1. Root[c] \in Block /\ Links[Root[c]] \in SUBSET Block
  BY StoreAssumption
<1>2. Dag[c] = {x \in Block : \A S \in SUBSET Block :
                  Root[c] \in S /\ (\A y \in S : Links[y] \subseteq S) => x \in S}
  BY <1>1 DEF Dag, Below
<1>3. Root[c] \in Dag[c]
  BY <1>1, <1>2
<1>4. Dag[c] \in SUBSET Block
  BY <1>2
<1> QED BY <1>1, <1>3, <1>4 DEF descendants

LEMMA BecomeType ==
  ASSUME op \in [Client -> Call], NEW k \in Client, NEW call \in Call, Become(k, call)
  PROVE  op' \in [Client -> Call]
  BY DEF Become

LEMMA StoreTypeInit == Init => TypeOK
  BY DEF Init, TypeOK, Call

\* Every step keeps the types.
LEMMA StoreTypeNext == TypeOK /\ [Next]_vars => TypeOK'
<1> SUFFICES ASSUME TypeOK, [Next]_vars PROVE TypeOK'
  OBVIOUS
<1>0. op \in [Client -> Call] /\ Idle \in Call
  BY DEF TypeOK, Call
<1>1. CASE UNCHANGED vars
  BY <1>1 DEF vars, TypeOK
<1>2. CASE Halt
  BY <1>0, <1>2 DEF Halt, TypeOK
<1>3. ASSUME NEW k \in Client, NEW t \in Tag, NEW c \in Content, Add(k, t, c) PROVE TypeOK'
  <2> DEFINE call == [pc |-> "adding", t |-> t, c |-> c, todo |-> Dag[c],
                      clean |-> \A d \in Deleting : ~Threatens(op[d].c, c)]
  <2>1. call \in Call
    BY DagType DEF Call
  <2>2. Become(k, call)
    BY <1>3 DEF Add
  <2> HIDE DEF call
  <2>3. op' \in [Client -> Call]
    BY <1>0, <2>1, <2>2, BecomeType
  <2> QED BY <1>3, <2>3 DEF Add, TypeOK
<1>4. ASSUME NEW k \in Client, AddBlock(k) PROVE TypeOK'
  <2>1. PICK b \in op[k].todo :
          blocks' = blocks \cup {b} /\ Become(k, [op[k] EXCEPT !.todo = @ \ {b}])
    BY <1>4 DEF AddBlock
  <2>2. op[k] \in [pc: {"adding"}, t: Tag, c: Content, todo: SUBSET Block, clean: BOOLEAN]
    BY <1>0, <1>4, CallOf DEF AddBlock
  <2>3. [op[k] EXCEPT !.todo = @ \ {b}] \in Call /\ b \in Block
    BY <2>2 DEF Call
  <2>4. op' \in [Client -> Call]
    BY <1>0, <2>1, <2>3, BecomeType
  <2> QED BY <1>4, <2>1, <2>3, <2>4 DEF AddBlock, TypeOK
<1>5. ASSUME NEW k \in Client, AddTag(k) PROVE TypeOK'
  <2>1. op[k].t \in Tag /\ op[k].c \in Content
    BY <1>0, <1>5, CallOf DEF AddTag
  <2>2. op' \in [Client -> Call]
    BY <1>0, <1>5, BecomeType DEF AddTag, Return
  <2> QED BY <1>5, <2>1, <2>2 DEF AddTag, TypeOK
<1>6. ASSUME NEW k \in Client, NEW t \in Tag, Delete(k, t) PROVE TypeOK'
  <2> DEFINE c == index[t]
  <2>1. c \in Content
    BY <1>6 DEF Delete, TypeOK
  <2>2. ASSUME NEW d \in Client, op[d].pc = "adding"
        PROVE  [op[d] EXCEPT !.clean = @ /\ ~Threatens(c, op[d].c)] \in Call
    <3>1. op[d] \in [pc: {"adding"}, t: Tag, c: Content, todo: SUBSET Block, clean: BOOLEAN]
      BY <1>0, <2>2, CallOf
    <3>2. (op[d].clean /\ ~Threatens(c, op[d].c)) \in BOOLEAN
      OBVIOUS
    <3> QED BY <3>1, <3>2 DEF Call
  <2>3. [pc |-> "deleting", t |-> t, c |-> c] \in Call
    BY <2>1 DEF Call
  <2>4. op' = [d \in Client |->
           CASE d = k -> [pc |-> "deleting", t |-> t, c |-> c]
             [] d # k /\ op[d].pc = "adding" ->
                  [op[d] EXCEPT !.clean = @ /\ ~Threatens(c, op[d].c)]
             [] OTHER -> op[d]]
    BY <1>6 DEF Delete
  <2>5. op' \in [Client -> Call]
    BY <1>0, <2>2, <2>3, <2>4
  <2>6. UNCHANGED <<blocks, index>> /\ whole' \subseteq whole
    BY <1>6 DEF Delete
  <2> QED BY <2>5, <2>6 DEF TypeOK
<1>7. ASSUME NEW k \in Client, DeleteFileHas(k) PROVE TypeOK'
  <2>1. op[k] \in [pc: {"deleting", "walking", "untagging"}, t: Tag, c: Content]
    BY <1>0, <1>7, CallOf DEF DeleteFileHas
  <2>2. [op[k] EXCEPT !.pc = "walking"] \in Call
    BY <2>1 DEF Call
  <2>3. op' \in [Client -> Call]
    BY <1>0, <1>7, <2>2, BecomeType DEF DeleteFileHas, Return
  <2> QED BY <1>7, <2>3 DEF DeleteFileHas, TypeOK
<1>8. ASSUME NEW k \in Client, DeleteFileWalk(k) PROVE TypeOK'
  <2> DEFINE call == [pc |-> "removing", t |-> op[k].t, c |-> op[k].c,
                      todo |-> descendants(op[k].c)]
  <2>1. op[k].t \in Tag /\ op[k].c \in Content
    BY <1>0, <1>8, CallOf DEF DeleteFileWalk
  <2>2. call \in Call /\ Root[op[k].c] \in Block
    BY <2>1, DagType, StoreAssumption DEF Call
  <2>3. Become(k, call)
    BY <1>8 DEF DeleteFileWalk
  <2>4. op' \in [Client -> Call]
    BY <1>0, <2>2, <2>3, BecomeType
  <2> QED BY <1>8, <2>2, <2>4 DEF DeleteFileWalk, TypeOK
<1>9. ASSUME NEW k \in Client, DeleteBlock(k) PROVE TypeOK'
  <2>1. PICK b \in op[k].todo :
          /\ blocks' = blocks \ {b}
          /\ Become(k, IF op[k].todo = {b} THEN [pc |-> "untagging", t |-> op[k].t, c |-> op[k].c]
                                           ELSE [op[k] EXCEPT !.todo = @ \ {b}])
    BY <1>9 DEF DeleteBlock
  <2>2. op[k] \in [pc: {"removing"}, t: Tag, c: Content, todo: (SUBSET Block) \ {{}}]
    BY <1>0, <1>9, CallOf DEF DeleteBlock
  <2>3. [pc |-> "untagging", t |-> op[k].t, c |-> op[k].c] \in Call
    BY <2>2 DEF Call
  <2>4. op[k].todo # {b} => [op[k] EXCEPT !.todo = @ \ {b}] \in Call
    <3>1. op[k].todo # {b} => op[k].todo \ {b} \in (SUBSET Block) \ {{}}
      BY <2>1, <2>2
    <3> QED BY <2>2, <3>1 DEF Call
  <2>5. op' \in [Client -> Call]
    BY <1>0, <2>1, <2>3, <2>4, BecomeType
  <2> QED BY <1>9, <2>1, <2>5 DEF DeleteBlock, TypeOK
<1>10. ASSUME NEW k \in Client, Untag(k) PROVE TypeOK'
  <2>1. op[k].t \in Tag
    BY <1>0, <1>10, CallOf DEF Untag
  <2>2. [pc |-> "again", t |-> op[k].t] \in Call
    BY <2>1 DEF Call
  <2>3. op' \in [Client -> Call]
    BY <1>0, <1>10, <2>2, BecomeType DEF Untag, Return
  <2> QED BY <1>10, <2>1, <2>3 DEF Untag, TypeOK
<1>11. ASSUME NEW k \in Client, NEW t \in Tag, Get(k, t) PROVE TypeOK'
  <2>1. index[t] \in Content
    BY <1>11 DEF Get, TypeOK
  <2>2. [pc |-> "reading", c |-> index[t], todo |-> Dag[index[t]]] \in Call
    BY <2>1, DagType DEF Call
  <2>3. op' \in [Client -> Call]
    BY <1>0, <1>11, <2>2, BecomeType DEF Get
  <2> QED BY <1>11, <2>3 DEF Get, TypeOK
<1>12. ASSUME NEW k \in Client, ReadBlock(k) PROVE TypeOK'
  <2>1. PICK b \in op[k].todo \cap (blocks \cup Remote) :
          /\ blocks' = blocks \cup {b}
          /\ Become(k, IF op[k].todo = {b} THEN Idle ELSE [op[k] EXCEPT !.todo = @ \ {b}])
    BY <1>12 DEF ReadBlock
  <2>2. op[k] \in [pc: {"reading"}, c: Content, todo: (SUBSET Block) \ {{}}]
    BY <1>0, <1>12, CallOf DEF ReadBlock
  <2>3. b \in Block
    BY <2>1, <2>2
  <2>4. op[k].todo # {b} => [op[k] EXCEPT !.todo = @ \ {b}] \in Call
    <3>1. op[k].todo # {b} => op[k].todo \ {b} \in (SUBSET Block) \ {{}}
      BY <2>1, <2>2
    <3> QED BY <2>2, <3>1 DEF Call
  <2>5. op' \in [Client -> Call]
    BY <1>0, <2>1, <2>4, BecomeType
  <2> QED BY <1>12, <2>1, <2>3, <2>5 DEF ReadBlock, TypeOK
<1>13. ASSUME NEW k \in Client, GiveUp(k) PROVE TypeOK'
  BY <1>0, <1>13, BecomeType DEF GiveUp, Return, TypeOK
<1> QED BY <1>1, <1>2, <1>3, <1>4, <1>5, <1>6, <1>7, <1>8, <1>9, <1>10, <1>11, <1>12,
           <1>13, StoreCases

\* Every variable of ContentStore keeps its type.
THEOREM StoreTypeCorrect == Spec => []TypeOK
<1> QED BY StoreTypeInit, StoreTypeNext, PTL DEF Spec

(* ------------------------- whole until deleted ------------------------- *)

\* What the blocks of a whole content rest on: no DeleteFile under way
\* threatens it, an Add that counts as clean has what it has written so far and
\* is threatened by none, and a DeleteFile only removes what its walk found.
Unthreatened == \A c \in whole : \A k \in Deleting : ~Threatens(op[k].c, c)

CleanAdds ==
  \A k \in Client : op[k].pc = "adding" =>
    (op[k].clean => /\ Dag[op[k].c] \ op[k].todo \subseteq blocks
                    /\ \A d \in Deleting : ~Threatens(op[d].c, op[k].c))

Walked == \A k \in Client : op[k].pc = "removing" => op[k].todo \subseteq descendants(op[k].c)

StoreInv == TypeOK /\ WholeUntilDeleted /\ Unthreatened /\ CleanAdds /\ Walked

LEMMA StoreInvInit == Init => StoreInv
  BY StoreTypeInit DEF Init, StoreInv, WholeUntilDeleted, Unthreatened, CleanAdds, Walked, Idle

\* A step that adds blocks, and changes the call of one client to one that
\* neither adds nor newly deletes, keeps what a whole content rests on.
LEMMA StoreGrows ==
  ASSUME StoreInv, NEW k \in Client, NEW call \in Call,
         Become(k, call), blocks \subseteq blocks', whole' = whole,
         call.pc # "adding",
         call.pc \in {"deleting", "walking", "removing"} => k \in Deleting /\ call.c = op[k].c,
         call.pc = "removing" => call.todo \subseteq descendants(call.c)
  PROVE  WholeUntilDeleted' /\ Unthreatened' /\ CleanAdds' /\ Walked'
<1>1. op' = [op EXCEPT ![k] = call] /\ op \in [Client -> Call]
  BY DEF Become, StoreInv, TypeOK
<1>2. op'[k] = call /\ \A d \in Client \ {k} : op'[d] = op[d]
  BY <1>1
<1>3. Deleting' \subseteq Deleting /\ \A d \in Deleting' : op'[d].c = op[d].c
  BY <1>2 DEF Deleting
<1>4. WholeUntilDeleted'
  BY DEF StoreInv, WholeUntilDeleted
<1>5. Unthreatened'
  BY <1>3 DEF StoreInv, Unthreatened, Threatens
<1>6. CleanAdds'
  <2> SUFFICES ASSUME NEW d \in Client, op'[d].pc = "adding", op'[d].clean
               PROVE  /\ Dag[op'[d].c] \ op'[d].todo \subseteq blocks'
                      /\ \A e \in Deleting' : ~Threatens(op'[e].c, op'[d].c)
    BY DEF CleanAdds, Threatens, descendants
  <2>1. d # k /\ op'[d] = op[d]
    BY <1>2
  <2>2. /\ Dag[op[d].c] \ op[d].todo \subseteq blocks
        /\ \A e \in Deleting : ~Threatens(op[e].c, op[d].c)
    BY <2>1 DEF StoreInv, CleanAdds
  <2> QED BY <1>3, <2>1, <2>2
<1>7. Walked'
  <2> SUFFICES ASSUME NEW d \in Client, op'[d].pc = "removing"
               PROVE  op'[d].todo \subseteq descendants(op'[d].c)
    BY DEF Walked, descendants
  <2> QED BY <1>2 DEF StoreInv, Walked
<1> QED BY <1>4, <1>5, <1>6, <1>7

\* Every step keeps the invariant.
LEMMA StoreInvNext == StoreInv /\ [Next]_vars => StoreInv'
<1> SUFFICES ASSUME StoreInv, [Next]_vars PROVE StoreInv'
  OBVIOUS
<1> DEFINE Kept == WholeUntilDeleted' /\ Unthreatened' /\ CleanAdds' /\ Walked'
<1>0. op \in [Client -> Call] /\ Idle \in Call /\ TypeOK'
  BY StoreTypeNext DEF StoreInv, TypeOK, Call
<1>1. CASE UNCHANGED vars
  BY <1>1 DEF vars, StoreInv, WholeUntilDeleted, Unthreatened, CleanAdds, Walked, Deleting,
              Threatens, descendants, TypeOK
<1>2. ASSUME Halt PROVE Kept
  <2>1. \A k \in Client : op'[k].pc = "idle"
    BY <1>2 DEF Halt, Idle
  <2>2. UNCHANGED <<blocks, whole>>
    BY <1>2 DEF Halt
  <2> QED BY <2>1, <2>2 DEF StoreInv, WholeUntilDeleted, Unthreatened, CleanAdds, Walked, Deleting
<1>3. ASSUME NEW k \in Client, NEW t \in Tag, NEW c \in Content, Add(k, t, c) PROVE Kept
  <2> DEFINE call == [pc |-> "adding", t |-> t, c |-> c, todo |-> Dag[c],
                      clean |-> \A d \in Deleting : ~Threatens(op[d].c, c)]
  <2>1. op' = [op EXCEPT ![k] = call] /\ UNCHANGED <<blocks, whole>> /\ op[k] = Idle
    BY <1>3 DEF Add, Become
  <2>2. op'[k] = call /\ \A d \in Client \ {k} : op'[d] = op[d]
    BY <1>0, <2>1
  <2>3. Deleting' = Deleting /\ \A d \in Deleting : op'[d] = op[d]
    BY <2>1, <2>2 DEF Deleting, Idle
  <2>4. CleanAdds'
    <3> SUFFICES ASSUME NEW d \in Client, op'[d].pc = "adding", op'[d].clean
                 PROVE  /\ Dag[op'[d].c] \ op'[d].todo \subseteq blocks'
                        /\ \A e \in Deleting' : ~Threatens(op'[e].c, op'[d].c)
      BY DEF CleanAdds, Threatens, descendants
    <3>1. CASE d = k
      BY <2>2, <2>3, <3>1
    <3>2. CASE d # k
      <4>1. /\ Dag[op[d].c] \ op[d].todo \subseteq blocks
            /\ \A e \in Deleting : ~Threatens(op[e].c, op[d].c)
        BY <2>2, <3>2 DEF StoreInv, CleanAdds
      <4> QED BY <2>1, <2>2, <2>3, <3>2, <4>1
    <3> QED BY <3>1, <3>2
  <2>5. Walked'
    <3> SUFFICES ASSUME NEW d \in Client, op'[d].pc = "removing"
                 PROVE  op'[d].todo \subseteq descendants(op'[d].c)
      BY DEF Walked, descendants
    <3> QED BY <2>2 DEF StoreInv, Walked
  <2>6. WholeUntilDeleted'
    BY <2>1 DEF StoreInv, WholeUntilDeleted
  <2>7. Unthreatened'
    BY <2>1, <2>3 DEF StoreInv, Unthreatened, Threatens
  <2> QED BY <2>4, <2>5, <2>6, <2>7
<1>4. ASSUME NEW k \in Client, AddBlock(k) PROVE Kept
  <2>1. PICK b \in op[k].todo :
          blocks' = blocks \cup {b} /\ Become(k, [op[k] EXCEPT !.todo = @ \ {b}])
    BY <1>4 DEF AddBlock
  <2>2. op[k] \in [pc: {"adding"}, t: Tag, c: Content, todo: SUBSET Block, clean: BOOLEAN]
    BY <1>0, <1>4, CallOf DEF AddBlock
  <2>3. /\ op'[k] = [op[k] EXCEPT !.todo = @ \ {b}]
        /\ \A d \in Client \ {k} : op'[d] = op[d]
    BY <1>0, <2>1 DEF Become
  <2>4. op'[k].pc = "adding" /\ op'[k].c = op[k].c /\ op'[k].clean = op[k].clean
        /\ op'[k].todo = op[k].todo \ {b}
    BY <2>2, <2>3
  <2>5. Deleting' = Deleting /\ \A d \in Deleting : op'[d] = op[d]
    BY <1>4, <2>3, <2>4 DEF Deleting, AddBlock
  <2>6. whole' = whole
    BY <1>4 DEF AddBlock
  <2>7. CleanAdds'
    <3> SUFFICES ASSUME NEW d \in Client, op'[d].pc = "adding", op'[d].clean
                 PROVE  /\ Dag[op'[d].c] \ op'[d].todo \subseteq blocks'
                        /\ \A e \in Deleting' : ~Threatens(op'[e].c, op'[d].c)
      BY DEF CleanAdds, Threatens, descendants
    <3>1. op[d].pc = "adding" /\ op[d].clean /\ op'[d].c = op[d].c
          /\ op'[d].todo \in {op[d].todo, op[d].todo \ {b}}
      BY <1>4, <2>3, <2>4 DEF AddBlock
    <3>2. /\ Dag[op[d].c] \ op[d].todo \subseteq blocks
          /\ \A e \in Deleting : ~Threatens(op[e].c, op[d].c)
      BY <3>1 DEF StoreInv, CleanAdds
    <3> QED BY <2>1, <2>5, <3>1, <3>2
  <2>8. Walked'
    <3> SUFFICES ASSUME NEW d \in Client, op'[d].pc = "removing"
                 PROVE  op'[d].todo \subseteq descendants(op'[d].c)
      BY DEF Walked, descendants
    <3> QED BY <2>3, <2>4 DEF StoreInv, Walked
  <2>9. WholeUntilDeleted'
    BY <2>1, <2>6 DEF StoreInv, WholeUntilDeleted
  <2>10. Unthreatened'
    BY <2>5, <2>6 DEF StoreInv, Unthreatened, Threatens
  <2> QED BY <2>7, <2>8, <2>9, <2>10
<1>5. ASSUME NEW k \in Client, AddTag(k) PROVE Kept
  <2>1. op[k].pc = "adding" /\ op[k].todo = {} /\ blocks' = blocks
        /\ whole' = IF op[k].clean THEN whole \cup {op[k].c} ELSE whole
    BY <1>5 DEF AddTag
  <2>2. op'[k] = Idle /\ \A d \in Client \ {k} : op'[d] = op[d]
    BY <1>0, <1>5 DEF AddTag, Return, Become
  <2>3. Deleting' = Deleting /\ \A d \in Deleting : op'[d] = op[d]
    BY <2>1, <2>2 DEF Deleting, Idle
  <2>4. op[k].clean => /\ Dag[op[k].c] \subseteq blocks
                       /\ \A d \in Deleting : ~Threatens(op[d].c, op[k].c)
    BY <2>1 DEF StoreInv, CleanAdds
  <2>5. WholeUntilDeleted'
    BY <2>1, <2>4 DEF StoreInv, WholeUntilDeleted
  <2>6. Unthreatened'
    BY <2>1, <2>3, <2>4 DEF StoreInv, Unthreatened, Threatens
  <2>7. CleanAdds'
    <3> SUFFICES ASSUME NEW d \in Client, op'[d].pc = "adding", op'[d].clean
                 PROVE  /\ Dag[op'[d].c] \ op'[d].todo \subseteq blocks'
                        /\ \A e \in Deleting' : ~Threatens(op'[e].c, op'[d].c)
      BY DEF CleanAdds, Threatens, descendants
    <3>1. d # k /\ op'[d] = op[d]
      BY <2>2 DEF Idle
    <3>2. /\ Dag[op[d].c] \ op[d].todo \subseteq blocks
          /\ \A e \in Deleting : ~Threatens(op[e].c, op[d].c)
      BY <3>1 DEF StoreInv, CleanAdds
    <3> QED BY <2>1, <2>3, <3>1, <3>2
  <2>8. Walked'
    <3> SUFFICES ASSUME NEW d \in Client, op'[d].pc = "removing"
                 PROVE  op'[d].todo \subseteq descendants(op'[d].c)
      BY DEF Walked, descendants
    <3> QED BY <2>2 DEF StoreInv, Walked, Idle
  <2> QED BY <2>5, <2>6, <2>7, <2>8
<1>6. ASSUME NEW k \in Client, NEW t \in Tag, Delete(k, t) PROVE Kept
  <2> DEFINE c == index[t]
             risk(d) == [op[d] EXCEPT !.clean = @ /\ ~Threatens(c, op[d].c)]
  <2>1. /\ op[k] = Idle /\ blocks' = blocks
        /\ op' = [d \in Client |->
             CASE d = k -> [pc |-> "deleting", t |-> t, c |-> c]
               [] d # k /\ op[d].pc = "adding" -> risk(d)
               [] OTHER -> op[d]]
        /\ whole' = {d \in whole : ~Threatens(c, d)}
    BY <1>6 DEF Delete
  <2>2. op'[k].pc = "deleting" /\ op'[k].c = c
    BY <2>1
  <2>3. \A d \in Client \ {k} : op'[d] = IF op[d].pc = "adding" THEN risk(d) ELSE op[d]
    BY <2>1
  <2>4. \A d \in Client \ {k} : op[d].pc = "adding" =>
           /\ op'[d].pc = "adding" /\ op'[d].c = op[d].c /\ op'[d].todo = op[d].todo
           /\ op'[d].clean => op[d].clean /\ ~Threatens(c, op[d].c)
    <3> SUFFICES ASSUME NEW d \in Client \ {k}, op[d].pc = "adding"
                 PROVE  /\ op'[d].pc = "adding" /\ op'[d].c = op[d].c /\ op'[d].todo = op[d].todo
                        /\ op'[d].clean => op[d].clean /\ ~Threatens(c, op[d].c)
      OBVIOUS
    <3>1. op[d] \in [pc: {"adding"}, t: Tag, c: Content, todo: SUBSET Block, clean: BOOLEAN]
      BY <1>0, CallOf
    <3>2. op'[d] = risk(d)
      BY <2>3
    <3> HIDE DEF c
    <3> QED BY <3>1, <3>2
  <2>5. \A d \in Deleting' : d # k => d \in Deleting /\ op'[d] = op[d]
    <3> SUFFICES ASSUME NEW d \in Client, op'[d].pc \in {"deleting", "walking", "removing"}, d # k
                 PROVE  d \in Deleting /\ op'[d] = op[d]
      BY DEF Deleting
    <3>1. op[d].pc # "adding"
      BY <2>4
    <3> QED BY <2>3, <3>1 DEF Deleting
  <2>6. Walked'
    <3> SUFFICES ASSUME NEW d \in Client, op'[d].pc = "removing"
                 PROVE  op'[d].todo \subseteq descendants(op'[d].c)
      BY DEF Walked, descendants
    <3>1. op'[d] = op[d]
      BY <2>2, <2>5 DEF Deleting
    <3> QED BY <3>1 DEF StoreInv, Walked
  <2>7. WholeUntilDeleted'
    BY <2>1 DEF StoreInv, WholeUntilDeleted
  <2>8. Unthreatened'
    <3> SUFFICES ASSUME NEW w \in whole', NEW d \in Deleting'
                 PROVE  ~Threatens(op'[d].c, w)
      BY DEF Unthreatened, Threatens, descendants
    <3> QED BY <2>1, <2>2, <2>5 DEF StoreInv, Unthreatened
  <2>9. CleanAdds'
    <3> SUFFICES ASSUME NEW d \in Client, op'[d].pc = "adding", op'[d].clean
                 PROVE  /\ Dag[op'[d].c] \ op'[d].todo \subseteq blocks'
                        /\ \A e \in Deleting' : ~Threatens(op'[e].c, op'[d].c)
      BY DEF CleanAdds, Threatens, descendants
    <3>1. d # k
      BY <2>2
    <3>2. op[d].pc = "adding"
      BY <2>3, <3>1
    <3>3. /\ op'[d].c = op[d].c /\ op'[d].todo = op[d].todo
          /\ op[d].clean /\ ~Threatens(c, op[d].c)
      BY <2>4, <3>1, <3>2
    <3>4. /\ Dag[op[d].c] \ op[d].todo \subseteq blocks
          /\ \A e \in Deleting : ~Threatens(op[e].c, op[d].c)
      BY <3>2, <3>3 DEF StoreInv, CleanAdds
    <3> HIDE DEF c
    <3> QED BY <2>1, <2>2, <2>5, <3>3, <3>4
  <2> QED BY <2>6, <2>7, <2>8, <2>9
<1>7. ASSUME NEW k \in Client, DeleteFileHas(k) PROVE Kept
  <2>1. op[k] \in [pc: {"deleting", "walking", "untagging"}, t: Tag, c: Content]
        /\ op[k].pc = "deleting"
    BY <1>0, <1>7, CallOf DEF DeleteFileHas
  <2>2. blocks' = blocks /\ whole' = whole /\ k \in Deleting
    BY <1>7 DEF DeleteFileHas, Deleting
  <2>3. CASE Become(k, Idle)
    <3>1. Idle.pc = "idle"
      BY DEF Idle
    <3> QED BY <1>0, <2>2, <2>3, <3>1, StoreGrows
  <2>4. CASE Become(k, [op[k] EXCEPT !.pc = "walking"])
    <3> DEFINE call == [pc |-> "walking", t |-> op[k].t, c |-> op[k].c]
    <3>1. Become(k, call) /\ call \in Call
      BY <2>1, <2>4 DEF Call
    <3>2. call.pc = "walking" /\ call.c = op[k].c
      OBVIOUS
    <3> HIDE DEF call
    <3> QED BY <2>2, <3>1, <3>2, StoreGrows
  <2> QED BY <1>7, <2>3, <2>4 DEF DeleteFileHas, Return
<1>8. ASSUME NEW k \in Client, DeleteFileWalk(k) PROVE Kept
  <2> DEFINE call == [pc |-> "removing", t |-> op[k].t, c |-> op[k].c,
                      todo |-> descendants(op[k].c)]
  <2>1. op[k].t \in Tag /\ op[k].c \in Content
    BY <1>0, <1>8, CallOf DEF DeleteFileWalk
  <2>2. call \in Call
    BY <2>1, DagType DEF Call
  <2>3. Become(k, call) /\ k \in Deleting /\ blocks \subseteq blocks' /\ whole' = whole
    BY <1>8 DEF DeleteFileWalk, Deleting
  <2>4. call.pc = "removing" /\ call.c = op[k].c /\ call.todo = descendants(call.c)
    OBVIOUS
  <2> HIDE DEF call
  <2> QED BY <2>2, <2>3, <2>4, StoreGrows
<1>9. ASSUME NEW k \in Client, DeleteBlock(k) PROVE Kept
  <2>1. PICK b \in op[k].todo :
          /\ blocks' = blocks \ {b}
          /\ Become(k, IF op[k].todo = {b} THEN [pc |-> "untagging", t |-> op[k].t, c |-> op[k].c]
                                           ELSE [op[k] EXCEPT !.todo = @ \ {b}])
    BY <1>9 DEF DeleteBlock
  <2>2. op[k] \in [pc: {"removing"}, t: Tag, c: Content, todo: (SUBSET Block) \ {{}}]
    BY <1>0, <1>9, CallOf DEF DeleteBlock
  <2>3. op'[k].pc = "untagging" \/ /\ op'[k].pc = "removing" /\ op'[k].c = op[k].c
                                   /\ op'[k].todo = op[k].todo \ {b}
    BY <1>0, <2>1, <2>2 DEF Become
  <2>4. \A d \in Client \ {k} : op'[d] = op[d]
    BY <1>0, <2>1 DEF Become
  <2>5. whole' = whole /\ k \in Deleting /\ op[k].pc = "removing"
    BY <1>9 DEF DeleteBlock, Deleting
  <2>6. Deleting' \subseteq Deleting /\ \A d \in Deleting' : op'[d].c = op[d].c
    BY <2>3, <2>4, <2>5 DEF Deleting
  <2>7. b \in descendants(op[k].c)
    BY <2>5 DEF StoreInv, Walked
  <2>8. WholeUntilDeleted'
    <3> SUFFICES ASSUME NEW w \in whole PROVE Dag[w] \subseteq blocks'
      BY <2>5 DEF WholeUntilDeleted
    <3>1. b \notin Dag[w]
      BY <2>5, <2>7 DEF StoreInv, Unthreatened, Threatens
    <3> QED BY <2>1, <3>1 DEF StoreInv, WholeUntilDeleted
  <2>9. Unthreatened'
    BY <2>5, <2>6 DEF StoreInv, Unthreatened, Threatens
  <2>10. CleanAdds'
    <3> SUFFICES ASSUME NEW d \in Client, op'[d].pc = "adding", op'[d].clean
                 PROVE  /\ Dag[op'[d].c] \ op'[d].todo \subseteq blocks'
                        /\ \A e \in Deleting' : ~Threatens(op'[e].c, op'[d].c)
      BY DEF CleanAdds, Threatens, descendants
    <3>1. d # k /\ op'[d] = op[d]
      BY <2>3, <2>4
    <3>2. /\ Dag[op[d].c] \ op[d].todo \subseteq blocks
          /\ \A e \in Deleting : ~Threatens(op[e].c, op[d].c)
      BY <3>1 DEF StoreInv, CleanAdds
    <3>3. b \notin Dag[op[d].c]
      BY <2>5, <2>7, <3>2 DEF Threatens
    <3> QED BY <2>1, <2>6, <3>1, <3>2, <3>3
  <2>11. Walked'
    <3> SUFFICES ASSUME NEW d \in Client, op'[d].pc = "removing"
                 PROVE  op'[d].todo \subseteq descendants(op'[d].c)
      BY DEF Walked, descendants
    <3> QED BY <2>3, <2>4, <2>5 DEF StoreInv, Walked
  <2> QED BY <2>8, <2>9, <2>10, <2>11
<1>10. ASSUME NEW k \in Client, Untag(k) PROVE Kept
  <2>1. op[k].t \in Tag
    BY <1>0, <1>10, CallOf DEF Untag
  <2>2. PICK call \in {Idle, [pc |-> "again", t |-> op[k].t]} : Become(k, call)
    BY <1>10 DEF Untag, Return
  <2>3. call \in Call /\ call.pc \in {"idle", "again"}
    BY <2>1 DEF Call, Idle
  <2>4. blocks' = blocks /\ whole' = whole
    BY <1>10 DEF Untag
  <2> QED BY <2>2, <2>3, <2>4, StoreGrows
<1>11. ASSUME NEW k \in Client, NEW t \in Tag, Get(k, t) PROVE Kept
  <2> DEFINE call == [pc |-> "reading", c |-> index[t], todo |-> Dag[index[t]]]
  <2>1. index[t] \in Content
    BY <1>11 DEF Get, StoreInv, TypeOK
  <2>2. call \in Call /\ call.pc = "reading"
    BY <2>1, DagType DEF Call
  <2>3. Become(k, call) /\ blocks' = blocks /\ whole' = whole
    BY <1>11 DEF Get
  <2> HIDE DEF call
  <2> QED BY <2>2, <2>3, StoreGrows
<1>12. ASSUME NEW k \in Client, ReadBlock(k) PROVE Kept
  <2>1. PICK b \in op[k].todo \cap (blocks \cup Remote) :
          /\ blocks' = blocks \cup {b}
          /\ Become(k, IF op[k].todo = {b} THEN Idle ELSE [op[k] EXCEPT !.todo = @ \ {b}])
    BY <1>12 DEF ReadBlock
  <2>2. op[k] \in [pc: {"reading"}, c: Content, todo: (SUBSET Block) \ {{}}]
    BY <1>0, <1>12, CallOf DEF ReadBlock
  <2> DEFINE call == IF op[k].todo = {b} THEN Idle ELSE [op[k] EXCEPT !.todo = @ \ {b}]
  <2>3. call.pc \in {"idle", "reading"}
    BY <2>2 DEF Idle
  <2>4. call \in Call
    <3>1. op[k].todo # {b} => op[k].todo \ {b} \in (SUBSET Block) \ {{}}
      BY <2>1, <2>2
    <3> QED BY <1>0, <2>2, <3>1 DEF Call
  <2>5. Become(k, call) /\ blocks \subseteq blocks' /\ whole' = whole
    BY <1>12, <2>1 DEF ReadBlock
  <2> HIDE DEF call
  <2> QED BY <2>3, <2>4, <2>5, StoreGrows
<1>13. ASSUME NEW k \in Client, GiveUp(k) PROVE Kept
  <2>1. Become(k, Idle) /\ blocks' = blocks /\ whole' = whole /\ Idle.pc = "idle"
    BY <1>13 DEF GiveUp, Return, Idle
  <2> QED BY <1>0, <2>1, StoreGrows
<1> HIDE DEF Kept
<1>14. Next => Kept
  BY <1>2, <1>3, <1>4, <1>5, <1>6, <1>7, <1>8, <1>9, <1>10, <1>11, <1>12, <1>13, StoreCases
<1>15. Kept => StoreInv'
  BY <1>0 DEF Kept, StoreInv
<1> QED BY <1>1, <1>14, <1>15

\* What was added stays whole until a DeleteFile begins on a content of whose
\* root and first links it has one, whatever the other clients do.
THEOREM WholeCorrect == Spec => []WholeUntilDeleted
<1>1. StoreInv => WholeUntilDeleted
  BY DEF StoreInv
<1> QED BY <1>1, StoreInvInit, StoreInvNext, PTL DEF Spec

=============================================================================
