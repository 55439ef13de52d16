---------------------------- MODULE VmaPoolProofs ----------------------------
(***************************************************************************)
(* Theorems about VmaPool, for any threads, any number of superblocks and  *)
(* any numbers of blocks and vm_areas in them, used in any of the ways     *)
(* that are safe.  Before them, one lemma for each step: it preserves the  *)
(* invariant of VmaPoolInv.                                                *)
(***************************************************************************)
EXTENDS VmaPoolInv

-----------------------------------------------------------------------------
(* What every step has in common *)

\* A step of one thread leaves the locals of the others alone.
LEMMA GotoEffect ==
  ASSUME Typed, NEW t \in Thread, NEW label \in Labels, Goto(t, label)
  PROVE  /\ pc' \in [Thread -> Labels] /\ pc'[t] = label
         /\ \A u \in Thread : u # t => pc'[u] = pc[u]
BY DEF Typed, Goto

LEMMA ReturnEffect ==
  ASSUME Typed, NEW t \in Thread, Return(t)
  PROVE  /\ pc' \in [Thread -> Labels] /\ pc'[t] = "idle"
         /\ myBlock' \in [Thread -> Block \cup {None}]
         /\ mySuperblock' \in [Thread -> Superblock \cup {None}]
         /\ myVma' \in [Thread -> Vma \cup {None}]
         /\ \A u \in Thread : u # t =>
              /\ pc'[u] = pc[u] /\ myBlock'[u] = myBlock[u]
              /\ mySuperblock'[u] = mySuperblock[u] /\ myVma'[u] = myVma[u]
BY DEF Typed, Return, Goto, Labels

\* A list whose elements and pointers stay the same
LEMMA SuperFrame ==
  ASSUME IInv, NEW s \in mapped,
         superblock'[s].bctr = superblock[s].bctr,
         superblock'[s].head = superblock[s].head,
         Untaken(s)' = Untaken(s),
         \A c \in Untaken(s) : block'[c].next = block[c].next
  PROVE  /\ Taken(s)' = Taken(s)
         /\ superblock'[s].bctr = Cardinality(Taken(s)')
         /\ Chain(block', superblock'[s].head, Untaken(s)')
<1>1. Taken(s)' = Taken(s)
  BY DEF Taken
<1>2. superblock[s].bctr = Cardinality(Taken(s)) /\ Chain(block, superblock[s].head, Untaken(s))
  BY DEF IInv, SuperInv
<1> QED BY <1>1, <1>2, ChainFrame

LEMMA PoolFrame ==
  ASSUME IInv, NEW p \in Thread, S_mpool_head'[p] = S_mpool_head[p],
         PoolSet(p)' = PoolSet(p),
         \A c \in PoolSet(p) : block'[c].next = block[c].next,
         \A c \in PoolSet(p) : c # S_mpool_head[p] => block'[c].prev = block[c].prev
  PROVE  /\ Chain(block', S_mpool_head'[p], PoolSet(p)')
         /\ LinkedBack(block', PoolSet(p)')
<1>1. /\ Chain(block, S_mpool_head[p], PoolSet(p)) /\ LinkedBack(block, PoolSet(p))
      /\ None \notin PoolSet(p)
  BY NoneAssumption DEF IInv, PoolInv, PoolSet
<1> QED BY <1>1, ChainFrame, LinkedFrame

LEMMA GpoolFrame ==
  ASSUME IInv, S_gpool_head' = S_gpool_head, AvailSet' = AvailSet,
         \A x \in AvailSet : superblock'[x].next = superblock[x].next,
         \A x \in AvailSet : x # S_gpool_head => superblock'[x].prev = superblock[x].prev
  PROVE  /\ Chain(superblock', S_gpool_head', AvailSet')
         /\ LinkedBack(superblock', AvailSet')
<1>1. /\ Chain(superblock, S_gpool_head, AvailSet) /\ LinkedBack(superblock, AvailSet)
      /\ None \notin AvailSet
  BY NoneAssumption DEF IInv, GpoolInv, AvailSet, Typed
<1> QED BY <1>1, ChainFrame, LinkedFrame

\* All superblocks, when no step is taken on a list of theirs
LEMMA SuperKept ==
  ASSUME IInv, mapped' \subseteq mapped,
         \A s \in mapped' : /\ superblock'[s].bctr = superblock[s].bctr
                            /\ superblock'[s].head = superblock[s].head,
         \A s \in mapped : Untaken(s)' = Untaken(s),
         \A s \in mapped' : \A c \in Untaken(s) : block'[c].next = block[c].next,
         \A u \in Thread : \A s \in mapped' :
           /\ With(u, s) => With(u, s)' \/ superblock[s].bctr > 0
           /\ pc'[u] \in PutPc /\ With(u, s)' => pc[u] \in PutPc /\ With(u, s),
         \A u \in Thread : pc'[u] = "return_gpool" =>
                             pc[u] = "return_gpool" /\ myBlock'[u] = myBlock[u]
  PROVE  SuperInv'
<1>1. \A s \in mapped' : /\ Taken(s)' = Taken(s)
                         /\ superblock'[s].bctr = Cardinality(Taken(s)')
                         /\ Chain(block', superblock'[s].head, Untaken(s)')
  BY SuperFrame
<1>2. \A s \in mapped' : superblock'[s].bctr > 0 \/ \E u \in Thread : With(u, s)'
  BY DEF IInv, SuperInv
<1>3. \A s \in mapped' : \A u \in Thread :
        pc'[u] \in PutPc /\ With(u, s)' => Taken(s)' = {}
  BY <1>1 DEF IInv, SuperInv
<1>4. ASSUME NEW u \in Thread, pc'[u] = "return_gpool"
      PROVE  (Untaken(At(myBlock[u])) = {myBlock[u]})'
  <2>1. /\ pc[u] = "return_gpool" /\ myBlock'[u] = myBlock[u]
        /\ At(myBlock[u]) \in mapped /\ Untaken(At(myBlock[u])) = {myBlock[u]}
    BY <1>4 DEF IInv, Typed, SuperInv, HasBlock, HoldsBlock
  <2> QED BY <2>1
<1> QED BY <1>1, <1>2, <1>3, <1>4 DEF SuperInv

-----------------------------------------------------------------------------
(* vma_alloc *)

\* The call of vma_alloc
LEMMA CallAllocStep ==
  ASSUME IInv, NEW t \in Thread, CallAlloc(t)
  PROVE  IInv'
<1> DEFINE h == S_mpool_head[t]
<1>1. /\ pc[t] = "idle" /\ MayCall("alloc")
      /\ myBlock' = [myBlock EXCEPT ![t] = h]
      /\ Goto(t, IF h = None THEN "steal_gpool" ELSE "alloc_cached")
      /\ UNCHANGED <<mapped, superblock, block, S_mpool_head, S_gpool_head, mode,
                     phase, S_gpool_lock, live, mySuperblock, myVma, aborted>>
  BY DEF CallAlloc, Ready, links, client
<1>2. /\ pc' \in [Thread -> Labels]
      /\ pc'[t] = IF h = None THEN "steal_gpool" ELSE "alloc_cached"
      /\ h \in Block \cup {None}
      /\ myBlock' \in [Thread -> Block \cup {None}] /\ myBlock'[t] = h
      /\ \A u \in Thread : u # t => pc'[u] = pc[u] /\ myBlock'[u] = myBlock[u]
  BY <1>1, GotoEffect DEF IInv, Typed, Labels
<1>3. h # None => At(h) \in mapped
  <2>1. Chain(block, h, PoolSet(t))
    BY DEF IInv, PoolInv
  <2> QED BY <2>1 DEF Chain, PoolSet
<1> HIDE DEF h
<1>4. Typed'
  BY <1>1, <1>2, <1>3 DEF IInv, Typed, HasBlock, HoldsBlock, HasSuper
<1>5. Discipline'
  BY <1>1, <1>2 DEF IInv, Discipline, MayCall, Quiet, AllocPc, FreePc, PutPc
<1>6. LockInv'
  BY <1>1, <1>2 DEF IInv, LockInv, HoldsBlock
<1>7. /\ \A b : InHand(b)' <=> InHand(b)
      /\ \A s : Leaving(s)' <=> Leaving(s)
  BY <1>1, <1>2 DEF InHand, Leaving
<1>8. /\ \A s : Untaken(s)' = Untaken(s)
      /\ \A p : PoolSet(p)' = PoolSet(p)
      /\ AvailSet' = AvailSet
  BY <1>1, <1>7 DEF Untaken, PoolSet, AvailSet
<1>9. VmaInv'
  <2>1. \A b \in Block : Resting(b)' = Resting(b)
    BY <1>1, <1>2 DEF Resting
  <2> QED BY <1>1, <1>2, <2>1 DEF IInv, VmaInv
<1>10. SuperInv'
  BY <1>1, <1>2, <1>8, SuperKept DEF With, HasSuper, PutPc
<1>11. PoolInv'
  BY <1>1, <1>2, <1>8, PoolFrame DEF IInv, PoolInv, Stealing, h
<1>12. GpoolInv'
  BY <1>1, <1>8, GpoolFrame DEF GpoolInv
<1> QED BY <1>4, <1>5, <1>6, <1>9, <1>10, <1>11, <1>12 DEF IInv

\* The lock of the superblock, under that of S_gpool
LEMMA StealSuperblockStep ==
  ASSUME IInv, NEW t \in Thread, StealSuperblock(t)
  PROVE  IInv'
<1> DEFINE s == mySuperblock[t]
           h == superblock[s].head
<1>1. /\ pc[t] = "steal_superblock" /\ superblock[s].lock = None
      /\ superblock' = [superblock EXCEPT ![s].lock = t]
      /\ myBlock' = [myBlock EXCEPT ![t] = h]
      /\ Goto(t, "steal_block")
      /\ UNCHANGED <<mapped, block, S_mpool_head, S_gpool_head, mode, phase,
                     S_gpool_lock, live, mySuperblock, myVma, aborted>>
  BY DEF StealSuperblock, Ready, client
<1>2. /\ pc' \in [Thread -> Labels] /\ pc'[t] = "steal_block"
      /\ \A u \in Thread : u # t => pc'[u] = pc[u]
  BY <1>1, GotoEffect DEF IInv, Labels
<1>3. /\ s \in mapped /\ s \in Superblock /\ S_gpool_lock = t /\ S_gpool_head = s
      /\ superblock \in [Superblock -> SuperblockStruct]
  BY <1>1 DEF IInv, Typed, LockInv, HasSuper
<1>4. s \in AvailSet
  <2>1. Chain(superblock, S_gpool_head, AvailSet)
    BY DEF IInv, GpoolInv
  <2> QED BY <1>3, <2>1, NoneAssumption DEF Chain
<1>5. h \in Block /\ At(h) = s
  <2>1. Chain(block, h, Untaken(s)) /\ h # None
    BY <1>3, <1>4 DEF IInv, SuperInv, AvailSet
  <2> QED BY <2>1 DEF Chain, Untaken, BlocksOf
<1>6. /\ superblock' \in [Superblock -> SuperblockStruct]
      /\ superblock'[s].lock = t
      /\ \A x \in Superblock : x # s => superblock'[x].lock = superblock[x].lock
      /\ \A x \in Superblock :
           /\ superblock'[x].bctr = superblock[x].bctr
           /\ superblock'[x].head = superblock[x].head
           /\ superblock'[x].next = superblock[x].next
           /\ superblock'[x].prev = superblock[x].prev
  BY <1>1, <1>3 DEF SuperblockStruct
<1>7. /\ myBlock' \in [Thread -> Block \cup {None}] /\ myBlock'[t] = h
      /\ \A u \in Thread : u # t => myBlock'[u] = myBlock[u]
  BY <1>1, <1>5 DEF IInv, Typed
<1> HIDE DEF h
<1>8. Typed'
  BY <1>1, <1>2, <1>3, <1>5, <1>6, <1>7 DEF IInv, Typed, HasBlock, HoldsBlock, HasSuper
<1>9. Discipline'
  BY <1>1, <1>2, <1>7 DEF IInv, Discipline, AllocPc, FreePc, PutPc
<1>10. LockInv'
  <2>1. ASSUME NEW u \in Thread, pc[u] = "return_gpool" PROVE At(myBlock[u]) # s
    BY <1>1, <2>1, NoneAssumption DEF IInv, LockInv
  <2>2. ASSUME NEW u \in Thread, u # t
        PROVE  pc[u] \notin {"steal_superblock", "steal_block"}
    BY <1>3, <2>2 DEF IInv, LockInv
  <2>3. \A u \in Thread : pc[u] = "return_gpool" => At(myBlock[u]) \in Superblock
    BY DEF IInv, Typed, HasBlock, HoldsBlock
  <2> QED BY <1>1, <1>2, <1>3, <1>6, <1>7, <2>1, <2>2, <2>3
          DEF IInv, LockInv, HoldsBlock, h
<1>11. /\ \A b : InHand(b)' <=> InHand(b)
       /\ \A x : Leaving(x)' <=> Leaving(x)
  BY <1>1, <1>2, <1>7 DEF InHand, Leaving
<1>12. /\ \A x : Untaken(x)' = Untaken(x)
       /\ \A p : PoolSet(p)' = PoolSet(p)
       /\ AvailSet' = AvailSet /\ AvailSet \subseteq Superblock
  BY <1>1, <1>6, <1>11 DEF Untaken, PoolSet, AvailSet, IInv, Typed
<1>13. VmaInv'
  <2>1. \A b \in Block : Resting(b)' = Resting(b)
    BY <1>1, <1>2 DEF Resting
  <2> QED BY <1>1, <1>2, <1>7, <2>1 DEF IInv, VmaInv
<1>14. SuperInv'
  <2>1. mapped \subseteq Superblock
    BY DEF IInv, Typed
  <2> QED BY <1>1, <1>2, <1>6, <1>7, <1>12, <2>1, SuperKept DEF With, HasSuper, PutPc
<1>15. PoolInv'
  BY <1>1, <1>2, <1>7, <1>12, PoolFrame DEF IInv, PoolInv, Stealing
<1>16. GpoolInv'
  BY <1>1, <1>6, <1>12, GpoolFrame DEF GpoolInv
<1> QED BY <1>8, <1>9, <1>10, <1>13, <1>14, <1>15, <1>16 DEF IInv

\* S_gpool: its first superblock, or no memory left
LEMMA StealGpoolOldStep ==
  ASSUME IInv, NEW t \in Thread, StealGpool(t), mapped' = mapped
  PROVE  IInv'
<1> DEFINE s == S_gpool_head
<1>1. /\ pc[t] = "steal_gpool" /\ S_gpool_lock = None
      /\ UNCHANGED <<mapped, superblock, block, S_mpool_head, S_gpool_head, mode,
                     phase, live, aborted>>
      /\ \/ /\ s # None
            /\ mySuperblock' = [mySuperblock EXCEPT ![t] = s]
            /\ S_gpool_lock' = t
            /\ Goto(t, "steal_superblock")
            /\ UNCHANGED <<myBlock, myVma>>
         \/ Return(t) /\ S_gpool_lock' = None
  <2>1. \A x \in Superblock \ mapped : mapped' # mapped \cup {x}
    OBVIOUS
  <2> QED BY <2>1 DEF StealGpool, Ready, links
<1>2. s # None => s \in mapped /\ s \in Superblock
  BY DEF IInv, GpoolInv, Chain, AvailSet, Typed
<1>3. /\ pc' \in [Thread -> Labels]
      /\ myBlock' \in [Thread -> Block \cup {None}]
      /\ mySuperblock' \in [Thread -> Superblock \cup {None}]
      /\ myVma' \in [Thread -> Vma \cup {None}]
      /\ \A u \in Thread : u # t =>
           /\ pc'[u] = pc[u] /\ myBlock'[u] = myBlock[u]
           /\ mySuperblock'[u] = mySuperblock[u] /\ myVma'[u] = myVma[u]
      /\ \/ /\ pc'[t] = "steal_superblock" /\ mySuperblock'[t] = s /\ s \in mapped
            /\ S_gpool_lock' = t
         \/ pc'[t] = "idle" /\ S_gpool_lock' = None
  <2>1. CASE s # None /\ Goto(t, "steal_superblock")
    BY <1>1, <1>2, <2>1, GotoEffect DEF IInv, Typed, Labels, Return, Goto
  <2>2. CASE Return(t) /\ S_gpool_lock' = None
    BY <2>2, ReturnEffect DEF IInv
  <2> QED BY <1>1, <2>1, <2>2
<1> HIDE DEF s
<1>4. Typed'
  BY <1>1, <1>3 DEF IInv, Typed, HasBlock, HoldsBlock, HasSuper
<1>5. Discipline'
  BY <1>1, <1>3 DEF IInv, Discipline, AllocPc, FreePc, PutPc
<1>6. LockInv'
  <2>1. ASSUME NEW u \in Thread
        PROVE  pc[u] \notin {"steal_superblock", "steal_block"}
    BY <1>1, NoneAssumption DEF IInv, LockInv
  <2> QED BY <1>1, <1>3, <2>1 DEF IInv, LockInv, HoldsBlock, s
<1>7. /\ \A b : InHand(b)' <=> InHand(b)
      /\ \A x : Leaving(x)' <=> Leaving(x)
  BY <1>1, <1>3 DEF InHand, Leaving
<1>8. /\ \A x : Untaken(x)' = Untaken(x)
      /\ \A p : PoolSet(p)' = PoolSet(p)
      /\ AvailSet' = AvailSet
  BY <1>1, <1>7 DEF Untaken, PoolSet, AvailSet
<1>9. VmaInv'
  <2>1. \A b \in Block : Resting(b)' = Resting(b)
    BY <1>1, <1>3 DEF Resting
  <2> QED BY <1>1, <1>3, <2>1 DEF IInv, VmaInv
<1>10. SuperInv'
  BY <1>1, <1>3, <1>8, SuperKept DEF With, HasSuper, PutPc
<1>11. PoolInv'
  BY <1>1, <1>3, <1>8, PoolFrame DEF IInv, PoolInv, Stealing
<1>12. GpoolInv'
  BY <1>1, <1>8, GpoolFrame DEF GpoolInv
<1> QED BY <1>4, <1>5, <1>6, <1>9, <1>10, <1>11, <1>12 DEF IInv

\* and a new superblock, whose blocks and vm_areas nobody has yet
LEMMA StealGpoolNewStep ==
  ASSUME IInv, NEW t \in Thread, StealGpool(t), NEW s \in Superblock \ mapped,
         mapped' = mapped \cup {s}, S_gpool_head' = s, Setup(s), S_gpool_head = None,
         mySuperblock' = [mySuperblock EXCEPT ![t] = s],
         S_gpool_lock' = t, Goto(t, "steal_superblock"),
         UNCHANGED <<S_mpool_head, myBlock, myVma>>
  PROVE  IInv'
<1>1. /\ pc[t] = "steal_gpool" /\ S_gpool_lock = None
      /\ UNCHANGED <<mode, phase, live, aborted>>
  BY DEF StealGpool, Ready
<1>2. /\ pc' \in [Thread -> Labels] /\ pc'[t] = "steal_superblock"
      /\ \A u \in Thread : u # t => pc'[u] = pc[u]
  BY GotoEffect DEF IInv, Labels
<1>3. /\ mySuperblock' \in [Thread -> Superblock \cup {None}] /\ mySuperblock'[t] = s
      /\ \A u \in Thread : u # t => mySuperblock'[u] = mySuperblock[u]
  BY DEF IInv, Typed
<1>4. /\ superblock' \in [Superblock -> SuperblockStruct]
      /\ \A x \in Superblock : x # s => superblock'[x] = superblock[x]
      /\ superblock'[s].bctr = 0 /\ superblock'[s].lock = None
      /\ superblock'[s].head = <<s, 1>> /\ superblock'[s].next = None
      /\ block' \in [Block -> BlockStruct]
      /\ \A c \in Block : At(c) # s => block'[c] = block[c]
      /\ \A c \in BlocksOf(s) :
           /\ block'[c].vctr = 0 /\ block'[c].lock = None
           /\ block'[c].mpool = None /\ block'[c].head = VmasOf(c)
      /\ Chain(block', <<s, 1>>, BlocksOf(s))
  BY SetupEffect DEF IInv
<1>5. /\ mapped \subseteq Superblock
      /\ \A u \in Thread : /\ pc[u] \in HasBlock => myBlock[u] \in Block /\ At(myBlock[u]) \in mapped
                           /\ pc[u] \in HasSuper => mySuperblock[u] \in mapped
      /\ \A v \in live : Home[v] \in mapped
  BY DEF IInv, Typed
<1>6. Typed'
  BY <1>1, <1>2, <1>3, <1>4 DEF IInv, Typed, HasBlock, HoldsBlock, HasSuper
<1>7. Discipline'
  <2>1. \A u \in Thread : pc[u] = "free" => block'[myBlock[u]] = block[myBlock[u]]
    BY <1>4, <1>5 DEF HasBlock
  <2> QED BY <1>1, <1>2, <2>1 DEF IInv, Discipline, AllocPc, FreePc, PutPc
<1>8. LockInv'
  <2>1. \A u \in Thread : pc[u] \notin {"steal_superblock", "steal_block"}
    BY <1>1, NoneAssumption DEF IInv, LockInv
  <2>2. \A u \in Thread : /\ pc[u] \in HoldsBlock => block'[myBlock[u]] = block[myBlock[u]]
                          /\ pc[u] = "return_gpool" =>
                               superblock'[At(myBlock[u])] = superblock[At(myBlock[u])]
    BY <1>4, <1>5 DEF HasBlock, HoldsBlock
  <2> QED BY <1>1, <1>2, <1>3, <2>1, <2>2 DEF IInv, LockInv, HoldsBlock
<1>9. /\ \A b : InHand(b)' <=> InHand(b)
      /\ \A x : Leaving(x)' <=> Leaving(x)
  BY <1>1, <1>2, <1>3 DEF InHand, Leaving
<1>10. /\ \A b : InHand(b) => At(b) \in mapped
       /\ ~Leaving(s)
  BY <1>5 DEF InHand, Leaving, HasBlock, HoldsBlock, HasSuper
<1>11. /\ \A x \in mapped : Untaken(x)' = Untaken(x)
       /\ Untaken(s)' = BlocksOf(s)
  BY <1>4, <1>9, <1>10 DEF Untaken, BlocksOf
<1>12. \A p \in Thread : PoolSet(p)' = PoolSet(p)
  <2> SUFFICES ASSUME NEW p \in Thread, NEW b \in Block
               PROVE  /\ At(b) \in mapped' /\ block'[b].mpool = p
                         /\ block'[b].vctr \in 1 .. BLOCK_CTR_FULL - 1
                      <=> /\ At(b) \in mapped /\ block[b].mpool = p
                          /\ block[b].vctr \in 1 .. BLOCK_CTR_FULL - 1
    BY DEF PoolSet
  <2>1. CASE At(b) = s
    BY <1>4, <2>1 DEF BlocksOf
  <2>2. CASE At(b) # s
    BY <1>4, <2>2
  <2> QED BY <2>1, <2>2
<1>13. AvailSet = {} /\ AvailSet' = {s}
  <2>1. AvailSet = {}
    BY NoneAssumption DEF IInv, GpoolInv, Chain, AvailSet, Typed
  <2>2. superblock'[s].head # None
    <3>1. <<s, 1>> \in Block
      BY Places, CounterAssumption
    <3> QED BY <1>4, <3>1, NoneAssumption
  <2>3. \A x \in mapped : superblock'[x] = superblock[x]
    BY <1>4, <1>5
  <2> QED BY <1>9, <1>10, <2>1, <2>2, <2>3 DEF AvailSet
<1>14. VmaInv'
  <2>1. \A b : Resting(b)' = Resting(b)
    BY <1>1, <1>2 DEF Resting
  <2>2. ASSUME NEW b \in Block, At(b) \in mapped
        PROVE  /\ block'[b].head = Resting(b)'
               /\ block'[b].vctr = BLOCK_CTR_FULL - Cardinality(block'[b].head)
               /\ block'[b].vctr # 0 => block'[b].mpool \in Thread
    BY <1>4, <2>1, <2>2 DEF IInv, VmaInv
  <2>3. ASSUME NEW b \in Block, At(b) = s
        PROVE  /\ block'[b].head = Resting(b)'
               /\ block'[b].vctr = BLOCK_CTR_FULL - Cardinality(block'[b].head)
               /\ block'[b].vctr = 0
    <3>1. \A v \in VmasOf(b) : v \notin live
      BY <1>5, <2>3, Places DEF VmasOf
    <3>2. \A u \in Thread : pc[u] = "free" => myVma[u] \notin VmasOf(b)
      BY <1>5, <2>3 DEF IInv, VmaInv, VmasOf, HasBlock
    <3>3. Resting(b) = VmasOf(b)
      BY <3>1, <3>2 DEF Resting
    <3>4. block'[b].vctr = 0 /\ block'[b].head = VmasOf(b)
      BY <1>4, <2>3 DEF BlocksOf
    <3>5. Cardinality(VmasOf(b)) = BLOCK_CTR_FULL /\ BLOCK_CTR_FULL \in Nat
      BY Sizes, CounterAssumption
    <3> QED BY <2>1, <3>3, <3>4, <3>5
  <2>4. ASSUME NEW u \in Thread
        PROVE  /\ pc'[u] = "free" =>
                    /\ VmaBlock(myVma'[u]) = myBlock'[u]
                    /\ myVma'[u] \notin live'
                    /\ \A w \in Thread : pc'[w] = "free" /\ myVma'[w] = myVma'[u] => w = u
               /\ pc'[u] \in {"alloc_stolen", "return_superblock"} =>
                    block'[myBlock'[u]].vctr = 0
    BY <1>1, <1>2, <1>4, <1>5 DEF IInv, VmaInv, HasBlock, HoldsBlock
  <2> QED BY <2>2, <2>3, <2>4 DEF VmaInv
<1>15. SuperInv'
  <2>1. ASSUME NEW x \in mapped
        PROVE  /\ Taken(x)' = Taken(x)
               /\ superblock'[x].bctr = Cardinality(Taken(x)')
               /\ Chain(block', superblock'[x].head, Untaken(x)')
               /\ superblock'[x].bctr > 0 \/ \E u \in Thread : With(u, x)'
               /\ \A u \in Thread : pc'[u] \in PutPc /\ With(u, x)' => Taken(x)' = {}
    <3>1. superblock'[x] = superblock[x] /\ Untaken(x)' = Untaken(x)
      BY <1>4, <1>5, <1>11
    <3>2. \A c \in Untaken(x) : block'[c].next = block[c].next
      BY <1>4 DEF Untaken, BlocksOf
    <3>3. /\ Taken(x)' = Taken(x)
          /\ superblock'[x].bctr = Cardinality(Taken(x)')
          /\ Chain(block', superblock'[x].head, Untaken(x)')
      BY <3>1, <3>2, SuperFrame
    <3>4. \A u \in Thread : With(u, x)' <=> With(u, x)
      BY <1>1, <1>2, <1>3 DEF With, HasSuper
    <3>5. \A u \in Thread : pc'[u] \in PutPc => pc[u] \in PutPc
      BY <1>2 DEF PutPc
    <3> QED BY <3>1, <3>3, <3>4, <3>5 DEF IInv, SuperInv
  <2>2. /\ superblock'[s].bctr = Cardinality(Taken(s)')
        /\ Chain(block', superblock'[s].head, Untaken(s)')
        /\ \E u \in Thread : With(u, s)'
        /\ Taken(s)' = {}
    <3>1. Taken(s)' = {}
      BY <1>11 DEF Taken, BlocksOf
    <3>2. With(t, s)'
      BY <1>2, <1>3 DEF With, HasSuper
    <3> QED BY <1>4, <1>11, <3>1, <3>2, FS_EmptySet
  <2>3. ASSUME NEW u \in Thread, pc'[u] = "return_gpool"
        PROVE  (Untaken(At(myBlock[u])) = {myBlock[u]})'
    <3>1. pc[u] = "return_gpool" /\ At(myBlock[u]) \in mapped /\ myBlock'[u] = myBlock[u]
      BY <1>2, <1>5, <2>3 DEF HasBlock, HoldsBlock
    <3> QED BY <1>11, <3>1 DEF IInv, SuperInv
  <2> QED BY <2>1, <2>2, <2>3 DEF SuperInv
<1>16. PoolInv'
  <2>1. \A p \in Thread : /\ Chain(block', S_mpool_head'[p], PoolSet(p)')
                          /\ LinkedBack(block', PoolSet(p)')
    <3>1. \A p \in Thread : \A c \in PoolSet(p) : block'[c] = block[c]
      BY <1>4 DEF PoolSet
    <3> QED BY <1>12, <3>1, PoolFrame
  <2> QED BY <1>1, <1>2, <2>1 DEF IInv, PoolInv, Stealing
<1>17. GpoolInv'
  <2>1. Chain(superblock', s, {s})
    BY <1>4, ChainOne
  <2>2. LinkedBack(superblock', {s})
    BY <1>4 DEF LinkedBack
  <2> QED BY <1>13, <2>1, <2>2 DEF GpoolInv
<1> QED BY <1>6, <1>7, <1>8, <1>14, <1>15, <1>16, <1>17 DEF IInv

\* S_gpool, whichever
LEMMA StealGpoolStep ==
  ASSUME IInv, NEW t \in Thread, StealGpool(t)
  PROVE  IInv'
<1>1. CASE mapped' = mapped
  BY <1>1, StealGpoolOldStep
<1>2. CASE mapped' # mapped
  <2>1. PICK s \in Superblock \ mapped :
          /\ mapped' = mapped \cup {s} /\ S_gpool_head' = s /\ Setup(s)
          /\ S_gpool_head = None
          /\ mySuperblock' = [mySuperblock EXCEPT ![t] = s]
          /\ S_gpool_lock' = t /\ Goto(t, "steal_superblock")
          /\ UNCHANGED <<S_mpool_head, myBlock, myVma>>
    BY <1>2 DEF StealGpool
  <2> QED BY <2>1, StealGpoolNewStep
<1> QED BY <1>1, <1>2

\* Nobody gives a superblock back while another is inside a call.
LEMMA NoPut ==
  ASSUME IInv, NEW t \in Thread, pc[t] # "idle", pc[t] \notin PutPc
  PROVE  \A u \in Thread : pc[u] \notin PutPc
BY DEF IInv, Discipline, PutPc

\* A superblock loses its first block, and its place in S_gpool with its last.
LEMMA StealBlockStep ==
  ASSUME IInv, NEW t \in Thread, StealBlock(t)
  PROVE  IInv'
<1> SUFFICES ASSUME NEW b, b = myBlock[t], NEW s, s = mySuperblock[t],
                    NEW n, n = block[b].next
             PROVE  IInv'
  OBVIOUS
<1>0. StealBlockDoes(t, b, s, n)
  BY StealBlockEffect
<1>1. /\ pc[t] = "steal_block" /\ Goto(t, "alloc_stolen")
      /\ mySuperblock' = [mySuperblock EXCEPT ![t] = None]
      /\ UNCHANGED <<mapped, mode, phase, S_mpool_head, live, myBlock, myVma>>
  BY DEF StealBlock, Ready, client
<1>2. /\ b \in Untaken(s) /\ s \in AvailSet
      /\ superblock[s].head = b /\ S_gpool_head = s /\ S_gpool_lock = t
      /\ superblock[s].lock = t /\ block[b].lock = None
      /\ n = None => Untaken(s) = {b}
      /\ n # None => n \in Untaken(s) \ {b}
      /\ n = None => S_gpool_head' = superblock[s].next
      /\ n # None => S_gpool_head' = s
      /\ S_gpool_lock' = None
      /\ aborted' = FALSE
  BY <1>0 DEF StealBlockDoes
<1>3. /\ block' \in [Block -> BlockStruct]
      /\ \A c \in Block :
              /\ block'[c].vctr = block[c].vctr
              /\ block'[c].lock = IF c = b THEN t ELSE block[c].lock
              /\ block'[c].head = block[c].head /\ block'[c].mpool = block[c].mpool
              /\ block'[c].next = block[c].next
              /\ block'[c].prev = IF c = n THEN block[b].prev ELSE block[c].prev
  BY <1>0 DEF StealBlockDoes
<1>4. /\ superblock' \in [Superblock -> SuperblockStruct]
      /\ superblock'[s].bctr = superblock[s].bctr + 1
      /\ \A x \in Superblock : x # s => superblock'[x].bctr = superblock[x].bctr
      /\ \A x \in Superblock :
              /\ superblock'[x].lock = IF x = s THEN None ELSE superblock[x].lock
              /\ superblock'[x].head = IF x = s THEN n ELSE superblock[x].head
              /\ superblock'[x].next = superblock[x].next
              /\ superblock'[x].prev =
                   IF n = None /\ x = superblock[s].next
                     THEN superblock[s].prev ELSE superblock[x].prev
  BY <1>0 DEF StealBlockDoes
<1>5. /\ b \in Block /\ At(b) = s /\ s \in mapped /\ s \in Superblock
      /\ block[b].vctr = 0 /\ mapped \subseteq Superblock
      /\ block \in [Block -> BlockStruct] /\ superblock \in [Superblock -> SuperblockStruct]
  BY <1>2 DEF Untaken, BlocksOf, AvailSet, IInv, Typed
<1>6. /\ pc' \in [Thread -> Labels] /\ pc'[t] = "alloc_stolen"
      /\ \A u \in Thread : u # t => pc'[u] = pc[u]
      /\ mySuperblock' \in [Thread -> Superblock \cup {None}]
      /\ \A u \in Thread : u # t => mySuperblock'[u] = mySuperblock[u]
  BY <1>1, GotoEffect DEF IInv, Typed, Labels
<1>7. \A u \in Thread : pc[u] \notin PutPc
  BY <1>1, NoPut DEF PutPc
<1>8. \A u \in Thread : pc[u] \in HoldsBlock => myBlock[u] # b
  BY <1>2, NoneAssumption DEF IInv, LockInv
<1>9. \A u \in Thread : pc[u] = "return_gpool" =>
        At(myBlock[u]) # s /\ At(myBlock[u]) \in mapped
  BY <1>1, <1>2 DEF IInv, LockInv, Typed, HasBlock, HoldsBlock
<1>10. Typed'
  <2>1. S_gpool_head' \in Superblock \cup {None}
    BY <1>2, <1>5 DEF SuperblockStruct
  <2> QED BY <2>1, <1>1, <1>2, <1>3, <1>4, <1>5, <1>6 DEF IInv, Typed, HasBlock, HoldsBlock, HasSuper
<1>11. Discipline'
  BY <1>1, <1>3, <1>6 DEF IInv, Discipline, Typed, AllocPc, FreePc, PutPc, HasBlock
<1>12. LockInv'
  <2>1. \A u \in Thread : u # t => pc[u] \notin {"steal_superblock", "steal_block"}
    BY <1>2 DEF IInv, LockInv
  <2>2. \A u \in Thread : pc[u] \in HoldsBlock => block'[myBlock[u]].lock = u
    BY <1>3, <1>8 DEF IInv, LockInv, Typed, HasBlock
  <2>3. \A u \in Thread : pc[u] = "return_gpool" => superblock'[At(myBlock[u])].lock = u
    BY <1>4, <1>5, <1>9 DEF IInv, LockInv
  <2> QED BY <1>1, <1>3, <1>5, <1>6, <2>1, <2>2, <2>3 DEF LockInv, HoldsBlock
<1>13. /\ \A c : InHand(c)' <=> InHand(c) \/ c = b
       /\ \A x : Leaving(x)' <=> Leaving(x)
  BY <1>1, <1>6 DEF InHand, Leaving
<1>14. /\ Untaken(s)' = Untaken(s) \ {b}
       /\ \A x : x # s => Untaken(x)' = Untaken(x)
       /\ \A p : PoolSet(p)' = PoolSet(p)
  BY <1>1, <1>3, <1>5, <1>13 DEF Untaken, BlocksOf, PoolSet
<1>15. VmaInv'
  <2>1. \A c : Resting(c)' = Resting(c)
    BY <1>1, <1>6 DEF Resting
  <2>2. \A c \in Block : At(c) \in mapped =>
          /\ block'[c].head = Resting(c)'
          /\ block'[c].vctr = BLOCK_CTR_FULL - Cardinality(block'[c].head)
          /\ block'[c].vctr # 0 => block'[c].mpool \in Thread
    BY <1>3, <2>1 DEF IInv, VmaInv
  <2>3. \A u \in Thread : pc[u] \in {"alloc_stolen", "return_superblock"} =>
          block'[myBlock[u]].vctr = 0
    BY <1>3 DEF IInv, VmaInv, Typed, HasBlock, HoldsBlock
  <2>4. \A u \in Thread : pc[u] = "free" =>
            /\ VmaBlock(myVma[u]) = myBlock[u]
            /\ myVma[u] \notin live
            /\ \A w \in Thread : pc[w] = "free" /\ myVma[w] = myVma[u] => w = u
    BY DEF IInv, VmaInv
  <2>5. block'[myBlock[t]].vctr = 0
    BY <1>3, <1>5
  <2> QED BY <1>1, <1>6, <2>2, <2>3, <2>4, <2>5 DEF VmaInv
<1>16. SuperInv'
  <2>1. ASSUME NEW x \in mapped, x # s
        PROVE  /\ superblock'[x].bctr = Cardinality(Taken(x)')
               /\ Chain(block', superblock'[x].head, Untaken(x)')
               /\ superblock'[x].bctr > 0 \/ \E u \in Thread : With(u, x)'
    <3>1. superblock'[x].bctr = superblock[x].bctr /\ superblock'[x].head = superblock[x].head
      BY <1>4, <1>5, <2>1
    <3>2. \A c \in Untaken(x) : block'[c].next = block[c].next
      BY <1>3 DEF Untaken, BlocksOf
    <3>3. /\ superblock'[x].bctr = Cardinality(Taken(x)')
          /\ Chain(block', superblock'[x].head, Untaken(x)')
      BY <1>14, <2>1, <3>1, <3>2, SuperFrame
    <3>4. \A u \in Thread : With(u, x) => With(u, x)'
      BY <1>1, <1>6, <2>1 DEF With, HasSuper
    <3> QED BY <3>1, <3>3, <3>4 DEF IInv, SuperInv
  <2>2. /\ superblock'[s].bctr = Cardinality(Taken(s)')
        /\ Chain(block', superblock'[s].head, Untaken(s)')
        /\ superblock'[s].bctr > 0
    <3>1. Taken(s)' = Taken(s) \cup {b} /\ b \notin Taken(s)
      BY <1>2, <1>5, <1>14 DEF Taken, BlocksOf
    <3>2. /\ IsFiniteSet(Taken(s)) /\ Cardinality(Taken(s)) \in Nat
          /\ superblock[s].bctr = Cardinality(Taken(s))
      BY <1>5, SuperCount DEF IInv, SuperInv
    <3>3. Cardinality(Taken(s)') = superblock[s].bctr + 1
      <4>1. Cardinality(Taken(s) \cup {b}) = Cardinality(Taken(s)) + 1
        BY <3>1, <3>2, FS_AddElement
      <4> QED BY <3>1, <3>2, <4>1
    <3>4. superblock'[s].bctr = superblock[s].bctr + 1 /\ superblock'[s].head = n
      BY <1>4, <1>5
    <3>5. Chain(block', n, Untaken(s) \ {b})
      <4>1. /\ Chain(block, b, Untaken(s)) /\ b # None /\ None \notin Untaken(s)
        BY <1>2, <1>5, NoneAssumption DEF IInv, SuperInv, Untaken, BlocksOf
      <4>2. \A c \in Untaken(s) \ {b} : block'[c].next = block[c].next
        BY <1>3 DEF Untaken, BlocksOf
      <4> QED BY <4>1, <4>2, ChainPop
    <3> QED BY <1>14, <3>2, <3>3, <3>4, <3>5
  <2>3. \A u \in Thread : pc'[u] \notin PutPc
    BY <1>6, <1>7 DEF PutPc
  <2>4. ASSUME NEW u \in Thread, pc'[u] = "return_gpool"
        PROVE  (Untaken(At(myBlock[u])) = {myBlock[u]})'
    <3>1. pc[u] = "return_gpool" /\ At(myBlock[u]) # s /\ myBlock'[u] = myBlock[u]
      BY <1>1, <1>6, <1>9, <2>4
    <3> QED BY <1>14, <3>1 DEF IInv, SuperInv
  <2> QED BY <1>1, <2>1, <2>2, <2>3, <2>4 DEF SuperInv
<1>17. PoolInv'
  <2>1. ASSUME NEW p \in Thread
        PROVE  /\ Chain(block', S_mpool_head'[p], PoolSet(p)')
               /\ LinkedBack(block', PoolSet(p)')
    <3>1. \A c \in PoolSet(p) : c \in Block /\ c # n
      <4>1. n # None => block[n].vctr = 0
        BY <1>2 DEF Untaken
      <4> QED BY <4>1, NoneAssumption, CounterAssumption DEF PoolSet
    <3> QED BY <1>1, <1>3, <1>14, <3>1, PoolFrame
  <2> QED BY <1>1, <1>6, <2>1 DEF IInv, PoolInv, Stealing
<1>18. GpoolInv'
  <2>1. /\ Chain(superblock, S_gpool_head, AvailSet) /\ LinkedBack(superblock, AvailSet)
        /\ None \notin AvailSet /\ AvailSet \subseteq Superblock /\ s # None
    BY <1>5, NoneAssumption DEF IInv, GpoolInv, AvailSet
  <2>2. CASE n = None
    <3>1. AvailSet' = AvailSet \ {s}
      BY <1>1, <1>4, <1>5, <1>13, <2>2 DEF AvailSet
    <3>2. Chain(superblock', superblock[s].next, AvailSet \ {s})
      BY <1>2, <1>4, <2>1, ChainPop
    <3>3. LinkedBack(superblock', AvailSet \ {s})
      BY <1>2, <1>4, <2>1, LinkedPop
    <3> QED BY <1>2, <2>2, <3>1, <3>2, <3>3 DEF GpoolInv
  <2>3. CASE n # None
    <3>1. AvailSet' = AvailSet
      BY <1>1, <1>2, <1>4, <1>5, <1>13, <2>3 DEF AvailSet
    <3> QED BY <1>2, <1>4, <2>1, <2>3, <3>1, GpoolFrame DEF GpoolInv
  <2> QED BY <2>2, <2>3
<1> QED BY <1>10, <1>11, <1>12, <1>15, <1>16, <1>17, <1>18 DEF IInv

\* A block of which a vm_area is being freed counts that one.
LEMMA FreeInUse ==
  ASSUME IInv, NEW u \in Thread, pc[u] = "free"
  PROVE  /\ myBlock[u] \in Block /\ At(myBlock[u]) \in mapped
         /\ myVma[u] \in VmasOf(myBlock[u]) /\ myVma[u] \notin live
         /\ block[myBlock[u]].vctr # 0
<1> DEFINE b == myBlock[u]
<1>1. b \in Block /\ At(b) \in mapped /\ myVma[u] \in VmasOf(b) /\ myVma[u] \notin live
  BY DEF IInv, Typed, VmaInv, VmasOf, HasBlock
<1>2. myVma[u] \notin block[b].head
  BY <1>1 DEF IInv, VmaInv, Resting
<1> QED BY <1>1, <1>2, BlockCount

\* A stolen block becomes the one block of its thread's pool.
LEMMA AllocStolenStep ==
  ASSUME IInv, NEW t \in Thread, AllocStolen(t)
  PROVE  IInv'
<1> SUFFICES ASSUME NEW b, b = myBlock[t] PROVE IInv'
  OBVIOUS
<1>1. /\ pc[t] = "alloc_stolen" /\ Return(t)
      /\ UNCHANGED <<mapped, mode, phase, superblock, S_gpool_head, S_gpool_lock>>
  BY DEF AllocStolen, Ready, client
<1>0. PICK v \in block[b].head : AllocStolenDoes(t, b, v)
  BY AllocStolenEffect
<1>2. /\ b \in Block /\ At(b) \in mapped /\ block[b].lock = t /\ block[b].vctr = 0
      /\ block' \in [Block -> BlockStruct]
      /\ S_mpool_head' = [S_mpool_head EXCEPT ![t] = b]
      /\ aborted' = FALSE
  BY <1>0 DEF AllocStolenDoes
<1>3. /\ live' = live \cup {v}
      /\ \A c \in Block : c # b => block'[c] = block[c]
      /\ block'[b].vctr = 1 /\ block'[b].lock = None
      /\ block'[b].head = block[b].head \ {v}
      /\ block'[b].mpool = t
      /\ block'[b].prev = None /\ block'[b].next = None
  BY <1>0 DEF AllocStolenDoes
<1>4. /\ pc' \in [Thread -> Labels] /\ pc'[t] = "idle"
      /\ myBlock' \in [Thread -> Block \cup {None}]
      /\ mySuperblock' \in [Thread -> Superblock \cup {None}]
      /\ myVma' \in [Thread -> Vma \cup {None}]
      /\ \A u \in Thread : u # t =>
           /\ pc'[u] = pc[u] /\ myBlock'[u] = myBlock[u]
           /\ mySuperblock'[u] = mySuperblock[u] /\ myVma'[u] = myVma[u]
  BY <1>1, ReturnEffect DEF IInv
<1>5. /\ S_mpool_head' \in [Thread -> Block \cup {None}] /\ S_mpool_head'[t] = b
      /\ \A p \in Thread : p # t => S_mpool_head'[p] = S_mpool_head[p]
  BY <1>2 DEF IInv, Typed
<1>6. v \in Resting(b) /\ v \in VmasOf(b) /\ v \in Vma /\ v \notin live /\ Home[v] \in mapped
  BY <1>2, <1>3, Places DEF IInv, VmaInv, Resting, VmasOf
<1>7. \A u \in Thread : u # t /\ pc[u] \in HoldsBlock => myBlock[u] # b
  BY <1>2 DEF IInv, LockInv
<1>8. \A u \in Thread : pc[u] = "free" => myBlock[u] # b /\ myBlock[u] \in Block
  BY <1>2, FreeInUse
<1>9. Typed'
  BY <1>1, <1>2, <1>3, <1>4, <1>5, <1>6 DEF IInv, Typed, HasBlock, HoldsBlock, HasSuper
<1>10. Discipline'
  <2>1. \A u \in Thread : pc[u] = "free" => block'[myBlock[u]] = block[myBlock[u]]
    BY <1>3, <1>8
  <2> QED BY <1>1, <1>3, <1>4, <2>1 DEF IInv, Discipline, AllocPc, FreePc, PutPc
<1>11. LockInv'
  <2>1. \A u \in Thread : u # t /\ pc[u] \in HoldsBlock =>
          block'[myBlock[u]] = block[myBlock[u]]
    BY <1>3, <1>7 DEF IInv, Typed, HasBlock
  <2> QED BY <1>1, <1>4, <2>1 DEF IInv, LockInv, HoldsBlock
<1>12. /\ \A c : InHand(c)' <=> InHand(c) /\ c # b
       /\ \A x : Leaving(x)' <=> Leaving(x)
  BY <1>1, <1>4, <1>7 DEF InHand, Leaving, HoldsBlock
<1>13. /\ \A x : Untaken(x)' = Untaken(x)
       /\ \A x : b \notin Untaken(x)
       /\ AvailSet' = AvailSet
  <2>1. InHand(b)
    BY <1>1 DEF InHand
  <2> QED BY <1>1, <1>3, <1>12, <2>1 DEF Untaken, BlocksOf, AvailSet
<1>14. PoolSet(t) = {}
  <2>1. Chain(block, None, PoolSet(t))
    BY <1>1 DEF IInv, PoolInv, Stealing
  <2> QED BY <2>1, NoneAssumption DEF Chain, PoolSet
<1>15. /\ PoolSet(t)' = {b}
       /\ \A p \in Thread : p # t => PoolSet(p)' = PoolSet(p) /\ b \notin PoolSet(p)
  <2>1. BLOCK_CTR_FULL - 1 \in Nat /\ 1 \in 1 .. BLOCK_CTR_FULL - 1
    BY CounterAssumption
  <2>2. PoolSet(t)' = {b}
    BY <1>1, <1>2, <1>3, <1>14, <2>1 DEF PoolSet
  <2>3. \A p \in Thread : p # t => PoolSet(p)' = PoolSet(p) /\ b \notin PoolSet(p)
    BY <1>1, <1>2, <1>3, <2>1 DEF PoolSet
  <2> QED BY <2>2, <2>3
<1>16. VmaInv'
  <2>1. /\ Resting(b)' = Resting(b) \ {v}
        /\ \A c : c # b => Resting(c)' = Resting(c)
    BY <1>1, <1>3, <1>4, <1>6 DEF Resting, VmasOf
  <2>2. ASSUME NEW c \in Block, At(c) \in mapped, c # b
        PROVE  /\ block'[c].head = Resting(c)'
               /\ block'[c].vctr = BLOCK_CTR_FULL - Cardinality(block'[c].head)
               /\ block'[c].vctr # 0 => block'[c].mpool \in Thread
    BY <1>3, <2>1, <2>2 DEF IInv, VmaInv
  <2>3. /\ block'[b].head = Resting(b)'
        /\ block'[b].vctr = BLOCK_CTR_FULL - Cardinality(block'[b].head)
        /\ block'[b].mpool \in Thread
    <3>1. block[b].head = Resting(b) /\ block[b].vctr = BLOCK_CTR_FULL - Cardinality(block[b].head)
      BY <1>2 DEF IInv, VmaInv
    <3>2. IsFiniteSet(block[b].head) /\ Cardinality(block[b].head) \in Nat
      BY <1>2, BlockCount
    <3>3. Cardinality(block[b].head \ {v}) = Cardinality(block[b].head) - 1
      BY <3>2, FS_RemoveElement
    <3> QED BY <1>2, <1>3, <2>1, <3>1, <3>2, <3>3, CounterAssumption
  <2>4. ASSUME NEW u \in Thread, u # t
        PROVE  /\ pc[u] = "free" =>
                    /\ VmaBlock(myVma[u]) = myBlock[u]
                    /\ myVma[u] \notin live'
                    /\ \A w \in Thread : pc[w] = "free" /\ myVma[w] = myVma[u] => w = u
               /\ pc[u] \in {"alloc_stolen", "return_superblock"} =>
                    block'[myBlock[u]].vctr = 0
    <3>1. pc[u] = "free" => myVma[u] # v
      BY <1>6 DEF Resting
    <3>2. pc[u] \in {"alloc_stolen", "return_superblock"} =>
            block'[myBlock[u]] = block[myBlock[u]]
      BY <1>3, <1>7, <2>4 DEF HoldsBlock, HasBlock, IInv, Typed
    <3> QED BY <1>3, <3>1, <3>2 DEF IInv, VmaInv
  <2> QED BY <1>1, <1>4, <2>2, <2>3, <2>4 DEF VmaInv
<1>17. SuperInv'
  <2>1. \A x : \A c \in Untaken(x) : block'[c].next = block[c].next
    BY <1>3, <1>13 DEF Untaken, BlocksOf
  <2> QED BY <1>1, <1>4, <1>13, <2>1, SuperKept DEF With, HasSuper, PutPc
<1>18. PoolInv'
  <2>1. /\ Chain(block', S_mpool_head'[t], PoolSet(t)')
        /\ LinkedBack(block', PoolSet(t)')
    BY <1>3, <1>5, <1>15, ChainOne DEF LinkedBack
  <2>2. ASSUME NEW p \in Thread, p # t
        PROVE  /\ Chain(block', S_mpool_head'[p], PoolSet(p)')
               /\ LinkedBack(block', PoolSet(p)')
    <3>1. \A c \in PoolSet(p) : block'[c] = block[c]
      BY <1>3, <1>15, <2>2 DEF PoolSet
    <3> QED BY <1>5, <1>15, <2>2, <3>1, PoolFrame
  <2> QED BY <1>4, <1>5, <2>1, <2>2 DEF IInv, PoolInv, Stealing
<1>19. GpoolInv'
  BY <1>1, <1>13, GpoolFrame DEF GpoolInv
<1> QED BY <1>9, <1>10, <1>11, <1>16, <1>17, <1>18, <1>19 DEF IInv

\* The first block of the pool counts one more and leaves it with its last.
LEMMA AllocCachedStep ==
  ASSUME IInv, NEW t \in Thread, AllocCached(t)
  PROVE  IInv'
<1> SUFFICES ASSUME NEW b, b = myBlock[t] PROVE IInv'
  OBVIOUS
<1>1. /\ pc[t] = "alloc_cached" /\ Return(t)
      /\ UNCHANGED <<mapped, mode, phase, superblock, S_gpool_head, S_gpool_lock>>
  BY DEF AllocCached, Ready, client
<1>0. PICK v \in block[b].head : AllocCachedDoes(t, b, v)
  BY AllocCachedEffect
<1>2. /\ b \in PoolSet(t) /\ S_mpool_head[t] = b /\ block[b].lock = None
      /\ block' \in [Block -> BlockStruct]
      /\ aborted' = FALSE
  BY <1>0 DEF AllocCachedDoes
<1>3. /\ live' = live \cup {v}
      /\ block'[b].vctr = block[b].vctr + 1
      /\ block'[b].lock = None
      /\ block'[b].head = block[b].head \ {v}
      /\ \A c \in Block : c # b =>
           /\ block'[c].vctr = block[c].vctr /\ block'[c].lock = block[c].lock
           /\ block'[c].head = block[c].head
      /\ \A c \in Block :
           /\ block'[c].mpool = block[c].mpool
           /\ block'[c].next = block[c].next
           /\ block'[c].prev =
                IF block'[b].head = {} /\ c = block[b].next THEN block[b].prev
                ELSE block[c].prev
      /\ S_mpool_head' = [S_mpool_head EXCEPT ![t] =
           IF block'[b].head = {} THEN block[b].next ELSE b]
  BY <1>0 DEF AllocCachedDoes
<1>4. /\ pc' \in [Thread -> Labels] /\ pc'[t] = "idle"
      /\ myBlock' \in [Thread -> Block \cup {None}]
      /\ mySuperblock' \in [Thread -> Superblock \cup {None}]
      /\ myVma' \in [Thread -> Vma \cup {None}]
      /\ \A u \in Thread : u # t =>
           /\ pc'[u] = pc[u] /\ myBlock'[u] = myBlock[u]
           /\ mySuperblock'[u] = mySuperblock[u] /\ myVma'[u] = myVma[u]
  BY <1>1, ReturnEffect DEF IInv
<1>5. /\ b \in Block /\ At(b) \in mapped /\ block[b].mpool = t
      /\ block[b].vctr \in 1 .. BLOCK_CTR_FULL - 1 /\ BLOCK_CTR_FULL \in Nat
      /\ BLOCK_CTR_FULL > 1 /\ block \in [Block -> BlockStruct]
  BY <1>2, CounterAssumption DEF PoolSet, IInv, Typed
<1>6. /\ S_mpool_head' \in [Thread -> Block \cup {None}]
      /\ S_mpool_head'[t] = IF block'[b].head = {} THEN block[b].next ELSE b
      /\ \A p \in Thread : p # t => S_mpool_head'[p] = S_mpool_head[p]
  <2>1. block[b].next \in Block \cup {None}
    BY <1>5 DEF BlockStruct
  <2> QED BY <1>3, <1>5, <2>1 DEF IInv, Typed
<1>7. v \in Resting(b) /\ v \in VmasOf(b) /\ v \in Vma /\ v \notin live /\ Home[v] \in mapped
  BY <1>3, <1>5, Places DEF IInv, VmaInv, Resting, VmasOf
<1>8. \A u \in Thread : pc[u] \in HoldsBlock => myBlock[u] # b
  BY <1>2, NoneAssumption DEF IInv, LockInv
<1>9. /\ block'[b].vctr = BLOCK_CTR_FULL - Cardinality(block'[b].head)
      /\ block'[b].vctr \in 2 .. BLOCK_CTR_FULL
      /\ block'[b].vctr = BLOCK_CTR_FULL <=> block'[b].head = {}
  <2>1. /\ IsFiniteSet(block[b].head) /\ Cardinality(block[b].head) \in Nat
        /\ block[b].vctr = BLOCK_CTR_FULL - Cardinality(block[b].head)
    BY <1>5, BlockCount DEF IInv, VmaInv
  <2>2. /\ IsFiniteSet(block'[b].head)
        /\ Cardinality(block'[b].head) = Cardinality(block[b].head) - 1
        /\ Cardinality(block'[b].head) = 0 <=> block'[b].head = {}
    <3>1. block'[b].head = block[b].head \ {v}
      BY <1>3
    <3>2. /\ IsFiniteSet(block[b].head \ {v})
          /\ Cardinality(block[b].head \ {v}) = Cardinality(block[b].head) - 1
      BY <1>0, <2>1, FS_RemoveElement
    <3> QED BY <3>1, <3>2, FS_EmptySet
  <2> QED BY <1>3, <1>5, <2>1, <2>2
<1>10. Typed'
  BY <1>1, <1>2, <1>3, <1>4, <1>6, <1>7 DEF IInv, Typed, HasBlock, HoldsBlock, HasSuper
<1>11. Discipline'
  <2>1. \A u \in Thread : pc[u] = "free" => block'[myBlock[u]].mpool = block[myBlock[u]].mpool
    BY <1>3, FreeInUse
  <2> QED BY <1>1, <1>3, <1>4, <2>1 DEF IInv, Discipline, AllocPc, FreePc, PutPc
<1>12. LockInv'
  <2>1. \A u \in Thread : u # t /\ pc[u] \in HoldsBlock =>
          block'[myBlock[u]].lock = block[myBlock[u]].lock
    BY <1>3, <1>8 DEF IInv, Typed, HasBlock
  <2> QED BY <1>1, <1>4, <2>1 DEF IInv, LockInv, HoldsBlock
<1>13. /\ \A c : InHand(c)' <=> InHand(c)
       /\ \A x : Leaving(x)' <=> Leaving(x)
  BY <1>1, <1>4 DEF InHand, Leaving
<1>14. /\ \A x : Untaken(x)' = Untaken(x)
       /\ AvailSet' = AvailSet
  <2>1. \A c \in Block : block'[c].vctr = 0 <=> block[c].vctr = 0
    BY <1>3, <1>5, <1>9
  <2> QED BY <1>1, <1>13, <2>1 DEF Untaken, BlocksOf, AvailSet
<1>15. /\ PoolSet(t)' = IF block'[b].head = {} THEN PoolSet(t) \ {b} ELSE PoolSet(t)
       /\ \A p \in Thread : p # t => PoolSet(p)' = PoolSet(p)
  <2>1. block'[b].vctr \in 1 .. BLOCK_CTR_FULL - 1 <=> block'[b].head # {}
    BY <1>5, <1>9
  <2>2. \A c \in Block : c # b => block'[c].vctr = block[c].vctr
    BY <1>3
  <2>3. ASSUME NEW c, NEW p \in Thread
        PROVE  c \in PoolSet(p)' <=> c \in PoolSet(p) /\ (c = b => block'[b].head # {})
    <3>1. CASE c = b
      BY <1>1, <1>3, <1>5, <2>1, <3>1 DEF PoolSet
    <3>2. CASE c # b
      BY <1>1, <1>3, <2>2, <3>2 DEF PoolSet
    <3> QED BY <3>1, <3>2
  <2>4. \A p \in Thread : p # t => b \notin PoolSet(p)
    BY <1>5 DEF PoolSet
  <2> QED BY <2>3, <2>4
<1>16. VmaInv'
  <2>1. /\ Resting(b)' = Resting(b) \ {v}
        /\ \A c : c # b => Resting(c)' = Resting(c)
    BY <1>1, <1>3, <1>4, <1>7 DEF Resting, VmasOf
  <2>2. ASSUME NEW c \in Block, At(c) \in mapped, c # b
        PROVE  /\ block'[c].head = Resting(c)'
               /\ block'[c].vctr = BLOCK_CTR_FULL - Cardinality(block'[c].head)
               /\ block'[c].vctr # 0 => block'[c].mpool \in Thread
    BY <1>3, <2>1, <2>2 DEF IInv, VmaInv
  <2>3. /\ block'[b].head = Resting(b)'
        /\ block'[b].vctr = BLOCK_CTR_FULL - Cardinality(block'[b].head)
        /\ block'[b].mpool \in Thread
    BY <1>3, <1>5, <1>9, <2>1 DEF IInv, VmaInv
  <2>4. ASSUME NEW u \in Thread, u # t
        PROVE  /\ pc[u] = "free" =>
                    /\ VmaBlock(myVma[u]) = myBlock[u]
                    /\ myVma[u] \notin live'
                    /\ \A w \in Thread : pc[w] = "free" /\ myVma[w] = myVma[u] => w = u
               /\ pc[u] \in {"alloc_stolen", "return_superblock"} =>
                    block'[myBlock[u]].vctr = 0
    <3>1. pc[u] = "free" => myVma[u] # v
      BY <1>7 DEF Resting
    <3>2. pc[u] \in {"alloc_stolen", "return_superblock"} =>
            block'[myBlock[u]].vctr = block[myBlock[u]].vctr
      BY <1>3, <1>8, <2>4 DEF HoldsBlock, HasBlock, IInv, Typed
    <3> QED BY <1>3, <3>1, <3>2 DEF IInv, VmaInv
  <2> QED BY <1>1, <1>4, <2>2, <2>3, <2>4 DEF VmaInv
<1>17. SuperInv'
  <2>1. \A x : \A c \in Untaken(x) : block'[c].next = block[c].next
    BY <1>3 DEF Untaken, BlocksOf
  <2> QED BY <1>1, <1>4, <1>14, <2>1, SuperKept DEF With, HasSuper, PutPc
<1>18. PoolInv'
  <2>1. /\ Chain(block, b, PoolSet(t)) /\ LinkedBack(block, PoolSet(t))
        /\ \A p : None \notin PoolSet(p) /\ PoolSet(p) \subseteq Block
        /\ b # None
    BY <1>2, <1>5, NoneAssumption DEF IInv, PoolInv, PoolSet
  <2>2. /\ Chain(block', S_mpool_head'[t], PoolSet(t)')
        /\ LinkedBack(block', PoolSet(t)')
    <3>1. CASE block'[b].head = {}
      <4>1. Chain(block', block[b].next, PoolSet(t) \ {b})
        BY <1>3, <2>1, ChainPop
      <4>2. LinkedBack(block', PoolSet(t) \ {b})
        BY <1>3, <2>1, LinkedPop
      <4> QED BY <1>6, <1>15, <3>1, <4>1, <4>2
    <3>2. CASE block'[b].head # {}
      BY <1>2, <1>3, <1>6, <1>15, <2>1, <3>2, PoolFrame
    <3> QED BY <3>1, <3>2
  <2>3. ASSUME NEW p \in Thread, p # t
        PROVE  /\ Chain(block', S_mpool_head'[p], PoolSet(p)')
               /\ LinkedBack(block', PoolSet(p)')
    <3>1. block[b].next = None \/ block[b].next \in PoolSet(t)
      BY <1>2, <2>1, ChainNext
    <3>2. \A c \in PoolSet(p) : c # block[b].next
      BY <2>1, <2>3, <3>1 DEF PoolSet
    <3> QED BY <1>3, <1>6, <1>15, <2>1, <2>3, <3>2, PoolFrame
  <2> QED BY <1>4, <1>6, <2>2, <2>3 DEF IInv, PoolInv, Stealing
<1>19. GpoolInv'
  BY <1>1, <1>14, GpoolFrame DEF GpoolInv
<1> QED BY <1>10, <1>11, <1>12, <1>16, <1>17, <1>18, <1>19 DEF IInv

-----------------------------------------------------------------------------
(* vma_free *)

\* The call of vma_free
LEMMA CallFreeStep ==
  ASSUME IInv, NEW t \in Thread, CallFree(t)
  PROVE  IInv'
<1>1. /\ pc[t] = "idle" /\ MayCall("free") /\ Goto(t, "free")
      /\ UNCHANGED <<mapped, superblock, block, S_mpool_head, S_gpool_head, mode,
                     phase, S_gpool_lock, mySuperblock, aborted>>
  BY DEF CallFree, Ready, links, client
<1>2. PICK v \in live :
        /\ MayFree(t, v)
        /\ live' = live \ {v}
        /\ myVma' = [myVma EXCEPT ![t] = v]
        /\ myBlock' = [myBlock EXCEPT ![t] = VmaBlock(v)]
  BY DEF CallFree
<1> DEFINE b == VmaBlock(v)
<1>3. /\ v \in Vma /\ b \in Block /\ Home[v] = At(b) /\ At(b) \in mapped
  BY Places DEF IInv, Typed
<1> HIDE DEF b
<1>4. /\ pc' \in [Thread -> Labels] /\ pc'[t] = "free"
      /\ myBlock' \in [Thread -> Block \cup {None}] /\ myBlock'[t] = b
      /\ myVma' \in [Thread -> Vma \cup {None}] /\ myVma'[t] = v
      /\ \A u \in Thread : u # t =>
           /\ pc'[u] = pc[u] /\ myBlock'[u] = myBlock[u] /\ myVma'[u] = myVma[u]
  BY <1>1, <1>2, <1>3, GotoEffect DEF IInv, Typed, Labels, b
<1>5. Typed'
  BY <1>1, <1>2, <1>3, <1>4 DEF IInv, Typed, HasBlock, HoldsBlock, HasSuper
<1>6. Discipline'
  <2>1. mode # "serial" =>
          /\ \E w \in live' : Home[w] = At(b)
          /\ \A u \in Thread : pc[u] \in {"free", "return_superblock"} =>
               \E w \in live' : Home[w] = At(myBlock[u])
    BY <1>2, <1>3 DEF IInv, Discipline, SafeModes, MayFree
  <2>2. mode = "owner" => block[b].mpool = t
    BY <1>2 DEF MayFree, b
  <2>3. mode = "serial" => Quiet
    BY <1>1 DEF MayCall
  <2>4. mode = "phased" => phase = "free"
    BY <1>1 DEF MayCall
  <2> QED BY <1>1, <1>4, <2>1, <2>2, <2>3, <2>4
          DEF IInv, Discipline, Quiet, AllocPc, FreePc, PutPc
<1>7. LockInv'
  BY <1>1, <1>4 DEF IInv, LockInv, HoldsBlock
<1>8. /\ \A c : InHand(c)' <=> InHand(c)
      /\ \A s : Leaving(s)' <=> Leaving(s)
  BY <1>1, <1>4 DEF InHand, Leaving
<1>9. /\ \A s : Untaken(s)' = Untaken(s)
      /\ \A p : PoolSet(p)' = PoolSet(p)
      /\ AvailSet' = AvailSet
  BY <1>1, <1>8 DEF Untaken, PoolSet, AvailSet
<1>10. VmaInv'
  <2>1. \A c \in Block : Resting(c)' = Resting(c)
    BY <1>1, <1>2, <1>4 DEF Resting
  <2>2. \A u \in Thread : pc[u] = "free" => myVma[u] # v
    BY DEF IInv, VmaInv
  <2> QED BY <1>1, <1>2, <1>4, <2>1, <2>2 DEF IInv, VmaInv, b
<1>11. SuperInv'
  BY <1>1, <1>4, <1>9, SuperKept DEF With, HasSuper, PutPc
<1>12. PoolInv'
  BY <1>1, <1>4, <1>9, PoolFrame DEF IInv, PoolInv, Stealing
<1>13. GpoolInv'
  BY <1>1, <1>9, GpoolFrame DEF GpoolInv
<1> QED BY <1>5, <1>6, <1>7, <1>10, <1>11, <1>12, <1>13 DEF IInv

\* While a vm_area is freed, the thread whose pool its block is in, or goes back
\* to, is not inside vma_alloc.
LEMMA PoolNotInUse ==
  ASSUME IInv, NEW t \in Thread, pc[t] = "free",
         NEW p \in Thread, p = block[myBlock[t]].mpool
  PROVE  pc[p] \notin Stealing \cup {"alloc_cached"}
<1>1. mode \in SafeModes
  BY DEF IInv, Discipline
<1>2. CASE mode = "serial"
  BY <1>2 DEF IInv, Discipline, Stealing
<1>3. CASE mode = "owner"
  BY <1>3 DEF IInv, Discipline, Stealing
<1>4. CASE mode = "phased"
  <2>1. phase # "alloc"
    BY <1>4 DEF IInv, Discipline, AllocPc
  <2>2. pc[p] = "idle" \/ pc[p] \in FreePc
    BY <1>4, <2>1 DEF IInv, Discipline
  <2> QED BY <2>2 DEF FreePc, PutPc, Stealing
<1> QED BY <1>1, <1>2, <1>3, <1>4 DEF SafeModes

\* A block counts one less, and leaves or enters the list of its pool.
LEMMA FreeStep ==
  ASSUME IInv, NEW t \in Thread, Free(t)
  PROVE  IInv'
<1> SUFFICES ASSUME NEW b, b = myBlock[t], NEW v, v = myVma[t],
                    NEW p, p = block[b].mpool, NEW h, h = S_mpool_head[p]
             PROVE  IInv'
  OBVIOUS
<1>0. FreeDoes(t, b, v, p, h)
  BY FreeEffect
<1>1. /\ pc[t] = "free"
      /\ UNCHANGED <<mapped, mode, phase, superblock, S_gpool_head, S_gpool_lock, live>>
  BY DEF Free, Ready, client
<1>2. /\ b \in Block /\ At(b) \in mapped /\ p \in Thread /\ block[b].lock = None
      /\ v \in VmasOf(b) /\ v \notin block[b].head
      /\ block[b].vctr \in 1 .. BLOCK_CTR_FULL
      /\ aborted' = FALSE
      /\ block' \in [Block -> BlockStruct]
      /\ block'[b].vctr = block[b].vctr - 1
      /\ block'[b].head = block[b].head \cup {v}
      /\ \A c \in Block : c # b =>
           /\ block'[c].vctr = block[c].vctr /\ block'[c].head = block[c].head
           /\ block'[c].lock = block[c].lock
      /\ \A c \in Block : block'[c].mpool = block[c].mpool
  BY <1>0 DEF FreeDoes
<1>3. /\ BLOCK_CTR_FULL \in Nat /\ BLOCK_CTR_FULL > 1
      /\ block \in [Block -> BlockStruct] /\ S_mpool_head \in [Thread -> Block \cup {None}]
  BY CounterAssumption DEF IInv, Typed
<1>4. /\ pc' \in [Thread -> Labels]
      /\ myBlock' \in [Thread -> Block \cup {None}]
      /\ mySuperblock' \in [Thread -> Superblock \cup {None}]
      /\ myVma' \in [Thread -> Vma \cup {None}]
      /\ \A u \in Thread : u # t =>
           /\ pc'[u] = pc[u] /\ myBlock'[u] = myBlock[u]
           /\ mySuperblock'[u] = mySuperblock[u] /\ myVma'[u] = myVma[u]
      /\ \/ /\ pc'[t] = "return_superblock" /\ myBlock'[t] = b
            /\ block[b].vctr = 1 /\ block'[b].lock = t
         \/ /\ pc'[t] = "idle" /\ block[b].vctr # 1 /\ block'[b].lock = None
  <2>1. CASE /\ Goto(t, "return_superblock") /\ myVma' = [myVma EXCEPT ![t] = None]
             /\ UNCHANGED <<myBlock, mySuperblock>>
             /\ block[b].vctr = 1 /\ block'[b].lock = t
    BY <2>1, GotoEffect DEF IInv, Typed, Labels
  <2>2. CASE Return(t) /\ block[b].vctr # 1 /\ block'[b].lock = None
    BY <2>2, ReturnEffect DEF IInv
  <2>3. \/ /\ Goto(t, "return_superblock") /\ myVma' = [myVma EXCEPT ![t] = None]
           /\ UNCHANGED <<myBlock, mySuperblock>>
           /\ block[b].vctr = 1 /\ block'[b].lock = t
        \/ Return(t) /\ block[b].vctr # 1 /\ block'[b].lock = None
    <3>1. BLOCK_CTR_FULL # 1 /\ \A n \in 2 .. BLOCK_CTR_FULL - 1 : n # 1
      BY <1>3
    <3>2. \/ /\ Goto(t, "return_superblock") /\ myVma' = [myVma EXCEPT ![t] = None]
             /\ UNCHANGED <<myBlock, mySuperblock>>
             /\ block[b].vctr = 1 /\ block'[b].lock = t
          \/ Return(t) /\ block[b].vctr = BLOCK_CTR_FULL /\ block'[b].lock = None
          \/ Return(t) /\ block[b].vctr \in 2 .. BLOCK_CTR_FULL - 1 /\ block'[b].lock = None
      BY <1>0 DEF FreeDoes
    <3> QED BY <3>1, <3>2
  <2> QED BY <2>1, <2>2, <2>3
<1>5. S_mpool_head' \in [Thread -> Block \cup {None}]
      /\ \A q \in Thread : q # p => S_mpool_head'[q] = S_mpool_head[q]
  <2>1. block[b].next \in Block \cup {None} /\ h \in Block \cup {None}
    BY <1>2, <1>3 DEF BlockStruct
  <2>2. \/ S_mpool_head' = S_mpool_head
        \/ \E g \in Block \cup {None} : S_mpool_head' = [S_mpool_head EXCEPT ![p] = g]
    <3>1. \/ S_mpool_head' = S_mpool_head
          \/ S_mpool_head' = [S_mpool_head EXCEPT ![p] = IF h = b THEN block[b].next ELSE h]
          \/ S_mpool_head' = [S_mpool_head EXCEPT ![p] = b]
      BY <1>0 DEF FreeDoes
    <3> QED BY <1>2, <2>1, <3>1
  <2> QED BY <1>2, <1>3, <2>2
<1>6. \A u \in Thread : pc[u] \in HoldsBlock => myBlock[u] # b
  BY <1>2, NoneAssumption DEF IInv, LockInv
<1>7. Typed'
  BY <1>1, <1>2, <1>4, <1>5 DEF IInv, Typed, HasBlock, HoldsBlock, HasSuper
<1>8. Discipline'
  <2>1. \A u \in Thread : pc[u] = "free" => block'[myBlock[u]].mpool = block[myBlock[u]].mpool
    BY <1>2, FreeInUse
  <2> QED BY <1>1, <1>4, <2>1 DEF IInv, Discipline, AllocPc, FreePc, PutPc
<1>9. LockInv'
  <2>1. \A u \in Thread : u # t /\ pc[u] \in HoldsBlock =>
          block'[myBlock[u]].lock = block[myBlock[u]].lock
    BY <1>2, <1>6 DEF IInv, Typed, HasBlock
  <2> QED BY <1>1, <1>4, <2>1 DEF IInv, LockInv, HoldsBlock
<1>10. /\ \A c : c # b => (InHand(c)' <=> InHand(c))
       /\ InHand(b)' <=> block[b].vctr = 1
       /\ ~InHand(b)
       /\ \A x : Leaving(x)' <=> Leaving(x)
  BY <1>1, <1>4, <1>6 DEF InHand, Leaving, HoldsBlock
<1>11. /\ \A x : Untaken(x)' = Untaken(x)
       /\ \A x : b \notin Untaken(x)
       /\ AvailSet' = AvailSet
  <2>1. /\ block[b].vctr # 0
        /\ block'[b].vctr = 0 <=> block[b].vctr = 1
    BY <1>2, <1>3
  <2>2. \A x : b \notin Untaken(x) /\ b \notin Untaken(x)'
    BY <1>10, <2>1 DEF Untaken
  <2>3. ASSUME NEW x, NEW c, c # b PROVE c \in Untaken(x)' <=> c \in Untaken(x)
    BY <1>2, <1>10, <2>3 DEF Untaken, BlocksOf
  <2> QED BY <1>1, <1>10, <2>2, <2>3 DEF AvailSet
<1>12. VmaInv'
  <2>1. /\ Resting(b)' = Resting(b) \cup {v}
        /\ \A c : c # b => Resting(c)' = Resting(c)
    <3>1. v \notin live /\ \A u \in Thread : pc[u] = "free" /\ u # t => myVma[u] # v
      BY <1>1 DEF IInv, VmaInv
    <3>2. \A c : c # b => v \notin VmasOf(c)
      BY <1>2 DEF VmasOf
    <3> QED BY <1>1, <1>2, <1>4, <3>1, <3>2 DEF Resting
  <2>2. ASSUME NEW c \in Block, At(c) \in mapped, c # b
        PROVE  /\ block'[c].head = Resting(c)'
               /\ block'[c].vctr = BLOCK_CTR_FULL - Cardinality(block'[c].head)
               /\ block'[c].vctr # 0 => block'[c].mpool \in Thread
    BY <1>2, <2>1, <2>2 DEF IInv, VmaInv
  <2>3. /\ block'[b].head = Resting(b)'
        /\ block'[b].vctr = BLOCK_CTR_FULL - Cardinality(block'[b].head)
        /\ block'[b].mpool \in Thread
    <3>1. block[b].head = Resting(b) /\ block[b].vctr = BLOCK_CTR_FULL - Cardinality(block[b].head)
      BY <1>2 DEF IInv, VmaInv
    <3>2. IsFiniteSet(block[b].head) /\ Cardinality(block[b].head) \in Nat
      BY <1>2, BlockCount
    <3>3. Cardinality(block[b].head \cup {v}) = Cardinality(block[b].head) + 1
      BY <1>2, <3>2, FS_AddElement
    <3> QED BY <1>2, <1>3, <2>1, <3>1, <3>2, <3>3
  <2>4. ASSUME NEW u \in Thread, u # t
        PROVE  pc[u] \in {"alloc_stolen", "return_superblock"} =>
                 block'[myBlock[u]].vctr = 0
    <3>1. pc[u] \in {"alloc_stolen", "return_superblock"} =>
            block'[myBlock[u]].vctr = block[myBlock[u]].vctr
      BY <1>2, <1>6 DEF HoldsBlock, HasBlock, IInv, Typed
    <3> QED BY <3>1 DEF IInv, VmaInv
  <2>5. pc'[t] = "return_superblock" => block'[myBlock'[t]].vctr = 0
    BY <1>2, <1>4
  <2>6. \A u \in Thread : pc'[u] = "free" => u # t
    BY <1>4
  <2>7. \A u \in Thread : u # t /\ pc[u] = "free" =>
           /\ VmaBlock(myVma[u]) = myBlock[u]
           /\ myVma[u] \notin live
           /\ \A w \in Thread : pc[w] = "free" /\ myVma[w] = myVma[u] => w = u
    BY DEF IInv, VmaInv
  <2> QED BY <1>1, <1>4, <2>2, <2>3, <2>4, <2>5, <2>6, <2>7 DEF VmaInv
<1>13. SuperInv'
  <2>1. \A x : \A c \in Untaken(x) : block'[c].next = block[c].next
    <3>1. \A x : \A c \in Untaken(x) : c \in Block /\ c \notin PoolSet(p) /\ c # b
      BY <1>11, CounterAssumption DEF Untaken, BlocksOf, PoolSet
    <3>2. \/ /\ h # b => block[b].prev \in PoolSet(p)
             /\ \A c \in Block :
                  block'[c].next = IF h # b /\ c = block[b].prev THEN block[b].next
                                   ELSE block[c].next
          \/ \A c \in Block : block'[c].next = IF c = b THEN h ELSE block[c].next
          \/ \A c \in Block : block'[c].next = block[c].next
      BY <1>0 DEF FreeDoes
    <3>3. \A c \in Block : c \notin PoolSet(p) /\ c # b => block'[c].next = block[c].next
      BY <3>2
    <3> QED BY <3>1, <3>3
  <2> QED BY <1>1, <1>4, <1>11, <2>1, SuperKept DEF With, HasSuper, PutPc
<1>14. PoolInv'
  <2>1. /\ Chain(block, h, PoolSet(p)) /\ LinkedBack(block, PoolSet(p))
        /\ \A q : None \notin PoolSet(q) /\ PoolSet(q) \subseteq Block
        /\ b # None
    BY <1>2, NoneAssumption DEF IInv, PoolInv, PoolSet
  <2>2. \A q \in Thread : q # p =>
          /\ PoolSet(q)' = PoolSet(q)
          /\ \A c \in PoolSet(q) : c \notin PoolSet(p) /\ c # b
    <3>1. \A q \in Thread : q # p => b \notin PoolSet(q) /\ b \notin PoolSet(q)'
      BY <1>2 DEF PoolSet
    <3>2. ASSUME NEW q \in Thread, NEW c, c # b PROVE c \in PoolSet(q)' <=> c \in PoolSet(q)
      BY <1>1, <1>2, <3>2 DEF PoolSet
    <3>3. ASSUME NEW q \in Thread, q # p PROVE PoolSet(q)' = PoolSet(q)
      <4>1. ASSUME NEW c PROVE c \in PoolSet(q)' <=> c \in PoolSet(q)
        BY <3>1, <3>2, <3>3
      <4> QED BY <4>1
    <3>4. \A q \in Thread : q # p => \A c \in PoolSet(q) : c \notin PoolSet(p)
      BY DEF PoolSet
    <3> QED BY <3>1, <3>3, <3>4
  <2>3. \A c : c # b => (c \in PoolSet(p)' <=> c \in PoolSet(p))
    BY <1>1, <1>2 DEF PoolSet
  <2>4. b \in PoolSet(p)' <=> block[b].vctr # 1
    BY <1>1, <1>2, <1>3 DEF PoolSet
  <2>5. b \in PoolSet(p) <=> block[b].vctr # BLOCK_CTR_FULL
    <3>1. block[b].vctr \in 1 .. BLOCK_CTR_FULL - 1 <=> block[b].vctr # BLOCK_CTR_FULL
      BY <1>2, <1>3
    <3> QED BY <1>2, <3>1 DEF PoolSet
  <2>6. CASE /\ block[b].vctr = 1
             /\ h # b => block[b].prev \in PoolSet(p) /\ block[block[b].prev].next = b
             /\ \A c \in Block :
                  /\ block'[c].next = IF h # b /\ c = block[b].prev THEN block[b].next
                                      ELSE block[c].next
                  /\ block'[c].prev = IF c = block[b].next THEN block[b].prev
                                      ELSE block[c].prev
             /\ S_mpool_head' = [S_mpool_head EXCEPT ![p] =
                                   IF h = b THEN block[b].next ELSE h]
    <3>1. b \in PoolSet(p) /\ PoolSet(p)' = PoolSet(p) \ {b}
      BY <1>3, <2>3, <2>4, <2>5, <2>6
    <3>2. S_mpool_head'[p] = IF h = b THEN block[b].next ELSE h
      BY <1>2, <1>3, <2>6
    <3>3. Chain(block', S_mpool_head'[p], PoolSet(p)') /\ LinkedBack(block', PoolSet(p)')
      <4>1. CASE h = b
        <5>1. Chain(block', block[b].next, PoolSet(p) \ {b})
          BY <2>1, <2>6, <4>1, ChainPop
        <5>2. LinkedBack(block', PoolSet(p) \ {b})
          BY <2>1, <2>6, <4>1, LinkedPop
        <5> QED BY <3>1, <3>2, <4>1, <5>1, <5>2
      <4>2. CASE h # b
        <5> DEFINE l == block[b].prev
        <5>1. /\ l \in PoolSet(p) /\ block[l].next = b /\ b # l
              /\ block[b].next = None \/ block[b].next \in PoolSet(p)
          BY <2>1, <2>6, <3>1, <4>2, ChainNext
        <5>2. /\ block'[l].next = block[b].next
              /\ \A c \in PoolSet(p) \ {b, l} : block'[c].next = block[c].next
              /\ block[b].next # None => block'[block[b].next].prev = l
              /\ \A c \in PoolSet(p) \ {b} : c # block[b].next => block'[c].prev = block[c].prev
          BY <2>1, <2>6, <4>2, <5>1
        <5> HIDE DEF l
        <5>3. Chain(block', h, PoolSet(p) \ {b})
          BY <2>1, <3>1, <4>2, <5>1, <5>2, ChainDelete
        <5>4. LinkedBack(block', PoolSet(p) \ {b})
          BY <2>1, <3>1, <4>2, <5>1, <5>2, LinkedDelete
        <5> QED BY <3>1, <3>2, <4>2, <5>3, <5>4
      <4> QED BY <4>1, <4>2
    <3>4. block[b].next = None \/ block[b].next \in PoolSet(p)
      BY <2>1, <3>1, ChainNext
    <3>5. \A q \in Thread : q # p => \A c \in PoolSet(q) :
            block'[c].next = block[c].next /\ block'[c].prev = block[c].prev
      BY <2>1, <2>2, <2>6, <3>4
    <3>6. \A q \in Thread : q # p =>
            Chain(block', S_mpool_head'[q], PoolSet(q)') /\ LinkedBack(block', PoolSet(q)')
      BY <1>5, <2>2, <3>5, PoolFrame
    <3> QED BY <3>3, <3>6, <1>1, <1>4, <1>5, PoolNotInUse DEF IInv, PoolInv, Stealing
  <2>7. CASE /\ block[b].vctr = BLOCK_CTR_FULL /\ h # b
             /\ \A c \in Block :
                  /\ block'[c].next = IF c = b THEN h ELSE block[c].next
                  /\ block'[c].prev = IF c = h THEN b ELSE block[c].prev
             /\ S_mpool_head' = [S_mpool_head EXCEPT ![p] = b]
    <3>1. b \notin PoolSet(p) /\ PoolSet(p)' = PoolSet(p) \cup {b}
      BY <1>3, <2>3, <2>4, <2>5, <2>7
    <3>2. S_mpool_head'[p] = b
      BY <1>2, <1>3, <2>7
    <3>3. /\ block'[b].next = h
          /\ h # None => block'[h].prev = b
          /\ \A c \in PoolSet(p) : block'[c].next = block[c].next
          /\ \A c \in PoolSet(p) : c # h => block'[c].prev = block[c].prev
      <4>1. h # None => h \in PoolSet(p)
        BY <2>1 DEF Chain
      <4> QED BY <1>2, <2>1, <2>7, <3>1, <4>1
    <3>4. Chain(block', b, PoolSet(p) \cup {b})
      BY <2>1, <3>1, <3>3, ChainPush
    <3>5. LinkedBack(block', PoolSet(p) \cup {b})
      BY <2>1, <3>1, <3>3, LinkedPush
    <3>6. h # None => h \in PoolSet(p)
      BY <2>1 DEF Chain
    <3>7. \A q \in Thread : q # p => \A c \in PoolSet(q) :
            block'[c].next = block[c].next /\ block'[c].prev = block[c].prev
      BY <2>1, <2>2, <2>7, <3>6
    <3>8. \A q \in Thread : q # p =>
            Chain(block', S_mpool_head'[q], PoolSet(q)') /\ LinkedBack(block', PoolSet(q)')
      BY <1>5, <2>2, <3>7, PoolFrame
    <3>9. pc'[p] \notin Stealing \cup {"alloc_cached"}
      <4>1. pc[p] \notin Stealing \cup {"alloc_cached"}
        BY <1>1, <1>2, PoolNotInUse
      <4> QED BY <1>2, <1>4, <4>1 DEF Stealing
    <3>10. ASSUME NEW q \in Thread, q # p
           PROVE  /\ pc'[q] \in Stealing => S_mpool_head'[q] = None
                  /\ pc'[q] = "alloc_cached" => /\ myBlock'[q] = S_mpool_head'[q]
                                                /\ myBlock'[q] # None
      <4>1. S_mpool_head'[q] = S_mpool_head[q]
        BY <1>5, <3>10
      <4> QED BY <1>4, <4>1 DEF IInv, PoolInv, Stealing
    <3>11. Chain(block', S_mpool_head'[p], PoolSet(p)') /\ LinkedBack(block', PoolSet(p)')
      BY <3>1, <3>2, <3>4, <3>5
    <3> QED BY <3>8, <3>9, <3>10, <3>11 DEF PoolInv
  <2>8. CASE /\ block[b].vctr \in 2 .. BLOCK_CTR_FULL - 1
             /\ \A c \in Block : /\ block'[c].next = block[c].next
                                 /\ block'[c].prev = block[c].prev
             /\ S_mpool_head' = S_mpool_head
    <3>1. PoolSet(p)' = PoolSet(p)
      <4>1. b \in PoolSet(p)' /\ b \in PoolSet(p)
        BY <1>3, <2>4, <2>5, <2>8
      <4>2. ASSUME NEW c PROVE c \in PoolSet(p)' <=> c \in PoolSet(p)
        BY <2>3, <4>1
      <4> QED BY <4>2
    <3>2. \A q \in Thread :
            Chain(block', S_mpool_head'[q], PoolSet(q)') /\ LinkedBack(block', PoolSet(q)')
      BY <2>1, <2>2, <2>8, <3>1, PoolFrame
    <3> QED BY <3>2, <2>8, <1>1, <1>4 DEF IInv, PoolInv, Stealing
  <2> QED BY <1>0, <2>6, <2>7, <2>8 DEF FreeDoes
<1>15. GpoolInv'
  BY <1>1, <1>11, GpoolFrame DEF GpoolInv
<1> QED BY <1>7, <1>8, <1>9, <1>12, <1>13, <1>14, <1>15 DEF IInv

\* A block comes back to its superblock, which is full now, has a block again,
\* or had one already.
LEMMA ReturnSuperblockStep ==
  ASSUME IInv, NEW t \in Thread, ReturnSuperblock(t)
  PROVE  IInv'
<1> SUFFICES ASSUME NEW b, b = myBlock[t], NEW s, s = At(b),
                    NEW h, h = superblock[s].head
             PROVE  IInv'
  OBVIOUS
<1>0. ReturnSuperblockDoes(t, b, s, h)
  BY ReturnSuperblockEffect
<1>1. /\ pc[t] = "return_superblock"
      /\ UNCHANGED <<mapped, mode, phase, S_mpool_head, S_gpool_head, S_gpool_lock,
                     live, myBlock, mySuperblock, myVma, aborted>>
  BY DEF ReturnSuperblock, Ready, client
<1>2. /\ b \in Block /\ s \in mapped /\ s \in Superblock
      /\ superblock[s].lock = None
      /\ block[b].vctr = 0 /\ b \in Taken(s) /\ block[b].lock = t
      /\ superblock[s].bctr \in 1 .. SUPERBLOCK_CTR_FULL
      /\ h # b /\ h \in Untaken(s) \cup {None}
      /\ superblock' \in [Superblock -> SuperblockStruct]
      /\ \A x \in Superblock : x # s => superblock'[x] = superblock[x]
      /\ superblock'[s].bctr = superblock[s].bctr - 1 /\ superblock'[s].head = b
      /\ superblock'[s].next = superblock[s].next
      /\ superblock'[s].prev = superblock[s].prev
  BY <1>0 DEF ReturnSuperblockDoes
<1>3. /\ block' \in [Block -> BlockStruct]
      /\ \A c \in Block :
           /\ block'[c].vctr = block[c].vctr /\ block'[c].lock = block[c].lock
           /\ block'[c].head = block[c].head /\ block'[c].mpool = block[c].mpool
           /\ block'[c].next = IF c = b THEN h ELSE block[c].next
           /\ block'[c].prev = IF c = h THEN b ELSE block[c].prev
  BY <1>0 DEF ReturnSuperblockDoes
<1>4. /\ pc' \in [Thread -> Labels]
      /\ \A u \in Thread : u # t => pc'[u] = pc[u]
      /\ \/ /\ superblock[s].bctr = 1 /\ h # None
            /\ superblock'[s].lock = None /\ pc'[t] = "put_block"
         \/ /\ superblock[s].bctr # 1 /\ h = None
            /\ superblock'[s].lock = t /\ pc'[t] = "return_gpool"
         \/ /\ superblock[s].bctr # 1 /\ h # None
            /\ superblock'[s].lock = None /\ pc'[t] = "return_block"
  <2>1. Typed /\ {"put_block", "return_gpool", "return_block"} \subseteq Labels
    BY DEF IInv, Labels
  <2> QED BY <1>0, <2>1, GotoEffect DEF ReturnSuperblockDoes
<1>5. mode # "serial" => superblock[s].bctr # 1
  <2> SUFFICES ASSUME mode # "serial" PROVE superblock[s].bctr # 1
    OBVIOUS
  <2>1. PICK w \in live : Home[w] = s
    BY <1>1 DEF IInv, Discipline
  <2> DEFINE c == VmaBlock(w)
  <2>2. w \in Vma /\ c \in Block /\ At(c) = s
    BY <2>1, Places DEF IInv, Typed
  <2>3. w \in VmasOf(c) /\ w \notin block[c].head
    BY <1>2, <2>2 DEF IInv, VmaInv, VmasOf, Resting
  <2>4. block[c].vctr # 0
    BY <1>2, <2>2, <2>3, BlockCount
  <2>5. c \in Taken(s) /\ c # b
    BY <1>2, <2>2, <2>4 DEF Taken, Untaken, BlocksOf
  <2>6. IsFiniteSet(Taken(s)) /\ superblock[s].bctr = Cardinality(Taken(s))
    BY <1>2, SuperCount DEF IInv, SuperInv
  <2>7. /\ IsFiniteSet(Taken(s) \ {b})
        /\ Cardinality(Taken(s) \ {b}) = Cardinality(Taken(s)) - 1
    BY <1>2, <2>6, FS_RemoveElement
  <2>8. Cardinality(Taken(s) \ {b}) # 0
    BY <2>5, <2>7, FS_EmptySet
  <2> QED BY <2>6, <2>7, <2>8
<1>6. Typed'
  BY <1>1, <1>2, <1>3, <1>4 DEF IInv, Typed, HasBlock, HoldsBlock, HasSuper
<1>7. Discipline'
  <2>1. \A u \in Thread : pc[u] = "free" => block'[myBlock[u]].mpool = block[myBlock[u]].mpool
    BY <1>3 DEF IInv, Typed, HasBlock
  <2> QED BY <1>1, <1>4, <1>5, <2>1 DEF IInv, Discipline, AllocPc, FreePc, PutPc
<1>8. \A u \in Thread : /\ pc[u] = "return_gpool" => At(myBlock[u]) # s
                        /\ pc[u] = "steal_block" => mySuperblock[u] # s
                        /\ pc[u] \in HoldsBlock /\ u # t => myBlock[u] # b
  BY <1>2, NoneAssumption DEF IInv, LockInv
<1>9. LockInv'
  <2>1. \A u \in Thread : pc[u] \in HoldsBlock =>
          block'[myBlock[u]].lock = block[myBlock[u]].lock
    BY <1>3 DEF IInv, Typed, HasBlock
  <2>2. \A u \in Thread : /\ pc[u] = "steal_block" =>
                               superblock'[mySuperblock[u]] = superblock[mySuperblock[u]]
                          /\ pc[u] = "return_gpool" =>
                               superblock'[At(myBlock[u])] = superblock[At(myBlock[u])]
    BY <1>2, <1>8 DEF IInv, Typed, HasBlock, HoldsBlock, HasSuper
  <2> QED BY <1>1, <1>2, <1>3, <1>4, <2>1, <2>2 DEF IInv, LockInv, HoldsBlock
<1>10. /\ \A c : c # b => (InHand(c)' <=> InHand(c))
       /\ ~InHand(b)'
       /\ \A x : x # s => (Leaving(x)' <=> Leaving(x))
       /\ h # None => (Leaving(s)' <=> Leaving(s))
       /\ h = None => Leaving(s)'
  BY <1>1, <1>4, <1>8 DEF InHand, Leaving, HoldsBlock
<1>11. /\ \A x : x # s => Untaken(x)' = Untaken(x)
       /\ Untaken(s)' = Untaken(s) \cup {b}
       /\ b \notin Untaken(s)
       /\ Taken(s)' = Taken(s) \ {b}
  <2>1. b \in BlocksOf(s) /\ b \notin Untaken(s)
    BY <1>2 DEF Taken
  <2>2. ASSUME NEW x, NEW c, c # b PROVE c \in Untaken(x)' <=> c \in Untaken(x)
    BY <1>3, <1>10, <2>2 DEF Untaken, BlocksOf
  <2>3. b \in Untaken(s)'
    BY <1>2, <1>3, <1>10, <2>1 DEF Untaken, BlocksOf
  <2>4. \A x : x # s => b \notin Untaken(x) /\ b \notin Untaken(x)'
    BY DEF Untaken, BlocksOf
  <2>5. ASSUME NEW x, x # s PROVE Untaken(x)' = Untaken(x)
    <3>1. ASSUME NEW c PROVE c \in Untaken(x)' <=> c \in Untaken(x)
      BY <2>2, <2>4, <2>5
    <3> QED BY <3>1
  <2>6. Untaken(s)' = Untaken(s) \cup {b}
    <3>1. ASSUME NEW c PROVE c \in Untaken(s)' <=> c \in Untaken(s) \cup {b}
      BY <2>2, <2>3
    <3> QED BY <3>1
  <2> QED BY <2>1, <2>5, <2>6 DEF Taken
<1>12. VmaInv'
  <2>1. \A c : Resting(c)' = Resting(c)
    BY <1>1, <1>4 DEF Resting
  <2>2. \A u \in Thread : pc[u] \in {"alloc_stolen", "return_superblock"} =>
           block'[myBlock[u]].vctr = block[myBlock[u]].vctr
    BY <1>3 DEF IInv, Typed, HasBlock, HoldsBlock
  <2>3. \A u \in Thread : pc'[u] \in {"free", "alloc_stolen", "return_superblock"} =>
           u # t /\ pc'[u] = pc[u]
    BY <1>4
  <2> QED BY <1>1, <1>3, <2>1, <2>2, <2>3 DEF IInv, VmaInv
<1>13. SuperInv'
  <2>1. \A u \in Thread : \A x :
          /\ With(u, x) => With(u, x)'
          /\ With(u, x)' /\ u # t => With(u, x)
          /\ With(t, x)' => pc'[t] = "put_block" /\ x = s
    BY <1>1, <1>4 DEF With, HasSuper
  <2>2. ASSUME NEW x \in mapped, x # s
        PROVE  /\ superblock'[x].bctr = Cardinality(Taken(x)')
               /\ Chain(block', superblock'[x].head, Untaken(x)')
               /\ superblock'[x].bctr > 0 \/ \E u \in Thread : With(u, x)'
               /\ \A u \in Thread : pc'[u] \in PutPc /\ With(u, x)' => Taken(x)' = {}
    <3>1. superblock'[x] = superblock[x] /\ Untaken(x)' = Untaken(x)
      BY <1>2, <1>11, <2>2 DEF IInv, Typed
    <3>2. \A c \in Untaken(x) : block'[c].next = block[c].next
      BY <1>3, <2>2 DEF Untaken, BlocksOf
    <3>3. /\ Taken(x)' = Taken(x)
          /\ superblock'[x].bctr = Cardinality(Taken(x)')
          /\ Chain(block', superblock'[x].head, Untaken(x)')
      BY <3>1, <3>2, SuperFrame
    <3> QED BY <1>4, <2>1, <2>2, <3>1, <3>3 DEF IInv, SuperInv
  <2>3. /\ superblock'[s].bctr = Cardinality(Taken(s)')
        /\ superblock'[s].bctr = 0 => Taken(s)' = {}
    <3>1. IsFiniteSet(Taken(s)) /\ superblock[s].bctr = Cardinality(Taken(s))
      BY <1>2, SuperCount DEF IInv, SuperInv
    <3>2. /\ IsFiniteSet(Taken(s) \ {b})
          /\ Cardinality(Taken(s) \ {b}) = Cardinality(Taken(s)) - 1
      BY <1>2, <3>1, FS_RemoveElement
    <3> QED BY <1>2, <1>11, <3>1, <3>2, FS_EmptySet
  <2>4. Chain(block', b, Untaken(s) \cup {b})
    <3>1. /\ Chain(block, h, Untaken(s)) /\ None \notin Untaken(s) /\ b # None
          /\ Untaken(s) \subseteq Block
      BY <1>2, NoneAssumption DEF IInv, SuperInv, Untaken, BlocksOf
    <3>2. block'[b].next = h /\ \A c \in Untaken(s) : block'[c].next = block[c].next
      BY <1>2, <1>3, <1>11, <3>1
    <3> QED BY <1>11, <3>1, <3>2, ChainPush
  <2>5. superblock'[s].bctr > 0 \/ With(t, s)'
    <3>1. CASE superblock[s].bctr = 1
      BY <1>1, <1>4, <3>1 DEF With
    <3>2. CASE superblock[s].bctr # 1
      BY <1>2, <3>2
    <3> QED BY <3>1, <3>2
  <2>6. ASSUME NEW u \in Thread, pc'[u] \in PutPc, With(u, s)'
        PROVE  Taken(s)' = {}
    <3>1. CASE u = t
      BY <1>2, <1>4, <2>1, <2>3, <2>6, <3>1
    <3>2. CASE u # t
      BY <1>2, <1>4, <2>1, <2>6, <3>2 DEF IInv, SuperInv
    <3> QED BY <3>1, <3>2
  <2>7. ASSUME NEW u \in Thread, pc'[u] = "return_gpool"
        PROVE  Untaken(At(myBlock[u]))' = {myBlock'[u]}
    <3>1. CASE u = t
      <4>1. h = None /\ Untaken(s) = {}
        BY <1>2, <1>4, <2>7, <3>1, SuperCount
      <4> QED BY <1>1, <1>11, <3>1, <4>1
    <3>2. CASE u # t
      BY <1>1, <1>4, <1>8, <1>11, <2>7, <3>2 DEF IInv, SuperInv
    <3> QED BY <3>1, <3>2
  <2>8. \A u \in Thread : pc'[u] = "return_gpool" => (Untaken(At(myBlock[u])) = {myBlock[u]})'
    BY <1>1, <2>7
  <2>9. /\ superblock'[s].bctr = Cardinality(Taken(s)')
        /\ Chain(block', superblock'[s].head, Untaken(s)')
        /\ superblock'[s].bctr > 0 \/ \E u \in Thread : With(u, s)'
        /\ \A u \in Thread : pc'[u] \in PutPc /\ With(u, s)' => Taken(s)' = {}
    <3>1. superblock'[s].head = b
      BY <1>2
    <3> QED BY <1>11, <2>3, <2>4, <2>5, <2>6, <3>1
  <2>10. mapped' = mapped
    BY <1>1
  <2> QED BY <2>2, <2>8, <2>9, <2>10 DEF SuperInv
<1>14. PoolInv'
  <2>1. /\ \A p : PoolSet(p)' = PoolSet(p)
        /\ \A p : \A c \in PoolSet(p) : c \in Block /\ block[c].vctr # 0
    BY <1>1, <1>3, CounterAssumption DEF PoolSet
  <2>2. h # None => block[h].vctr = 0
    BY <1>2 DEF Untaken
  <2>3. \A p : \A c \in PoolSet(p) : /\ block'[c].next = block[c].next
                                     /\ block'[c].prev = block[c].prev
    BY <1>2, <1>3, <2>1, <2>2, NoneAssumption
  <2> QED BY <1>1, <1>4, <2>1, <2>3, PoolFrame DEF IInv, PoolInv, Stealing
<1>15. GpoolInv'
  <2>1. AvailSet' = AvailSet
    <3>1. b # None
      BY <1>2, NoneAssumption
    <3>2. s \in AvailSet' <=> s \in AvailSet
      BY <1>1, <1>2, <1>10, <3>1 DEF AvailSet
    <3>3. \A x : x # s => (x \in AvailSet' <=> x \in AvailSet)
      BY <1>1, <1>2, <1>10 DEF AvailSet, IInv, Typed
    <3>4. ASSUME NEW x PROVE x \in AvailSet' <=> x \in AvailSet
      BY <3>2, <3>3
    <3> QED BY <3>4
  <2>2. \A x \in AvailSet : /\ superblock'[x].next = superblock[x].next
                            /\ superblock'[x].prev = superblock[x].prev
    BY <1>2 DEF AvailSet, IInv, Typed
  <2> QED BY <1>1, <2>1, <2>2, GpoolFrame DEF GpoolInv
<1> QED BY <1>6, <1>7, <1>9, <1>12, <1>13, <1>14, <1>15 DEF IInv

\* A superblock comes back to S_gpool.
LEMMA ReturnGpoolStep ==
  ASSUME IInv, NEW t \in Thread, ReturnGpool(t)
  PROVE  IInv'
<1> SUFFICES ASSUME NEW b, b = myBlock[t], NEW s, s = At(b)
             PROVE  IInv'
  OBVIOUS
<1>0. ReturnGpoolDoes(t, b, s)
  BY ReturnGpoolEffect
<1>1. /\ pc[t] = "return_gpool" /\ S_gpool_lock = None
      /\ Goto(t, "return_block")
      /\ UNCHANGED <<mapped, mode, phase, block, S_mpool_head, S_gpool_lock, live,
                     myBlock, mySuperblock, myVma>>
  BY DEF ReturnGpool, Ready, client
<1>2. /\ b \in Block /\ s \in mapped /\ s \in Superblock
      /\ superblock[s].lock = t /\ superblock[s].head = b /\ Untaken(s) = {b}
      /\ s \notin AvailSet /\ s # S_gpool_head
      /\ superblock' \in [Superblock -> SuperblockStruct]
      /\ \A x \in Superblock :
           /\ superblock'[x].bctr = superblock[x].bctr
           /\ superblock'[x].lock = IF x = s THEN None ELSE superblock[x].lock
           /\ superblock'[x].head = superblock[x].head
           /\ superblock'[x].next = IF x = s THEN S_gpool_head ELSE superblock[x].next
           /\ superblock'[x].prev = IF x = S_gpool_head THEN s ELSE superblock[x].prev
      /\ aborted' = FALSE
  BY <1>0 DEF ReturnGpoolDoes
<1>3. S_gpool_head' = s
  BY <1>2, Places DEF ReturnGpool
<1>4. /\ pc' \in [Thread -> Labels] /\ pc'[t] = "return_block"
      /\ \A u \in Thread : u # t => pc'[u] = pc[u]
  BY <1>1, GotoEffect DEF IInv, Labels
<1>5. \A u \in Thread : u # t =>
        /\ pc[u] = "return_gpool" => At(myBlock[u]) # s
        /\ pc[u] \notin PutPc
        /\ pc[u] \notin {"steal_superblock", "steal_block"}
  <2>1. \A u \in Thread : u # t => pc[u] \notin PutPc
    BY <1>1 DEF IInv, Discipline, PutPc
  <2> QED BY <1>1, <1>2, <2>1, NoneAssumption DEF IInv, LockInv
<1>6. Typed'
  BY <1>1, <1>2, <1>3, <1>4 DEF IInv, Typed, HasBlock, HoldsBlock, HasSuper
<1>7. Discipline'
  BY <1>1, <1>4 DEF IInv, Discipline, AllocPc, FreePc, PutPc
<1>8. LockInv'
  <2>1. \A u \in Thread : u # t /\ pc[u] = "return_gpool" =>
          superblock'[At(myBlock[u])].lock = superblock[At(myBlock[u])].lock
    BY <1>2, <1>5 DEF IInv, Typed, HasBlock, HoldsBlock
  <2> QED BY <1>1, <1>4, <1>5, <2>1 DEF IInv, LockInv, HoldsBlock
<1>9. /\ \A c : InHand(c)' <=> InHand(c)
      /\ \A x : x # s => (Leaving(x)' <=> Leaving(x))
      /\ ~Leaving(s)'
  BY <1>1, <1>4, <1>5 DEF InHand, Leaving, PutPc
<1>10. /\ \A x : Untaken(x)' = Untaken(x)
       /\ \A p : PoolSet(p)' = PoolSet(p)
  BY <1>1, <1>9 DEF Untaken, PoolSet
<1>11. AvailSet' = AvailSet \cup {s}
  <2>1. s \in AvailSet'
    BY <1>1, <1>2, <1>9, NoneAssumption DEF AvailSet
  <2>2. \A x : x # s => (x \in AvailSet' <=> x \in AvailSet)
    BY <1>1, <1>2, <1>9 DEF AvailSet, IInv, Typed
  <2>3. ASSUME NEW x PROVE x \in AvailSet' <=> x \in AvailSet \cup {s}
    BY <2>1, <2>2
  <2> QED BY <2>3
<1>12. VmaInv'
  <2>1. \A c \in Block : Resting(c)' = Resting(c)
    BY <1>1, <1>4 DEF Resting
  <2> QED BY <1>1, <1>4, <2>1 DEF IInv, VmaInv
<1>13. SuperInv'
  <2>1. mapped \subseteq Superblock
    BY DEF IInv, Typed
  <2> QED BY <1>1, <1>2, <1>4, <1>10, <2>1, SuperKept DEF With, HasSuper, PutPc
<1>14. PoolInv'
  BY <1>1, <1>4, <1>10, PoolFrame DEF IInv, PoolInv, Stealing
<1>15. GpoolInv'
  <2>1. /\ Chain(superblock, S_gpool_head, AvailSet) /\ LinkedBack(superblock, AvailSet)
        /\ None \notin AvailSet /\ s # None /\ AvailSet \subseteq Superblock
    BY <1>2, NoneAssumption DEF IInv, GpoolInv, AvailSet, Typed
  <2>2. S_gpool_head # None => S_gpool_head \in Superblock
    BY DEF IInv, Typed
  <2>3. /\ superblock'[s].next = S_gpool_head
        /\ S_gpool_head # None => superblock'[S_gpool_head].prev = s
        /\ \A x \in AvailSet : superblock'[x].next = superblock[x].next
        /\ \A x \in AvailSet : x # S_gpool_head => superblock'[x].prev = superblock[x].prev
    BY <1>2, <2>1, <2>2
  <2>4. Chain(superblock', s, AvailSet \cup {s})
    BY <1>2, <2>1, <2>3, ChainPush
  <2>5. LinkedBack(superblock', AvailSet \cup {s})
    BY <1>2, <2>1, <2>3, LinkedPush
  <2> QED BY <1>3, <1>11, <2>4, <2>5 DEF GpoolInv
<1> QED BY <1>6, <1>7, <1>8, <1>12, <1>13, <1>14, <1>15 DEF IInv

\* The lock of the block is given up, and the call returns or goes on.
LEMMA ReturnBlockStep ==
  ASSUME IInv, NEW t \in Thread, ReturnBlock(t) \/ PutBlock(t)
  PROVE  IInv'
<1> SUFFICES ASSUME NEW b, b = myBlock[t]
             PROVE  IInv'
  OBVIOUS
<1>1. /\ pc[t] \in {"return_block", "put_block"}
      /\ block' = [block EXCEPT ![b].lock = None]
      /\ UNCHANGED <<mapped, mode, phase, superblock, S_mpool_head, S_gpool_head,
                     S_gpool_lock, live, aborted>>
  BY DEF ReturnBlock, PutBlock, Ready, client
<1>2. /\ b \in Block /\ At(b) \in mapped /\ BlockSuperblock(b) = At(b)
      /\ block[b].lock = t /\ block \in [Block -> BlockStruct]
      /\ At(b) \in Superblock
  BY <1>1, Places DEF IInv, Typed, LockInv, HasBlock, HoldsBlock
<1>3. /\ block' \in [Block -> BlockStruct]
      /\ block'[b].lock = None
      /\ \A c \in Block : c # b => block'[c].lock = block[c].lock
      /\ \A c \in Block :
           /\ block'[c].vctr = block[c].vctr
           /\ block'[c].head = block[c].head /\ block'[c].mpool = block[c].mpool
           /\ block'[c].next = block[c].next /\ block'[c].prev = block[c].prev
  BY <1>1, <1>2 DEF BlockStruct
<1>4. /\ pc' \in [Thread -> Labels]
      /\ myBlock' \in [Thread -> Block \cup {None}]
      /\ mySuperblock' \in [Thread -> Superblock \cup {None}]
      /\ myVma' \in [Thread -> Vma \cup {None}]
      /\ \A u \in Thread : u # t =>
           /\ pc'[u] = pc[u] /\ myBlock'[u] = myBlock[u]
           /\ mySuperblock'[u] = mySuperblock[u] /\ myVma'[u] = myVma[u]
      /\ \/ pc[t] = "return_block" /\ pc'[t] = "idle"
         \/ pc[t] = "put_block" /\ pc'[t] = "put_gpool" /\ mySuperblock'[t] = At(b)
  <2>1. CASE ReturnBlock(t)
    <3>1. pc[t] = "return_block" /\ Return(t)
      BY <2>1 DEF ReturnBlock, Ready
    <3> QED BY <3>1, ReturnEffect DEF IInv
  <2>2. CASE PutBlock(t)
    <3>1. /\ pc[t] = "put_block" /\ Goto(t, "put_gpool")
          /\ mySuperblock' = [mySuperblock EXCEPT ![t] = At(b)]
          /\ myBlock' = [myBlock EXCEPT ![t] = None]
          /\ myVma' = myVma
      BY <1>2, <2>2 DEF PutBlock, Ready
    <3> QED BY <1>2, <3>1, GotoEffect DEF IInv, Typed, Labels
  <2> QED BY <2>1, <2>2
<1>5. \A u \in Thread : u # t /\ pc[u] \in HoldsBlock => myBlock[u] # b
  BY <1>2 DEF IInv, LockInv
<1>6. Typed'
  BY <1>1, <1>2, <1>3, <1>4 DEF IInv, Typed, HasBlock, HoldsBlock, HasSuper
<1>7. Discipline'
  <2>1. \A u \in Thread : pc[u] = "free" => block'[myBlock[u]].mpool = block[myBlock[u]].mpool
    BY <1>3 DEF IInv, Typed, HasBlock
  <2> QED BY <1>1, <1>4, <2>1 DEF IInv, Discipline, AllocPc, FreePc, PutPc
<1>8. LockInv'
  <2>1. \A u \in Thread : u # t /\ pc[u] \in HoldsBlock =>
          block'[myBlock[u]].lock = block[myBlock[u]].lock
    BY <1>3, <1>5 DEF IInv, Typed, HasBlock
  <2> QED BY <1>1, <1>4, <2>1 DEF IInv, LockInv, HoldsBlock
<1>9. /\ \A c : InHand(c)' <=> InHand(c)
      /\ \A x : Leaving(x)' <=> Leaving(x)
  BY <1>1, <1>4 DEF InHand, Leaving
<1>10. /\ \A x : Untaken(x)' = Untaken(x)
       /\ \A p : PoolSet(p)' = PoolSet(p)
       /\ AvailSet' = AvailSet
  BY <1>1, <1>3, <1>9 DEF Untaken, PoolSet, BlocksOf, AvailSet
<1>11. VmaInv'
  <2>1. \A c \in Block : Resting(c)' = Resting(c)
    BY <1>1, <1>4 DEF Resting
  <2>2. \A u \in Thread : pc[u] \in {"alloc_stolen", "return_superblock"} =>
           block'[myBlock[u]].vctr = block[myBlock[u]].vctr
    BY <1>3 DEF IInv, Typed, HasBlock, HoldsBlock
  <2>3. \A u \in Thread : pc'[u] \in {"free", "alloc_stolen", "return_superblock"} =>
           u # t /\ pc'[u] = pc[u]
    BY <1>4
  <2> QED BY <1>1, <1>3, <1>4, <2>1, <2>2, <2>3 DEF IInv, VmaInv
<1>12. SuperInv'
  <2>1. /\ mapped \subseteq Superblock
        /\ \A x : \A c \in Untaken(x) : block'[c].next = block[c].next
    BY <1>3 DEF IInv, Typed, Untaken, BlocksOf
  <2>2. ASSUME NEW u \in Thread, NEW x
        PROVE  /\ With(u, x) => With(u, x)'
               /\ pc'[u] \in PutPc /\ With(u, x)' => pc[u] \in PutPc /\ With(u, x)
    <3>1. CASE u = t
      BY <1>1, <1>4, <3>1 DEF With, HasSuper, PutPc
    <3>2. CASE u # t
      BY <1>1, <1>4, <3>2 DEF With
    <3> QED BY <3>1, <3>2
  <2>3. \A u \in Thread : pc'[u] = "return_gpool" =>
                            pc[u] = "return_gpool" /\ myBlock'[u] = myBlock[u]
    BY <1>4
  <2> QED BY <1>1, <1>10, <2>1, <2>2, <2>3, SuperKept
<1>13. PoolInv'
  <2>1. \A p : \A c \in PoolSet(p) : /\ block'[c].next = block[c].next
                                     /\ block'[c].prev = block[c].prev
    BY <1>3 DEF PoolSet
  <2> QED BY <1>1, <1>4, <1>10, <2>1, PoolFrame DEF IInv, PoolInv, Stealing
<1>14. GpoolInv'
  BY <1>1, <1>10, GpoolFrame DEF GpoolInv
<1> QED BY <1>6, <1>7, <1>8, <1>11, <1>12, <1>13, <1>14 DEF IInv

\* A superblock none of whose blocks is in use leaves S_gpool.
LEMMA PutGpoolStep ==
  ASSUME IInv, NEW t \in Thread, PutGpool(t)
  PROVE  IInv'
<1> SUFFICES ASSUME NEW s, s = mySuperblock[t]
             PROVE  IInv'
  OBVIOUS
<1>0. PutGpoolDoes(t, s)
  BY PutGpoolEffect
<1>1. /\ pc[t] = "put_gpool" /\ S_gpool_lock = None
      /\ Goto(t, "put_superblock")
      /\ UNCHANGED <<mapped, mode, phase, block, S_mpool_head, S_gpool_lock, live,
                     myBlock, mySuperblock, myVma, aborted>>
  BY DEF PutGpool, Ready, client
<1>2. /\ s \in AvailSet /\ s \in Superblock /\ mode = "serial"
      /\ s # S_gpool_head => /\ superblock[s].prev \in AvailSet
                             /\ superblock[superblock[s].prev].next = s
      /\ superblock' \in [Superblock -> SuperblockStruct]
      /\ \A x \in Superblock :
           /\ superblock'[x].bctr = superblock[x].bctr
           /\ superblock'[x].lock = superblock[x].lock
           /\ superblock'[x].head = superblock[x].head
           /\ superblock'[x].next =
                IF S_gpool_head # s /\ x = superblock[s].prev
                  THEN superblock[s].next ELSE superblock[x].next
           /\ superblock'[x].prev =
                IF x = superblock[s].next THEN superblock[s].prev
                ELSE superblock[x].prev
      /\ S_gpool_head' = IF S_gpool_head = s THEN superblock[s].next ELSE S_gpool_head
  BY <1>0 DEF PutGpoolDoes
<1>3. /\ pc' \in [Thread -> Labels] /\ pc'[t] = "put_superblock"
      /\ \A u \in Thread : u # t => pc'[u] = pc[u] /\ pc[u] = "idle"
  <2>1. \A u \in Thread : u # t => pc[u] = "idle"
    BY <1>1, <1>2 DEF IInv, Discipline
  <2> QED BY <1>1, <2>1, GotoEffect DEF IInv, Labels
<1>4. /\ superblock \in [Superblock -> SuperblockStruct]
      /\ S_gpool_head \in Superblock \cup {None}
      /\ superblock[s].next \in Superblock \cup {None}
  BY <1>2 DEF IInv, Typed, SuperblockStruct
<1>5. Typed'
  BY <1>1, <1>2, <1>3, <1>4 DEF IInv, Typed, HasBlock, HoldsBlock, HasSuper
<1>6. Discipline'
  BY <1>1, <1>2, <1>3 DEF IInv, Discipline
<1>7. LockInv'
  BY <1>3 DEF LockInv, HoldsBlock
<1>8. /\ \A c : InHand(c)' <=> InHand(c)
      /\ \A x : x # s => (Leaving(x)' <=> Leaving(x))
      /\ Leaving(s)'
  BY <1>1, <1>3 DEF InHand, Leaving
<1>9. /\ \A x : Untaken(x)' = Untaken(x)
      /\ \A p : PoolSet(p)' = PoolSet(p)
  BY <1>1, <1>8 DEF Untaken, PoolSet
<1>10. AvailSet' = AvailSet \ {s}
  <2>1. \A x : x # s => (x \in AvailSet' <=> x \in AvailSet)
    BY <1>1, <1>2, <1>8 DEF AvailSet, IInv, Typed
  <2>2. s \notin AvailSet'
    BY <1>8 DEF AvailSet
  <2>3. ASSUME NEW x PROVE x \in AvailSet' <=> x \in AvailSet \ {s}
    BY <2>1, <2>2
  <2> QED BY <2>3
<1>11. VmaInv'
  <2>1. \A c \in Block : Resting(c)' = Resting(c)
    BY <1>1, <1>3 DEF Resting
  <2> QED BY <1>1, <1>3, <2>1 DEF IInv, VmaInv
<1>12. SuperInv'
  <2>1. mapped \subseteq Superblock
    BY DEF IInv, Typed
  <2> QED BY <1>1, <1>2, <1>3, <1>9, <2>1, SuperKept DEF With, HasSuper, PutPc
<1>13. PoolInv'
  BY <1>1, <1>3, <1>9, PoolFrame DEF IInv, PoolInv, Stealing
<1>14. GpoolInv'
  <2>1. /\ Chain(superblock, S_gpool_head, AvailSet) /\ LinkedBack(superblock, AvailSet)
        /\ None \notin AvailSet /\ AvailSet \subseteq Superblock
    BY NoneAssumption DEF IInv, GpoolInv, AvailSet, Typed
  <2>2. CASE S_gpool_head = s
    <3>1. Chain(superblock', superblock[s].next, AvailSet \ {s})
      BY <1>2, <2>1, <2>2, ChainPop
    <3>2. LinkedBack(superblock', AvailSet \ {s})
      BY <1>2, <2>1, <2>2, LinkedPop
    <3> QED BY <1>2, <1>10, <2>2, <3>1, <3>2 DEF GpoolInv
  <2>3. CASE S_gpool_head # s
    <3> DEFINE l == superblock[s].prev
    <3>1. /\ l \in AvailSet /\ superblock[l].next = s /\ s # l
          /\ superblock[s].next = None \/ superblock[s].next \in AvailSet
      BY <1>2, <2>1, <2>3, ChainNext
    <3>2. /\ superblock'[l].next = superblock[s].next
          /\ \A x \in AvailSet \ {s, l} : superblock'[x].next = superblock[x].next
          /\ superblock[s].next # None => superblock'[superblock[s].next].prev = l
          /\ \A x \in AvailSet \ {s} :
               x # superblock[s].next => superblock'[x].prev = superblock[x].prev
      BY <1>2, <2>1, <2>3, <3>1
    <3> HIDE DEF l
    <3>3. Chain(superblock', S_gpool_head, AvailSet \ {s})
      BY <1>2, <2>1, <2>3, <3>1, <3>2, ChainDelete
    <3>4. LinkedBack(superblock', AvailSet \ {s})
      BY <1>2, <2>1, <2>3, <3>1, <3>2, LinkedDelete
    <3> QED BY <1>2, <1>10, <2>3, <3>3, <3>4 DEF GpoolInv
  <2> QED BY <2>2, <2>3
<1> QED BY <1>5, <1>6, <1>7, <1>11, <1>12, <1>13, <1>14 DEF IInv

\* The lock of that superblock is given up, which nobody can hold.
LEMMA PutSuperblockStep ==
  ASSUME IInv, NEW t \in Thread, PutSuperblock(t)
  PROVE  IInv'
<1> SUFFICES ASSUME NEW s, s = mySuperblock[t]
             PROVE  IInv'
  OBVIOUS
<1>1. /\ pc[t] = "put_superblock"
      /\ superblock' = [superblock EXCEPT ![s].lock = None]
      /\ Goto(t, "put_memory")
      /\ UNCHANGED <<mapped, mode, phase, block, S_mpool_head, S_gpool_head,
                     S_gpool_lock, live, myBlock, mySuperblock, myVma, aborted>>
  BY DEF PutSuperblock, Ready, client
<1>2. /\ s \in mapped /\ mapped \subseteq Superblock
      /\ superblock \in [Superblock -> SuperblockStruct] /\ mode = "serial"
  BY <1>1 DEF IInv, Typed, Discipline, HasSuper, PutPc
<1>3. /\ superblock' \in [Superblock -> SuperblockStruct]
      /\ \A x \in Superblock :
           /\ superblock'[x].bctr = superblock[x].bctr
           /\ superblock'[x].head = superblock[x].head
           /\ superblock'[x].next = superblock[x].next
           /\ superblock'[x].prev = superblock[x].prev
  BY <1>1, <1>2 DEF SuperblockStruct
<1>4. /\ pc' \in [Thread -> Labels] /\ pc'[t] = "put_memory"
      /\ \A u \in Thread : u # t => pc'[u] = pc[u] /\ pc[u] = "idle"
  <2>1. \A u \in Thread : u # t => pc[u] = "idle"
    BY <1>1, <1>2 DEF IInv, Discipline
  <2> QED BY <1>1, <2>1, GotoEffect DEF IInv, Labels
<1>5. Typed'
  BY <1>1, <1>2, <1>3, <1>4 DEF IInv, Typed, HasBlock, HoldsBlock, HasSuper
<1>6. Discipline'
  BY <1>1, <1>2, <1>4 DEF IInv, Discipline
<1>7. LockInv'
  BY <1>4 DEF LockInv, HoldsBlock
<1>8. /\ \A c : InHand(c)' <=> InHand(c)
      /\ \A x : Leaving(x)' <=> Leaving(x)
  BY <1>1, <1>4 DEF InHand, Leaving
<1>9. /\ \A x : Untaken(x)' = Untaken(x)
      /\ \A p : PoolSet(p)' = PoolSet(p)
      /\ AvailSet' = AvailSet /\ AvailSet \subseteq Superblock
  BY <1>1, <1>2, <1>3, <1>8 DEF Untaken, PoolSet, AvailSet
<1>10. VmaInv'
  <2>1. \A c \in Block : Resting(c)' = Resting(c)
    BY <1>1, <1>4 DEF Resting
  <2> QED BY <1>1, <1>4, <2>1 DEF IInv, VmaInv
<1>11. SuperInv'
  BY <1>1, <1>2, <1>3, <1>4, <1>9, SuperKept DEF With, HasSuper, PutPc
<1>12. PoolInv'
  BY <1>1, <1>4, <1>9, PoolFrame DEF IInv, PoolInv, Stealing
<1>13. GpoolInv'
  BY <1>1, <1>3, <1>9, GpoolFrame DEF GpoolInv
<1> QED BY <1>5, <1>6, <1>7, <1>10, <1>11, <1>12, <1>13 DEF IInv

\* No vm_area of a superblock that is about to go is in use.
LEMMA PutNotInUse ==
  ASSUME IInv, NEW t \in Thread, pc[t] = "put_memory"
  PROVE  /\ mySuperblock[t] \in mapped
         /\ \A c \in BlocksOf(mySuperblock[t]) : block[c].vctr = 0
         /\ \A v \in live : Home[v] # mySuperblock[t]
<1> DEFINE s == mySuperblock[t]
<1>1. s \in mapped /\ Taken(s) = {}
  BY DEF IInv, Typed, SuperInv, With, HasSuper, PutPc
<1> HIDE DEF s
<1>2. \A c \in BlocksOf(s) : block[c].vctr = 0
  BY <1>1 DEF Taken, Untaken
<1>3. ASSUME NEW v \in live, Home[v] = s
      PROVE  FALSE
  <2> DEFINE c == VmaBlock(v)
  <2>1. v \in Vma /\ c \in Block /\ At(c) = s /\ v \in VmasOf(c)
    BY <1>3, Places DEF IInv, Typed, VmasOf
  <2> HIDE DEF c
  <2>2. v \notin block[c].head
    BY <1>1, <2>1 DEF IInv, VmaInv, Resting
  <2>3. block[c].vctr # 0
    BY <1>1, <2>1, <2>2, BlockCount
  <2> QED BY <1>2, <2>1, <2>3 DEF BlocksOf
<1> QED BY <1>1, <1>2, <1>3 DEF s

\* The memory of a superblock goes back to the system.
LEMMA PutMemoryStep ==
  ASSUME IInv, NEW t \in Thread, PutMemory(t)
  PROVE  IInv'
<1> SUFFICES ASSUME NEW s, s = mySuperblock[t]
             PROVE  IInv'
  OBVIOUS
<1>1. /\ pc[t] = "put_memory" /\ S_gpool_lock = None
      /\ mapped' = mapped \ {s}
      /\ Return(t)
      /\ UNCHANGED <<mode, phase, superblock, block, S_mpool_head, S_gpool_head,
                     S_gpool_lock, live, aborted>>
  BY DEF PutMemory, Ready, links
<1>2. /\ s \in mapped /\ mapped \subseteq Superblock /\ mode = "serial"
      /\ \A c \in BlocksOf(s) : block[c].vctr = 0
      /\ \A v \in live : Home[v] # s
  BY <1>1, PutNotInUse DEF IInv, Typed, Discipline, PutPc
<1>3. /\ pc' \in [Thread -> Labels] /\ pc'[t] = "idle"
      /\ myBlock' \in [Thread -> Block \cup {None}]
      /\ mySuperblock' \in [Thread -> Superblock \cup {None}]
      /\ myVma' \in [Thread -> Vma \cup {None}]
      /\ \A u \in Thread : u # t => pc'[u] = pc[u] /\ pc[u] = "idle"
  <2>1. \A u \in Thread : u # t => pc[u] = "idle"
    BY <1>1, <1>2 DEF IInv, Discipline
  <2> QED BY <1>1, <2>1, ReturnEffect DEF IInv
<1>4. \A u \in Thread : pc'[u] = "idle"
  BY <1>3
<1>5. Typed'
  BY <1>1, <1>2, <1>3, <1>4 DEF IInv, Typed, HasBlock, HoldsBlock, HasSuper
<1>6. Discipline'
  BY <1>1, <1>2, <1>4 DEF IInv, Discipline
<1>7. LockInv'
  BY <1>4 DEF LockInv, HoldsBlock
<1>8. /\ \A c : InHand(c)' <=> InHand(c)
      /\ \A x : x # s => (Leaving(x)' <=> Leaving(x))
      /\ Leaving(s)
  BY <1>1, <1>3 DEF InHand, Leaving
<1>9. /\ \A x : Untaken(x)' = Untaken(x)
      /\ AvailSet' = AvailSet
  BY <1>1, <1>8 DEF Untaken, AvailSet
<1>10. \A p : PoolSet(p)' = PoolSet(p)
  <2>1. \A c \in Block : block[c].vctr \in 1 .. BLOCK_CTR_FULL - 1 => At(c) # s
    BY <1>2, CounterAssumption DEF BlocksOf
  <2> QED BY <1>1, <2>1 DEF PoolSet
<1>11. VmaInv'
  <2>1. \A c \in Block : Resting(c)' = Resting(c)
    BY <1>1, <1>3 DEF Resting
  <2> QED BY <1>1, <1>4, <2>1 DEF IInv, VmaInv
<1>12. SuperInv'
  <2>1. \A u \in Thread : \A x \in mapped' : ~With(u, x)
    BY <1>1, <1>3 DEF With, HasSuper
  <2>2. \A u \in Thread : \A x : ~With(u, x)'
    BY <1>4 DEF With, HasSuper
  <2>3. mapped' \subseteq mapped
    BY <1>1
  <2> QED BY <1>1, <1>4, <1>9, <2>1, <2>2, <2>3, SuperKept DEF PutPc
<1>13. PoolInv'
  BY <1>1, <1>4, <1>10, PoolFrame DEF IInv, PoolInv, Stealing
<1>14. GpoolInv'
  BY <1>1, <1>9, GpoolFrame DEF GpoolInv
<1> QED BY <1>5, <1>6, <1>7, <1>11, <1>12, <1>13, <1>14 DEF IInv

-----------------------------------------------------------------------------
(* Every step *)

\* A barrier changes the phase, and nothing else, while nobody is inside a call.
LEMMA BarrierStep ==
  ASSUME IInv, Quiet \/ phase' = phase,
         UNCHANGED <<links, locals, mapped, mode, S_gpool_lock, live, aborted>>,
         phase' \in {"alloc", "free"}
  PROVE  IInv'
<1>1. UNCHANGED <<mapped, mode, superblock, block, S_mpool_head, S_gpool_head,
                  S_gpool_lock, live, pc, myBlock, mySuperblock, myVma, aborted>>
  BY DEF links, locals
<1>2. Typed' /\ Discipline'
  BY <1>1 DEF IInv, Typed, Discipline, Quiet
<1>3. LockInv'
  BY <1>1 DEF IInv, LockInv
<1>4. /\ \A c : InHand(c)' <=> InHand(c)
      /\ \A x : Leaving(x)' <=> Leaving(x)
  BY <1>1 DEF InHand, Leaving
<1>5. /\ \A x : Untaken(x)' = Untaken(x) /\ Taken(x)' = Taken(x)
      /\ \A p : PoolSet(p)' = PoolSet(p)
      /\ \A c : Resting(c)' = Resting(c)
      /\ AvailSet' = AvailSet
  BY <1>1, <1>4 DEF Untaken, Taken, PoolSet, AvailSet, Resting
<1>6. VmaInv'
  BY <1>1, <1>5 DEF IInv, VmaInv
<1>7. SuperInv'
  BY <1>1, <1>5, SuperKept DEF With
<1>8. PoolInv' /\ GpoolInv'
  BY <1>1, <1>5 DEF IInv, PoolInv, GpoolInv
<1> QED BY <1>2, <1>3, <1>6, <1>7, <1>8 DEF IInv

\* No superblock is mapped when the program starts: all lists are empty.
LEMMA InitInvariant ==
  ASSUME Modes \subseteq SafeModes, Init
  PROVE  IInv
<1>1. /\ mapped = {} /\ S_gpool_head = None /\ S_gpool_lock = None
      /\ S_mpool_head = [t \in Thread |-> None]
      /\ live = {} /\ pc = [t \in Thread |-> "idle"]
      /\ mode \in Modes /\ phase = "alloc" /\ aborted = FALSE
  BY DEF Init
<1>2. \A t \in Thread : pc[t] = "idle"
  BY <1>1
<1>3. Typed
  <2>1. superblock \in [Superblock -> SuperblockStruct]
    BY DEF Init, SuperblockStruct
  <2>2. block \in [Block -> BlockStruct]
    BY DEF Init, BlockStruct
  <2>3. /\ pc \in [Thread -> Labels]
        /\ myBlock \in [Thread -> Block \cup {None}]
        /\ mySuperblock \in [Thread -> Superblock \cup {None}]
        /\ myVma \in [Thread -> Vma \cup {None}]
    BY DEF Init, Labels
  <2> QED BY <1>1, <1>2, <2>1, <2>2, <2>3 DEF Typed, HasBlock, HoldsBlock, HasSuper
<1>4. Discipline
  BY <1>1, <1>2 DEF Discipline, PutPc
<1>4a. LockInv /\ VmaInv
  BY <1>1, <1>2 DEF LockInv, VmaInv, HoldsBlock
<1>5. SuperInv
  BY <1>1, <1>2 DEF SuperInv
<1>6. \A f : Chain(f, None, {}) /\ LinkedBack(f, {})
  <2> SUFFICES ASSUME NEW f PROVE Chain(f, None, {}) /\ LinkedBack(f, {})
    OBVIOUS
  <2>1. [x \in {} |-> 0] \in [{} -> Int] /\ InOrder(f, None, {}, [x \in {} |-> 0])
    BY DEF InOrder
  <2> QED BY <2>1 DEF Chain, LinkedBack
<1>7. AvailSet = {} /\ \A p : PoolSet(p) = {}
  BY <1>1 DEF AvailSet, PoolSet
<1>8. PoolInv
  BY <1>1, <1>2, <1>6, <1>7 DEF PoolInv, Stealing
<1>9. GpoolInv
  BY <1>1, <1>6, <1>7 DEF GpoolInv
<1> QED BY <1>3, <1>4, <1>4a, <1>5, <1>8, <1>9 DEF IInv

\* Every step of every thread preserves the invariant.
LEMMA NextInvariant ==
  ASSUME IInv, [Next]_vars
  PROVE  IInv'
<1>1. CASE UNCHANGED vars
  BY <1>1, BarrierStep DEF vars, client, IInv, Typed
<1>2. CASE Barrier
  BY <1>2, BarrierStep DEF Barrier
<1>3. ASSUME NEW t \in Thread, CallAlloc(t) \/ CallFree(t)
      PROVE  IInv'
  BY <1>3, CallAllocStep, CallFreeStep
<1>4. ASSUME NEW t \in Thread, Working(t)
      PROVE  IInv'
  <2>1. CASE StealGpool(t) \/ StealSuperblock(t) \/ StealBlock(t)
    BY <2>1, StealGpoolStep, StealSuperblockStep, StealBlockStep
  <2>2. CASE AllocStolen(t) \/ AllocCached(t)
    BY <2>2, AllocStolenStep, AllocCachedStep
  <2>3. CASE Free(t) \/ ReturnSuperblock(t) \/ ReturnGpool(t) \/ ReturnBlock(t)
    BY <2>3, FreeStep, ReturnSuperblockStep, ReturnGpoolStep, ReturnBlockStep
  <2>4. CASE PutBlock(t) \/ PutGpool(t) \/ PutSuperblock(t) \/ PutMemory(t)
    BY <2>4, ReturnBlockStep, PutGpoolStep, PutSuperblockStep, PutMemoryStep
  <2> QED BY <1>4, <2>1, <2>2, <2>3, <2>4 DEF Working
<1> QED BY <1>1, <1>2, <1>3, <1>4 DEF Next

-----------------------------------------------------------------------------
(* The theorems *)

\* Used in a way that is safe, the allocator always satisfies the invariant: the
\* lists are the sets of structs their counters count, whoever is inside which
\* call of vma_alloc or vma_free.
THEOREM Invariant ==
  ASSUME Modes \subseteq SafeModes
  PROVE  Spec => []IInv
<1>1. Init => IInv
  BY InitInvariant
<1>2. IInv /\ [Next]_vars => IInv'
  BY NextInvariant
<1> QED BY <1>1, <1>2, PTL DEF Spec

\* Used in a way that is safe, none of the assertions of vma_alloc.c that
\* compare a counter with a list fails.
THEOREM AssertionsHold ==
  ASSUME Modes \subseteq SafeModes
  PROVE  Spec => []NoAbort
<1>1. IInv => NoAbort
  BY DEF IInv, Typed, NoAbort
<1> QED BY <1>1, Invariant, PTL

\* A vm_area that vma_alloc has handed out is on no list, so that it is not
\* handed out again before vma_free gets it, and its memory is there.
THEOREM NeverTwice ==
  ASSUME Modes \subseteq SafeModes
  PROVE  Spec => []HandedOutOnce
<1>1. ASSUME IInv, NEW v \in live
      PROVE  v \notin block[VmaBlock(v)].head /\ Home[v] \in mapped
  <2>1. /\ v \in Vma /\ VmaBlock(v) \in Block /\ Home[v] \in mapped
        /\ At(VmaBlock(v)) = Home[v]
    BY <1>1, Places DEF IInv, Typed
  <2>2. block[VmaBlock(v)].head = Resting(VmaBlock(v))
    BY <1>1, <2>1 DEF IInv, VmaInv
  <2> QED BY <1>1, <2>1, <2>2 DEF Resting
<1>2. IInv => HandedOutOnce
  BY <1>1 DEF HandedOutOnce
<1> QED BY <1>2, Invariant, PTL

-----------------------------------------------------------------------------
(* Counters *)

\* A superblock that is not mapped left its counters, and those of its blocks,
\* at zero.
Away == \A s \in Superblock \ mapped :
  superblock[s].bctr = 0 /\ \A c \in BlocksOf(s) : block[c].vctr = 0

\* A step counts only in superblocks that are mapped, and gives back none but
\* one whose counters are zero.
LEMMA AwayStep ==
  ASSUME IInv, Away, [Next]_vars
  PROVE  Away'
<1>1. /\ mapped \subseteq Superblock
      /\ block \in [Block -> BlockStruct] /\ superblock \in [Superblock -> SuperblockStruct]
  BY DEF IInv, Typed
<1>2. SUFFICES ASSUME NEW s \in Superblock \ mapped'
               PROVE  superblock'[s].bctr = 0 /\ \A c \in BlocksOf(s) : block'[c].vctr = 0
  BY DEF Away, BlocksOf
<1>3. s \notin mapped => superblock[s].bctr = 0 /\ \A c \in BlocksOf(s) : block[c].vctr = 0
  BY DEF Away
<1>4. CASE UNCHANGED vars \/ Barrier
  BY <1>3, <1>4 DEF vars, links, client, Barrier
<1>5. ASSUME NEW t \in Thread, CallAlloc(t) \/ CallFree(t)
      PROVE  superblock'[s].bctr = 0 /\ \A c \in BlocksOf(s) : block'[c].vctr = 0
  BY <1>3, <1>5 DEF CallAlloc, CallFree, links, client
<1>6. ASSUME NEW t \in Thread, Working(t)
      PROVE  superblock'[s].bctr = 0 /\ \A c \in BlocksOf(s) : block'[c].vctr = 0
  <2>1. CASE StealGpool(t)
    <3>1. CASE superblock' = superblock /\ block' = block /\ mapped' = mapped
      BY <1>3, <3>1
    <3>2. ASSUME NEW x \in Superblock \ mapped, mapped' = mapped \cup {x}, Setup(x)
          PROVE  superblock'[s].bctr = 0 /\ \A c \in BlocksOf(s) : block'[c].vctr = 0
      <4>1. s # x /\ s \notin mapped
        BY <3>2
      <4>2. superblock'[s] = superblock[s] /\ \A c \in BlocksOf(s) : block'[c] = block[c]
        BY <3>2, <4>1, SetupEffect DEF IInv, BlocksOf
      <4> QED BY <1>3, <4>1, <4>2
    <3> QED BY <2>1, <3>1, <3>2 DEF StealGpool, links
  <2>2. CASE StealSuperblock(t) \/ PutSuperblock(t)
    <3>1. mapped' = mapped /\ block' = block
      BY <2>2 DEF StealSuperblock, PutSuperblock, client
    <3>2. superblock'[s].bctr = superblock[s].bctr
      BY <1>1, <2>2 DEF StealSuperblock, PutSuperblock, SuperblockStruct
    <3> QED BY <1>3, <3>1, <3>2
  <2>3. CASE ReturnBlock(t) \/ PutBlock(t)
    <3>1. mapped' = mapped /\ superblock' = superblock
      BY <2>3 DEF ReturnBlock, PutBlock, client
    <3>2. \A c \in Block : block'[c].vctr = block[c].vctr
      BY <1>1, <2>3 DEF ReturnBlock, PutBlock, BlockStruct
    <3> QED BY <1>3, <3>1, <3>2 DEF BlocksOf
  <2>4. CASE StealBlock(t)
    <3>1. StealBlockDoes(t, myBlock[t], mySuperblock[t], block[myBlock[t]].next)
      BY <2>4, StealBlockEffect
    <3>2. mapped' = mapped
      BY <2>4 DEF StealBlock, client
    <3>3. mySuperblock[t] \in mapped
      BY <3>1 DEF StealBlockDoes, AvailSet
    <3>4. superblock'[s].bctr = superblock[s].bctr
      BY <3>1, <3>2, <3>3 DEF StealBlockDoes
    <3>5. \A c \in Block : block'[c].vctr = block[c].vctr
      BY <3>1 DEF StealBlockDoes
    <3> QED BY <1>3, <3>2, <3>4, <3>5 DEF BlocksOf
  <2>5. CASE AllocStolen(t)
    <3>1. PICK v \in block[myBlock[t]].head : AllocStolenDoes(t, myBlock[t], v)
      BY <2>5, AllocStolenEffect
    <3>2. mapped' = mapped /\ superblock' = superblock
      BY <2>5 DEF AllocStolen, client
    <3>3. \A c \in BlocksOf(s) : block'[c].vctr = block[c].vctr
      BY <3>1, <3>2 DEF AllocStolenDoes, BlocksOf
    <3> QED BY <1>3, <3>2, <3>3
  <2>6. CASE AllocCached(t)
    <3>1. PICK v \in block[myBlock[t]].head : AllocCachedDoes(t, myBlock[t], v)
      BY <2>6, AllocCachedEffect
    <3>2. mapped' = mapped /\ superblock' = superblock
      BY <2>6 DEF AllocCached, client
    <3>3. \A c \in BlocksOf(s) : block'[c].vctr = block[c].vctr
      BY <3>1, <3>2 DEF AllocCachedDoes, BlocksOf, PoolSet
    <3> QED BY <1>3, <3>2, <3>3
  <2>7. CASE Free(t)
    <3> DEFINE b == myBlock[t]
               p == block[b].mpool
    <3>1. FreeDoes(t, b, myVma[t], p, S_mpool_head[p])
      BY <2>7, FreeEffect
    <3>2. mapped' = mapped /\ superblock' = superblock
      BY <2>7 DEF Free, client
    <3> HIDE DEF b, p
    <3>3. \A c \in BlocksOf(s) : block'[c].vctr = block[c].vctr
      BY <3>1, <3>2 DEF FreeDoes, BlocksOf
    <3> QED BY <1>3, <3>2, <3>3
  <2>8. CASE ReturnSuperblock(t)
    <3> DEFINE b == myBlock[t]
               x == At(b)
    <3>1. ReturnSuperblockDoes(t, b, x, superblock[x].head)
      BY <2>8, ReturnSuperblockEffect
    <3>2. mapped' = mapped
      BY <2>8 DEF ReturnSuperblock, client
    <3> HIDE DEF b, x
    <3>3. superblock'[s] = superblock[s] /\ \A c \in BlocksOf(s) : block'[c].vctr = block[c].vctr
      BY <3>1, <3>2 DEF ReturnSuperblockDoes, BlocksOf
    <3> QED BY <1>3, <3>2, <3>3
  <2>9. CASE ReturnGpool(t)
    <3>1. ReturnGpoolDoes(t, myBlock[t], At(myBlock[t]))
      BY <2>9, ReturnGpoolEffect
    <3>2. mapped' = mapped /\ block' = block
      BY <2>9 DEF ReturnGpool, client
    <3> QED BY <1>3, <3>1, <3>2 DEF ReturnGpoolDoes
  <2>10. CASE PutGpool(t)
    <3>1. PutGpoolDoes(t, mySuperblock[t])
      BY <2>10, PutGpoolEffect
    <3>2. mapped' = mapped /\ block' = block
      BY <2>10 DEF PutGpool, client
    <3> QED BY <1>3, <3>1, <3>2 DEF PutGpoolDoes
  <2>11. CASE PutMemory(t)
    <3> DEFINE x == mySuperblock[t]
    <3>1. pc[t] = "put_memory" /\ mapped' = mapped \ {x}
          /\ superblock' = superblock /\ block' = block
      BY <2>11 DEF PutMemory, Ready, links
    <3>2. x \in mapped /\ Taken(x) = {}
      BY <3>1 DEF IInv, Typed, SuperInv, With, HasSuper, PutPc
    <3> HIDE DEF x
    <3>3. superblock[x].bctr = 0 /\ \A c \in BlocksOf(x) : block[c].vctr = 0
      BY <3>2, SuperCount DEF Taken, Untaken
    <3> QED BY <1>3, <3>1, <3>3
  <2> QED BY <1>6, <2>1, <2>2, <2>3, <2>4, <2>5, <2>6, <2>7, <2>8, <2>9, <2>10, <2>11
          DEF Working
<1> QED BY <1>4, <1>5, <1>6 DEF Next

\* Used in a way that is safe, every variable keeps its type, and the counters
\* of superblocks and blocks never pass what a superblock or a block holds.
THEOREM CountersInRange ==
  ASSUME Modes \subseteq SafeModes
  PROVE  Spec => []TypeOK
<1>1. Init => Away
  BY DEF Init, Away, BlocksOf
<1>2. IInv /\ Away /\ [Next]_vars => Away'
  BY AwayStep
<1>3. IInv /\ Away => TypeOK
  <2> SUFFICES ASSUME IInv, Away PROVE TypeOK
    OBVIOUS
  <2>1. /\ block \in [Block -> BlockStruct] /\ superblock \in [Superblock -> SuperblockStruct]
        /\ mapped \subseteq Superblock
        /\ BLOCK_CTR_FULL \in Nat /\ SUPERBLOCK_CTR_FULL \in Nat
    BY CounterAssumption DEF IInv, Typed
  <2>2. \A s \in Superblock : superblock[s].bctr \in 0 .. SUPERBLOCK_CTR_FULL
    BY <2>1, SuperCount DEF Away
  <2>3. \A c \in Block : block[c].vctr \in 0 .. BLOCK_CTR_FULL
    <3> SUFFICES ASSUME NEW c \in Block PROVE block[c].vctr \in 0 .. BLOCK_CTR_FULL
      OBVIOUS
    <3>1. CASE At(c) \in mapped
      BY <3>1, BlockCount
    <3>2. CASE At(c) \notin mapped
      BY <2>1, <3>2, Places DEF Away, BlocksOf
    <3> QED BY <3>1, <3>2
  <2>4. superblock \in [Superblock -> [bctr : 0 .. SUPERBLOCK_CTR_FULL,
           lock : Thread \cup {None}, head : Block \cup {None},
           prev : Superblock \cup {None}, next : Superblock \cup {None}]]
    BY <2>1, <2>2 DEF SuperblockStruct
  <2>5. block \in [Block -> [vctr : 0 .. BLOCK_CTR_FULL,
           lock : Thread \cup {None}, head : SUBSET Vma,
           mpool : Thread \cup {None},
           prev : Block \cup {None}, next : Block \cup {None}]]
    BY <2>1, <2>3 DEF BlockStruct
  <2> QED BY <2>4, <2>5 DEF IInv, Typed, TypeOK
<1> QED BY <1>1, <1>2, <1>3, Invariant, PTL DEF Spec

-----------------------------------------------------------------------------
(* Pointers *)

\* The superblock whose memory a struct on a list is in is mapped.
LEMMA ListedMapped ==
  ASSUME IInv
  PROVE  /\ None \notin mapped
         /\ \A p : \A c \in PoolSet(p) : At(c) \in mapped
         /\ \A p \in Thread : /\ S_mpool_head[p] = None \/ S_mpool_head[p] \in PoolSet(p)
                              /\ \A c \in PoolSet(p) : block[c].next = None \/ block[c].next \in PoolSet(p)
         /\ AvailSet \subseteq mapped
         /\ S_gpool_head = None \/ S_gpool_head \in AvailSet
         /\ \A s \in AvailSet : superblock[s].next = None \/ superblock[s].next \in AvailSet
         /\ \A s \in mapped : /\ superblock[s].head = None \/ superblock[s].head \in Untaken(s)
                              /\ \A c \in Untaken(s) : /\ At(c) = s
                                                       /\ block[c].next = None \/ block[c].next \in Untaken(s)
<1>1. /\ None \notin mapped /\ AvailSet \subseteq mapped /\ None \notin AvailSet
      /\ \A p : None \notin PoolSet(p) /\ \A c \in PoolSet(p) : At(c) \in mapped
      /\ \A s : None \notin Untaken(s) /\ \A c \in Untaken(s) : At(c) = s
  BY NoneAssumption DEF IInv, Typed, AvailSet, PoolSet, Untaken, BlocksOf
<1>2. ASSUME NEW p \in Thread
      PROVE  /\ S_mpool_head[p] = None \/ S_mpool_head[p] \in PoolSet(p)
             /\ \A c \in PoolSet(p) : block[c].next = None \/ block[c].next \in PoolSet(p)
  <2>1. Chain(block, S_mpool_head[p], PoolSet(p))
    BY DEF IInv, PoolInv
  <2>2. S_mpool_head[p] = None \/ S_mpool_head[p] \in PoolSet(p)
    BY <2>1 DEF Chain
  <2> QED BY <1>1, <2>1, <2>2, ChainNext
<1>3. /\ S_gpool_head = None \/ S_gpool_head \in AvailSet
      /\ \A s \in AvailSet : superblock[s].next = None \/ superblock[s].next \in AvailSet
  <2>1. Chain(superblock, S_gpool_head, AvailSet)
    BY DEF IInv, GpoolInv
  <2>2. S_gpool_head = None \/ S_gpool_head \in AvailSet
    BY <2>1 DEF Chain
  <2> QED BY <1>1, <2>1, <2>2, ChainNext
<1>4. ASSUME NEW s \in mapped
      PROVE  /\ superblock[s].head = None \/ superblock[s].head \in Untaken(s)
             /\ \A c \in Untaken(s) : block[c].next = None \/ block[c].next \in Untaken(s)
  <2>1. Chain(block, superblock[s].head, Untaken(s))
    BY DEF IInv, SuperInv
  <2>2. superblock[s].head = None \/ superblock[s].head \in Untaken(s)
    BY <2>1 DEF Chain
  <2> QED BY <1>1, <2>1, <2>2, ChainNext
<1> QED BY <1>1, <1>2, <1>3, <1>4

\* The superblocks a step reads or writes are mapped.
LEMMA SuperblocksGood ==
  ASSUME IInv, NEW t \in Thread
  PROVE  UsesSuperblock(t) \subseteq mapped
<1> DEFINE s == mySuperblock[t]
<1>1. pc[t] \in HasSuper => s \in mapped
  BY DEF IInv, Typed
<1>2. CASE pc[t] = "steal_block"
  <2>1. s \in AvailSet
    BY <1>2, ListedMapped, <1>1 DEF IInv, LockInv, HasSuper
  <2>2. NextOf(superblock, s) \subseteq mapped
    BY <2>1, ListedMapped DEF NextOf
  <2>3. UsesSuperblock(t) \subseteq {s} \cup NextOf(superblock, s)
    BY <1>2 DEF UsesSuperblock
  <2> QED BY <1>1, <1>2, <2>2, <2>3 DEF HasSuper
<1>3. CASE pc[t] = "return_gpool"
  <2>1. UsesSuperblock(t) = {S_gpool_head} \ {None}
    BY <1>3 DEF UsesSuperblock
  <2> QED BY <2>1, ListedMapped
<1>4. CASE pc[t] = "put_gpool"
  <2>1. mode = "serial" /\ s \in mapped /\ Taken(s) = {}
    BY <1>4 DEF IInv, Discipline, Typed, SuperInv, PutPc, HasSuper, With
  <2>2. ~Leaving(s)
    <3>1. \A u \in Thread : pc[u] # "idle" => u = t
      BY <1>4, <2>1 DEF IInv, Discipline
    <3> QED BY <1>4, <3>1 DEF Leaving
  <2>3. superblock[s].head # None
    BY <2>1, SuperCount, CounterAssumption
  <2>4. s \in AvailSet
    BY <2>1, <2>2, <2>3 DEF AvailSet
  <2>5. s # S_gpool_head => superblock[s].prev \in AvailSet
    <3>1. /\ Chain(superblock, S_gpool_head, AvailSet) /\ LinkedBack(superblock, AvailSet)
          /\ None \notin AvailSet
      BY ListedMapped DEF IInv, GpoolInv
    <3> QED BY <2>4, <3>1, LinkedPrev
  <2>6. NeighboursOf(superblock, S_gpool_head, s) \subseteq mapped
    BY <2>4, <2>5, ListedMapped DEF NeighboursOf, NextOf
  <2>7. UsesSuperblock(t) = {s} \cup NeighboursOf(superblock, S_gpool_head, s)
    BY <1>4, <2>1 DEF UsesSuperblock
  <2> QED BY <2>1, <2>6, <2>7
<1>5. CASE pc[t] \in {"steal_superblock", "put_superblock", "put_memory"}
  <2>1. UsesSuperblock(t) = {s}
    BY <1>5 DEF UsesSuperblock
  <2> QED BY <1>1, <1>5, <2>1 DEF HasSuper
<1>6. CASE pc[t] \notin {"steal_block", "return_gpool", "put_gpool",
                         "steal_superblock", "put_superblock", "put_memory"}
  BY <1>6 DEF UsesSuperblock
<1> QED BY <1>2, <1>3, <1>4, <1>5, <1>6

\* The blocks a step reads or writes are in superblocks that are mapped.
LEMMA BlocksGood ==
  ASSUME IInv, NEW t \in Thread, NEW c \in UsesBlock(t)
  PROVE  At(c) \in mapped
<1> SUFFICES ASSUME NEW b, b = myBlock[t] PROVE At(c) \in mapped
  OBVIOUS
<1>1. CASE At(b) \notin mapped
  <2>1. pc[t] \in Labels /\ pc[t] \notin HasBlock
    BY <1>1 DEF IInv, Typed
  <2>2. UsesBlock(t) = {}
    BY <1>1, <2>1 DEF UsesBlock, Labels, HasBlock, HoldsBlock
  <2> QED BY <2>2
<1>2. CASE At(b) \in mapped
  <2>1. pc[t] \in HasBlock => b \in Block
    BY DEF IInv, Typed
  <2>2. CASE pc[t] = "steal_block"
    <3>1. mySuperblock[t] \in mapped /\ b = superblock[mySuperblock[t]].head
      BY <2>2 DEF IInv, LockInv, Typed, HasSuper
    <3>2. b \in Untaken(At(b)) /\ (block[b].next = None \/ At(block[b].next) = At(b))
      BY <1>2, <2>1, <2>2, <3>1, ListedMapped, NoneAssumption DEF HasBlock
    <3>3. UsesBlock(t) = {b} \cup NextOf(block, b)
      BY <1>2, <2>2 DEF UsesBlock
    <3> QED BY <1>2, <3>2, <3>3 DEF NextOf
  <2>3. CASE pc[t] = "alloc_stolen"
    <3>1. block[b].head = VmasOf(b)
      BY <1>2, <2>1, <2>3, BlockCount DEF HasBlock, HoldsBlock, IInv, VmaInv
    <3>2. block[b].head # {}
      BY <2>1, <2>3, <3>1, Sizes, FS_EmptySet, CounterAssumption DEF HasBlock, HoldsBlock
    <3>3. UsesBlock(t) = {b}
      BY <1>2, <2>3, <3>2 DEF UsesBlock
    <3> QED BY <1>2, <3>3
  <2>4. CASE pc[t] = "alloc_cached"
    <3>1. b \in PoolSet(t)
      BY <2>4, ListedMapped DEF IInv, PoolInv
    <3>2. block[b].head # {}
      BY <1>2, <3>1, BlockCount, CounterAssumption DEF PoolSet
    <3>3. UsesBlock(t) \subseteq {b} \cup NextOf(block, b)
      BY <1>2, <2>4, <3>2 DEF UsesBlock
    <3> QED BY <1>2, <3>1, <3>3, ListedMapped DEF NextOf
  <2>5. CASE pc[t] = "free"
    <3> DEFINE p == block[b].mpool
    <3>1. b \in Block /\ p \in Thread /\ (block[b].vctr # BLOCK_CTR_FULL => b \in PoolSet(p))
      <4>1. /\ VmaBlock(myVma[t]) = b /\ myVma[t] \in Vma
            /\ b \in Block
        BY <2>1, <2>5 DEF IInv, VmaInv, Typed, HasBlock
      <4>2. myVma[t] \in VmasOf(b) /\ myVma[t] \notin block[b].head
        BY <1>2, <2>5, <4>1 DEF VmasOf, IInv, VmaInv, Resting
      <4>3. block[b].vctr # 0
        BY <1>2, <4>1, <4>2, BlockCount
      <4>4. block[b].vctr \in 0 .. BLOCK_CTR_FULL /\ p \in Thread /\ BLOCK_CTR_FULL \in Nat
        BY <1>2, <4>1, <4>3, BlockCount, CounterAssumption DEF IInv, VmaInv
      <4> QED BY <1>2, <4>1, <4>3, <4>4 DEF PoolSet
    <3> DEFINE h == S_mpool_head[p]
    <3>2. /\ Chain(block, h, PoolSet(p)) /\ LinkedBack(block, PoolSet(p))
          /\ None \notin PoolSet(p)
      BY <3>1, NoneAssumption DEF IInv, PoolInv, PoolSet
    <3> HIDE DEF p, h
    <3>3. CASE block[b].vctr = 1
      <4>1. b \in PoolSet(p)
        BY <3>1, <3>3, CounterAssumption
      <4>2. b # h => block[b].prev \in PoolSet(p)
        BY <3>2, <4>1, LinkedPrev
      <4>3. block[b].head # {}
        BY <1>2, <3>1, <3>3, BlockCount, CounterAssumption
      <4>4. UsesBlock(t) = {b} \cup NeighboursOf(block, h, b)
        BY <1>2, <2>5, <3>1, <3>3, <4>3, NoneAssumption DEF UsesBlock, p, h
      <4> QED BY <1>2, <3>1, <4>1, <4>2, <4>4, ListedMapped DEF NeighboursOf, NextOf
    <3>4. CASE block[b].vctr # 1
      <4>1. UsesBlock(t) \subseteq {b} \cup ({h} \ {None})
        BY <1>2, <2>5, <3>1, <3>4, NoneAssumption DEF UsesBlock, p, h
      <4>2. h = None \/ h \in PoolSet(p)
        BY <3>1, ListedMapped DEF h
      <4> QED BY <1>2, <4>1, <4>2, ListedMapped
    <3> QED BY <3>3, <3>4
  <2>6. CASE pc[t] = "return_superblock"
    <3>1. UsesBlock(t) = {b} \cup ({superblock[At(b)].head} \ {None})
      BY <1>2, <2>6 DEF UsesBlock
    <3> QED BY <1>2, <3>1, ListedMapped
  <2>7. CASE pc[t] \notin {"steal_block", "alloc_stolen", "alloc_cached", "free",
                           "return_superblock"}
    <3>1. UsesBlock(t) = {b}
      BY <1>2, <2>7 DEF UsesBlock
    <3> QED BY <1>2, <3>1
  <2> QED BY <2>2, <2>3, <2>4, <2>5, <2>6, <2>7
<1> QED BY <1>1, <1>2

\* Used in a way that is safe, no thread follows a null pointer or one into a
\* superblock that went back to the system.
THEOREM NoStrayPointers ==
  ASSUME Modes \subseteq SafeModes
  PROVE  Spec => []PointersGood
<1>1. IInv => PointersGood
  <2> SUFFICES ASSUME IInv, NEW t \in Thread PROVE Safe(t)
    BY DEF PointersGood
  <2>1. UsesSuperblock(t) \subseteq mapped
    BY SuperblocksGood
  <2>2. \A c \in UsesBlock(t) : At(c) \in mapped
    BY BlocksGood
  <2> QED BY <2>1, <2>2 DEF Safe
<1> QED BY <1>1, Invariant, PTL

-----------------------------------------------------------------------------
(* Lists *)

\* What Listed finds by walking along the pointers is what the invariant says is
\* on the list.
LEMMA WhatIsListed ==
  ASSUME IInv
  PROVE  /\ \A t \in Thread : PoolBlocks(t) = PoolSet(t)
         /\ \A s \in mapped : OwnBlocks(s) = Untaken(s)
         /\ Available = AvailSet
<1>1. /\ IsFiniteSet(Block) /\ IsFiniteSet(Superblock)
      /\ None \notin Block /\ None \notin Superblock
  BY Sizes, NoneAssumption
<1>2. \A t \in Thread : PoolBlocks(t) = PoolSet(t)
  <2>1. \A t \in Thread : Chain(block, S_mpool_head[t], PoolSet(t)) /\ PoolSet(t) \subseteq Block
    BY DEF IInv, PoolInv, PoolSet
  <2> QED BY <1>1, <2>1, ListedChain DEF PoolBlocks
<1>3. \A s \in mapped : OwnBlocks(s) = Untaken(s)
  <2>1. \A s \in mapped : Chain(block, superblock[s].head, Untaken(s)) /\ Untaken(s) \subseteq Block
    BY DEF IInv, SuperInv, Untaken, BlocksOf
  <2> QED BY <1>1, <2>1, ListedChain DEF OwnBlocks
<1>4. Available = AvailSet
  <2>1. Chain(superblock, S_gpool_head, AvailSet) /\ AvailSet \subseteq Superblock
    BY DEF IInv, GpoolInv, AvailSet, Typed
  <2> QED BY <1>1, <2>1, ListedChain DEF Available
<1> QED BY <1>2, <1>3, <1>4

\* Used in a way that is safe, the lists can be walked backwards between calls.
THEOREM LinkedBothWays ==
  ASSUME Modes \subseteq SafeModes
  PROVE  Spec => []ListsLinked
<1>1. IInv => ListsLinked
  BY WhatIsListed DEF IInv, PoolInv, GpoolInv, ListsLinked
<1> QED BY <1>1, Invariant, PTL

\* Used in a way that is safe, between calls every vm_area, block and superblock
\* is where it belongs: none is lost, and none is kept for no use.
THEOREM NothingEverLost ==
  ASSUME Modes \subseteq SafeModes
  PROVE  Spec => []NothingLost
<1>1. ASSUME IInv, Quiet PROVE Available = {s \in mapped : superblock[s].head # None}
  <2>1. \A s : ~Leaving(s)
    BY <1>1 DEF Quiet, Leaving
  <2> QED BY <1>1, <2>1, WhatIsListed DEF AvailSet
<1>2. ASSUME IInv, Quiet, NEW s \in mapped
      PROVE  /\ OwnBlocks(s) = {b \in Block : BlockSuperblock(b) = s /\ block[b].vctr = 0}
             /\ superblock[s].bctr = SUPERBLOCK_CTR_FULL - Cardinality(OwnBlocks(s))
             /\ superblock[s].bctr > 0
  <2>1. \A b : ~InHand(b)
    BY <1>2 DEF Quiet, InHand
  <2>2. OwnBlocks(s) = Untaken(s)
    BY <1>2, WhatIsListed
  <2>3. Untaken(s) = {b \in Block : BlockSuperblock(b) = s /\ block[b].vctr = 0}
    BY <2>1, Places DEF Untaken, BlocksOf
  <2>4. superblock[s].bctr = SUPERBLOCK_CTR_FULL - Cardinality(Untaken(s))
    BY <1>2, SuperCount
  <2>5. \A t \in Thread : ~With(t, s)
    BY <1>2 DEF Quiet, With, HasSuper
  <2>6. superblock[s].bctr > 0
    BY <1>2, <2>5 DEF IInv, SuperInv
  <2> QED BY <2>2, <2>3, <2>4, <2>6
<1>3. ASSUME IInv, Quiet, NEW b \in Block, BlockSuperblock(b) \in mapped
      PROVE  /\ block[b].head = {v \in Vma : VmaBlock(v) = b /\ v \notin live}
             /\ block[b].vctr = BLOCK_CTR_FULL - Cardinality(block[b].head)
             /\ {t \in Thread : b \in PoolBlocks(t)} =
                  IF block[b].vctr \in 1 .. BLOCK_CTR_FULL - 1 THEN {block[b].mpool}
                  ELSE {}
  <2>1. At(b) \in mapped
    BY <1>3, Places
  <2>2. Resting(b) = {v \in Vma : VmaBlock(v) = b /\ v \notin live}
    BY <1>3 DEF Quiet, Resting, VmasOf
  <2>3. /\ block[b].head = Resting(b)
        /\ block[b].vctr = BLOCK_CTR_FULL - Cardinality(block[b].head)
        /\ block[b].vctr # 0 => block[b].mpool \in Thread
    BY <1>3, <2>1 DEF IInv, VmaInv
  <2>4. {t \in Thread : b \in PoolBlocks(t)} =
          IF block[b].vctr \in 1 .. BLOCK_CTR_FULL - 1 THEN {block[b].mpool} ELSE {}
    <3>1. \A t \in Thread : b \in PoolBlocks(t) <=>
            block[b].mpool = t /\ block[b].vctr \in 1 .. BLOCK_CTR_FULL - 1
      BY <1>3, <2>1, WhatIsListed DEF PoolSet
    <3>2. block[b].vctr \in 1 .. BLOCK_CTR_FULL - 1 => block[b].mpool \in Thread
      BY <2>3, CounterAssumption
    <3>3. CASE block[b].vctr \in 1 .. BLOCK_CTR_FULL - 1
      BY <3>1, <3>2, <3>3
    <3>4. CASE block[b].vctr \notin 1 .. BLOCK_CTR_FULL - 1
      BY <3>1, <3>4
    <3> QED BY <3>3, <3>4
  <2> QED BY <2>2, <2>3, <2>4
<1>4. IInv => NothingLost
  BY <1>1, <1>2, <1>3 DEF NothingLost
<1> QED BY <1>4, Invariant, PTL

\* Used in a way that is safe, the two orders in which vma_alloc and vma_free
\* take their locks never meet.
THEOREM NoCircularWait ==
  ASSUME Modes \subseteq SafeModes
  PROVE  Spec => []NoLockCycle
<1>1. ASSUME IInv, NEW t \in Thread, NEW u \in Thread, pc[t] = "return_gpool",
             pc[u] \in {"steal_superblock", "steal_block"}
      PROVE  mySuperblock[u] # At(myBlock[t])
  <2>1. mySuperblock[u] = S_gpool_head /\ mySuperblock[u] \in mapped
    BY <1>1 DEF IInv, LockInv, Typed, HasSuper
  <2>2. mySuperblock[u] \in AvailSet
    BY <1>1, <2>1, ListedMapped
  <2> QED BY <1>1, <2>2 DEF AvailSet, Leaving
<1>2. ASSUME IInv, NEW t \in Thread, NEW u \in Thread, pc[t] = "return_superblock",
             pc[u] = "steal_block"
      PROVE  myBlock[u] # myBlock[t]
  <2>1. /\ mySuperblock[u] \in mapped /\ myBlock[u] \in Block
        /\ myBlock[u] = superblock[mySuperblock[u]].head
    BY <1>2 DEF IInv, LockInv, Typed, HasSuper, HasBlock
  <2>2. myBlock[u] \in Untaken(mySuperblock[u])
    BY <1>2, <2>1, ListedMapped, NoneAssumption
  <2> QED BY <1>2, <2>2 DEF Untaken, InHand
<1>3. IInv => NoLockCycle
  BY <1>1, <1>2 DEF NoLockCycle
<1> QED BY <1>3, Invariant, PTL

-----------------------------------------------------------------------------
(* What the allocator promises *)

\* vma_alloc hands out a vm_area nobody has, of memory that is there; vma_free
\* takes one that is handed out; memory is given back only without one.
LEMMA SupplyStep ==
  ASSUME IInv, [Next]_vars
  PROVE  [Supply!Next]_<<mapped, live>>
<1>1. CASE UNCHANGED vars \/ Barrier
  BY <1>1 DEF vars, client, Barrier
<1>2. ASSUME NEW t \in Thread, CallAlloc(t)
      PROVE  UNCHANGED <<mapped, live>>
  BY <1>2 DEF CallAlloc, client
<1>3. ASSUME NEW t \in Thread, CallFree(t)
      PROVE  Supply!Next
  <2>1. PICK v \in live : live' = live \ {v}
    BY <1>3 DEF CallFree
  <2>2. v \in Vma /\ mapped' = mapped
    BY <1>3 DEF IInv, Typed, CallFree, client
  <2>3. Supply!Give(v)
    BY <2>1, <2>2 DEF Supply!Give
  <2> QED BY <2>2, <2>3 DEF Supply!Next
<1>4. ASSUME NEW v, NEW b \in Block, At(b) \in mapped, v \in block[b].head,
             live' = live \cup {v}, mapped' = mapped
      PROVE  Supply!Next
  <2>1. v \in VmasOf(b) /\ v \notin live
    BY <1>4 DEF IInv, VmaInv, Resting
  <2>2. v \in Vma /\ Home[v] \in mapped
    BY <1>4, <2>1, Places DEF VmasOf
  <2>3. Supply!Take(v)
    BY <1>4, <2>1, <2>2 DEF Supply!Take
  <2> QED BY <2>2, <2>3 DEF Supply!Next
<1>5. ASSUME NEW t \in Thread, AllocStolen(t)
      PROVE  Supply!Next
  <2>1. PICK v \in block[myBlock[t]].head : AllocStolenDoes(t, myBlock[t], v)
    BY <1>5, AllocStolenEffect
  <2>2. mapped' = mapped
    BY <1>5 DEF AllocStolen, client
  <2> QED BY <1>4, <2>1, <2>2 DEF AllocStolenDoes
<1>6. ASSUME NEW t \in Thread, AllocCached(t)
      PROVE  Supply!Next
  <2>1. PICK v \in block[myBlock[t]].head : AllocCachedDoes(t, myBlock[t], v)
    BY <1>6, AllocCachedEffect
  <2>2. mapped' = mapped
    BY <1>6 DEF AllocCached, client
  <2>3. myBlock[t] \in Block /\ At(myBlock[t]) \in mapped /\ live' = live \cup {v}
    BY <2>1 DEF AllocCachedDoes, PoolSet
  <2> QED BY <1>4, <2>1, <2>2, <2>3
<1>7. ASSUME NEW t \in Thread, StealGpool(t)
      PROVE  [Supply!Next]_<<mapped, live>>
  <2>1. live' = live /\ (mapped' = mapped
                         \/ \E s \in Superblock \ mapped : mapped' = mapped \cup {s})
    BY <1>7 DEF StealGpool
  <2>2. ASSUME NEW s \in Superblock \ mapped, mapped' = mapped \cup {s}
        PROVE  Supply!Next
    <3>1. Supply!Grow(s)
      BY <2>1, <2>2 DEF Supply!Grow
    <3> QED BY <3>1 DEF Supply!Next
  <2> QED BY <2>1, <2>2
<1>8. ASSUME NEW t \in Thread, PutMemory(t)
      PROVE  Supply!Next
  <2> DEFINE s == mySuperblock[t]
  <2>1. pc[t] = "put_memory" /\ mapped' = mapped \ {s} /\ live' = live
    BY <1>8 DEF PutMemory, Ready
  <2>2. s \in mapped /\ s \in Superblock /\ \A v \in live : Home[v] # s
    BY <2>1, PutNotInUse DEF IInv, Typed
  <2>3. Supply!Shrink(s)
    BY <2>1, <2>2 DEF Supply!Shrink
  <2> QED BY <2>2, <2>3 DEF Supply!Next
<1>9. ASSUME NEW t \in Thread,
             \/ StealSuperblock(t) \/ StealBlock(t) \/ Free(t) \/ ReturnSuperblock(t)
             \/ ReturnGpool(t) \/ ReturnBlock(t) \/ PutBlock(t) \/ PutGpool(t)
             \/ PutSuperblock(t)
      PROVE  UNCHANGED <<mapped, live>>
  BY <1>9 DEF StealSuperblock, StealBlock, Free, ReturnSuperblock, ReturnGpool,
              ReturnBlock, PutBlock, PutGpool, PutSuperblock, client
<1> QED BY <1>1, <1>2, <1>3, <1>5, <1>6, <1>7, <1>8, <1>9 DEF Next, Working

\* Used in a way that is safe, the allocator implements VmaSupply.
THEOREM Implements ==
  ASSUME Modes \subseteq SafeModes
  PROVE  Spec => SupplySpec
<1>1. Init => Supply!Init
  BY DEF Init, Supply!Init
<1>2. IInv /\ [Next]_vars => [Supply!Next]_<<mapped, live>>
  BY SupplyStep
<1> QED BY <1>1, <1>2, Invariant, PTL DEF Spec, SupplySpec, Supply!Spec
=============================================================================
