------------------------------- MODULE VmaPool -------------------------------
(***************************************************************************)
(* The allocator of vm_area structs, src/src/vma_alloc.c: a pool of blocks *)
(* per thread (S_mpool) over one pool of superblocks for the process       *)
(* (S_gpool).                                                              *)
(*                                                                         *)
(* A superblock is a piece of memory obtained from the system, cut into    *)
(* blocks, each a set of vm_areas.  A block is on its superblock's list    *)
(* when it has never been used or all of its vm_areas were freed, on the   *)
(* list of one thread's pool when some of its vm_areas are free, on no     *)
(* list when none is.  A superblock is on S_gpool's list when it has a     *)
(* block left.  The lists are doubly linked, with the pointers of the      *)
(* code; the prev pointer of a first element is never read and often       *)
(* stale.                                                                  *)
(*                                                                         *)
(* A step is a critical section, or the part of one up to the next lock    *)
(* that may be waited for.  The lock of an S_mpool is taken last and held  *)
(* for a few assignments, so it is not a variable: what it guards is one   *)
(* step.  vma_alloc's look at S_mpool.head without that lock is a step of  *)
(* its own.                                                                *)
(***************************************************************************)
EXTENDS Integers, FiniteSets

CONSTANTS
  Thread,              \* the threads that use the pool
  None,                \* no thread, or the pointer NULL
  BLOCK_CTR_FULL,      \* vm_areas in a block
  SUPERBLOCK_CTR_FULL, \* blocks in a superblock
  NumSuperblocks,      \* superblocks the system has memory for (a bound)
  MaxLive,             \* vm_areas in use beyond which none is asked for (a bound)
  Modes                \* the ways, of those below, the program may use it

ASSUME CounterAssumption ==
  BLOCK_CTR_FULL \in Nat \ {0, 1} /\ SUPERBLOCK_CTR_FULL \in Nat \ {0, 1}
ASSUME MemoryAssumption == NumSuperblocks \in Nat /\ MaxLive \in Nat
\* The ways that are safe, explained at the actions of the program.
SafeModes == {"serial", "owner", "phased"}
ASSUME ModesAssumption == Modes \subseteq SafeModes \cup {"test", "any"}

Superblock == 1 .. NumSuperblocks
Block      == Superblock \X (1 .. SUPERBLOCK_CTR_FULL)
Vma        == Block \X (1 .. BLOCK_CTR_FULL)

\* NULL is the address of no struct.
ASSUME NoneAssumption ==
  None \notin Thread /\ None \notin Superblock /\ None \notin Block /\ None \notin Vma

\* S_block_2superblock and S_vma_2block.
BlockSuperblock(b) == b[1]
VmaBlock(v) == v[1]
Home == [v \in Vma |-> BlockSuperblock(VmaBlock(v))]

VARIABLES
  mapped,          \* superblocks that are memory of the process
  superblock,      \* struct superblock: bctr, lock, head, prev, next
  block,           \* struct block: vctr, lock, head, mpool, prev, next; head
                   \* is the set of the vm_areas on the block's list
  S_mpool_head,    \* per thread: S_mpool.head
  S_gpool_head,    \* S_gpool.head
  S_gpool_lock,    \* S_gpool.lock: the thread that holds it, or None
  live,            \* the vm_areas handed out and not yet freed
  pc,              \* per thread: the step it takes next; "idle" outside
  myBlock,         \* per thread: local variable block
  mySuperblock,    \* per thread: local variable superblock
  myVma,           \* per thread: argument of vma_free
  mode,            \* how the program uses the pool
  phase,           \* "alloc" or "free" between barriers of the program
  aborted          \* whether an assertion has failed

links  == <<superblock, block, S_mpool_head, S_gpool_head>>
client == <<mapped, mode, phase>>
locals == <<pc, myBlock, mySuperblock, myVma>>
vars   == <<links, client, locals, S_gpool_lock, live, aborted>>

Goto(t, label) == pc' = [pc EXCEPT ![t] = label]

\* Return to the program.
Return(t) ==
  /\ Goto(t, "idle")
  /\ myBlock' = [myBlock EXCEPT ![t] = None]
  /\ mySuperblock' = [mySuperblock EXCEPT ![t] = None]
  /\ myVma' = [myVma EXCEPT ![t] = None]

-----------------------------------------------------------------------------
(* Doubly linked lists, over superblocks or blocks.  f maps an element to   *)
(* its struct, h is the head of the list and n the element concerned.       *)

SetPrev(f, n, p) == IF n = None THEN f ELSE [f EXCEPT ![n].prev = p]

\* Mutant: the new head's successor is not linked back to it.
PrependedHalf(f, h, n) == [f EXCEPT ![n].next = h]

\* An element put in front of the head.
Prepended(f, h, n) == SetPrev([f EXCEPT ![n].next = h], h, n)

\* The first element removed.
Popped(f, n) == SetPrev(f, f[n].next, f[n].prev)

\* Mutant: the element after the one removed still points back to it.
RemovedOneWay(f, h, n) ==
  IF h = n THEN f ELSE [f EXCEPT ![f[n].prev].next = f[n].next]

\* Mutant: the list starts after the element removed.
HeadAfter(f, h, n) == f[n].next

\* Any element removed, and the head after it.
Removed(f, h, n) ==
  SetPrev(IF h = n THEN f ELSE [f EXCEPT ![f[n].prev].next = f[n].next],
          f[n].next, f[n].prev)
HeadWithout(f, h, n) == IF h = n THEN f[n].next ELSE h

\* The elements these follow a pointer to, besides n itself.
NextOf(f, n)         == {f[n].next} \ {None}
NeighboursOf(f, h, n) == NextOf(f, n) \cup IF h = n THEN {} ELSE {f[n].prev}

-----------------------------------------------------------------------------
Init ==
  /\ mapped = {}
  /\ superblock = [s \in Superblock |->
       [bctr |-> 0, lock |-> None, head |-> None, prev |-> None, next |-> None]]
  /\ block = [b \in Block |-> [vctr |-> 0, lock |-> None, head |-> {},
       mpool |-> None, prev |-> None, next |-> None]]
  /\ S_mpool_head = [t \in Thread |-> None]
  /\ S_gpool_head = None
  /\ S_gpool_lock = None
  /\ live = {}
  /\ pc = [t \in Thread |-> "idle"]
  /\ myBlock = [t \in Thread |-> None]
  /\ mySuperblock = [t \in Thread |-> None]
  /\ myVma = [t \in Thread |-> None]
  /\ mode \in Modes
  /\ phase = "alloc"
  /\ aborted = FALSE

-----------------------------------------------------------------------------
(* The program.                                                            *)
(*   "serial"  one call at a time, as sp_tree.c makes them under the       *)
(*             tree's lock;                                                *)
(*   "owner"   a thread frees what it allocated itself, out of the blocks   *)
(*             of its own pool;                                            *)
(*   "phased"  all threads allocate, then all free, and so on, with a      *)
(*             barrier between phases, whoever allocated what;             *)
(*   "test"    the same: the test of vma_alloc.c;                          *)
(*   "any"     any thread allocates and frees at any time.                 *)
(* In "owner", "phased" and "any" the program never frees the last vm_area *)
(* of a superblock, so that none is given back to the system.              *)

Quiet == \A t \in Thread : pc[t] = "idle"

MayCall(p) ==
  /\ mode = "serial" => Quiet
  /\ mode \in {"phased", "test"} => phase = p

MayFree(t, v) ==
  /\ mode = "owner" => block[VmaBlock(v)].mpool = t
  /\ mode \in {"owner", "phased", "any"} => \E w \in live \ {v} : Home[w] = Home[v]

\* A barrier between two phases.
Barrier ==
  /\ mode \in {"phased", "test"}
  /\ Quiet
  /\ phase' = IF phase = "alloc" THEN "free" ELSE "alloc"
  /\ UNCHANGED <<links, locals, mapped, mode, S_gpool_lock, live, aborted>>

-----------------------------------------------------------------------------
\* The superblock that holds the struct a pointer to a block points to.
At(b) == IF b = None THEN None ELSE BlockSuperblock(b)

\* The superblocks whose memory, and the blocks whose struct, the next step of
\* a thread reads or writes.  NULL is among them when it follows that.
UsesSuperblock(t) ==
  LET s == mySuperblock[t] IN
  CASE pc[t] \in {"steal_superblock", "put_superblock", "put_memory"} -> {s}
    [] pc[t] = "steal_block" ->
         IF myBlock[t] # None /\ block[myBlock[t]].next = None
           THEN {s} \cup NextOf(superblock, s) ELSE {s}
    [] pc[t] = "return_gpool" -> {S_gpool_head} \ {None}
    [] pc[t] = "put_gpool" ->
         IF s \in mapped THEN {s} \cup NeighboursOf(superblock, S_gpool_head, s)
         ELSE {s}
    [] OTHER -> {}

UsesBlock(t) ==
  LET b == myBlock[t] IN
  CASE At(b) \notin mapped ->
         IF pc[t] \in {"idle", "steal_gpool", "steal_superblock", "put_gpool",
                       "put_superblock", "put_memory"} THEN {} ELSE {b}
    [] pc[t] = "steal_block" -> {b} \cup NextOf(block, b)
    [] pc[t] \in {"alloc_stolen", "alloc_cached"} ->
         CASE block[b].head = {} -> {None}
           [] Cardinality(block[b].head) = 1 /\ pc[t] = "alloc_cached" ->
                {b} \cup NextOf(block, b)
           [] OTHER -> {b}
    [] pc[t] = "free" ->
         CASE block[b].mpool = None -> {None}
           [] block[b].vctr = 1 ->
                {b} \cup NeighboursOf(block, S_mpool_head[block[b].mpool], b)
           [] block[b].head = {} ->
                {b} \cup ({S_mpool_head[block[b].mpool]} \ {None})
           [] OTHER -> {b}
    [] pc[t] = "return_superblock" ->
         {b} \cup ({superblock[At(b)].head} \ {None})
    [] OTHER -> {b}

Safe(t) ==
  UsesSuperblock(t) \cup {At(b) : b \in UsesBlock(t)} \subseteq mapped

\* A thread takes a step only when its pointers are good and no assertion has
\* failed: nothing is said of what follows otherwise.
Ready(t, label) == pc[t] = label /\ ~aborted /\ Safe(t)

-----------------------------------------------------------------------------
(* vma_alloc *)

\* S_mpool.head is read without S_mpool.lock.
CallAlloc(t) ==
  /\ Ready(t, "idle")
  /\ MayCall("alloc")
  /\ Cardinality(live) < MaxLive
  /\ myBlock' = [myBlock EXCEPT ![t] = S_mpool_head[t]]
  /\ Goto(t, IF S_mpool_head[t] = None THEN "steal_gpool" ELSE "alloc_cached")
  /\ UNCHANGED <<links, client, S_gpool_lock, live, mySuperblock, myVma, aborted>>

\* Mutant: a superblock is set up with its last block left on no list.
SetupShort(s) ==
  /\ superblock' = [superblock EXCEPT ![s] =
       [bctr |-> 0, lock |-> None, head |-> <<s, 1>>, prev |-> None, next |-> None]]
  /\ block' = [b \in Block |-> IF BlockSuperblock(b) # s THEN block[b] ELSE
       [vctr |-> 0, lock |-> None, head |-> {b} \X (1 .. BLOCK_CTR_FULL),
        mpool |-> None,
        prev |-> IF b[2] = 1 THEN None ELSE <<s, b[2] - 1>>,
        next |-> IF b[2] + 1 >= SUPERBLOCK_CTR_FULL THEN None ELSE <<s, b[2] + 1>>]]

\* A new superblock: its blocks are all on its list, in the order of their
\* addresses, and the vm_areas of each on the block's.
Setup(s) ==
  /\ superblock' = [superblock EXCEPT ![s] =
       [bctr |-> 0, lock |-> None, head |-> <<s, 1>>, prev |-> None, next |-> None]]
  /\ block' = [b \in Block |-> IF BlockSuperblock(b) # s THEN block[b] ELSE
       [vctr |-> 0, lock |-> None, head |-> {b} \X (1 .. BLOCK_CTR_FULL),
        mpool |-> None,
        prev |-> IF b[2] = 1 THEN None ELSE <<s, b[2] - 1>>,
        next |-> IF b[2] = SUPERBLOCK_CTR_FULL THEN None ELSE <<s, b[2] + 1>>]]

\* Mutant: S_gpool stays locked when there is no memory.
StealGpoolLocked(t) ==
  /\ Ready(t, "steal_gpool")
  /\ S_gpool_lock = None
  /\ S_gpool_lock' = t
  /\ \/ /\ S_gpool_head # None
        /\ mySuperblock' = [mySuperblock EXCEPT ![t] = S_gpool_head]
        /\ Goto(t, "steal_superblock")
        /\ UNCHANGED <<links, mapped, myBlock, myVma>>
     \/ /\ S_gpool_head = None
        /\ \E s \in Superblock \ mapped :
             /\ mapped' = mapped \cup {s}
             /\ S_gpool_head' = s
             /\ Setup(s)
             /\ mySuperblock' = [mySuperblock EXCEPT ![t] = s]
        /\ Goto(t, "steal_superblock")
        /\ UNCHANGED <<S_mpool_head, myBlock, myVma>>
     \/ /\ S_gpool_head = None
        /\ Return(t)
        /\ UNCHANGED <<links, mapped>>
  /\ UNCHANGED <<mode, phase, live, aborted>>

\* S_block_steal_and_lock up to the superblock's lock: S_gpool's first
\* superblock, or a new one, or NULL when the system has no more memory.
StealGpool(t) ==
  /\ Ready(t, "steal_gpool")
  /\ S_gpool_lock = None
  /\ \/ /\ S_gpool_head # None
        /\ mySuperblock' = [mySuperblock EXCEPT ![t] = S_gpool_head]
        /\ S_gpool_lock' = t
        /\ Goto(t, "steal_superblock")
        /\ UNCHANGED <<links, mapped, myBlock, myVma>>
     \/ /\ S_gpool_head = None
        /\ \E s \in Superblock \ mapped :
             /\ mapped' = mapped \cup {s}
             /\ S_gpool_head' = s
             /\ Setup(s)
             /\ mySuperblock' = [mySuperblock EXCEPT ![t] = s]
        /\ S_gpool_lock' = t
        /\ Goto(t, "steal_superblock")
        /\ UNCHANGED <<S_mpool_head, myBlock, myVma>>
     \/ /\ S_gpool_head = None
        /\ Return(t)
        /\ UNCHANGED <<links, mapped, S_gpool_lock>>
  /\ UNCHANGED <<mode, phase, live, aborted>>

\* Lock the superblock and look at its first block.
StealSuperblock(t) ==
  LET s == mySuperblock[t] IN
  /\ Ready(t, "steal_superblock")
  /\ superblock[s].lock = None
  /\ superblock' = [superblock EXCEPT ![s].lock = t]
  /\ myBlock' = [myBlock EXCEPT ![t] = superblock[s].head]
  /\ Goto(t, "steal_block")
  /\ UNCHANGED <<client, block, S_mpool_head, S_gpool_head, S_gpool_lock, live,
                 mySuperblock, myVma, aborted>>

\* Lock the block, take it off the superblock's list, take the superblock off
\* S_gpool's list when that was its last, and unlock both pools.
StealBlock(t) ==
  LET b == myBlock[t]
      s == mySuperblock[t]
      n == block[b].next
      taken == [superblock EXCEPT
        ![s].head = n, ![s].bctr = @ + 1, ![s].lock = None] IN
  /\ Ready(t, "steal_block")
  /\ block[b].lock = None
  /\ block' = [Popped(block, b) EXCEPT ![b].lock = t]
  /\ IF n # None
       THEN superblock' = taken /\ UNCHANGED <<S_gpool_head, aborted>>
       ELSE /\ superblock' = Popped(taken, s)
            /\ S_gpool_head' = superblock[s].next
            /\ aborted' = (taken[s].bctr # SUPERBLOCK_CTR_FULL)
  /\ S_gpool_lock' = None
  /\ mySuperblock' = [mySuperblock EXCEPT ![t] = None]
  /\ Goto(t, "alloc_stolen")
  /\ UNCHANGED <<client, S_mpool_head, live, myBlock, myVma>>

\* Mutant: the vm_area stays on the block's list.
TakeKept(t, f, h) ==
  LET b == myBlock[t]
      v == CHOOSE w \in f[b].head : TRUE
      taken == [f EXCEPT ![b].vctr = @ + 1, ![b].lock = None] IN
  /\ block' = taken
  /\ S_mpool_head' = [S_mpool_head EXCEPT ![t] = h]
  /\ live' = live \cup {v}
  /\ UNCHANGED aborted

\* Hand out the block's first vm_area, take the block off the pool's list when
\* it has no other, and unlock pool and block.  f and h are the blocks' structs
\* and the head of the pool's list before.
Take(t, f, h) ==
  LET b == myBlock[t]
      v == CHOOSE w \in f[b].head : TRUE
      taken == [f EXCEPT ![b].head = @ \ {v}, ![b].vctr = @ + 1, ![b].lock = None] IN
  /\ IF f[b].head # {v}
       THEN /\ block' = taken
            /\ S_mpool_head' = [S_mpool_head EXCEPT ![t] = h]
            /\ UNCHANGED aborted
       ELSE /\ block' = Popped(taken, b)
            /\ S_mpool_head' = [S_mpool_head EXCEPT ![t] = f[b].next]
            /\ aborted' = (taken[b].vctr # BLOCK_CTR_FULL)
  /\ live' = live \cup {v}

\* With a block just stolen, which becomes the first of the pool: the other
\* blocks of the pool, which had none when vma_alloc looked, are forgotten.
AllocStolen(t) ==
  /\ Ready(t, "alloc_stolen")
  /\ Take(t,
          [block EXCEPT ![myBlock[t]].prev = None, ![myBlock[t]].next = None,
                        ![myBlock[t]].mpool = t],
          myBlock[t])
  /\ Return(t)
  /\ UNCHANGED <<client, superblock, S_gpool_head, S_gpool_lock>>

\* With the block that was the first of the pool when vma_alloc looked.
AllocCached(t) ==
  /\ Ready(t, "alloc_cached")
  /\ block[myBlock[t]].lock = None
  /\ Take(t, block, S_mpool_head[t])
  /\ Return(t)
  /\ UNCHANGED <<client, superblock, S_gpool_head, S_gpool_lock>>

-----------------------------------------------------------------------------
(* vma_free *)

CallFree(t) ==
  /\ Ready(t, "idle")
  /\ MayCall("free")
  /\ \E v \in live :
       /\ MayFree(t, v)
       /\ live' = live \ {v}
       /\ myVma' = [myVma EXCEPT ![t] = v]
       /\ myBlock' = [myBlock EXCEPT ![t] = VmaBlock(v)]
  /\ Goto(t, "free")
  /\ UNCHANGED <<links, client, S_gpool_lock, mySuperblock, aborted>>

\* Lock the block and put the vm_area on its list.  A block whose vm_areas are
\* now all free leaves the list of the pool it is on, a block that had none
\* free goes to the front of the list of the pool it was last on.
Free(t) ==
  LET v == myVma[t]
      b == myBlock[t]
      p == block[b].mpool
      h == S_mpool_head[p]
      given == [block EXCEPT ![b].head = @ \cup {v}, ![b].vctr = @ - 1] IN
  /\ Ready(t, "free")
  /\ block[b].lock = None
  /\ \/ /\ given[b].vctr = 0
        /\ block' = [Removed(given, h, b) EXCEPT ![b].lock = t]
        /\ S_mpool_head' = [S_mpool_head EXCEPT ![p] = HeadWithout(block, h, b)]
        /\ myVma' = [myVma EXCEPT ![t] = None]
        /\ Goto(t, "return_superblock")
        /\ UNCHANGED <<myBlock, mySuperblock, aborted>>
     \/ /\ given[b].vctr # 0
        /\ block[b].head = {}
        /\ block' = Prepended(given, h, b)
        /\ S_mpool_head' = [S_mpool_head EXCEPT ![p] = b]
        /\ aborted' = (given[b].vctr # BLOCK_CTR_FULL - 1)
        /\ Return(t)
     \/ /\ given[b].vctr # 0
        /\ block[b].head # {}
        /\ block' = given
        /\ Return(t)
        /\ UNCHANGED <<S_mpool_head, aborted>>
  /\ UNCHANGED <<client, superblock, S_gpool_head, S_gpool_lock, live>>

\* Mutant: the superblock's counter is not decremented.
ReturnSuperblockUncounted(t) ==
  LET b == myBlock[t]
      s == BlockSuperblock(b)
      given == [superblock EXCEPT ![s].head = b] IN
  /\ Ready(t, "return_superblock")
  /\ superblock[s].lock = None
  /\ block' = Prepended(block, superblock[s].head, b)
  /\ superblock' = IF superblock[s].head = None
                     THEN [given EXCEPT ![s].lock = t] ELSE given
  /\ Goto(t, IF superblock[s].head = None THEN "return_gpool" ELSE "return_block")
  /\ UNCHANGED <<client, S_mpool_head, S_gpool_head, S_gpool_lock, live,
                 myBlock, mySuperblock, myVma, aborted>>

\* Mutant: a superblock is put back while one of its blocks is in use.
ReturnSuperblockEarly(t) ==
  LET b == myBlock[t]
      s == BlockSuperblock(b)
      given == [superblock EXCEPT ![s].head = b, ![s].bctr = @ - 1] IN
  /\ Ready(t, "return_superblock")
  /\ superblock[s].lock = None
  /\ block' = Prepended(block, superblock[s].head, b)
  /\ superblock' = IF superblock[s].head = None
                     THEN [given EXCEPT ![s].lock = t] ELSE given
  /\ Goto(t, IF superblock[s].head = None THEN "return_gpool"
             ELSE IF given[s].bctr <= 1 THEN "put_block" ELSE "return_block")
  /\ UNCHANGED <<client, S_mpool_head, S_gpool_head, S_gpool_lock, live,
                 myBlock, mySuperblock, myVma, aborted>>

\* Mutant: the superblock is put on S_gpool's list whether it is there or not.
ReturnSuperblockAgain(t) ==
  LET b == myBlock[t]
      s == BlockSuperblock(b)
      given == [superblock EXCEPT ![s].head = b, ![s].bctr = @ - 1] IN
  /\ Ready(t, "return_superblock")
  /\ superblock[s].lock = None
  /\ block' = Prepended(block, superblock[s].head, b)
  /\ superblock' = IF given[s].bctr # 0 THEN [given EXCEPT ![s].lock = t] ELSE given
  /\ Goto(t, IF given[s].bctr # 0 THEN "return_gpool" ELSE "put_block")
  /\ UNCHANGED <<client, S_mpool_head, S_gpool_head, S_gpool_lock, live,
                 myBlock, mySuperblock, myVma, aborted>>

\* S_block_unlock_and_return: lock the superblock and put the block at the
\* front of its list.  The superblock stays locked when it must go back to
\* S_gpool's list, and it is unlocked before it is given back to the system.
ReturnSuperblock(t) ==
  LET b == myBlock[t]
      s == BlockSuperblock(b)
      given == [superblock EXCEPT ![s].head = b, ![s].bctr = @ - 1] IN
  /\ Ready(t, "return_superblock")
  /\ superblock[s].lock = None
  /\ block' = Prepended(block, superblock[s].head, b)
  /\ \/ /\ given[s].bctr = 0
        /\ superblock' = given
        /\ Goto(t, "put_block")
     \/ /\ given[s].bctr # 0
        /\ superblock[s].head = None
        /\ superblock' = [given EXCEPT ![s].lock = t]
        /\ Goto(t, "return_gpool")
     \/ /\ given[s].bctr # 0
        /\ superblock[s].head # None
        /\ superblock' = given
        /\ Goto(t, "return_block")
  /\ UNCHANGED <<client, S_mpool_head, S_gpool_head, S_gpool_lock, live,
                 myBlock, mySuperblock, myVma, aborted>>

\* Put the superblock at the front of S_gpool's list, and unlock both.
ReturnGpool(t) ==
  LET s == BlockSuperblock(myBlock[t]) IN
  /\ Ready(t, "return_gpool")
  /\ S_gpool_lock = None
  /\ superblock' = [Prepended(superblock, S_gpool_head, s) EXCEPT ![s].lock = None]
  /\ S_gpool_head' = s
  /\ aborted' = (superblock[s].bctr # SUPERBLOCK_CTR_FULL - 1)
  /\ Goto(t, "return_block")
  /\ UNCHANGED <<client, block, S_mpool_head, S_gpool_lock, live, myBlock,
                 mySuperblock, myVma>>

\* Unlock the block and return.
ReturnBlock(t) ==
  /\ Ready(t, "return_block")
  /\ block' = [block EXCEPT ![myBlock[t]].lock = None]
  /\ Return(t)
  /\ UNCHANGED <<client, superblock, S_mpool_head, S_gpool_head, S_gpool_lock,
                 live, aborted>>

\* Unlock the block, and go on to give its superblock back.
PutBlock(t) ==
  /\ Ready(t, "put_block")
  /\ block' = [block EXCEPT ![myBlock[t]].lock = None]
  /\ mySuperblock' = [mySuperblock EXCEPT ![t] = BlockSuperblock(myBlock[t])]
  /\ myBlock' = [myBlock EXCEPT ![t] = None]
  /\ Goto(t, "put_gpool")
  /\ UNCHANGED <<client, superblock, S_mpool_head, S_gpool_head, S_gpool_lock,
                 live, myVma, aborted>>

\* S_superblock_unlock_and_put: off S_gpool's list, under S_gpool's lock.
PutGpool(t) ==
  LET s == mySuperblock[t] IN
  /\ Ready(t, "put_gpool")
  /\ S_gpool_lock = None
  /\ superblock' = Removed(superblock, S_gpool_head, s)
  /\ S_gpool_head' = HeadWithout(superblock, S_gpool_head, s)
  /\ Goto(t, "put_superblock")
  /\ UNCHANGED <<client, block, S_mpool_head, S_gpool_lock, live, myBlock,
                 mySuperblock, myVma, aborted>>

\* The superblock is unlocked, whoever holds its lock by now.
PutSuperblock(t) ==
  /\ Ready(t, "put_superblock")
  /\ superblock' = [superblock EXCEPT ![mySuperblock[t]].lock = None]
  /\ Goto(t, "put_memory")
  /\ UNCHANGED <<client, block, S_mpool_head, S_gpool_head, S_gpool_lock, live,
                 myBlock, mySuperblock, myVma, aborted>>

\* Its statistics are added to S_gpool's, and its memory given back.
PutMemory(t) ==
  /\ Ready(t, "put_memory")
  /\ S_gpool_lock = None
  /\ mapped' = mapped \ {mySuperblock[t]}
  /\ Return(t)
  /\ UNCHANGED <<links, mode, phase, S_gpool_lock, live, aborted>>

-----------------------------------------------------------------------------
\* What a thread does inside a call.
Working(t) ==
  \/ StealGpool(t) \/ StealSuperblock(t) \/ StealBlock(t)
  \/ AllocStolen(t) \/ AllocCached(t)
  \/ Free(t) \/ ReturnSuperblock(t) \/ ReturnGpool(t) \/ ReturnBlock(t)
  \/ PutBlock(t) \/ PutGpool(t) \/ PutSuperblock(t) \/ PutMemory(t)

Next ==
  \/ \E t \in Thread : CallAlloc(t) \/ CallFree(t) \/ Working(t)
  \/ Barrier

Spec == Init /\ [][Next]_vars

\* A thread inside a call is scheduled, and a lock that becomes free again and
\* again is not denied for ever to one of the threads that wait for it.
FairSpec == Spec /\ \A t \in Thread : SF_vars(Working(t))
-----------------------------------------------------------------------------
(* Properties *)

Labels == {"idle", "steal_gpool", "steal_superblock", "steal_block",
  "alloc_stolen", "alloc_cached", "free", "return_superblock", "return_gpool",
  "return_block", "put_block", "put_gpool", "put_superblock", "put_memory"}

\* Values of every variable; the counters stay within the struct they count.
TypeOK ==
  /\ mapped \subseteq Superblock
  /\ superblock \in [Superblock -> [bctr : 0 .. SUPERBLOCK_CTR_FULL,
       lock : Thread \cup {None}, head : Block \cup {None},
       prev : Superblock \cup {None}, next : Superblock \cup {None}]]
  /\ block \in [Block -> [vctr : 0 .. BLOCK_CTR_FULL,
       lock : Thread \cup {None}, head : SUBSET Vma,
       mpool : Thread \cup {None},
       prev : Block \cup {None}, next : Block \cup {None}]]
  /\ S_mpool_head \in [Thread -> Block \cup {None}]
  /\ S_gpool_head \in Superblock \cup {None}
  /\ S_gpool_lock \in Thread \cup {None}
  /\ live \subseteq Vma
  /\ pc \in [Thread -> Labels]
  /\ myBlock \in [Thread -> Block \cup {None}]
  /\ mySuperblock \in [Thread -> Superblock \cup {None}]
  /\ myVma \in [Thread -> Vma \cup {None}]
  /\ mode \in Modes
  /\ phase \in {"alloc", "free"}
  /\ aborted \in BOOLEAN

\* No thread is about to follow a null pointer or one into a superblock that
\* was given back, on whatever list it found it.
PointersGood == \A t \in Thread : Safe(t)

\* The assertions hold that compare the counters with the lists: a list runs
\* empty, or stops being empty, exactly at the count that fits.
NoAbort == ~aborted

\* A vm_area handed out is on no list from which it could be handed out again,
\* and its superblock is memory of the process.
HandedOutOnce ==
  \A v \in live :
    /\ v \notin block[VmaBlock(v)].head
    /\ Home[v] \in mapped

\* The i-th element of a list, from its head along the next pointers, up to
\* i = last, and None after the list's end.
Walk(f, h, last) ==
  LET walk[i \in 0 .. last] ==
        IF i = 0 THEN h ELSE IF walk[i - 1] = None THEN None ELSE f[walk[i - 1]].next
  IN  walk

\* The elements of a list; as many steps as there are elements are enough
\* unless the list is circular.
Listed(f, h, all) ==
  LET walk == Walk(f, h, Cardinality(all))
  IN  {walk[i] : i \in DOMAIN walk} \ {None}

\* Each element of a list but the first points back to the one before it.
LinkedBack(f, l) == \A n \in l : f[n].next # None => f[f[n].next].prev = n

PoolBlocks(t) == Listed(block, S_mpool_head[t], Block)
OwnBlocks(s)  == Listed(block, superblock[s].head, Block)
Available     == Listed(superblock, S_gpool_head, Superblock)

\* Between calls nothing is lost and nothing is kept for no use: the vm_areas
\* of a block are handed out or on its list; it is on its superblock's list
\* when all are free, on exactly one pool's list, the one it points to, when
\* some are, and on none when none is; its superblock is available when it has
\* a block, and has some block in use.
NothingLost ==
  Quiet =>
    /\ Available = {s \in mapped : superblock[s].head # None}
    /\ \A s \in mapped :
         /\ OwnBlocks(s) = {b \in Block : BlockSuperblock(b) = s /\ block[b].vctr = 0}
         /\ superblock[s].bctr = SUPERBLOCK_CTR_FULL - Cardinality(OwnBlocks(s))
         /\ superblock[s].bctr > 0
    /\ \A b \in Block : BlockSuperblock(b) \in mapped =>
         /\ block[b].head = {v \in Vma : VmaBlock(v) = b /\ v \notin live}
         /\ block[b].vctr = BLOCK_CTR_FULL - Cardinality(block[b].head)
         /\ {t \in Thread : b \in PoolBlocks(t)} =
              IF block[b].vctr \in 1 .. BLOCK_CTR_FULL - 1 THEN {block[b].mpool}
              ELSE {}

\* The lists can be walked backwards wherever an element may be taken out of
\* the middle: those of the pools, and S_gpool's.
ListsLinked ==
  Quiet => /\ \A t \in Thread : LinkedBack(block, PoolBlocks(t))
           /\ LinkedBack(superblock, Available)

\* S_block_unlock_and_return takes block, superblock and S_gpool in this order
\* and S_block_steal_and_lock in the reverse.  Still, one that waits for S_gpool
\* holds a superblock that nobody can be stealing from, for it was on no list,
\* and one that waits for a superblock holds a block nobody can be stealing.
NoLockCycle ==
  \A t, u \in Thread :
    /\ pc[t] = "return_gpool" /\ pc[u] \in {"steal_superblock", "steal_block"} =>
         mySuperblock[u] # At(myBlock[t])
    /\ pc[t] = "return_superblock" /\ pc[u] = "steal_block" =>
         myBlock[u] # myBlock[t]

\* What the allocator promises its callers.
Supply == INSTANCE VmaSupply WITH supply <- mapped, out <- live
SupplySpec == Supply!Spec

\* Every call returns.
CallsReturn == \A t \in Thread : pc[t] # "idle" ~> pc[t] = "idle"
=============================================================================
