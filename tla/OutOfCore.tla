------------------------------ MODULE OutOfCore ------------------------------
(***************************************************************************)
(* The core of OpenOOC: ooc_malloc and ooc_free (src/src/malloc.c), the    *)
(* SIGSEGV handler that grants access to out-of-core pages, and the        *)
(* library's initialisation, scheduling and finalisation                   *)
(* (src/src/sched.c), run by several threads over one vma_tree.            *)
(*                                                                         *)
(* The splay tree is here the set of its nodes: each public operation of   *)
(* sp_tree.c runs inside the tree lock, so its effect on the set is one    *)
(* step, except that sp_tree_find_and_lock blocks on a node's lock while   *)
(* it holds the tree's.                                                    *)
(*                                                                         *)
(* An out-of-core region is known by the address at which mmap put it: its *)
(* info segment, one struct vm_area rounded up to pages, followed by the   *)
(* data segment whose address ooc_malloc returns.                          *)
(***************************************************************************)
EXTENDS Integers, FiniteSets

CONSTANTS
  Thread,      \* the threads of the process
  None,        \* no thread, or no region
  PageSize,    \* OOC_PAGE_SIZE, in the model's unit of memory
  NumPages,    \* pages of address space mmap may choose from (a bound)
  VmaSize,     \* sizeof(struct vm_area)
  Sizes,       \* the sizes the program passes to ooc_malloc
  StrayWriter, \* threads that also write outside of any kernel
  Reuse        \* whether kernels are still scheduled after ooc_finalize

ASSUME PageSizeAssumption == PageSize \in Nat \ {0}
ASSUME MemoryAssumption == NumPages \in Nat /\ VmaSize \in Nat \ {0}
ASSUME SizesAssumption == Sizes \subseteq Nat
ASSUME ThreadAssumption == None \notin Thread
ASSUME ProgramAssumption == StrayWriter \subseteq Thread /\ Reuse \in BOOLEAN

VARIABLES
  mem,         \* protection of each page: "unmapped", "r" or "rw"
  vma_tree,    \* the regions whose vm_area is a node of the splay tree
  tree_lock,   \* vma_tree.lock: the thread that holds it, or None
  vm_end,      \* vm_end of the vm_area in each region's info segment
  vm_flags,    \* its vm_flags
  vm_lock,     \* its vm_lock
  sigact,      \* disposition of SIGSEGV: "default" or "trampoline"
  S_old_act,   \* per thread: the disposition S_init replaced
  S_ps,        \* per thread: the page size, 0 until S_init has run
  S_is_init,   \* per thread: whether the library is initialised
  pc,          \* per thread: the step it takes next; "idle" in client code
  inKern,      \* per thread: whether client code is a kernel of ooc_sched
  addr,        \* per thread: address accessed (S_addr[S_me]) or freed (ptr)
  vma,         \* per thread: local variable of malloc, free and the handler
  size,        \* per thread: argument of ooc_malloc
  prot,        \* per thread: local variable of the handler
  owned,       \* regions whose pointer the program holds and may use
  closed,      \* whether the program has called its last ooc_finalize
  proc         \* "running", "aborted" (a failed assert) or "killed" (SIGSEGV)

memVars    == <<mem, vm_end, vm_flags>>
lockVars   == <<vma_tree, tree_lock, vm_lock>>
sigVars    == <<sigact, S_old_act, S_ps, S_is_init>>
clientVars == <<inKern, owned, closed>>
locals     == <<addr, vma, size, prot>>
vars == <<memVars, lockVars, sigVars, clientVars, locals, pc, proc>>

\* vm_flags bits as the handler uses them (sched.c): 0x1, set by the first
\* fault of a region, and 0x10, set by every later one.
READ  == "0x1"
DIRTY == "0x10"

Address == 0 .. NumPages * PageSize - 1
Page    == {a \in Address : a % PageSize = 0}

\* ALIGN: a size rounded up to whole pages.
ALIGN(M) == (M + PageSize - 1) - ((M + PageSize - 1) % PageSize)

\* Mutant: round up to the next page.
PageAlignUp(a, ps) == IF ps = 0 THEN 0 ELSE (a + ps - 1) - ((a + ps - 1) % ps)

\* a & ~(ps - 1): the page of an address, for a page size ps that may be 0.
PageAlign(a, ps) == IF ps = 0 THEN 0 ELSE a - (a % ps)

\* The pages of the n bytes from address a on.
PagesIn(a, n) == {p \in Page : a <= p /\ p < a + n}

\* The page that holds an address.
PageOf(a) == a - (a % PageSize)

\* The sizes of a region's info segment and of the whole mapping.
info_sz    == ALIGN(VmaSize)
mmap_sz(n) == info_sz + ALIGN(n)

\* mprotect of n bytes at address a.
Protected(a, n, p) == [q \in Page |-> IF q \in PagesIn(a, n) THEN p ELSE mem[q]]

\* vm_start and the pages of the data segment of region b.
vm_start(b) == b + info_sz
DataPages(b) == PagesIn(vm_start(b), vm_end[b] - vm_start(b))

\* Mutant: a region does not hold its own vm_start.
BelowStrict(a) == {b \in vma_tree : vm_start(b) < a}

\* The node sp_tree_find_and_lock reaches for address a: the one with the
\* greatest vm_start not above a.  There is none when a is below all of them.
Below(a) == {b \in vma_tree : vm_start(b) <= a}
IsFound(a, n) == n \in Below(a) /\ \A b \in Below(a) : b <= n

Goto(t, label) == pc' = [pc EXCEPT ![t] = label]

\* Return to client code: the local variables of the call are gone.
Return(t) ==
  /\ Goto(t, "idle")
  /\ addr' = [addr EXCEPT ![t] = 0]
  /\ vma' = [vma EXCEPT ![t] = None]
  /\ size' = [size EXCEPT ![t] = 0]
  /\ prot' = [prot EXCEPT ![t] = "r"]

\* munmap of n bytes at b.  The vm_area there is gone: memory mapped later is
\* anonymous, and zero.
Unmap(b, n) ==
  /\ mem' = Protected(b, n, "unmapped")
  /\ vm_end' = [vm_end EXCEPT ![b] = 0]
  /\ vm_flags' = [vm_flags EXCEPT ![b] = {}]

-----------------------------------------------------------------------------
Init ==
  /\ mem = [p \in Page |-> "unmapped"]
  /\ vma_tree = {}
  /\ tree_lock = None
  /\ vm_end = [b \in Page |-> 0]
  /\ vm_flags = [b \in Page |-> {}]
  /\ vm_lock = [b \in Page |-> None]
  /\ sigact = "default"
  /\ S_old_act = [t \in Thread |-> "default"]
  /\ S_ps = [t \in Thread |-> 0]
  /\ S_is_init = [t \in Thread |-> FALSE]
  /\ pc = [t \in Thread |-> "idle"]
  /\ inKern = [t \in Thread |-> FALSE]
  /\ addr = [t \in Thread |-> 0]
  /\ vma = [t \in Thread |-> None]
  /\ size = [t \in Thread |-> 0]
  /\ prot = [t \in Thread |-> "r"]
  /\ owned = {}
  /\ closed = FALSE
  /\ proc = "running"

-----------------------------------------------------------------------------
(* ooc_malloc *)

CallMalloc(t) ==
  /\ pc[t] = "idle"
  /\ \E n \in Sizes : size' = [size EXCEPT ![t] = n]
  /\ Goto(t, "mmap")
  /\ UNCHANGED <<memVars, lockVars, sigVars, clientVars, addr, vma, prot, proc>>

\* mmap of info and data segments, readable and zero, wherever there is room.
\* It may fail, and ooc_malloc returns NULL.
Mmap(t) ==
  /\ pc[t] = "mmap"
  /\ \/ \E b \in Page :
          /\ b + mmap_sz(size[t]) <= NumPages * PageSize
          /\ \A p \in PagesIn(b, mmap_sz(size[t])) : mem[p] = "unmapped"
          /\ mem' = Protected(b, mmap_sz(size[t]), "r")
          /\ vma' = [vma EXCEPT ![t] = b]
          /\ Goto(t, "info")
          /\ UNCHANGED <<addr, size, prot>>
     \/ Return(t) /\ UNCHANGED mem
  /\ UNCHANGED <<lockVars, sigVars, clientVars, vm_end, vm_flags, proc>>

\* Mutant: the error path unmaps the info segment only.
SetupInfoLeak(t) ==
  /\ pc[t] = "info"
  /\ Unmap(vma[t], info_sz) /\ Return(t)
  /\ UNCHANGED <<lockVars, sigVars, clientVars, proc>>

\* mprotect of the info segment and the setup of vm_start and vm_end.  When
\* mprotect fails the mapping is removed and ooc_malloc returns NULL.
SetupInfo(t) ==
  /\ pc[t] = "info"
  /\ \/ /\ mem' = Protected(vma[t], info_sz, "rw")
        /\ vm_end' = [vm_end EXCEPT ![vma[t]] = vm_start(vma[t]) + size[t]]
        /\ Goto(t, "insert")
        /\ UNCHANGED <<vm_flags, locals>>
     \/ Unmap(vma[t], mmap_sz(size[t])) /\ Return(t)
  /\ UNCHANGED <<lockVars, sigVars, clientVars, proc>>

\* sp_tree_insert: initialise the node's lock and insert it, under the tree's
\* lock.  Keys must differ.  ooc_malloc then returns the data segment.
Insert(t) ==
  /\ pc[t] = "insert"
  /\ tree_lock = None
  /\ IF vma[t] \in vma_tree
       THEN proc' = "aborted" /\ UNCHANGED <<vma_tree, vm_lock, owned, pc, locals>>
       ELSE /\ vm_lock' = [vm_lock EXCEPT ![vma[t]] = None]
            /\ vma_tree' = vma_tree \cup {vma[t]}
            /\ owned' = owned \cup {vma[t]}
            /\ Return(t)
            /\ UNCHANGED proc
  /\ UNCHANGED <<memVars, sigVars, tree_lock, inKern, closed>>

-----------------------------------------------------------------------------
(* sp_tree_find_and_lock, called by the handler and by ooc_free *)

\* Take the tree's lock and find the node: one of the assertions fails when
\* no node holds the address.
Find(t, from, to) ==
  /\ pc[t] = from
  /\ tree_lock = None
  /\ \/ \E n \in vma_tree :
          /\ IsFound(addr[t], n)
          /\ addr[t] < vm_end[n]
          /\ tree_lock' = t
          /\ vma' = [vma EXCEPT ![t] = n]
          /\ Goto(t, to)
          /\ UNCHANGED proc
     \/ /\ ~ \E n \in vma_tree : IsFound(addr[t], n) /\ addr[t] < vm_end[n]
        /\ proc' = "aborted"
        /\ UNCHANGED <<tree_lock, vma, pc>>
  /\ UNCHANGED <<memVars, sigVars, clientVars, vma_tree, vm_lock, addr, size,
                 prot>>

\* Mutant: the lock is taken without waiting for it.
LockNodeNoWait(t, from, to) ==
  /\ pc[t] = from
  /\ vm_lock' = [vm_lock EXCEPT ![vma[t]] = t]
  /\ tree_lock' = None
  /\ Goto(t, to)
  /\ UNCHANGED <<memVars, sigVars, clientVars, vma_tree, locals, proc>>

\* Mutant: the tree's lock is not released.
LockNodeKeepTree(t, from, to) ==
  /\ pc[t] = from
  /\ vm_lock[vma[t]] = None
  /\ vm_lock' = [vm_lock EXCEPT ![vma[t]] = t]
  /\ Goto(t, to)
  /\ UNCHANGED <<memVars, sigVars, clientVars, vma_tree, tree_lock, locals, proc>>

\* Wait for the node's lock, then release the tree's.
LockNode(t, from, to) ==
  /\ pc[t] = from
  /\ vm_lock[vma[t]] = None
  /\ vm_lock' = [vm_lock EXCEPT ![vma[t]] = t]
  /\ tree_lock' = None
  /\ Goto(t, to)
  /\ UNCHANGED <<memVars, sigVars, clientVars, vma_tree, addr, vma, size, prot,
                 proc>>

-----------------------------------------------------------------------------
(* ooc_free *)

\* The program frees a pointer it owns and that no thread is using.
CallFree(t) ==
  /\ pc[t] = "idle"
  /\ \E b \in owned :
       /\ \A u \in Thread : pc[u] \in {"write", "find", "lock", "flags",
            "protect", "unlock"} => addr[u] \notin vm_start(b) .. vm_end[b] - 1
       /\ owned' = owned \ {b}
       /\ addr' = [addr EXCEPT ![t] = vm_start(b)]
  /\ Goto(t, "free_find")
  /\ UNCHANGED <<memVars, lockVars, sigVars, inKern, closed, vma, size, prot,
                 proc>>

\* sp_tree_remove, under the tree's lock and with the node's still held.  The
\* node's lock is destroyed; a node that is not in the tree is an error.
Remove(t) ==
  /\ pc[t] = "remove"
  /\ tree_lock = None
  /\ IF vma[t] \in vma_tree
       THEN /\ vma_tree' = vma_tree \ {vma[t]}
            /\ vm_lock' = [vm_lock EXCEPT ![vma[t]] = None]
            /\ Goto(t, "munmap")
            /\ UNCHANGED proc
       ELSE proc' = "aborted" /\ UNCHANGED <<vma_tree, vm_lock, pc>>
  /\ UNCHANGED <<memVars, sigVars, clientVars, tree_lock, locals>>

\* Mutant: the size of the data segment is taken from the start of the info
\* segment.
MunmapFromInfo(t) ==
  /\ pc[t] = "munmap"
  /\ Unmap(vma[t], mmap_sz(vm_end[vma[t]] - vma[t]))
  /\ Return(t)
  /\ UNCHANGED <<lockVars, sigVars, clientVars, proc>>

\* munmap of both segments, whose size is that of ooc_malloc's mmap.
Munmap(t) ==
  /\ pc[t] = "munmap"
  /\ Unmap(vma[t], mmap_sz(vm_end[vma[t]] - vm_start(vma[t])))
  /\ Return(t)
  /\ UNCHANGED <<lockVars, sigVars, clientVars, proc>>

-----------------------------------------------------------------------------
(* A write to out-of-core memory and the SIGSEGV handler *)

\* The program writes to some address of a region it owns.
CallWrite(t) ==
  /\ pc[t] = "idle"
  /\ inKern[t] \/ t \in StrayWriter
  /\ \E b \in owned : \E a \in vm_start(b) .. vm_end[b] - 1 :
       addr' = [addr EXCEPT ![t] = a]
  /\ Goto(t, "write")
  /\ UNCHANGED <<memVars, lockVars, sigVars, clientVars, vma, size, prot, proc>>

\* The write instruction: it completes on a writable page; on any other the
\* signal is delivered, to S_sigsegv_trampoline when it is installed.
Write(t) ==
  /\ pc[t] = "write"
  /\ \/ mem[PageOf(addr[t])] = "rw" /\ Return(t) /\ UNCHANGED proc
     \/ /\ mem[PageOf(addr[t])] # "rw"
        /\ sigact = "trampoline"
        /\ Goto(t, "find")
        /\ UNCHANGED <<locals, proc>>
     \/ /\ mem[PageOf(addr[t])] # "rw"
        /\ sigact = "default"
        /\ proc' = "killed"
        /\ UNCHANGED <<pc, locals>>
  /\ UNCHANGED <<memVars, lockVars, sigVars, clientVars>>

\* Mutant: write access is granted without marking the region dirty.
FlagsClean(t) ==
  /\ pc[t] = "flags"
  /\ vm_flags' = [vm_flags EXCEPT ![vma[t]] = @ \cup {READ}]
  /\ prot' = [prot EXCEPT ![t] = IF READ \in vm_flags[vma[t]] THEN "rw" ELSE "r"]
  /\ Goto(t, "protect")
  /\ UNCHANGED <<lockVars, sigVars, clientVars, mem, vm_end, addr, vma, size, proc>>

\* Mutant: the node is unlocked before the page's protection is changed.
FlagsUnlocking(t) ==
  /\ pc[t] = "flags"
  /\ LET seen == READ \in vm_flags[vma[t]] IN
       /\ vm_flags' = [vm_flags EXCEPT
                         ![vma[t]] = @ \cup {IF seen THEN DIRTY ELSE READ}]
       /\ prot' = [prot EXCEPT ![t] = IF seen THEN "rw" ELSE "r"]
  /\ vm_lock' = [vm_lock EXCEPT ![vma[t]] = None]
  /\ Goto(t, "protect")
  /\ UNCHANGED <<vma_tree, tree_lock, sigVars, clientVars, mem, vm_end, addr, vma,
                 size, proc>>

\* S_sigsegv_handler with the node locked: the first fault of a region asks
\* for read access, every later one for write access.
Flags(t) ==
  /\ pc[t] = "flags"
  /\ \/ /\ READ \notin vm_flags[vma[t]]
        /\ vm_flags' = [vm_flags EXCEPT ![vma[t]] = @ \cup {READ}]
        /\ prot' = [prot EXCEPT ![t] = "r"]
     \/ /\ READ \in vm_flags[vma[t]]
        /\ vm_flags' = [vm_flags EXCEPT ![vma[t]] = @ \cup {DIRTY}]
        /\ prot' = [prot EXCEPT ![t] = "rw"]
  /\ Goto(t, "protect")
  /\ UNCHANGED <<lockVars, sigVars, clientVars, mem, vm_end, addr, vma, size, proc>>

\* mprotect of the S_ps bytes at the page of the offending address.
Protect(t) ==
  /\ pc[t] = "protect"
  /\ mem' = Protected(PageAlign(addr[t], S_ps[t]), S_ps[t], prot[t])
  /\ Goto(t, "unlock")
  /\ UNCHANGED <<lockVars, sigVars, clientVars, vm_end, vm_flags, locals, proc>>

\* Mutant: the node stays locked.
UnlockForgotten(t) ==
  /\ pc[t] = "unlock"
  /\ vma' = [vma EXCEPT ![t] = None]
  /\ Goto(t, "write")
  /\ UNCHANGED <<memVars, lockVars, sigVars, clientVars, addr, size, prot, proc>>

\* Unlock the node and return from the signal: the write is executed again.
Unlock(t) ==
  /\ pc[t] = "unlock"
  /\ vm_lock' = [vm_lock EXCEPT ![vma[t]] = None]
  /\ vma' = [vma EXCEPT ![t] = None]
  /\ prot' = [prot EXCEPT ![t] = "r"]
  /\ Goto(t, "write")
  /\ UNCHANGED <<memVars, sigVars, clientVars, vma_tree, tree_lock, addr, size,
                 proc>>

-----------------------------------------------------------------------------
(* ooc_sched and ooc_finalize *)

\* Mutant: S_ps holds the mask of the offset within a page.
S_initMask(t) ==
  /\ S_ps' = [S_ps EXCEPT ![t] = PageSize - 1]
  /\ S_old_act' = [S_old_act EXCEPT ![t] = sigact]
  /\ sigact' = "trampoline"
  /\ S_is_init' = [S_is_init EXCEPT ![t] = TRUE]

\* Mutant: a thread that finds the handler installed does no more than note it.
S_initOnce(t) ==
  /\ S_ps' = IF sigact = "trampoline" THEN S_ps ELSE [S_ps EXCEPT ![t] = PageSize]
  /\ S_old_act' = [S_old_act EXCEPT ![t] = sigact]
  /\ sigact' = "trampoline"
  /\ S_is_init' = [S_is_init EXCEPT ![t] = TRUE]

\* S_init: the disposition of SIGSEGV belongs to the process, the rest of the
\* library's state to the calling thread.
S_init(t) ==
  /\ S_ps' = [S_ps EXCEPT ![t] = PageSize]
  /\ S_old_act' = [S_old_act EXCEPT ![t] = sigact]
  /\ sigact' = "trampoline"
  /\ S_is_init' = [S_is_init EXCEPT ![t] = TRUE]

\* ooc_sched: initialise the library on the thread's first call and switch to
\* the kernel on fiber 0.
Sched(t) ==
  /\ pc[t] = "idle" /\ ~inKern[t] /\ ~closed
  /\ IF S_is_init[t] THEN UNCHANGED sigVars ELSE S_init(t)
  /\ inKern' = [inKern EXCEPT ![t] = TRUE]
  /\ UNCHANGED <<memVars, lockVars, owned, closed, pc, locals, proc>>

\* Mutant: the library is finalised after each kernel.
KernReturnFinal(t) ==
  /\ pc[t] = "idle" /\ inKern[t]
  /\ inKern' = [inKern EXCEPT ![t] = FALSE]
  /\ sigact' = S_old_act[t]
  /\ S_is_init' = [S_is_init EXCEPT ![t] = FALSE]
  /\ UNCHANGED <<memVars, lockVars, S_old_act, S_ps, owned, closed, pc, locals, proc>>

\* The kernel returns, S_flush does nothing, and so does ooc_sched's caller.
KernReturn(t) ==
  /\ pc[t] = "idle" /\ inKern[t]
  /\ inKern' = [inKern EXCEPT ![t] = FALSE]
  /\ UNCHANGED <<memVars, lockVars, sigVars, owned, closed, pc, locals, proc>>

\* ooc_finalize, which a program calls after its last kernel has returned.
Finalize(t) ==
  /\ \A u \in Thread : pc[u] = "idle" /\ ~inKern[u]
  /\ ~closed
  /\ sigact' = S_old_act[t]
  /\ S_is_init' = [S_is_init EXCEPT ![t] = FALSE]
  /\ closed' = ~Reuse
  /\ UNCHANGED <<memVars, lockVars, S_old_act, S_ps, inKern, owned, pc, locals, proc>>

-----------------------------------------------------------------------------
\* What a thread's client code may choose to do next.
Client(t) ==
  \/ CallMalloc(t) \/ CallFree(t) \/ CallWrite(t)
  \/ Sched(t) \/ KernReturn(t) \/ Finalize(t)

\* The steps of a library call that may have to wait for a lock.
Locking(t) ==
  \/ Insert(t) \/ Remove(t)
  \/ Find(t, "find", "lock") \/ LockNode(t, "lock", "flags")
  \/ Find(t, "free_find", "free_lock") \/ LockNode(t, "free_lock", "remove")

\* The other steps of a library call.
Running(t) ==
  \/ Mmap(t) \/ SetupInfo(t) \/ Munmap(t)
  \/ Write(t) \/ Flags(t) \/ Protect(t) \/ Unlock(t)

Step(t) == proc = "running" /\ (Client(t) \/ Locking(t) \/ Running(t))

Next == \E t \in Thread : Step(t)

Spec == Init /\ [][Next]_vars

\* A thread inside the library is scheduled by the operating system.
Progress(t) == proc = "running" /\ (Locking(t) \/ Running(t))
FairSpec == Spec /\ \A t \in Thread : WF_vars(Progress(t))

\* And a lock that becomes free again and again is not denied for ever to one
\* of the threads waiting for it.
LockFairSpec ==
  FairSpec /\ \A t \in Thread : SF_vars(proc = "running" /\ Locking(t))
-----------------------------------------------------------------------------
(* Properties *)

\* Values of every variable.
TypeOK ==
  /\ mem \in [Page -> {"unmapped", "r", "rw"}]
  /\ vma_tree \subseteq Page
  /\ tree_lock \in Thread \cup {None}
  /\ vm_end \in [Page -> Nat]
  /\ vm_flags \in [Page -> SUBSET {READ, DIRTY}]
  /\ vm_lock \in [Page -> Thread \cup {None}]
  /\ sigact \in {"default", "trampoline"}
  /\ S_old_act \in [Thread -> {"default", "trampoline"}]
  /\ S_ps \in [Thread -> {0, PageSize}]
  /\ S_is_init \in [Thread -> BOOLEAN]
  /\ pc \in [Thread -> {"idle", "mmap", "info", "insert", "free_find",
       "free_lock", "remove", "munmap", "write", "find", "lock", "flags",
       "protect", "unlock"}]
  /\ inKern \in [Thread -> BOOLEAN]
  /\ addr \in [Thread -> Nat]
  /\ vma \in [Thread -> Page \cup {None}]
  /\ size \in [Thread -> Nat]
  /\ prot \in [Thread -> {"r", "rw"}]
  /\ owned \subseteq Page
  /\ closed \in BOOLEAN
  /\ proc \in {"running", "aborted", "killed"}

\* No assertion of sp_tree.c fails: the address that faults, and the pointer
\* that is freed, is held by a node of the tree when the search reaches it,
\* the node to remove is in the tree, and no node is inserted twice.
NoAbort == proc # "aborted"

\* While a thread runs a kernel, the process has the library's signal handler,
\* whichever threads initialise the library, each for itself, and in which order
\* (sched.c:284,318), if none runs a kernel after ooc_finalize (~Reuse).  A thread
\* that does relies on an S_is_init of its own that another thread's ooc_finalize
\* leaves set.
KernelHasHandler == \A t \in Thread : inKern[t] => sigact = "trampoline"

\* A data page the program can write to belongs to a region whose flags say
\* read and dirty: no written page escapes a flush that goes by the flags.
DirtyCoversWritable ==
  \A b \in vma_tree : \A p \in DataPages(b) :
    mem[p] = "rw" => vm_flags[b] = {READ, DIRTY}

\* A page that was made writable stays so until it is unmapped: no thread's
\* handler, deciding on flags another thread has since changed, takes away
\* what that thread's handler granted.
NoDowngrade ==
  [][\A p \in Page : mem[p] = "rw" => mem'[p] \in {"rw", "unmapped"}]_vars

\* Having applied its decision, and until it unlocks the node, a handler has
\* given exactly the access it decided on to the page of the offending
\* address (sched.c: "Apply updates to page containing offending address").
GrantApplied ==
  \A t \in Thread : pc[t] = "unlock" => mem[PageOf(addr[t])] = prot[t]

\* The labels at which a thread has found a node, and at which it holds the
\* node's lock.
FoundPc == {"lock", "flags", "protect", "unlock", "free_lock", "remove"}
HeldPc  == {"flags", "protect", "unlock", "remove"}

\* The vm_area a search returned is neither removed nor unmapped before the
\* thread is done with it, and it holds the address searched for.
FoundIsLive ==
  \A t \in Thread : pc[t] \in FoundPc =>
    /\ vma[t] \in vma_tree
    /\ addr[t] \in vm_start(vma[t]) .. vm_end[vma[t]] - 1
    /\ mem[vma[t]] = "rw"

\* The vm_area of a region is read and changed by one thread at a time.
Exclusive ==
  \A t \in Thread : pc[t] \in HeldPc =>
    /\ vm_lock[vma[t]] = t
    /\ \A u \in Thread \ {t} : pc[u] \in HeldPc => vma[u] # vma[t]

\* ooc_free takes the tree's lock while it holds a node's, the reverse of
\* sp_tree_find_and_lock.  Still, the thread that waits for a node's lock with
\* the tree's lock in its hands never waits for one that wants the tree's.
NoLockCycle ==
  \A t, u \in Thread :
    pc[t] \in {"lock", "free_lock"} /\ vm_lock[vma[t]] = u =>
      pc[u] \in {"flags", "protect", "unlock"}

\* Every mapped page is part of a region of the tree, or of the one that some
\* ooc_malloc or ooc_free is at work on, and regions share no page: mmap, its
\* error path and munmap agree on a region's size.
Extent(b, n) == PagesIn(b, mmap_sz(n))
MallocPc     == {"info", "insert"}
PagesAccounted ==
  /\ {p \in Page : mem[p] # "unmapped"} =
       (UNION {Extent(b, vm_end[b] - vm_start(b)) : b \in vma_tree})
       \cup (UNION {Extent(vma[t], size[t]) :
                     t \in {u \in Thread : pc[u] \in MallocPc}})
       \cup (UNION {Extent(vma[t], vm_end[vma[t]] - vm_start(vma[t])) :
                     t \in {u \in Thread : pc[u] = "munmap"}})
  /\ \A b, c \in vma_tree : b # c =>
       Extent(b, vm_end[b] - vm_start(b)) \cap Extent(c, vm_end[c] - vm_start(c))
         = {}

\* Once the program has finalised the library, SIGSEGV has the disposition it
\* had before the library was used (sched.c: "The old sigaction to be replaced
\* when we are done").
HandlerRestored == closed => sigact = "default"

\* Every write to out-of-core memory is eventually carried out.
WriteCompletes == \A t \in Thread : pc[t] = "write" ~> pc[t] = "idle"

\* Every ooc_free returns.
FreeCompletes == \A t \in Thread : pc[t] = "free_find" ~> pc[t] = "idle"
=============================================================================
