# A TLA+ verification of OpenOOC

OpenOOC runs kernels over memory that need not be resident. `ooc_malloc` maps a
region without write access, a kernel run through `ooc_sched` touches it, the
SIGSEGV handler of the library decides what access to give and records it in the
region's `vm_area`, and the access is executed again. The regions are the nodes
of a splay tree that all threads share. This directory holds TLA+ models of the
library, the TLC configurations that check them, and proofs checked by TLAPS.

Paths below are relative to the root of the repository; the library is in its
`src/`, the benchmarks are in `bench/`.

## 1. Inventory

| Component | Source | State | Operations |
|---|---|---|---|
| out-of-core allocation | `src/malloc.c` | the mappings; a `vm_area` at the start of each | `ooc_malloc`, `ooc_free` |
| handler and scheduler | `src/sched.c` | disposition of SIGSEGV (process); `S_old_act`, `S_ps`, `S_is_init`, `S_me`, `S_addr`, contexts (thread) | trampoline, handler, `S_init`, `ooc_sched`, kernel trampoline, `ooc_finalize` |
| page table | `src/sp_tree.c` | `vma_tree`: root, lock, nodes with locks, a list in address order | insert, remove, find and lock, find-mod and lock |
| `vm_area` allocator | `src/vma_alloc.c` | `S_gpool` (process), `S_mpool` (thread), superblocks, blocks | `vma_alloc`, `vma_free`, `vma_gpool_*` |
| definitions | `src/common.h`, `src/include/ooc.h` | - | OpenMP locks, structs, macros that define kernels |
| application | `apps/mm.c` | - | four threads run kernels, finalise, free |
| benchmark memory `sbma` | `bench/impl/sbma.c` | `_pflags` and protection of each page, `_faults` | its own SIGSEGV handler, flush, ondisk, destroy |
| benchmark driver | `bench/micro.c`, `bench/impl/{io,libc}.c`, `impl.h` | the array, the file it is saved to, the random array | loops that write, check, save, read and update the array, in the builds `impl.h` makes |
| asynchronous I/O | `src/aio.c` | - | not built |
| old code | `old/`, `tmp.c` | - | not built |

How they interact. `ooc_malloc` and `ooc_free` call the page table; so does the
handler, which the kernel calls by touching memory. The page table takes its own
lock, then a node's, and returns with the node's lock held. The handler releases
it, `ooc_free` destroys it. The page table gives nodes back through `vma_free`,
although those of `ooc_malloc` never came from `vma_alloc` (see section 7).
`vma_alloc` is called by `sp_tree_find_mod_and_lock` and by the unit tests. The
benchmarks are programs of their own, with none of the library in them: `sbma`
does in small what the library is to become, with pages that go to disk.

What is hard:

* the lock order of `ooc_free` (node, then tree) against the handler (tree, then
  node), and nodes whose memory goes away while another thread waits for them;
* one decision per region, one `mprotect` per page, several threads: a decision
  may be applied after a newer one;
* one signal disposition for the process, one `S_is_init`, `S_ps` and
  `S_old_act` for each thread;
* partial failure of `ooc_malloc`, sizes recomputed by `ooc_free`, regions of no
  bytes;
* the allocator: lists changed by other threads than their owner, a head read
  without its lock, blocks and superblocks unlocked in an order that allows the
  memory to be freed too early, lock orders that are the reverse of each other;
* `sp_tree_find_mod_and_lock`, which splits and merges regions through calls of
  the other operations: each leaves the tree in a shape the next one relies on;
* the benchmark's builds: ten macros, of which several alter what a fault is
  taken for, so that a page can be lost in one build only.

`PROJECT.json` lists these under `hazards`, each at its line and with the
properties that would catch it.

What makes each part correct: a search returns a live node that holds the
address, and only one thread works on it (page table, handler); every write that
faults is carried out, access once given is not taken away, and what was written
is marked dirty (handler); mappings and nodes correspond (allocation); the
handler is installed while kernels run (scheduler); no `vm_area` is handed out
twice, none is lost, memory goes back when and only when nothing in it is used
(allocator); the access to one page is changed and that to no other, and no node
is cut off (splits and merges); what was written is read again, through faults,
flushes and the file (benchmark). And in all of them: no assertion fails, no
deadlock, calls return.

## 2. Modules

| Module | Models | Composed with |
|---|---|---|
| `OutOfCore` | `malloc.c`, `sched.c` and the public operations of `sp_tree.c` | - |
| `OutOfCoreProofs` | theorems about `OutOfCore`: nodes, locks, flags, memory | extends it |
| `SplayTree` | all of `sp_tree.c`, with its pointers | implements `PageTable` |
| `SplayForest` | lemmas about search trees, lists and the macros that change them | extends `SplayTree` |
| `SplayTreeProofs` | theorems about `SplayTree`, with its inductive invariant | extends `SplayForest` |
| `SplayTreeTable` | that `SplayTree` implements `PageTable` | extends `SplayTreeProofs` |
| `PageTable` | what the page table promises: a set of regions | - |
| `VmaPool` | `vma_alloc.c` | implements `VmaSupply` |
| `VmaPoolInv` | lemmas about linked lists of any length; the inductive invariant of `VmaPool` | extends `VmaPool` |
| `VmaPoolProofs` | theorems about `VmaPool`; every action preserves the invariant | extends `VmaPoolInv` |
| `VmaSupply` | what an allocator of `vm_area` structs promises | - |
| `Micro` | `bench/micro.c` with `bench/impl/` | - |
| `MicroAccess` | theorems about `Micro`: main's parts, accesses, faults | extends it |
| `MicroProofs` | theorems about `Micro`: which builds fail | extends `MicroAccess` |
| `MCOutOfCore`, `MCSplayTree`, `MCVmaPool`, `MCMicro` | the values of the constants for TLC | extend the above |

Definitions whose comment begins with "Mutant" are not part of a model: each is
a variant of the definition after it with a plausible mistake. `PROJECT.json`
names the property each of them breaks, which shows that the property depends on
the code.

### OutOfCore

A region is known by its page: `vma = b` means the mapping whose info segment
starts at `b`. The vm_area's fields are the functions `vm_end`, `vm_flags`,
`vm_lock`; `vm_start` is computed from `b` as in `ooc_malloc`. `mem` is the
protection of each page. A thread is at a label `pc[t]`:

| Labels | Code |
|---|---|
| `mmap`, `info`, `insert` | `ooc_malloc` |
| `free_find`, `free_lock`, `remove`, `munmap` | `ooc_free` |
| `write` | the store instruction that may fault |
| `find`, `lock`, `flags`, `protect`, `unlock` | the SIGSEGV handler |
| `idle` | client code; `inKern[t]` tells whether it is a kernel |

A step ends where the thread may have to wait for a lock, or where another
thread can see the difference: `mprotect` and the change of the flags are steps
of their own. Insertion and removal run within the tree's lock and are one step;
the search is two, because it waits for the node's lock with the tree's in hand.
A failed `assert` sets `proc` to `"aborted"`, a SIGSEGV without the handler to
`"killed"`. `mmap`, and `mprotect` in `ooc_malloc`, may fail at any time.

The tree is the set of its nodes. `Below` and `IsFound` say which node the
search reaches: the one with the greatest `vm_start` not above the address,
which the code finds as the splayed root or that root's `vm_prev`.

The program is assumed to be correct in the use of its memory: it writes within
regions it owns, frees a region once and not while a thread writes to it, and
calls `ooc_finalize` when no kernel runs. `Sizes` with 0, `StrayWriter` (threads
that write outside of kernels) and `Reuse` (kernels after `ooc_finalize`) widen
what it does. That a region is not freed while a thread writes to it is what
keeps a handler from waiting for the lock of a node about to be removed. Without
`Reuse` no kernel follows an `ooc_finalize`, and `KernelHasHandler` is about
initialisation. Reads are left out: a new mapping is readable, and no code takes
read access away, so a read never faults.

### SplayTree

`heap` holds the fields of every `vm_area` as the code leaves them: `sp_l`,
`sp_r`, `sp_p`, `vm_prev`, `vm_next`, `vm_start`, `vm_end`, `vm_flags`. Nodes are
numbers, for a node's start changes when its region is split. `MakeChild`,
`ListInsert` and `ListRemove` are the macros, `Header` is the splay's local node.
All of it runs under the tree's lock, so there is one operation at a time: a
call (`CallInsert`, `CallRemove`, `CallFind`, `CallFindMod`, `CallFree`),
iterations of the loop of `S_sp_tree_splay` (`Iterate`), the assembly of the
three trees it leaves (`Assemble`), and what the operation does with the result.
A removal splays twice; `Join` follows the second splay. The two halves of the
loop, which mirror each other, are one `Descend` with the side as its parameter,
and `hook` is the code's `l` and `r`: `hook.sp_r` is `l`, whose `sp_r` gets the
next subtree.

`sp_tree_find_mod_and_lock` works on one page, here an address. The actions
after its splay are its branches:

| Action | Branch of `sp_tree.c` |
|---|---|
| `FirstNode`, `NewNode` | the page is in no region; it gets one |
| `NewPrev`, `NewNext` | which is merged with its neighbours if their flags agree |
| `MidSplit` | the page is in the middle of a region, which becomes three |
| `FirstPage`, `LastPage` | it is at an end, goes to the neighbour (`Migrate`, a splay, `Migrated`) or gets a region (`SplitOff`) |
| `OnlyPage`, `OldPrev`, `OldNext` | it is a region, which may be merged with its neighbours |

A merge removes the other node with the same `S_sp_tree_remove` as
`sp_tree_remove`; `after` says what follows it.

`use` is the way the tree is used. In `"regions"` the program inserts and removes
regions, as `ooc_malloc` and `ooc_free` do; in `"faults"` and `"pages"` regions
come from `sp_tree_find_mod_and_lock` and are removed and searched for. `"pages"`
calls it for any page, and loses nodes (`splay_pages`). `"faults"` calls it under
`GoodFault`: the page is in no region, or in that of the root where the splay
leaves the root in its place, and a page that is a region of its own does not
touch the next one. What the passing run says about the function is said under
this restriction, and holds of every branch of it but the second merge of a page
that is a region (section 5).

`TypeOK` says which pointers there are: to nodes or NULL, but for the splay's local
node, `Header`, to which only the hooks and an `sp_p` may point, in the loop and at
no other time. It lists the flags the code makes, 7 among them, which is
`VM_PROT_WRITE` promoted (`sp_tree.c:101`): nothing
in the repository says what the flags of a writable page ought to become.

`Nodes` is the set of nodes the pointers reach and `Live` that of the nodes
inserted and not given back. Within the loop `View` leaves out the two pointers
that are stale there: those of the last nodes cut off, to where `t` was. The
memory of a removed node is given back, so its fields are reset. The callers'
duty (a node is inserted once, removed when it is there, an address searched for
is in a region) is `common.h:117-131`; `ooc_malloc` and `ooc_free` keep it as long
as no region is empty, which is what `ooc_zero` is about.

### PageTable

A set of regions with their flags, the address asked for and the result of the
last search: `Insert`, `Remove`, a `Find` that yields the region holding the
address, and `Modify`, which may split and merge regions at will as long as every
page but the one asked for keeps its flags, none is lost and none is in two
regions. `SplayTree` implements it with `regions <- Extents`, the ranges and
flags of the nodes in the tree. `OutOfCore` does to its set `vma_tree` what
`Insert`, `Remove` and `Find` do; its `IsFound` is `Find`.

### VmaPool

The structs are records, with the pointers of the code: `superblock[s]` and
`block[b]` with `head`, `prev`, `next`, counters and locks, `S_mpool_head[t]`,
`S_gpool_head`. Stale pointers stay as the code leaves them. The one list that
is a set is a block's list of free vm_areas, whose order nothing depends on.

`pc[t]` names the lock the thread takes next or the work it does with the locks
it has: `steal_gpool`, `steal_superblock`, `steal_block`, `alloc_stolen`,
`alloc_cached` in `vma_alloc`; `free`, `return_superblock`, `return_gpool`,
`return_block`, `put_block`, `put_gpool`, `put_superblock`, `put_memory` in
`vma_free`. The unlocked read of `S_mpool.head` is part of `CallAlloc`, a step
before the lock. An `S_mpool`'s lock is the last one taken and nothing is waited
for while it is held, so each of its critical sections is within one step.

`mapped` is the set of superblocks that exist. `Safe(t)` says that the structs
the next step of `t` reads or writes are in mapped memory; a thread whose
pointers are not good takes no step, and the invariant `PointersGood` says that
this never happens.

`mode` is the way the program uses the pool:

| Mode | Use | Safe? |
|---|---|---|
| `serial` | one call at a time, as `sp_tree.c` calls it under its tree's lock | yes |
| `owner` | concurrent; threads free what they allocated; no superblock is emptied | yes |
| `phased` | all allocate, barrier, all free (anybody's), barrier; none is emptied | yes |
| `test` | as `phased`, superblocks are emptied: the unit test | no: `pool_test` |
| `any` | concurrent, freed by anybody, none is emptied | no: `pool_any` |

So the passing runs say exactly how far the allocator can be trusted, and the
two violations that both restrictions, on emptying and on frees by others while
the owner allocates, are needed. For the safe modes (`SafeModes`) all of it is
also proved (section 6).

### VmaSupply

Two variables, the memory obtained from the system and the vm_areas handed out.
A vm_area is handed out when it is not out already and its superblock is
obtained; a superblock goes back when none of its vm_areas is out. `VmaPool`
implements it with `supply <- mapped, out <- live`, checked and proved in every
safe mode.

### Micro

A `build` is a choice of the macros of `impl.h` with which the program compiles
and links, and whether `+=` faults first as a read or at once as a write
(`RMW`), which is the compiler's choice and matters where the handler asks the
processor (`USE_CTX`). `PerPage` is the length of the benchmark's page, `--sys`
times `SysPage`, that of the system, and `base` where `mmap` put the array: on a
page of the system, not always on one of the benchmark. `libc.c` masks addresses
with the page's length, taken to be a power of two, so that a mask is a
remainder; `sbma.c` counts its pages from the array. `Program` is the order of
main's parts in that build; `pc` and `i` are the position in it and in the loop
of the part. Every build, every outcome of the shuffle and the presence of a
file from an earlier run, and every `base`, are initial states.

A part that uses the array lists the elements it accesses in one iteration
(`Accesses`); the first access the page's protection does not allow makes it
fault (`Fault`), the handler (`SegvHandler`) reads the file, changes protection and
flags, and the access is tried again; when all are allowed the iteration is done
(`Write`, `Verify`, `Clear`, `Read`, `Update`, `Revert`). The other actions are
`impl_flush`, `impl_ondisk`, `impl_fetch_bulk`, `impl_destroy`, `io_write`,
`io_flush`, and `Spin`, `io_read`'s loop when the file ends before the bytes it
waits for. A failed assertion of either program ends it.

`Broken` lists the builds and circumstances in which the program fails, each with
its reason. That the list is exact is checked, and proved, in both directions:
`OnlyBrokenFail` says that in any other build every element keeps its value,
through flushes, faults and the file, and `BrokenFail` that none of these ends
well.

## 3. Runs

| Run | Instance | Distinct states | Shows |
|---|---|---|---|
| `ooc_safe` | 3 threads (symmetric), 5 pages, sizes 1 and 3 with 2 to a page | about 1 040 000 | every safety property of the core, all interleavings |
| `ooc_live` | 2 threads, 4 pages, same sizes | about 38 000 | faulting writes complete, `ooc_free` returns |
| `ooc_zero` | 2 threads, 4 pages, sizes 0 and 1 | violation | `NoAbort` |
| `ooc_stray` | one thread writes outside kernels | violation | `GrantApplied` |
| `ooc_final` | 2 threads | violation | `HandlerRestored` |
| `splay` | 6 regions of 2 addresses, or 3 pages | about 89 000 | the tree, its loop, its list, splits and merges; refinement; calls return |
| `splay_pages` | 3 pages, `sp_tree_find_mod_and_lock` of any of them | violation | `NoneLost` |
| `pool_safe` | 2 threads (symmetric), 2 superblocks of 2 blocks of 2, 5 in use | about 3 140 000 | lists, accounting, assertions |
| `pool_live` | 2 threads, 1 superblock of 3 blocks of 3, 4 in use | about 230 000 | refinement, lock order, calls return |
| `pool_test` | mode `test` | violation | `PointersGood` |
| `pool_any` | mode `any` | violation | `NothingLost` |
| `micro` | 2 pages of 2 elements, aligned or not, every build | about 146 000 | exactly which builds fail; flags, faults; the program ends |

Bounds. Five pages hold two regions with one data page each, or one with two, or
one and room too small for a second, in every order of addresses and with reuse
of freed addresses; three threads let one fault, one free and one wait. A size
of 3 with pages of 2 gives a region whose end is not on a page boundary and that
has two data pages. In `splay` every shape of a tree of up to six nodes occurs,
with every search, insertion and removal from it: paths long enough for three
iterations with two rotations, and for the exit of the loop that a FIXME
(`sp_tree.c:158`) says no test reaches. Three pages are the least with a region
that has a page in its middle, and with one between two others; every way to
divide them into regions and gaps that faults lead to occurs. In `pool_safe`
five vm_areas need both superblocks, so that S_gpool's list and a pool's list
have two elements and one is taken out of the middle or the end. There each
block with a free vm_area is one step from full or empty; in `pool_live`, with
three, it need not be. Two pages of two elements let `micro` access a page by
its first element or another first, both pages in turn, and a page that was
flushed in between; `MaxFaults` (6) is above the four faults two pages can have
between flushes, so that the counter is never held back where `FaultsUseful`
looks at it. A page of two pages of the system (`SysPage` is 1) makes the array
misaligned by one element. (With three pages, a `MaxFaults` of 8 and an aligned
array, the same properties were checked once: 1 958 386 states.) `MaxLive`,
`NumSuperblocks` and `NumPages` are the other bounds, and each is met with a
failure the code handles: no memory. Deadlock is checked in every passing run
but `micro`, whose program ends.

## 4. Fairness

In `SplayTree` weak fairness of `Work` says that a thread within an operation
goes on; no other thread can be in its way, as it has the lock. `FairSpec` writes
it out, with `Busy` for the states where `Work` is enabled. In `Micro` weak
fairness of `Next` says that the only program runs on. `Terminates` leaves out the
misaligned builds (`Misaligned`): there `Spin` goes on for ever, as `io_read` does.

`LockFairSpec` (core) and `FairSpec` (pool) assume that a thread inside the
library is scheduled and that a lock that becomes free again and again is
eventually granted to a thread waiting for it. The second is strong fairness. It
is needed: with weak fairness TLC shows an `ooc_free` that waits for the tree's
lock for ever while another thread faults and allocates. OpenMP does not promise
it; its locks are futexes on which a waiting thread may in theory be overtaken
for ever but in practice is not. Client code is under no fairness: it need not
call anything, nor return from a kernel. The handler needs none beyond this: a
region's second fault is answered with write access, and `NoDowngrade` says it is
not taken away again, so a write is executed at most three times.

## 5. What the runs found

Each is a run that expects a violation, described under `findings` in
`PROJECT.json`:

1. `ooc_zero`: `ooc_malloc(0)` succeeds, freeing the result fails an assertion.
2. `ooc_stray`: a fault in a thread that has not called `ooc_sched`, once another
   thread has, is handled with a page size of 0; the thread faults for ever.
3. `ooc_final`: `ooc_finalize` restores the disposition its own thread found,
   which is the library's handler in every thread but the first.
4. `pool_test`: a block is unlocked after the superblock that holds it may have
   been freed.
5. `pool_any`: `vma_alloc` forgets blocks put on its list since it looked.
6. `splay_pages`: `sp_tree_find_mod_and_lock` does not make the node its splay
   returns the root, so that the nodes above it are lost to every later search.

Other places where the code falls short of what it is for were met in modelling. No
run is kept for them; for the first two kinds there is no statement of the repository
that it could refute:

* `sp_tree_find_mod_and_lock` leaves the flags of a page it splits off the front
  or the end of a region unset (`sp_tree.c:559`, `607`; `SplitOff` takes any), and
  looks at `vm_prev` where it means `vm_next` (`642`; null if there is no
  predecessor). A region that comes down to one page keeps its flags, so that a
  fault on it promotes nothing. Its merges free a node, or move the range of one,
  whose lock another thread may hold or wait for. `VM_PROT_PROMOTE` of the flags of
  a writable page gives 7, a bit more than the two that have a name (`101`).
* The benchmark (`Broken`): a file left of an earlier run, or one that is to be
  saved when the array has just been flushed; `USE_GHOST` with a reading part,
  where `mremap` gets a size that was counted down to 0; `sbma` without `USE_LAZY`
  and `USE_CTX`, when the first element used is not on the first page; `USE_CTX`
  with a write as the first access to a page on disk; `libc` with `USE_LAZY`, when
  a page's first element is not the first of it to be read, and, if `--sys` is above
  1, when `mmap`'s address is not a multiple of the page's length: the elements before
  the first multiple are never read, and at the last one `io_read` asks for more than
  the file has, for which it loops for ever (`libc.c:72`, `io.c:50`).
* A kernel after another thread's `ooc_finalize` runs without the handler. With
  `Reuse = TRUE` in the configuration of `ooc_final` TLC finds `KernelHasHandler`
  violated by: `ooc_sched` in a thread, return of the kernel, `ooc_finalize` in
  another thread, `ooc_sched` in the first one again. Its own `S_is_init`, by which
  `ooc_sched` is to "Make sure that library has been initialized" (`sched.c:317`), is
  still set, although `ooc_finalize` (`303`, `305`) has put back the disposition of
  the whole process.

## 6. Proofs

### The core

`OutOfCoreProofs` proves, for any finite or infinite set of
threads, any memory, page size, size of a vm_area and set of sizes:

| Theorem | Statement | Extra assumption |
|---|---|---|
| `TypeCorrect` | `[]TypeOK` | - |
| `VmaExclusive` | `[]Exclusive` | - |
| `LocksAreOrdered` | `[]NoLockCycle` | - |
| `FoundStaysLive` | `[]FoundIsLive` | - |
| `WrittenIsDirty` | `[]DirtyCoversWritable` | - |
| `GrantsStay` | `NoDowngrade` | - |
| `KernelsAreHandled` | `[]KernelHasHandler` | `~Reuse` |
| `AssertionsHold` | `[]NoAbort` | `0 \notin Sizes` |
| `PagesAreAccounted` | `[]PagesAccounted` | - |
| `GrantsAreApplied` | `[]GrantApplied` | `StrayWriter = {}` |

So every safety property the runs check of the core is proved. The extra
assumptions are necessary: `ooc_zero` and `ooc_stray` violate the properties
without the last two, and with `Reuse` TLC finds `KernelHasHandler` violated
(section 5). The other theorems hold for stray writers and regions of no bytes too.

None of the properties is inductive. The invariant is built in layers, each
proved from those before:

* `TypeInv`, types with the arithmetic the rest needs (page boundaries, that a
  thread at a label has the locals of that label);
* `Layout`, which memory belongs to whom: every region of the tree, every one
  `ooc_malloc` or `ooc_free` is at work on, has its extent mapped, and no two
  overlap. It follows `mmap`, the error path and `munmap` and makes "the node is
  live" a stable fact;
* `Ownership`, how regions pass between program, tree and threads: a region
  being freed has exactly one thread at it, no handler is after an address in
  it. This is where the assumption on the program enters;
* `LockInv`, who holds what: the holder of a node's lock is a thread at a label
  that holds it, of that node, and the same for the tree. `Exclusive` and
  `NoLockCycle` follow;
* `Protection`, the pages of a region against its flags and the handlers in
  progress: a decision that is not yet applied is made under the node's lock,
  and `"r"` is decided only while no page of the region is writable. It gives
  `DirtyCoversWritable` and `NoDowngrade`.

Two more are about memory. `Covered` is the converse of `Layout`: a
mapped page is in a region of the tree or of a thread's `ooc_malloc` or
`ooc_free`, so that nothing is leaked; with `Layout` it is `PagesAccounted`.
`Fits` (no region reaches beyond the memory) and `Prepared` (a thread in a kernel
knows the page size) give that the page of the offending address is one of the
region the handler has locked (`OffenderPage`); `GrantKept` then goes through
what the other threads may do before the handler unlocks: their pages are others,
because regions are disjoint and the node's lock is held.

`TLC` confirmed each layer, also with stray writers and size 0, before it was
proved. The assumptions are those of `OutOfCore` on its constants, which TLC
evaluates in every run of `MCOutOfCore`.

### The page table

`SplayTreeProofs` and `SplayTreeTable` prove, for any finite set of nodes, any
regions that do not overlap and any set of pages:

| Theorem | Statement |
|---|---|
| `TypeOKAlways` | `[]TypeOK` |
| `SearchTreeAlways` | `[]SearchTree` |
| `ParentsRightAlways` | `[]ParentsRight` |
| `ListInOrderAlways` | `[]ListInOrder` |
| `NoAbortAlways` | `[]NoAbort` |
| `NoneLostAlways` | `[]NoneLost` |
| `SplaysLastReachedAlways` | `SplaysLastReached`: the loop never changes where the search ends |
| `ImplementsTable` | `TableSpec`: the page table implements `PageTable` |

each under the assumption `Uses \subseteq {"regions", "faults"}`: the program
inserts and removes regions, or calls `sp_tree_find_mod_and_lock` under
`GoodFault`. Without it `NoneLost` is false, as `splay_pages` shows.

The properties speak of the nodes that pointers reach (`Reach`, a recursive
function), and the loop moves subtrees of any depth. The invariant speaks of
sets instead. `Tree(h, S, D)` says that `D` gives for every node of `S` the set of
nodes below it, itself among them: a node's set is the node with the sets of its
two children, those on the left have smaller addresses, those on the right
greater ones. `Under(D, n)` is that set, or none for NULL. `SplayForest` shows
with it:

* what a macro does: that `MakeChild` gives another such `D`, if the child has no
  parent left and the addresses fit (`Tied`), that cutting a child off leaves the
  rest a tree, that a rotation keeps the set of the whole (the node that goes up
  takes over the set of the one that goes down);
* `Splaying`, the three trees of the loop: what was cut off on each side, under the
  header, in which the node at the `hook` has no child on that side, and what is
  still to be searched, under `t`, with every address of the one side below it and
  below the key and every one of the other above. An iteration preserves it
  (`Descend`), with or without a rotation, and when the loop ends `Assemble` makes
  one tree of the three, whose root is the node of the key or next to it
  (`Nearest`);
* `Listed`, the list as a set in order: no node is between one and its `vm_next`;
  what `ListInsert` and `ListRemove` do to it, at the ends and in the middle;
* that a walk along the pointers reaches exactly the nodes of `Under` (`ReachIs`).
  If it missed one, there would be a least number of steps after which it stops to
  grow, and before that each step adds a node, of which there are finitely many;
* of binary searches, the other recursion: one that moves on from a node ends where
  one does that starts at the child (`SearchDown`). The second is a step behind, but
  by then it stands still, since each step it takes leaves fewer nodes below it; and
  what is not below its first node makes no difference to it (`SearchSame`).

`SplayTreeProofs` has the invariant, `IInv`:

* `Types`, and `Ranges`: the nodes' ranges are disjoint, and are those of their
  regions, or consist of pages;
* `Listed(heap, Members)`, with `Members` the nodes that are to be in the tree: those
  with a range, but the one being inserted or removed;
* `MainTree`: between splays what the root reaches is a `Whole`, a tree with its
  parents, of all `Members`, in a splay they are `Splaying`; `SideTree` the same for
  the right subtree that a removal leaves aside while it splays the left one;
* `Ops`, what each operation knows at each of its steps: the node to be inserted is
  linked to nothing (`AtInsert`), the address to be removed or found is that of a
  member (`AtRemove`, `AtFind`), no splay moves the region of a page that faulted
  from the root (`Quiet`), the node in hand in a merge is the root (`AtMerge`) and
  ends where the one that is being removed begins, or begins where it ends (`AtJoin`).

That a node is free when a split needs two of them (`SpareTwo`) is by counting:
each node in the tree has a page of its own. `HInv` adds, for `TypeOK`, that no
`sp_p` is the splay's header but in the loop, where only nodes of the tree that is
splayed may have it: the other macros make no header a parent (`HeadlessChild` and
those after it), and when the loop has ended every node of that tree is below the
new root (`SplayHeadless`). `TLC` checked `IInv` (its `\E D` with
the one `D` that `Reach` gives) on the instance of the run `splay` and on six
pages before it was proved.

`SplaysLastReached` follows from it with `SearchDown` and `SearchSame`: an iteration
takes the search one node down, or two if it rotates, and changes no pointer below
the node it comes to; and where the loop ends, the top has no child on the side of
the key.

`SplayTreeTable` shows step by step that `SplayTree` is a `PageTable`. The regions of
the refinement mapping are those of `InTable`, all nodes with a range but the one on
its way in or out (`ExtentsAre`). Splays, rotations and changes of the list leave
every range and every flag alone (`SameData`), so they stutter; so does a merge
until the neighbour has the range of the node taken out, whose region the mapping
keeps till then. The steps that do change the table are of three
kinds:

* an insertion adds the region of its node and a removal takes away the one of the
  address, as the loop has brought to the root the node of the key (`Nearest`);
* a search finds the region that has the address, or none (`FindIs`);
* a change of one page's flags is `PageTable`'s `Modify`. `Modified` says of two heaps,
  node by node, that all pages but one keep their flags and that the regions are
  those of `Modify`; `ModifyIs` shows that it says so. There is a lemma for each of the
  ways the code takes: a new node for the page, a region split in two or in three, the
  page moved from a region to its neighbour (`migrate`), and nodes joined.

A step does not show by itself which page its operation is about. `Asked` is
what an operation knows of it: the node that a merge takes out is the page's own
or has the flags of the one that grows, and `migrate` splays for the node that
got the page. `TLC` checked `Asked` on the instance of the run `splay` before it
was proved invariant, together with `IInv`.

### The allocator

`VmaPoolProofs` proves, for any set of threads, any number of superblocks and of
vm_areas in use, and any numbers (above 1) of blocks in a superblock and vm_areas
in a block:

| Theorem | Statement |
|---|---|
| `AssertionsHold` | `[]NoAbort` |
| `NeverTwice` | `[]HandedOutOnce` |
| `NothingEverLost` | `[]NothingLost` |
| `NoStrayPointers` | `[]PointersGood` |
| `LinkedBothWays` | `[]ListsLinked` |
| `CountersInRange` | `[]TypeOK` |
| `NoCircularWait` | `[]NoLockCycle` |
| `Implements` | `Spec => SupplySpec`: it refines `VmaSupply` |

each under the assumption `Modes \subseteq SafeModes`: the program uses the pool
in one of the ways of the table in section 2 marked safe. Without it the theorems
are false: `pool_test` and `pool_any` violate `PointersGood` and `NothingLost`.

The properties are about what a walk along `next` pointers finds, and a walk is
induction over data, which the provers cannot do. So the invariant does not speak
of walks. `Chain(f, h, S)` says that `S` is the set of the elements of the list
that starts at `h`: there is a numbering of `S` in which every element's `next` is
the one with the next greater number. `VmaPoolInv` first shows what `Prepended`,
`Popped` and `Removed`, the three ways in which the code changes a list, do to
`S`, each by giving the new numbering; and last, once and for all, that
`Listed`, the recursive function the properties use, returns `S`
(`ListedChain`: if the two differed there would be a least length of walk at
which they do, which `LeastNat` provides).

Then it has the invariant, `IInv`:

* `Typed`, which includes which locals a thread has at which label and that the
  superblocks they are in are mapped;
* `Discipline`, what the mode of use entails inside the calls: in `serial` one
  thread is active; in `owner` the block of a vm_area on its way back belongs to
  the thread that frees it; in `phased` all threads in calls are in calls of the
  phase; outside `serial` every superblock somebody works on has a vm_area in use,
  so that it is not given back. This is where the safety of the three modes lies;
* `LockInv`, who holds the locks, and that a thread between two locks still finds
  what it read under the first;
* `VmaInv`: the list of a block is the set of its vm_areas not in use (`Resting`)
  and its counter counts the others;
* `SuperInv`: the list of a superblock is a chain of the blocks no vm_area of
  which is in use and no thread has in hand (`Untaken`), its counter counts the
  others, and is zero only while a thread is about to give the superblock back or
  has just created it;
* `PoolInv`: the list of a thread's pool is a chain of the blocks whose `mpool` is
  the thread and some, not all, of whose vm_areas are in use, linked both ways;
  what `vma_alloc` has seen of `S_mpool.head` without the lock is still so when it
  takes the lock. The last is where a free by another thread would break it;
* `GpoolInv`: the list of `S_gpool` is a chain of the superblocks that have a
  block, but those a thread is about to put back or has just taken off.

`TLC` checked `IInv` on the instance of `pool_safe` (with the numbers from 1 to the
size of the set for the integers in `Chain`, which cannot be enumerated) before
each part of it was proved. `VmaPoolProofs` has one lemma per action; of each, first
what it does to each field of the structs (the `...Does` operators of
`VmaPoolInv`), then one step per conjunct of `IInv` it can disturb.

### The benchmark

`MicroAccess` and `MicroProofs` prove, for any number of pages and of elements to
a page (more than one element in all), every number of system pages to one of the
benchmark and every `base`, every outcome of the shuffle, every build and with or
without a file left of an earlier run:

| Theorem | Statement |
|---|---|
| `TypeCorrect` | `[]TypeOK` |
| `FlagsCorrect` | `[]FlagsMatch` |
| `FaultsUsefulAlways` | `[]FaultsUseful` |
| `OthersSucceed` | `[]OnlyBrokenFail` |
| `BrokenOnesFail` | `[]BrokenFail` |

The last two say that `Broken` is exactly the list of the builds and circumstances
in which the program fails: in any other no assertion does, and in these main does
not get to its end. The assumption beside the sizes, `NoneAssumption`, says that
the value for "no file" is not an array.

`MicroAccess` first settles at which position each part of main is, for each build
(`Parts`, `Whereabouts`), and what an iteration accesses (`AccessAt`). Its
invariant, `MemInv`, has two parts beside the types:

* `FlagsInv`: the flags say what access a page has, `ONDISK` is there from the
  marking on, and only an update that writes first, unread, replaces it (`Blind`);
* `AccessInv`: the pages of the elements a loop has done are writable; after a
  flush none is accessible; and where they are not read lazily either all are
  accessible or none.

With them a fault is one of four (`FaultCases`): `Dirties`, `Loads`, `Syncs` or
`Fails`. `FaultsUseful` follows by counting pages with the theorems on finite sets.

`MicroProofs` adds what the array and the file hold:

* `FileInv`: from the save to the end there is a file, and it holds what the second
  writing loop made, or zeros if the build has none;
* `ArrayInv`: every element is the sum of the one used before and its random
  number, as far as the writing loop is, until a flush; after one it is 0, in the
  builds that read it again;
* `ReadInv` and `UpdateInv`: an element no update was at is what the file has, if
  its page was read since the flush (`Ready`), and else 0; what an update made of
  an element was that before (`Undone`). Where the array is aligned libc reads a page
  with its first element, so that its `Ready` depends on the order of use (`Early`);
* `RevertInv`: what the assertions after the update compare;
* `ShiftInv`, for a misaligned array in libc, of which the others say nothing (they are
  `DataInv`, and hold if `~Misaligned`): its loops never get past the last element at
  which a page is read, since that page is longer than the rest of the file
  (`CutShort`). An assertion may fail before they get there.

One direction shows with them that each assertion holds if the build is not
broken (`AbortStep`). In the other, each broken build must fail at some assertion,
even though most elements of the array may happen to be right: what the invariants
carry for it are the random numbers the assertions passed so far imply. Two
elements of random number 0 would let `read` pass on zeros (`ReadData`), as would
two elements that are too small in `revert` (`Lost`); the random numbers differ, so
that no two of them are 0. `TLC` checked the whole, `FailInv`, on the
instance of the run `micro`, and `DataInv` on aligned arrays of 3 and 4 pages of one
element, of one page of 2 and 3, and of 2 pages of one, before it was proved.

### What is only model-checked

Everything about liveness and everything that needs `ENABLED`, which are beyond
TLAPS: of the properties of the passing runs, `WriteCompletes`, `FreeCompletes`,
`CallsReturn` and `Terminates`.

## 7. Not modelled

* Threads in `SplayTree`: the operations are atomic there because of the tree's
  lock, whose use is modelled in `OutOfCore`.
* The contexts and stacks of fibers. `ooc_sched` takes fiber 0 every time, as no
  request is ever posted and so no kernel ever blocks. A kernel that calls
  `ooc_sched` itself is left out: no code of the repository does, and what happens
  needs no search: the inner kernel starts on the stack of the outer one, which is
  the stack `S_main` then refers to.
* `vma_free` on the vm_area of a region. `sp_tree_remove` calls it through
  `S_sp_node_free` on memory that is not the pool's. Laid over the vm_area,
  `struct block` has its lock in `sp_p` (null after the splay), its `head` in
  `sp_l`, its counter in `vm_next`; in the default build (`-O0`) the call changes
  these three fields of a page about to be unmapped and returns. The model leaves
  the call out.
* The node's lock in `sp_tree_find_mod_and_lock`, and other threads while it
  runs: nothing but its single-threaded unit test calls it.
* The counters of contention in `vma_alloc.c`, and `vma_gpool_init`,
  `vma_gpool_free`, `vma_gpool_gather` and `vma_gpool_show`, which touch nothing
  else; the end of threads whose `S_mpool` still has blocks.
* Of the benchmark: timing, output, the command line, emptying the processor's
  cache, I/O errors other than a file that exists already or not yet.
* `aio.c`, thin wrappers of POSIX functions with no state that are not built into
  the library; `old/` and `tmp.c`, which are not built either.

## 8. Plan

Done: `OutOfCore`, `VmaPool`, `Micro` and `SplayTree`, the last with
`sp_tree_find_mod_and_lock`, and their proofs; `VmaSupply` and `PageTable`.

Left:

1. When the handler comes to use `sp_tree_find_mod_and_lock`, as its TODO
   (`sched.c:143`) says: the node's locks in `SplayTree`, and several threads.
2. When asynchronous I/O is posted: several fibers to a thread, with their
   contexts, which now have no more than one control state between them.
