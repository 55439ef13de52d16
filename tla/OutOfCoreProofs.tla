--------------------------- MODULE OutOfCoreProofs ---------------------------
(***************************************************************************)
(* Proofs about OutOfCore, for any number of threads, any page size, any   *)
(* amount of memory and any program that respects the client discipline of *)
(* that module.  The inductive invariant is built in layers, each proved   *)
(* from the ones before it; the last are about the memory: no mapped page  *)
(* is without a region, and the handler's mprotect reaches the page of the *)
(* offending address.                                                      *)
(***************************************************************************)
EXTENDS OutOfCore, TLAPS

-----------------------------------------------------------------------------
(* Arithmetic of pages *)

\* An address is a whole number of pages plus an offset within a page.
LEMMA DivMod ==
  ASSUME NEW a \in Nat
  PROVE  /\ a \div PageSize \in Nat
         /\ a % PageSize \in 0 .. PageSize - 1
         /\ a = (PageSize * (a \div PageSize)) + (a % PageSize)
BY PageSizeAssumption

\* Two page boundaries are at least a page apart.
LEMMA NextBoundary ==
  ASSUME NEW a \in Nat, NEW b \in Nat,
         a % PageSize = 0, b % PageSize = 0, a < b
  PROVE  a + PageSize <= b
<1> DEFINE i == a \div PageSize
           j == b \div PageSize
<1>1. i \in Nat /\ j \in Nat /\ a = PageSize * i /\ b = PageSize * j
  BY DivMod, PageSizeAssumption
<1> HIDE DEF i, j
<1>2. i < j
  BY <1>1, PageSizeAssumption
<1>3. PageSize * i + PageSize <= PageSize * j
  BY <1>1, <1>2, PageSizeAssumption
<1> QED BY <1>1, <1>3

\* The page of an address: PageAlign with the page size computes it.
LEMMA PageOfFacts ==
  ASSUME NEW a \in Nat
  PROVE  /\ PageOf(a) \in Nat
         /\ PageOf(a) % PageSize = 0
         /\ PageOf(a) <= a /\ a < PageOf(a) + PageSize
         /\ PageAlign(a, PageSize) = PageOf(a)
BY DivMod, PageSizeAssumption DEF PageOf, PageAlign

\* ALIGN rounds a size up to whole pages.
LEMMA AlignFacts ==
  ASSUME NEW n \in Nat
  PROVE  /\ ALIGN(n) \in Nat
         /\ n <= ALIGN(n)
         /\ ALIGN(n) % PageSize = 0
<1> DEFINE m == n + PageSize - 1
<1>1. m \in Nat
  BY PageSizeAssumption
<1>2. ALIGN(n) = m - (m % PageSize)
  BY DEF ALIGN
<1> HIDE DEF m
<1>3. m % PageSize \in 0 .. PageSize - 1
  BY <1>1, DivMod
<1>4. (m - (m % PageSize)) % PageSize = 0
  BY <1>1, PageOfFacts DEF PageOf
<1>5. m = n + PageSize - 1
  BY DEF m
<1> QED BY <1>1, <1>2, <1>3, <1>4, <1>5, PageSizeAssumption

\* A sum of page boundaries is one.
LEMMA AlignedSum ==
  ASSUME NEW a \in Nat, NEW b \in Nat, a % PageSize = 0, b % PageSize = 0
  PROVE  (a + b) % PageSize = 0
<1> DEFINE i == a \div PageSize
           j == b \div PageSize
<1>1. i \in Nat /\ j \in Nat /\ a = PageSize * i /\ b = PageSize * j
  BY DivMod, PageSizeAssumption
<1> HIDE DEF i, j
<1>2. a + b = PageSize * (i + j) /\ i + j \in Nat
  BY <1>1, PageSizeAssumption
<1>3. ASSUME NEW k \in Nat PROVE (PageSize * k) % PageSize = 0
  BY PageSizeAssumption
<1> QED BY <1>2, <1>3

\* The segments of a region: an info segment of at least a byte.
LEMMA SegmentFacts ==
  /\ info_sz \in Nat /\ info_sz > 0 /\ info_sz % PageSize = 0
  /\ \A n \in Nat : mmap_sz(n) \in Nat /\ mmap_sz(n) >= info_sz + n
BY AlignFacts, MemoryAssumption DEF info_sz, mmap_sz

-----------------------------------------------------------------------------
(* Types *)

\* A thread inside a call that works on a region has its vma set.
WorkPc == FoundPc \cup MallocPc \cup {"munmap"}
TypeInv == TypeOK /\ \A t \in Thread : pc[t] \in WorkPc => vma[t] \in Page

LEMMA PageFacts ==
  \A b \in Page : b \in Nat /\ b % PageSize = 0 /\ vm_start(b) \in Nat
BY SegmentFacts DEF Page, Address, vm_start

\* Changing protections keeps them typed.
LEMMA ProtectedType ==
  ASSUME TypeOK, NEW a, NEW n, NEW p \in {"unmapped", "r", "rw"}
  PROVE  Protected(a, n, p) \in [Page -> {"unmapped", "r", "rw"}]
BY DEF TypeOK, Protected

LEMMA TypeInit == Init => TypeInv
<1> SUFFICES ASSUME Init PROVE TypeInv
  OBVIOUS
<1>1. /\ mem \in [Page -> {"unmapped", "r", "rw"}]
      /\ vm_end \in [Page -> Nat] /\ vm_flags \in [Page -> SUBSET {READ, DIRTY}]
      /\ vm_lock \in [Page -> Thread \cup {None}]
  BY DEF Init
<1>2. /\ S_old_act \in [Thread -> {"default", "trampoline"}]
      /\ S_ps \in [Thread -> {0, PageSize}] /\ S_is_init \in [Thread -> BOOLEAN]
  BY DEF Init
<1>3. /\ inKern \in [Thread -> BOOLEAN]
      /\ addr \in [Thread -> Nat] /\ size \in [Thread -> Nat]
      /\ vma \in [Thread -> Page \cup {None}] /\ prot \in [Thread -> {"r", "rw"}]
  BY DEF Init
<1> QED BY <1>1, <1>2, <1>3 DEF Init, TypeInv, TypeOK, WorkPc, FoundPc, MallocPc

LEMMA TypeNext == TypeInv /\ [Next]_vars => TypeInv'
<1> SUFFICES ASSUME TypeInv, [Next]_vars PROVE TypeInv'
  OBVIOUS
<1> USE DEF TypeInv, TypeOK, WorkPc, FoundPc, MallocPc
<1>1. CASE UNCHANGED vars
  BY <1>1 DEF vars, memVars, lockVars, sigVars, clientVars, locals
<1>2. ASSUME NEW t \in Thread, Step(t) PROVE TypeInv'
  <2> USE DEF memVars, lockVars, sigVars, clientVars, locals, Goto
  <2>1. CASE CallMalloc(t)
    BY <2>1, SizesAssumption DEF CallMalloc
  <2>2. CASE Mmap(t)
    BY <2>2, ProtectedType DEF Mmap, Return
  <2>3. CASE SetupInfo(t)
    BY <2>3, ProtectedType, PageFacts DEF SetupInfo, Return, Unmap
  <2>4. CASE Insert(t)
    BY <2>4 DEF Insert, Return
  <2>5. CASE Find(t, "find", "lock")
    BY <2>5 DEF Find
  <2>6. CASE Find(t, "free_find", "free_lock")
    BY <2>6 DEF Find
  <2>7. CASE LockNode(t, "lock", "flags")
    BY <2>7 DEF LockNode
  <2>8. CASE LockNode(t, "free_lock", "remove")
    BY <2>8 DEF LockNode
  <2>9. CASE CallFree(t)
    BY <2>9, PageFacts DEF CallFree
  <2>10. CASE Remove(t)
    BY <2>10 DEF Remove
  <2>11. CASE Munmap(t)
    BY <2>11, ProtectedType DEF Munmap, Return, Unmap
  <2>12. CASE CallWrite(t)
    BY <2>12, PageFacts DEF CallWrite
  <2>13. CASE Write(t)
    BY <2>13 DEF Write, Return
  <2>14. CASE Flags(t)
    BY <2>14 DEF Flags
  <2>15. CASE Protect(t)
    BY <2>15, ProtectedType DEF Protect
  <2>16. CASE Unlock(t)
    BY <2>16 DEF Unlock
  <2>17. CASE Sched(t) \/ KernReturn(t) \/ Finalize(t)
    BY <2>17, ProgramAssumption DEF Sched, KernReturn, Finalize, S_init
  <2> QED BY <1>2, <2>1, <2>2, <2>3, <2>4, <2>5, <2>6, <2>7, <2>8, <2>9, <2>10,
             <2>11, <2>12, <2>13, <2>14, <2>15, <2>16, <2>17
          DEF Step, Client, Locking, Running
<1> QED BY <1>1, <1>2 DEF Next

\* Every variable keeps its type.
THEOREM TypeCorrect == Spec => []TypeOK
<1>1. TypeInv => TypeOK
  BY DEF TypeInv
<1> QED BY TypeInit, TypeNext, <1>1, PTL DEF Spec

-----------------------------------------------------------------------------
(* The signal handler *)

\* Until the last ooc_finalize, a thread that is initialised has the handler
\* installed, and only such threads run kernels.
HandlerInv ==
  \A t \in Thread :
    /\ S_is_init[t] /\ ~closed => sigact = "trampoline"
    /\ inKern[t] => S_is_init[t] /\ ~closed

LEMMA HandlerNext ==
  ASSUME ~Reuse, TypeInv, HandlerInv, [Next]_vars
  PROVE  HandlerInv'
<1> USE DEF HandlerInv, TypeInv, TypeOK
<1> USE DEF vars, memVars, lockVars, sigVars, clientVars, locals
<1>1. CASE UNCHANGED vars
  BY <1>1
<1>2. ASSUME NEW t \in Thread, Step(t) PROVE HandlerInv'
  <2>1. CASE Sched(t)
    BY <2>1 DEF Sched, S_init
  <2>2. CASE KernReturn(t)
    BY <2>2 DEF KernReturn
  <2>3. CASE Finalize(t)
    BY <2>3 DEF Finalize
  <2>4. CASE CallMalloc(t) \/ CallFree(t) \/ CallWrite(t) \/ Locking(t) \/ Running(t)
    BY <2>4 DEF CallMalloc, CallFree, CallWrite, Locking, Running, Insert, Remove,
                Find, LockNode, Mmap, SetupInfo, Munmap, Write, Flags, Protect, Unlock
  <2> QED BY <1>2, <2>1, <2>2, <2>3, <2>4 DEF Step, Client
<1> QED BY <1>1, <1>2 DEF Next

\* In a program that schedules no kernel after its ooc_finalize, every kernel
\* runs with the library's handler installed.
THEOREM KernelsAreHandled == ASSUME ~Reuse PROVE Spec => []KernelHasHandler
<1>1. Init => HandlerInv
  BY DEF Init, HandlerInv
<1>2. HandlerInv => KernelHasHandler
  BY DEF HandlerInv, KernelHasHandler
<1>3. TypeInv /\ HandlerInv /\ [Next]_vars => HandlerInv'
  BY HandlerNext
<1> QED BY TypeInit, TypeNext, <1>1, <1>2, <1>3, PTL DEF Spec

-----------------------------------------------------------------------------
(* The layout of regions *)

\* The pages of a region of the tree, and those of the region a thread is
\* about to insert or has removed.
Span(b)  == Extent(b, vm_end[b] - vm_start(b))
ClaimPc  == MallocPc \cup {"munmap"}
Claim(t) == Extent(vma[t], IF pc[t] = "munmap"
                             THEN vm_end[vma[t]] - vm_start(vma[t])
                             ELSE size[t])

\* Regions have a size, share no page, and are mapped.
Layout ==
  /\ \A b \in vma_tree : vm_end[b] - vm_start(b) \in Nat
  /\ \A t \in Thread :
       /\ pc[t] = "insert" => vm_end[vma[t]] = vm_start(vma[t]) + size[t]
       /\ pc[t] = "munmap" => vm_end[vma[t]] - vm_start(vma[t]) \in Nat
  /\ \A b, c \in vma_tree : b # c => Span(b) \cap Span(c) = {}
  /\ \A t \in Thread : pc[t] \in ClaimPc =>
       /\ \A b \in vma_tree : Claim(t) \cap Span(b) = {}
       /\ \A u \in Thread \ {t} : pc[u] \in ClaimPc => Claim(t) \cap Claim(u) = {}
       /\ \A p \in Claim(t) : mem[p] # "unmapped"
  /\ \A b \in vma_tree : \A p \in Span(b) : mem[p] # "unmapped"

LEMMA BaseInExtent == \A b \in Page : \A n \in Nat : b \in Extent(b, n)
BY SegmentFacts, PageFacts DEF Extent, PagesIn

LEMMA ExtentPages == \A b, n : Extent(b, n) \subseteq Page
BY DEF Extent, PagesIn

\* A region being made or unmade is not in the tree, and is one thread's.
LEMMA ClaimFacts ==
  ASSUME TypeInv, Layout, NEW t \in Thread, pc[t] \in ClaimPc
  PROVE  /\ vma[t] \in Page /\ vma[t] \in Claim(t) /\ vma[t] \notin vma_tree
         /\ \A u \in Thread \ {t} : pc[u] \in ClaimPc => vma[u] # vma[t]
<1>1. ASSUME NEW u \in Thread, pc[u] \in ClaimPc
      PROVE  vma[u] \in Page /\ vma[u] \in Claim(u)
  BY <1>1, BaseInExtent, SizesAssumption
     DEF Claim, ClaimPc, MallocPc, Layout, TypeInv, TypeOK, WorkPc
<1>2. \A b \in vma_tree : b \in Span(b)
  BY BaseInExtent DEF Span, Layout, TypeInv, TypeOK
<1> QED BY <1>1, <1>2 DEF Layout

\* Steps that change no region keep the layout.
LEMMA LayoutFrame ==
  ASSUME Layout, UNCHANGED <<vma_tree, vm_end>>,
         \A p \in Page : mem[p] # "unmapped" => mem'[p] # "unmapped",
         \A u \in Thread : pc'[u] \in ClaimPc =>
           pc'[u] = pc[u] /\ vma'[u] = vma[u] /\ size'[u] = size[u]
  PROVE  Layout'
<1>1. \A b : Span(b)' = Span(b)
  BY DEF Span
<1>2. \A u \in Thread : pc'[u] \in ClaimPc => Claim(u)' = Claim(u)
  BY DEF Claim
<1>3. \A b : Span(b) \subseteq Page
  BY ExtentPages DEF Span
<1>4. \A u : Claim(u) \subseteq Page
  BY ExtentPages DEF Claim
<1> QED BY <1>1, <1>2, <1>3, <1>4 DEF Layout, ClaimPc, MallocPc

\* Unmapping a thread's own region leaves the others as they were.
LEMMA LayoutUnmap ==
  ASSUME TypeInv, Layout, NEW t \in Thread, pc[t] \in ClaimPc,
         NEW n \in Nat, Claim(t) = Extent(vma[t], n), Unmap(vma[t], mmap_sz(n)),
         Return(t), UNCHANGED vma_tree
  PROVE  Layout'
<1>1. pc' = [pc EXCEPT ![t] = "idle"] /\ vma' = [vma EXCEPT ![t] = None]
      /\ size' = [size EXCEPT ![t] = 0] /\ vm_end' = [vm_end EXCEPT ![vma[t]] = 0]
  BY DEF Return, Goto, Unmap
<1>2. \A p \in Page : p \notin Claim(t) => mem'[p] = mem[p]
  BY DEF Unmap, Protected, Extent
<1>3. \A b \in vma_tree : b # vma[t] /\ vm_end'[b] = vm_end[b] /\ Span(b)' = Span(b)
  BY <1>1, ClaimFacts DEF Span, TypeInv, TypeOK
<1>4. ASSUME NEW u \in Thread, pc'[u] \in ClaimPc
      PROVE  /\ u # t /\ pc'[u] = pc[u] /\ vma'[u] = vma[u] /\ size'[u] = size[u]
             /\ vm_end'[vma[u]] = vm_end[vma[u]] /\ Claim(u)' = Claim(u)
  <2>1. u # t /\ pc'[u] = pc[u] /\ vma'[u] = vma[u] /\ size'[u] = size[u]
    BY <1>1, <1>4 DEF TypeInv, TypeOK, ClaimPc, MallocPc
  <2>2. vma[u] # vma[t] /\ vma[u] \in Page
    BY <2>1, <1>4, ClaimFacts
  <2> QED BY <1>1, <2>1, <2>2 DEF Claim, TypeInv, TypeOK
<1>5. \A b : Span(b) \subseteq Page
  BY ExtentPages DEF Span
<1>6. \A u : Claim(u) \subseteq Page
  BY ExtentPages DEF Claim
<1>7. \A b \in vma_tree : \A p \in Span(b) : mem'[p] # "unmapped"
  BY <1>2, <1>5 DEF Layout
<1>8. \A u \in Thread : pc'[u] \in ClaimPc => \A p \in Claim(u) : mem'[p] # "unmapped"
  BY <1>2, <1>4, <1>6 DEF Layout
<1> QED BY <1>3, <1>4, <1>7, <1>8 DEF Layout, ClaimPc, MallocPc

LEMMA LayoutInit == Init => Layout
BY DEF Init, Layout, ClaimPc, MallocPc

LEMMA LayoutNext == TypeInv /\ Layout /\ [Next]_vars => Layout'
<1> SUFFICES ASSUME TypeInv, Layout, [Next]_vars PROVE Layout'
  OBVIOUS
<1> USE DEF memVars, lockVars, sigVars, clientVars, locals, Goto
<1>1. CASE UNCHANGED vars
  BY <1>1, LayoutFrame DEF vars
<1>2. ASSUME NEW t \in Thread, Step(t) PROVE Layout'
  <2>1. CASE CallMalloc(t)
    BY <2>1, LayoutFrame DEF CallMalloc, ClaimPc, MallocPc, TypeInv, TypeOK
  <2>2. CASE Mmap(t)
    <3>1. CASE Return(t) /\ UNCHANGED mem
      BY <2>2, <3>1, LayoutFrame DEF Mmap, Return, ClaimPc, MallocPc, TypeInv, TypeOK
    <3>2. CASE ~(Return(t) /\ UNCHANGED mem)
      <4>1. PICK b \in Page :
              /\ \A p \in Extent(b, size[t]) : mem[p] = "unmapped"
              /\ mem' = Protected(b, mmap_sz(size[t]), "r")
              /\ vma' = [vma EXCEPT ![t] = b] /\ pc' = [pc EXCEPT ![t] = "info"]
              /\ UNCHANGED <<vma_tree, vm_end, size>>
        BY <2>2, <3>2 DEF Mmap, Extent
      <4>2. \A p \in Page : /\ mem[p] # "unmapped" => mem'[p] # "unmapped"
                            /\ p \in Extent(b, size[t]) => mem'[p] # "unmapped"
        BY <4>1 DEF Protected, Extent
      <4>3. Claim(t)' = Extent(b, size[t]) /\ pc'[t] = "info"
        BY <4>1 DEF Claim, TypeInv, TypeOK
      <4>4. ASSUME NEW u \in Thread \ {t}
            PROVE  pc'[u] = pc[u] /\ vma'[u] = vma[u] /\ Claim(u)' = Claim(u)
        BY <4>1 DEF Claim, TypeInv, TypeOK
      <4>5. \A c : Span(c)' = Span(c) /\ Span(c) \subseteq Page
        BY <4>1, ExtentPages DEF Span
      <4>6. \A u : Claim(u) \subseteq Page
        BY ExtentPages DEF Claim
      <4>7. Extent(b, size[t]) \subseteq Page
        BY ExtentPages
      <4> QED BY <4>1, <4>2, <4>3, <4>4, <4>5, <4>6, <4>7
              DEF Layout, ClaimPc, MallocPc
    <3> QED BY <3>1, <3>2
  <2>3. CASE SetupInfo(t)
    <3>1. pc[t] \in ClaimPc /\ size[t] \in Nat /\ Claim(t) = Extent(vma[t], size[t])
      BY <2>3 DEF SetupInfo, ClaimPc, MallocPc, Claim, TypeInv, TypeOK
    <3>2. CASE Unmap(vma[t], mmap_sz(size[t])) /\ Return(t)
      BY <2>3, <3>1, <3>2, LayoutUnmap DEF SetupInfo
    <3>3. CASE ~(Unmap(vma[t], mmap_sz(size[t])) /\ Return(t))
      <4>1. /\ mem' = Protected(vma[t], info_sz, "rw")
            /\ vm_end' = [vm_end EXCEPT ![vma[t]] = vm_start(vma[t]) + size[t]]
            /\ pc' = [pc EXCEPT ![t] = "insert"]
            /\ UNCHANGED <<vma_tree, vma, size>>
        BY <2>3, <3>3 DEF SetupInfo
      <4>2. \A p \in Page : mem[p] # "unmapped" => mem'[p] # "unmapped"
        BY <4>1 DEF Protected
      <4>3. Claim(t)' = Claim(t) /\ vm_end'[vma[t]] = vm_start(vma[t]) + size[t]
        BY <3>1, <4>1, ClaimFacts DEF Claim, TypeInv, TypeOK
      <4>4. ASSUME NEW u \in Thread \ {t}, pc'[u] \in ClaimPc
            PROVE  /\ pc'[u] = pc[u] /\ vm_end'[vma[u]] = vm_end[vma[u]]
                   /\ Claim(u)' = Claim(u)
        <5>1. pc'[u] = pc[u]
          BY <4>1 DEF TypeInv, TypeOK
        <5>2. vma[u] # vma[t] /\ vma[u] \in Page
          BY <5>1, <3>1, <4>4, ClaimFacts
        <5> QED BY <4>1, <5>1, <5>2 DEF Claim, TypeInv, TypeOK
      <4>5. \A b \in vma_tree : vm_end'[b] = vm_end[b] /\ Span(b)' = Span(b)
        BY <4>1, <3>1, ClaimFacts DEF Span, TypeInv, TypeOK
      <4>6. \A b : Span(b) \subseteq Page
        BY ExtentPages DEF Span
      <4>7. \A u : Claim(u) \subseteq Page
        BY ExtentPages DEF Claim
      <4>8. pc'[t] = "insert" /\ pc[t] \in ClaimPc
        BY <3>1, <4>1 DEF TypeInv, TypeOK
      <4>9. \A u \in Thread : pc'[u] \in ClaimPc => pc[u] \in ClaimPc /\ Claim(u)' = Claim(u)
        BY <4>3, <4>4, <4>8
      <4>10. \A u \in Thread : pc'[u] \in ClaimPc => \A p \in Claim(u) : mem'[p] # "unmapped"
        BY <4>2, <4>7, <4>9 DEF Layout
      <4>11. \A b \in vma_tree : \A p \in Span(b) : mem'[p] # "unmapped"
        BY <4>2, <4>6 DEF Layout
      <4>12. \A u \in Thread :
               /\ pc'[u] = "insert" => vm_end'[vma[u]] = vm_start(vma[u]) + size[u]
               /\ pc'[u] = "munmap" => vm_end'[vma[u]] - vm_start(vma[u]) \in Nat
        BY <4>3, <4>4, <4>8 DEF Layout, ClaimPc, MallocPc
      <4> QED BY <4>1, <4>5, <4>9, <4>10, <4>11, <4>12 DEF Layout
    <3> QED BY <3>2, <3>3
  <2>4. CASE Insert(t)
    <3>1. CASE vma[t] \in vma_tree
      BY <2>4, <3>1, LayoutFrame DEF Insert, ClaimPc, MallocPc, TypeInv, TypeOK
    <3>2. CASE vma[t] \notin vma_tree
      <4>1. /\ vma_tree' = vma_tree \cup {vma[t]}
            /\ pc' = [pc EXCEPT ![t] = "idle"]
            /\ vma' = [vma EXCEPT ![t] = None] /\ size' = [size EXCEPT ![t] = 0]
            /\ UNCHANGED <<mem, vm_end>>
        BY <2>4, <3>2 DEF Insert, Return
      <4>2. /\ pc[t] = "insert" /\ pc[t] \in ClaimPc /\ size[t] \in Nat
            /\ vma[t] \in Page /\ vm_end[vma[t]] - vm_start(vma[t]) = size[t]
        BY <2>4, PageFacts
           DEF Insert, ClaimPc, MallocPc, WorkPc, Layout, TypeInv, TypeOK
      <4>3. Span(vma[t]) = Claim(t)
        BY <4>2 DEF Span, Claim
      <4>4. \A b : Span(b)' = Span(b)
        BY <4>1 DEF Span
      <4>5. ASSUME NEW u \in Thread, pc'[u] \in ClaimPc
            PROVE  u # t /\ pc'[u] = pc[u] /\ vma'[u] = vma[u] /\ size'[u] = size[u]
                   /\ Claim(u)' = Claim(u)
        BY <4>1, <4>5 DEF Claim, ClaimPc, MallocPc, TypeInv, TypeOK
      <4> QED BY <4>1, <4>2, <4>3, <4>4, <4>5 DEF Layout, ClaimPc, MallocPc
    <3> QED BY <3>1, <3>2
  <2>5. CASE Find(t, "find", "lock") \/ Find(t, "free_find", "free_lock")
    BY <2>5, LayoutFrame DEF Find, ClaimPc, MallocPc, TypeInv, TypeOK
  <2>6. CASE LockNode(t, "lock", "flags") \/ LockNode(t, "free_lock", "remove")
    BY <2>6, LayoutFrame DEF LockNode, ClaimPc, MallocPc, TypeInv, TypeOK
  <2>7. CASE CallFree(t)
    BY <2>7, LayoutFrame DEF CallFree, ClaimPc, MallocPc, TypeInv, TypeOK
  <2>8. CASE Remove(t)
    <3>1. CASE vma[t] \notin vma_tree
      BY <2>8, <3>1, LayoutFrame DEF Remove, ClaimPc, MallocPc, TypeInv, TypeOK
    <3>2. CASE vma[t] \in vma_tree
      <4>1. /\ vma_tree' = vma_tree \ {vma[t]}
            /\ pc' = [pc EXCEPT ![t] = "munmap"]
            /\ UNCHANGED <<mem, vm_end, vma, size>>
        BY <2>8, <3>2 DEF Remove
      <4>2. pc'[t] = "munmap" /\ Claim(t)' = Span(vma[t])
        BY <4>1 DEF Span, Claim, TypeInv, TypeOK
      <4>3. \A b : Span(b)' = Span(b)
        BY <4>1 DEF Span
      <4>4. \A u \in Thread \ {t} : pc'[u] = pc[u] /\ Claim(u)' = Claim(u)
        BY <4>1 DEF Claim, TypeInv, TypeOK
      <4> QED BY <3>2, <4>1, <4>2, <4>3, <4>4 DEF Layout, ClaimPc, MallocPc
    <3> QED BY <3>1, <3>2
  <2>9. CASE Munmap(t)
    <3>1. pc[t] = "munmap"
      BY <2>9 DEF Munmap
    <3> DEFINE n == vm_end[vma[t]] - vm_start(vma[t])
    <3>2. n \in Nat /\ Claim(t) = Extent(vma[t], n)
      BY <3>1 DEF Claim, Layout
    <3> QED BY <2>9, <3>1, <3>2, LayoutUnmap DEF Munmap, ClaimPc
  <2>10. CASE CallWrite(t) \/ Write(t)
    BY <2>10, LayoutFrame DEF CallWrite, Write, Return, ClaimPc, MallocPc, TypeInv, TypeOK
  <2>11. CASE Flags(t) \/ Unlock(t)
    BY <2>11, LayoutFrame DEF Flags, Unlock, ClaimPc, MallocPc, TypeInv, TypeOK
  <2>12. CASE Protect(t)
    <3>1. \A p \in Page : mem[p] # "unmapped" => mem'[p] # "unmapped"
      BY <2>12 DEF Protect, Protected, TypeInv, TypeOK
    <3> QED BY <2>12, <3>1, LayoutFrame DEF Protect, ClaimPc, MallocPc, TypeInv, TypeOK
  <2>13. CASE Sched(t) \/ KernReturn(t) \/ Finalize(t)
    BY <2>13, LayoutFrame DEF Sched, KernReturn, Finalize
  <2> QED BY <1>2, <2>1, <2>2, <2>3, <2>4, <2>5, <2>6, <2>7, <2>8, <2>9, <2>10,
             <2>11, <2>12, <2>13
          DEF Step, Client, Locking, Running
<1> QED BY <1>1, <1>2 DEF Next

-----------------------------------------------------------------------------
(* Who uses which region, and which locks are held *)

UsePc  == {"write", "find", "lock", "flags", "protect", "unlock"}
FreePc == {"free_find", "free_lock", "remove"}

\* A region in use is owned by the program and holds the address used; one that
\* is being freed is not owned, and is freed by one thread.
Ownership ==
  /\ owned \subseteq vma_tree
  /\ \A t \in Thread :
       /\ pc[t] \in UsePc =>
            \E b \in owned : addr[t] \in vm_start(b) .. vm_end[b] - 1
       /\ pc[t] \in UsePc \cap FoundPc => 
            vma[t] \in owned /\ addr[t] \in vm_start(vma[t]) .. vm_end[vma[t]] - 1
       /\ pc[t] \in FreePc =>
            /\ \E b \in vma_tree \ owned : addr[t] = vm_start(b)
            /\ \A u \in Thread \ {t} : pc[u] \in FreePc => addr[u] # addr[t]
       /\ pc[t] \in FreePc \cap FoundPc =>
            /\ vma[t] \in vma_tree \ owned
            /\ addr[t] = vm_start(vma[t]) /\ addr[t] < vm_end[vma[t]]

\* The threads that hold a lock are those between its acquisition and release.
LockInv ==
  /\ \A t \in Thread : tree_lock = t <=> pc[t] \in {"lock", "free_lock"}
  /\ \A t \in Thread : pc[t] \in HeldPc => vm_lock[vma[t]] = t
  /\ \A b \in Page : \A t \in Thread :
       vm_lock[b] = t => pc[t] \in HeldPc /\ vma[t] = b

\* The search finds the region that holds an address, or that starts there.
LEMMA FindUnique ==
  ASSUME TypeInv, Layout, NEW b \in vma_tree, NEW a \in Nat, vm_start(b) <= a,
         a < vm_end[b] \/ a = vm_start(b)
  PROVE  IsFound(a, b) /\ \A n : IsFound(a, n) => n = b
<1>1. \A c \in vma_tree : c \in Page /\ c \in Nat /\ vm_end[c] \in Nat
                          /\ vm_end[c] - vm_start(c) \in Nat
  BY PageFacts DEF Layout, TypeInv, TypeOK
<1>2. ASSUME NEW c \in vma_tree, b < c PROVE a < vm_start(c)
  <2>1. c \in Span(c)
    BY <1>1, BaseInExtent DEF Span
  <2>2. c \notin Span(b)
    BY <1>1, <1>2, <2>1 DEF Layout
  <2>3. c >= b + mmap_sz(vm_end[b] - vm_start(b))
    BY <1>1, <1>2, <2>2, SegmentFacts DEF Span, Extent, PagesIn
  <2> QED BY <1>1, <2>3, SegmentFacts DEF vm_start
<1>3. \A c \in Below(a) : c <= b
  BY <1>1, <1>2, PageFacts DEF Below
<1> QED BY <1>1, <1>3 DEF IsFound, Below

\* Steps that leave the set of regions and their use alone.
LEMMA OwnershipFrame ==
  ASSUME TypeInv, Ownership, UNCHANGED <<vma_tree, owned>>,
         \A b \in vma_tree : vm_end'[b] = vm_end[b],
         \A u \in Thread :
           \/ pc'[u] \notin UsePc \cup FreePc
           \/ /\ addr'[u] = addr[u]
              /\ pc'[u] \in UsePc => pc[u] \in UsePc
              /\ pc'[u] \in FreePc => pc[u] \in FreePc
              /\ pc'[u] \in FoundPc => pc[u] \in FoundPc /\ vma'[u] = vma[u]
  PROVE  Ownership'
<1> USE DEF Ownership, FoundPc
<1>1. \A u \in Thread : pc'[u] \in UsePc =>
        \E b \in owned : addr'[u] \in vm_start(b) .. vm_end'[b] - 1
  BY DEF UsePc, FreePc
<1>2. \A u \in Thread : pc'[u] \in UsePc \cap FoundPc =>
        vma'[u] \in owned /\ addr'[u] \in vm_start(vma'[u]) .. vm_end'[vma'[u]] - 1
  BY DEF UsePc, FreePc
<1>3. \A u \in Thread : pc'[u] \in FreePc =>
        /\ \E b \in vma_tree \ owned : addr'[u] = vm_start(b)
        /\ \A w \in Thread \ {u} : pc'[w] \in FreePc => addr'[w] # addr'[u]
  BY DEF UsePc, FreePc
<1>4. \A u \in Thread : pc'[u] \in FreePc \cap FoundPc =>
        /\ vma'[u] \in vma_tree \ owned
        /\ addr'[u] = vm_start(vma'[u]) /\ addr'[u] < vm_end'[vma'[u]]
  BY DEF UsePc, FreePc
<1> QED BY <1>1, <1>2, <1>3, <1>4

LEMMA OwnershipInit == Init => Ownership
BY DEF Init, Ownership, UsePc, FreePc

LEMMA OwnershipNext ==
  TypeInv /\ Layout /\ Ownership /\ [Next]_vars => Ownership'
<1> SUFFICES ASSUME TypeInv, Layout, Ownership, [Next]_vars PROVE Ownership'
  OBVIOUS
<1> USE DEF memVars, lockVars, sigVars, clientVars, locals, Goto,
            UsePc, FreePc, FoundPc
<1>1. CASE UNCHANGED vars
  BY <1>1, OwnershipFrame DEF vars
<1>2. ASSUME NEW t \in Thread, Step(t) PROVE Ownership'
  <2>0. \A b \in vma_tree : b \in Nat /\ vm_start(b) \in Nat /\ vm_end[b] \in Nat
    BY PageFacts DEF TypeInv, TypeOK
  <2>1. CASE CallMalloc(t) \/ Mmap(t)
    BY <2>1, OwnershipFrame DEF CallMalloc, Mmap, Return, TypeInv, TypeOK
  <2>2. CASE SetupInfo(t) \/ Munmap(t)
    <3>1. pc[t] \in ClaimPc
      BY <2>2 DEF SetupInfo, Munmap, ClaimPc, MallocPc
    <3>2. \A b \in vma_tree : vm_end'[b] = vm_end[b]
      BY <2>2, <3>1, ClaimFacts DEF SetupInfo, Munmap, Unmap, TypeInv, TypeOK
    <3> QED BY <2>2, <3>2, OwnershipFrame
            DEF SetupInfo, Munmap, Return, TypeInv, TypeOK
  <2>3. CASE Insert(t)
    <3>1. CASE vma[t] \in vma_tree
      BY <2>3, <3>1, OwnershipFrame DEF Insert
    <3>2. CASE vma[t] \notin vma_tree
      <4>1. /\ vma_tree' = vma_tree \cup {vma[t]} /\ owned' = owned \cup {vma[t]}
            /\ vm_end' = vm_end /\ pc' = [pc EXCEPT ![t] = "idle"]
            /\ \A u \in Thread \ {t} : vma'[u] = vma[u] /\ addr'[u] = addr[u]
        BY <2>3, <3>2 DEF Insert, Return, TypeInv, TypeOK
      <4> QED BY <3>2, <4>1 DEF Ownership, TypeInv, TypeOK
    <3> QED BY <3>1, <3>2
  <2>4. CASE Find(t, "find", "lock") \/ Find(t, "free_find", "free_lock")
    <3>1. CASE proc' = "aborted"
      BY <1>2, <2>4, <3>1, OwnershipFrame DEF Find, Step
    <3>2. CASE proc' # "aborted"
      <4>1. PICK n \in vma_tree :
              /\ IsFound(addr[t], n) /\ addr[t] < vm_end[n]
              /\ vma' = [vma EXCEPT ![t] = n]
              /\ \/ pc[t] = "find" /\ pc' = [pc EXCEPT ![t] = "lock"]
                 \/ pc[t] = "free_find" /\ pc' = [pc EXCEPT ![t] = "free_lock"]
              /\ UNCHANGED <<vma_tree, owned, vm_end, addr>>
        BY <2>4, <3>2 DEF Find
      <4>2. vm_start(n) <= addr[t] /\ addr[t] \in Nat
        BY <4>1 DEF IsFound, Below, TypeInv, TypeOK
      <4>3. CASE pc[t] = "find"
        <5>1. PICK b \in owned : addr[t] \in vm_start(b) .. vm_end[b] - 1
          BY <4>3 DEF Ownership
        <5>2. n = b
          BY <2>0, <4>1, <4>2, <5>1, FindUnique DEF Ownership
        <5>3. n \in owned /\ addr[t] \in vm_start(n) .. vm_end[n] - 1
          BY <5>1, <5>2
        <5> QED BY <4>1, <4>3, <5>3 DEF Ownership, TypeInv, TypeOK
      <4>4. CASE pc[t] = "free_find"
        <5>1. PICK b \in vma_tree \ owned : addr[t] = vm_start(b)
          BY <4>4 DEF Ownership
        <5>2. n = b
          BY <2>0, <4>1, <4>2, <5>1, FindUnique
        <5> QED BY <4>1, <4>4, <5>1, <5>2 DEF Ownership, TypeInv, TypeOK
      <4> QED BY <4>1, <4>3, <4>4
    <3> QED BY <3>1, <3>2
  <2>5. CASE LockNode(t, "lock", "flags") \/ LockNode(t, "free_lock", "remove")
    BY <2>5, OwnershipFrame DEF LockNode, TypeInv, TypeOK
  <2>6. CASE CallFree(t)
    <3>1. PICK b \in owned :
            /\ \A u \in Thread : pc[u] \in UsePc =>
                 addr[u] \notin vm_start(b) .. vm_end[b] - 1
            /\ owned' = owned \ {b} /\ addr' = [addr EXCEPT ![t] = vm_start(b)]
            /\ pc' = [pc EXCEPT ![t] = "free_find"]
            /\ UNCHANGED <<vma_tree, vm_end, vma>>
      BY <2>6 DEF CallFree
    <3>2. /\ pc'[t] = "free_find" /\ addr'[t] = vm_start(b)
          /\ \A u \in Thread \ {t} : pc'[u] = pc[u] /\ addr'[u] = addr[u]
      BY <3>1 DEF TypeInv, TypeOK
    <3>3. b \in vma_tree \ owned'
      BY <3>1 DEF Ownership
    <3>4. \A c \in vma_tree : vm_start(c) = vm_start(b) => c = b
      BY <2>0, <3>3, SegmentFacts DEF vm_start
    <3>5. \A u \in Thread : pc[u] \in FreePc => addr[u] # vm_start(b)
      BY <3>1, <3>4 DEF Ownership
    <3>6. \A u \in Thread : pc'[u] \in UsePc =>
            \E c \in owned' : addr'[u] \in vm_start(c) .. vm_end'[c] - 1
      BY <3>1, <3>2 DEF Ownership
    <3>7. \A u \in Thread : pc'[u] \in UsePc \cap FoundPc =>
            vma'[u] \in owned' /\ addr'[u] \in vm_start(vma'[u]) .. vm_end'[vma'[u]] - 1
      BY <3>1, <3>2 DEF Ownership
    <3>8. \A u \in Thread : pc'[u] \in FreePc =>
            /\ \E c \in vma_tree' \ owned' : addr'[u] = vm_start(c)
            /\ \A w \in Thread \ {u} : pc'[w] \in FreePc => addr'[w] # addr'[u]
      BY <3>1, <3>2, <3>3, <3>5 DEF Ownership
    <3>9. \A u \in Thread : pc'[u] \in FreePc \cap FoundPc =>
            /\ vma'[u] \in vma_tree' \ owned'
            /\ addr'[u] = vm_start(vma'[u]) /\ addr'[u] < vm_end'[vma'[u]]
      BY <3>1, <3>2 DEF Ownership
    <3> QED BY <3>1, <3>6, <3>7, <3>8, <3>9 DEF Ownership
  <2>7. CASE Remove(t)
    <3>1. CASE vma[t] \notin vma_tree
      BY <2>7, <3>1, OwnershipFrame DEF Remove
    <3>2. CASE vma[t] \in vma_tree
      <4>1. /\ vma_tree' = vma_tree \ {vma[t]} /\ pc[t] = "remove"
            /\ pc' = [pc EXCEPT ![t] = "munmap"]
            /\ UNCHANGED <<owned, vm_end, vma, addr>>
        BY <2>7, <3>2 DEF Remove
      <4>2. vma[t] \notin owned /\ addr[t] = vm_start(vma[t])
        BY <4>1 DEF Ownership
      <4>3. pc'[t] = "munmap" /\ \A u \in Thread \ {t} : pc'[u] = pc[u]
        BY <4>1 DEF TypeInv, TypeOK
      <4> QED BY <4>1, <4>2, <4>3 DEF Ownership
    <3> QED BY <3>1, <3>2
  <2>8. CASE CallWrite(t)
    <3>1. PICK b \in owned : \E a \in vm_start(b) .. vm_end[b] - 1 :
            addr' = [addr EXCEPT ![t] = a]
      BY <2>8 DEF CallWrite
    <3>2. /\ pc'[t] = "write" /\ addr'[t] \in vm_start(b) .. vm_end[b] - 1
          /\ \A u \in Thread \ {t} : pc'[u] = pc[u] /\ addr'[u] = addr[u]
          /\ UNCHANGED <<vma_tree, owned, vm_end, vma>>
      BY <2>8, <3>1 DEF CallWrite, TypeInv, TypeOK
    <3> QED BY <3>2 DEF Ownership
  <2>9. CASE Write(t) \/ Flags(t) \/ Protect(t) \/ Unlock(t)
    BY <2>9, OwnershipFrame DEF Write, Flags, Protect, Unlock, Return, TypeInv, TypeOK
  <2>10. CASE Sched(t) \/ KernReturn(t) \/ Finalize(t)
    BY <2>10, OwnershipFrame DEF Sched, KernReturn, Finalize
  <2> QED BY <1>2, <2>1, <2>2, <2>3, <2>4, <2>5, <2>6, <2>7, <2>8, <2>9, <2>10
          DEF Step, Client, Locking, Running
<1> QED BY <1>1, <1>2 DEF Next

LEMMA LockInit == Init => LockInv
BY ThreadAssumption DEF Init, LockInv, HeldPc

LEMMA LockNext ==
  TypeInv /\ Ownership /\ LockInv /\ [Next]_vars => LockInv'
<1> SUFFICES ASSUME TypeInv, Ownership, LockInv, [Next]_vars PROVE LockInv'
  OBVIOUS
<1> USE ThreadAssumption
        DEF memVars, lockVars, sigVars, clientVars, locals, Goto, HeldPc,
            TypeInv, TypeOK, LockInv
<1>1. CASE UNCHANGED vars
  BY <1>1 DEF vars
<1>2. ASSUME NEW t \in Thread, Step(t) PROVE LockInv'
  <2>1. CASE CallMalloc(t) \/ CallFree(t) \/ CallWrite(t)
    BY <2>1 DEF CallMalloc, CallFree, CallWrite
  <2>2. CASE Mmap(t) \/ SetupInfo(t) \/ Munmap(t) \/ Write(t)
    BY <2>2 DEF Mmap, SetupInfo, Munmap, Write, Return
  <2>3. CASE Insert(t)
    <3>1. \A u \in Thread : pc[u] \in HeldPc => vma[u] \in vma_tree
      BY DEF Ownership, UsePc, FreePc, FoundPc
    <3> QED BY <2>3, <3>1 DEF Insert, Return
  <2>4. CASE Find(t, "find", "lock") \/ Find(t, "free_find", "free_lock")
    BY <2>4 DEF Find
  <2>5. CASE LockNode(t, "lock", "flags") \/ LockNode(t, "free_lock", "remove")
    <3>1. vma[t] \in Page
      BY <2>5 DEF LockNode, WorkPc, FoundPc
    <3>2. /\ pc[t] \in {"lock", "free_lock"} /\ pc'[t] \in {"flags", "remove"}
          /\ vm_lock[vma[t]] = None /\ tree_lock' = None /\ vma' = vma
          /\ vm_lock'[vma[t]] = t
          /\ \A b \in Page \ {vma[t]} : vm_lock'[b] = vm_lock[b]
          /\ \A u \in Thread \ {t} : pc'[u] = pc[u]
      BY <2>5, <3>1 DEF LockNode
    <3>3. \A u \in Thread : pc'[u] \notin {"lock", "free_lock"}
      BY <3>2
    <3>4. \A u \in Thread : pc'[u] \in HeldPc => vm_lock'[vma[u]] = u
      BY <3>2 DEF WorkPc, FoundPc
    <3>5. \A b \in Page : \A u \in Thread :
            vm_lock'[b] = u => pc'[u] \in HeldPc /\ vma[u] = b
      BY <3>2
    <3> QED BY <3>2, <3>3, <3>4, <3>5
  <2>6. CASE Remove(t)
    <3>1. CASE vma[t] \notin vma_tree
      BY <2>6, <3>1 DEF Remove
    <3>2. CASE vma[t] \in vma_tree
      <4>1. /\ pc[t] = "remove" /\ pc'[t] = "munmap" /\ vma' = vma
            /\ tree_lock' = tree_lock /\ vm_lock'[vma[t]] = None
            /\ \A b \in Page \ {vma[t]} : vm_lock'[b] = vm_lock[b]
            /\ \A u \in Thread \ {t} : pc'[u] = pc[u]
        BY <2>6, <3>2 DEF Remove
      <4>2. \A u \in Thread : pc'[u] \in HeldPc => vm_lock'[vma[u]] = u
        BY <4>1 DEF WorkPc, FoundPc
      <4>3. \A b \in Page : \A u \in Thread :
              vm_lock'[b] = u => pc'[u] \in HeldPc /\ vma[u] = b
        BY <4>1
      <4> QED BY <4>1, <4>2, <4>3
    <3> QED BY <3>1, <3>2
  <2>7. CASE Flags(t) \/ Protect(t)
    BY <2>7 DEF Flags, Protect
  <2>8. CASE Unlock(t)
    BY <2>8 DEF Unlock
  <2>9. CASE Sched(t) \/ KernReturn(t) \/ Finalize(t)
    BY <2>9 DEF Sched, KernReturn, Finalize
  <2> QED BY <1>2, <2>1, <2>2, <2>3, <2>4, <2>5, <2>6, <2>7, <2>8, <2>9
          DEF Step, Client, Locking, Running
<1> QED BY <1>1, <1>2 DEF Next

\* One thread at a time works on the vm_area of a region.
LEMMA LockExclusive == LockInv => Exclusive
BY DEF LockInv, Exclusive

\* A thread that waits for a node's lock with the tree's in its hands waits for
\* a handler, and never for the ooc_free that wants the tree's: the region that
\* ooc_free has locked belongs to no one else.
LEMMA LockOrder == TypeInv /\ Ownership /\ LockInv => NoLockCycle
<1> SUFFICES ASSUME TypeInv, Ownership, LockInv,
                    NEW t \in Thread, NEW u \in Thread,
                    pc[t] \in {"lock", "free_lock"}, vm_lock[vma[t]] = u
             PROVE  pc[u] \in {"flags", "protect", "unlock"}
  BY DEF NoLockCycle
<1>1. vma[t] \in Page
  BY DEF TypeInv, WorkPc, FoundPc
<1>2. pc[u] \in HeldPc /\ vma[u] = vma[t]
  BY <1>1 DEF LockInv
<1>3. pc[u] # "remove"
  BY <1>2 DEF Ownership, UsePc, FreePc, FoundPc
<1> QED BY <1>2, <1>3 DEF HeldPc

-----------------------------------------------------------------------------
(* Flags and protections *)

\* The data pages of a region that ooc_malloc is setting up.
NewData(t) == PagesIn(vm_start(vma[t]), size[t])

\* A page that a handler has decided to make writable is covered by the
\* region's flags; one to be made readable is not yet writable.
NewIsClean(t) ==
  /\ pc[t] \in MallocPc => \A p \in NewData(t) : mem[p] # "rw"
  /\ pc[t] = "insert" => mem[vma[t]] = "rw"
GrantIsSafe(t) ==
  pc[t] = "protect" =>
    \/ prot[t] = "r" /\ \A p \in DataPages(vma[t]) : mem[p] # "rw"
    \/ prot[t] = "rw" /\ vm_flags[vma[t]] = {READ, DIRTY}

Protection ==
  /\ DirtyCoversWritable
  /\ \A b \in vma_tree : mem[b] = "rw"
  /\ \A t \in Thread : NewIsClean(t) /\ GrantIsSafe(t)

\* The pages of a region: the info segment, then the data.
LEMMA SegmentPages ==
  ASSUME NEW b \in Page, NEW n \in Nat
  PROVE  /\ b \in Extent(b, n) /\ b \notin PagesIn(vm_start(b), n)
         /\ PagesIn(vm_start(b), n) \subseteq Extent(b, n)
         /\ PagesIn(b, info_sz) \subseteq Extent(b, n)
         /\ b \in PagesIn(b, info_sz)
         /\ PagesIn(vm_start(b), n) \cap PagesIn(b, info_sz) = {}
<1> DEFINE m == mmap_sz(n)
<1>1. m \in Nat /\ m >= info_sz + n /\ info_sz \in Nat /\ info_sz > 0
  BY SegmentFacts
<1>2. b \in Nat /\ \A p \in Page : p \in Nat
  BY PageFacts
<1>3. Extent(b, n) = PagesIn(b, m)
  BY DEF Extent
<1> HIDE DEF m
<1> DEFINE i == info_sz
<1>4. \A p \in Page :
        /\ p \in PagesIn(b, m) <=> b <= p /\ p < b + m
        /\ p \in PagesIn(b, i) <=> b <= p /\ p < b + i
        /\ p \in PagesIn(vm_start(b), n) <=> b + i <= p /\ p < b + i + n
  BY DEF PagesIn, vm_start
<1>5. i \in Nat /\ i > 0 /\ m >= i + n /\ m \in Nat
  BY <1>1
<1>6. /\ PagesIn(b, i) \subseteq Page /\ PagesIn(b, m) \subseteq Page
      /\ PagesIn(vm_start(b), n) \subseteq Page
  BY DEF PagesIn
<1> HIDE DEF i
<1>7. b \in PagesIn(b, m) /\ b \in PagesIn(b, i) /\ b \notin PagesIn(vm_start(b), n)
  BY <1>2, <1>4, <1>5
<1>8. \A p \in Page :
        /\ p \in PagesIn(vm_start(b), n) => p \in PagesIn(b, m) /\ p \notin PagesIn(b, i)
        /\ p \in PagesIn(b, i) => p \in PagesIn(b, m)
  BY <1>2, <1>4, <1>5
<1> QED BY <1>3, <1>6, <1>7, <1>8 DEF i

\* A region's data pages are its own, and apart from its info segment.
LEMMA DataFacts ==
  ASSUME TypeInv, Layout
  PROVE  /\ \A b \in vma_tree : /\ b \in Span(b) /\ b \notin DataPages(b)
                                /\ DataPages(b) \subseteq Span(b)
         /\ \A t \in Thread : pc[t] \in MallocPc =>
              /\ NewData(t) \subseteq Claim(t)
              /\ PagesIn(vma[t], info_sz) \subseteq Claim(t)
              /\ vma[t] \in PagesIn(vma[t], info_sz)
              /\ NewData(t) \cap PagesIn(vma[t], info_sz) = {}
<1>1. \A b \in vma_tree : b \in Page /\ vm_end[b] - vm_start(b) \in Nat
  BY DEF Layout, TypeInv, TypeOK
<1>2. \A t \in Thread : pc[t] \in MallocPc =>
        vma[t] \in Page /\ size[t] \in Nat /\ Claim(t) = Extent(vma[t], size[t])
  BY DEF Claim, MallocPc, WorkPc, TypeInv, TypeOK
<1> QED BY SegmentPages, <1>1, <1>2 DEF Span, DataPages, NewData

\* The handler's mprotect reaches one page at most, a data page of the region
\* whose node it has locked.
LEMMA GrantPage ==
  ASSUME TypeInv, Ownership, NEW t \in Thread, pc[t] = "protect",
         NEW q \in PagesIn(PageAlign(addr[t], S_ps[t]), S_ps[t])
  PROVE  q \in DataPages(vma[t]) /\ vma[t] \in vma_tree
<1> DEFINE a == addr[t]
           b == vma[t]
<1>1. /\ b \in vma_tree /\ b \in Page /\ vm_end[b] \in Nat
      /\ a \in vm_start(b) .. vm_end[b] - 1
  BY DEF Ownership, UsePc, FoundPc, TypeInv, TypeOK
<1>2. /\ b \in Nat /\ b % PageSize = 0 /\ vm_start(b) \in Nat
      /\ vm_start(b) % PageSize = 0 /\ a \in Nat
  BY <1>1, PageFacts, SegmentFacts, AlignedSum DEF vm_start
<1>3. q \in Page /\ q \in Nat /\ q % PageSize = 0
  BY PageFacts DEF PagesIn
<1>4. S_ps[t] = PageSize
  <2>1. S_ps[t] # 0
    BY <1>3 DEF PagesIn, PageAlign
  <2> QED BY <2>1 DEF TypeInv, TypeOK
<1>5. PageOf(a) <= q /\ q < PageOf(a) + PageSize
  BY <1>2, <1>4, PageOfFacts DEF PagesIn
<1> HIDE DEF a, b
<1>6. q = PageOf(a)
  <2>1. PageOf(a) \in Nat /\ PageOf(a) % PageSize = 0
    BY <1>2, PageOfFacts
  <2>2. CASE PageOf(a) < q
    BY <1>3, <1>5, <2>1, <2>2, NextBoundary, PageSizeAssumption
  <2> QED BY <1>3, <1>5, <2>1, <2>2
<1>7. vm_start(b) <= q /\ q <= a
  <2>1. q <= a /\ a < q + PageSize
    BY <1>2, <1>6, PageOfFacts
  <2>2. CASE q < vm_start(b)
    BY <1>1, <1>2, <1>3, <2>1, <2>2, NextBoundary, PageSizeAssumption
  <2> QED BY <1>2, <1>3, <2>1, <2>2
<1>8. q < vm_start(b) + (vm_end[b] - vm_start(b))
  BY <1>1, <1>2, <1>3, <1>7
<1>9. q \in DataPages(b)
  BY <1>3, <1>7, <1>8 DEF DataPages, PagesIn
<1> QED BY <1>1, <1>9 DEF b

LEMMA ProtectionFrame ==
  ASSUME Protection, UNCHANGED <<mem, vm_flags, vm_end, vma_tree>>,
         \A u \in Thread :
           /\ pc'[u] \in MallocPc \cup {"protect"} =>
                pc'[u] = pc[u] /\ vma'[u] = vma[u] /\ size'[u] = size[u]
                /\ prot'[u] = prot[u]
           /\ pc[u] = "munmap" => pc'[u] = "munmap" /\ vma'[u] = vma[u]
  PROVE  Protection'
BY DEF Protection, DirtyCoversWritable, NewIsClean, GrantIsSafe, DataPages, NewData,
       MallocPc

LEMMA ProtectionInit == Init => Protection
BY DEF Init, Protection, DirtyCoversWritable, NewIsClean, GrantIsSafe, MallocPc

\* Unmapping a region that is not in the tree.
LEMMA ProtectionUnmap ==
  ASSUME TypeInv, Layout, Ownership, Protection,
         NEW t \in Thread, pc[t] \in ClaimPc,
         NEW n \in Nat, Claim(t) = Extent(vma[t], n), Unmap(vma[t], mmap_sz(n)),
         Return(t), UNCHANGED vma_tree
  PROVE  Protection'
<1>1. /\ pc' = [pc EXCEPT ![t] = "idle"] /\ vma' = [vma EXCEPT ![t] = None]
      /\ size' = [size EXCEPT ![t] = 0] /\ prot' = [prot EXCEPT ![t] = "r"]
      /\ vm_end' = [vm_end EXCEPT ![vma[t]] = 0]
      /\ vm_flags' = [vm_flags EXCEPT ![vma[t]] = {}]
  BY DEF Return, Goto, Unmap
<1>2. \A p \in Page : /\ p \in Claim(t) => mem'[p] = "unmapped"
                      /\ p \notin Claim(t) => mem'[p] = mem[p]
  BY DEF Unmap, Protected, Extent
<1>3. \A b \in vma_tree : b # vma[t] /\ vm_end'[b] = vm_end[b]
                          /\ vm_flags'[b] = vm_flags[b] /\ DataPages(b)' = DataPages(b)
  BY <1>1, ClaimFacts DEF DataPages, TypeInv, TypeOK
<1>4. \A u \in Thread \ {t} : pc'[u] = pc[u] /\ vma'[u] = vma[u] /\ size'[u] = size[u]
                              /\ prot'[u] = prot[u] /\ NewData(u)' = NewData(u)
  BY <1>1 DEF NewData, TypeInv, TypeOK
<1>5. \A p \in Page : mem'[p] = "rw" => mem[p] = "rw"
  BY <1>2
<1>6. \A b \in vma_tree : b \in Page /\ mem'[b] = mem[b]
  BY <1>2, DataFacts DEF Layout, TypeInv, TypeOK
<1>7. \A b : DataPages(b) \subseteq Page
  BY DEF DataPages, PagesIn
<1>8. \A u : NewData(u) \subseteq Page
  BY DEF NewData, PagesIn
<1>9. pc'[t] = "idle"
  BY <1>1 DEF TypeInv, TypeOK
<1>10. DirtyCoversWritable'
  BY <1>3, <1>5, <1>7 DEF Protection, DirtyCoversWritable
<1>11. \A u \in Thread : NewIsClean(u)'
  <2> SUFFICES ASSUME NEW u \in Thread \ {t}, pc[u] \in MallocPc
               PROVE  NewIsClean(u)'
    BY <1>4, <1>9 DEF NewIsClean, MallocPc
  <2>1. vma[u] \in Page /\ vma[u] \notin Claim(t)
    BY DataFacts, ClaimFacts DEF ClaimPc, Layout
  <2> QED BY <1>2, <1>4, <1>5, <1>8, <2>1 DEF Protection, NewIsClean
<1>12. \A u \in Thread : GrantIsSafe(u)'
  <2> SUFFICES ASSUME NEW u \in Thread \ {t}, pc[u] = "protect"
               PROVE  GrantIsSafe(u)'
    BY <1>4, <1>9 DEF GrantIsSafe
  <2>1. vma[u] \in vma_tree /\ vma'[u] = vma[u]
    BY <1>4 DEF Ownership, UsePc, FoundPc
  <2>2. DataPages(vma[u])' = DataPages(vma[u])
    BY <1>3, <2>1 DEF DataPages
  <2> QED BY <1>3, <1>4, <1>5, <1>7, <2>1, <2>2 DEF Protection, GrantIsSafe
<1> QED BY <1>6, <1>10, <1>11, <1>12 DEF Protection

LEMMA ProtectionNext ==
  TypeInv /\ Layout /\ Ownership /\ LockInv /\ Protection /\ [Next]_vars
    => Protection'
<1> SUFFICES ASSUME TypeInv, Layout, Ownership, LockInv, Protection, [Next]_vars
             PROVE  Protection'
  OBVIOUS
<1> USE DEF memVars, lockVars, sigVars, clientVars, locals, Goto
<1>1. CASE UNCHANGED vars
  BY <1>1, ProtectionFrame DEF vars
<1>2. ASSUME NEW t \in Thread, Step(t) PROVE Protection'
  <2>0. /\ \A b : DataPages(b) \subseteq Page
        /\ \A u : NewData(u) \subseteq Page
        /\ \A b \in vma_tree : b \in Page
    BY DEF DataPages, NewData, PagesIn, TypeInv, TypeOK
  <2>1. CASE CallMalloc(t) \/ CallFree(t) \/ CallWrite(t)
    BY <2>1, ProtectionFrame
       DEF CallMalloc, CallFree, CallWrite, MallocPc, TypeInv, TypeOK
  <2>2. CASE Mmap(t)
    <3>1. CASE Return(t) /\ UNCHANGED mem
      BY <2>2, <3>1, ProtectionFrame DEF Mmap, Return, MallocPc, TypeInv, TypeOK
    <3>2. CASE ~(Return(t) /\ UNCHANGED mem)
      <4>1. PICK b \in Page :
              /\ \A p \in PagesIn(b, mmap_sz(size[t])) : mem[p] = "unmapped"
              /\ mem' = Protected(b, mmap_sz(size[t]), "r")
              /\ vma' = [vma EXCEPT ![t] = b] /\ pc' = [pc EXCEPT ![t] = "info"]
              /\ UNCHANGED <<vma_tree, vm_end, vm_flags, size, prot>>
              /\ pc[t] = "mmap"
        BY <2>2, <3>2 DEF Mmap
      <4>2. \A p \in Page : mem'[p] = "rw" <=> mem[p] = "rw"
        BY <4>1 DEF Protected
      <4>3. /\ pc'[t] = "info" /\ vma'[t] = b
            /\ \A u \in Thread \ {t} : pc'[u] = pc[u] /\ vma'[u] = vma[u]
        BY <4>1 DEF TypeInv, TypeOK
      <4>4. NewData(t)' \subseteq PagesIn(b, mmap_sz(size[t]))
        <5>1. size[t] \in Nat
          BY DEF TypeInv, TypeOK
        <5>2. NewData(t)' = PagesIn(vm_start(b), size[t])
          BY <4>1, <4>3 DEF NewData
        <5> QED BY <5>1, <5>2, SegmentPages DEF Extent
      <4>5. \A u \in Thread \ {t} : NewData(u)' = NewData(u)
        BY <4>1, <4>3 DEF NewData
      <4>6. \A p \in NewData(t)' : mem'[p] # "rw"
        BY <2>0, <4>1, <4>2, <4>4 DEF PagesIn
      <4>7. DirtyCoversWritable'
        BY <2>0, <4>1, <4>2 DEF Protection, DirtyCoversWritable, DataPages
      <4>8. \A u \in Thread : NewIsClean(u)'
        BY <2>0, <4>2, <4>3, <4>5, <4>6 DEF Protection, NewIsClean, WorkPc, TypeInv, TypeOK,
           MallocPc
      <4>9. \A u \in Thread : GrantIsSafe(u)'
        BY <2>0, <4>1, <4>2, <4>3 DEF Protection, GrantIsSafe, DataPages
      <4> QED BY <2>0, <4>1, <4>2, <4>7, <4>8, <4>9 DEF Protection
    <3> QED BY <3>1, <3>2
  <2>3. CASE SetupInfo(t)
    <3>1. pc[t] \in ClaimPc /\ pc[t] = "info" /\ size[t] \in Nat
          /\ Claim(t) = Extent(vma[t], size[t])
      BY <2>3 DEF SetupInfo, ClaimPc, MallocPc, Claim, TypeInv, TypeOK
    <3>2. CASE Unmap(vma[t], mmap_sz(size[t])) /\ Return(t)
      BY <2>3, <3>1, <3>2, ProtectionUnmap DEF SetupInfo
    <3>3. CASE ~(Unmap(vma[t], mmap_sz(size[t])) /\ Return(t))
      <4>1. /\ mem' = Protected(vma[t], info_sz, "rw")
            /\ vm_end' = [vm_end EXCEPT ![vma[t]] = vm_start(vma[t]) + size[t]]
            /\ pc' = [pc EXCEPT ![t] = "insert"]
            /\ UNCHANGED <<vma_tree, vma, size, prot, vm_flags>>
        BY <2>3, <3>3 DEF SetupInfo
      <4> DEFINE info == PagesIn(vma[t], info_sz)
      <4>2. \A p \in Page : /\ p \in info => mem'[p] = "rw"
                            /\ p \notin info => mem'[p] = mem[p]
        BY <4>1 DEF Protected
      <4>3. /\ pc'[t] = "insert"
            /\ \A u \in Thread \ {t} : pc'[u] = pc[u]
            /\ \A u : NewData(u)' = NewData(u)
        BY <4>1 DEF NewData, TypeInv, TypeOK
      <4>4. \A b \in vma_tree : DataPages(b)' = DataPages(b)
        BY <4>1, <3>1, ClaimFacts DEF DataPages, TypeInv, TypeOK
      <4>5. /\ info \subseteq Claim(t) /\ vma[t] \in info
            /\ NewData(t) \cap info = {}
        BY <3>1, DataFacts DEF MallocPc
      <4> HIDE DEF info
      <4>6. \A b \in vma_tree : DataPages(b) \cap info = {} /\ b \notin info
        BY <3>1, <4>5, DataFacts DEF Layout
      <4>7. \A u \in Thread \ {t} : pc[u] \in MallocPc =>
              NewData(u) \cap info = {} /\ vma[u] \notin info /\ vma[u] \in Page
        BY <3>1, <4>5, DataFacts, ClaimFacts DEF Layout, ClaimPc
      <4>8. \A u \in Thread : pc[u] = "protect" => vma[u] \in vma_tree
        BY DEF Ownership, UsePc, FoundPc
      <4>9. DirtyCoversWritable'
        BY <2>0, <4>1, <4>2, <4>4, <4>6 DEF Protection, DirtyCoversWritable
      <4>10. \A u \in Thread : NewIsClean(u)'
        <5>1. NewIsClean(t)'
          BY <2>0, <3>1, <4>1, <4>2, <4>3, <4>5, ClaimFacts
             DEF Protection, NewIsClean, MallocPc
        <5>2. ASSUME NEW u \in Thread \ {t} PROVE NewIsClean(u)'
          BY <2>0, <4>1, <4>2, <4>3, <4>7 DEF Protection, NewIsClean, MallocPc
        <5> QED BY <5>1, <5>2
      <4>11. \A u \in Thread : GrantIsSafe(u)'
        <5> SUFFICES ASSUME NEW u \in Thread \ {t}, pc[u] = "protect"
                     PROVE  GrantIsSafe(u)'
          BY <4>3 DEF GrantIsSafe
        <5>1. DataPages(vma[u])' = DataPages(vma[u])
          BY <4>1, <4>4, <4>8 DEF DataPages
        <5> QED BY <2>0, <4>1, <4>2, <4>6, <4>8, <5>1 DEF Protection, GrantIsSafe
      <4> QED BY <2>0, <4>1, <4>2, <4>6, <4>9, <4>10, <4>11 DEF Protection
    <3> QED BY <3>2, <3>3
  <2>4. CASE Insert(t)
    <3>1. CASE vma[t] \in vma_tree
      BY <2>4, <3>1, ProtectionFrame DEF Insert
    <3>2. CASE vma[t] \notin vma_tree
      <4>1. /\ vma_tree' = vma_tree \cup {vma[t]} /\ pc[t] = "insert"
            /\ pc'[t] = "idle"
            /\ \A u \in Thread \ {t} : pc'[u] = pc[u] /\ vma'[u] = vma[u]
                                       /\ size'[u] = size[u] /\ prot'[u] = prot[u]
            /\ UNCHANGED <<mem, vm_end, vm_flags>>
        BY <2>4, <3>2 DEF Insert, Return, TypeInv, TypeOK
      <4>2. DataPages(vma[t]) = NewData(t)
        <5>1. vm_end[vma[t]] - vm_start(vma[t]) = size[t]
          BY <4>1, PageFacts DEF Layout, MallocPc, WorkPc, TypeInv, TypeOK
        <5> QED BY <5>1 DEF DataPages, NewData
      <4>3. \A u \in Thread \ {t} : NewData(u)' = NewData(u)
        BY <4>1 DEF NewData
      <4>4. \A c : DataPages(c)' = DataPages(c)
        BY <4>1 DEF DataPages
      <4>5. DirtyCoversWritable'
        BY <4>1, <4>2, <4>4 DEF Protection, DirtyCoversWritable, NewIsClean, MallocPc
      <4>6. \A u \in Thread : NewIsClean(u)' /\ GrantIsSafe(u)'
        BY <4>1, <4>3 DEF Protection, NewIsClean, GrantIsSafe, MallocPc, DataPages
      <4> QED BY <4>1, <4>5, <4>6 DEF Protection, NewIsClean, MallocPc
    <3> QED BY <3>1, <3>2
  <2>5. CASE Find(t, "find", "lock") \/ Find(t, "free_find", "free_lock")
    BY <2>5, ProtectionFrame DEF Find, MallocPc, TypeInv, TypeOK
  <2>6. CASE LockNode(t, "lock", "flags") \/ LockNode(t, "free_lock", "remove")
    BY <2>6, ProtectionFrame DEF LockNode, MallocPc, TypeInv, TypeOK
  <2>7. CASE Remove(t)
    <3>1. CASE vma[t] \notin vma_tree
      BY <2>7, <3>1, ProtectionFrame DEF Remove
    <3>2. CASE vma[t] \in vma_tree
      <4>1. /\ vma_tree' = vma_tree \ {vma[t]} /\ pc[t] = "remove"
            /\ pc'[t] = "munmap" /\ \A u \in Thread \ {t} : pc'[u] = pc[u]
            /\ UNCHANGED <<mem, vm_end, vm_flags, vma, size, prot>>
        BY <2>7, <3>2 DEF Remove, TypeInv, TypeOK
      <4>2. \A u : NewData(u)' = NewData(u)
        BY <4>1 DEF NewData
      <4>3. \A c : DataPages(c)' = DataPages(c)
        BY <4>1 DEF DataPages
      <4>4. \A u \in Thread : NewIsClean(u)' /\ GrantIsSafe(u)'
        BY <4>1, <4>2 DEF Protection, NewIsClean, GrantIsSafe, MallocPc, DataPages
      <4> QED BY <4>1, <4>3, <4>4 DEF Protection, DirtyCoversWritable
    <3> QED BY <3>1, <3>2
  <2>8. CASE Munmap(t)
    <3>1. pc[t] = "munmap"
      BY <2>8 DEF Munmap
    <3> DEFINE n == vm_end[vma[t]] - vm_start(vma[t])
    <3>2. n \in Nat /\ Claim(t) = Extent(vma[t], n)
      BY <3>1 DEF Claim, Layout
    <3> QED BY <2>8, <3>1, <3>2, ProtectionUnmap DEF Munmap, ClaimPc
  <2>9. CASE Write(t)
    BY <2>9, ProtectionFrame DEF Write, Return, MallocPc, TypeInv, TypeOK
  <2>10. CASE Flags(t)
    <3>1. /\ pc[t] = "flags" /\ pc'[t] = "protect"
          /\ vma[t] \in vma_tree /\ vma[t] \in Page /\ prot' \in [Thread -> {"r", "rw"}]
          /\ \A u \in Thread \ {t} : pc'[u] = pc[u] /\ prot'[u] = prot[u]
          /\ \A p \in Page \ {vma[t]} : vm_flags'[p] = vm_flags[p]
          /\ UNCHANGED <<mem, vm_end, vma_tree, vma, size>>
      BY <2>0, <2>10 DEF Flags, Ownership, UsePc, FoundPc, TypeInv, TypeOK
    <3>2. \/ /\ prot'[t] = "r"
             /\ READ \notin vm_flags[vma[t]]
          \/ prot'[t] = "rw" /\ vm_flags'[vma[t]] = {READ, DIRTY}
      BY <2>10, <3>1 DEF Flags, TypeInv, TypeOK
    <3>3. \A u \in Thread \ {t} : pc[u] = "protect" => vma[u] # vma[t] /\ vma[u] \in Page
      BY <3>1 DEF LockInv, HeldPc, TypeInv, WorkPc, FoundPc
    <3>4. /\ \A u : NewData(u)' = NewData(u)
          /\ \A c : DataPages(c)' = DataPages(c)
      BY <3>1 DEF NewData, DataPages
    <3>5. READ \notin vm_flags[vma[t]] => \A p \in DataPages(vma[t]) : mem[p] # "rw"
      BY <3>1 DEF Protection, DirtyCoversWritable
    <3>6. DirtyCoversWritable'
      BY <2>0, <3>1, <3>2, <3>4, <3>5 DEF Protection, DirtyCoversWritable
    <3>7. \A u \in Thread : GrantIsSafe(u)'
      <4>1. GrantIsSafe(t)'
        BY <3>1, <3>2, <3>5 DEF GrantIsSafe, DataPages
      <4>2. ASSUME NEW u \in Thread \ {t} PROVE GrantIsSafe(u)'
        BY <3>1, <3>3 DEF Protection, GrantIsSafe, DataPages
      <4> QED BY <4>1, <4>2
    <3>8. \A u \in Thread : NewIsClean(u)'
      BY <3>1, <3>4 DEF Protection, NewIsClean, MallocPc
    <3> QED BY <3>1, <3>6, <3>7, <3>8 DEF Protection
  <2>11. CASE Protect(t)
    <3> DEFINE Q == PagesIn(PageAlign(addr[t], S_ps[t]), S_ps[t])
    <3>1. /\ pc[t] = "protect" /\ pc'[t] = "unlock"
          /\ \A u \in Thread \ {t} : pc'[u] = pc[u]
          /\ \A p \in Page : /\ p \in Q => mem'[p] = prot[t]
                             /\ p \notin Q => mem'[p] = mem[p]
          /\ UNCHANGED <<vm_end, vm_flags, vma_tree, vma, size, prot>>
      BY <2>11 DEF Protect, Protected, TypeInv, TypeOK
    <3>2. Q \subseteq DataPages(vma[t]) /\ vma[t] \in vma_tree
      BY <3>1, GrantPage DEF Ownership, UsePc, FoundPc
    <3> HIDE DEF Q
    <3>3. /\ \A u : NewData(u)' = NewData(u)
          /\ \A c : DataPages(c)' = DataPages(c)
      BY <3>1 DEF NewData, DataPages
    <3>4. /\ \A b \in vma_tree : b \notin Q /\ (b # vma[t] => DataPages(b) \cap Q = {})
          /\ \A u \in Thread : pc[u] \in MallocPc =>
               vma[u] \in Page /\ vma[u] \notin Q /\ NewData(u) \cap Q = {}
      BY <3>2, DataFacts, ClaimFacts DEF Layout, ClaimPc
    <3>5. \/ prot[t] = "r" /\ \A p \in DataPages(vma[t]) : mem'[p] # "rw"
          \/ prot[t] = "rw" /\ vm_flags[vma[t]] = {READ, DIRTY}
      BY <2>0, <3>1 DEF Protection, GrantIsSafe
    <3>6. \A u \in Thread \ {t} : pc[u] = "protect" => vma[u] # vma[t] /\ vma[u] \in vma_tree
      BY <3>1 DEF LockInv, HeldPc, Ownership, UsePc, FoundPc
    <3>7. DirtyCoversWritable'
      BY <2>0, <3>1, <3>3, <3>4, <3>5 DEF Protection, DirtyCoversWritable
    <3>8. \A b \in vma_tree : mem'[b] = "rw"
      BY <2>0, <3>1, <3>4 DEF Protection
    <3>9. \A u \in Thread : NewIsClean(u)'
      BY <2>0, <3>1, <3>3, <3>4 DEF Protection, NewIsClean, MallocPc
    <3>10. \A u \in Thread : GrantIsSafe(u)'
      <4> SUFFICES ASSUME NEW u \in Thread \ {t}, pc[u] = "protect"
                   PROVE  GrantIsSafe(u)'
        BY <3>1 DEF GrantIsSafe
      <4>1. DataPages(vma[u])' = DataPages(vma[u])
        BY <3>1 DEF DataPages
      <4> QED BY <2>0, <3>1, <3>4, <3>6, <4>1 DEF Protection, GrantIsSafe
    <3> QED BY <3>1, <3>7, <3>8, <3>9, <3>10 DEF Protection
  <2>12. CASE Unlock(t)
    BY <2>12, ProtectionFrame DEF Unlock, MallocPc, TypeInv, TypeOK
  <2>13. CASE Sched(t) \/ KernReturn(t) \/ Finalize(t)
    BY <2>13, ProtectionFrame DEF Sched, KernReturn, Finalize
  <2> QED BY <1>2, <2>1, <2>2, <2>3, <2>4, <2>5, <2>6, <2>7, <2>8, <2>9, <2>10,
             <2>11, <2>12, <2>13
          DEF Step, Client, Locking, Running
<1> QED BY <1>1, <1>2 DEF Next

-----------------------------------------------------------------------------
(* The invariant, and what follows from it *)

Inv == TypeInv /\ Layout /\ Ownership /\ LockInv /\ Protection

LEMMA Invariance == Spec => []Inv
<1>1. Init => Inv
  BY TypeInit, LayoutInit, OwnershipInit, LockInit, ProtectionInit DEF Inv
<1>2. Inv /\ [Next]_vars => Inv'
  BY TypeNext, LayoutNext, OwnershipNext, LockNext, ProtectionNext DEF Inv
<1> QED BY <1>1, <1>2, PTL DEF Spec

\* At any time at most one thread works on a region's vm_area, the one that
\* holds its lock.
THEOREM VmaExclusive == Spec => []Exclusive
<1>1. Inv => Exclusive
  BY LockExclusive DEF Inv
<1> QED BY Invariance, <1>1, PTL

\* The two orders in which OpenOOC takes a node's and the tree's lock never
\* meet.
THEOREM LocksAreOrdered == Spec => []NoLockCycle
<1>1. Inv => NoLockCycle
  BY LockOrder DEF Inv
<1> QED BY Invariance, <1>1, PTL

\* A vm_area stays in the tree, and mapped, while a thread works on it.
THEOREM FoundStaysLive == Spec => []FoundIsLive
<1>1. Inv => FoundIsLive
  <2> SUFFICES ASSUME Inv, NEW t \in Thread, pc[t] \in FoundPc
               PROVE  /\ vma[t] \in vma_tree
                      /\ addr[t] \in vm_start(vma[t]) .. vm_end[vma[t]] - 1
                      /\ mem[vma[t]] = "rw"
    BY DEF FoundIsLive
  <2>1. vma[t] \in vma_tree /\ vm_start(vma[t]) \in Nat /\ vm_end[vma[t]] \in Nat
    BY PageFacts
       DEF Inv, Ownership, UsePc, FreePc, FoundPc, TypeInv, TypeOK
  <2>2. addr[t] \in vm_start(vma[t]) .. vm_end[vma[t]] - 1
    BY <2>1 DEF Inv, Ownership, UsePc, FreePc, FoundPc
  <2> QED BY <2>1, <2>2 DEF Inv, Protection
<1> QED BY Invariance, <1>1, PTL

\* A writable data page belongs to a region marked as read and dirty.
THEOREM WrittenIsDirty == Spec => []DirtyCoversWritable
<1>1. Inv => DirtyCoversWritable
  BY DEF Inv, Protection
<1> QED BY Invariance, <1>1, PTL

\* No handler takes back what another has granted.
THEOREM GrantsStay == Spec => NoDowngrade
<1> DEFINE Keeps == \A p \in Page : mem[p] = "rw" => mem'[p] \in {"rw", "unmapped"}
<1>1. Inv /\ [Next]_vars => [Keeps]_vars
  <2> SUFFICES ASSUME Inv, NEW t \in Thread, Step(t) PROVE Keeps
    BY DEF Next
  <2>1. CASE UNCHANGED mem
    BY <2>1
  <2>2. CASE Mmap(t)
    BY <2>2 DEF Mmap, Protected
  <2>3. CASE SetupInfo(t) \/ Munmap(t)
    BY <2>3 DEF SetupInfo, Munmap, Unmap, Protected
  <2>4. CASE Protect(t)
    <3> DEFINE Q == PagesIn(PageAlign(addr[t], S_ps[t]), S_ps[t])
    <3>1. /\ pc[t] = "protect"
          /\ \A p \in Page : mem'[p] = IF p \in Q THEN prot[t] ELSE mem[p]
      BY <2>4 DEF Protect, Protected
    <3>2. Q \subseteq DataPages(vma[t])
      BY <3>1, GrantPage DEF Inv
    <3> HIDE DEF Q
    <3> QED BY <3>1, <3>2 DEF Inv, Protection, GrantIsSafe
  <2>5. CASE Client(t) \/ Locking(t) \/ Write(t) \/ Flags(t) \/ Unlock(t)
    BY <2>1, <2>5
       DEF Client, Locking, Write, Flags, Unlock, CallMalloc, CallFree, CallWrite, Sched,
           KernReturn, Finalize, Insert, Remove, Find, LockNode, memVars
  <2> QED BY <2>2, <2>3, <2>4, <2>5 DEF Step, Running
<1> QED BY Invariance, <1>1, PTL DEF NoDowngrade, Spec

-----------------------------------------------------------------------------
(* The assertions of sp_tree.c *)

\* Every region holds at least one byte.
NonEmpty ==
  /\ \A b \in vma_tree : vm_start(b) < vm_end[b]
  /\ \A t \in Thread : pc[t] \in MallocPc \cup {"mmap"} => size[t] > 0

LEMMA AssertNext ==
  ASSUME 0 \notin Sizes, Inv, NonEmpty, NoAbort, [Next]_vars
  PROVE  NonEmpty' /\ NoAbort'
<1> USE DEF Inv, TypeInv, TypeOK, memVars, lockVars, sigVars, clientVars, locals, Goto,
            NoAbort
<1>1. CASE UNCHANGED vars
  BY <1>1 DEF vars, NonEmpty, MallocPc
<1>2. ASSUME NEW t \in Thread, Step(t) PROVE NonEmpty' /\ NoAbort'
  <2>0. \A b \in vma_tree : b \in Page /\ vm_start(b) \in Nat /\ vm_end[b] \in Nat
    BY PageFacts
  <2>1. CASE CallMalloc(t)
    BY <2>1, SizesAssumption DEF CallMalloc, NonEmpty, MallocPc
  <2>2. CASE Mmap(t)
    BY <2>2 DEF Mmap, Return, NonEmpty, MallocPc
  <2>3. CASE SetupInfo(t) \/ Munmap(t)
    <3>1. \A b \in vma_tree : vm_end'[b] = vm_end[b]
      BY <2>3, ClaimFacts DEF SetupInfo, Munmap, Unmap, ClaimPc, MallocPc
    <3> QED BY <2>3, <3>1 DEF SetupInfo, Munmap, Unmap, Return, NonEmpty, MallocPc
  <2>4. CASE Insert(t)
    <3>1. pc[t] = "insert" /\ vma[t] \notin vma_tree /\ vma[t] \in Page
      BY <2>4, ClaimFacts DEF Insert, ClaimPc, MallocPc
    <3>2. vm_start(vma[t]) < vm_end[vma[t]]
      BY <3>1, PageFacts DEF Layout, NonEmpty, MallocPc
    <3> QED BY <2>4, <3>1, <3>2 DEF Insert, Return, NonEmpty, MallocPc
  <2>5. CASE Find(t, "find", "lock") \/ Find(t, "free_find", "free_lock")
    <3>1. PICK b \in vma_tree : vm_start(b) <= addr[t] /\ addr[t] < vm_end[b]
      <4>1. CASE pc[t] = "find"
        BY <2>0, <4>1 DEF Ownership, UsePc
      <4>2. CASE pc[t] = "free_find"
        BY <2>0, <4>2 DEF Ownership, FreePc, NonEmpty
      <4> QED BY <2>5, <4>1, <4>2 DEF Find
    <3>2. IsFound(addr[t], b)
      BY <3>1, FindUnique
    <3>3. NoAbort'
      BY <2>5, <3>1, <3>2 DEF Find
    <3> QED BY <2>5, <3>3 DEF Find, NonEmpty, MallocPc
  <2>6. CASE LockNode(t, "lock", "flags") \/ LockNode(t, "free_lock", "remove")
    BY <2>6 DEF LockNode, NonEmpty, MallocPc
  <2>7. CASE Remove(t)
    <3>1. vma[t] \in vma_tree
      BY <2>7 DEF Remove, Ownership, FreePc, FoundPc
    <3> QED BY <2>7, <3>1 DEF Remove, NonEmpty, MallocPc
  <2>8. CASE CallFree(t) \/ CallWrite(t)
    BY <2>8 DEF CallFree, CallWrite, NonEmpty, MallocPc
  <2>9. CASE Write(t) \/ Flags(t) \/ Protect(t) \/ Unlock(t)
    BY <2>9 DEF Write, Flags, Protect, Unlock, Return, NonEmpty, MallocPc
  <2>10. CASE Sched(t) \/ KernReturn(t) \/ Finalize(t)
    BY <2>10 DEF Sched, KernReturn, Finalize, NonEmpty, MallocPc
  <2> QED BY <1>2, <2>1, <2>2, <2>3, <2>4, <2>5, <2>6, <2>7, <2>8, <2>9, <2>10
          DEF Step, Client, Locking, Running
<1> QED BY <1>1, <1>2 DEF Next

\* In a program that never asks ooc_malloc for zero bytes, no assertion of
\* sp_tree.c fails.
THEOREM AssertionsHold == ASSUME 0 \notin Sizes PROVE Spec => []NoAbort
<1>1. Init => NonEmpty /\ NoAbort
  BY DEF Init, NonEmpty, NoAbort, MallocPc
<1>2. Inv /\ NonEmpty /\ NoAbort /\ [Next]_vars => (NonEmpty /\ NoAbort)'
  BY AssertNext
<1> QED BY Invariance, <1>1, <1>2, PTL DEF Spec

-----------------------------------------------------------------------------
(* Every mapped page is part of a region *)

\* A mapped page belongs to a region of the tree, or to one that a thread is
\* making or unmaking.
Covered ==
  \A p \in Page : mem[p] # "unmapped" =>
    \/ \E b \in vma_tree : p \in Span(b)
    \/ \E t \in Thread : pc[t] \in ClaimPc /\ p \in Claim(t)

\* Steps that map nothing and leave every region where it is.
LEMMA CoveredFrame ==
  ASSUME Covered, UNCHANGED <<vma_tree, vm_end>>,
         \A p \in Page : mem'[p] # "unmapped" => mem[p] # "unmapped",
         \A u \in Thread : pc[u] \in ClaimPc =>
           pc'[u] = pc[u] /\ vma'[u] = vma[u] /\ size'[u] = size[u]
  PROVE  Covered'
<1>1. \A b : Span(b)' = Span(b)
  BY DEF Span
<1>2. \A u \in Thread : pc[u] \in ClaimPc => pc'[u] \in ClaimPc /\ Claim(u)' = Claim(u)
  BY DEF Claim
<1> QED BY <1>1, <1>2 DEF Covered

\* A thread unmaps its own region: what stays mapped is in the others.
LEMMA CoveredUnmap ==
  ASSUME TypeInv, Layout, Covered, NEW t \in Thread, pc[t] \in ClaimPc,
         NEW n \in Nat, Claim(t) = Extent(vma[t], n), Unmap(vma[t], mmap_sz(n)),
         Return(t), UNCHANGED vma_tree
  PROVE  Covered'
<1>1. pc' = [pc EXCEPT ![t] = "idle"] /\ vma' = [vma EXCEPT ![t] = None]
      /\ size' = [size EXCEPT ![t] = 0] /\ vm_end' = [vm_end EXCEPT ![vma[t]] = 0]
  BY DEF Return, Goto, Unmap
<1>2. \A p \in Page : mem'[p] # "unmapped" => mem[p] # "unmapped" /\ p \notin Claim(t)
  BY DEF Unmap, Protected, Extent
<1>3. \A b \in vma_tree : Span(b)' = Span(b)
  BY <1>1, ClaimFacts DEF Span, TypeInv, TypeOK
<1>4. ASSUME NEW u \in Thread \ {t}, pc[u] \in ClaimPc
      PROVE  pc'[u] \in ClaimPc /\ Claim(u)' = Claim(u)
  <2>1. vma[u] # vma[t] /\ vma[u] \in Page
    BY <1>4, ClaimFacts
  <2>2. pc'[u] = pc[u] /\ vma'[u] = vma[u] /\ size'[u] = size[u]
        /\ vm_end'[vma[u]] = vm_end[vma[u]]
    BY <1>1, <2>1 DEF TypeInv, TypeOK
  <2> QED BY <1>4, <2>2 DEF Claim
<1> QED BY <1>2, <1>3, <1>4 DEF Covered

\* The handler's mprotect reaches mapped pages only.
LEMMA GrantedIsMapped ==
  ASSUME TypeInv, Layout, Ownership, NEW t \in Thread, pc[t] = "protect"
  PROVE  \A p \in PagesIn(PageAlign(addr[t], S_ps[t]), S_ps[t]) : mem[p] # "unmapped"
BY GrantPage, DataFacts DEF Layout

LEMMA CoveredInit == Init => Covered
BY DEF Init, Covered

LEMMA CoveredNext ==
  TypeInv /\ Layout /\ Ownership /\ Covered /\ [Next]_vars => Covered'
<1> SUFFICES ASSUME TypeInv, Layout, Ownership, Covered, [Next]_vars PROVE Covered'
  OBVIOUS
<1> USE DEF memVars, lockVars, sigVars, clientVars, locals, Goto
<1>1. CASE UNCHANGED vars
  BY <1>1, CoveredFrame DEF vars
<1>2. ASSUME NEW t \in Thread, Step(t) PROVE Covered'
  <2>1. CASE CallMalloc(t) \/ CallFree(t) \/ CallWrite(t)
    BY <2>1, CoveredFrame
       DEF CallMalloc, CallFree, CallWrite, ClaimPc, MallocPc, TypeInv, TypeOK
  <2>2. CASE Mmap(t)
    <3>1. CASE Return(t) /\ UNCHANGED mem
      BY <2>2, <3>1, CoveredFrame DEF Mmap, Return, ClaimPc, MallocPc, TypeInv, TypeOK
    <3>2. CASE ~(Return(t) /\ UNCHANGED mem)
      <4>1. PICK b \in Page :
              /\ mem' = Protected(b, mmap_sz(size[t]), "r")
              /\ vma' = [vma EXCEPT ![t] = b] /\ pc' = [pc EXCEPT ![t] = "info"]
              /\ UNCHANGED <<vma_tree, vm_end, size>> /\ pc[t] = "mmap"
        BY <2>2, <3>2 DEF Mmap
      <4>2. \A p \in Page : mem'[p] # "unmapped" =>
              mem[p] # "unmapped" \/ p \in Extent(b, size[t])
        BY <4>1 DEF Protected, Extent
      <4>3. Claim(t)' = Extent(b, size[t]) /\ pc'[t] = "info"
        BY <4>1 DEF Claim, TypeInv, TypeOK
      <4>4. \A u \in Thread \ {t} : pc'[u] = pc[u] /\ Claim(u)' = Claim(u)
        BY <4>1 DEF Claim, TypeInv, TypeOK
      <4>5. \A c : Span(c)' = Span(c)
        BY <4>1 DEF Span
      <4> QED BY <4>1, <4>2, <4>3, <4>4, <4>5 DEF Covered, ClaimPc, MallocPc
    <3> QED BY <3>1, <3>2
  <2>3. CASE SetupInfo(t)
    <3>1. pc[t] \in ClaimPc /\ size[t] \in Nat /\ Claim(t) = Extent(vma[t], size[t])
          /\ pc[t] = "info"
      BY <2>3 DEF SetupInfo, ClaimPc, MallocPc, Claim, TypeInv, TypeOK
    <3>2. CASE Unmap(vma[t], mmap_sz(size[t])) /\ Return(t)
      BY <2>3, <3>1, <3>2, CoveredUnmap DEF SetupInfo
    <3>3. CASE ~(Unmap(vma[t], mmap_sz(size[t])) /\ Return(t))
      <4>1. /\ mem' = Protected(vma[t], info_sz, "rw")
            /\ vm_end' = [vm_end EXCEPT ![vma[t]] = vm_start(vma[t]) + size[t]]
            /\ pc' = [pc EXCEPT ![t] = "insert"]
            /\ UNCHANGED <<vma_tree, vma, size>>
        BY <2>3, <3>3 DEF SetupInfo
      <4>2. PagesIn(vma[t], info_sz) \subseteq Claim(t)
        BY <3>1, DataFacts DEF MallocPc
      <4>3. \A p \in Page :
              mem'[p] # "unmapped" => mem[p] # "unmapped" \/ p \in Claim(t)
        BY <4>1, <4>2 DEF Protected
      <4>4. Claim(t)' = Claim(t) /\ pc'[t] = "insert"
        BY <3>1, <4>1 DEF Claim, TypeInv, TypeOK
      <4>5. ASSUME NEW u \in Thread \ {t}, pc[u] \in ClaimPc
            PROVE  pc'[u] = pc[u] /\ Claim(u)' = Claim(u)
        <5>1. vma[u] # vma[t] /\ vma[u] \in Page
          BY <3>1, <4>5, ClaimFacts
        <5> QED BY <4>1, <5>1 DEF Claim, TypeInv, TypeOK
      <4>6. \A b \in vma_tree : Span(b)' = Span(b)
        BY <4>1, <3>1, ClaimFacts DEF Span, TypeInv, TypeOK
      <4> QED BY <3>1, <4>1, <4>3, <4>4, <4>5, <4>6 DEF Covered, ClaimPc, MallocPc
    <3> QED BY <3>2, <3>3
  <2>4. CASE Insert(t)
    <3>1. CASE vma[t] \in vma_tree
      BY <2>4, <3>1, CoveredFrame DEF Insert
    <3>2. CASE vma[t] \notin vma_tree
      <4>1. /\ vma_tree' = vma_tree \cup {vma[t]} /\ pc[t] = "insert"
            /\ \A u \in Thread \ {t} : pc'[u] = pc[u] /\ vma'[u] = vma[u]
                                       /\ size'[u] = size[u]
            /\ UNCHANGED <<mem, vm_end>>
        BY <2>4, <3>2 DEF Insert, Return, TypeInv, TypeOK
      <4>2. Span(vma[t]) = Claim(t)
        <5>1. vm_end[vma[t]] - vm_start(vma[t]) = size[t]
          BY <4>1, PageFacts DEF Layout, MallocPc, WorkPc, TypeInv, TypeOK
        <5> QED BY <4>1, <5>1 DEF Span, Claim
      <4>3. \A b : Span(b)' = Span(b)
        BY <4>1 DEF Span
      <4>4. \A u \in Thread \ {t} : Claim(u)' = Claim(u)
        BY <4>1 DEF Claim
      <4> QED BY <4>1, <4>2, <4>3, <4>4 DEF Covered
    <3> QED BY <3>1, <3>2
  <2>5. CASE Find(t, "find", "lock") \/ Find(t, "free_find", "free_lock")
    BY <2>5, CoveredFrame DEF Find, ClaimPc, MallocPc, TypeInv, TypeOK
  <2>6. CASE LockNode(t, "lock", "flags") \/ LockNode(t, "free_lock", "remove")
    BY <2>6, CoveredFrame DEF LockNode, ClaimPc, MallocPc, TypeInv, TypeOK
  <2>7. CASE Remove(t)
    <3>1. CASE vma[t] \notin vma_tree
      BY <2>7, <3>1, CoveredFrame DEF Remove
    <3>2. CASE vma[t] \in vma_tree
      <4>1. /\ vma_tree' = vma_tree \ {vma[t]} /\ pc[t] = "remove"
            /\ pc' = [pc EXCEPT ![t] = "munmap"]
            /\ UNCHANGED <<mem, vm_end, vma, size>>
        BY <2>7, <3>2 DEF Remove
      <4>2. pc'[t] = "munmap" /\ Claim(t)' = Span(vma[t])
        BY <4>1 DEF Span, Claim, TypeInv, TypeOK
      <4>3. \A b : Span(b)' = Span(b)
        BY <4>1 DEF Span
      <4>4. \A u \in Thread \ {t} : pc'[u] = pc[u] /\ Claim(u)' = Claim(u)
        BY <4>1 DEF Claim, TypeInv, TypeOK
      <4> QED BY <4>1, <4>2, <4>3, <4>4 DEF Covered, ClaimPc, MallocPc
    <3> QED BY <3>1, <3>2
  <2>8. CASE Munmap(t)
    <3>1. pc[t] = "munmap"
      BY <2>8 DEF Munmap
    <3> DEFINE n == vm_end[vma[t]] - vm_start(vma[t])
    <3>2. n \in Nat /\ Claim(t) = Extent(vma[t], n)
      BY <3>1 DEF Claim, Layout
    <3> QED BY <2>8, <3>1, <3>2, CoveredUnmap DEF Munmap, ClaimPc
  <2>9. CASE Write(t) \/ Flags(t) \/ Unlock(t)
    BY <2>9, CoveredFrame
       DEF Write, Flags, Unlock, Return, ClaimPc, MallocPc, TypeInv, TypeOK
  <2>10. CASE Protect(t)
    <3>1. \A p \in Page : mem'[p] # "unmapped" => mem[p] # "unmapped"
      BY <2>10, GrantedIsMapped DEF Protect, Protected
    <3> QED BY <2>10, <3>1, CoveredFrame
            DEF Protect, ClaimPc, MallocPc, TypeInv, TypeOK
  <2>11. CASE Sched(t) \/ KernReturn(t) \/ Finalize(t)
    BY <2>11, CoveredFrame DEF Sched, KernReturn, Finalize
  <2> QED BY <1>2, <2>1, <2>2, <2>3, <2>4, <2>5, <2>6, <2>7, <2>8, <2>9, <2>10,
             <2>11
          DEF Step, Client, Locking, Running
<1> QED BY <1>1, <1>2 DEF Next

\* The mapped pages are, at any time and for any memory and sizes, those of the
\* regions in the tree and of the calls of ooc_malloc and ooc_free in progress;
\* mmap, the error path of ooc_malloc and ooc_free's munmap lose none.
THEOREM PagesAreAccounted == Spec => []PagesAccounted
<1>1. Init => Inv /\ Covered
  BY CoveredInit, TypeInit, LayoutInit, OwnershipInit, LockInit, ProtectionInit DEF Inv
<1>2. Inv /\ Covered /\ [Next]_vars => Covered'
  BY CoveredNext DEF Inv
<1>3. Inv /\ Covered => PagesAccounted
  <2> SUFFICES ASSUME Inv, Covered PROVE PagesAccounted
    OBVIOUS
  <2> DEFINE Mapped == {p \in Page : mem[p] # "unmapped"}
             InTree == UNION {Span(b) : b \in vma_tree}
             Making == UNION {Extent(vma[t], size[t]) :
                                t \in {u \in Thread : pc[u] \in MallocPc}}
             Undone == UNION {Span(vma[t]) : t \in {u \in Thread : pc[u] = "munmap"}}
  <2>1. \A t \in Thread :
          /\ pc[t] \in MallocPc => Claim(t) = Extent(vma[t], size[t])
          /\ pc[t] = "munmap" => Claim(t) = Span(vma[t])
    BY DEF Claim, Span, MallocPc
  <2>2. /\ \A b : Span(b) \subseteq Page
        /\ \A t : Claim(t) \subseteq Page
    BY ExtentPages DEF Span, Claim
  <2>3. Mapped \subseteq InTree \cup Making \cup Undone
    BY <2>1 DEF Covered, ClaimPc
  <2>4. InTree \subseteq Mapped
    BY <2>2 DEF Inv, Layout
  <2>5. Making \subseteq Mapped /\ Undone \subseteq Mapped
    BY <2>1, <2>2 DEF Inv, Layout, ClaimPc
  <2>6. Mapped = InTree \cup Making \cup Undone
    BY <2>3, <2>4, <2>5
  <2>7. \A b, c \in vma_tree : b # c => Span(b) \cap Span(c) = {}
    BY DEF Inv, Layout
  <2> QED BY <2>6, <2>7 DEF PagesAccounted, Span
<1> QED BY Invariance, <1>1, <1>2, <1>3, PTL DEF Spec

-----------------------------------------------------------------------------
(* The page the handler changes is that of the offending address *)

Top == NumPages * PageSize

\* No region reaches beyond the memory.
Fits ==
  /\ \A b \in Page : vm_end[b] <= Top
  /\ \A t \in Thread : pc[t] = "info" => vma[t] + mmap_sz(size[t]) <= Top

\* A thread that has initialised the library, or is in a kernel, knows the page
\* size; and only kernels use out-of-core memory.
Prepared ==
  \A t \in Thread :
    /\ S_is_init[t] \/ inKern[t] => S_ps[t] = PageSize
    /\ pc[t] \in UsePc => inKern[t]

LEMMA TopFacts == Top \in Nat
BY MemoryAssumption, PageSizeAssumption DEF Top

LEMMA FitsInit == Init => Fits
BY TopFacts DEF Init, Fits

LEMMA FitsNext == TypeInv /\ Fits /\ [Next]_vars => Fits'
<1> SUFFICES ASSUME TypeInv, Fits, [Next]_vars PROVE Fits'
  OBVIOUS
<1> USE TopFacts
    DEF memVars, lockVars, sigVars, clientVars, locals, Goto, TypeInv, TypeOK, Fits
<1>1. CASE UNCHANGED vars
  BY <1>1 DEF vars
<1>2. ASSUME NEW t \in Thread, Step(t) PROVE Fits'
  <2>1. CASE Mmap(t)
    BY <2>1 DEF Mmap, Return, Top
  <2>2. CASE SetupInfo(t)
    <3>1. /\ vma[t] \in Page /\ size[t] \in Nat /\ vma[t] \in Nat
          /\ vma[t] + mmap_sz(size[t]) <= Top
      BY <2>2, PageFacts DEF SetupInfo, WorkPc, MallocPc
    <3>2. vm_start(vma[t]) + size[t] <= Top
      BY <3>1, SegmentFacts DEF vm_start
    <3> QED BY <2>2, <3>1, <3>2 DEF SetupInfo, Unmap, Return
  <2>3. CASE Munmap(t)
    BY <2>3 DEF Munmap, Unmap, Return
  <2>4. CASE Client(t)
    BY <2>4
       DEF Client, CallMalloc, CallFree, CallWrite, Sched, KernReturn, Finalize
  <2>5. CASE Locking(t)
    BY <2>5 DEF Locking, Insert, Remove, Find, LockNode, Return
  <2>6. CASE Write(t) \/ Flags(t) \/ Protect(t) \/ Unlock(t)
    BY <2>6 DEF Write, Flags, Protect, Unlock, Return
  <2> QED BY <1>2, <2>1, <2>2, <2>3, <2>4, <2>5, <2>6 DEF Step, Running
<1> QED BY <1>1, <1>2 DEF Next

LEMMA PreparedInit == Init => Prepared
BY DEF Init, Prepared, UsePc

LEMMA PreparedNext ==
  ASSUME StrayWriter = {}, TypeInv, Prepared, [Next]_vars
  PROVE  Prepared'
<1> USE DEF memVars, lockVars, sigVars, clientVars, locals, Goto, TypeInv, TypeOK,
            Prepared, UsePc
<1>1. CASE UNCHANGED vars
  BY <1>1 DEF vars
<1>2. ASSUME NEW t \in Thread, Step(t) PROVE Prepared'
  <2>1. CASE CallMalloc(t) \/ CallFree(t) \/ CallWrite(t)
    BY <2>1 DEF CallMalloc, CallFree, CallWrite
  <2>2. CASE Sched(t)
    BY <2>2 DEF Sched, S_init
  <2>3. CASE KernReturn(t) \/ Finalize(t)
    BY <2>3 DEF KernReturn, Finalize
  <2>4. CASE Locking(t)
    BY <2>4 DEF Locking, Insert, Remove, Find, LockNode, Return
  <2>5. CASE Running(t)
    BY <2>5 DEF Running, Mmap, SetupInfo, Munmap, Write, Flags, Protect, Unlock, Return
  <2> QED BY <1>2, <2>1, <2>2, <2>3, <2>4, <2>5 DEF Step, Client
<1> QED BY <1>1, <1>2 DEF Next

\* The page of the address a handler works for is a data page of the region
\* whose node it has locked.
LEMMA OffenderPage ==
  ASSUME TypeInv, Ownership, Fits, NEW t \in Thread, pc[t] \in {"protect", "unlock"}
  PROVE  PageOf(addr[t]) \in DataPages(vma[t]) /\ vma[t] \in vma_tree
<1> DEFINE a == addr[t]
           b == vma[t]
           q == PageOf(a)
<1>1. /\ b \in vma_tree /\ b \in Page /\ vm_end[b] \in Nat /\ vm_end[b] <= Top
      /\ a \in vm_start(b) .. vm_end[b] - 1
  BY DEF Ownership, UsePc, FoundPc, TypeInv, TypeOK, Fits
<1>2. /\ b \in Nat /\ b % PageSize = 0 /\ vm_start(b) \in Nat
      /\ vm_start(b) % PageSize = 0 /\ a \in Nat
  BY <1>1, PageFacts, SegmentFacts, AlignedSum DEF vm_start
<1>3. q \in Nat /\ q % PageSize = 0 /\ q <= a /\ a < q + PageSize
  BY <1>2, PageOfFacts
<1> HIDE DEF a, b, q
<1>4. vm_start(b) <= q
  <2>1. CASE q < vm_start(b)
    BY <1>1, <1>2, <1>3, <2>1, NextBoundary, PageSizeAssumption
  <2> QED BY <1>2, <1>3, <2>1
<1>5. q \in Page
  BY <1>1, <1>2, <1>3, TopFacts DEF Page, Address, Top
<1>6. q < vm_start(b) + (vm_end[b] - vm_start(b))
  BY <1>1, <1>2, <1>3, <1>4
<1>7. q \in DataPages(b)
  BY <1>4, <1>5, <1>6 DEF DataPages, PagesIn
<1> QED BY <1>1, <1>7 DEF a, b, q

\* What one thread has granted, the step of another leaves alone.
LEMMA GrantKept ==
  ASSUME Inv, NEW t \in Thread, Step(t), NEW u \in Thread \ {t}, pc[u] = "unlock",
         NEW q \in DataPages(vma[u]), vma[u] \in vma_tree
  PROVE  mem'[q] = mem[q]
<1>1. q \in Page /\ q \in Span(vma[u]) /\ mem[q] # "unmapped"
  BY DataFacts DEF Inv, Layout, DataPages, PagesIn
<1>2. CASE Mmap(t)
  BY <1>1, <1>2 DEF Mmap, Protected
<1>3. CASE SetupInfo(t)
  <2>1. /\ pc[t] \in MallocPc /\ q \notin Claim(t)
        /\ Claim(t) = PagesIn(vma[t], mmap_sz(size[t]))
    BY <1>1, <1>3 DEF SetupInfo, MallocPc, ClaimPc, Claim, Extent, Inv, Layout
  <2>2. q \notin PagesIn(vma[t], info_sz)
    BY <2>1, DataFacts DEF Inv
  <2> QED BY <1>1, <1>3, <2>1, <2>2 DEF SetupInfo, Unmap, Protected
<1>4. CASE Munmap(t)
  <2>1. /\ pc[t] = "munmap" /\ q \notin Claim(t)
        /\ Claim(t) = PagesIn(vma[t], mmap_sz(vm_end[vma[t]] - vm_start(vma[t])))
    BY <1>1, <1>4 DEF Munmap, ClaimPc, Claim, Extent, Inv, Layout
  <2> QED BY <1>1, <1>4, <2>1 DEF Munmap, Unmap, Protected
<1>5. CASE Protect(t)
  <2> DEFINE Q == PagesIn(PageAlign(addr[t], S_ps[t]), S_ps[t])
  <2>1. pc[t] = "protect" /\ mem'[q] = IF q \in Q THEN prot[t] ELSE mem[q]
    BY <1>1, <1>5 DEF Protect, Protected
  <2>2. vma[t] # vma[u]
    BY <2>1, LockExclusive DEF Inv, Exclusive, HeldPc
  <2>3. q \notin Q
    <3> SUFFICES ASSUME q \in Q PROVE FALSE
      OBVIOUS
    <3>1. q \in Span(vma[t]) /\ vma[t] \in vma_tree
      BY <2>1, GrantPage, DataFacts DEF Inv
    <3> QED BY <1>1, <2>2, <3>1 DEF Inv, Layout
  <2> HIDE DEF Q
  <2> QED BY <2>1, <2>3
<1>6. CASE Client(t) \/ Locking(t) \/ Write(t) \/ Flags(t) \/ Unlock(t)
  BY <1>6
     DEF Client, Locking, Write, Flags, Unlock, CallMalloc, CallFree, CallWrite, Sched,
         KernReturn, Finalize, Insert, Remove, Find, LockNode, memVars
<1> QED BY <1>2, <1>3, <1>4, <1>5, <1>6 DEF Step, Running

LEMMA GrantNext ==
  ASSUME Inv, Fits, Prepared, GrantApplied, [Next]_vars
  PROVE  GrantApplied'
<1>1. CASE UNCHANGED vars
  BY <1>1 DEF vars, memVars, locals, GrantApplied
<1>2. ASSUME NEW t \in Thread, Step(t), NEW u \in Thread, pc'[u] = "unlock"
      PROVE  mem'[PageOf(addr'[u])] = prot'[u]
  <2>1. CASE Protect(t) /\ u = t
    <3>1. /\ pc[t] = "protect" /\ addr' = addr /\ prot' = prot /\ addr[t] \in Nat
          /\ mem' = Protected(PageAlign(addr[t], S_ps[t]), S_ps[t], prot[t])
      BY <2>1 DEF Protect, locals, Inv, TypeInv, TypeOK
    <3>2. S_ps[t] = PageSize
      BY <3>1 DEF Prepared, UsePc
    <3>3. PageOf(addr[t]) \in Page
      BY <3>1, OffenderPage DEF Inv, DataPages, PagesIn
    <3>4. PageOf(addr[t]) \in PagesIn(PageAlign(addr[t], PageSize), PageSize)
      <4>1. PageAlign(addr[t], PageSize) = PageOf(addr[t]) /\ PageOf(addr[t]) \in Nat
        BY <3>1, PageOfFacts
      <4> QED BY <3>3, <4>1, PageSizeAssumption DEF PagesIn
    <3> QED BY <2>1, <3>1, <3>2, <3>3, <3>4 DEF Protected
  <2>2. CASE ~(Protect(t) /\ u = t)
    <3>1. pc[u] = "unlock" /\ u # t /\ addr'[u] = addr[u] /\ prot'[u] = prot[u]
      <4> USE DEF Inv, TypeInv, TypeOK, Goto, locals
      <4>1. CASE Client(t)
        BY <1>2, <4>1
           DEF Client, CallMalloc, CallFree, CallWrite, Sched, KernReturn, Finalize
      <4>2. CASE Locking(t)
        BY <1>2, <4>2 DEF Locking, Insert, Remove, Find, LockNode, Return
      <4>3. CASE Running(t)
        BY <1>2, <2>2, <4>3
           DEF Running, Mmap, SetupInfo, Munmap, Write, Flags, Protect, Unlock, Return
      <4> QED BY <1>2, <4>1, <4>2, <4>3 DEF Step
    <3>2. PageOf(addr[u]) \in DataPages(vma[u]) /\ vma[u] \in vma_tree
      BY <3>1, OffenderPage DEF Inv
    <3>3. mem'[PageOf(addr[u])] = mem[PageOf(addr[u])]
      BY <1>2, <3>1, <3>2, GrantKept
    <3> QED BY <3>1, <3>3 DEF GrantApplied
  <2> QED BY <2>1, <2>2
<1> QED BY <1>1, <1>2 DEF Next, GrantApplied

\* If only kernels use out-of-core memory, then between a handler's mprotect
\* and its unlock the page of the offending address has the access decided on,
\* whatever the other threads do meanwhile (S_sigsegv_handler, sched.c).
THEOREM GrantsAreApplied == ASSUME StrayWriter = {} PROVE Spec => []GrantApplied
<1>1. Init => Fits /\ Prepared /\ GrantApplied
  BY FitsInit, PreparedInit DEF Init, GrantApplied
<1>2. Inv /\ Fits /\ Prepared /\ GrantApplied /\ [Next]_vars
        => (Fits /\ Prepared /\ GrantApplied)'
  BY FitsNext, PreparedNext, GrantNext DEF Inv
<1> QED BY Invariance, <1>1, <1>2, PTL DEF Spec
=============================================================================
