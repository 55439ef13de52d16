-------------------------------- MODULE Micro --------------------------------
(***************************************************************************)
(* The page-fault benchmark: src/bench/micro.c with one of its two kinds   *)
(* of memory, impl/libc.c or impl/sbma.c, and with impl/io.c.  sbma takes  *)
(* the access to its pages away and gives it back in a SIGSEGV handler.    *)
(* The macros of impl.h select one of many programs, a build; the model is *)
(* of all that compile.  A step is a statement of main, one iteration of a *)
(* loop, or the handling of one fault.                                     *)
(***************************************************************************)
EXTENDS Integers, Sequences, FiniteSets

CONSTANTS
  NumPages,   \* NUM_PAG
  PerPage,    \* elements to a page, that is in _siz_pag bytes
  SysPage,    \* elements to a page of the system, of which --sys make a page
  MaxFaults,  \* the bound of the counter of faults, at which it stays
  None        \* no file

ASSUME MicroAssumption ==
  /\ NumPages \in Nat \ {0} /\ PerPage \in Nat \ {0}
  /\ SysPage \in Nat \ {0} /\ PerPage % SysPage = 0
  /\ NumPages * PerPage > 1
  /\ MaxFaults \in Nat

VARIABLES
  build,      \* the macros defined, and how += is compiled
  rnum,       \* the random array
  left,       \* whether there is a file left of an earlier run
  base,       \* the array's first element, counted from a multiple of _siz_pag
  pc,         \* the position in Program
  i,          \* the loop's counter
  prot,       \* the access to each page: "none", "read", "write" (and read)
  pflags,     \* _pflags, the flags of each page
  addr,       \* the elements of the array
  file,       \* the elements in the file, or None
  faults,     \* _faults
  aborted     \* whether an assertion has failed

conf == <<build, rnum, left, base>>
memory == <<prot, pflags, addr, faults>>
vars == <<conf, pc, i, memory, file, aborted>>

Elem == 0 .. NumPages * PerPage - 1
Page == 0 .. NumPages - 1
PageOf(e) == e \div PerPage

\* There is a file when file is an array.
ASSUME NoneAssumption == None \notin [Elem -> Nat]

\* The flags of a page
SYNC == "SYNC"
DIRTY == "DIRTY"
ONDISK == "ONDISK"

\* What impl.h makes of the macros.  A build that refers to io_flush without
\* USE_LOAD does not link.  RMW is a choice of the compiler: whether += faults
\* as a write at once or first as a read; it matters with USE_CTX only.
Build ==
  {b \in [SBMA : BOOLEAN, LOAD : BOOLEAN, LAZY : BOOLEAN, GHOST : BOOLEAN,
          CTX : BOOLEAN, RAND : BOOLEAN, RD : BOOLEAN, WR : BOOLEAN,
          RW : BOOLEAN, RMW : BOOLEAN] :
     /\ b.CTX => b.SBMA /\ b.LOAD
     /\ b.GHOST \/ b.RD \/ b.WR => b.LOAD
     /\ b.RMW => b.CTX}

\* The shuffle never moves the last element.
Shuffles ==
  {r \in [Elem -> Elem] :
     /\ \A e, f \in Elem : r[e] = r[f] => e = f
     /\ r[NumPages * PerPage - 1] = NumPages * PerPage - 1}

\* mmap aligns the array to pages of the system only.
Bases == {b \in 0 .. PerPage - 1 : b % SysPage = 0}

\* The parts of main that the build has.  "drop" is io_flush.
Program ==
  <<"flush", "write", "verify", "flush">>
  \o (IF build.WR THEN <<"flush", "write", "verify">> ELSE <<>>)
  \o (IF build.LOAD THEN <<"save", "clear", "ondisk">> ELSE <<>>)
  \o (IF build.WR \/ build.LOAD THEN <<"flush", "drop">> ELSE <<>>)
  \o (IF build.RD THEN <<"fetch", "read", "flush", "drop">> ELSE <<>>)
  \o (IF build.RW THEN <<"fetch", "update", "revert">> ELSE <<>>)
  \o <<"destroy">>

Done == pc > Len(Program)
At(part) == ~Done /\ ~aborted /\ Program[pc] = part

\* The element the n-th iteration is about
Nth(n) == IF build.RAND THEN rnum[n] ELSE n

Init ==
  /\ build \in Build
  /\ rnum \in Shuffles
  /\ base \in Bases
  /\ pc = 1
  /\ i = 0
  /\ prot = [p \in Page |-> IF build.SBMA THEN "none" ELSE "write"]
  /\ pflags = [p \in Page |-> {}]
  /\ addr = [e \in Elem |-> 0]
  /\ left \in BOOLEAN
  /\ file = IF left THEN [e \in Elem |-> 0] ELSE None
  /\ faults = 0
  /\ aborted = FALSE

Abort == aborted' = TRUE /\ UNCHANGED <<conf, pc, i, memory, file>>

\* On to the next part of main, or to the loop's next iteration.
NextPart == pc' = pc + 1 /\ i' = 0

\* Mutant: one iteration too many.
IterateLong ==
  IF i \in Elem THEN i' = i + 1 /\ UNCHANGED pc ELSE NextPart

Iterate ==
  IF i + 1 \in Elem THEN i' = i + 1 /\ UNCHANGED pc ELSE NextPart

-----------------------------------------------------------------------------
(* impl/io.c                                                               *)

\* Mutant: io_read keeps the size for the mprotect after its loop.
AfterReadSized == "read"

\* The access to pages io_read has read.  It asked for "write", and its loop
\* counted size down to 0: the mprotect to PROT_READ that follows is of 0 bytes.
AfterRead == "write"

\* io_read succeeds: the file is there, and no mremap of 0 bytes follows.
CanRead == file # None /\ ~build.GHOST

\* The array after the pages P are read
Loaded(P) == [e \in Elem |-> IF PageOf(e) \in P THEN file[e] ELSE addr[e]]

\* Mutant: a page without access is written all the same.
IoWriteAny ==
  /\ At("save")
  /\ IF file # None THEN Abort
     ELSE file' = addr /\ NextPart /\ UNCHANGED <<conf, memory, aborted>>

\* io_write: the file must not exist, and every page must be readable.
IoWrite ==
  /\ At("save")
  /\ IF file # None \/ \E p \in Page : prot[p] = "none" THEN Abort
     ELSE file' = addr /\ NextPart /\ UNCHANGED <<conf, memory, aborted>>

\* io_flush
IoFlush ==
  /\ At("drop")
  /\ IF file = None THEN Abort
     ELSE NextPart /\ UNCHANGED <<conf, memory, file, aborted>>

-----------------------------------------------------------------------------
(* impl/sbma.c: the handler                                                *)

\* What a fault on page p is taken for: by the processor's error code, or by
\* the page's flags.
FaultType(p, kind) ==
  IF build.CTX THEN IF kind = "write" THEN DIRTY ELSE SYNC
  ELSE IF SYNC \notin pflags[p] THEN SYNC ELSE DIRTY

\* The pages a sync of page p is to make accessible
SyncPages(p) == IF build.LAZY THEN {p} ELSE Page

\* A page that is on disk is read, flags unchanged.
SyncOnDisk(p) ==
  IF CanRead
    THEN /\ addr' = Loaded(SyncPages(p))
         /\ prot' = [q \in Page |-> IF q \in SyncPages(p) THEN AfterRead ELSE prot[q]]
         /\ UNCHANGED <<pflags, aborted>>
    ELSE aborted' = TRUE /\ UNCHANGED <<addr, prot, pflags>>

\* Mutant: the pages are not marked.
SyncNewUnmarked(p) ==
  IF build.LAZY \/ p = 0
    THEN /\ prot' = [q \in Page |-> IF q \in SyncPages(p) THEN "read" ELSE prot[q]]
         /\ UNCHANGED <<addr, pflags, aborted>>
    ELSE aborted' = TRUE /\ UNCHANGED <<addr, prot, pflags>>

\* Another becomes readable.  Without USE_LAZY _num_mem bytes from p on are to
\* be: beyond the array if p is not its first page, which either fails or takes
\* write access from whatever is mapped there, _pflags first.
SyncNew(p) ==
  IF build.LAZY \/ p = 0
    THEN /\ prot' = [q \in Page |-> IF q \in SyncPages(p) THEN "read" ELSE prot[q]]
         /\ pflags' = [q \in Page |-> IF q \in SyncPages(p) THEN {SYNC} ELSE pflags[q]]
         /\ UNCHANGED <<addr, aborted>>
    ELSE aborted' = TRUE /\ UNCHANGED <<addr, prot, pflags>>

\* Mutant: the page stays marked as in sync.
MakeDirtySynced(p) ==
  /\ prot' = [prot EXCEPT ![p] = "write"]
  /\ UNCHANGED <<addr, pflags, aborted>>

MakeDirty(p) ==
  /\ prot' = [prot EXCEPT ![p] = "write"]
  /\ pflags' = [pflags EXCEPT ![p] = {DIRTY}]
  /\ UNCHANGED <<addr, aborted>>

\* sbma_segvhandler; its assertion on the other branch holds by the choice made.
SegvHandler(p, kind) ==
  /\ IF FaultType(p, kind) = DIRTY THEN MakeDirty(p)
     ELSE IF pflags[p] \cap {SYNC, DIRTY} # {}
            THEN aborted' = TRUE /\ UNCHANGED <<addr, prot, pflags>>
     ELSE IF ONDISK \in pflags[p] THEN SyncOnDisk(p)
     ELSE SyncNew(p)
  /\ faults' = IF aborted' \/ faults = MaxFaults THEN faults ELSE faults + 1

-----------------------------------------------------------------------------
(* The accesses main makes to the array in an iteration, in their order.   *)

Access(e, kind) == [elem |-> e, kind |-> kind]

Before(n) == IF n = 0 THEN <<>> ELSE <<Access(Nth(n - 1), "read")>>

Accesses ==
  IF Done THEN <<>> ELSE
  CASE Program[pc] = "write" ->
         Append(Before(i), Access(Nth(i), "write"))
    [] Program[pc] \in {"verify", "read"} ->
         Append(Before(i), Access(Nth(i), "read"))
    [] Program[pc] = "clear" -> <<Access(i, "write")>>
    [] Program[pc] = "update" ->
         Before(i)
         \o (IF build.RMW THEN <<>> ELSE <<Access(Nth(i), "read")>>)
         \o <<Access(Nth(i), "write")>>
    [] Program[pc] = "revert" ->
         IF i = 0 THEN <<>>
         ELSE Before(i) \o <<Access(Nth(i), "write")>>
                \o Before(i - 1) \o <<Access(Nth(i - 1), "write")>>
    [] OTHER -> <<>>

Allowed(a) ==
  LET p == prot[PageOf(a.elem)]
  IN  IF a.kind = "write" THEN p = "write" ELSE p # "none"

\* The first access that is not allowed faults; it is tried again afterwards.
\* (So are those before it: they read the same, as the handler changes no
\* element of a page that was accessible.)
Fault ==
  /\ ~aborted
  /\ \E n \in DOMAIN Accesses :
       /\ ~Allowed(Accesses[n])
       /\ \A m \in 1 .. n - 1 : Allowed(Accesses[m])
       /\ SegvHandler(PageOf(Accesses[n].elem), Accesses[n].kind)
  /\ UNCHANGED <<conf, pc, i, file>>

\* All accesses of the iteration are allowed.
Runs == \A n \in DOMAIN Accesses : Allowed(Accesses[n])

-----------------------------------------------------------------------------
(* impl_flush, impl_ondisk, impl_fetch_bulk, impl_fetch_page, impl_destroy *)

\* Mutant: the flags of the pages stay.
FlushFlagged ==
  /\ At("flush")
  /\ addr' = IF build.LOAD THEN [e \in Elem |-> 0] ELSE addr
  /\ prot' = IF build.SBMA THEN [p \in Page |-> "none"] ELSE prot
  /\ faults' = 0
  /\ NextPart
  /\ UNCHANGED <<conf, pflags, file, aborted>>

\* impl_flush: with USE_LOAD the array is cleared, so that it must be read from
\* the file; sbma takes the access away and forgets the flags but ONDISK.
Flush ==
  /\ At("flush")
  /\ addr' = IF build.LOAD THEN [e \in Elem |-> 0] ELSE addr
  /\ prot' = IF build.SBMA THEN [p \in Page |-> "none"] ELSE prot
  /\ pflags' = [p \in Page |-> pflags[p] \cap {ONDISK}]
  /\ faults' = 0
  /\ NextPart
  /\ UNCHANGED <<conf, file, aborted>>

OnDisk ==
  /\ At("ondisk")
  /\ pflags' = IF build.SBMA THEN [p \in Page |-> {ONDISK}] ELSE pflags
  /\ NextPart
  /\ UNCHANGED <<conf, prot, addr, faults, file, aborted>>

\* libc reads the whole file at once,
FetchBulk ==
  /\ At("fetch")
  /\ IF build.SBMA \/ ~build.LOAD \/ build.LAZY THEN
       NextPart /\ UNCHANGED <<conf, memory, file, aborted>>
     ELSE IF ~CanRead THEN Abort
     ELSE /\ addr' = Loaded(Page)
          /\ NextPart
          /\ UNCHANGED <<conf, prot, pflags, faults, file, aborted>>

\* or a page's length when an element is asked for whose address is a multiple
\* of that.  (The code masks the address: --sys is a power of two.)
FetchesPage(e) ==
  ~build.SBMA /\ build.LOAD /\ build.LAZY /\ (base + e) % PerPage = 0

\* The array after impl_fetch_page for element e, if that does not fail
FetchPage(e) ==
  IF FetchesPage(e)
    THEN [f \in Elem |-> IF f \in e .. e + PerPage - 1 THEN file[f] ELSE addr[f]]
    ELSE addr

\* What impl_fetch_page wants for element e reaches beyond the file.
PastEnd(e) == FetchesPage(e) /\ file # None /\ e + PerPage - 1 \notin Elem

\* There read returns 0, and io_read's loop never has the bytes it waits for.
Spin ==
  /\ At("read") \/ At("update")
  /\ PastEnd(Nth(i))
  /\ addr' = IF build.GHOST THEN addr ELSE FetchPage(Nth(i))
  /\ UNCHANGED <<conf, pc, i, prot, pflags, faults, file, aborted>>

Destroy ==
  /\ At("destroy")
  /\ file' = IF build.LOAD THEN None ELSE file
  /\ NextPart
  /\ UNCHANGED <<conf, memory, aborted>>

-----------------------------------------------------------------------------
(* The loops of micro.c                                                    *)

\* addr[jj], or nothing in the first iteration
Preceding(a, n) == IF n = 0 THEN 0 ELSE a[Nth(n - 1)]

\* "Populate array", "WRITE (init)"
Write ==
  /\ At("write")
  /\ Runs
  /\ addr' = [addr EXCEPT ![Nth(i)] = Preceding(addr, i) + rnum[Nth(i)]]
  /\ Iterate
  /\ UNCHANGED <<conf, prot, pflags, faults, file, aborted>>

\* The assertions after each of these
Verify ==
  /\ At("verify")
  /\ Runs
  /\ IF addr[Nth(i)] = Preceding(addr, i) + rnum[Nth(i)]
       THEN Iterate /\ UNCHANGED <<conf, memory, file, aborted>>
       ELSE Abort

\* memset(addr, 0, NUM_MEM)
Clear ==
  /\ At("clear")
  /\ Runs
  /\ addr' = [addr EXCEPT ![i] = 0]
  /\ Iterate
  /\ UNCHANGED <<conf, prot, pflags, faults, file, aborted>>

\* "READ"
Read ==
  /\ At("read")
  /\ Runs
  /\ ~PastEnd(Nth(i))
  /\ LET a == FetchPage(Nth(i))
     IN  IF FetchesPage(Nth(i)) /\ ~CanRead THEN Abort
         ELSE IF a[Nth(i)] # Preceding(a, i) + rnum[Nth(i)] THEN Abort
         ELSE addr' = a /\ Iterate /\ UNCHANGED <<conf, prot, pflags, faults, file, aborted>>

\* "READ/WRITE"
Update ==
  /\ At("update")
  /\ Runs
  /\ ~PastEnd(Nth(i))
  /\ LET a == FetchPage(Nth(i))
     IN  IF FetchesPage(Nth(i)) /\ ~CanRead THEN Abort
         ELSE /\ addr' = [a EXCEPT ![Nth(i)] = @ + Preceding(a, i) + rnum[Nth(i)]]
              /\ Iterate
              /\ UNCHANGED <<conf, prot, pflags, faults, file, aborted>>

\* The assertions after it.  An iteration undoes what the update did to two
\* elements, looks at them and does it again: the array is as before.
Revert ==
  /\ At("revert")
  /\ Runs
  /\ IF i = 0 THEN Iterate /\ UNCHANGED <<conf, memory, file, aborted>>
     ELSE LET jj == Nth(i - 1)
              ii == Nth(i)
              new == addr[ii] - (addr[jj] + rnum[ii])
              old == addr[jj] - (Preceding(addr, i - 1) + rnum[jj])
          IN  IF (i = 1 => old = rnum[jj]) /\ new = old + rnum[ii]
                THEN Iterate /\ UNCHANGED <<conf, memory, file, aborted>>
                ELSE Abort

-----------------------------------------------------------------------------
Next ==
  \/ Fault
  \/ Flush \/ OnDisk \/ FetchBulk \/ Spin \/ Destroy
  \/ IoWrite \/ IoFlush
  \/ Write \/ Verify \/ Clear \/ Read \/ Update \/ Revert

\* The program runs on until it ends.
Spec == Init /\ [][Next]_vars /\ WF_vars(Next)

-----------------------------------------------------------------------------
(* What is to hold.                                                        *)

\* The configuration is one of the program's, access and flags are of the kinds
\* there are, and a fault leaves the loops where they were.
TypeOK ==
  /\ build \in Build
  /\ rnum \in Shuffles
  /\ left \in BOOLEAN
  /\ base \in Bases
  /\ pc \in 1 .. Len(Program) + 1
  /\ i \in Elem
  /\ prot \in [Page -> {"none", "read", "write"}]
  /\ pflags \in [Page -> SUBSET {SYNC, DIRTY, ONDISK}]
  /\ addr \in [Elem -> Nat]
  /\ file = None \/ file \in [Elem -> Nat]
  /\ faults \in 0 .. MaxFaults
  /\ aborted \in BOOLEAN

\* The n-th element used is read before libc has read its page, which an aligned
\* one does with the page's first element, and should not be 0.
Early(n) ==
  /\ Nth(n) % PerPage # 0
  /\ \A m \in 0 .. n : PageOf(Nth(m)) = PageOf(Nth(n)) => Nth(m) % PerPage # 0
  /\ n > 0 \/ rnum[Nth(0)] # 0

\* libc's pages are not those of the addresses it reads a page at: the elements
\* before the first of these are never read, and the last page is cut short.
Misaligned ==
  /\ ~build.SBMA /\ build.LOAD /\ build.LAZY
  /\ build.RD \/ build.RW
  /\ base # 0

\* The builds, and circumstances, that do not work.
Broken ==
  \* "io_write" creates the file and does not take one that is there.
  \/ build.LOAD /\ left
  \* The array is flushed, that is cleared or inaccessible, when it is saved.
  \/ build.LOAD /\ ~build.WR /\ (build.SBMA \/ build.RD \/ build.RW)
  \* mremap is given the size that io_read's loop counted down to 0.
  \/ build.GHOST /\ (build.RD \/ build.RW)
  \* The whole array is to be synced from a page that is not its first.
  \/ build.SBMA /\ ~build.LAZY /\ ~build.CTX /\ PageOf(Nth(0)) # 0
  \* The first access to a page on disk is a write and does not read it.
  \/ build.CTX /\ build.RMW /\ build.RW
  \* A page is read only when its first element is asked for.
  \/ /\ ~build.SBMA /\ build.LOAD /\ build.LAZY
     /\ build.RD \/ build.RW
     /\ \E n \in Elem : Early(n)
  \* With --sys above 1 mmap need not return a multiple of _siz_pag.
  \/ Misaligned

\* No other build fails an assertion: through flushes, faults and the file every
\* element keeps the value that main gave it and looks for again
\* (micro.c:226,289,358,370,426-448; sbma.c:30-74; io.c:27-110).
OnlyBrokenFail == aborted => Broken

\* None of these ends well: each condition of Broken is a fault of the code on
\* its own, whatever the order of the accesses (micro.c:303-312; io.c:62-70;
\* sbma.c:54; libc.c:68-77).
BrokenFail == Done => ~Broken

\* The handler's flags say what access a page has: without a flag none, SYNC
\* reading, DIRTY also writing; a page on disk that is accessible is writable
\* (sbma.c:38-71,127-148).
FlagsMatch ==
  \A p \in Page : build.SBMA =>
    /\ prot[p] = "none" => pflags[p] \cap {SYNC, DIRTY} = {}
    /\ prot[p] = "read" <=> SYNC \in pflags[p]
    /\ prot[p] = "write" => pflags[p] \in {{DIRTY}, {ONDISK}}

\* Since the last flush there were no more faults than pages have got access,
\* with two for one that is writable: none was in vain (sbma.c:76,153).
FaultsUseful ==
  LET Having(kinds) == Cardinality({p \in Page : prot[p] \in kinds})
  IN  build.SBMA => faults <= Having({"read", "write"}) + Having({"write"})

\* Every access is carried out in the end: the program ends, or an assertion
\* ends it, unless a page's end is sought beyond that of the file, which io_read
\* does for ever (sbma.c:23-83; io.c:50-56).
Terminates == ~Misaligned => <>(Done \/ aborted)
=============================================================================
