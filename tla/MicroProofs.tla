----------------------------- MODULE MicroProofs -----------------------------
(***************************************************************************)
(* Theorems about Micro: the builds that fail an assertion are the Broken  *)
(* ones, all of these, and no others.                                      *)
(***************************************************************************)
EXTENDS MicroAccess

-----------------------------------------------------------------------------
(* What the array and the file hold *)

\* The n-th element used is the sum main makes it, in array a; and all are.
IsSum(a, n) == a[Nth(n)] = Preceding(a, n) + rnum[Nth(n)]
Sums(a) == \A n \in Elem : IsSum(a, n)
Zero(a) == \A e \in Elem : a[e] = 0

\* When all elements are sums: once they are written, until the next flush; for
\* ever if flushes do not clear, that is until an update. And when all are 0.
SumsAt ==
  \/ pc = 3
  \/ build.WR /\ pc \in {7, 8}
  \/ ~build.LOAD /\ pc \in 3 .. ReadEnd + 1
ZeroAt ==
  \/ build.LOAD /\ ~build.WR /\ pc = WriteEnd + 1
  \/ Flushed

\* The first write fails for good.
Stuck == build.SBMA /\ ~build.LAZY /\ ~build.CTX /\ PageOf(Nth(0)) # 0

FileInv ==
  /\ build.LOAD /\ pc <= WriteEnd + 1 => (file # None <=> left)
  /\ Saved => ~left
  /\ Saved /\ ~Done => file # None /\ IF build.WR THEN Sums(file) ELSE Zero(file)

ArrayInv ==
  /\ Writing => \A n \in Elem : n < i => IsSum(addr, n)
  /\ SumsAt => Sums(addr)
  /\ ZeroAt => Zero(addr)
  /\ Stuck => pc <= 2 /\ i = 0 /\ Closed

\* With access pr, flags fl and k iterations of the loop done: page p has been
\* read from the file, and element e is what that makes it in array a.
Ready(pr, fl, k, p) ==
  IF build.SBMA THEN pr[p] # "none" /\ ONDISK \in fl[p]
  ELSE build.LAZY => \E m \in Elem : /\ m < k /\ Nth(m) % PerPage = 0
                                     /\ PageOf(Nth(m)) = p
Fresh(a, pr, fl, k, e) == a[e] = IF Ready(pr, fl, k, PageOf(e)) THEN file[e] ELSE 0

\* libc reads a page with its first element.
ByElement == ~build.SBMA /\ build.LAZY

\* "read" goes on only while what is read is what was written.
ReadData(a, pr, fl, k) ==
  /\ \A e \in Elem : Fresh(a, pr, fl, k, e)
  /\ build.GHOST => \A p \in Page : ~Ready(pr, fl, k, p)
  /\ ~build.WR => \A n \in Elem : n < k => rnum[Nth(n)] = 0
  /\ ByElement /\ build.WR => \A n \in Elem : n < k => ~Early(n)

ReadInv ==
  /\ Reading => ReadData(addr, prot, pflags, i)
  /\ build.RD /\ pc > DropEnd + 2 =>
       /\ ~build.GHOST /\ build.WR
       /\ ByElement => \A n \in Elem : ~Early(n)

\* What the n-th element used was before its update, if it was updated, and what
\* the one before it was
Undone(a, n) == a[Nth(n)] - (Preceding(a, n) + rnum[Nth(n)])
UndonePreceding(a, n) == IF n = 0 THEN 0 ELSE Undone(a, n - 1)

\* The builds that do not have what was written when they update
Lost == build.LOAD /\ (~build.WR \/ Blind)

\* "update" goes on whatever it finds. What it makes of the elements is more than
\* what they were by the right amount; else less than it should be.
UpdateData(a, pr, fl, k) ==
  /\ build.LOAD => \A e \in Elem : \/ \E n \in Elem : n < k /\ Nth(n) = e
                                   \/ Fresh(a, pr, fl, k, e)
  /\ build.GHOST \/ Blind => \A p \in Page : ~Ready(pr, fl, k, p)
  /\ build.LOAD /\ ~Broken => \A n \in Elem : n < k => Undone(a, n) = file[Nth(n)]
  /\ build.LOAD /\ ByElement =>
       \A n \in Elem : n < k /\ Early(n) /\ Ready(pr, fl, k, PageOf(Nth(n))) =>
         a[Nth(n)] = file[Nth(n)]
  /\ ~build.LOAD => \A n \in Elem :
       /\ n < k => Undone(a, n) = UndonePreceding(a, n) + rnum[Nth(n)]
       /\ n = k => a[Nth(n)] = UndonePreceding(a, n) + rnum[Nth(n)]
       /\ n > k => IsSum(a, n)
  /\ Lost => /\ k > 0 => a[Nth(0)] <= rnum[Nth(0)]
             /\ k > 1 => a[Nth(1)] <= rnum[Nth(0)] + rnum[Nth(1)]

UpdateInv == Updating => UpdateData(addr, prot, pflags, i)

\* "revert" passes two elements only if they are what they should be.
RevertData(a, k) ==
  /\ build.GHOST => Blind
  /\ (build.LOAD => ~Broken) =>
       \A n \in Elem : Undone(a, n) = UndonePreceding(a, n) + rnum[Nth(n)]
  /\ build.LOAD /\ ByElement => \A n \in Elem : Early(n) => a[Nth(n)] = file[Nth(n)]
  /\ Lost => /\ k <= 1
             /\ a[Nth(0)] <= rnum[Nth(0)]
             /\ a[Nth(1)] <= rnum[Nth(0)] + rnum[Nth(1)]
  /\ build.LOAD /\ build.WR /\ k > 1 =>
       \A n \in Elem : n < k => Undone(a, n) = file[Nth(n)]

RevertInv ==
  /\ Reverting => RevertData(addr, i)
  /\ build.RW /\ pc > ReadEnd + 3 =>
       /\ ~build.GHOST /\ ~Lost
       /\ build.LOAD /\ ByElement => \A n \in Elem : ~Early(n)

\* The builds whose array is aligned, or that do not read pages one at a time
DataInv ==
  /\ ~Misaligned
  /\ MemInv /\ FileInv /\ ArrayInv /\ ReadInv /\ UpdateInv /\ RevertInv

\* In the others the loops never get past the element whose page ends beyond the
\* file.
LastFetched == N - base
ShiftInv ==
  Misaligned =>
    /\ build.RD => pc <= DropEnd + 2
    /\ build.RW => pc <= ReadEnd + 2
    /\ Reading \/ Updating => \A n \in Elem : n < i => Nth(n) # LastFetched

-----------------------------------------------------------------------------
(* The invariant in the next state, in terms of that state's array *)

LEMMA SumFrame ==
  ASSUME UNCHANGED conf
  PROVE  /\ \A a, n : IsSum(a, n)' <=> IsSum(a, n)
         /\ (\A n \in Elem : n < i => IsSum(addr, n))' <=>
              (\A n \in Elem : n < i' => IsSum(addr', n))
         /\ Sums(addr)' <=> Sums(addr')
         /\ Sums(file)' <=> Sums(file')
         /\ Zero(addr)' <=> Zero(addr')
         /\ Zero(file)' <=> Zero(file')
BY DEF conf, IsSum, Sums, Zero, Preceding, Nth

LEMMA ReadFrame ==
  ASSUME UNCHANGED conf, file' = file
  PROVE  ReadData(addr, prot, pflags, i)' <=> ReadData(addr', prot', pflags', i')
BY DEF conf, ReadData, Fresh, Ready, ByElement, Early, Nth

LEMMA UpdateFrame ==
  ASSUME UNCHANGED conf, file' = file
  PROVE  UpdateData(addr, prot, pflags, i)' <=> UpdateData(addr', prot', pflags', i')
<1>1. Broken' <=> Broken
  BY Frame
<1> QED BY <1>1 DEF conf, UpdateData, Fresh, Ready, ByElement, Early, Nth, Undone, UndonePreceding,
                    Preceding, IsSum, Lost, Blind

LEMMA RevertFrame ==
  ASSUME UNCHANGED conf, file' = file
  PROVE  RevertData(addr, i)' <=> RevertData(addr', i')
<1>1. Broken' <=> Broken
  BY Frame
<1> QED BY <1>1 DEF conf, RevertData, ByElement, Early, Nth, Undone, UndonePreceding,
                    Preceding, Lost, Blind

\* The types of what the state holds
LEMMA Typed ==
  ASSUME DataInv
  PROVE  /\ TypeOK /\ build \in Build /\ rnum \in Shuffles
         /\ pc \in 1 .. Len(Program) + 1 /\ pc \in Nat
         /\ i \in Elem /\ i \in Nat
         /\ prot \in [Page -> {"none", "read", "write"}]
         /\ pflags \in [Page -> SUBSET {SYNC, DIRTY, ONDISK}]
         /\ addr \in [Elem -> Nat] /\ (file # None => file \in [Elem -> Nat])
<1>1. TypeOK
  BY DEF DataInv, MemInv
<1>2. /\ build \in Build /\ rnum \in Shuffles
      /\ pc \in 1 .. Len(Program) + 1 /\ i \in Elem
      /\ prot \in [Page -> {"none", "read", "write"}]
      /\ pflags \in [Page -> SUBSET {SYNC, DIRTY, ONDISK}]
      /\ addr \in [Elem -> Nat] /\ (file # None => file \in [Elem -> Nat])
  BY <1>1 DEF TypeOK
<1>3. pc \in Nat
  BY <1>2
<1>4. i \in Nat
  <2>1. N \in Nat /\ Elem = 0 .. N - 1
    BY Sizes
  <2> QED BY <1>2, <2>1
<1> QED BY <1>1, <1>2, <1>3, <1>4

\* Where the parts of main begin and end
LEMMA Where ==
  ASSUME TypeOK
  PROVE  /\ pc \in Nat
         /\ WriteEnd = IF build.WR THEN 7 ELSE 4
         /\ SaveEnd = IF build.LOAD THEN WriteEnd + 3 ELSE WriteEnd
         /\ DropEnd = IF build.LOAD THEN SaveEnd + 2 ELSE SaveEnd
         /\ ReadEnd = IF build.RD THEN DropEnd + 4 ELSE DropEnd
         /\ UpdateEnd = IF build.RW THEN ReadEnd + 3 ELSE ReadEnd
         /\ Done <=> pc = UpdateEnd + 2
         /\ pc <= UpdateEnd + 2
         /\ build.GHOST \/ build.RD \/ build.WR \/ build.CTX => build.LOAD
         /\ build.CTX => build.SBMA
         /\ build.RMW => build.CTX
         /\ 4 <= WriteEnd /\ WriteEnd <= SaveEnd /\ SaveEnd <= DropEnd
         /\ DropEnd <= ReadEnd /\ ReadEnd <= UpdateEnd
         /\ WriteEnd \in Nat /\ SaveEnd \in Nat /\ DropEnd \in Nat
         /\ ReadEnd \in Nat /\ UpdateEnd \in Nat
<1>1. build \in Build /\ pc \in 1 .. Len(Program) + 1
  BY DEF TypeOK
<1>2. /\ WriteEnd = IF build.WR THEN 7 ELSE 4
      /\ SaveEnd = IF build.LOAD THEN WriteEnd + 3 ELSE WriteEnd
      /\ DropEnd = IF build.LOAD THEN SaveEnd + 2 ELSE SaveEnd
      /\ ReadEnd = IF build.RD THEN DropEnd + 4 ELSE DropEnd
      /\ UpdateEnd = IF build.RW THEN ReadEnd + 3 ELSE ReadEnd
  BY DEF WriteEnd, SaveEnd, DropEnd, ReadEnd, UpdateEnd
<1>3. /\ build.GHOST \/ build.RD \/ build.WR \/ build.CTX => build.LOAD
      /\ build.CTX => build.SBMA
      /\ build.RMW => build.CTX
  BY <1>1 DEF Build
<1>4. Done <=> pc = UpdateEnd + 2
  BY <1>1, Whereabouts
<1>5. pc \in Nat /\ pc <= UpdateEnd + 2
  BY <1>1, Parts, Positions
<1> QED BY <1>2, <1>3, <1>4, <1>5, Positions, <1>1

\* What the parts before them leave room for
LEMMA Margins ==
  ASSUME TypeOK
  PROVE  /\ 4 <= SaveEnd /\ 4 <= DropEnd
         /\ build.LOAD => /\ SaveEnd = WriteEnd + 3 /\ DropEnd = SaveEnd + 2
                          /\ 7 <= SaveEnd /\ 9 <= DropEnd
         /\ build.WR => /\ build.LOAD
                        /\ WriteEnd = 7 /\ SaveEnd = 10 /\ DropEnd = 12
<1>1. /\ 4 <= WriteEnd /\ WriteEnd \in Nat
      /\ SaveEnd = IF build.LOAD THEN WriteEnd + 3 ELSE WriteEnd
      /\ DropEnd = IF build.LOAD THEN SaveEnd + 2 ELSE SaveEnd
  BY Where
<1>2. build.LOAD => /\ SaveEnd = WriteEnd + 3 /\ DropEnd = SaveEnd + 2
                    /\ 7 <= SaveEnd /\ 9 <= DropEnd
  BY <1>1
<1>3. ~build.LOAD => 4 <= SaveEnd /\ 4 <= DropEnd
  BY <1>1
<1>4. build.WR => build.LOAD /\ WriteEnd = 7
  BY Where
<1>5. build.LOAD => 4 <= SaveEnd /\ 4 <= DropEnd
  BY <1>1
<1>6. build.LOAD /\ WriteEnd = 7 => SaveEnd = 10 /\ DropEnd = 12
  BY <1>2
<1> QED BY <1>2, <1>3, <1>4, <1>5, <1>6

\* A page's elements are those from its first on.
LEMMA PageRange ==
  ASSUME NEW e \in Elem, NEW f \in Elem, e % PerPage = 0
  PROVE  /\ e + PerPage - 1 \in Elem
         /\ f \in e .. e + PerPage - 1 <=> PageOf(f) = PageOf(e)
<1> DEFINE p == e \div PerPage
           q == f \div PerPage
           m == f % PerPage
<1>1. /\ p \in Nat /\ q \in Nat /\ m \in Nat /\ m < PerPage
      /\ e = PerPage * p /\ f = PerPage * q + m
      /\ PageOf(e) = p /\ PageOf(f) = q
  BY Sizes DEF PageOf
<1>2. p \in Page
  BY <1>1, Pages
<1> HIDE DEF p, q, m
<1>3. p + 1 <= NumPages
  BY <1>1, <1>2, Sizes DEF Page
<1>4. PerPage * (p + 1) <= N
  BY <1>1, <1>3, Sizes DEF N
<1>5. PerPage * (p + 1) = e + PerPage /\ e \in Nat /\ f \in Nat
  BY <1>1, Sizes
<1>6. e + PerPage - 1 \in Elem
  <2>1. e + PerPage <= N
    BY <1>4, <1>5
  <2>2. e \in Nat /\ PerPage \in Nat /\ PerPage > 0 /\ N \in Nat
    BY <1>5, Sizes
  <2>3. e + PerPage - 1 \in 0 .. N - 1
    BY <2>1, <2>2
  <2> QED BY <2>3, Sizes
<1>7. CASE q = p
  <2>1. f = e + m
    BY <1>1, <1>7
  <2> QED BY <1>1, <1>5, <1>6, <1>7, <2>1, Sizes
<1>8. CASE q <= p - 1
  <2>1. PerPage * q <= PerPage * (p - 1)
    BY <1>1, <1>8, Sizes
  <2>2. PerPage * (p - 1) = e - PerPage
    BY <1>1, Sizes
  <2> QED BY <1>1, <1>5, <1>6, <1>8, <2>1, <2>2, Sizes
<1>9. CASE q >= p + 1
  <2>1. PerPage * q >= PerPage * (p + 1)
    BY <1>1, <1>9, Sizes
  <2> QED BY <1>1, <1>5, <1>6, <1>9, <2>1, Sizes
<1> QED BY <1>1, <1>7, <1>8, <1>9

\* An aligned array is fetched by pages.
LEMMA Aligned ==
  ASSUME DataInv, Reading \/ Updating, NEW e \in Elem
  PROVE  /\ FetchesPage(e) <=> ByElement /\ build.LOAD /\ e % PerPage = 0
         /\ FetchesPage(e) =>
              \A f \in Elem : FetchPage(e)[f] = IF PageOf(f) = PageOf(e) THEN file[f] ELSE addr[f]
         /\ ~PastEnd(e)
<1>1. build.RD \/ build.RW
  BY DEF Reading, Updating
<1>2. ByElement /\ build.LOAD => base = 0
  BY <1>1 DEF DataInv, Misaligned, ByElement
<1>3. e \in Nat
  BY Elements
<1>4. FetchesPage(e) <=> ByElement /\ build.LOAD /\ e % PerPage = 0
  <2>1. CASE ByElement /\ build.LOAD
    <3>1. base + e = e
      BY <1>2, <1>3, <2>1
    <3> QED BY <2>1, <3>1 DEF FetchesPage, ByElement
  <2>2. CASE ~(ByElement /\ build.LOAD)
    BY <2>2 DEF FetchesPage, ByElement
  <2> QED BY <2>1, <2>2
<1>5. FetchesPage(e) =>
        \A f \in Elem : FetchPage(e)[f] = IF PageOf(f) = PageOf(e) THEN file[f] ELSE addr[f]
  BY <1>4, PageRange DEF FetchPage
<1>6. ~PastEnd(e)
  BY <1>4, PageRange DEF PastEnd
<1> QED BY <1>4, <1>5, <1>6

LEMMA NoSpin ==
  ASSUME DataInv
  PROVE  ~Spin
<1>1. /\ build \in Build /\ rnum \in Shuffles /\ i \in Elem /\ pc \in 1 .. Len(Program) + 1
  BY Typed
<1>2. Nth(i) \in Elem
  BY <1>1, Order
<1> SUFFICES ASSUME Spin PROVE FALSE
  OBVIOUS
<1>3. Reading \/ Updating
  BY <1>1, Whereabouts DEF Spin, At
<1> QED BY <1>2, <1>3, Aligned DEF Spin

\* A step that changes neither memory nor file nor position
LEMMA KeptData ==
  ASSUME FileInv, ArrayInv, ReadInv, UpdateInv, RevertInv,
         UNCHANGED <<conf, pc, i, prot, pflags, addr, file>>
  PROVE  FileInv' /\ ArrayInv' /\ ReadInv' /\ UpdateInv' /\ RevertInv'
<1>1. /\ build' = build /\ rnum' = rnum /\ left' = left /\ pc' = pc /\ i' = i
      /\ prot' = prot /\ pflags' = pflags /\ addr' = addr /\ file' = file
      /\ WriteEnd' = WriteEnd /\ SaveEnd' = SaveEnd /\ DropEnd' = DropEnd
      /\ ReadEnd' = ReadEnd /\ UpdateEnd' = UpdateEnd /\ Blind' = Blind
      /\ Program' = Program /\ \A n : Nth(n)' = Nth(n)
      /\ \A n : Early(n)' <=> Early(n)
  BY Frame
<1>2. /\ Saved' <=> Saved
      /\ Done' <=> Done
      /\ Writing' <=> Writing
      /\ Reading' <=> Reading
      /\ Updating' <=> Updating
      /\ Reverting' <=> Reverting
      /\ SumsAt' <=> SumsAt
      /\ ZeroAt' <=> ZeroAt
      /\ Stuck' <=> Stuck
      /\ Closed' <=> Closed
      /\ Lost' <=> Lost
      /\ ByElement' <=> ByElement
  BY <1>1 DEF Saved, Done, Writing, Reading, Updating, Reverting, SumsAt, ZeroAt, Flushed,
              Stuck, Closed, Lost, ByElement
<1>3. FileInv'
  BY <1>1, <1>2, SumFrame DEF FileInv
<1>4. ArrayInv'
  BY <1>1, <1>2, SumFrame DEF ArrayInv
<1>5. ReadInv'
  BY <1>1, <1>2, ReadFrame DEF ReadInv
<1>6. UpdateInv'
  BY <1>1, <1>2, UpdateFrame DEF UpdateInv
<1>7. RevertInv'
  BY <1>1, <1>2, RevertFrame DEF RevertInv
<1> QED BY <1>3, <1>4, <1>5, <1>6, <1>7

\* A step that neither ends at nor leaves one of the loops after the file is read
LEMMA LateKept ==
  ASSUME TypeOK, ReadInv, RevertInv, UNCHANGED conf, pc' = pc \/ pc' = pc + 1,
         ~Reading', ~Updating', ~Reverting', ~Reading, ~Reverting
  PROVE  ReadInv' /\ UpdateInv' /\ RevertInv'
<1>1. /\ build' = build /\ DropEnd' = DropEnd /\ ReadEnd' = ReadEnd /\ Blind' = Blind
      /\ \A n : Early(n)' <=> Early(n)
  BY Frame
<1>2. /\ build.RD /\ pc' > DropEnd + 2 => pc > DropEnd + 2
      /\ build.RW /\ pc' > ReadEnd + 3 => pc > ReadEnd + 3
  BY Where DEF Reading, Reverting
<1>3. ReadInv'
  BY <1>1, <1>2 DEF ReadInv, ByElement
<1>4. RevertInv'
  BY <1>1, <1>2 DEF RevertInv, ByElement, Lost
<1> QED BY <1>3, <1>4 DEF UpdateInv

\* Nothing but the save and destroy touches the file.
LEMMA FileStep ==
  ASSUME DataInv, Next
  PROVE  FileInv'
<1>1. TypeOK /\ FileInv /\ pc \in 1 .. Len(Program) + 1 /\ build \in Build
  BY Typed DEF DataInv
<1>2. /\ UNCHANGED conf /\ ~Done
      /\ pc' = pc \/ pc' = pc + 1
  <2>1. CASE Fault
    <3>1. UNCHANGED <<conf, pc, i, file>> /\ ~Done
      BY <2>1, FaultRuns
    <3> QED BY <3>1
  <2>2. CASE ~Fault
    BY <2>2 DEF Next, Flush, OnDisk, FetchBulk, Destroy, IoWrite, IoFlush, Write, Verify,
                Clear, Read, Update, Revert, Spin, Abort, At, NextPart, Iterate
  <2> QED BY <2>1, <2>2
<1>3. /\ build' = build /\ left' = left /\ rnum' = rnum
      /\ WriteEnd' = WriteEnd /\ UpdateEnd' = UpdateEnd /\ Program' = Program
  BY <1>2, Frame
<1>4. CASE IoWrite /\ file' # file
  <2>1. /\ At("save") /\ file = None /\ file' = addr /\ pc' = pc + 1
    BY <1>4 DEF IoWrite, Abort, NextPart
  <2>2. build.LOAD /\ pc = WriteEnd + 1
    BY <1>1, <2>1, Whereabouts
  <2>3. IF build.WR THEN Sums(addr) ELSE Zero(addr)
    BY <2>2 DEF DataInv, ArrayInv, SumsAt, ZeroAt, WriteEnd
  <2>4. addr # None
    BY <1>1, NoneAssumption DEF TypeOK
  <2>5. IF build.WR THEN Sums(file)' ELSE Zero(file)'
    BY <1>2, <2>1, <2>3, SumFrame DEF Sums, Zero
  <2>6. ~left
    BY <1>1, <2>1, <2>2, Where DEF FileInv
  <2>7. pc' > WriteEnd + 1
    BY <2>1, <2>2, <1>1, Where
  <2> QED BY <1>1, <1>3, <2>1, <2>4, <2>5, <2>6, <2>7, Where DEF FileInv, Saved
<1>5. CASE Destroy
  <2>1. pc = UpdateEnd + 1 /\ pc' = pc + 1
    BY <1>1, <1>5, Whereabouts DEF Destroy, NextPart
  <2>2. Done'
    BY <1>1, <1>3, <2>1, Parts DEF Done
  <2>3. build.LOAD => Saved /\ pc' > WriteEnd + 1
    <3>1. /\ build.LOAD => SaveEnd = WriteEnd + 3
          /\ SaveEnd <= UpdateEnd /\ WriteEnd \in Nat /\ UpdateEnd \in Nat /\ SaveEnd \in Nat
      BY <1>1, Where
    <3> QED BY <2>1, <3>1 DEF Saved
  <2>4. build.LOAD => ~(pc' <= WriteEnd + 1)
    <3>1. WriteEnd \in Nat /\ pc \in Nat
      BY <1>1, Where
    <3> QED BY <2>1, <2>3, <3>1
  <2>5. ~build.LOAD => ~Saved'
    BY <1>3 DEF Saved
  <2> QED BY <1>1, <1>3, <2>2, <2>3, <2>4, <2>5 DEF FileInv
<1>6. CASE file' = file /\ ~Destroy
  <2>1. ASSUME build.LOAD, pc = WriteEnd + 1 PROVE pc' = pc
    <3>1. Program[pc] = "save"
      BY <1>1, <2>1, Parts
    <3>2. CASE IoWrite
      <4>1. ~(file' = addr /\ file = None)
        BY <1>1, <1>6, NoneAssumption DEF TypeOK
      <4> QED BY <3>2, <4>1 DEF IoWrite, Abort
    <3>3. CASE Fault
      BY <3>3 DEF Fault
    <3>4. ~IoWrite /\ ~Fault => FALSE
      BY <3>1, NoSpin DEF Next, Flush, OnDisk, FetchBulk, Destroy, IoFlush, Write, Verify,
                          Clear, Read, Update, Revert, At
    <3> QED BY <3>2, <3>3, <3>4
  <2>2. Sums(file)' <=> Sums(file)
    BY <1>2, <1>6, SumFrame
  <2>3. Zero(file)' <=> Zero(file)
    BY <1>2, <1>6, SumFrame
  <2>4. pc \in Nat /\ WriteEnd \in Nat
    BY <1>1, Where
  <2>5. /\ build.LOAD /\ pc' <= WriteEnd + 1 => pc <= WriteEnd + 1
        /\ Saved' => Saved
    BY <1>2, <1>3, <2>1, <2>4 DEF Saved
  <2>6. (build.LOAD /\ pc <= WriteEnd + 1 => (file # None <=> left))'
    BY <1>1, <1>3, <1>6, <2>5 DEF FileInv
  <2>7. (Saved => ~left)'
    BY <1>1, <1>3, <2>5 DEF FileInv
  <2>8. (Saved /\ ~Done => file # None /\ IF build.WR THEN Sums(file) ELSE Zero(file))'
    BY <1>1, <1>2, <1>3, <1>6, <2>2, <2>3, <2>5 DEF FileInv
  <2> QED BY <2>6, <2>7, <2>8 DEF FileInv
<1>7. file' # file => IoWrite \/ Destroy
  BY DEF Next, Fault, Flush, OnDisk, FetchBulk, IoFlush, Write, Verify,
         Clear, Read, Update, Revert, Spin, Abort
<1> QED BY <1>4, <1>5, <1>6, <1>7

-----------------------------------------------------------------------------
(* Steps of main that are not loops *)

LEMMA FlushData ==
  ASSUME DataInv, Flush
  PROVE  ArrayInv' /\ ReadInv' /\ UpdateInv' /\ RevertInv'
<1>1. /\ UNCHANGED conf /\ pc' = pc + 1 /\ i' = 0 /\ file' = file /\ At("flush")
      /\ addr' = IF build.LOAD THEN [e \in Elem |-> 0] ELSE addr
      /\ prot' = IF build.SBMA THEN [p \in Page |-> "none"] ELSE prot
  BY DEF Flush, NextPart
<1>2. /\ build' = build /\ rnum' = rnum
      /\ WriteEnd' = WriteEnd /\ SaveEnd' = SaveEnd /\ DropEnd' = DropEnd
      /\ ReadEnd' = ReadEnd /\ UpdateEnd' = UpdateEnd /\ \A n : Nth(n)' = Nth(n)
  BY <1>1, Frame
<1>3. TypeOK /\ build \in Build /\ pc \in 1 .. Len(Program) + 1
  BY Typed
<1>4. \/ pc = 1 \/ pc = 4 \/ (build.WR /\ pc = 5)
      \/ (build.LOAD /\ pc = SaveEnd + 1)
      \/ (build.RD /\ pc = DropEnd + 3)
  BY <1>1, <1>3, Whereabouts
<1>5. /\ ~Reading' /\ ~Updating' /\ ~Reverting' /\ ~Reading /\ ~Reverting
  <2>1. /\ pc \in Nat /\ 4 <= DropEnd /\ DropEnd \in Nat /\ ReadEnd \in Nat
        /\ build.LOAD => DropEnd = SaveEnd + 2 /\ SaveEnd \in Nat
        /\ ReadEnd = IF build.RD THEN DropEnd + 4 ELSE DropEnd
        /\ build.RD \/ build.WR => build.LOAD
        /\ build.WR => 7 <= DropEnd
    <3>1. /\ pc \in Nat /\ DropEnd \in Nat /\ ReadEnd \in Nat /\ SaveEnd \in Nat
          /\ ReadEnd = IF build.RD THEN DropEnd + 4 ELSE DropEnd
          /\ build.RD \/ build.WR => build.LOAD
      BY <1>3, Where
    <3>2. 4 <= DropEnd /\ (build.LOAD => DropEnd = SaveEnd + 2 /\ 9 <= DropEnd)
      BY <1>3, Margins
    <3> QED BY <3>1, <3>2
  <2>2. CASE pc = 1 \/ pc = 4 \/ (build.WR /\ pc = 5)
    BY <1>1, <1>2, <2>1, <2>2 DEF Reading, Updating, Reverting
  <2>3. CASE build.LOAD /\ pc = SaveEnd + 1
    BY <1>1, <1>2, <2>1, <2>3 DEF Reading, Updating, Reverting
  <2>4. CASE build.RD /\ pc = DropEnd + 3
    BY <1>1, <1>2, <2>1, <2>4 DEF Reading, Updating, Reverting
  <2> QED BY <1>4, <2>2, <2>3, <2>4
<1>6. ReadInv' /\ UpdateInv' /\ RevertInv'
  BY <1>1, <1>3, <1>5, LateKept DEF DataInv
<1>7. SumsAt' => Sums(addr)'
  <2>1. SumsAt' => ~build.LOAD /\ SumsAt
    BY <1>1, <1>2, <1>3, <1>4, Where DEF SumsAt
  <2> QED BY <1>1, <2>1, SumFrame DEF DataInv, ArrayInv
<1>8. ZeroAt' => Zero(addr)'
  <2>1. ZeroAt' => build.LOAD
    BY <1>2 DEF ZeroAt, Flushed
  <2>2. build.LOAD => Zero(addr')
    BY <1>1 DEF Zero
  <2> QED BY <1>1, <2>1, <2>2, SumFrame
<1>9. Stuck' => pc' <= 2 /\ i' = 0 /\ Closed'
  <2>1. Stuck' <=> Stuck
    BY <1>2 DEF Stuck
  <2>2. Stuck => pc <= 2
    BY DEF DataInv, ArrayInv
  <2>3. Stuck => pc = 1
    <3>1. pc \in Nat /\ SaveEnd \in Nat /\ DropEnd \in Nat
      BY <1>3, Where
    <3>2. 4 <= SaveEnd /\ 4 <= DropEnd
      BY <1>3, Margins
    <3> QED BY <1>4, <2>2, <3>1, <3>2
  <2>4. build.SBMA => Closed'
    BY <1>1 DEF Closed
  <2> QED BY <1>1, <2>1, <2>3, <2>4 DEF Stuck
<1>10. \A n \in Elem : ~(n < i')
  BY <1>1, Sizes
<1> QED BY <1>6, <1>7, <1>8, <1>9, <1>10 DEF ArrayInv

\* Marking, saving, fetching at once, dropping, destroying
LEMMA PartsArray ==
  ASSUME DataInv, OnDisk \/ FetchBulk \/ Destroy \/ IoWrite \/ IoFlush, ~aborted'
  PROVE  ArrayInv'
<1>1. /\ UNCHANGED conf /\ pc' = pc + 1 /\ i' = 0 /\ prot' = prot /\ ~Done /\ ~aborted
      /\ Program[pc] \in {"ondisk", "fetch", "destroy", "save", "drop"}
      /\ Program[pc] = "drop" \/ ~build.LOAD => addr' = addr
      /\ addr' = addr \/ Program[pc] = "fetch"
  BY DEF OnDisk, FetchBulk, Destroy, IoWrite, IoFlush, Abort, NextPart, At, memory
<1>2. /\ build' = build /\ rnum' = rnum
      /\ WriteEnd' = WriteEnd /\ SaveEnd' = SaveEnd /\ DropEnd' = DropEnd
      /\ ReadEnd' = ReadEnd /\ UpdateEnd' = UpdateEnd /\ \A n : Nth(n)' = Nth(n)
  BY <1>1, Frame
<1>3. TypeOK /\ build \in Build /\ pc \in Nat /\ pc \in 1 .. Len(Program) + 1
  BY Typed
<1>4. /\ pc # 1 /\ pc # 2 /\ pc # 3 /\ pc # 4
      /\ build.WR => pc # 6 /\ pc # 7
      /\ build.LOAD => /\ pc # SaveEnd + 1
                       /\ pc = SaveEnd + 2 => Program[pc] = "drop"
      /\ build.RD => /\ pc # DropEnd + 3
                     /\ pc = DropEnd + 4 => Program[pc] = "drop"
  BY <1>1, <1>3, Parts
<1>5. pc > 4
  BY <1>3, <1>4, Parts, Positions
<1>6. SumsAt' => Sums(addr)'
  <2>1. SumsAt' => ~build.LOAD /\ SumsAt
    BY <1>1, <1>2, <1>3, <1>4, <1>5, Where DEF SumsAt
  <2> QED BY <1>1, <2>1, SumFrame DEF DataInv, ArrayInv
<1>7. ZeroAt' => Zero(addr)'
  <2>1. ZeroAt' => ZeroAt /\ Program[pc] = "drop"
    <3>1. /\ DropEnd \in Nat /\ ReadEnd \in Nat /\ SaveEnd \in Nat
          /\ build.LOAD => DropEnd = SaveEnd + 2
          /\ ReadEnd = IF build.RD THEN DropEnd + 4 ELSE DropEnd
          /\ WriteEnd = IF build.WR THEN 7 ELSE 4
      BY <1>3, Where
    <3>2. ~(build.LOAD /\ ~build.WR /\ pc' = WriteEnd + 1)
      BY <1>1, <1>3, <1>4, <3>1
    <3>3. ASSUME build.LOAD, pc' \in {SaveEnd + 2, DropEnd + 1, ReadEnd, ReadEnd + 1}
          PROVE  \/ pc = SaveEnd + 2
                 \/ build.RD /\ pc = DropEnd + 4
      BY <1>1, <1>3, <1>4, <3>1, <3>3
    <3>4. Flushed' => Flushed /\ Program[pc] = "drop"
      BY <1>2, <1>4, <3>1, <3>3 DEF Flushed
    <3> QED BY <1>2, <3>2, <3>4 DEF ZeroAt
  <2> QED BY <1>1, <2>1, SumFrame DEF DataInv, ArrayInv
<1>8. ~Stuck'
  <2>1. Stuck' <=> Stuck
    BY <1>2 DEF Stuck
  <2>2. Stuck => pc <= 2
    BY DEF DataInv, ArrayInv
  <2> QED BY <1>3, <1>5, <2>1, <2>2
<1>9. \A n \in Elem : ~(n < i')
  BY <1>1, Sizes
<1> QED BY <1>6, <1>7, <1>8, <1>9 DEF ArrayInv

LEMMA PartsLate ==
  ASSUME DataInv, OnDisk \/ Destroy \/ IoWrite \/ IoFlush, ~aborted'
  PROVE  ReadInv' /\ UpdateInv' /\ RevertInv'
<1>1. /\ UNCHANGED conf /\ pc' = pc + 1 /\ ~Done
      /\ Program[pc] \in {"ondisk", "destroy", "save", "drop"}
  BY DEF OnDisk, Destroy, IoWrite, IoFlush, Abort, NextPart, At, memory
<1>2. /\ build' = build /\ DropEnd' = DropEnd /\ ReadEnd' = ReadEnd
  BY <1>1, Frame
<1>3. TypeOK /\ build \in Build /\ pc \in Nat /\ DropEnd \in Nat /\ ReadEnd \in Nat
  BY Typed, Positions
<1>4. /\ build.RD => pc # DropEnd + 1 /\ pc # DropEnd + 2
      /\ build.RW => pc # ReadEnd + 1 /\ pc # ReadEnd + 2 /\ pc # ReadEnd + 3
  BY <1>1, <1>3, Parts
<1>5. ~Reading' /\ ~Updating' /\ ~Reverting' /\ ~Reading /\ ~Reverting
  BY <1>1, <1>2, <1>3, <1>4 DEF Reading, Updating, Reverting
<1> QED BY <1>1, <1>3, <1>5, LateKept DEF DataInv

\* What a loop over the fetched array starts from
LEMMA FetchData ==
  ASSUME DataInv, FetchBulk, ~aborted'
  PROVE  ReadInv' /\ UpdateInv' /\ RevertInv'
<1>1. /\ UNCHANGED conf /\ pc' = pc + 1 /\ i' = 0 /\ prot' = prot /\ pflags' = pflags
      /\ file' = file /\ ~Done /\ Program[pc] = "fetch" /\ At("fetch")
      /\ build.SBMA \/ ~build.LOAD \/ build.LAZY => addr' = addr
      /\ ~(build.SBMA \/ ~build.LOAD \/ build.LAZY) => CanRead /\ addr' = Loaded(Page)
  BY DEF FetchBulk, Abort, NextPart, At, memory
<1>2. /\ build' = build /\ rnum' = rnum
      /\ DropEnd' = DropEnd /\ ReadEnd' = ReadEnd
      /\ \A n : Nth(n)' = Nth(n)
      /\ \A n : Early(n)' <=> Early(n)
  BY <1>1, Frame
<1>3. TypeOK /\ build \in Build /\ pc \in Nat /\ rnum \in Shuffles /\ pc \in 1 .. Len(Program) + 1
  BY Typed
<1>4. \/ build.RD /\ pc = DropEnd + 1
      \/ build.RW /\ pc = ReadEnd + 1
  BY <1>1, <1>3, Whereabouts
<1>5. /\ DropEnd \in Nat /\ ReadEnd \in Nat /\ 4 <= ReadEnd
      /\ ReadEnd = IF build.RD THEN DropEnd + 4 ELSE DropEnd
      /\ build.GHOST \/ build.RD \/ build.CTX => build.LOAD
      /\ build.CTX => build.SBMA
  BY <1>3, Where
<1>6. build.LOAD => Flushed
  BY <1>4, <1>5 DEF Flushed
<1>7. /\ build.LOAD => Zero(addr)
      /\ build.SBMA /\ build.LOAD => Closed
  BY <1>6 DEF DataInv, MemInv, AccessInv, ArrayInv, ZeroAt
<1>8. \A n \in Elem : ~(n < 0)
  BY Sizes
<1>9. ASSUME build.LOAD, build.SBMA \/ build.LAZY, NEW p \in Page
      PROVE  ~Ready(prot, pflags, 0, p)
  BY <1>7, <1>8, <1>9 DEF Ready, Closed
<1>10. ASSUME build.LOAD, ~build.SBMA, ~build.LAZY
       PROVE  /\ \A e \in Elem : addr'[e] = file[e]
              /\ \A p : Ready(prot, pflags, 0, p)
              /\ ~build.GHOST
  <2>1. \A e \in Elem : addr'[e] = file[e]
    BY <1>1, <1>10, Pages DEF Loaded
  <2> QED BY <1>1, <1>10, <2>1 DEF Ready, CanRead
<1>11. build.LOAD => \A e \in Elem : Fresh(addr', prot, pflags, 0, e)
  <2> SUFFICES ASSUME build.LOAD, NEW e \in Elem PROVE Fresh(addr', prot, pflags, 0, e)
    OBVIOUS
  <2>1. PageOf(e) \in Page
    BY Pages
  <2>2. CASE build.SBMA \/ build.LAZY
    <3>1. addr'[e] = 0
      BY <1>1, <1>7, <2>2 DEF Zero
    <3>2. ~Ready(prot, pflags, 0, PageOf(e))
      BY <1>9, <2>1, <2>2
    <3> QED BY <3>1, <3>2 DEF Fresh
  <2>3. CASE ~build.SBMA /\ ~build.LAZY
    BY <1>10, <2>3 DEF Fresh
  <2> QED BY <2>2, <2>3
<1>12. build.GHOST \/ Blind => \A p \in Page : ~Ready(prot, pflags, 0, p)
  <2>1. build.GHOST \/ Blind => build.LOAD
    BY <1>5 DEF Blind
  <2>2. Blind => build.SBMA
    BY <1>5 DEF Blind
  <2> QED BY <1>9, <1>10, <2>1, <2>2
<1>13. ReadInv'
  <2>1. Reading' => ReadData(addr', prot', pflags', i')
    <3>1. Reading' => build.LOAD
      BY <1>2, <1>5 DEF Reading
    <3> QED BY <1>1, <1>8, <1>11, <1>12, <3>1 DEF ReadData
  <2>2. build.RD /\ pc' > DropEnd + 2 => pc > DropEnd + 2
    BY <1>1, <1>3, <1>4, <1>5
  <2> QED BY <1>1, <1>2, <2>1, <2>2, ReadFrame DEF DataInv, ReadInv, ByElement
<1>14. UpdateInv'
  <2>1. ASSUME Updating' PROVE UpdateData(addr', prot', pflags', i')
    <3>1. pc = ReadEnd + 1
      BY <1>1, <1>2, <1>3, <1>5, <2>1 DEF Updating
    <3>2. ASSUME ~build.LOAD
          PROVE  \A n \in Elem : /\ n = 0 => addr'[Nth(n)] = UndonePreceding(addr', n) + rnum[Nth(n)]
                                 /\ IsSum(addr', n)
      <4>1. addr' = addr /\ Sums(addr)
        BY <1>1, <1>5, <3>1, <3>2 DEF DataInv, ArrayInv, SumsAt
      <4> QED BY <4>1 DEF Sums, IsSum, UndonePreceding, Preceding
    <3>3. ~(0 > 0) /\ ~(0 > 1)
      OBVIOUS
    <3> QED BY <1>1, <1>8, <1>11, <1>12, <3>2, <3>3 DEF UpdateData
  <2> QED BY <1>1, <2>1, UpdateFrame DEF UpdateInv
<1>15. RevertInv'
  <2>1. ~Reverting'
    BY <1>1, <1>2, <1>3, <1>4, <1>5 DEF Reverting
  <2>2. build.RW /\ pc' > ReadEnd + 3 => pc > ReadEnd + 3
    BY <1>1, <1>3, <1>4, <1>5
  <2> QED BY <1>1, <1>2, <2>1, <2>2, Frame DEF DataInv, RevertInv, ByElement, Lost
<1> QED BY <1>13, <1>14, <1>15

-----------------------------------------------------------------------------
(* The loops before the file is read *)

\* One more sum
LEMMA MoreSums ==
  ASSUME TypeOK, NEW a \in [Elem -> Nat],
         \A n \in Elem : n < i => IsSum(addr, n),
         a = [addr EXCEPT ![Nth(i)] = Preceding(addr, i) + rnum[Nth(i)]]
  PROVE  \A n \in Elem : n < i + 1 => IsSum(a, n)
<1>1. /\ build \in Build /\ rnum \in Shuffles /\ i \in Elem /\ addr \in [Elem -> Nat]
  BY DEF TypeOK
<1>2. /\ \A n \in Elem : Nth(n) \in Elem /\ n \in Nat
      /\ \A n, m \in Elem : Nth(n) = Nth(m) => n = m
  <2>1. \A n \in Elem : n \in Nat
    BY Sizes
  <2> QED BY <1>1, <2>1, Order
<1>3. \A e \in Elem : a[e] = IF e = Nth(i) THEN Preceding(addr, i) + rnum[Nth(i)] ELSE addr[e]
  BY <1>1
<1>4. \A n \in Elem : n <= i => Preceding(a, n) = Preceding(addr, n)
  <2> SUFFICES ASSUME NEW n \in Elem, n <= i, n # 0 PROVE a[Nth(n - 1)] = addr[Nth(n - 1)]
    BY DEF Preceding
  <2>1. n - 1 \in Elem /\ n - 1 # i
    BY <1>1, <1>2, Sizes
  <2> QED BY <1>1, <1>2, <1>3, <2>1
<1>5. ASSUME NEW n \in Elem, n < i + 1 PROVE IsSum(a, n)
  <2>1. n \in Nat /\ i \in Nat /\ Nth(n) \in Elem
    BY <1>1, <1>2
  <2>2. Preceding(a, n) = Preceding(addr, n)
    <3>1. n <= i
      BY <1>5, <2>1
    <3> QED BY <1>4, <3>1
  <2>3. CASE n = i
    <3>1. a[Nth(n)] = Preceding(addr, n) + rnum[Nth(n)]
      BY <1>3, <2>1, <2>3
    <3> QED BY <2>2, <3>1 DEF IsSum
  <2>4. CASE n < i
    <3>1. a[Nth(n)] = addr[Nth(n)]
      BY <1>1, <1>2, <1>3, <2>1, <2>4
    <3>2. IsSum(addr, n)
      BY <2>4
    <3> QED BY <2>2, <3>1, <3>2 DEF IsSum
  <2> QED BY <1>5, <2>1, <2>3, <2>4
<1> QED BY <1>5

LEMMA WriteData ==
  ASSUME DataInv, Write
  PROVE  ArrayInv' /\ ReadInv' /\ UpdateInv' /\ RevertInv'
<1>1. /\ UNCHANGED conf /\ Iterate /\ Runs /\ ~Done /\ Program[pc] = "write"
      /\ addr' = [addr EXCEPT ![Nth(i)] = Preceding(addr, i) + rnum[Nth(i)]]
  BY DEF Write, At
<1>2. /\ build' = build /\ rnum' = rnum
      /\ WriteEnd' = WriteEnd /\ SaveEnd' = SaveEnd /\ DropEnd' = DropEnd
      /\ ReadEnd' = ReadEnd /\ UpdateEnd' = UpdateEnd /\ \A n : Nth(n)' = Nth(n)
  BY <1>1, Frame
<1>3. TypeOK /\ build \in Build /\ pc \in Nat /\ i \in Elem /\ rnum \in Shuffles
      /\ pc \in 1 .. Len(Program) + 1
  BY Typed
<1>4. Writing
  BY <1>1, <1>3, Whereabouts
<1>5. ~Stuck /\ ~Stuck'
  <2>1. prot[PageOf(Nth(i))] = "write"
    BY <1>1, <1>4, Ran DEF DataInv
  <2>2. PageOf(Nth(i)) \in Page
    BY <1>3, Order, Pages
  <2>3. ~Closed
    BY <2>1, <2>2 DEF Closed
  <2>4. ~Stuck
    BY <2>3 DEF DataInv, ArrayInv
  <2> QED BY <1>2, <2>4 DEF Stuck
<1>6. \A n \in Elem : n < i + 1 => IsSum(addr', n)
  <2>1. addr' \in [Elem -> Nat]
    BY <1>3, LoopType DEF TypeOK
  <2> QED BY <1>1, <1>3, <1>4, <2>1, MoreSums DEF DataInv, ArrayInv
<1>7. \/ pc' = pc /\ i' = i + 1
      \/ pc' = pc + 1 /\ i' = 0 /\ i = N - 1
  BY <1>1, <1>3, Iterated
<1>8. /\ pc = 2 \/ (build.WR /\ pc = 6)
      /\ 4 <= DropEnd /\ DropEnd \in Nat /\ ReadEnd \in Nat /\ DropEnd <= ReadEnd
      /\ build.WR => build.LOAD
      /\ build.LOAD => 7 <= SaveEnd /\ DropEnd = SaveEnd + 2 /\ SaveEnd \in Nat
      /\ build.WR => SaveEnd = 10
      /\ WriteEnd = IF build.WR THEN 7 ELSE 4
  <2>1. /\ DropEnd \in Nat /\ ReadEnd \in Nat /\ SaveEnd \in Nat /\ DropEnd <= ReadEnd
        /\ WriteEnd = IF build.WR THEN 7 ELSE 4
    BY <1>3, Where
  <2>2. pc = 2 \/ (build.WR /\ pc = 6)
    BY <1>4 DEF Writing
  <2> QED BY <1>3, <2>1, <2>2, Margins
<1>9. /\ ~Reading' /\ ~Updating' /\ ~Reverting' /\ ~Reading /\ ~Reverting
      /\ ~ZeroAt'
      /\ SumsAt' => pc' = pc + 1
  <2>1. pc' = pc \/ pc' = pc + 1
    BY <1>7
  <2>2. CASE pc = 2
    BY <1>2, <1>8, <2>1, <2>2 DEF Reading, Updating, Reverting, ZeroAt, Flushed, SumsAt
  <2>3. CASE build.WR /\ pc = 6
    BY <1>2, <1>8, <2>1, <2>3 DEF Reading, Updating, Reverting, ZeroAt, Flushed, SumsAt
  <2> QED BY <1>8, <2>2, <2>3
<1>10. ReadInv' /\ UpdateInv' /\ RevertInv'
  BY <1>1, <1>3, <1>7, <1>9, LateKept DEF DataInv
<1>11. SumsAt' => Sums(addr)'
  <2>1. SumsAt' => Sums(addr')
    BY <1>3, <1>6, <1>7, <1>9, Sizes DEF Sums
  <2> QED BY <1>1, <2>1, SumFrame
<1>12. Writing' => \A n \in Elem : n < i' => IsSum(addr', n)
  BY <1>3, <1>6, <1>7, Sizes
<1> QED BY <1>1, <1>5, <1>9, <1>10, <1>11, <1>12, SumFrame DEF ArrayInv

LEMMA VerifyData ==
  ASSUME DataInv, Verify
  PROVE  ~aborted' /\ ArrayInv' /\ ReadInv' /\ UpdateInv' /\ RevertInv'
<1>1. /\ UNCHANGED conf /\ ~Done /\ ~aborted /\ Program[pc] = "verify"
  BY DEF Verify, At, Abort
<1>2. /\ build' = build /\ rnum' = rnum
      /\ WriteEnd' = WriteEnd /\ SaveEnd' = SaveEnd /\ DropEnd' = DropEnd
      /\ ReadEnd' = ReadEnd /\ UpdateEnd' = UpdateEnd /\ \A n : Nth(n)' = Nth(n)
  BY <1>1, Frame
<1>3. TypeOK /\ build \in Build /\ pc \in Nat /\ i \in Elem /\ rnum \in Shuffles
      /\ pc \in 1 .. Len(Program) + 1
  BY Typed
<1>4. pc = 3 \/ (build.WR /\ pc = 7)
  BY <1>1, <1>3, Whereabouts DEF Verifying
<1>5. Sums(addr)
  BY <1>4 DEF DataInv, ArrayInv, SumsAt
<1>6. ~aborted' /\ Iterate /\ addr' = addr
  BY <1>1, <1>3, <1>5 DEF Verify, Sums, IsSum, memory
<1>7. pc' = pc \/ pc' = pc + 1
  BY <1>1, <1>3, <1>6, Iterated
<1>8. /\ 4 <= DropEnd /\ DropEnd \in Nat /\ ReadEnd \in Nat /\ DropEnd <= ReadEnd
      /\ build.WR => build.LOAD
      /\ build.LOAD => 7 <= SaveEnd /\ DropEnd = SaveEnd + 2 /\ SaveEnd \in Nat
      /\ build.WR => SaveEnd = 10
      /\ WriteEnd = IF build.WR THEN 7 ELSE 4
  <2>1. /\ DropEnd \in Nat /\ ReadEnd \in Nat /\ SaveEnd \in Nat /\ DropEnd <= ReadEnd
        /\ WriteEnd = IF build.WR THEN 7 ELSE 4
    BY <1>3, Where
  <2> QED BY <1>3, <2>1, Margins
<1>9. /\ ~Reading' /\ ~Updating' /\ ~Reverting' /\ ~Reading /\ ~Reverting
      /\ ~ZeroAt' /\ ~Writing'
  <2>1. CASE pc = 3
    BY <1>2, <1>7, <1>8, <2>1 DEF Reading, Updating, Reverting, ZeroAt, Flushed, Writing
  <2>2. CASE build.WR /\ pc = 7
    BY <1>2, <1>7, <1>8, <2>2 DEF Reading, Updating, Reverting, ZeroAt, Flushed, Writing
  <2> QED BY <1>4, <2>1, <2>2
<1>10. ReadInv' /\ UpdateInv' /\ RevertInv'
  BY <1>1, <1>3, <1>7, <1>9, LateKept DEF DataInv
<1>11. ~Stuck'
  BY <1>2, <1>4 DEF DataInv, ArrayInv, Stuck
<1> QED BY <1>1, <1>5, <1>6, <1>9, <1>10, <1>11, SumFrame DEF ArrayInv

LEMMA ClearData ==
  ASSUME DataInv, Clear
  PROVE  ArrayInv' /\ ReadInv' /\ UpdateInv' /\ RevertInv'
<1>1. /\ UNCHANGED conf /\ ~Done /\ Program[pc] = "clear" /\ Iterate
  BY DEF Clear, At
<1>2. /\ build' = build /\ rnum' = rnum
      /\ WriteEnd' = WriteEnd /\ SaveEnd' = SaveEnd /\ DropEnd' = DropEnd
      /\ ReadEnd' = ReadEnd /\ UpdateEnd' = UpdateEnd /\ \A n : Nth(n)' = Nth(n)
  BY <1>1, Frame
<1>3. TypeOK /\ build \in Build /\ pc \in Nat /\ i \in Elem /\ rnum \in Shuffles
      /\ pc \in 1 .. Len(Program) + 1
  BY Typed
<1>4. build.LOAD /\ pc = WriteEnd + 2
  BY <1>1, <1>3, Whereabouts
<1>5. pc' = pc \/ pc' = pc + 1
  BY <1>1, <1>3, Iterated
<1>6. /\ DropEnd \in Nat /\ ReadEnd \in Nat /\ DropEnd <= ReadEnd
      /\ DropEnd = SaveEnd + 2 /\ SaveEnd = WriteEnd + 3
      /\ WriteEnd = IF build.WR THEN 7 ELSE 4
  BY <1>3, <1>4, Where
<1>7. /\ ~Reading' /\ ~Updating' /\ ~Reverting' /\ ~Reading /\ ~Reverting
      /\ ~ZeroAt' /\ ~Writing' /\ ~SumsAt'
  <2>1. CASE build.WR
    BY <1>2, <1>4, <1>5, <1>6, <2>1
       DEF Reading, Updating, Reverting, ZeroAt, Flushed, Writing, SumsAt
  <2>2. CASE ~build.WR
    BY <1>2, <1>4, <1>5, <1>6, <2>2
       DEF Reading, Updating, Reverting, ZeroAt, Flushed, Writing, SumsAt
  <2> QED BY <2>1, <2>2
<1>8. ReadInv' /\ UpdateInv' /\ RevertInv'
  BY <1>1, <1>3, <1>5, <1>7, LateKept DEF DataInv
<1>9. ~Stuck'
  BY <1>2, <1>4, <1>6 DEF DataInv, ArrayInv, Stuck
<1> QED BY <1>7, <1>8, <1>9 DEF ArrayInv

-----------------------------------------------------------------------------
(* Faults *)

\* A page that is read from the file is what is in the file, and no page an
\* update was at is read.
LEMMA LoadData ==
  ASSUME DataInv, NEW p \in Page, p = PageOf(Nth(i)), build.SBMA, Loads(p)
  PROVE  /\ \A e \in Elem : \/ Fresh(addr', prot', pflags', i, e)
                            \/ addr'[e] = addr[e] /\ (Ready(prot', pflags', i, PageOf(e))
                                                      <=> Ready(prot, pflags, i, PageOf(e)))
         /\ Updating => \A n \in Elem : n < i => addr'[Nth(n)] = addr[Nth(n)]
         /\ ~build.GHOST /\ (Updating => ~Blind) /\ build.LOAD
<1>1. /\ Stored /\ (Updating => ~Blind) /\ (Reading \/ Updating)
      /\ prot[p] = "none" /\ CanRead /\ pflags' = pflags
      /\ addr' = Loaded(SyncPages(p))
      /\ prot' = [q \in Page |-> IF q \in SyncPages(p) THEN "write" ELSE prot[q]]
  BY DEF Loads, SyncOnDisk, AfterRead
<1>2. /\ build \in Build /\ rnum \in Shuffles /\ pc \in Nat /\ DropEnd \in Nat /\ ReadEnd \in Nat
      /\ ReadEnd = IF build.RD THEN DropEnd + 4 ELSE DropEnd
  BY Typed, Where
<1>3. \A q \in Page : pflags[q] = {ONDISK}
  <2>1. \A q \in Page : pflags[q] = {ONDISK} \/ (pflags[q] = {DIRTY} /\ Blind /\ pc > ReadEnd + 1)
    BY <1>1 DEF DataInv, MemInv, FlagsInv
  <2>2. Reading => ~(pc > ReadEnd + 1)
    BY <1>2 DEF Reading
  <2> QED BY <1>1, <2>1, <2>2
<1>4. ASSUME NEW e \in Elem, PageOf(e) \in SyncPages(p)
      PROVE  Fresh(addr', prot', pflags', i, e)
  <2>1. PageOf(e) \in Page
    BY Pages
  <2>2. addr'[e] = file[e] /\ prot'[PageOf(e)] = "write"
    BY <1>1, <1>4, <2>1 DEF Loaded
  <2>3. Ready(prot', pflags', i, PageOf(e))
    BY <1>1, <1>3, <2>1, <2>2 DEF Ready
  <2> QED BY <2>2, <2>3 DEF Fresh
<1>5. ASSUME NEW e \in Elem, PageOf(e) \notin SyncPages(p)
      PROVE  addr'[e] = addr[e] /\ (Ready(prot', pflags', i, PageOf(e))
                                    <=> Ready(prot, pflags, i, PageOf(e)))
  <2>1. PageOf(e) \in Page
    BY Pages
  <2>2. addr'[e] = addr[e] /\ prot'[PageOf(e)] = prot[PageOf(e)]
    BY <1>1, <1>5, <2>1 DEF Loaded
  <2> QED BY <1>1, <2>2 DEF Ready
<1>6. ASSUME Updating, NEW n \in Elem, n < i PROVE addr'[Nth(n)] = addr[Nth(n)]
  <2>1. Nth(n) \in Elem /\ PageOf(Nth(n)) \in Page
    BY <1>2, Order, Pages
  <2>2. prot[PageOf(Nth(n))] = "write"
    BY <1>1, <1>6 DEF DataInv, MemInv, AccessInv
  <2>3. CASE build.LAZY
    <3>1. PageOf(Nth(n)) \notin SyncPages(p)
      BY <1>1, <2>2, <2>3 DEF SyncPages
    <3> QED BY <1>5, <2>1, <3>1
  <2>4. CASE ~build.LAZY
    <3>1. ~build.CTX \/ (Stored /\ ~build.RMW)
      BY <1>1, <1>6 DEF Blind
    <3>2. Closed \/ \A q \in Page : prot[q] # "none"
      BY <2>4, <3>1 DEF DataInv, MemInv, AccessInv
    <3> QED BY <1>1, <2>1, <2>2, <3>2 DEF Closed
  <2> QED BY <2>3, <2>4
<1>7. ~build.GHOST /\ build.LOAD
  BY <1>1 DEF CanRead, Stored
<1> QED BY <1>1, <1>4, <1>5, <1>6, <1>7

LEMMA FaultData ==
  ASSUME DataInv, Fault
  PROVE  ArrayInv' /\ ReadInv' /\ UpdateInv' /\ RevertInv'
<1> DEFINE p == PageOf(Nth(i))
<1>1. /\ p \in Page /\ build.SBMA /\ UNCHANGED <<conf, pc, i, file>>
      /\ Writing \/ Reading \/ Updating
      /\ Dirties(p) \/ Loads(p) \/ Syncs(p) \/ Fails(p)
  BY FaultCases DEF DataInv
<1>2. CASE Fails(p)
  BY <1>1, <1>2, KeptData DEF DataInv, Fails
<1>3. /\ build' = build /\ rnum' = rnum /\ pc' = pc /\ i' = i /\ file' = file
      /\ WriteEnd' = WriteEnd /\ SaveEnd' = SaveEnd /\ DropEnd' = DropEnd
      /\ ReadEnd' = ReadEnd /\ UpdateEnd' = UpdateEnd /\ \A n : Nth(n)' = Nth(n)
      /\ \A n : Early(n)' <=> Early(n)
      /\ Blind' = Blind
  BY <1>1, Frame
<1>4. TypeOK /\ build \in Build /\ pc \in Nat /\ i \in Elem /\ rnum \in Shuffles
      /\ pflags \in [Page -> SUBSET {SYNC, DIRTY, ONDISK}]
      /\ prot \in [Page -> {"none", "read", "write"}]
  BY Typed
<1>5. /\ 4 <= SaveEnd /\ SaveEnd \in Nat /\ DropEnd \in Nat /\ ReadEnd \in Nat /\ SaveEnd <= DropEnd
      /\ DropEnd <= ReadEnd
      /\ build.RD \/ build.WR \/ build.GHOST \/ build.CTX => build.LOAD
      /\ build.WR => SaveEnd = 10
      /\ build.LOAD => 7 <= SaveEnd /\ DropEnd = SaveEnd + 2
      /\ WriteEnd = IF build.WR THEN 7 ELSE 4
      /\ ReadEnd = IF build.RD THEN DropEnd + 4 ELSE DropEnd
  <2>1. /\ DropEnd \in Nat /\ ReadEnd \in Nat /\ SaveEnd \in Nat
        /\ SaveEnd <= DropEnd /\ DropEnd <= ReadEnd
        /\ WriteEnd = IF build.WR THEN 7 ELSE 4
        /\ ReadEnd = IF build.RD THEN DropEnd + 4 ELSE DropEnd
        /\ build.RD \/ build.WR \/ build.GHOST \/ build.CTX => build.LOAD
    BY <1>4, Where
  <2> QED BY <1>4, <2>1, Margins
<1>6. /\ Reading => Stored /\ ~Writing /\ ~Updating
      /\ Updating /\ build.LOAD => Stored
      /\ Updating => ~Writing
      /\ Writing => ~Stored
  BY <1>4, <1>5, Apart DEF Stored, Reading, Updating, Writing
<1> HIDE DEF p
<1>7. addr' = addr \/ Loads(p)
  BY <1>1 DEF Dirties, MakeDirty, Syncs, SyncNew, Fails
<1>8. /\ ~ZeroAt /\ ~ZeroAt'
      /\ SumsAt' => SumsAt /\ ~Stored
      /\ (Writing' <=> Writing) /\ (Reading' <=> Reading) /\ (Updating' <=> Updating)
      /\ ~Reverting'
  <2>1. ~ZeroAt
    <3>1. CASE Writing
      BY <1>5, <3>1 DEF ZeroAt, Flushed, Writing
    <3>2. CASE Reading
      BY <1>5, <3>2 DEF ZeroAt, Flushed, Reading
    <3>3. CASE Updating
      BY <1>5, <3>3 DEF ZeroAt, Flushed, Updating
    <3> QED BY <1>1, <3>1, <3>2, <3>3
  <2>2. SumsAt => ~Stored
    BY <1>4, <1>5 DEF SumsAt, Stored
  <2>3. ~Reverting
    BY <1>1, <1>4, Apart
  <2> QED BY <1>3, <2>1, <2>2, <2>3
          DEF ZeroAt, Flushed, SumsAt, Writing, Reading, Updating, Reverting
<1>9. Stuck => Fails(p)
  <2> SUFFICES ASSUME Stuck, ~Fails(p) PROVE FALSE
    OBVIOUS
  <2>1. pc <= 2 /\ i = 0 /\ Closed
    BY DEF DataInv, ArrayInv
  <2>2. ~Stored
    BY <1>4, <1>5, <2>1 DEF Stored
  <2>3. prot[p] = "none" /\ p # 0 /\ ~build.CTX /\ ~build.LAZY
    BY <1>1, <2>1 DEF Closed, Stuck, p
  <2> QED BY <1>1, <2>2, <2>3 DEF Dirties, Loads, Syncs
<1>10. CASE ~Fails(p)
  <2>1. ArrayInv'
    <3>1. Writing' => addr' = addr
      BY <1>6, <1>7, <1>8 DEF Loads
    <3>2. SumsAt' => addr' = addr
      BY <1>7, <1>8 DEF Loads
    <3>3. ~Stuck'
      BY <1>3, <1>9, <1>10 DEF Stuck
    <3>4. Writing' => \A n \in Elem : n < i' => IsSum(addr', n)
      BY <1>3, <1>8, <3>1 DEF DataInv, ArrayInv
    <3>5. SumsAt' => Sums(addr')
      BY <1>8, <3>2 DEF DataInv, ArrayInv
    <3> QED BY <1>1, <1>8, <3>3, <3>4, <3>5, SumFrame DEF ArrayInv
  <2>2. Reading => ReadData(addr', prot', pflags', i)
    <3> SUFFICES ASSUME Reading PROVE ReadData(addr', prot', pflags', i)
      OBVIOUS
    <3>1. Loads(p)
      BY <1>1, <1>6, <1>10 DEF Dirties, Syncs
    <3>2. ReadData(addr, prot, pflags, i)
      BY DEF DataInv, ReadInv
    <3>3. \A e \in Elem : Fresh(addr', prot', pflags', i, e)
      BY <1>1, <3>1, <3>2, LoadData DEF p, ReadData, Fresh
    <3>4. ~build.GHOST
      BY <1>1, <3>1, LoadData DEF p
    <3> QED BY <3>2, <3>3, <3>4 DEF ReadData
  <2>3. Updating => UpdateData(addr', prot', pflags', i)
    <3> SUFFICES ASSUME Updating PROVE UpdateData(addr', prot', pflags', i)
      OBVIOUS
    <3>1. UpdateData(addr, prot, pflags, i)
      BY DEF DataInv, UpdateInv
    <3>2. CASE ~build.LOAD
      <4>1. addr' = addr /\ ~build.GHOST /\ ~Blind /\ ~Lost
        BY <1>5, <1>7, <3>2 DEF Loads, Stored, Blind, Lost
      <4> QED BY <3>1, <3>2, <4>1 DEF UpdateData
    <3>3. CASE build.LOAD /\ Dirties(p)
      <4>1. /\ addr' = addr /\ Blind
            /\ prot' = [prot EXCEPT ![p] = "write"] /\ pflags' = [pflags EXCEPT ![p] = {DIRTY}]
        BY <1>6, <3>3 DEF Dirties, MakeDirty
      <4>2. \A q \in Page : Ready(prot', pflags', i, q) <=> Ready(prot, pflags, i, q)
        <5> SUFFICES ASSUME NEW q \in Page
                     PROVE  Ready(prot', pflags', i, q) <=> Ready(prot, pflags, i, q)
          OBVIOUS
        <5>1. CASE q = p
          <6>1. ~Ready(prot, pflags, i, q)
            BY <3>1, <4>1 DEF UpdateData
          <6>2. pflags'[q] = {DIRTY}
            BY <1>1, <1>4, <4>1, <5>1
          <6> QED BY <1>1, <6>1, <6>2 DEF Ready, DIRTY, ONDISK
        <5>2. CASE q # p
          <6>1. prot'[q] = prot[q] /\ pflags'[q] = pflags[q]
            BY <1>1, <1>4, <4>1, <5>2
          <6> QED BY <1>1, <6>1 DEF Ready
        <5> QED BY <5>1, <5>2
      <4>3. \A e \in Elem : Fresh(addr', prot', pflags', i, e) <=> Fresh(addr, prot, pflags, i, e)
        BY <4>1, <4>2, Pages DEF Fresh
      <4>4. ~ByElement
        BY <1>1 DEF ByElement
      <4> QED BY <3>1, <3>3, <4>1, <4>2, <4>3, <4>4 DEF UpdateData
    <3>4. CASE Loads(p)
      <4>1. /\ \A e \in Elem : \/ Fresh(addr', prot', pflags', i, e)
                               \/ addr'[e] = addr[e] /\ (Ready(prot', pflags', i, PageOf(e))
                                                         <=> Ready(prot, pflags, i, PageOf(e)))
            /\ \A n \in Elem : n < i => addr'[Nth(n)] = addr[Nth(n)]
            /\ ~build.GHOST /\ ~Blind /\ build.LOAD
        BY <1>1, <3>4, LoadData DEF p
      <4>2. \A e \in Elem : \/ \E n \in Elem : n < i /\ Nth(n) = e
                            \/ Fresh(addr', prot', pflags', i, e)
        BY <3>1, <4>1 DEF UpdateData, Fresh
      <4>3. \A n \in Elem : n < i => Undone(addr', n) = Undone(addr, n)
        <5> SUFFICES ASSUME NEW n \in Elem, n < i PROVE Undone(addr', n) = Undone(addr, n)
          OBVIOUS
        <5>1. CASE n = 0
          BY <4>1, <5>1 DEF Undone, Preceding
        <5>2. CASE n # 0
          <6>1. n - 1 \in Elem /\ n - 1 < i
            BY <1>4, <5>2, Sizes
          <6> QED BY <4>1, <5>2, <6>1 DEF Undone, Preceding
        <5> QED BY <5>1, <5>2
      <4>4. /\ i > 0 => addr'[Nth(0)] = addr[Nth(0)]
            /\ i > 1 => addr'[Nth(1)] = addr[Nth(1)]
        <5>1. 0 \in Elem /\ 1 \in Elem /\ i \in Nat
          BY <1>4, Sizes
        <5>2. (i > 0 => 0 < i) /\ (i > 1 => 1 < i)
          BY <5>1
        <5> QED BY <4>1, <5>1, <5>2
      <4>5. ~ByElement
        BY <1>1 DEF ByElement
      <4> QED BY <3>1, <4>1, <4>2, <4>3, <4>4, <4>5 DEF UpdateData
    <3>5. ~Syncs(p) \/ ~build.LOAD
      BY <1>6 DEF Syncs
    <3> QED BY <1>1, <1>10, <3>2, <3>3, <3>4, <3>5
  <2>4. ReadInv'
    <3>1. Reading' => ReadData(addr', prot', pflags', i')
      BY <1>3, <1>8, <2>2
    <3> QED BY <1>1, <1>3, <3>1, ReadFrame DEF DataInv, ReadInv, ByElement
  <2>5. UpdateInv'
    BY <1>1, <1>3, <1>8, <2>3, UpdateFrame DEF UpdateInv
  <2>6. RevertInv'
    BY <1>1, <1>3, <1>8, Frame DEF DataInv, RevertInv, ByElement, Lost
  <2> QED BY <2>1, <2>4, <2>5, <2>6
<1> QED BY <1>2, <1>10

-----------------------------------------------------------------------------
(* Pages fetched with their first element *)

\* Which pages libc has read after the n-th element used
LEMMA Seen ==
  ASSUME TypeOK, ByElement, NEW n \in Elem
  PROVE  /\ ~Early(n) => \/ \A k \in Nat : n < k => Ready(prot, pflags, k, PageOf(Nth(n)))
                         \/ n = 0 /\ rnum[Nth(0)] = 0
         /\ Early(n) => ~Ready(prot, pflags, n + 1, PageOf(Nth(n)))
<1>1. n \in Nat /\ \A m : m \in 0 .. n <=> m \in Elem /\ m < n + 1
  BY Sizes
<1>2. ASSUME ~Early(n), ~(n = 0 /\ rnum[Nth(0)] = 0), NEW k \in Nat, n < k
      PROVE  Ready(prot, pflags, k, PageOf(Nth(n)))
  <2>1. PICK m \in 0 .. n : PageOf(Nth(m)) = PageOf(Nth(n)) /\ Nth(m) % PerPage = 0
    <3>1. CASE Nth(n) % PerPage = 0
      <4>1. n \in 0 .. n
        BY <1>1
      <4> QED BY <3>1, <4>1
    <3>2. CASE Nth(n) % PerPage # 0
      <4>1. n > 0 \/ rnum[Nth(0)] # 0
        BY <1>1, <1>2
      <4> QED BY <1>2, <3>2, <4>1 DEF Early
    <3> QED BY <3>1, <3>2
  <2>2. m \in Elem /\ m < k
    BY <1>1, <1>2
  <2> QED BY <2>1, <2>2 DEF Ready, ByElement
<1>3. ASSUME Early(n) PROVE ~Ready(prot, pflags, n + 1, PageOf(Nth(n)))
  <2>1. \A m \in Elem : m < n + 1 /\ PageOf(Nth(m)) = PageOf(Nth(n)) => Nth(m) % PerPage # 0
    BY <1>1, <1>3 DEF Early
  <2> QED BY <2>1 DEF Ready, ByElement
<1> QED BY <1>2, <1>3

\* What an iteration that fetches the page of its element leaves
LEMMA FetchedPage ==
  ASSUME DataInv, Reading \/ Updating, build.LOAD, FetchesPage(Nth(i)) => CanRead,
         NEW a, a = FetchPage(Nth(i))
  PROVE  /\ a \in [Elem -> Nat]
         /\ \A e \in Elem : \/ Fresh(a, prot, pflags, i + 1, e)
                            \/ a[e] = addr[e] /\ (Ready(prot, pflags, i + 1, PageOf(e))
                                                  <=> Ready(prot, pflags, i, PageOf(e)))
         /\ ~FetchesPage(Nth(i)) =>
              a = addr /\ \A p : Ready(prot, pflags, i + 1, p) <=> Ready(prot, pflags, i, p)
         /\ FetchesPage(Nth(i)) =>
              /\ Ready(prot, pflags, i + 1, PageOf(Nth(i)))
              /\ \A e \in Elem : a[e] = IF PageOf(e) = PageOf(Nth(i)) THEN file[e] ELSE addr[e]
<1>1. TypeOK /\ i \in Elem /\ i \in Nat /\ build \in Build /\ rnum \in Shuffles
  BY Typed
<1>2. (\A m \in Elem : m < i + 1 <=> m < i \/ m = i) /\ Nth(i) \in Elem
  <2>1. \A m \in Elem : m < i + 1 <=> m < i \/ m = i
    BY <1>1, Elements
  <2>2. Nth(i) \in Elem
    BY <1>1, Order
  <2> QED BY <2>1, <2>2
<1>3. a \in [Elem -> Nat]
  BY <1>1, Contents
<1>4. ASSUME ~FetchesPage(Nth(i))
      PROVE  a = addr /\ \A p : Ready(prot, pflags, i + 1, p) <=> Ready(prot, pflags, i, p)
  <2>1. a = addr
    BY <1>4 DEF FetchPage
  <2>2. ByElement => Nth(i) % PerPage # 0
    BY <1>2, <1>4, Aligned
  <2> QED BY <1>2, <2>1, <2>2 DEF Ready, ByElement
<1>5. ASSUME FetchesPage(Nth(i))
      PROVE  /\ Ready(prot, pflags, i + 1, PageOf(Nth(i)))
             /\ \A e \in Elem : a[e] = IF PageOf(e) = PageOf(Nth(i)) THEN file[e] ELSE addr[e]
             /\ \A p : p # PageOf(Nth(i)) =>
                  (Ready(prot, pflags, i + 1, p) <=> Ready(prot, pflags, i, p))
  <2>1. ByElement /\ Nth(i) % PerPage = 0
    BY <1>2, <1>5, Aligned
  <2>2. Ready(prot, pflags, i + 1, PageOf(Nth(i)))
    BY <1>1, <1>2, <2>1 DEF Ready, ByElement
  <2>3. \A e \in Elem : a[e] = IF PageOf(e) = PageOf(Nth(i)) THEN file[e] ELSE addr[e]
    BY <1>2, <1>5, Aligned
  <2> QED BY <1>2, <2>1, <2>2, <2>3 DEF Ready, ByElement
<1>6. ASSUME NEW e \in Elem
      PROVE  \/ Fresh(a, prot, pflags, i + 1, e)
             \/ a[e] = addr[e] /\ (Ready(prot, pflags, i + 1, PageOf(e))
                                   <=> Ready(prot, pflags, i, PageOf(e)))
  BY <1>4, <1>5 DEF Fresh
<1> QED BY <1>3, <1>4, <1>5, <1>6

-----------------------------------------------------------------------------
(* "read" *)

LEMMA ReadingAt ==
  ASSUME TypeOK, Reading
  PROVE  /\ build.RD /\ build.LOAD /\ pc = DropEnd + 2 /\ ReadEnd = DropEnd + 4
         /\ DropEnd = SaveEnd + 2 /\ SaveEnd = WriteEnd + 3
         /\ WriteEnd = IF build.WR THEN 7 ELSE 4
         /\ Stored /\ Saved /\ ~Done
BY Where DEF Reading, Stored, Saved

\* The pages the loop was at have been read, where they are read with a fault.
LEMMA ReadReady ==
  ASSUME DataInv, Reading, Runs, build.SBMA, NEW n \in Elem, n <= i
  PROVE  \A k : Ready(prot, pflags, k, PageOf(Nth(n)))
<1>1. /\ TypeOK /\ n \in Nat /\ i \in Nat /\ build \in Build /\ rnum \in Shuffles
  BY Typed, Elements
<1>2. PageOf(Nth(n)) \in Page
  BY <1>1, Order, Pages
<1>3. prot[PageOf(Nth(n))] = "write"
  <2>1. CASE n = i
    BY <2>1, Ran DEF DataInv
  <2>2. CASE n < i
    BY <2>2 DEF DataInv, MemInv, AccessInv
  <2> QED BY <1>1, <2>1, <2>2
<1>4. Stored /\ ~(pc > ReadEnd + 1)
  <2>1. Stored /\ pc = DropEnd + 2 /\ ReadEnd = DropEnd + 4 /\ DropEnd \in Nat
    BY <1>1, ReadingAt, Where
  <2> QED BY <2>1
<1>5. pflags[PageOf(Nth(n))] = {ONDISK}
  BY <1>2, <1>4 DEF DataInv, MemInv, FlagsInv
<1> QED BY <1>3, <1>5 DEF Ready

\* What was written is read again.
LEMMA ReadValues ==
  ASSUME DataInv, Reading, Runs, build.WR, FetchesPage(Nth(i)) => CanRead,
         NEW n \in Elem, n <= i, ByElement => ~Early(n)
  PROVE  FetchPage(Nth(i))[Nth(n)] = file[Nth(n)]
<1> DEFINE a == FetchPage(Nth(i))
<1>1. /\ TypeOK /\ n \in Nat /\ i \in Nat /\ build \in Build /\ rnum \in Shuffles
  BY Typed, Elements
<1>2. Nth(n) \in Elem /\ PageOf(Nth(n)) \in Page /\ n < i + 1 /\ i + 1 \in Nat
  <2>1. n < i + 1 /\ i + 1 \in Nat
    BY <1>1
  <2> QED BY <1>1, <2>1, Order, Pages
<1>3. build.LOAD /\ Saved /\ ~Done
  BY <1>1, ReadingAt
<1>4. ReadData(addr, prot, pflags, i)
  BY DEF DataInv, ReadInv
<1>5. Fresh(a, prot, pflags, i + 1, Nth(n))
  BY <1>1, <1>2, <1>3, <1>4, FetchedPage DEF ReadData, Fresh
<1>6. \/ Ready(prot, pflags, i + 1, PageOf(Nth(n)))
      \/ n = 0 /\ rnum[Nth(0)] = 0
  <2>1. CASE build.SBMA
    BY <2>1, ReadReady
  <2>2. CASE ByElement
    BY <1>1, <1>2, <2>2, Seen
  <2>3. CASE ~build.SBMA /\ ~build.LAZY
    BY <2>3 DEF Ready
  <2> QED BY <2>1, <2>2, <2>3 DEF ByElement
<1>7. CASE n = 0 /\ rnum[Nth(0)] = 0
  <2>1. IsSum(file, n)
    BY <1>3 DEF DataInv, FileInv, Sums
  <2>2. file[Nth(n)] = 0
    BY <1>7, <2>1 DEF IsSum, Preceding
  <2> QED BY <1>5, <2>2 DEF Fresh
<1>8. CASE Ready(prot, pflags, i + 1, PageOf(Nth(n)))
  BY <1>5, <1>8 DEF Fresh
<1> QED BY <1>6, <1>7, <1>8

\* In a build that is not broken the assertions of "read" hold.
LEMMA ReadSucceeds ==
  ASSUME DataInv, Reading, Runs, ~Broken
  PROVE  /\ CanRead
         /\ FetchPage(Nth(i))[Nth(i)] = Preceding(FetchPage(Nth(i)), i) + rnum[Nth(i)]
<1> DEFINE a == FetchPage(Nth(i))
<1>1. /\ TypeOK /\ i \in Elem /\ i \in Nat
  BY Typed
<1>2. build.LOAD /\ build.RD /\ Saved /\ ~Done
  BY <1>1, ReadingAt
<1>3. build.WR /\ ~build.GHOST /\ (ByElement => \A n \in Elem : ~Early(n))
  BY <1>2 DEF Broken, ByElement
<1>4. file # None /\ Sums(file)
  BY <1>2, <1>3 DEF DataInv, FileInv
<1>5. CanRead
  BY <1>3, <1>4 DEF CanRead
<1>6. a[Nth(i)] = file[Nth(i)]
  BY <1>1, <1>3, <1>5, ReadValues
<1>7. Preceding(a, i) = Preceding(file, i)
  <2>1. CASE i = 0
    BY <2>1 DEF Preceding
  <2>2. CASE i # 0
    <3>1. i - 1 \in Elem /\ i - 1 <= i
      BY <1>1, <2>2, Sizes
    <3>2. a[Nth(i - 1)] = file[Nth(i - 1)]
      BY <1>1, <1>3, <1>5, <3>1, ReadValues
    <3> QED BY <2>2, <3>2 DEF Preceding
  <2> QED BY <2>1, <2>2
<1> QED BY <1>1, <1>4, <1>5, <1>6, <1>7 DEF Sums, IsSum

\* What an iteration that goes on has found
LEMMA ReadOn ==
  ASSUME DataInv, Reading, Runs, FetchesPage(Nth(i)) => CanRead,
         FetchPage(Nth(i))[Nth(i)] = Preceding(FetchPage(Nth(i)), i) + rnum[Nth(i)]
  PROVE  /\ ReadData(FetchPage(Nth(i)), prot, pflags, i + 1)
         /\ build.GHOST => ByElement
<1> DEFINE a == FetchPage(Nth(i))
<1>1. /\ TypeOK /\ i \in Elem /\ i \in Nat /\ build \in Build /\ rnum \in Shuffles
  BY Typed
<1>2. /\ \A n \in Elem : Nth(n) \in Elem /\ rnum[n] \in Nat
      /\ \A n, m \in Elem : Nth(n) = Nth(m) => n = m
      /\ \A n, m \in Elem : rnum[n] = rnum[m] => n = m
  BY <1>1, Order
<1>3. PageOf(Nth(i)) \in Page
  BY <1>1, <1>2, Pages
<1>4. build.LOAD /\ Saved /\ ~Done
  BY <1>1, ReadingAt
<1>5. ReadData(addr, prot, pflags, i)
  BY DEF DataInv, ReadInv
<1>6. a \in [Elem -> Nat]
  BY <1>1, <1>4, FetchedPage
<1>7. \A n \in Elem : n < i + 1 <=> n < i \/ n = i
  BY <1>1, Sizes
<1>8. \A e \in Elem : Fresh(a, prot, pflags, i + 1, e)
  BY <1>1, <1>4, <1>5, FetchedPage DEF ReadData, Fresh
<1>9. ASSUME build.GHOST
      PROVE  ByElement /\ \A p \in Page : ~Ready(prot, pflags, i + 1, p)
  <2>1. \A p \in Page : ~Ready(prot, pflags, i, p)
    BY <1>5, <1>9 DEF ReadData
  <2>2. ~build.SBMA
    BY <1>1, <1>3, <2>1, ReadReady
  <2>3. build.LAZY
    BY <1>3, <2>1, <2>2 DEF Ready
  <2>4. ~FetchesPage(Nth(i))
    BY <1>9 DEF CanRead
  <2> QED BY <1>1, <1>4, <2>1, <2>2, <2>3, <2>4, FetchedPage DEF ByElement
<1>10. ASSUME ~build.WR PROVE rnum[Nth(i)] = 0
  <2>1. Zero(file)
    BY <1>4, <1>10 DEF DataInv, FileInv
  <2>2. \A e \in Elem : a[e] = 0
    BY <1>8, <2>1 DEF Fresh, Zero
  <2>3. Preceding(a, i) = 0
    <3>1. CASE i = 0
      BY <3>1 DEF Preceding
    <3>2. CASE i # 0
      <4>1. i - 1 \in Elem
        BY <1>1, <3>2, Sizes
      <4> QED BY <1>2, <2>2, <3>2, <4>1 DEF Preceding
    <3> QED BY <3>1, <3>2
  <2>4. Nth(i) \in Elem /\ rnum[Nth(i)] \in Nat
    BY <1>1, <1>2
  <2> QED BY <2>2, <2>3, <2>4
<1>11. ASSUME ByElement, build.WR PROVE ~Early(i)
  <2> SUFFICES ASSUME Early(i) PROVE FALSE
    OBVIOUS
  <2>1. ~Ready(prot, pflags, i + 1, PageOf(Nth(i)))
    BY <1>1, <1>11, Seen
  <2>2. a[Nth(i)] = 0
    BY <1>1, <1>2, <1>8, <2>1 DEF Fresh
  <2>3. Nth(i) \in Elem /\ rnum[Nth(i)] \in Nat /\ Preceding(a, i) \in Nat
    BY <1>1, <1>2, <1>6, Contents
  <2>4. rnum[Nth(i)] = 0 /\ Preceding(a, i) = 0
    BY <2>2, <2>3
  <2>5. i # 0
    BY <1>1, <2>4 DEF Early
  <2>6. /\ i - 1 \in Elem /\ i - 1 < i /\ i - 1 <= i /\ i - 1 # i
    BY <1>1, <2>5, Sizes
  <2>7. ~Early(i - 1)
    BY <1>5, <1>11, <2>6 DEF ReadData
  <2>8. a[Nth(i - 1)] = file[Nth(i - 1)]
    BY <1>11, <2>6, <2>7, ReadValues
  <2>9. file[Nth(i - 1)] = 0
    BY <2>4, <2>5, <2>8 DEF Preceding
  <2>10. IsSum(file, i - 1) /\ file \in [Elem -> Nat]
    BY <1>1, <1>4, <1>11, <2>6 DEF DataInv, FileInv, Sums, TypeOK
  <2>11. Preceding(file, i - 1) \in Nat /\ rnum[Nth(i - 1)] \in Nat
    BY <1>1, <1>2, <2>6, <2>10, Contents
  <2>12. rnum[Nth(i - 1)] = 0
    BY <2>9, <2>10, <2>11 DEF IsSum
  <2>13. Nth(i - 1) = Nth(i)
    BY <1>1, <1>2, <2>4, <2>6, <2>12
  <2> QED BY <1>1, <1>2, <2>6, <2>13
<1>12. ReadData(a, prot, pflags, i + 1)
  BY <1>5, <1>7, <1>8, <1>9, <1>10, <1>11 DEF ReadData
<1> QED BY <1>9, <1>12

LEMMA ReadStep ==
  ASSUME DataInv, Read, ~aborted'
  PROVE  ArrayInv' /\ ReadInv' /\ UpdateInv' /\ RevertInv'
<1> DEFINE a == FetchPage(Nth(i))
<1>1. /\ UNCHANGED <<conf, prot, pflags, file>> /\ ~Done /\ Program[pc] = "read" /\ Iterate
      /\ Runs /\ addr' = a /\ (FetchesPage(Nth(i)) => CanRead)
      /\ a[Nth(i)] = Preceding(a, i) + rnum[Nth(i)]
  BY DEF Read, At, Abort
<1>2. /\ build' = build /\ rnum' = rnum
      /\ WriteEnd' = WriteEnd /\ SaveEnd' = SaveEnd /\ DropEnd' = DropEnd
      /\ ReadEnd' = ReadEnd /\ UpdateEnd' = UpdateEnd /\ \A n : Nth(n)' = Nth(n)
      /\ \A n : Early(n)' <=> Early(n)
  BY <1>1, Frame
<1>3. TypeOK /\ build \in Build /\ pc \in Nat /\ i \in Elem /\ i \in Nat /\ rnum \in Shuffles
      /\ pc \in 1 .. Len(Program) + 1
  BY Typed
<1>4. Reading
  BY <1>1, <1>3, Whereabouts
<1>5. ReadData(a, prot, pflags, i + 1) /\ (build.GHOST => ByElement)
  BY <1>1, <1>4, ReadOn
<1>6. /\ build.RD /\ build.LOAD /\ pc = DropEnd + 2 /\ ReadEnd = DropEnd + 4
      /\ DropEnd = SaveEnd + 2 /\ SaveEnd = WriteEnd + 3
      /\ WriteEnd = IF build.WR THEN 7 ELSE 4
  BY <1>3, <1>4, ReadingAt
<1>7. \/ pc' = pc /\ i' = i + 1
      \/ pc' = pc + 1 /\ i' = 0 /\ i + 1 \notin Elem /\ i = N - 1
  BY <1>1, <1>3, Iterated
<1>8. /\ ~Writing' /\ ~SumsAt' /\ ~ZeroAt' /\ ~Updating' /\ ~Reverting'
      /\ ~(pc' > ReadEnd + 3) /\ pc > 2
      /\ Reading' => i' = i + 1
  <2>1. pc' = pc \/ pc' = pc + 1
    BY <1>7
  <2>2. DropEnd \in Nat /\ DropEnd >= 9 /\ pc' \in Nat /\ (build.WR => DropEnd = 12)
    BY <1>3, <1>6, <2>1
  <2>3. ~Updating' /\ ~Reverting' /\ ~(pc' > ReadEnd + 3) /\ pc > 2
    BY <1>2, <1>6, <2>1, <2>2 DEF Updating, Reverting
  <2>4. ~Writing' /\ ~SumsAt'
    BY <1>2, <1>6, <2>1, <2>2 DEF Writing, SumsAt
  <2>5. ~ZeroAt'
    BY <1>2, <1>6, <2>1, <2>2 DEF ZeroAt, Flushed
  <2> QED BY <1>2, <1>6, <1>7, <2>2, <2>3, <2>4, <2>5 DEF Reading
<1>9. ArrayInv'
  <2>1. ~Stuck'
    BY <1>2, <1>3, <1>8 DEF DataInv, ArrayInv, Stuck
  <2> QED BY <1>8, <2>1 DEF ArrayInv
<1>10. Reading' => ReadData(addr', prot', pflags', i')
  BY <1>1, <1>5, <1>8
<1>11. ASSUME pc' > DropEnd + 2
       PROVE  /\ ~build.GHOST /\ build.WR
              /\ ByElement => \A n \in Elem : ~Early(n)
  <2>1. i + 1 \notin Elem /\ \A n \in Elem : n < i + 1
    <3>1. i = N - 1 /\ i + 1 \notin Elem
      BY <1>3, <1>6, <1>7, <1>11
    <3> QED BY <3>1, Sizes
  <2>2. build.WR
    <3> SUFFICES ASSUME ~build.WR PROVE FALSE
      OBVIOUS
    <3>1. 0 \in Elem /\ 1 \in Elem
      BY Sizes
    <3>2. rnum[Nth(0)] = 0 /\ rnum[Nth(1)] = 0
      BY <1>5, <2>1, <3>1 DEF ReadData
    <3>3. Nth(0) = Nth(1)
      BY <1>3, <3>1, <3>2, Order
    <3>4. 0 = 1
      BY <1>3, <3>1, <3>3, Order
    <3> QED BY <3>4
  <2>3. ~build.GHOST
    <3> SUFFICES ASSUME build.GHOST, ByElement PROVE FALSE
      BY <1>5
    <3>1. 0 \in Page
      BY Sizes DEF Page
    <3>2. PICK e \in Elem : PageOf(e) = 0 /\ e % PerPage = 0
      BY <3>1, Pages
    <3>3. PICK n \in Elem : Nth(n) = e
      BY <1>3, Order
    <3>4. Ready(prot, pflags, i + 1, 0)
      BY <2>1, <3>2, <3>3 DEF Ready, ByElement
    <3> QED BY <1>5, <3>1, <3>4 DEF ReadData
  <2>4. ByElement => \A n \in Elem : ~Early(n)
    BY <1>5, <2>1, <2>2 DEF ReadData
  <2> QED BY <2>2, <2>3, <2>4
<1>12. ReadInv'
  BY <1>1, <1>2, <1>10, <1>11, ReadFrame DEF ReadInv, ByElement
<1>13. UpdateInv' /\ RevertInv'
  BY <1>2, <1>8 DEF UpdateInv, RevertInv
<1> QED BY <1>9, <1>12, <1>13

-----------------------------------------------------------------------------
(* "update" *)

LEMMA UpdatingAt ==
  ASSUME TypeOK, Updating
  PROVE  /\ build.RW /\ pc = ReadEnd + 2 /\ ReadEnd \in Nat /\ 4 <= ReadEnd
         /\ build.LOAD => Stored /\ Saved /\ 9 <= ReadEnd
         /\ build.WR => 12 <= ReadEnd
         /\ build.RD => DropEnd \in Nat /\ ReadEnd = DropEnd + 4
         /\ DropEnd \in Nat /\ DropEnd <= ReadEnd
         /\ ~Done
<1>1. /\ SaveEnd \in Nat /\ DropEnd \in Nat /\ ReadEnd \in Nat /\ pc \in Nat
      /\ WriteEnd = IF build.WR THEN 7 ELSE 4
      /\ SaveEnd = IF build.LOAD THEN WriteEnd + 3 ELSE WriteEnd
      /\ DropEnd = IF build.LOAD THEN SaveEnd + 2 ELSE SaveEnd
      /\ ReadEnd = IF build.RD THEN DropEnd + 4 ELSE DropEnd
      /\ build.WR => build.LOAD
  BY Where
<1>2. build.RW /\ pc = ReadEnd + 2 /\ ~Done
  BY Apart DEF Updating
<1> QED BY <1>1, <1>2 DEF Stored, Saved

\* Array a after the update of the element the iteration is about
Added(a) == [a EXCEPT ![Nth(i)] = @ + Preceding(a, i) + rnum[Nth(i)]]

\* What the update of an element changes
LEMMA Updated ==
  ASSUME TypeOK, NEW a \in [Elem -> Nat]
  PROVE  LET u == Added(a) IN
         /\ u \in [Elem -> Nat]
         /\ \A e \in Elem : e # Nth(i) => u[e] = a[e]
         /\ \A n \in Elem : n # i => u[Nth(n)] = a[Nth(n)]
         /\ u[Nth(i)] = a[Nth(i)] + Preceding(a, i) + rnum[Nth(i)]
         /\ Preceding(a, i) \in Nat /\ rnum[Nth(i)] \in Nat /\ a[Nth(i)] \in Nat
         /\ \A n \in Elem : n # i + 1 => Preceding(u, n) = Preceding(a, n)
         /\ \A n \in Elem : n < i => Undone(u, n) = Undone(a, n)
         /\ Undone(u, i) = a[Nth(i)]
<1> DEFINE u == Added(a)
<1>1. /\ i \in Elem /\ i \in Nat /\ build \in Build /\ rnum \in Shuffles
  BY Sizes DEF TypeOK
<1>2. /\ \A n \in Elem : Nth(n) \in Elem /\ rnum[n] \in Nat
      /\ \A n, m \in Elem : Nth(n) = Nth(m) => n = m
  BY <1>1, Order
<1>3. Preceding(a, i) \in Nat /\ rnum[Nth(i)] \in Nat /\ a[Nth(i)] \in Nat
  BY <1>1, <1>2, Contents
<1>4. /\ u \in [Elem -> Nat]
      /\ \A e \in Elem : e # Nth(i) => u[e] = a[e]
      /\ u[Nth(i)] = a[Nth(i)] + Preceding(a, i) + rnum[Nth(i)]
  BY <1>1, <1>2, <1>3 DEF Added
<1> HIDE DEF u
<1>5. \A n \in Elem : n # i => u[Nth(n)] = a[Nth(n)]
  BY <1>1, <1>2, <1>4
<1>6. ASSUME NEW n \in Elem, n # i + 1 PROVE Preceding(u, n) = Preceding(a, n)
  <2>1. CASE n = 0
    BY <2>1 DEF Preceding
  <2>2. CASE n # 0
    <3>1. n - 1 \in Elem /\ n - 1 # i
      BY <1>1, <1>6, <2>2, Sizes
    <3> QED BY <1>5, <2>2, <3>1 DEF Preceding
  <2> QED BY <2>1, <2>2
<1>7. ASSUME NEW n \in Elem, n < i PROVE Undone(u, n) = Undone(a, n)
  <2>1. n # i /\ n # i + 1
    BY <1>1, <1>7, Sizes
  <2> QED BY <1>5, <1>6, <2>1 DEF Undone
<1>8. Undone(u, i) = a[Nth(i)]
  <2>1. i # i + 1
    BY <1>1
  <2>2. Preceding(u, i) = Preceding(a, i)
    BY <1>1, <1>6, <2>1
  <2> QED BY <1>3, <1>4, <2>2 DEF Undone
<1> QED BY <1>3, <1>4, <1>5, <1>6, <1>7, <1>8 DEF u

\* An update of an array that no flush clears
LEMMA UpdateInPlace ==
  ASSUME DataInv, Updating, ~build.LOAD
  PROVE  UpdateData(Added(addr), prot, pflags, i + 1)
<1> DEFINE u == Added(addr)
<1>1. /\ TypeOK /\ i \in Elem /\ i \in Nat /\ build \in Build /\ rnum \in Shuffles
      /\ addr \in [Elem -> Nat]
  BY Typed
<1>2. /\ u \in [Elem -> Nat]
      /\ \A n \in Elem : n # i => u[Nth(n)] = addr[Nth(n)]
      /\ \A n \in Elem : n # i + 1 => Preceding(u, n) = Preceding(addr, n)
      /\ \A n \in Elem : n < i => Undone(u, n) = Undone(addr, n)
      /\ Undone(u, i) = addr[Nth(i)]
  BY <1>1, Updated
<1> HIDE DEF u
<1>3. \A n \in Elem :
        /\ n < i => Undone(addr, n) = UndonePreceding(addr, n) + rnum[Nth(n)]
        /\ n = i => addr[Nth(n)] = UndonePreceding(addr, n) + rnum[Nth(n)]
        /\ n > i => IsSum(addr, n)
  BY DEF DataInv, UpdateInv, UpdateData
<1>4. ~build.GHOST /\ ~Blind /\ ~Lost
  BY <1>1, Where DEF Blind, Lost
<1>5. ASSUME NEW n \in Elem
      PROVE  /\ n < i + 1 => Undone(u, n) = UndonePreceding(u, n) + rnum[Nth(n)]
             /\ n = i + 1 => u[Nth(n)] = UndonePreceding(u, n) + rnum[Nth(n)]
             /\ n > i + 1 => IsSum(u, n)
  <2>1. n \in Nat /\ (n # 0 => n - 1 \in Elem)
    BY Sizes
  <2>2. n < i + 1 => UndonePreceding(u, n) = UndonePreceding(addr, n)
    <3>1. n < i + 1 /\ n # 0 => n - 1 < i
      BY <1>1, <2>1
    <3> QED BY <1>2, <2>1, <3>1 DEF UndonePreceding
  <2>3. CASE n < i
    <3>1. n < i + 1 /\ ~(n = i + 1) /\ ~(n > i + 1)
      BY <1>1, <2>1, <2>3
    <3> QED BY <1>2, <1>3, <2>2, <2>3, <3>1
  <2>4. CASE n = i
    <3>1. n < i + 1 /\ ~(n = i + 1) /\ ~(n > i + 1)
      BY <1>1, <2>1, <2>4
    <3> QED BY <1>2, <1>3, <2>2, <2>4, <3>1
  <2>5. CASE n = i + 1
    <3>1. ~(n < i + 1) /\ ~(n > i + 1) /\ n > i /\ n # i /\ n # 0 /\ n - 1 = i
      BY <1>1, <2>1, <2>5
    <3>2. IsSum(addr, n)
      BY <1>3, <3>1
    <3>3. Preceding(addr, n) = addr[Nth(i)]
      BY <3>1 DEF Preceding
    <3>4. UndonePreceding(u, n) = addr[Nth(i)]
      BY <1>2, <3>1 DEF UndonePreceding
    <3>5. u[Nth(n)] = addr[Nth(n)]
      BY <1>2, <3>1
    <3> QED BY <2>5, <3>1, <3>2, <3>3, <3>4, <3>5 DEF IsSum
  <2>6. CASE n > i + 1
    <3>1. ~(n < i + 1) /\ ~(n = i + 1) /\ n > i /\ n # i
      BY <1>1, <2>1, <2>6
    <3>2. IsSum(addr, n)
      BY <1>3, <3>1
    <3>3. u[Nth(n)] = addr[Nth(n)] /\ Preceding(u, n) = Preceding(addr, n)
      BY <1>2, <3>1
    <3> QED BY <3>1, <3>2, <3>3 DEF IsSum
  <2> QED BY <1>1, <2>1, <2>3, <2>4, <2>5, <2>6
<1> QED BY <1>4, <1>5 DEF UpdateData, u

\* What an iteration finds in an element no iteration was at
LEMMA Untouched ==
  ASSUME DataInv, Updating, build.LOAD, FetchesPage(Nth(i)) => CanRead
  PROVE  LET a == FetchPage(Nth(i)) IN
         /\ a \in [Elem -> Nat]
         /\ \A e \in Elem : \/ \E n \in Elem : n < i /\ Nth(n) = e
                            \/ Fresh(a, prot, pflags, i + 1, e)
         /\ Fresh(a, prot, pflags, i + 1, Nth(i))
         /\ \A e \in Elem : \/ Fresh(a, prot, pflags, i + 1, e)
                            \/ a[e] = addr[e] /\ (Ready(prot, pflags, i + 1, PageOf(e))
                                                  <=> Ready(prot, pflags, i, PageOf(e)))
         /\ build.GHOST \/ Blind => \A p \in Page : ~Ready(prot, pflags, i + 1, p)
<1> DEFINE a == FetchPage(Nth(i))
<1>1. /\ TypeOK /\ i \in Elem /\ i \in Nat /\ build \in Build /\ rnum \in Shuffles
  BY Typed
<1>2. UpdateData(addr, prot, pflags, i)
  BY DEF DataInv, UpdateInv
<1>3. /\ a \in [Elem -> Nat]
      /\ \A e \in Elem : \/ Fresh(a, prot, pflags, i + 1, e)
                         \/ a[e] = addr[e] /\ (Ready(prot, pflags, i + 1, PageOf(e))
                                               <=> Ready(prot, pflags, i, PageOf(e)))
      /\ ~FetchesPage(Nth(i)) =>
           \A p : Ready(prot, pflags, i + 1, p) <=> Ready(prot, pflags, i, p)
  BY <1>1, FetchedPage
<1> HIDE DEF a
<1>4. \A e \in Elem : \/ \E n \in Elem : n < i /\ Nth(n) = e
                      \/ Fresh(addr, prot, pflags, i, e)
  BY <1>2 DEF UpdateData
<1>5. \A e \in Elem : Fresh(addr, prot, pflags, i, e) => Fresh(a, prot, pflags, i + 1, e)
  BY <1>3 DEF Fresh
<1>6. Fresh(a, prot, pflags, i + 1, Nth(i))
  <2>1. Nth(i) \in Elem /\ ~\E n \in Elem : n < i /\ Nth(n) = Nth(i)
    <3>1. \A n \in Elem : n < i => n # i
      BY <1>1, Sizes
    <3> QED BY <1>1, <3>1, Order
  <2> QED BY <1>4, <1>5, <2>1
<1>7. build.GHOST \/ Blind => \A p \in Page : ~Ready(prot, pflags, i + 1, p)
  <2>1. build.GHOST => ~FetchesPage(Nth(i))
    BY DEF CanRead
  <2>2. Blind => ~FetchesPage(Nth(i))
    BY <1>1, Where DEF Blind, FetchesPage
  <2> QED BY <1>2, <1>3, <2>1, <2>2 DEF UpdateData
<1> QED BY <1>3, <1>4, <1>5, <1>6, <1>7 DEF a

\* In a build that is not broken the page that is fetched was not used before.
LEMMA UnusedPage ==
  ASSUME DataInv, Updating, build.LOAD, FetchesPage(Nth(i)) => CanRead, ~Broken,
         NEW m \in Elem, m < i
  PROVE  FetchPage(Nth(i))[Nth(m)] = addr[Nth(m)]
<1> DEFINE a == FetchPage(Nth(i))
<1>1. /\ TypeOK /\ i \in Elem /\ i \in Nat /\ m \in Nat
      /\ build \in Build /\ rnum \in Shuffles
  BY Typed, Elements
<1>2. /\ Nth(m) \in Elem /\ Nth(i) \in Elem /\ rnum[Nth(m)] \in Nat
      /\ \A n, k \in Elem : Nth(n) = Nth(k) => n = k
  BY <1>1, Order
<1>3. CASE ~FetchesPage(Nth(i))
  BY <1>3 DEF FetchPage
<1>4. CASE FetchesPage(Nth(i))
  <2>1. \A e \in Elem : a[e] = IF PageOf(e) = PageOf(Nth(i)) THEN file[e] ELSE addr[e]
    BY <1>1, <1>4, FetchedPage
  <2>2. ByElement /\ Nth(i) % PerPage = 0
    BY <1>2, <1>4, Aligned
  <2>3. CASE PageOf(Nth(m)) # PageOf(Nth(i))
    BY <1>2, <2>1, <2>3
  <2>4. CASE PageOf(Nth(m)) = PageOf(Nth(i))
    <3>1. ~Early(m)
      BY <1>1, <2>2, UpdatingAt DEF Broken, ByElement
    <3>2. ~Ready(prot, pflags, i, PageOf(Nth(m)))
      <4> SUFFICES ASSUME Ready(prot, pflags, i, PageOf(Nth(m))) PROVE FALSE
        OBVIOUS
      <4>1. PICK k \in Elem : k < i /\ Nth(k) % PerPage = 0 /\ PageOf(Nth(k)) = PageOf(Nth(m))
        BY <2>2 DEF Ready, ByElement
      <4>2. Nth(k) \in Elem /\ PageOf(Nth(k)) = PageOf(Nth(i))
        BY <1>1, <2>4, <4>1, Order
      <4>3. Nth(k) = Nth(i)
        BY <1>2, <2>2, <4>1, <4>2, Pages
      <4>4. k = i
        BY <1>1, <1>2, <4>3
      <4> QED BY <1>1, <4>1, <4>4
    <3>3. m = 0 /\ rnum[Nth(0)] = 0
      BY <1>1, <2>2, <3>1, <3>2, Seen
    <3>4. Undone(addr, m) = file[Nth(m)]
      BY DEF DataInv, UpdateInv, UpdateData
    <3>5. addr[Nth(m)] = file[Nth(m)]
      <4>1. Preceding(addr, m) + rnum[Nth(m)] = 0
        BY <3>3 DEF Preceding
      <4>2. addr[Nth(m)] \in Nat
        BY <1>1, <1>2 DEF TypeOK
      <4> QED BY <3>4, <4>1, <4>2 DEF Undone
    <3> QED BY <1>2, <2>1, <2>4, <3>5
  <2> QED BY <2>3, <2>4
<1> QED BY <1>3, <1>4

\* In a build that is not broken an update adds to what is in the file.
LEMMA UpdateAdds ==
  ASSUME DataInv, Updating, Runs, build.LOAD, FetchesPage(Nth(i)) => CanRead, ~Broken,
         NEW n \in Elem, n < i + 1
  PROVE  Undone(Added(FetchPage(Nth(i))), n) = file[Nth(n)]
<1> DEFINE a == FetchPage(Nth(i))
           u == Added(a)
<1>1. /\ TypeOK /\ i \in Elem /\ i \in Nat /\ n \in Nat /\ build \in Build /\ rnum \in Shuffles
  BY Typed, Elements
<1>2. Nth(i) \in Elem /\ PageOf(Nth(i)) \in Page
  BY <1>1, Order, Pages
<1>3. build.RW /\ Stored /\ Saved /\ ~Done
  BY <1>1, UpdatingAt
<1>4. build.WR /\ ~Blind /\ (ByElement => \A k \in Elem : ~Early(k))
  BY <1>3 DEF Broken, ByElement, Blind
<1>5. /\ a \in [Elem -> Nat]
      /\ Fresh(a, prot, pflags, i + 1, Nth(i))
  BY Untouched
<1>6. /\ \A k \in Elem : k < i => Undone(u, k) = Undone(a, k)
      /\ Undone(u, i) = a[Nth(i)]
  BY <1>1, <1>5, Updated
<1> HIDE DEF u
<1>7. CASE n < i
  <2>1. a[Nth(n)] = addr[Nth(n)]
    BY <1>7, UnusedPage
  <2>2. Preceding(a, n) = Preceding(addr, n)
    <3>1. CASE n = 0
      BY <3>1 DEF Preceding
    <3>2. CASE n # 0
      <4>1. n - 1 \in Elem /\ n - 1 < i
        BY <1>1, <1>7, <3>2, Sizes
      <4>2. a[Nth(n - 1)] = addr[Nth(n - 1)]
        BY <4>1, UnusedPage
      <4> QED BY <3>2, <4>2 DEF Preceding
    <3> QED BY <3>1, <3>2
  <2>3. Undone(addr, n) = file[Nth(n)]
    BY <1>7 DEF DataInv, UpdateInv, UpdateData
  <2>4. Undone(a, n) = Undone(addr, n)
    BY <2>1, <2>2 DEF Undone
  <2> QED BY <1>6, <1>7, <2>3, <2>4 DEF u
<1>8. CASE n = i
  <2>1. \/ Ready(prot, pflags, i + 1, PageOf(Nth(i)))
        \/ i = 0 /\ rnum[Nth(0)] = 0
    <3>1. CASE build.SBMA
      <4>1. prot[PageOf(Nth(i))] = "write"
        BY Ran DEF DataInv
      <4>2. pflags[PageOf(Nth(i))] = {ONDISK}
        BY <1>2, <1>3, <1>4, <3>1 DEF DataInv, MemInv, FlagsInv
      <4> QED BY <3>1, <4>1, <4>2 DEF Ready
    <3>2. CASE ByElement
      <4>1. i < i + 1 /\ i + 1 \in Nat
        BY <1>1
      <4> QED BY <1>1, <1>4, <3>2, <4>1, Seen
    <3>3. CASE ~build.SBMA /\ ~build.LAZY
      BY <3>3 DEF Ready
    <3> QED BY <3>1, <3>2, <3>3 DEF ByElement
  <2>2. CASE i = 0 /\ rnum[Nth(0)] = 0
    <3>1. IsSum(file, i)
      BY <1>1, <1>3, <1>4 DEF DataInv, FileInv, Sums
    <3>2. file[Nth(i)] = 0
      BY <2>2, <3>1 DEF IsSum, Preceding
    <3> QED BY <1>5, <1>6, <1>8, <3>2 DEF Fresh, u
  <2>3. CASE Ready(prot, pflags, i + 1, PageOf(Nth(i)))
    BY <1>5, <1>6, <1>8, <2>3 DEF Fresh, u
  <2> QED BY <2>1, <2>2, <2>3
<1> QED BY <1>1, <1>7, <1>8

\* An update that has lost what was written makes less of the first two elements.
LEMMA UpdateLoses ==
  ASSUME DataInv, Updating, build.LOAD, FetchesPage(Nth(i)) => CanRead, Lost
  PROVE  LET u == Added(FetchPage(Nth(i))) IN
         /\ u[Nth(0)] <= rnum[Nth(0)]
         /\ i > 0 => u[Nth(1)] <= rnum[Nth(0)] + rnum[Nth(1)]
<1> DEFINE a == FetchPage(Nth(i))
           u == Added(a)
<1>1. /\ TypeOK /\ i \in Elem /\ i \in Nat /\ build \in Build /\ rnum \in Shuffles
      /\ 0 \in Elem /\ 1 \in Elem /\ addr \in [Elem -> Nat]
  BY Typed, Elements
<1>2. /\ Nth(0) \in Elem /\ rnum[Nth(0)] \in Nat
      /\ Nth(1) \in Elem /\ rnum[Nth(1)] \in Nat
      /\ Nth(i) \in Elem
  BY <1>1, Order
<1>3. /\ a \in [Elem -> Nat]
      /\ Fresh(a, prot, pflags, i + 1, Nth(i))
      /\ \A e \in Elem : Fresh(a, prot, pflags, i + 1, e) \/ a[e] = addr[e]
      /\ Blind => \A p \in Page : ~Ready(prot, pflags, i + 1, p)
  BY Untouched
<1>4. /\ \A n \in Elem : n # i => u[Nth(n)] = a[Nth(n)]
      /\ u[Nth(i)] = a[Nth(i)] + Preceding(a, i) + rnum[Nth(i)]
  BY <1>1, <1>3, Updated
<1> HIDE DEF a, u
<1>5. ASSUME NEW e \in Elem, Fresh(a, prot, pflags, i + 1, e) PROVE a[e] = 0
  <2>1. CASE ~build.WR
    <3>1. Saved /\ ~Done
      BY <1>1, UpdatingAt
    <3>2. file[e] = 0
      BY <2>1, <3>1 DEF DataInv, FileInv, Zero
    <3> QED BY <1>5, <3>2 DEF Fresh
  <2>2. CASE Blind
    BY <1>3, <1>5, <2>2, Pages DEF Fresh
  <2> QED BY <2>1, <2>2 DEF Lost
<1>6. a[Nth(i)] = 0 /\ \A e \in Elem : a[e] = 0 \/ a[e] = addr[e]
  BY <1>2, <1>3, <1>5
<1>7. /\ i > 0 => addr[Nth(0)] <= rnum[Nth(0)]
      /\ i > 1 => addr[Nth(1)] <= rnum[Nth(0)] + rnum[Nth(1)]
  BY DEF DataInv, UpdateInv, UpdateData
<1>8. i > 0 => a[Nth(0)] <= rnum[Nth(0)]
  BY <1>2, <1>6, <1>7
<1>9. a[Nth(0)] \in Nat
  BY <1>2, <1>3
<1>10. CASE i = 0
  BY <1>1, <1>2, <1>4, <1>6, <1>10 DEF Preceding, a, u
<1>11. CASE i = 1
  <2>1. u[Nth(0)] = a[Nth(0)]
    BY <1>1, <1>4, <1>11
  <2>2. u[Nth(1)] = a[Nth(0)] + rnum[Nth(1)]
    BY <1>2, <1>4, <1>6, <1>9, <1>11 DEF Preceding
  <2> QED BY <1>2, <1>8, <1>9, <1>11, <2>1, <2>2 DEF a, u
<1>12. CASE i > 1
  <2>1. u[Nth(0)] = a[Nth(0)] /\ u[Nth(1)] = a[Nth(1)]
    BY <1>1, <1>4, <1>12
  <2>2. a[Nth(1)] <= rnum[Nth(0)] + rnum[Nth(1)]
    BY <1>2, <1>6, <1>7, <1>12
  <2> QED BY <1>1, <1>8, <1>12, <2>1, <2>2 DEF a, u
<1> QED BY <1>1, <1>10, <1>11, <1>12

\* An update of an array that is read from the file
LEMMA UpdateFetched ==
  ASSUME DataInv, Updating, Runs, build.LOAD, FetchesPage(Nth(i)) => CanRead
  PROVE  UpdateData(Added(FetchPage(Nth(i))), prot, pflags, i + 1)
<1> DEFINE a == FetchPage(Nth(i))
           u == Added(a)
<1>1. /\ TypeOK /\ i \in Elem /\ i \in Nat /\ build \in Build /\ rnum \in Shuffles
  BY Typed
<1>2. /\ \A n \in Elem : Nth(n) \in Elem
      /\ \A n, m \in Elem : Nth(n) = Nth(m) => n = m
  BY <1>1, Order
<1>3. /\ a \in [Elem -> Nat]
      /\ \A e \in Elem : \/ \E n \in Elem : n < i /\ Nth(n) = e
                         \/ Fresh(a, prot, pflags, i + 1, e)
      /\ \A e \in Elem : \/ Fresh(a, prot, pflags, i + 1, e)
                         \/ a[e] = addr[e] /\ (Ready(prot, pflags, i + 1, PageOf(e))
                                               <=> Ready(prot, pflags, i, PageOf(e)))
      /\ build.GHOST \/ Blind => \A p \in Page : ~Ready(prot, pflags, i + 1, p)
  BY Untouched
<1>4. /\ \A e \in Elem : e # Nth(i) => u[e] = a[e]
      /\ \A n \in Elem : n # i => u[Nth(n)] = a[Nth(n)]
  BY <1>1, <1>3, Updated
<1>5. ~Broken => \A n \in Elem : n < i + 1 => Undone(u, n) = file[Nth(n)]
  BY UpdateAdds
<1>6. Lost => /\ u[Nth(0)] <= rnum[Nth(0)]
              /\ i > 0 => u[Nth(1)] <= rnum[Nth(0)] + rnum[Nth(1)]
  BY UpdateLoses
<1> HIDE DEF u, a
<1>7. \A n \in Elem : n < i + 1 <=> n < i \/ n = i
  BY <1>1, Sizes
<1>8. \A e \in Elem : \/ \E n \in Elem : n < i + 1 /\ Nth(n) = e
                      \/ Fresh(u, prot, pflags, i + 1, e)
  <2> SUFFICES ASSUME NEW e \in Elem
               PROVE  \/ \E n \in Elem : n < i + 1 /\ Nth(n) = e
                      \/ Fresh(u, prot, pflags, i + 1, e)
    OBVIOUS
  <2>1. CASE e = Nth(i)
    BY <1>1, <1>7, <2>1
  <2>2. CASE e # Nth(i)
    <3>1. u[e] = a[e]
      BY <1>4, <2>2
    <3> QED BY <1>3, <1>7, <3>1 DEF Fresh
  <2> QED BY <2>1, <2>2
<1>9. ASSUME ByElement, NEW n \in Elem, n < i + 1, Early(n),
             Ready(prot, pflags, i + 1, PageOf(Nth(n)))
      PROVE  u[Nth(n)] = file[Nth(n)]
  <2>1. n # i
    BY <1>1, <1>9, Seen
  <2>2. n < i /\ u[Nth(n)] = a[Nth(n)] /\ Nth(n) \in Elem
    BY <1>2, <1>4, <1>7, <1>9, <2>1
  <2>3. CASE Fresh(a, prot, pflags, i + 1, Nth(n))
    BY <1>9, <2>2, <2>3 DEF Fresh
  <2>4. CASE a[Nth(n)] = addr[Nth(n)] /\ Ready(prot, pflags, i, PageOf(Nth(n)))
    <3>1. addr[Nth(n)] = file[Nth(n)]
      BY <1>9, <2>2, <2>4 DEF DataInv, UpdateInv, UpdateData
    <3> QED BY <2>2, <2>4, <3>1
  <2> QED BY <1>3, <1>9, <2>2, <2>3, <2>4
<1>10. i + 1 > 1 => i > 0
  BY <1>1
<1> QED BY <1>3, <1>5, <1>6, <1>8, <1>9, <1>10 DEF UpdateData, u, a

\* What the assertions after the update start from
LEMMA AllUpdated ==
  ASSUME DataInv, Updating, Runs, i = N - 1, NEW u, UpdateData(u, prot, pflags, i + 1)
  PROVE  RevertData(u, 0)
<1>1. /\ TypeOK /\ i \in Elem /\ i \in Nat /\ build \in Build /\ rnum \in Shuffles
  BY Typed
<1>2. \A n \in Elem : n < i + 1 /\ n \in Nat /\ (n # 0 => n - 1 \in Elem /\ n - 1 < i + 1)
  BY Sizes
<1>3. i + 1 > 0 /\ i + 1 > 1
  BY Sizes
<1>4. build.RW /\ (build.LOAD => Stored /\ Saved /\ ~Done)
  BY <1>1, UpdatingAt
<1>5. ASSUME ByElement, NEW p \in Page PROVE Ready(prot, pflags, i + 1, p)
  <2>1. PICK e \in Elem : PageOf(e) = p /\ e % PerPage = 0
    BY Pages
  <2>2. PICK n \in Elem : Nth(n) = e
    BY <1>1, Order
  <2> QED BY <1>2, <1>5, <2>1, <2>2 DEF Ready, ByElement
<1>6. build.GHOST => Blind
  <2> SUFFICES ASSUME build.GHOST, ~Blind PROVE FALSE
    OBVIOUS
  <2>1. PageOf(Nth(i)) \in Page
    BY <1>1, Order, Pages
  <2>2. ~Ready(prot, pflags, i + 1, PageOf(Nth(i)))
    BY <2>1 DEF UpdateData
  <2>3. ~ByElement
    BY <1>5, <2>1, <2>2
  <2>4. build.SBMA
    BY <2>2, <2>3 DEF Ready, ByElement
  <2>5. build.LOAD
    BY <1>1, Where
  <2>6. prot[PageOf(Nth(i))] = "write"
    BY Ran DEF DataInv
  <2>7. pflags[PageOf(Nth(i))] = {ONDISK}
    BY <1>4, <2>1, <2>4, <2>5 DEF DataInv, MemInv, FlagsInv
  <2> QED BY <2>2, <2>4, <2>6, <2>7 DEF Ready
<1>7. ASSUME build.LOAD => ~Broken, NEW n \in Elem
      PROVE  Undone(u, n) = UndonePreceding(u, n) + rnum[Nth(n)]
  <2>1. CASE ~build.LOAD
    BY <1>2, <2>1 DEF UpdateData
  <2>2. CASE build.LOAD
    <3>1. build.WR
      BY <1>4, <1>7, <2>2 DEF Broken
    <3>2. IsSum(file, n)
      BY <1>4, <2>2, <3>1 DEF DataInv, FileInv, Sums
    <3>3. \A m \in Elem : Undone(u, m) = file[Nth(m)]
      BY <1>2, <1>7, <2>2 DEF UpdateData
    <3>4. UndonePreceding(u, n) = Preceding(file, n)
      BY <1>2, <3>3 DEF UndonePreceding, Preceding
    <3> QED BY <3>2, <3>3, <3>4 DEF IsSum
  <2> QED BY <2>1, <2>2
<1>8. ASSUME build.LOAD, ByElement, NEW n \in Elem, Early(n) PROVE u[Nth(n)] = file[Nth(n)]
  <2>1. PageOf(Nth(n)) \in Page
    BY <1>1, Order, Pages
  <2> QED BY <1>2, <1>5, <1>8, <2>1 DEF UpdateData
<1>9. Lost => u[Nth(0)] <= rnum[Nth(0)] /\ u[Nth(1)] <= rnum[Nth(0)] + rnum[Nth(1)]
  BY <1>3 DEF UpdateData
<1>10. 0 <= 1 /\ ~(0 > 1)
  OBVIOUS
<1> QED BY <1>6, <1>7, <1>8, <1>9, <1>10 DEF RevertData

LEMMA UpdateStep ==
  ASSUME DataInv, Update, ~aborted'
  PROVE  ArrayInv' /\ ReadInv' /\ UpdateInv' /\ RevertInv'
<1>1. /\ UNCHANGED <<conf, prot, pflags, file>> /\ ~Done /\ Program[pc] = "update" /\ Iterate
      /\ Runs /\ (FetchesPage(Nth(i)) => CanRead) /\ addr' = Added(FetchPage(Nth(i)))
  BY DEF Update, At, Abort, Added
<1>2. /\ build' = build /\ rnum' = rnum
      /\ WriteEnd' = WriteEnd /\ SaveEnd' = SaveEnd /\ DropEnd' = DropEnd
      /\ ReadEnd' = ReadEnd /\ UpdateEnd' = UpdateEnd /\ \A n : Nth(n)' = Nth(n)
      /\ \A n : Early(n)' <=> Early(n)
  BY <1>1, Frame
<1>3. TypeOK /\ build \in Build /\ pc \in Nat /\ i \in Elem /\ i \in Nat /\ rnum \in Shuffles
      /\ pc \in 1 .. Len(Program) + 1
  BY Typed
<1>4. Updating
  BY <1>1, <1>3, Whereabouts
<1>5. UpdateData(addr', prot, pflags, i + 1)
  <2>1. CASE build.LOAD
    BY <1>1, <1>4, <2>1, UpdateFetched
  <2>2. CASE ~build.LOAD
    <3>1. FetchPage(Nth(i)) = addr
      BY <2>2 DEF FetchPage, FetchesPage
    <3> QED BY <1>1, <1>4, <2>2, <3>1, UpdateInPlace
  <2> QED BY <2>1, <2>2
<1>6. \/ pc' = pc /\ i' = i + 1
      \/ pc' = pc + 1 /\ i' = 0 /\ i + 1 \notin Elem /\ i = N - 1
  BY <1>1, <1>3, Iterated
<1>7. /\ ~Writing' /\ ~SumsAt' /\ ~ZeroAt' /\ ~Reading' /\ ~(pc' > ReadEnd + 3)
      /\ (Updating' => pc' = pc) /\ (Reverting' => pc' = pc + 1)
      /\ build.RD /\ pc' > DropEnd + 2 => pc > DropEnd + 2
      /\ pc > 2
  <2>1. pc' = pc \/ pc' = pc + 1
    BY <1>6
  <2>2. /\ build.RW /\ pc = ReadEnd + 2 /\ ReadEnd \in Nat /\ 4 <= ReadEnd
        /\ build.LOAD => 9 <= ReadEnd
        /\ build.WR => 12 <= ReadEnd
        /\ build.RD => DropEnd \in Nat /\ ReadEnd = DropEnd + 4
        /\ DropEnd \in Nat /\ DropEnd <= ReadEnd
    BY <1>3, <1>4, UpdatingAt
  <2>3. /\ SaveEnd \in Nat /\ SaveEnd <= DropEnd
        /\ build.WR => build.LOAD
        /\ build.LOAD => DropEnd = SaveEnd + 2
        /\ WriteEnd = IF build.WR THEN 7 ELSE 4
    BY <1>3, Where
  <2>4. ~Writing' /\ ~SumsAt'
    BY <1>2, <2>1, <2>2, <2>3 DEF Writing, SumsAt
  <2>5. ~ZeroAt'
    BY <1>2, <2>1, <2>2, <2>3 DEF ZeroAt, Flushed
  <2>6. ~Reading' /\ ~(pc' > ReadEnd + 3) /\ (Updating' => pc' = pc) /\ (Reverting' => pc' = pc + 1)
    BY <1>2, <2>1, <2>2 DEF Reading, Updating, Reverting
  <2>7. (build.RD /\ pc' > DropEnd + 2 => pc > DropEnd + 2) /\ pc > 2
    BY <2>1, <2>2
  <2> QED BY <2>4, <2>5, <2>6, <2>7
<1>8. ArrayInv'
  <2>1. ~Stuck'
    BY <1>2, <1>3, <1>7 DEF DataInv, ArrayInv, Stuck
  <2> QED BY <1>7, <2>1 DEF ArrayInv
<1>9. ReadInv'
  BY <1>1, <1>2, <1>7 DEF DataInv, ReadInv, ByElement
<1>10. UpdateInv'
  <2>1. Updating' => UpdateData(addr', prot', pflags', i')
    <3>1. pc' = pc => i' = i + 1
      BY <1>3, <1>6
    <3> QED BY <1>1, <1>5, <1>7, <3>1
  <2> QED BY <1>1, <2>1, UpdateFrame DEF UpdateInv
<1>11. RevertInv'
  <2>1. Reverting' => RevertData(addr', i')
    <3>1. pc' = pc + 1 => i' = 0 /\ i = N - 1
      BY <1>3, <1>6
    <3> QED BY <1>1, <1>4, <1>5, <1>7, <3>1, AllUpdated
  <2> QED BY <1>1, <1>2, <1>7, <2>1, RevertFrame DEF RevertInv
<1> QED BY <1>8, <1>9, <1>10, <1>11

-----------------------------------------------------------------------------
(* "revert" *)

LEMMA RevertingAt ==
  ASSUME TypeOK, Reverting
  PROVE  /\ build.RW /\ pc = ReadEnd + 3 /\ ReadEnd \in Nat /\ 4 <= ReadEnd /\ pc \in Nat
         /\ build.LOAD => Stored /\ Saved /\ 9 <= ReadEnd
         /\ build.WR => 12 <= ReadEnd
         /\ build.RD => DropEnd \in Nat /\ ReadEnd = DropEnd + 4
         /\ DropEnd \in Nat /\ DropEnd <= ReadEnd
         /\ ~Done
<1>1. /\ SaveEnd \in Nat /\ DropEnd \in Nat /\ ReadEnd \in Nat /\ pc \in Nat
      /\ WriteEnd = IF build.WR THEN 7 ELSE 4
      /\ SaveEnd = IF build.LOAD THEN WriteEnd + 3 ELSE WriteEnd
      /\ DropEnd = IF build.LOAD THEN SaveEnd + 2 ELSE SaveEnd
      /\ ReadEnd = IF build.RD THEN DropEnd + 4 ELSE DropEnd
      /\ build.WR => build.LOAD
  BY Where
<1>2. build.RW /\ pc = ReadEnd + 3 /\ ~Done
  BY Apart DEF Reverting
<1> QED BY <1>1, <1>2 DEF Stored, Saved

\* What the assertions of an iteration compare
Passes ==
  i # 0 => /\ i = 1 => Undone(addr, i - 1) = rnum[Nth(i - 1)]
           /\ Undone(addr, i) = Undone(addr, i - 1) + rnum[Nth(i)]

LEMMA Reverted ==
  ASSUME Revert
  PROVE  /\ ~aborted' => Passes /\ Iterate /\ UNCHANGED <<conf, memory, file>>
         /\ aborted' => ~Passes /\ UNCHANGED <<conf, pc, i, memory, file>>
<1>1. i # 0 => Preceding(addr, i) = addr[Nth(i - 1)]
  BY DEF Preceding
<1>2. ~aborted
  BY DEF Revert, At
<1> QED BY <1>1, <1>2 DEF Revert, Passes, Undone, Abort

\* What an iteration that goes on has found
LEMMA RevertOn ==
  ASSUME DataInv, Reverting, Passes
  PROVE  RevertData(addr, i + 1)
<1>1. /\ TypeOK /\ i \in Elem /\ i \in Nat /\ build \in Build /\ rnum \in Shuffles
      /\ 0 \in Elem /\ 1 \in Elem /\ addr \in [Elem -> Nat]
  BY Typed, Elements
<1>2. RevertData(addr, i)
  BY DEF DataInv, RevertInv
<1>3. /\ \A n \in Elem : Nth(n) \in Elem /\ rnum[n] \in Nat
      /\ \A n, m \in Elem : Nth(n) = Nth(m) => n = m
      /\ \A n, m \in Elem : rnum[n] = rnum[m] => n = m
  BY <1>1, Order
<1>4. ASSUME Lost PROVE i = 0
  <2> SUFFICES ASSUME i # 0 PROVE FALSE
    OBVIOUS
  <2>1. i <= 1 /\ addr[Nth(0)] <= rnum[Nth(0)] /\ addr[Nth(1)] <= rnum[Nth(0)] + rnum[Nth(1)]
    BY <1>2, <1>4 DEF RevertData
  <2>2. i = 1 /\ i - 1 = 0
    BY <1>1, <2>1
  <2>3. Undone(addr, 0) = rnum[Nth(0)] /\ Undone(addr, 1) = Undone(addr, 0) + rnum[Nth(1)]
    BY <2>2 DEF Passes
  <2>4. /\ rnum[Nth(0)] \in Nat /\ rnum[Nth(1)] \in Nat
        /\ addr[Nth(0)] \in Nat /\ addr[Nth(1)] \in Nat
    BY <1>1, <1>3
  <2>5. /\ Undone(addr, 0) = addr[Nth(0)] - (0 + rnum[Nth(0)])
        /\ Undone(addr, 1) = addr[Nth(1)] - (addr[Nth(0)] + rnum[Nth(1)])
    BY DEF Undone, Preceding
  <2>6. rnum[Nth(0)] = 0 /\ addr[Nth(0)] = 0
    <3>1. \A a, r \in Nat : a <= r /\ a - (0 + r) = r => a = 0 /\ r = 0
      OBVIOUS
    <3>2. addr[Nth(0)] - (0 + rnum[Nth(0)]) = rnum[Nth(0)]
      BY <2>3, <2>5
    <3> QED BY <2>1, <2>4, <3>1, <3>2
  <2>7. rnum[Nth(1)] = 0
    BY <2>1, <2>3, <2>4, <2>5, <2>6
  <2>8. Nth(0) = Nth(1)
    BY <1>1, <1>3, <2>6, <2>7
  <2>9. 0 = 1
    BY <1>1, <1>3, <2>8
  <2> QED BY <2>9
<1>5. ASSUME build.LOAD, build.WR, i # 0, NEW n \in Elem, n < i + 1
      PROVE  Undone(addr, n) = file[Nth(n)]
  <2>1. i - 1 \in Elem /\ n \in Nat
    BY <1>1, <1>5, Sizes
  <2>2. Sums(file)
    BY <1>1, <1>5, RevertingAt DEF DataInv, FileInv
  <2>3. ASSUME NEW m \in Elem, m < i PROVE Undone(addr, m) = file[Nth(m)]
    <3>1. CASE i = 1
      <4>1. m = 0 /\ i - 1 = 0
        BY <2>3, <3>1, Sizes
      <4>2. file[Nth(0)] = rnum[Nth(0)]
        <5>1. IsSum(file, 0) /\ rnum[Nth(0)] \in Nat
          BY <1>1, <1>3, <2>2 DEF Sums
        <5> QED BY <5>1 DEF IsSum, Preceding
      <4> QED BY <3>1, <4>1, <4>2 DEF Passes
    <3>2. CASE i > 1
      BY <1>2, <1>5, <2>3, <3>2 DEF RevertData
    <3> QED BY <1>1, <1>5, <3>1, <3>2
  <2>4. CASE n < i
    BY <2>3, <2>4
  <2>5. CASE n = i
    <3>1. i - 1 < i
      BY <1>1
    <3>2. Undone(addr, i - 1) = file[Nth(i - 1)]
      BY <2>1, <2>3, <3>1
    <3>3. file[Nth(i)] = file[Nth(i - 1)] + rnum[Nth(i)]
      BY <1>1, <1>5, <2>2 DEF Sums, IsSum, Preceding
    <3> QED BY <1>5, <2>5, <3>2, <3>3 DEF Passes
  <2> QED BY <1>1, <1>5, <2>1, <2>4, <2>5
<1>6. (i + 1 > 1 => i # 0) /\ (i = 0 => i + 1 <= 1)
  BY <1>1
<1> QED BY <1>2, <1>4, <1>5, <1>6 DEF RevertData

\* What the last iteration has shown
LEMMA AllReverted ==
  ASSUME DataInv, Reverting, Passes, i = N - 1
  PROVE  /\ ~build.GHOST /\ ~Lost
         /\ build.LOAD /\ ByElement => \A n \in Elem : ~Early(n)
<1>1. /\ TypeOK /\ i \in Elem /\ i \in Nat /\ build \in Build /\ rnum \in Shuffles
      /\ addr \in [Elem -> Nat]
  BY Typed
<1>2. RevertData(addr, i + 1)
  BY RevertOn
<1>3. i + 1 > 1 /\ ~(i + 1 <= 1)
  BY Sizes
<1>4. ~Lost
  BY <1>2, <1>3 DEF RevertData
<1>5. ~build.GHOST
  <2>1. build.GHOST => build.LOAD
    BY <1>1, Where
  <2> QED BY <1>2, <1>4, <2>1 DEF RevertData, Lost
<1>6. ASSUME build.LOAD, ByElement, NEW n \in Elem, Early(n) PROVE FALSE
  <2>1. /\ \A m \in Elem : Nth(m) \in Elem /\ rnum[m] \in Nat
        /\ \A m, k \in Elem : Nth(m) = Nth(k) => m = k
        /\ \A m, k \in Elem : rnum[m] = rnum[k] => m = k
    BY <1>1, Order
  <2>2. \A m \in Elem : m < i + 1
    BY Sizes
  <2>3. \A m \in Elem : Undone(addr, m) = file[Nth(m)]
    BY <1>2, <1>3, <1>4, <1>6, <2>2 DEF RevertData, Lost
  <2>4. addr[Nth(n)] = file[Nth(n)]
    BY <1>2, <1>6 DEF RevertData
  <2>5. addr[Nth(n)] \in Nat /\ Preceding(addr, n) \in Nat /\ rnum[Nth(n)] \in Nat
    BY <1>1, <2>1, Contents
  <2>6. Preceding(addr, n) = 0 /\ rnum[Nth(n)] = 0
    <3>1. addr[Nth(n)] - (Preceding(addr, n) + rnum[Nth(n)]) = addr[Nth(n)]
      BY <2>3, <2>4 DEF Undone
    <3>2. \A a, p, r \in Nat : a - (p + r) = a => p = 0 /\ r = 0
      OBVIOUS
    <3> QED BY <2>5, <3>1, <3>2
  <2>7. n # 0
    BY <1>6, <2>6 DEF Early
  <2>8. n - 1 \in Elem /\ n - 1 # n
    BY <2>7, Sizes
  <2>9. addr[Nth(n - 1)] = 0
    BY <2>6, <2>7 DEF Preceding
  <2>10. /\ file \in [Elem -> Nat] /\ Sums(file)
    BY <1>1, <1>4, <1>6, RevertingAt DEF DataInv, FileInv, Lost, TypeOK
  <2>11. /\ rnum[Nth(n - 1)] \in Nat /\ Preceding(addr, n - 1) \in Nat
         /\ Preceding(file, n - 1) \in Nat
    BY <1>1, <2>1, <2>8, <2>10, Contents
  <2>12. file[Nth(n - 1)] = Preceding(file, n - 1) + rnum[Nth(n - 1)]
    BY <2>8, <2>10 DEF Sums, IsSum
  <2>13. 0 - (Preceding(addr, n - 1) + rnum[Nth(n - 1)]) = file[Nth(n - 1)]
    BY <2>3, <2>8, <2>9 DEF Undone
  <2>14. rnum[Nth(n - 1)] = 0
    BY <2>11, <2>12, <2>13
  <2>15. Nth(n - 1) = Nth(n)
    BY <2>1, <2>6, <2>8, <2>14
  <2> QED BY <2>1, <2>8, <2>15
<1> QED BY <1>4, <1>5, <1>6

LEMMA RevertStep ==
  ASSUME DataInv, Revert, ~aborted'
  PROVE  ArrayInv' /\ ReadInv' /\ UpdateInv' /\ RevertInv'
<1>1. /\ UNCHANGED <<conf, prot, pflags, addr, file>> /\ ~Done /\ Program[pc] = "revert"
      /\ Iterate /\ Passes
  BY Reverted DEF Revert, At, memory
<1>2. /\ build' = build /\ rnum' = rnum /\ Blind' = Blind
      /\ WriteEnd' = WriteEnd /\ SaveEnd' = SaveEnd /\ DropEnd' = DropEnd
      /\ ReadEnd' = ReadEnd /\ UpdateEnd' = UpdateEnd /\ \A n : Nth(n)' = Nth(n)
      /\ \A n : Early(n)' <=> Early(n)
  BY <1>1, Frame
<1>3. TypeOK /\ build \in Build /\ pc \in Nat /\ i \in Elem /\ i \in Nat
      /\ pc \in 1 .. Len(Program) + 1
  BY Typed
<1>4. Reverting
  BY <1>1, <1>3, Whereabouts
<1>5. RevertData(addr, i + 1)
  BY <1>1, <1>4, RevertOn
<1>6. \/ pc' = pc /\ i' = i + 1
      \/ pc' = pc + 1 /\ i' = 0 /\ i + 1 \notin Elem /\ i = N - 1
  BY <1>1, <1>3, Iterated
<1>7. /\ ~Writing' /\ ~SumsAt' /\ ~ZeroAt' /\ ~Reading' /\ ~Updating'
      /\ (Reverting' => pc' = pc) /\ (pc' > ReadEnd + 3 => pc' = pc + 1)
      /\ build.RD /\ pc' > DropEnd + 2 => pc > DropEnd + 2
      /\ pc > 2
  <2>1. pc' = pc \/ pc' = pc + 1
    BY <1>6
  <2>2. /\ build.RW /\ pc = ReadEnd + 3 /\ ReadEnd \in Nat /\ 4 <= ReadEnd
        /\ build.LOAD => 9 <= ReadEnd
        /\ build.WR => 12 <= ReadEnd
        /\ build.RD => DropEnd \in Nat /\ ReadEnd = DropEnd + 4
        /\ DropEnd \in Nat /\ DropEnd <= ReadEnd
    BY <1>3, <1>4, RevertingAt
  <2>3. /\ SaveEnd \in Nat /\ SaveEnd <= DropEnd
        /\ build.WR => build.LOAD
        /\ build.LOAD => DropEnd = SaveEnd + 2
        /\ WriteEnd = IF build.WR THEN 7 ELSE 4
    BY <1>3, Where
  <2>4. ~Writing' /\ ~SumsAt'
    BY <1>2, <2>1, <2>2, <2>3 DEF Writing, SumsAt
  <2>5. ~ZeroAt'
    BY <1>2, <2>1, <2>2, <2>3 DEF ZeroAt, Flushed
  <2>6. ~Reading' /\ ~Updating' /\ (Reverting' => pc' = pc) /\ (pc' > ReadEnd + 3 => pc' = pc + 1)
    BY <1>2, <2>1, <2>2 DEF Reading, Updating, Reverting
  <2>7. (build.RD /\ pc' > DropEnd + 2 => pc > DropEnd + 2) /\ pc > 2
    BY <2>1, <2>2
  <2> QED BY <2>4, <2>5, <2>6, <2>7
<1>8. ArrayInv'
  <2>1. ~Stuck'
    BY <1>2, <1>3, <1>7 DEF DataInv, ArrayInv, Stuck
  <2> QED BY <1>7, <2>1 DEF ArrayInv
<1>9. ReadInv'
  BY <1>1, <1>2, <1>7 DEF DataInv, ReadInv, ByElement
<1>10. RevertInv'
  <2>1. Reverting' => RevertData(addr', i')
    <3>1. pc' = pc => i' = i + 1
      BY <1>3, <1>6
    <3> QED BY <1>1, <1>5, <1>7, <3>1
  <2>2. build.RW /\ pc' > ReadEnd + 3 =>
          /\ ~build.GHOST /\ ~Lost
          /\ build.LOAD /\ ByElement => \A n \in Elem : ~Early(n)
    <3>1. pc' = pc + 1 => i = N - 1
      BY <1>3, <1>6
    <3> QED BY <1>1, <1>4, <1>7, <3>1, AllReverted
  <2> QED BY <1>1, <1>2, <2>1, <2>2, RevertFrame DEF RevertInv, Lost, ByElement
<1> QED BY <1>7, <1>8, <1>9, <1>10 DEF UpdateInv

-----------------------------------------------------------------------------
(* Which builds fail an assertion *)

\* A fault that fails
LEMMA FaultFails ==
  ASSUME DataInv, Fault, aborted'
  PROVE  Broken /\ UNCHANGED <<conf, pc, i, prot, pflags, addr, file>>
<1> DEFINE p == PageOf(Nth(i))
<1>1. /\ p \in Page /\ build.SBMA /\ ~aborted /\ UNCHANGED <<conf, pc, i, file>>
      /\ Writing \/ Reading \/ Updating
      /\ Dirties(p) \/ Loads(p) \/ Syncs(p) \/ Fails(p)
  BY FaultCases DEF DataInv
<1>2. TypeOK /\ i \in Elem /\ i \in Nat /\ build \in Build /\ rnum \in Shuffles
  BY Typed
<1>3. Fails(p)
  BY <1>1 DEF Dirties, MakeDirty, Loads, SyncOnDisk, Syncs, SyncNew
<1>4. CASE Stored /\ (Reading \/ Updating) /\ ~CanRead
  <2>1. build.RD \/ build.RW
    BY <1>4 DEF Reading, Updating
  <2>2. Saved /\ ~Done
    BY <1>2, <1>4, ReadingAt, UpdatingAt DEF Stored
  <2>3. build.GHOST
    BY <1>4, <2>2 DEF DataInv, FileInv, CanRead
  <2> QED BY <1>1, <1>3, <2>1, <2>3 DEF Broken, Fails
<1>5. CASE ~Stored /\ ~build.LAZY /\ ~build.CTX /\ Closed /\ p # 0
  <2>1. i = 0
    <3> SUFFICES ASSUME i # 0 PROVE FALSE
      OBVIOUS
    <3>1. 0 \in Elem /\ 0 < i
      BY <1>2, Sizes
    <3>2. prot[PageOf(Nth(0))] = "write"
      BY <1>1, <3>1 DEF DataInv, MemInv, AccessInv
    <3>3. PageOf(Nth(0)) \in Page
      BY <1>2, <3>1, Order, Pages
    <3> QED BY <1>5, <3>2, <3>3 DEF Closed
  <2> QED BY <1>1, <1>3, <1>5, <2>1 DEF Broken, Fails
<1> QED BY <1>3, <1>4, <1>5 DEF Fails

\* An assertion about the file that fails
LEMMA FileFails ==
  ASSUME DataInv, IoWrite \/ IoFlush \/ FetchBulk, aborted'
  PROVE  Broken /\ UNCHANGED <<conf, pc, i, prot, pflags, addr, file>>
<1>1. /\ TypeOK /\ build \in Build /\ pc \in 1 .. Len(Program) + 1 /\ pc \in Nat
      /\ prot \in [Page -> {"none", "read", "write"}]
  BY Typed
<1>2. /\ WriteEnd = IF build.WR THEN 7 ELSE 4
      /\ build.LOAD => SaveEnd = WriteEnd + 3 /\ DropEnd = SaveEnd + 2
      /\ ReadEnd = IF build.RD THEN DropEnd + 4 ELSE DropEnd
      /\ WriteEnd \in Nat /\ SaveEnd \in Nat /\ DropEnd \in Nat
      /\ build.RD => build.LOAD
  BY <1>1, Where
<1>3. ~aborted /\ ~Done
  BY DEF IoWrite, IoFlush, FetchBulk, At
<1>4. UNCHANGED <<conf, pc, i, prot, pflags, addr, file>>
  BY <1>3 DEF IoWrite, IoFlush, FetchBulk, Abort, memory
<1>5. CASE IoWrite
  <2>1. build.LOAD /\ pc = WriteEnd + 1
    BY <1>1, <1>5, Whereabouts DEF IoWrite
  <2>2. file # None \/ \E p \in Page : prot[p] = "none"
    BY <1>3, <1>5 DEF IoWrite
  <2>3. CASE file # None
    <3>1. pc <= WriteEnd + 1
      BY <1>1, <2>1
    <3>2. left
      BY <2>1, <2>3, <3>1 DEF DataInv, FileInv
    <3> QED BY <1>4, <2>1, <3>2 DEF Broken
  <2>4. CASE \E p \in Page : prot[p] = "none"
    <3>1. build.SBMA /\ ~Writable
      BY <2>4 DEF DataInv, MemInv, FlagsInv, Writable
    <3>2. build.WR => pc \in 7 .. SaveEnd
      BY <1>2, <2>1
    <3>3. ~build.WR
      BY <3>1, <3>2 DEF DataInv, MemInv, AccessInv
    <3> QED BY <1>4, <2>1, <3>1, <3>3 DEF Broken
  <2> QED BY <2>2, <2>3, <2>4
<1>6. CASE IoFlush
  <2>1. file = None /\ At("drop")
    BY <1>3, <1>6 DEF IoFlush
  <2>2. (build.LOAD /\ pc = SaveEnd + 2) \/ (build.RD /\ pc = DropEnd + 4)
    BY <1>1, <2>1, Whereabouts
  <2>3. Saved
    BY <1>2, <2>2 DEF Saved
  <2> QED BY <1>3, <2>1, <2>3 DEF DataInv, FileInv
<1>7. CASE FetchBulk
  <2>1. ~CanRead /\ build.LOAD /\ At("fetch")
    BY <1>3, <1>7 DEF FetchBulk
  <2>2. (build.RD /\ pc = DropEnd + 1) \/ (build.RW /\ pc = ReadEnd + 1)
    BY <1>1, <2>1, Whereabouts
  <2>3. Saved
    BY <1>2, <2>1, <2>2 DEF Saved
  <2>4. build.GHOST
    BY <1>3, <2>1, <2>3 DEF DataInv, FileInv, CanRead
  <2> QED BY <1>4, <2>2, <2>4 DEF Broken
<1> QED BY <1>5, <1>6, <1>7

\* An assertion about the array that fails, or a read of a page of the file
LEMMA LoopFails ==
  ASSUME DataInv, Read \/ Update \/ Revert, aborted'
  PROVE  Broken /\ UNCHANGED <<conf, pc, i, prot, pflags, addr, file>>
<1>1. /\ TypeOK /\ build \in Build /\ pc \in 1 .. Len(Program) + 1 /\ i \in Elem /\ i \in Nat
  BY Typed
<1>2. ~aborted /\ ~Done
  BY DEF Read, Update, Revert, At
<1>3. CASE Read
  <2>1. /\ Runs /\ UNCHANGED <<conf, pc, i, prot, pflags, addr, file>>
        /\ \/ ~CanRead
           \/ FetchPage(Nth(i))[Nth(i)] # Preceding(FetchPage(Nth(i)), i) + rnum[Nth(i)]
    BY <1>2, <1>3 DEF Read, Abort, memory
  <2>2. Reading
    BY <1>1, <1>2, <1>3, Whereabouts DEF Read, At
  <2> QED BY <2>1, <2>2, ReadSucceeds
<1>4. CASE Update
  <2>1. /\ FetchesPage(Nth(i)) /\ ~CanRead
        /\ UNCHANGED <<conf, pc, i, prot, pflags, addr, file>>
    BY <1>2, <1>4 DEF Update, Abort, memory
  <2>2. Updating
    BY <1>1, <1>2, <1>4, Whereabouts DEF Update, At
  <2>3. build.RW /\ Saved
    BY <1>1, <2>1, <2>2, UpdatingAt DEF FetchesPage
  <2>4. build.GHOST
    BY <1>2, <2>1, <2>3 DEF DataInv, FileInv, CanRead
  <2> QED BY <2>1, <2>3, <2>4 DEF Broken
<1>5. CASE Revert
  <2>1. ~Passes /\ UNCHANGED <<conf, pc, i, prot, pflags, addr, file>>
    BY <1>5, Reverted DEF memory
  <2>2. Reverting
    BY <1>1, <1>2, <1>5, Whereabouts DEF Revert, At
  <2>3. ASSUME ~Broken PROVE Passes
    <3>1. \A n \in Elem : Undone(addr, n) = UndonePreceding(addr, n) + rnum[Nth(n)]
      BY <2>2, <2>3 DEF DataInv, RevertInv, RevertData
    <3>2. ASSUME i = 1 PROVE Undone(addr, i - 1) = rnum[Nth(i - 1)]
      <4>1. i - 1 = 0 /\ 0 \in Elem
        BY <3>2, Sizes
      <4>2. Undone(addr, 0) = 0 + rnum[Nth(0)]
        BY <3>1, <4>1 DEF UndonePreceding
      <4>3. rnum[Nth(0)] \in Nat
        BY <1>1, <4>1, Order DEF TypeOK
      <4> QED BY <4>1, <4>2, <4>3
    <3>3. i # 0 => Undone(addr, i) = Undone(addr, i - 1) + rnum[Nth(i)]
      BY <1>1, <3>1 DEF UndonePreceding
    <3> QED BY <3>2, <3>3 DEF Passes
  <2> QED BY <2>1, <2>3
<1> QED BY <1>3, <1>4, <1>5

\* What an instance of the program is stays as it is.
LEMMA SameConf ==
  ASSUME [Next]_vars
  PROVE  UNCHANGED conf
<1>1. CASE UNCHANGED vars
  BY <1>1 DEF vars
<1>2. CASE Next
  BY <1>2 DEF Next, Fault, Flush, OnDisk, FetchBulk, Spin, Destroy, IoWrite, IoFlush, Write,
              Verify, Clear, Read, Update, Revert, Abort
<1> QED BY <1>1, <1>2

LEMMA AbortStep ==
  ASSUME DataInv, Next, aborted'
  PROVE  Broken /\ UNCHANGED <<conf, pc, i, prot, pflags, addr, file>>
<1>1. ~Verify
  BY VerifyData
<1>2. Fault \/ IoWrite \/ IoFlush \/ FetchBulk \/ Read \/ Update \/ Revert
  BY <1>1, NoSpin DEF Next, Flush, OnDisk, Destroy, Write, Clear, At
<1> QED BY <1>2, FaultFails, FileFails, LoopFails

-----------------------------------------------------------------------------
(* The invariants are inductive. *)

\* The last page that a misaligned array is read by ends beyond the file.
LEMMA CutShort ==
  ASSUME TypeOK, Misaligned
  PROVE  /\ LastFetched \in Elem /\ FetchesPage(LastFetched)
         /\ file # None => PastEnd(LastFetched)
<1>1. base \in Nat /\ base < PerPage /\ base # 0
  BY Sizes DEF TypeOK, Bases, Misaligned
<1>2. PerPage <= N
  <2>1. PerPage * 1 <= PerPage * NumPages
    BY Sizes
  <2> QED BY <2>1, Sizes DEF N
<1>3. LastFetched \in Elem /\ LastFetched + PerPage - 1 \notin Elem
  BY <1>1, <1>2, Sizes DEF LastFetched
<1>4. (base + LastFetched) % PerPage = 0
  <2>1. base + LastFetched = PerPage * NumPages
    BY <1>1, Sizes DEF LastFetched, N
  <2>2. (PerPage * NumPages) % PerPage = 0
    BY Sizes
  <2> QED BY <2>1, <2>2
<1>5. FetchesPage(LastFetched)
  BY <1>4 DEF FetchesPage, Misaligned
<1> QED BY <1>3, <1>5 DEF PastEnd

LEMMA ShiftInit ==
  ASSUME Init
  PROVE  ShiftInv
<1>1. pc = 1 /\ TypeOK
  BY MemInit DEF Init, MemInv
<1>2. /\ 4 <= DropEnd /\ 4 <= ReadEnd /\ DropEnd \in Nat /\ ReadEnd \in Nat
  BY <1>1, Where
<1> QED BY <1>1, <1>2 DEF ShiftInv, Reading, Updating

LEMMA ShiftStep ==
  ASSUME MemInv, ShiftInv, [Next]_vars
  PROVE  ShiftInv'
<1> SUFFICES ASSUME Misaligned' PROVE ShiftInv'
  BY DEF ShiftInv
<1>1. UNCHANGED conf
  BY SameConf
<1>2. /\ build' = build /\ Misaligned
      /\ DropEnd' = DropEnd /\ ReadEnd' = ReadEnd /\ LastFetched' = LastFetched
      /\ \A n : Nth(n)' = Nth(n)
  BY <1>1, Frame DEF LastFetched
<1>3. TypeOK /\ build \in Build /\ rnum \in Shuffles /\ i \in Elem
      /\ pc \in 1 .. Len(Program) + 1 /\ i \in Nat
  BY Sizes DEF MemInv, TypeOK
<1>4. /\ pc \in Nat /\ DropEnd \in Nat /\ ReadEnd \in Nat /\ 4 <= DropEnd
      /\ ReadEnd = IF build.RD THEN DropEnd + 4 ELSE DropEnd
  BY <1>3, Where, Margins
<1>5. /\ build.RD => pc <= DropEnd + 2
      /\ build.RW => pc <= ReadEnd + 2
      /\ Reading \/ Updating => \A n \in Elem : n < i => Nth(n) # LastFetched
  BY <1>2 DEF ShiftInv
<1>6. CASE UNCHANGED <<pc, i>>
  BY <1>2, <1>5, <1>6 DEF ShiftInv, Reading, Updating
<1>7. CASE Read \/ Update
  <2>1. Reading \/ Updating
    BY <1>3, <1>7, Whereabouts DEF Read, Update, At
  <2>2. CASE aborted' /\ UNCHANGED <<pc, i>>
    BY <1>6, <2>2
  <2>3. CASE Iterate /\ ~PastEnd(Nth(i)) /\ (FetchesPage(Nth(i)) => CanRead)
    <3>1. Nth(i) # LastFetched
      BY <1>2, <1>3, <2>3, CutShort DEF CanRead
    <3>2. \A n \in Elem : n < i + 1 => Nth(n) # LastFetched
      <4>1. \A n \in Elem : n < i + 1 => n < i \/ n = i
        BY <1>3, Elements
      <4> QED BY <1>5, <2>1, <3>1, <4>1
    <3>3. PICK n \in Elem : Nth(n) = LastFetched
      BY <1>2, <1>3, CutShort, Order
    <3>4. i + 1 \in Elem
      <4>1. ~(n < i + 1)
        BY <3>2, <3>3
      <4> QED BY <1>3, <4>1, Sizes
    <3>5. pc' = pc /\ i' = i + 1
      BY <2>3, <3>4 DEF Iterate
    <3> QED BY <1>2, <1>5, <3>2, <3>5 DEF ShiftInv, Reading, Updating
  <2> QED BY <1>7, <2>2, <2>3 DEF Read, Update, Abort
<1>8. CASE \/ Flush \/ OnDisk \/ FetchBulk \/ Destroy \/ IoWrite \/ IoFlush
           \/ Write \/ Verify \/ Clear \/ Revert
  <2>1. ~Reading /\ ~Updating
    BY <1>3, <1>8, Whereabouts
    DEF Flush, OnDisk, FetchBulk, Destroy, IoWrite, IoFlush, Write, Verify, Clear, Revert, At
  <2>2. UNCHANGED <<pc, i>> \/ (pc' = pc /\ i' = i + 1) \/ (pc' = pc + 1 /\ i' = 0)
    BY <1>8 DEF Flush, OnDisk, FetchBulk, Destroy, IoWrite, IoFlush, Write, Verify, Clear,
                Revert, Abort, Iterate, NextPart
  <2>3. CASE pc' = pc /\ i' = i + 1
    BY <1>2, <1>5, <2>1, <2>3 DEF ShiftInv, Reading, Updating
  <2>4. CASE pc' = pc + 1 /\ i' = 0
    <3>1. ~\E n \in Elem : n < i'
      BY <2>4, Elements
    <3>2. /\ build.RD => pc' <= DropEnd + 2
          /\ build.RW => pc' <= ReadEnd + 2
      BY <1>4, <1>5, <2>1, <2>4 DEF Reading, Updating
    <3> QED BY <1>2, <3>1, <3>2 DEF ShiftInv
  <2> QED BY <1>6, <2>2, <2>3, <2>4
<1>9. CASE Fault \/ Spin
  BY <1>6, <1>9 DEF Fault, Spin
<1> QED BY <1>6, <1>7, <1>8, <1>9 DEF Next, vars

LEMMA DataStep ==
  ASSUME DataInv, [Next]_vars
  PROVE  DataInv'
<1>1. MemInv' /\ ~Misaligned'
  BY MemStep, SameConf, Frame DEF DataInv
<1>2. CASE UNCHANGED vars
  <2>1. UNCHANGED <<conf, pc, i, prot, pflags, addr, file>>
    BY <1>2 DEF vars, memory
  <2> QED BY <1>1, <2>1, KeptData DEF DataInv
<1>3. CASE Next /\ aborted'
  BY <1>1, <1>3, AbortStep, KeptData DEF DataInv
<1>4. CASE Next /\ ~aborted'
  <2>1. FileInv'
    BY <1>4, FileStep
  <2>2. ArrayInv' /\ ReadInv' /\ UpdateInv' /\ RevertInv'
    <3>1. CASE Fault
      BY <3>1, FaultData
    <3>2. CASE Flush
      BY <3>2, FlushData
    <3>3. CASE FetchBulk
      BY <1>4, <3>3, PartsArray, FetchData
    <3>4. CASE OnDisk \/ Destroy \/ IoWrite \/ IoFlush
      BY <1>4, <3>4, PartsArray, PartsLate
    <3>5. CASE Write
      BY <3>5, WriteData
    <3>6. CASE Verify
      BY <3>6, VerifyData
    <3>7. CASE Clear
      BY <3>7, ClearData
    <3>8. CASE Read
      BY <1>4, <3>8, ReadStep
    <3>9. CASE Update
      BY <1>4, <3>9, UpdateStep
    <3>10. CASE Revert
      BY <1>4, <3>10, RevertStep
    <3>11. ~Spin
      BY NoSpin
    <3> QED BY <1>4, <3>1, <3>2, <3>3, <3>4, <3>5, <3>6, <3>7, <3>8, <3>9, <3>10, <3>11 DEF Next
  <2> QED BY <1>1, <2>1, <2>2 DEF DataInv
<1> QED BY <1>2, <1>3, <1>4

LEMMA DataInit ==
  ASSUME Init, ~Misaligned
  PROVE  DataInv
<1>1. /\ pc = 1 /\ i = 0 /\ TypeOK
      /\ file = IF left THEN [e \in Elem |-> 0] ELSE None
      /\ prot = [p \in Page |-> IF build.SBMA THEN "none" ELSE "write"]
  BY MemInit DEF Init, MemInv
<1>2. /\ 4 <= WriteEnd /\ 4 <= SaveEnd /\ 4 <= DropEnd /\ 4 <= ReadEnd
      /\ WriteEnd \in Nat /\ SaveEnd \in Nat /\ DropEnd \in Nat /\ ReadEnd \in Nat
  BY <1>1, Where
<1>3. /\ ~Writing /\ ~SumsAt /\ ~ZeroAt /\ ~Reading /\ ~Updating /\ ~Reverting /\ ~Saved
      /\ ~(pc > DropEnd + 2) /\ ~(pc > ReadEnd + 3)
  BY <1>1, <1>2 DEF Writing, SumsAt, ZeroAt, Flushed, Reading, Updating, Reverting, Saved
<1>4. FileInv
  <2>1. file # None <=> left
    BY <1>1, NoneAssumption
  <2> QED BY <1>3, <2>1 DEF FileInv
<1>5. ArrayInv
  BY <1>1, <1>3 DEF ArrayInv, Stuck, Closed
<1> QED BY <1>3, <1>4, <1>5, MemInit DEF DataInv, ReadInv, UpdateInv, RevertInv

\* What is kept of every build
FailInv == MemInv /\ ShiftInv /\ (~Misaligned => DataInv) /\ OnlyBrokenFail

\* The invariant holds, and which builds are broken does not change.
LEMMA FailInvariant == Spec => []FailInv
<1>1. Init => FailInv
  BY MemInit, ShiftInit, DataInit DEF Init, OnlyBrokenFail, FailInv
<1>2. ASSUME FailInv, [Next]_vars PROVE FailInv'
  <2>1. MemInv' /\ ShiftInv'
    BY <1>2, MemStep, ShiftStep DEF FailInv
  <2>2. (Broken' <=> Broken) /\ (Misaligned' <=> Misaligned)
    BY <1>2, SameConf, Frame
  <2>3. ~Misaligned' => DataInv'
    BY <1>2, <2>2, DataStep DEF FailInv
  <2>4. aborted' => Broken
    <3>1. CASE UNCHANGED vars
      BY <1>2, <3>1 DEF vars, OnlyBrokenFail, FailInv
    <3>2. CASE Misaligned
      BY <3>2 DEF Broken
    <3>3. CASE Next /\ ~Misaligned
      BY <1>2, <3>3, AbortStep DEF FailInv
    <3> QED BY <1>2, <3>1, <3>2, <3>3
  <2> QED BY <2>1, <2>2, <2>3, <2>4 DEF OnlyBrokenFail, FailInv
<1> QED BY <1>1, <1>2, PTL DEF Spec

\* No build but the broken ones fails an assertion, whatever the shuffle, the number
\* of pages, their size and where mmap puts the array: through flushes, faults and
\* the file every element keeps the value main gave it (micro.c:226,289,358,370,
\* 426-448; sbma.c:30-74; libc.c:21,67-77; io.c:27-110).
THEOREM OthersSucceed == Spec => []OnlyBrokenFail
<1>1. FailInv => OnlyBrokenFail
  BY DEF FailInv
<1> QED BY <1>1, FailInvariant, PTL

\* The end of main is out of a broken build's reach.
LEMMA NoBrokenEnd == ASSUME FailInv PROVE BrokenFail
<1>0. CASE Misaligned
  <2>1. TypeOK /\ (build.RD \/ build.RW)
    BY <1>0 DEF FailInv, MemInv, Misaligned
  <2>2. /\ Done <=> pc = UpdateEnd + 2
        /\ ReadEnd = IF build.RD THEN DropEnd + 4 ELSE DropEnd
        /\ UpdateEnd = IF build.RW THEN ReadEnd + 3 ELSE ReadEnd
        /\ DropEnd \in Nat
    BY <2>1, Where
  <2> QED BY <1>0, <2>1, <2>2 DEF FailInv, ShiftInv, BrokenFail
<1> SUFFICES ASSUME DataInv, ~Misaligned PROVE BrokenFail
  BY <1>0 DEF FailInv
<1>1. /\ TypeOK /\ build \in Build /\ rnum \in Shuffles
  BY Typed
<1> SUFFICES ASSUME Done PROVE ~Broken
  BY DEF BrokenFail
<1>2. /\ pc = UpdateEnd + 2 /\ UpdateEnd \in Nat /\ WriteEnd \in Nat /\ DropEnd \in Nat
      /\ ReadEnd \in Nat /\ SaveEnd \in Nat
      /\ 4 <= WriteEnd /\ WriteEnd <= SaveEnd /\ SaveEnd <= DropEnd
      /\ DropEnd <= ReadEnd /\ ReadEnd <= UpdateEnd
      /\ ReadEnd = IF build.RD THEN DropEnd + 4 ELSE DropEnd
      /\ UpdateEnd = IF build.RW THEN ReadEnd + 3 ELSE ReadEnd
      /\ build.CTX => build.LOAD
  BY <1>1, Where
<1>3. /\ pc > WriteEnd + 1 /\ ~(pc <= 2)
      /\ build.RD => pc > DropEnd + 2
      /\ build.RW => pc > ReadEnd + 3
  BY <1>2
<1>4. build.LOAD => ~left
  BY <1>3 DEF DataInv, FileInv, Saved
<1>5. build.LOAD /\ build.SBMA => build.WR
  BY <1>3 DEF DataInv, MemInv, AccessInv, Saved
<1>6. build.RD => ~build.GHOST /\ build.WR /\ (ByElement => \A n \in Elem : ~Early(n))
  BY <1>3 DEF DataInv, ReadInv
<1>7. build.RW => ~build.GHOST /\ ~Lost /\ (build.LOAD /\ ByElement => \A n \in Elem : ~Early(n))
  BY <1>3 DEF DataInv, RevertInv
<1>8. ~Stuck
  BY <1>3 DEF DataInv, ArrayInv
<1> QED BY <1>2, <1>4, <1>5, <1>6, <1>7, <1>8 DEF Broken, Lost, Blind, ByElement, Stuck

\* Each condition of Broken is a fault of the code on its own: no build that meets
\* one gets through main, whatever the shuffle, the sizes and the array's address
\* (micro.c:303-312; io.c:50-70; sbma.c:54; libc.c:18-21,67-77).
THEOREM BrokenOnesFail == Spec => []BrokenFail
<1>1. FailInv => BrokenFail
  BY NoBrokenEnd
<1> QED BY <1>1, FailInvariant, PTL
=============================================================================
