---------------------------- MODULE MicroAccess ----------------------------
(***************************************************************************)
(* Theorems about Micro, for any number of pages and of elements to a      *)
(* page, in every build and for every outcome of the shuffle: the order of *)
(* main's parts, the accesses of its loops, and what faults make of access *)
(* and flags of the pages.                                                 *)
(***************************************************************************)
EXTENDS Micro, FiniteSetTheorems, SequenceTheorems, TLAPS

N == NumPages * PerPage

-----------------------------------------------------------------------------
(* Elements and pages *)

LEMMA Sizes ==
  /\ N \in Nat /\ N > 1 /\ Elem = 0 .. N - 1
  /\ NumPages \in Nat /\ NumPages > 0 /\ PerPage \in Nat /\ PerPage > 0
  /\ 0 \in Elem /\ 1 \in Elem /\ N - 1 \in Elem
  /\ IsFiniteSet(Elem) /\ IsFiniteSet(Page)
<1>1. N \in Nat /\ N > 1
  BY MicroAssumption DEF N
<1>2. IsFiniteSet(0 .. N - 1) /\ IsFiniteSet(0 .. NumPages - 1)
  BY <1>1, MicroAssumption, FS_Interval
<1> QED BY <1>1, <1>2, MicroAssumption DEF Elem, Page, N

\* There are at least two elements, and they are numbers.
LEMMA Elements ==
  0 \in Elem /\ 1 \in Elem /\ \A n \in Elem : n \in Nat
<1>1. N \in Nat /\ Elem = 0 .. N - 1 /\ 0 \in Elem /\ 1 \in Elem
  BY Sizes
<1>2. \A n \in Elem : n \in Nat
  BY <1>1
<1> QED BY <1>1, <1>2

\* Every element is in a page, the first of each page is in that page, and no
\* page has two first elements.
LEMMA Pages ==
  /\ \A e \in Elem : PageOf(e) \in Page /\ e % PerPage \in Nat
  /\ \A p \in Page : \E e \in Elem : PageOf(e) = p /\ e % PerPage = 0
  /\ \A e, f \in Elem :
       PageOf(e) = PageOf(f) /\ e % PerPage = 0 /\ f % PerPage = 0 => e = f
<1>1. ASSUME NEW e \in Elem
      PROVE  /\ e \div PerPage \in Nat /\ e % PerPage \in Nat
             /\ e = (PerPage * (e \div PerPage)) + (e % PerPage)
  BY Sizes
<1>2. ASSUME NEW e \in Elem PROVE PageOf(e) \in Page
  <2> DEFINE q == e \div PerPage
  <2>1. q \in Nat /\ PerPage * q <= e /\ e < NumPages * PerPage
    BY <1>1, Sizes DEF N
  <2> HIDE DEF q
  <2>2. SUFFICES q < NumPages
    BY <2>1, Sizes DEF PageOf, Page, q
  <2>3. CASE q >= NumPages
    <3>1. PerPage * q >= PerPage * NumPages
      BY <2>1, <2>3, Sizes
    <3> QED BY <2>1, <3>1, Sizes
  <2> QED BY <2>1, <2>3, Sizes
<1>3. ASSUME NEW p \in Page PROVE \E e \in Elem : PageOf(e) = p /\ e % PerPage = 0
  <2> DEFINE e == PerPage * p
  <2>1. p \in Nat /\ p + 1 <= NumPages
    BY Sizes DEF Page
  <2>2. PerPage * (p + 1) <= PerPage * NumPages
    BY <2>1, Sizes
  <2>3. PerPage * (p + 1) = PerPage * p + PerPage /\ PerPage * p \in Nat
    BY <2>1, Sizes
  <2>4. e \in Elem
    BY <2>2, <2>3, Sizes DEF N
  <2>5. e \div PerPage = p /\ e % PerPage = 0
    BY <2>1, Sizes
  <2> QED BY <2>4, <2>5 DEF PageOf
<1>4. ASSUME NEW e \in Elem, NEW f \in Elem, PageOf(e) = PageOf(f),
             e % PerPage = 0, f % PerPage = 0
      PROVE  e = f
  BY <1>1, <1>4, Sizes DEF PageOf
<1> QED BY <1>1, <1>2, <1>3, <1>4

\* The loops go through each element once.
LEMMA Order ==
  ASSUME build \in Build, rnum \in Shuffles
  PROVE  /\ \A n \in Elem : Nth(n) \in Elem /\ rnum[n] \in Elem /\ rnum[n] \in Nat
         /\ \A n, m \in Elem : Nth(n) = Nth(m) => n = m
         /\ \A n, m \in Elem : rnum[n] = rnum[m] => n = m
         /\ \A e \in Elem : \E n \in Elem : Nth(n) = e
<1>1. /\ \A n \in Elem : Nth(n) \in Elem /\ rnum[n] \in Elem /\ rnum[n] \in Nat
      /\ \A n, m \in Elem : Nth(n) = Nth(m) => n = m
      /\ \A n, m \in Elem : rnum[n] = rnum[m] => n = m
  BY Sizes DEF Nth, Shuffles
<1> DEFINE f == [n \in Elem |-> Nth(n)]
<1>2. f \in Injection(Elem, Elem)
  BY <1>1 DEF Injection, IsInjective
<1>3. f \in Surjection(Elem, Elem)
  BY <1>2, FS_Injection, Sizes
<1>4. \A e \in Elem : \E n \in Elem : f[n] = e
  BY <1>3 DEF Surjection
<1> QED BY <1>1, <1>4

-----------------------------------------------------------------------------
(* The parts of main *)

\* The positions of the last part of each group that a build may have: before
\* "save", before the flush after it, before the read, the update, "destroy".
WriteEnd  == IF build.WR THEN 7 ELSE 4
SaveEnd   == IF build.LOAD THEN WriteEnd + 3 ELSE WriteEnd
DropEnd   == IF build.LOAD THEN SaveEnd + 2 ELSE SaveEnd
ReadEnd   == IF build.RD THEN DropEnd + 4 ELSE DropEnd
UpdateEnd == IF build.RW THEN ReadEnd + 3 ELSE ReadEnd

\* The loops over the array in shuffled order
Writing   == pc = 2 \/ (build.WR /\ pc = 6)
Verifying == pc = 3 \/ (build.WR /\ pc = 7)
Reading   == build.RD /\ pc = DropEnd + 2
Updating  == build.RW /\ pc = ReadEnd + 2
Reverting == build.RW /\ pc = ReadEnd + 3

LEMMA Positions ==
  ASSUME build \in Build
  PROVE  /\ WriteEnd \in Nat /\ SaveEnd \in Nat /\ DropEnd \in Nat
         /\ ReadEnd \in Nat /\ UpdateEnd \in Nat
         /\ 4 <= WriteEnd /\ WriteEnd <= SaveEnd /\ SaveEnd <= DropEnd
         /\ DropEnd <= ReadEnd /\ ReadEnd <= UpdateEnd
BY DEF WriteEnd, SaveEnd, DropEnd, ReadEnd, UpdateEnd

Part == {"flush", "write", "verify", "save", "clear", "ondisk", "drop", "fetch",
         "read", "update", "revert", "destroy"}

\* u is s, followed by t if c holds.
Joins(u, s, c, t) ==
  /\ u \in Seq(Part)
  /\ Len(u) = IF c THEN Len(s) + Len(t) ELSE Len(s)
  /\ \A n \in 1 .. Len(s) : u[n] = s[n]
  /\ c => \A n \in 1 .. Len(t) : u[Len(s) + n] = t[n]

\* One more group at the end of a program
LEMMA Joined ==
  ASSUME NEW s \in Seq(Part), NEW t \in Seq(Part), NEW c \in BOOLEAN
  PROVE  Joins(s \o (IF c THEN t ELSE <<>>), s, c, t)
<1>1. ASSUME c PROVE Joins(s \o t, s, c, t)
  <2>1. /\ s \o t \in Seq(Part)
        /\ Len(s \o t) = Len(s) + Len(t)
        /\ \A k \in 1 .. Len(s) + Len(t) :
             (s \o t)[k] = IF k <= Len(s) THEN s[k] ELSE t[k - Len(s)]
    BY ConcatProperties
  <2> QED BY <1>1, <2>1 DEF Joins
<1>2. ASSUME ~c PROVE Joins(s \o <<>>, s, c, t)
  BY <1>2, ConcatEmptySeq DEF Joins
<1> QED BY <1>1, <1>2

\* The part at each position
LEMMA Parts ==
  ASSUME build \in Build
  PROVE  /\ Len(Program) = UpdateEnd + 1
         /\ Program[1] = "flush" /\ Program[2] = "write" /\ Program[3] = "verify"
         /\ Program[4] = "flush"
         /\ build.WR => /\ Program[5] = "flush" /\ Program[6] = "write"
                        /\ Program[7] = "verify"
         /\ build.LOAD => /\ Program[WriteEnd + 1] = "save"
                          /\ Program[WriteEnd + 2] = "clear"
                          /\ Program[WriteEnd + 3] = "ondisk"
                          /\ Program[SaveEnd + 1] = "flush"
                          /\ Program[SaveEnd + 2] = "drop"
         /\ build.RD => /\ Program[DropEnd + 1] = "fetch" /\ Program[DropEnd + 2] = "read"
                        /\ Program[DropEnd + 3] = "flush" /\ Program[DropEnd + 4] = "drop"
         /\ build.RW => /\ Program[ReadEnd + 1] = "fetch" /\ Program[ReadEnd + 2] = "update"
                        /\ Program[ReadEnd + 3] = "revert"
         /\ Program[UpdateEnd + 1] = "destroy"
<1> DEFINE p1 == <<"flush", "write", "verify", "flush">>
           w  == <<"flush", "write", "verify">>
           p2 == p1 \o (IF build.WR THEN w ELSE <<>>)
           s  == <<"save", "clear", "ondisk">>
           p3 == p2 \o (IF build.LOAD THEN s ELSE <<>>)
           d  == <<"flush", "drop">>
           p4 == p3 \o (IF build.WR \/ build.LOAD THEN d ELSE <<>>)
           r  == <<"fetch", "read", "flush", "drop">>
           p5 == p4 \o (IF build.RD THEN r ELSE <<>>)
           u  == <<"fetch", "update", "revert">>
           p6 == p5 \o (IF build.RW THEN u ELSE <<>>)
           e  == <<"destroy">>
<1>1. /\ build.WR \in BOOLEAN /\ build.LOAD \in BOOLEAN /\ build.RD \in BOOLEAN
      /\ build.RW \in BOOLEAN /\ (build.WR \/ build.LOAD) \in BOOLEAN
      /\ (build.WR \/ build.LOAD) <=> build.LOAD
  BY DEF Build
<1>2. /\ p1 \in Seq(Part) /\ w \in Seq(Part) /\ s \in Seq(Part)
      /\ d \in Seq(Part) /\ r \in Seq(Part) /\ u \in Seq(Part) /\ e \in Seq(Part)
      /\ Len(p1) = 4 /\ Len(w) = 3 /\ Len(s) = 3 /\ Len(d) = 2
      /\ Len(r) = 4 /\ Len(u) = 3 /\ Len(e) = 1
  BY DEF Part
<1>3. /\ p1[1] = "flush" /\ p1[2] = "write" /\ p1[3] = "verify" /\ p1[4] = "flush"
      /\ w[1] = "flush" /\ w[2] = "write" /\ w[3] = "verify"
      /\ s[1] = "save" /\ s[2] = "clear" /\ s[3] = "ondisk"
      /\ d[1] = "flush" /\ d[2] = "drop"
      /\ r[1] = "fetch" /\ r[2] = "read" /\ r[3] = "flush" /\ r[4] = "drop"
      /\ u[1] = "fetch" /\ u[2] = "update" /\ u[3] = "revert"
      /\ e[1] = "destroy"
  OBVIOUS
<1> HIDE DEF p1, w, p2, s, p3, d, p4, r, p5, u, p6, e
<1>4. /\ p2 \in Seq(Part) /\ Len(p2) = WriteEnd
      /\ \A n \in 1 .. 4 : p2[n] = p1[n]
      /\ build.WR => p2[5] = w[1] /\ p2[6] = w[2] /\ p2[7] = w[3]
  <2>1. Joins(p2, p1, build.WR, w)
    BY <1>1, <1>2, Joined DEF p2
  <2> QED BY <1>1, <1>2, <2>1, Positions DEF Joins, WriteEnd
<1>5. /\ p3 \in Seq(Part) /\ Len(p3) = SaveEnd
      /\ \A n \in 1 .. WriteEnd : p3[n] = p2[n]
      /\ build.LOAD => /\ p3[WriteEnd + 1] = s[1] /\ p3[WriteEnd + 2] = s[2]
                       /\ p3[WriteEnd + 3] = s[3]
  <2>1. Joins(p3, p2, build.LOAD, s)
    BY <1>1, <1>2, <1>4, Joined DEF p3
  <2> QED BY <1>1, <1>2, <1>4, <2>1, Positions DEF Joins, SaveEnd
<1>6. /\ p4 \in Seq(Part) /\ Len(p4) = DropEnd
      /\ \A n \in 1 .. SaveEnd : p4[n] = p3[n]
      /\ build.LOAD => p4[SaveEnd + 1] = d[1] /\ p4[SaveEnd + 2] = d[2]
  <2>1. Joins(p4, p3, (build.WR \/ build.LOAD), d)
    BY <1>1, <1>2, <1>5, Joined DEF p4
  <2> QED BY <1>1, <1>2, <1>5, <2>1, Positions DEF Joins, DropEnd
<1>7. /\ p5 \in Seq(Part) /\ Len(p5) = ReadEnd
      /\ \A n \in 1 .. DropEnd : p5[n] = p4[n]
      /\ build.RD => /\ p5[DropEnd + 1] = r[1] /\ p5[DropEnd + 2] = r[2]
                     /\ p5[DropEnd + 3] = r[3] /\ p5[DropEnd + 4] = r[4]
  <2>1. Joins(p5, p4, build.RD, r)
    BY <1>1, <1>2, <1>6, Joined DEF p5
  <2> QED BY <1>1, <1>2, <1>6, <2>1, Positions DEF Joins, ReadEnd
<1>8. /\ p6 \in Seq(Part) /\ Len(p6) = UpdateEnd
      /\ \A n \in 1 .. ReadEnd : p6[n] = p5[n]
      /\ build.RW => /\ p6[ReadEnd + 1] = u[1] /\ p6[ReadEnd + 2] = u[2]
                     /\ p6[ReadEnd + 3] = u[3]
  <2>1. Joins(p6, p5, build.RW, u)
    BY <1>1, <1>2, <1>7, Joined DEF p6
  <2> QED BY <1>1, <1>2, <1>7, <2>1, Positions DEF Joins, UpdateEnd
<1>9. /\ Len(Program) = UpdateEnd + 1
      /\ \A n \in 1 .. UpdateEnd : Program[n] = p6[n]
      /\ Program[UpdateEnd + 1] = e[1]
  <2>1. Program = p6 \o e
    BY Zenon DEF Program, p1, w, p2, s, p3, d, p4, r, p5, u, p6, e
  <2>2. /\ Len(p6 \o e) = Len(p6) + Len(e)
        /\ \A n \in 1 .. Len(p6) + Len(e) :
             (p6 \o e)[n] = IF n <= Len(p6) THEN p6[n] ELSE e[n - Len(p6)]
    BY <1>2, <1>8, ConcatProperties
  <2> QED BY <1>2, <1>8, <2>1, <2>2, Positions
<1>10. /\ WriteEnd \in Nat /\ SaveEnd \in Nat /\ DropEnd \in Nat
       /\ ReadEnd \in Nat /\ UpdateEnd \in Nat
       /\ 4 <= WriteEnd /\ WriteEnd <= SaveEnd /\ SaveEnd <= DropEnd
       /\ DropEnd <= ReadEnd /\ ReadEnd <= UpdateEnd
  BY Positions
<1>11. ASSUME build.WR PROVE WriteEnd = 7
  BY <1>11 DEF WriteEnd
<1>12. ASSUME build.LOAD PROVE SaveEnd = WriteEnd + 3 /\ DropEnd = SaveEnd + 2
  BY <1>12 DEF SaveEnd, DropEnd
<1>13. ASSUME build.RD PROVE ReadEnd = DropEnd + 4
  BY <1>13 DEF ReadEnd
<1>14. ASSUME build.RW PROVE UpdateEnd = ReadEnd + 3
  BY <1>14 DEF UpdateEnd
<1>15. /\ Program[1] = "flush" /\ Program[2] = "write" /\ Program[3] = "verify"
       /\ Program[4] = "flush"
  BY <1>3, <1>4, <1>5, <1>6, <1>7, <1>8, <1>9, <1>10
<1>16. ASSUME build.WR
       PROVE  Program[5] = "flush" /\ Program[6] = "write" /\ Program[7] = "verify"
  BY <1>3, <1>4, <1>5, <1>6, <1>7, <1>8, <1>9, <1>10, <1>11, <1>16
<1>17. ASSUME build.LOAD
       PROVE  /\ Program[WriteEnd + 1] = "save" /\ Program[WriteEnd + 2] = "clear"
              /\ Program[WriteEnd + 3] = "ondisk"
              /\ Program[SaveEnd + 1] = "flush" /\ Program[SaveEnd + 2] = "drop"
  BY <1>3, <1>5, <1>6, <1>7, <1>8, <1>9, <1>10, <1>12, <1>17
<1>18. ASSUME build.RD
       PROVE  /\ Program[DropEnd + 1] = "fetch" /\ Program[DropEnd + 2] = "read"
              /\ Program[DropEnd + 3] = "flush" /\ Program[DropEnd + 4] = "drop"
  BY <1>3, <1>7, <1>8, <1>9, <1>10, <1>13, <1>18
<1>19. ASSUME build.RW
       PROVE  /\ Program[ReadEnd + 1] = "fetch" /\ Program[ReadEnd + 2] = "update"
              /\ Program[ReadEnd + 3] = "revert"
  BY <1>3, <1>8, <1>9, <1>10, <1>14, <1>19
<1> QED BY <1>3, <1>9, <1>15, <1>16, <1>17, <1>18, <1>19

\* Where the parts are
LEMMA Whereabouts ==
  ASSUME build \in Build, pc \in 1 .. Len(Program) + 1
  PROVE  /\ Done <=> pc = UpdateEnd + 2
         /\ At("flush") => \/ pc = 1 \/ pc = 4 \/ (build.WR /\ pc = 5)
                           \/ (build.LOAD /\ pc = SaveEnd + 1)
                           \/ (build.RD /\ pc = DropEnd + 3)
         /\ ~Done => /\ Program[pc] = "write" <=> Writing
                     /\ Program[pc] = "verify" <=> Verifying
                     /\ Program[pc] = "clear" <=> build.LOAD /\ pc = WriteEnd + 2
                     /\ Program[pc] = "read" <=> Reading
                     /\ Program[pc] = "update" <=> Updating
                     /\ Program[pc] = "revert" <=> Reverting
         /\ At("save") => build.LOAD /\ pc = WriteEnd + 1
         /\ At("ondisk") => build.LOAD /\ pc = WriteEnd + 3
         /\ At("drop") => \/ build.LOAD /\ pc = SaveEnd + 2
                          \/ build.RD /\ pc = DropEnd + 4
         /\ At("fetch") => \/ build.RD /\ pc = DropEnd + 1
                           \/ build.RW /\ pc = ReadEnd + 1
         /\ At("destroy") => pc = UpdateEnd + 1
<1>1. /\ WriteEnd \in Nat /\ SaveEnd \in Nat /\ DropEnd \in Nat
      /\ ReadEnd \in Nat /\ UpdateEnd \in Nat /\ pc \in Nat
  BY Positions, Parts
<1>2. Done <=> pc = UpdateEnd + 2
  BY <1>1, Parts DEF Done
<1>3. ASSUME ~Done PROVE pc <= UpdateEnd + 1
  BY <1>1, <1>2, <1>3, Parts
<1>4. ASSUME ~Done, pc <= WriteEnd
      PROVE  pc \in {1, 2, 3, 4} \/ (build.WR /\ pc \in {5, 6, 7})
  BY <1>1, <1>4 DEF WriteEnd
<1>5. ASSUME ~Done, pc > WriteEnd, pc <= DropEnd
      PROVE  build.LOAD /\ pc \in {WriteEnd + 1, WriteEnd + 2, WriteEnd + 3,
                                   SaveEnd + 1, SaveEnd + 2}
  BY <1>1, <1>5 DEF SaveEnd, DropEnd
<1>6. ASSUME ~Done, pc > DropEnd, pc <= ReadEnd
      PROVE  build.RD /\ pc \in {DropEnd + 1, DropEnd + 2, DropEnd + 3, DropEnd + 4}
  BY <1>1, <1>6 DEF ReadEnd
<1>7. ASSUME ~Done, pc > ReadEnd, pc <= UpdateEnd
      PROVE  build.RW /\ pc \in {ReadEnd + 1, ReadEnd + 2, ReadEnd + 3}
  BY <1>1, <1>7 DEF UpdateEnd
<1> DEFINE Is(part, r) == Program[pc] = part /\ r
           Which ==
             \/ Is("flush", \/ pc = 1 \/ pc = 4 \/ (build.WR /\ pc = 5)
                            \/ (build.LOAD /\ pc = SaveEnd + 1)
                            \/ (build.RD /\ pc = DropEnd + 3))
             \/ Is("write", Writing)
             \/ Is("verify", Verifying)
             \/ Is("save", build.LOAD /\ pc = WriteEnd + 1)
             \/ Is("clear", build.LOAD /\ pc = WriteEnd + 2)
             \/ Is("ondisk", build.LOAD /\ pc = WriteEnd + 3)
             \/ Is("drop", \/ build.LOAD /\ pc = SaveEnd + 2
                           \/ build.RD /\ pc = DropEnd + 4)
             \/ Is("fetch", \/ build.RD /\ pc = DropEnd + 1
                            \/ build.RW /\ pc = ReadEnd + 1)
             \/ Is("read", Reading)
             \/ Is("update", Updating)
             \/ Is("revert", Reverting)
             \/ Is("destroy", pc = UpdateEnd + 1)
<1>8. ASSUME ~Done PROVE Which
  <2>1. CASE pc <= WriteEnd
    BY <1>4, <1>8, <2>1, Parts DEF Writing, Verifying
  <2>2. CASE pc > WriteEnd /\ pc <= DropEnd
    BY <1>5, <1>8, <2>2, Parts
  <2>3. CASE pc > DropEnd /\ pc <= ReadEnd
    BY <1>6, <1>8, <2>3, Parts DEF Reading
  <2>4. CASE pc > ReadEnd /\ pc <= UpdateEnd
    BY <1>7, <1>8, <2>4, Parts DEF Updating, Reverting
  <2>5. CASE pc = UpdateEnd + 1
    BY <2>5, Parts
  <2> QED BY <1>1, <1>3, <1>8, <2>1, <2>2, <2>3, <2>4, <2>5
<1>9. ASSUME ~Done
       PROVE  /\ Writing => Program[pc] = "write"
              /\ Verifying => Program[pc] = "verify"
              /\ build.LOAD /\ pc = WriteEnd + 2 => Program[pc] = "clear"
              /\ Reading => Program[pc] = "read"
              /\ Updating => Program[pc] = "update"
              /\ Reverting => Program[pc] = "revert"
  BY Parts DEF Writing, Verifying, Reading, Updating, Reverting
<1>10. ASSUME ~Done
       PROVE  /\ Program[pc] = "write" <=> Writing
              /\ Program[pc] = "verify" <=> Verifying
              /\ Program[pc] = "clear" <=> build.LOAD /\ pc = WriteEnd + 2
              /\ Program[pc] = "read" <=> Reading
              /\ Program[pc] = "update" <=> Updating
              /\ Program[pc] = "revert" <=> Reverting
  BY <1>8, <1>9, <1>10
<1>11. /\ At("flush") => \/ pc = 1 \/ pc = 4 \/ (build.WR /\ pc = 5)
                         \/ (build.LOAD /\ pc = SaveEnd + 1)
                         \/ (build.RD /\ pc = DropEnd + 3)
       /\ At("save") => build.LOAD /\ pc = WriteEnd + 1
       /\ At("ondisk") => build.LOAD /\ pc = WriteEnd + 3
       /\ At("drop") => \/ build.LOAD /\ pc = SaveEnd + 2
                        \/ build.RD /\ pc = DropEnd + 4
       /\ At("fetch") => \/ build.RD /\ pc = DropEnd + 1
                         \/ build.RW /\ pc = ReadEnd + 1
       /\ At("destroy") => pc = UpdateEnd + 1
  BY <1>8 DEF At
<1> QED BY <1>2, <1>10, <1>11

-----------------------------------------------------------------------------
(* Accesses *)

AccessTo == [elem : Elem, kind : {"read", "write"}]

\* An access before another
LEMMA Appended ==
  ASSUME NEW s \in Seq(AccessTo), NEW a \in AccessTo
  PROVE  /\ Append(s, a) \in Seq(AccessTo)
         /\ DOMAIN Append(s, a) = 1 .. Len(s) + 1 /\ Len(s) \in Nat
         /\ Append(s, a)[Len(s) + 1] = a
         /\ \A n \in 1 .. Len(s) : Append(s, a)[n] = s[n]
OBVIOUS

LEMMA BeforeAccess ==
  ASSUME build \in Build, rnum \in Shuffles, NEW n \in Elem
  PROVE  /\ Before(n) \in Seq(AccessTo)
         /\ n = 0 => Len(Before(n)) = 0
         /\ n # 0 => /\ n - 1 \in Elem /\ Len(Before(n)) = 1
                     /\ Before(n)[1] = Access(Nth(n - 1), "read")
<1>1. CASE n = 0
  BY <1>1 DEF Before
<1>2. CASE n # 0
  <2>1. n - 1 \in Elem
    BY <1>2, Sizes
  <2>2. Access(Nth(n - 1), "read") \in AccessTo
    BY <2>1, Order DEF Access, AccessTo
  <2>3. Before(n) = <<Access(Nth(n - 1), "read")>>
    BY <1>2 DEF Before
  <2> QED BY <1>2, <2>1, <2>2, <2>3
<1> QED BY <1>1, <1>2

\* An iteration of the loops that fault reads the element before, and then its
\* own, which it reads, writes or both.
OwnAccesses ==
  IF Reading \/ Verifying THEN <<Access(Nth(i), "read")>>
  ELSE IF Updating /\ ~build.RMW THEN <<Access(Nth(i), "read"), Access(Nth(i), "write")>>
  ELSE <<Access(Nth(i), "write")>>

LEMMA AccessLists ==
  ASSUME TypeOK, ~Done
  PROVE  /\ Accesses \in Seq(AccessTo)
         /\ Writing \/ Verifying \/ Reading \/ Updating => Accesses = Before(i) \o OwnAccesses
         /\ Accesses # <<>> =>
              \/ Writing \/ Verifying \/ Reading \/ Updating \/ Reverting
              \/ build.LOAD /\ pc = WriteEnd + 2
<1> DEFINE read == Access(Nth(i), "read")
           write == Access(Nth(i), "write")
<1>1. /\ build \in Build /\ rnum \in Shuffles /\ i \in Elem
      /\ pc \in 1 .. Len(Program) + 1
      /\ build.RMW \in BOOLEAN
  BY DEF TypeOK, Build
<1>2. /\ read \in AccessTo /\ write \in AccessTo /\ Access(i, "write") \in AccessTo
      /\ Before(i) \in Seq(AccessTo)
  BY <1>1, Order, BeforeAccess DEF Access, AccessTo
<1>3. /\ Program[pc] = "write" <=> Writing
      /\ Program[pc] = "verify" <=> Verifying
      /\ Program[pc] = "clear" <=> build.LOAD /\ pc = WriteEnd + 2
      /\ Program[pc] = "read" <=> Reading
      /\ Program[pc] = "update" <=> Updating
      /\ Program[pc] = "revert" <=> Reverting
  BY <1>1, Whereabouts
<1> HIDE DEF read, write
<1>4. ASSUME Writing
      PROVE  Accesses = Before(i) \o <<write>> /\ OwnAccesses = <<write>>
  <2>1. Accesses = Append(Before(i), write)
    BY <1>3, <1>4 DEF Accesses, write
  <2> QED BY <1>2, <1>3, <1>4, <2>1 DEF OwnAccesses, write
<1>5. ASSUME Reading \/ Verifying
      PROVE  Accesses = Before(i) \o <<read>> /\ OwnAccesses = <<read>>
  <2>1. Accesses = Append(Before(i), read)
    BY <1>3, <1>5 DEF Accesses, read
  <2>2. OwnAccesses = <<read>>
    BY <1>5 DEF OwnAccesses, read
  <2>3. Append(Before(i), read) = Before(i) \o <<read>>
    BY <1>2
  <2> QED BY <2>1, <2>2, <2>3
<1>6. ASSUME Updating
      PROVE  /\ Accesses = Before(i) \o OwnAccesses
             /\ OwnAccesses = IF build.RMW THEN <<write>> ELSE <<read, write>>
  <2>1. Accesses = Before(i) \o (IF build.RMW THEN <<>> ELSE <<read>>) \o <<write>>
    BY <1>3, <1>6 DEF Accesses, read, write
  <2>2. OwnAccesses = IF build.RMW THEN <<write>> ELSE <<read, write>>
    BY <1>3, <1>6 DEF OwnAccesses, read, write
  <2>3. CASE build.RMW
    <3>1. Before(i) \o <<>> = Before(i)
      BY <1>2, ConcatEmptySeq
    <3> QED BY <2>1, <2>2, <2>3, <3>1
  <2>4. CASE ~build.RMW
    <3>1. <<read>> \in Seq(AccessTo) /\ <<write>> \in Seq(AccessTo)
      BY <1>2
    <3>2. (Before(i) \o <<read>>) \o <<write>> = Before(i) \o (<<read>> \o <<write>>)
      BY <1>2, <3>1, ConcatAssociative
    <3>3. <<read>> \o <<write>> = <<read, write>>
      <4>1. /\ <<read>> \o <<write>> \in Seq(AccessTo)
            /\ Len(<<read>> \o <<write>>) = 2
            /\ (<<read>> \o <<write>>)[1] = read /\ (<<read>> \o <<write>>)[2] = write
        BY <1>2, <3>1
      <4>2. <<read, write>> \in Seq(AccessTo) /\ Len(<<read, write>>) = 2
        BY <1>2
      <4>3. \A n \in 1 .. 2 : (<<read>> \o <<write>>)[n] = <<read, write>>[n]
        BY <4>1
      <4> HIDE DEF read, write
      <4> DEFINE rw == <<read>> \o <<write>>
                 rw2 == <<read, write>>
      <4>4. /\ rw \in Seq(AccessTo) /\ rw2 \in Seq(AccessTo) /\ Len(rw) = Len(rw2)
            /\ \A n \in 1 .. Len(rw) : rw[n] = rw2[n]
        BY <4>1, <4>2, <4>3
      <4> HIDE DEF rw, rw2
      <4>5. rw = rw2
        BY <4>4, SeqEqual
      <4> QED BY <4>5 DEF rw, rw2
    <3> QED BY <2>1, <2>2, <2>4, <3>2, <3>3
  <2> QED BY <1>1, <2>2, <2>3, <2>4
<1>7. ASSUME Reverting PROVE Accesses \in Seq(AccessTo)
  <2> DEFINE rest == Before(i - 1) \o <<Access(Nth(i - 1), "write")>>
  <2>1. CASE i = 0
    <3>1. Accesses = <<>>
      BY <1>3, <1>7, <2>1 DEF Accesses
    <3> QED BY <3>1
  <2>2. CASE i # 0
    <3>1. i - 1 \in Elem
      BY <1>1, <2>2, Sizes
    <3>2. Before(i - 1) \in Seq(AccessTo) /\ Access(Nth(i - 1), "write") \in AccessTo
      BY <1>1, <3>1, Order, BeforeAccess DEF Access, AccessTo
    <3>3. Accesses = Before(i) \o <<write>> \o Before(i - 1) \o <<Access(Nth(i - 1), "write")>>
      BY <1>3, <1>7, <2>2 DEF Accesses, write
    <3> QED BY <1>2, <3>2, <3>3
  <2> QED BY <2>1, <2>2
<1>8. ASSUME build.LOAD, pc = WriteEnd + 2 PROVE Accesses = <<Access(i, "write")>>
  BY <1>3, <1>8 DEF Accesses
<1>9. ASSUME ~(Writing \/ Verifying \/ Reading \/ Updating \/ Reverting),
             ~(build.LOAD /\ pc = WriteEnd + 2)
      PROVE  Accesses = <<>>
  BY <1>3, <1>9 DEF Accesses
<1>10. Accesses \in Seq(AccessTo)
  <2>1. <<read>> \in Seq(AccessTo) /\ <<write>> \in Seq(AccessTo)
        /\ <<read, write>> \in Seq(AccessTo) /\ <<>> \in Seq(AccessTo)
        /\ <<Access(i, "write")>> \in Seq(AccessTo)
    BY <1>2
  <2>2. /\ Before(i) \o <<write>> \in Seq(AccessTo)
        /\ Before(i) \o <<read>> \in Seq(AccessTo)
        /\ Before(i) \o <<read, write>> \in Seq(AccessTo)
    BY <1>2, <2>1, ConcatProperties
  <2> QED BY <1>1, <1>4, <1>5, <1>6, <1>7, <1>8, <1>9, <2>1, <2>2
<1>11. Writing \/ Verifying \/ Reading \/ Updating => Accesses = Before(i) \o OwnAccesses
  BY <1>4, <1>5, <1>6
<1> QED BY <1>9, <1>10, <1>11

\* No two of the loops are at the same position.
LEMMA Apart ==
  ASSUME TypeOK
  PROVE  /\ Writing => ~Verifying /\ ~Reading /\ ~Updating /\ ~Reverting
         /\ Verifying => ~Reading /\ ~Updating /\ ~Reverting
         /\ Reading => ~Updating /\ ~Reverting
         /\ Updating => ~Reverting
         /\ Done => ~Writing /\ ~Verifying /\ ~Reading /\ ~Updating /\ ~Reverting
<1>1. build \in Build /\ pc \in Nat
  BY Positions, Parts DEF TypeOK
<1>2. Done <=> pc = UpdateEnd + 2
  BY Whereabouts DEF TypeOK
<1> QED BY <1>1, <1>2, Positions
        DEF Writing, Verifying, Reading, Updating, Reverting,
            WriteEnd, SaveEnd, DropEnd, ReadEnd, UpdateEnd

\* The same, access by access
LEMMA AccessAt ==
  ASSUME TypeOK, ~Done
  PROVE  /\ \A n \in DOMAIN Accesses : n \in Nat /\ Accesses[n] \in AccessTo
         /\ Writing \/ Reading \/ Updating =>
              \A n \in DOMAIN Accesses :
                \/ i # 0 /\ i - 1 \in Elem /\ Accesses[n] = Access(Nth(i - 1), "read")
                \/ /\ Accesses[n] = Access(Nth(i), "read")
                   /\ Reading \/ (Updating /\ ~build.RMW)
                \/ /\ Accesses[n] = Access(Nth(i), "write")
                   /\ ~Reading
                   /\ Updating /\ ~build.RMW =>
                        \E m \in 1 .. n - 1 : Accesses[m] = Access(Nth(i), "read")
         /\ Reading \/ (Updating /\ ~build.RMW) =>
              \E n \in DOMAIN Accesses : Accesses[n] = Access(Nth(i), "read")
         /\ Writing \/ Updating =>
              \E n \in DOMAIN Accesses : Accesses[n] = Access(Nth(i), "write")
         /\ (Writing \/ Reading \/ Updating) /\ i # 0 =>
              \E n \in DOMAIN Accesses : Accesses[n] = Access(Nth(i - 1), "read")
<1> DEFINE s == Before(i)
           w == OwnAccesses
           before == Access(Nth(i - 1), "read")
           read == Access(Nth(i), "read")
           write == Access(Nth(i), "write")
<1>1. /\ build \in Build /\ rnum \in Shuffles /\ i \in Elem /\ build.RMW \in BOOLEAN
  BY DEF TypeOK, Build
<1>2. /\ s \in Seq(AccessTo)
      /\ i = 0 => Len(s) = 0
      /\ i # 0 => i - 1 \in Elem /\ Len(s) = 1 /\ s[1] = before
  BY <1>1, BeforeAccess
<1>3. read \in AccessTo /\ write \in AccessTo
  BY <1>1, Order DEF Access, AccessTo
<1>4. Accesses \in Seq(AccessTo)
  BY AccessLists
<1>5. \A n \in DOMAIN Accesses : n \in Nat /\ Accesses[n] \in AccessTo
  BY <1>4
<1>6. /\ Reading => w = <<read>>
      /\ Writing => w = <<write>>
      /\ Updating => w = IF build.RMW THEN <<write>> ELSE <<read, write>>
  BY Apart DEF OwnAccesses
<1>7. Writing \/ Reading \/ Updating => Accesses = s \o w
  BY AccessLists
<1> HIDE DEF s, w, before, read, write
<1>8. /\ <<read>> \in Seq(AccessTo) /\ <<write>> \in Seq(AccessTo)
      /\ <<read, write>> \in Seq(AccessTo)
  BY <1>3
<1> DEFINE Lists(v) ==
             /\ i = 0 => DOMAIN Accesses = 1 .. Len(v)
                         /\ \A n \in 1 .. Len(v) : Accesses[n] = v[n]
             /\ i # 0 => DOMAIN Accesses = 1 .. Len(v) + 1
                         /\ Accesses[1] = before
                         /\ \A n \in 2 .. Len(v) + 1 : Accesses[n] = v[n - 1]
<1>9. ASSUME NEW v \in Seq(AccessTo), Accesses = s \o v PROVE Lists(v)
  <2>1. /\ s \o v \in Seq(AccessTo) /\ Len(s \o v) = Len(s) + Len(v)
        /\ \A n \in 1 .. Len(s) + Len(v) :
             (s \o v)[n] = IF n <= Len(s) THEN s[n] ELSE v[n - Len(s)]
    BY <1>2, ConcatProperties
  <2>2. DOMAIN (s \o v) = 1 .. Len(s) + Len(v) /\ Len(v) \in Nat
    BY <2>1
  <2>3. CASE i = 0
    <3>1. Len(s) = 0
      BY <1>2, <2>3
    <3>2. /\ DOMAIN (s \o v) = 1 .. Len(v)
          /\ \A n \in 1 .. Len(v) : ~(n <= 0) /\ n - 0 = n
      BY <2>2, <3>1
    <3>3. \A n \in 1 .. Len(v) : (s \o v)[n] = v[n]
      BY <2>1, <2>2, <3>1, <3>2
    <3> QED BY <1>9, <2>3, <3>2, <3>3
  <2>4. CASE i # 0
    <3>1. Len(s) = 1 /\ s[1] = before
      BY <1>2, <2>4
    <3>2. 1 + Len(v) = Len(v) + 1 /\ DOMAIN (s \o v) = 1 .. Len(v) + 1
      BY <2>2, <3>1
    <3>3. (s \o v)[1] = before
      BY <2>1, <2>2, <3>1
    <3>4. \A n \in 2 .. Len(v) + 1 : n \in 1 .. 1 + Len(v) /\ ~(n <= 1)
      BY <2>2
    <3>5. \A n \in 2 .. Len(v) + 1 : (s \o v)[n] = v[n - 1]
      BY <2>1, <3>1, <3>4
    <3> QED BY <1>9, <2>4, <3>2, <3>3, <3>5
  <2> QED BY <2>3, <2>4
<1>10. ASSUME Reading
       PROVE  /\ \A n \in DOMAIN Accesses :
                   (i # 0 /\ Accesses[n] = before) \/ Accesses[n] = read
              /\ \E n \in DOMAIN Accesses : Accesses[n] = read
              /\ i # 0 => \E n \in DOMAIN Accesses : Accesses[n] = before
  <2> DEFINE v == <<read>>
  <2>1. /\ v \in Seq(AccessTo) /\ Accesses = s \o v
        /\ Len(v) = 1 /\ v[1] = read
    BY <1>6, <1>7, <1>8, <1>10
  <2> HIDE DEF v
  <2>2. Lists(v)
    BY <1>9, <2>1
  <2>3. /\ i = 0 => DOMAIN Accesses = 1 .. 1 /\ Accesses[1] = read
        /\ i # 0 => DOMAIN Accesses = 1 .. 2 /\ Accesses[1] = before /\ Accesses[2] = read
    BY <2>1, <2>2
  <2> QED BY <2>3
<1>11. ASSUME Writing \/ (Updating /\ build.RMW)
       PROVE  /\ \A n \in DOMAIN Accesses :
                   (i # 0 /\ Accesses[n] = before) \/ Accesses[n] = write
              /\ \E n \in DOMAIN Accesses : Accesses[n] = write
              /\ i # 0 => \E n \in DOMAIN Accesses : Accesses[n] = before
  <2> DEFINE v == <<write>>
  <2>1. /\ v \in Seq(AccessTo) /\ Accesses = s \o v
        /\ Len(v) = 1 /\ v[1] = write
    BY <1>6, <1>7, <1>8, <1>11
  <2> HIDE DEF v
  <2>2. Lists(v)
    BY <1>9, <2>1
  <2>3. /\ i = 0 => DOMAIN Accesses = 1 .. 1 /\ Accesses[1] = write
        /\ i # 0 => DOMAIN Accesses = 1 .. 2 /\ Accesses[1] = before /\ Accesses[2] = write
    BY <2>1, <2>2
  <2> QED BY <2>3
<1>12. ASSUME Updating, ~build.RMW
       PROVE  /\ \A n \in DOMAIN Accesses :
                   \/ i # 0 /\ Accesses[n] = before
                   \/ Accesses[n] = read
                   \/ Accesses[n] = write /\ \E m \in 1 .. n - 1 : Accesses[m] = read
              /\ \E n \in DOMAIN Accesses : Accesses[n] = read
              /\ \E n \in DOMAIN Accesses : Accesses[n] = write
              /\ i # 0 => \E n \in DOMAIN Accesses : Accesses[n] = before
  <2> DEFINE v == <<read, write>>
  <2>1. /\ v \in Seq(AccessTo) /\ Accesses = s \o v
        /\ Len(v) = 2 /\ v[1] = read /\ v[2] = write
    BY <1>6, <1>7, <1>8, <1>12
  <2> HIDE DEF v
  <2>2. Lists(v)
    BY <1>9, <2>1
  <2>3. /\ i = 0 => DOMAIN Accesses = 1 .. 2 /\ Accesses[1] = read /\ Accesses[2] = write
        /\ i # 0 => /\ DOMAIN Accesses = 1 .. 3
                    /\ Accesses[1] = before /\ Accesses[2] = read /\ Accesses[3] = write
    BY <2>1, <2>2
  <2>4. CASE i = 0
    BY <2>3, <2>4
  <2>5. CASE i # 0
    BY <2>3, <2>5
  <2> QED BY <2>4, <2>5
<1> USE DEF before, read, write
<1>13. Reading => ~Updating /\ ~Writing
  BY Apart
<1>14. CASE Reading
  BY <1>2, <1>5, <1>10, <1>13, <1>14
<1>15. CASE Writing
  BY <1>2, <1>5, <1>11, <1>15, Apart
<1>16. CASE Updating
  <2>1. ~Writing /\ ~Reading
    BY <1>16, Apart
  <2>2. CASE build.RMW
    BY <1>2, <1>5, <1>11, <1>16, <2>1, <2>2
  <2>3. CASE ~build.RMW
    BY <1>2, <1>5, <1>12, <1>16, <2>1, <2>3
  <2> QED BY <1>1, <2>2, <2>3
<1> QED BY <1>5, <1>14, <1>15, <1>16

-----------------------------------------------------------------------------
(* The pages and their flags *)

\* The array is in the file; and the pages are flagged as on disk.
Saved  == build.LOAD /\ pc > WriteEnd + 1
Stored == build.LOAD /\ pc > SaveEnd

\* The handler asks the processor, and += faults as a write.
Blind == build.CTX /\ build.RMW

Writable == \A p \in Page : prot[p] = "write"
Closed   == \A p \in Page : prot[p] = "none"

\* Between a flush of a saved array and the next access to it
Flushed ==
  build.LOAD /\ pc \in {SaveEnd + 2, DropEnd + 1, ReadEnd, ReadEnd + 1}

\* The flags say what access a page has.  ONDISK is set by "ondisk", and only an
\* update that writes to a page first replaces it.
FlagsInv ==
  /\ ~build.SBMA => \A p \in Page : prot[p] = "write" /\ pflags[p] = {}
  /\ FlagsMatch
  /\ ~Stored => \A p \in Page : ONDISK \notin pflags[p]
  /\ Stored /\ build.SBMA =>
       \A p \in Page : \/ pflags[p] = {ONDISK}
                       \/ pflags[p] = {DIRTY} /\ Blind /\ pc > ReadEnd + 1

\* The loops make the pages accessible one after the other, in the order in which
\* their elements come up; or all at once, where they are not read lazily.
AccessInv ==
  /\ Writing \/ Reading \/ Updating =>
       \A n \in Elem : n < i => prot[PageOf(Nth(n))] = "write"
  /\ Verifying \/ Reverting \/ (build.WR /\ pc \in 7 .. SaveEnd) => Writable
  /\ build.SBMA /\ build.LOAD /\ ~build.WR /\ pc = WriteEnd + 1 => Closed
  /\ build.SBMA /\ Flushed => Closed
  /\ build.SBMA /\ Saved => build.WR
  /\ build.SBMA /\ ~build.LAZY /\ (~build.CTX \/ (Stored /\ ~build.RMW)) =>
       Closed \/ \A p \in Page : prot[p] # "none"

MemInv == TypeOK /\ FlagsInv /\ AccessInv

\* What an instance of the program is does not change.
LEMMA Frame ==
  ASSUME UNCHANGED conf
  PROVE  /\ build' = build /\ rnum' = rnum /\ left' = left /\ base' = base
         /\ WriteEnd' = WriteEnd /\ SaveEnd' = SaveEnd /\ DropEnd' = DropEnd
         /\ ReadEnd' = ReadEnd /\ UpdateEnd' = UpdateEnd /\ Program' = Program
         /\ Blind' = Blind
         /\ \A n : Nth(n)' = Nth(n)
         /\ \A n : Early(n)' <=> Early(n)
         /\ Broken' <=> Broken
         /\ Misaligned' <=> Misaligned
BY DEF conf, WriteEnd, SaveEnd, DropEnd, ReadEnd, UpdateEnd, Program, Blind, Nth, Early, Broken,
       Misaligned

\* The ways in which a fault on page p ends
Dirties(p) ==
  /\ ~Reading /\ (Stored => Updating /\ Blind)
  /\ prot[p] # "write" /\ (prot[p] = "none" => build.CTX)
  /\ MakeDirty(p)

Loads(p) ==
  /\ Stored /\ (Updating => ~Blind) /\ (Reading \/ Updating)
  /\ prot[p] = "none" /\ pflags[p] = {ONDISK}
  /\ CanRead /\ SyncOnDisk(p)

Syncs(p) ==
  /\ ~Stored /\ ~build.CTX
  /\ prot[p] = "none" /\ (build.LAZY \/ Closed)
  /\ (build.LAZY \/ p = 0) /\ SyncNew(p)

Fails(p) ==
  /\ aborted' = TRUE /\ UNCHANGED <<addr, prot, pflags>>
  /\ \/ Stored /\ (Reading \/ Updating) /\ ~CanRead
     \/ ~Stored /\ ~build.LAZY /\ ~build.CTX /\ Closed /\ p # 0

\* A program that is done accesses nothing.
LEMMA FaultRuns ==
  ASSUME Fault
  PROVE  ~Done /\ UNCHANGED <<conf, pc, i, file>>
<1>1. Done => Accesses = <<>>
  BY DEF Accesses
<1>2. Accesses = <<>> => ~\E n \in DOMAIN Accesses : TRUE
  OBVIOUS
<1>3. \E n \in DOMAIN Accesses : TRUE
  BY DEF Fault
<1>4. UNCHANGED <<conf, pc, i, file>>
  BY DEF Fault
<1> QED BY <1>1, <1>2, <1>3, <1>4

LEMMA FaultCases ==
  ASSUME MemInv, Fault
  PROVE  LET p == PageOf(Nth(i)) IN
         /\ p \in Page /\ build.SBMA /\ ~aborted
         /\ Writing \/ Reading \/ Updating
         /\ Dirties(p) \/ Loads(p) \/ Syncs(p) \/ Fails(p)
         /\ faults' = IF aborted' \/ faults = MaxFaults THEN faults ELSE faults + 1
         /\ UNCHANGED <<conf, pc, i, file>>
<1> DEFINE p == PageOf(Nth(i))
<1>1. /\ build \in Build /\ rnum \in Shuffles /\ i \in Elem /\ TypeOK
      /\ Nth(i) \in Elem /\ p \in Page
      /\ prot \in [Page -> {"none", "read", "write"}]
      /\ pflags \in [Page -> SUBSET {SYNC, DIRTY, ONDISK}]
  BY Order, Pages DEF MemInv, TypeOK
<1>2. PICK n \in DOMAIN Accesses :
        /\ ~Allowed(Accesses[n])
        /\ \A m \in 1 .. n - 1 : Allowed(Accesses[m])
        /\ SegvHandler(PageOf(Accesses[n].elem), Accesses[n].kind)
  BY DEF Fault
<1>3. ~Done
  BY FaultRuns
<1>4. n \in Nat /\ Accesses[n] \in AccessTo
  BY <1>1, <1>3, AccessAt
<1>5. ~Writable
  <2>1. Accesses[n].elem \in Elem /\ Accesses[n].kind \in {"read", "write"}
    BY <1>4 DEF AccessTo
  <2>2. PageOf(Accesses[n].elem) \in Page
    BY <2>1, Pages
  <2> QED BY <1>2, <2>1, <2>2 DEF Allowed, Writable
<1>6. build.SBMA
  BY <1>5 DEF MemInv, FlagsInv, Writable
<1>7. ~(build.LOAD /\ pc = WriteEnd + 2)
  BY <1>1, <1>5, <1>6, Positions DEF MemInv, AccessInv, Saved, WriteEnd, SaveEnd
<1>8. Writing \/ Reading \/ Updating
  BY <1>1, <1>2, <1>3, <1>5, <1>7, AccessLists DEF MemInv, AccessInv
<1> DEFINE kind == Accesses[n].kind
<1>9. /\ Accesses[n].elem = Nth(i) /\ kind \in {"read", "write"}
      /\ kind = "read" => prot[p] = "none" /\ (Reading \/ (Updating /\ ~build.RMW))
      /\ kind = "write" => /\ prot[p] # "write" /\ ~Reading
                           /\ Updating /\ ~build.RMW => prot[p] # "none"
  <2>1. ~(i # 0 /\ i - 1 \in Elem /\ Accesses[n] = Access(Nth(i - 1), "read"))
    <3> SUFFICES ASSUME i # 0, i - 1 \in Elem, Accesses[n] = Access(Nth(i - 1), "read")
                 PROVE  FALSE
      OBVIOUS
    <3>1. i - 1 < i
      BY <1>1, Sizes
    <3>2. prot[PageOf(Nth(i - 1))] = "write"
      BY <1>8, <3>1 DEF MemInv, AccessInv
    <3> QED BY <1>2, <3>2 DEF Allowed, Access
  <2>2. \/ /\ Accesses[n] = Access(Nth(i), "read")
           /\ Reading \/ (Updating /\ ~build.RMW)
        \/ /\ Accesses[n] = Access(Nth(i), "write")
           /\ ~Reading
           /\ Updating /\ ~build.RMW =>
                \E m \in 1 .. n - 1 : Accesses[m] = Access(Nth(i), "read")
    BY <1>1, <1>3, <1>8, <2>1, AccessAt
  <2>3. CASE Accesses[n] = Access(Nth(i), "read") /\ (Reading \/ (Updating /\ ~build.RMW))
    BY <1>1, <1>2, <2>3 DEF Allowed, Access
  <2>4. CASE /\ Accesses[n] = Access(Nth(i), "write")
             /\ ~Reading
             /\ Updating /\ ~build.RMW =>
                  \E m \in 1 .. n - 1 : Accesses[m] = Access(Nth(i), "read")
    <3>1. ASSUME Updating, ~build.RMW PROVE prot[p] # "none"
      <4>1. PICK m \in 1 .. n - 1 : Accesses[m] = Access(Nth(i), "read")
        BY <2>4, <3>1
      <4>2. Allowed(Access(Nth(i), "read"))
        BY <1>2, <4>1
      <4> QED BY <4>2 DEF Allowed, Access
    <3> QED BY <1>1, <1>2, <2>4, <3>1 DEF Allowed, Access
  <2> QED BY <2>2, <2>3, <2>4
<1>10. SegvHandler(p, kind)
  BY <1>2, <1>9
<1> HIDE DEF p, kind
<1>11. FlagsMatch /\ (~Stored => ONDISK \notin pflags[p])
       /\ (Stored => \/ pflags[p] = {ONDISK}
                     \/ pflags[p] = {DIRTY} /\ Blind)
  BY <1>1, <1>6 DEF MemInv, FlagsInv
<1>12. /\ prot[p] = "none" => pflags[p] \cap {SYNC, DIRTY} = {}
       /\ prot[p] = "read" <=> SYNC \in pflags[p]
  BY <1>1, <1>6, <1>11 DEF FlagsMatch
<1>13. build.CTX => build.LOAD
  BY <1>1 DEF Build
<1>14. ~Stored => Writing \/ (Updating /\ ~build.LOAD)
  <2>1. ASSUME Reading PROVE Stored
    <3>1. build.LOAD
      BY <1>1, <2>1 DEF Reading, Build
    <3> QED BY <1>1, <2>1, <3>1, Positions DEF Stored, Reading
  <2>2. ASSUME Updating, build.LOAD PROVE Stored
    BY <1>1, <2>2, Positions DEF Stored, Updating
  <2> QED BY <1>8, <2>1, <2>2
<1>15. Stored => ~Writing
  BY <1>1 DEF Stored, Writing, SaveEnd, WriteEnd
<1>16. CASE FaultType(p, kind) = DIRTY
  <2>1. MakeDirty(p)
    BY <1>10, <1>16 DEF SegvHandler
  <2>2. kind = "write" \/ (~build.CTX /\ SYNC \in pflags[p])
    BY <1>9, <1>16 DEF FaultType, SYNC, DIRTY
  <2>3. kind = "read" => FALSE
    BY <1>9, <1>12, <2>2 DEF SYNC
  <2>4. kind = "write" /\ prot[p] # "write" /\ ~Reading
    BY <1>9, <2>3
  <2>5. prot[p] = "none" => build.CTX
    BY <1>12, <2>2, <2>3, <1>16 DEF FaultType, SYNC, DIRTY
  <2>6. Stored => Updating /\ Blind
    <3> SUFFICES ASSUME Stored PROVE Updating /\ Blind
      OBVIOUS
    <3>1. SYNC \notin pflags[p]
      BY <1>11 DEF SYNC, DIRTY, ONDISK
    <3>2. prot[p] = "none"
      BY <1>1, <1>12, <2>4, <3>1
    <3> QED BY <1>1, <1>8, <1>9, <1>15, <2>4, <2>5, <3>2 DEF Blind, Build
  <2>7. Dirties(p)
    BY <2>1, <2>4, <2>5, <2>6 DEF Dirties
  <2> QED BY <1>1, <1>2, <1>6, <1>8, <1>10, <2>7 DEF p, Fault, SegvHandler
<1>17. CASE FaultType(p, kind) # DIRTY
  <2>1. /\ build.CTX => kind = "read"
        /\ ~build.CTX => SYNC \notin pflags[p]
    BY <1>1, <1>9, <1>17 DEF FaultType
  <2>2. prot[p] = "none"
    BY <1>1, <1>9, <1>12, <2>1
  <2>3. pflags[p] \cap {SYNC, DIRTY} = {}
    BY <1>12, <2>2
  <2>4. /\ Stored => pflags[p] = {ONDISK}
        /\ ~Stored => ONDISK \notin pflags[p]
    BY <1>11, <2>3 DEF DIRTY
  <2>5. IF Stored THEN SyncOnDisk(p) ELSE SyncNew(p)
    BY <1>10, <1>17, <2>3, <2>4 DEF SegvHandler
  <2>6. ASSUME Stored PROVE Loads(p) \/ Fails(p)
    <3>1. Updating => ~Blind
      BY <1>1, <1>9, <2>1, <2>2, Apart DEF Blind
    <3>2. CASE CanRead
      BY <1>8, <1>15, <2>2, <2>4, <2>5, <2>6, <3>1, <3>2 DEF Loads
    <3>3. CASE ~CanRead
      BY <1>8, <1>15, <2>5, <2>6, <3>3 DEF Fails, SyncOnDisk
    <3> QED BY <3>2, <3>3
  <2>7. ASSUME ~Stored PROVE Syncs(p) \/ Fails(p)
    <3>1. ~build.CTX
      <4>1. CASE Writing
        BY <1>9, <2>1, <4>1, <1>1, Apart DEF TypeOK
      <4>2. CASE ~build.LOAD
        BY <1>13, <4>2
      <4> QED BY <1>14, <2>7, <4>1, <4>2
    <3>2. build.LAZY \/ Closed
      BY <1>1, <1>6, <2>2, <3>1 DEF MemInv, AccessInv
    <3>3. CASE build.LAZY \/ p = 0
      BY <2>2, <2>5, <2>7, <3>1, <3>2, <3>3 DEF Syncs
    <3>4. CASE ~(build.LAZY \/ p = 0)
      BY <2>5, <2>7, <3>1, <3>2, <3>4 DEF Fails, SyncNew
    <3> QED BY <3>3, <3>4
  <2>8. Loads(p) \/ Syncs(p) \/ Fails(p)
    BY <2>6, <2>7
  <2> QED BY <1>1, <1>2, <1>6, <1>8, <1>10, <2>8 DEF p, Fault, SegvHandler
<1> QED BY <1>16, <1>17 DEF p

\* What the parts of main that are not loops do to the memory's state, and an
\* iteration that is not the last of its loop.
LEMMA Passed ==
  ASSUME MemInv, ~Done, Program[pc] \notin {"flush", "ondisk"},
         Writing \/ Updating => Writable,
         build.LOAD /\ build.SBMA /\ pc = WriteEnd + 1 => build.WR,
         pc' = pc + 1, i' = 0, UNCHANGED <<conf, prot, pflags>>
  PROVE  FlagsInv' /\ AccessInv'
<1>1. /\ build' = build /\ rnum' = rnum /\ prot' = prot /\ pflags' = pflags
      /\ WriteEnd' = WriteEnd /\ SaveEnd' = SaveEnd /\ DropEnd' = DropEnd
      /\ ReadEnd' = ReadEnd /\ UpdateEnd' = UpdateEnd /\ Blind' = Blind
      /\ \A n : Nth(n)' = Nth(n)
  BY Frame
<1>2. /\ build \in Build /\ pc \in Nat /\ i \in Elem
      /\ WriteEnd \in Nat /\ SaveEnd \in Nat /\ DropEnd \in Nat
      /\ ReadEnd \in Nat /\ UpdateEnd \in Nat
      /\ 4 <= WriteEnd /\ WriteEnd <= SaveEnd /\ SaveEnd <= DropEnd
      /\ DropEnd <= ReadEnd /\ ReadEnd <= UpdateEnd
  BY Positions, Parts DEF MemInv, TypeOK
<1>3. /\ pc # 4
      /\ build.LOAD => pc # SaveEnd /\ pc # SaveEnd + 1
      /\ build.RD => pc # DropEnd + 3
  BY <1>2, Parts DEF SaveEnd
<1>4. /\ build.LOAD => DropEnd = SaveEnd + 2
      /\ ReadEnd = IF build.RD THEN DropEnd + 4 ELSE DropEnd
      /\ WriteEnd = IF build.WR THEN 7 ELSE 4
  BY DEF DropEnd, ReadEnd, WriteEnd
<1>5. Stored' <=> Stored
  BY <1>1, <1>2, <1>3 DEF Stored
<1>6. FlagsInv'
  BY <1>1, <1>2, <1>5 DEF MemInv, FlagsInv, FlagsMatch
<1>7. ~(\E n \in Elem : n < i')
  BY Sizes
<1>8. (Verifying \/ Reverting \/ (build.WR /\ pc \in 7 .. SaveEnd))' => Writable'
  <2>1. Verifying' => Writing
    BY <1>1, <1>2 DEF Verifying, Writing
  <2>2. Reverting' => Updating
    BY <1>1, <1>2 DEF Reverting, Updating
  <2>3. ASSUME build.WR, pc' \in 7 .. SaveEnd
        PROVE  Writing \/ (build.WR /\ pc \in 7 .. SaveEnd)
    BY <1>2, <2>3 DEF Writing
  <2>4. Writable' <=> Writable
    BY <1>1 DEF Writable
  <2> QED BY <1>1, <2>1, <2>2, <2>3, <2>4 DEF MemInv, AccessInv
<1>9. ~(build.LOAD /\ ~build.WR /\ pc' = WriteEnd + 1)
  BY <1>2, <1>3, <1>4
<1>10. Flushed' => Flushed
  BY <1>1, <1>2, <1>3, <1>4 DEF Flushed
<1>11. build.SBMA /\ Saved' => build.WR
  BY <1>1, <1>2 DEF MemInv, AccessInv, Saved
<1> QED
  BY <1>1, <1>5, <1>6, <1>7, <1>8, <1>9, <1>10, <1>11 DEF MemInv, AccessInv, Closed

LEMMA Looped ==
  ASSUME MemInv, pc' = pc, i' = i + 1, UNCHANGED <<conf, prot, pflags>>,
         Writing \/ Reading \/ Updating => prot[PageOf(Nth(i))] = "write"
  PROVE  FlagsInv' /\ AccessInv'
<1>1. /\ build' = build /\ rnum' = rnum /\ prot' = prot /\ pflags' = pflags /\ pc' = pc
      /\ WriteEnd' = WriteEnd /\ SaveEnd' = SaveEnd /\ DropEnd' = DropEnd
      /\ ReadEnd' = ReadEnd /\ UpdateEnd' = UpdateEnd /\ Blind' = Blind
      /\ \A n : Nth(n)' = Nth(n)
  BY Frame
<1>2. /\ Writing' <=> Writing
      /\ Verifying' <=> Verifying
      /\ Reading' <=> Reading
      /\ Updating' <=> Updating
      /\ Reverting' <=> Reverting
      /\ Stored' <=> Stored
      /\ Saved' <=> Saved
      /\ Flushed' <=> Flushed
      /\ Writable' <=> Writable
      /\ Closed' <=> Closed
  BY <1>1 DEF Writing, Verifying, Reading, Updating, Reverting, Stored, Saved, Flushed,
              Writable, Closed
<1>3. \A n \in Elem : n < i' => n < i \/ n = i
  BY Sizes DEF MemInv, TypeOK
<1>4. FlagsInv'
  BY <1>1, <1>2 DEF MemInv, FlagsInv, FlagsMatch
<1>5. (Writing \/ Reading \/ Updating)' =>
        \A n \in Elem : n < i' => prot'[PageOf(Nth(n)')] = "write"
  BY <1>1, <1>2, <1>3 DEF MemInv, AccessInv
<1> QED BY <1>1, <1>2, <1>4, <1>5 DEF MemInv, AccessInv

\* An iteration of a loop that has run has made the page of its element
\* writable, or found it so; after the last one, all pages are.
LEMMA Ran ==
  ASSUME MemInv, Runs, Writing \/ Reading \/ Updating
  PROVE  /\ prot[PageOf(Nth(i))] = "write"
         /\ i + 1 \notin Elem => Writable
<1>1. /\ build \in Build /\ rnum \in Shuffles /\ i \in Elem /\ TypeOK /\ pc \in Nat
      /\ Nth(i) \in Elem /\ PageOf(Nth(i)) \in Page
      /\ prot \in [Page -> {"none", "read", "write"}]
  <2>1. /\ build \in Build /\ rnum \in Shuffles /\ i \in Elem /\ TypeOK
        /\ pc \in 1 .. Len(Program) + 1 /\ prot \in [Page -> {"none", "read", "write"}]
    BY DEF MemInv, TypeOK
  <2>2. Nth(i) \in Elem /\ PageOf(Nth(i)) \in Page
    BY <2>1, Order, Pages
  <2> QED BY <2>1, <2>2, Parts, Positions
<1>2. ~Done
  BY <1>1, Apart
<1>3. prot[PageOf(Nth(i))] = "write"
  <2>1. CASE Writing \/ Updating
    <3>1. Allowed(Access(Nth(i), "write"))
      BY <1>1, <1>2, <2>1, AccessAt DEF Runs
    <3> QED BY <3>1 DEF Allowed, Access
  <2>2. CASE Reading
    <3>1. Allowed(Access(Nth(i), "read"))
      BY <1>1, <1>2, <2>2, AccessAt DEF Runs
    <3>2. prot[PageOf(Nth(i))] # "none"
      BY <3>1 DEF Allowed, Access
    <3>3. build.LOAD /\ Stored /\ ~(pc > ReadEnd + 1)
      BY <1>1, <2>2, Positions DEF Reading, Stored, Build, ReadEnd
    <3>4. build.SBMA => SYNC \notin pflags[PageOf(Nth(i))]
      BY <1>1, <3>3 DEF MemInv, FlagsInv, SYNC, ONDISK
    <3> QED BY <1>1, <3>2, <3>4 DEF MemInv, FlagsInv, FlagsMatch
  <2> QED BY <2>1, <2>2
<1>4. ASSUME i + 1 \notin Elem, NEW p \in Page PROVE prot[p] = "write"
  <2>1. PICK e \in Elem : PageOf(e) = p
    BY Pages
  <2>2. PICK n \in Elem : Nth(n) = e
    BY <1>1, Order
  <2>3. n < i \/ n = i
    BY <1>1, <1>4, Sizes
  <2> QED BY <1>3, <2>1, <2>2, <2>3 DEF MemInv, AccessInv
<1> QED BY <1>3, <1>4 DEF Writable

LEMMA Iterated ==
  ASSUME TypeOK, Iterate, ~Done, UNCHANGED conf
  PROVE  /\ i' \in Elem /\ pc' \in 1 .. Len(Program) + 1
         /\ \/ pc' = pc /\ i' = i + 1 /\ i + 1 \in Elem
            \/ pc' = pc + 1 /\ i' = 0 /\ i + 1 \notin Elem /\ i = N - 1
<1>1. /\ pc \in 1 .. Len(Program) + 1 /\ i \in Elem
      /\ Len(Program) \in Nat
  BY Parts, Positions DEF TypeOK
<1> QED BY <1>1, Sizes DEF Iterate, NextPart, Done

\* The loops of main
LEMMA LoopMem ==
  ASSUME MemInv, Iterate, ~Done, UNCHANGED <<conf, prot, pflags>>,
         Program[pc] \in {"write", "verify", "clear", "read", "update", "revert"},
         Writing \/ Reading \/ Updating => Runs
  PROVE  FlagsInv' /\ AccessInv'
<1>1. TypeOK /\ build \in Build /\ pc \in 1 .. Len(Program) + 1 /\ UNCHANGED conf
  BY DEF MemInv, TypeOK
<1>2. CASE pc' = pc /\ i' = i + 1
  BY <1>2, Ran, Looped
<1>3. CASE pc' = pc + 1 /\ i' = 0 /\ i + 1 \notin Elem
  <2>1. Writing \/ Updating => Writable
    BY <1>3, Ran
  <2>2. ~(build.LOAD /\ pc = WriteEnd + 1)
    BY <1>1, Parts
  <2> QED BY <1>3, <2>1, <2>2, Passed
<1> QED BY <1>1, <1>2, <1>3, Iterated

\* A fault
LEMMA FaultMem ==
  ASSUME MemInv, Fault
  PROVE  FlagsInv' /\ AccessInv'
<1> DEFINE p == PageOf(Nth(i))
<1>1. /\ p \in Page /\ build.SBMA
      /\ Writing \/ Reading \/ Updating
      /\ Dirties(p) \/ Loads(p) \/ Syncs(p) \/ Fails(p)
      /\ UNCHANGED <<conf, pc, i, file>>
  BY FaultCases
<1>2. /\ build' = build /\ rnum' = rnum /\ pc' = pc /\ i' = i
      /\ WriteEnd' = WriteEnd /\ SaveEnd' = SaveEnd /\ DropEnd' = DropEnd
      /\ ReadEnd' = ReadEnd /\ UpdateEnd' = UpdateEnd /\ Blind' = Blind
      /\ \A n : Nth(n)' = Nth(n)
  BY <1>1, Frame
<1>3. /\ Writing' <=> Writing
      /\ Verifying' <=> Verifying
      /\ Reading' <=> Reading
      /\ Updating' <=> Updating
      /\ Reverting' <=> Reverting
      /\ Stored' <=> Stored
      /\ Saved' <=> Saved
      /\ Flushed' <=> Flushed
  BY <1>2 DEF Writing, Verifying, Reading, Updating, Reverting, Stored, Saved, Flushed
<1>4. /\ build \in Build /\ pc \in Nat /\ i \in Elem /\ rnum \in Shuffles
      /\ prot \in [Page -> {"none", "read", "write"}]
      /\ pflags \in [Page -> SUBSET {SYNC, DIRTY, ONDISK}]
      /\ WriteEnd \in Nat /\ SaveEnd \in Nat /\ DropEnd \in Nat
      /\ ReadEnd \in Nat /\ UpdateEnd \in Nat
      /\ 4 <= WriteEnd /\ WriteEnd <= SaveEnd /\ SaveEnd <= DropEnd
      /\ DropEnd <= ReadEnd /\ ReadEnd <= UpdateEnd
  <2>1. build \in Build /\ pc \in 1 .. Len(Program) + 1
    BY DEF MemInv, TypeOK
  <2> QED BY <2>1, Positions, Parts DEF MemInv, TypeOK
<1>5. /\ ~Verifying /\ ~Reverting /\ ~Flushed
      /\ ~(build.WR /\ pc \in 7 .. SaveEnd)
      /\ ~(build.LOAD /\ pc = WriteEnd + 1)
  <2>1. ~Verifying /\ ~Reverting
    BY <1>1, Apart DEF MemInv
  <2>2. /\ ReadEnd = IF build.RD THEN DropEnd + 4 ELSE DropEnd
        /\ DropEnd = IF build.LOAD THEN SaveEnd + 2 ELSE SaveEnd
        /\ build.RD => build.LOAD
        /\ SaveEnd = IF build.LOAD THEN WriteEnd + 3 ELSE WriteEnd
        /\ WriteEnd = IF build.WR THEN 7 ELSE 4
    BY <1>4 DEF ReadEnd, DropEnd, SaveEnd, WriteEnd, Build
  <2>3. CASE Writing
    BY <1>4, <2>1, <2>2, <2>3 DEF Writing, Flushed
  <2>4. CASE Reading
    BY <1>4, <2>1, <2>2, <2>4 DEF Reading, Flushed
  <2>5. CASE Updating
    BY <1>4, <2>1, <2>2, <2>5 DEF Updating, Flushed
  <2> QED BY <1>1, <2>3, <2>4, <2>5
<1>6. FlagsMatch /\ (Stored => \A q \in Page : \/ pflags[q] = {ONDISK}
                                               \/ pflags[q] = {DIRTY} /\ Blind /\ pc > ReadEnd + 1)
      /\ (~Stored => \A q \in Page : ONDISK \notin pflags[q])
  BY <1>1 DEF MemInv, FlagsInv
<1> HIDE DEF p
\* What remains to show of the new protections and flags
<1>7. SUFFICES
        /\ FlagsMatch'
        /\ \A q \in Page : prot[q] = "write" => prot'[q] = "write"
        /\ ~Stored => \A q \in Page : ONDISK \notin pflags'[q]
        /\ Stored => \A q \in Page :
             \/ pflags'[q] = {ONDISK}
             \/ pflags'[q] = {DIRTY} /\ Blind /\ pc > ReadEnd + 1
        /\ build.SBMA /\ ~build.LAZY /\ (~build.CTX \/ (Stored /\ ~build.RMW)) =>
             (\A q \in Page : prot'[q] = "none") \/ (\A q \in Page : prot'[q] # "none")
  <2> SUFFICES ASSUME
        /\ FlagsMatch'
        /\ \A q \in Page : prot[q] = "write" => prot'[q] = "write"
        /\ ~Stored => \A q \in Page : ONDISK \notin pflags'[q]
        /\ Stored => \A q \in Page :
             \/ pflags'[q] = {ONDISK}
             \/ pflags'[q] = {DIRTY} /\ Blind /\ pc > ReadEnd + 1
        /\ build.SBMA /\ ~build.LAZY /\ (~build.CTX \/ (Stored /\ ~build.RMW)) =>
             (\A q \in Page : prot'[q] = "none") \/ (\A q \in Page : prot'[q] # "none")
               PROVE  FlagsInv' /\ AccessInv'
    OBVIOUS
  <2>1. FlagsInv'
    BY <1>1, <1>2, <1>3 DEF FlagsInv
  <2>2. (Writing \/ Reading \/ Updating)' =>
          \A n \in Elem : n < i' => prot'[PageOf(Nth(n)')] = "write"
    <3>1. \A n \in Elem : n < i => prot[PageOf(Nth(n))] = "write" /\ PageOf(Nth(n)) \in Page
      BY <1>1, <1>4, Order, Pages DEF MemInv, AccessInv
    <3> QED BY <1>2, <3>1
  <2>3. (build.SBMA /\ Saved => build.WR)'
    BY <1>2, <1>3 DEF MemInv, AccessInv
  <2> QED BY <1>2, <1>3, <1>5, <2>1, <2>2, <2>3 DEF AccessInv, Closed
<1>8. CASE Dirties(p)
  <2>1. /\ prot' = [prot EXCEPT ![p] = "write"]
        /\ pflags' = [pflags EXCEPT ![p] = {DIRTY}]
        /\ Stored => Updating /\ Blind
        /\ prot[p] # "write" /\ (prot[p] = "none" => build.CTX)
    BY <1>8 DEF Dirties, MakeDirty
  <2>2. \A q \in Page : /\ prot'[q] = IF q = p THEN "write" ELSE prot[q]
                        /\ pflags'[q] = IF q = p THEN {DIRTY} ELSE pflags[q]
    BY <1>4, <2>1
  <2>3. FlagsMatch'
    BY <1>1, <1>2, <1>6, <2>2 DEF FlagsMatch, SYNC, DIRTY, ONDISK
  <2>4. Stored => pc > ReadEnd + 1
    BY <1>4, <2>1 DEF Updating
  <2>5. ASSUME build.SBMA, ~build.LAZY, ~build.CTX \/ (Stored /\ ~build.RMW)
        PROVE  (\A q \in Page : prot'[q] = "none") \/ (\A q \in Page : prot'[q] # "none")
    <3>1. prot[p] # "none"
      BY <2>1, <2>5 DEF Blind
    <3>2. \A q \in Page : prot[q] # "none"
      BY <1>1, <2>5, <3>1 DEF MemInv, AccessInv, Closed
    <3> QED BY <2>2, <3>2
  <2> QED BY <1>1, <1>6, <2>1, <2>2, <2>3, <2>4, <2>5 DEF DIRTY, ONDISK
<1>9. CASE Loads(p)
  <2>1. /\ Stored /\ (Updating => ~Blind)
        /\ prot[p] = "none" /\ pflags[p] = {ONDISK}
        /\ prot' = [q \in Page |-> IF q \in SyncPages(p) THEN "write" ELSE prot[q]]
        /\ pflags' = pflags
    BY <1>9 DEF Loads, SyncOnDisk, AfterRead
  <2>2. \A q \in Page : prot'[q] = IF q \in SyncPages(p) THEN "write" ELSE prot[q]
    BY <2>1
  <2>3. FlagsMatch'
    BY <1>1, <1>2, <1>6, <2>1, <2>2 DEF FlagsMatch, SYNC, DIRTY, ONDISK
  <2>4. ~build.LAZY => \A q \in Page : prot'[q] # "none"
    BY <2>2 DEF SyncPages
  <2> QED BY <1>6, <2>1, <2>2, <2>3, <2>4
<1>10. CASE Syncs(p)
  <2>1. /\ ~Stored /\ prot[p] = "none" /\ (build.LAZY \/ Closed)
        /\ prot' = [q \in Page |-> IF q \in SyncPages(p) THEN "read" ELSE prot[q]]
        /\ pflags' = [q \in Page |-> IF q \in SyncPages(p) THEN {SYNC} ELSE pflags[q]]
    BY <1>10 DEF Syncs, SyncNew
  <2>2. \A q \in Page :
          /\ prot'[q] = IF q \in SyncPages(p) THEN "read" ELSE prot[q]
          /\ pflags'[q] = IF q \in SyncPages(p) THEN {SYNC} ELSE pflags[q]
    BY <2>1
  <2>3. FlagsMatch'
    BY <1>1, <1>2, <1>6, <2>2 DEF FlagsMatch, SYNC, DIRTY, ONDISK
  <2>4. ~build.LAZY => \A q \in Page : prot'[q] # "none"
    BY <2>2 DEF SyncPages
  <2>5. \A q \in SyncPages(p) : q \in Page => prot[q] # "write"
    BY <2>1 DEF SyncPages, Closed
  <2> QED BY <1>6, <2>1, <2>2, <2>3, <2>4, <2>5 DEF SYNC, ONDISK
<1>11. CASE Fails(p)
  <2>1. prot' = prot /\ pflags' = pflags
    BY <1>11 DEF Fails
  <2> QED BY <1>1, <1>2, <1>6, <2>1 DEF MemInv, AccessInv, FlagsMatch, Closed
<1> QED BY <1>1, <1>8, <1>9, <1>10, <1>11 DEF p

\* A flush, and the marking of the pages as on disk
LEMMA FlushMem ==
  ASSUME MemInv, Flush
  PROVE  FlagsInv' /\ AccessInv'
<1>1. /\ ~Done /\ pc' = pc + 1 /\ i' = 0 /\ UNCHANGED <<conf, file, aborted>>
      /\ prot' = IF build.SBMA THEN [p \in Page |-> "none"] ELSE prot
      /\ pflags' = [p \in Page |-> pflags[p] \cap {ONDISK}]
  BY DEF Flush, At, NextPart
<1>2. /\ build' = build /\ rnum' = rnum
      /\ WriteEnd' = WriteEnd /\ SaveEnd' = SaveEnd /\ DropEnd' = DropEnd
      /\ ReadEnd' = ReadEnd /\ UpdateEnd' = UpdateEnd /\ Blind' = Blind
  BY <1>1, Frame
<1>3. /\ build \in Build /\ pc \in Nat
      /\ WriteEnd \in Nat /\ SaveEnd \in Nat /\ DropEnd \in Nat
      /\ ReadEnd \in Nat /\ UpdateEnd \in Nat
      /\ 4 <= WriteEnd /\ WriteEnd <= SaveEnd /\ SaveEnd <= DropEnd
      /\ DropEnd <= ReadEnd /\ ReadEnd <= UpdateEnd
      /\ \/ pc = 1 \/ pc = 4 \/ (build.WR /\ pc = 5)
         \/ (build.LOAD /\ pc = SaveEnd + 1)
         \/ (build.RD /\ pc = DropEnd + 3)
  <2>1. build \in Build /\ pc \in 1 .. Len(Program) + 1
    BY DEF MemInv, TypeOK
  <2> QED BY <2>1, Positions, Parts, Whereabouts DEF Flush
<1>4. /\ build.LOAD => SaveEnd = WriteEnd + 3 /\ DropEnd = SaveEnd + 2
      /\ ReadEnd = IF build.RD THEN DropEnd + 4 ELSE DropEnd
      /\ build.RD => build.LOAD
      /\ WriteEnd = IF build.WR THEN 7 ELSE 4
  BY <1>3 DEF SaveEnd, DropEnd, ReadEnd, WriteEnd, Build
<1>5. /\ Stored' <=> Stored
      /\ Stored => pc <= ReadEnd
  <2>1. CASE pc = 1 \/ pc = 4 \/ (build.WR /\ pc = 5)
    BY <1>1, <1>2, <1>3, <1>4, <2>1 DEF Stored
  <2>2. CASE build.LOAD /\ pc = SaveEnd + 1
    BY <1>1, <1>2, <1>3, <1>4, <2>2 DEF Stored
  <2>3. CASE build.RD /\ pc = DropEnd + 3
    BY <1>1, <1>2, <1>3, <1>4, <2>3 DEF Stored
  <2> QED BY <1>3, <2>1, <2>2, <2>3
<1>6. \A p \in Page : pflags'[p] = pflags[p] \cap {ONDISK}
  BY <1>1
<1>7. FlagsInv'
  <2>1. CASE build.SBMA
    <3>1. \A p \in Page : prot'[p] = "none"
      BY <1>1, <2>1
    <3>2. FlagsMatch'
      BY <1>2, <1>6, <3>1 DEF FlagsMatch, SYNC, DIRTY, ONDISK
    <3> QED BY <1>2, <1>3, <1>5, <1>6, <2>1, <3>2 DEF MemInv, FlagsInv
  <2>2. CASE ~build.SBMA
    <3>1. \A p \in Page : prot'[p] = "write" /\ pflags'[p] = {}
      BY <1>1, <1>6, <2>2 DEF MemInv, FlagsInv
    <3>2. FlagsMatch'
      BY <1>2, <2>2 DEF FlagsMatch
    <3> QED BY <1>2, <2>2, <3>1, <3>2 DEF FlagsInv, ONDISK
  <2> QED BY <2>1, <2>2
<1>8. ~Verifying' /\ ~Reverting' /\ ~(build.WR /\ pc' \in 7 .. SaveEnd)
  BY <1>1, <1>2, <1>3, <1>4 DEF Verifying, Reverting
<1>9. build.SBMA => Closed'
  BY <1>1 DEF Closed
<1>10. build.SBMA /\ Saved' => build.WR
  BY <1>1, <1>2, <1>3, <1>4 DEF MemInv, AccessInv, Saved
<1>11. ~(\E n \in Elem : n < i')
  BY <1>1, Sizes
<1> QED BY <1>1, <1>2, <1>7, <1>8, <1>9, <1>10, <1>11 DEF AccessInv

LEMMA OnDiskMem ==
  ASSUME MemInv, OnDisk
  PROVE  FlagsInv' /\ AccessInv'
<1>1. /\ ~Done /\ pc' = pc + 1 /\ i' = 0 /\ UNCHANGED <<conf, prot>>
      /\ pflags' = IF build.SBMA THEN [p \in Page |-> {ONDISK}] ELSE pflags
  BY DEF OnDisk, At, NextPart
<1>2. /\ build' = build /\ rnum' = rnum /\ prot' = prot
      /\ WriteEnd' = WriteEnd /\ SaveEnd' = SaveEnd /\ DropEnd' = DropEnd
      /\ ReadEnd' = ReadEnd /\ UpdateEnd' = UpdateEnd /\ Blind' = Blind
  BY <1>1, Frame
<1>3. /\ build \in Build /\ pc \in Nat
      /\ WriteEnd \in Nat /\ SaveEnd \in Nat /\ DropEnd \in Nat
      /\ ReadEnd \in Nat /\ UpdateEnd \in Nat
      /\ 4 <= WriteEnd /\ WriteEnd <= SaveEnd /\ SaveEnd <= DropEnd
      /\ DropEnd <= ReadEnd /\ ReadEnd <= UpdateEnd
      /\ build.LOAD /\ pc = WriteEnd + 3
  <2>1. build \in Build /\ pc \in 1 .. Len(Program) + 1
    BY DEF MemInv, TypeOK
  <2> QED BY <2>1, Positions, Parts, Whereabouts DEF OnDisk
<1>4. /\ SaveEnd = WriteEnd + 3 /\ DropEnd = SaveEnd + 2
      /\ WriteEnd = IF build.WR THEN 7 ELSE 4
  BY <1>3 DEF SaveEnd, DropEnd, WriteEnd
<1>5. build.SBMA => build.WR /\ Writable
  BY <1>3, <1>4 DEF MemInv, AccessInv, Saved
<1>6. FlagsInv'
  <2>1. CASE build.SBMA
    <3>1. \A p \in Page : pflags'[p] = {ONDISK} /\ prot'[p] = "write"
      BY <1>1, <1>2, <1>5, <2>1 DEF Writable
    <3>2. FlagsMatch'
      BY <1>2, <3>1 DEF FlagsMatch, SYNC, DIRTY, ONDISK
    <3>3. Stored'
      BY <1>1, <1>2, <1>3, <1>4 DEF Stored
    <3> QED BY <1>2, <2>1, <3>1, <3>2, <3>3 DEF FlagsInv
  <2>2. CASE ~build.SBMA
    <3>1. \A p \in Page : prot'[p] = "write" /\ pflags'[p] = {}
      BY <1>1, <1>2, <2>2 DEF MemInv, FlagsInv
    <3>2. FlagsMatch'
      BY <1>2, <2>2 DEF FlagsMatch
    <3> QED BY <1>2, <2>2, <3>1, <3>2 DEF FlagsInv, ONDISK
  <2> QED BY <2>1, <2>2
<1>7. /\ ~Verifying' /\ ~Reverting' /\ ~Flushed'
      /\ ~(build.WR /\ pc' \in 7 .. SaveEnd)
      /\ pc' # WriteEnd + 1
  BY <1>1, <1>2, <1>3, <1>4 DEF Verifying, Reverting, Flushed, ReadEnd
<1>8. build.SBMA => \A p \in Page : prot'[p] # "none"
  BY <1>2, <1>5 DEF Writable
<1>9. ~(\E n \in Elem : n < i')
  BY <1>1, Sizes
<1> QED BY <1>1, <1>2, <1>5, <1>6, <1>7, <1>8, <1>9 DEF AccessInv

-----------------------------------------------------------------------------
(* Types *)

LEMMA Contents ==
  ASSUME TypeOK
  PROVE  /\ \A P : CanRead => Loaded(P) \in [Elem -> Nat]
         /\ \A e : (FetchesPage(e) => CanRead) => FetchPage(e) \in [Elem -> Nat]
         /\ \A a \in [Elem -> Nat] : \A n \in Elem : Preceding(a, n) \in Nat
<1>1. /\ addr \in [Elem -> Nat] /\ (CanRead => file \in [Elem -> Nat])
      /\ build \in Build /\ rnum \in Shuffles
  BY DEF TypeOK, CanRead
<1>2. \A P : CanRead => Loaded(P) \in [Elem -> Nat]
  BY <1>1 DEF Loaded
<1>3. \A e : (FetchesPage(e) => CanRead) => FetchPage(e) \in [Elem -> Nat]
  BY <1>1 DEF FetchPage
<1>4. ASSUME NEW a \in [Elem -> Nat], NEW n \in Elem PROVE Preceding(a, n) \in Nat
  <2>1. CASE n = 0
    BY <2>1 DEF Preceding
  <2>2. CASE n # 0
    <3>1. n - 1 \in Elem
      BY <2>2, Sizes
    <3> QED BY <1>1, <2>2, <3>1, Order DEF Preceding
  <2> QED BY <2>1, <2>2
<1> QED BY <1>2, <1>3, <1>4

\* The parts of main that are not loops
LEMMA PartType ==
  ASSUME TypeOK, Flush \/ OnDisk \/ FetchBulk \/ Destroy \/ IoWrite \/ IoFlush
  PROVE  TypeOK'
<1>1. /\ build \in Build /\ rnum \in Shuffles /\ left \in BOOLEAN /\ base \in Bases
      /\ pc \in 1 .. Len(Program) + 1 /\ i \in Elem
      /\ prot \in [Page -> {"none", "read", "write"}]
      /\ pflags \in [Page -> SUBSET {SYNC, DIRTY, ONDISK}]
      /\ addr \in [Elem -> Nat]
      /\ file = None \/ file \in [Elem -> Nat]
      /\ faults \in 0 .. MaxFaults /\ aborted \in BOOLEAN
  BY DEF TypeOK
<1>2. UNCHANGED conf /\ ~Done
  BY DEF Flush, OnDisk, FetchBulk, Destroy, IoWrite, IoFlush, Abort, At
<1>3. /\ build' = build /\ rnum' = rnum /\ left' = left /\ base' = base
      /\ Program' = Program
  BY <1>2, Frame
<1>4. /\ pc + 1 \in 1 .. Len(Program) + 1 /\ 0 \in Elem /\ 0 \in 0 .. MaxFaults
  BY <1>1, <1>2, Parts, Positions, Sizes, MicroAssumption DEF Done
<1>5. /\ pc' \in 1 .. Len(Program) + 1 /\ i' \in Elem
  BY <1>1, <1>4 DEF Flush, OnDisk, FetchBulk, Destroy, IoWrite, IoFlush, NextPart, Abort
<1>6. SUFFICES /\ prot' \in [Page -> {"none", "read", "write"}]
               /\ pflags' \in [Page -> SUBSET {SYNC, DIRTY, ONDISK}]
               /\ addr' \in [Elem -> Nat]
               /\ file' = None \/ file' \in [Elem -> Nat]
               /\ faults' \in 0 .. MaxFaults /\ aborted' \in BOOLEAN
  BY <1>1, <1>3, <1>5 DEF TypeOK
<1>7. CASE Flush
  BY <1>1, <1>4, <1>7 DEF Flush
<1>8. CASE OnDisk
  BY <1>1, <1>8 DEF OnDisk
<1>9. CASE FetchBulk
  BY <1>1, <1>9, Contents DEF FetchBulk, Abort, memory
<1>10. CASE Destroy
  BY <1>1, <1>10 DEF Destroy, memory
<1>11. CASE IoWrite
  BY <1>1, <1>11 DEF IoWrite, Abort, memory
<1>12. CASE IoFlush
  BY <1>1, <1>12 DEF IoFlush, Abort, memory
<1> QED BY <1>7, <1>8, <1>9, <1>10, <1>11, <1>12

\* The loops: what an iteration does to the array
LEMMA LoopType ==
  ASSUME TypeOK, Write \/ Verify \/ Clear \/ Read \/ Update \/ Revert
  PROVE  TypeOK'
<1>1. /\ build \in Build /\ rnum \in Shuffles /\ left \in BOOLEAN /\ base \in Bases
      /\ pc \in 1 .. Len(Program) + 1 /\ i \in Elem
      /\ prot \in [Page -> {"none", "read", "write"}]
      /\ pflags \in [Page -> SUBSET {SYNC, DIRTY, ONDISK}]
      /\ addr \in [Elem -> Nat]
      /\ file = None \/ file \in [Elem -> Nat]
      /\ faults \in 0 .. MaxFaults /\ aborted \in BOOLEAN
  BY DEF TypeOK
<1>2. /\ UNCHANGED <<conf, prot, pflags, faults, file>> /\ ~Done
      /\ Iterate \/ UNCHANGED <<pc, i>>
      /\ aborted' \in BOOLEAN
  BY <1>1 DEF Write, Verify, Clear, Read, Update, Revert, Abort, At, memory
<1>3. /\ build' = build /\ rnum' = rnum /\ left' = left /\ base' = base
      /\ Program' = Program
  BY <1>2, Frame
<1>4. pc' \in 1 .. Len(Program) + 1 /\ i' \in Elem
  BY <1>1, <1>2, Iterated
<1>5. Nth(i) \in Elem /\ rnum[Nth(i)] \in Nat /\ Preceding(addr, i) \in Nat
  <2>1. Nth(i) \in Elem /\ \A n \in Elem : rnum[n] \in Nat
    BY <1>1, Order
  <2> QED BY <1>1, <2>1, Contents
<1>6. addr' \in [Elem -> Nat]
  <2>1. CASE Write
    BY <1>1, <1>5, <2>1 DEF Write
  <2>2. CASE Clear
    BY <1>1, <1>5, <2>2 DEF Clear
  <2>3. CASE Read
    BY <1>1, <2>3, Contents DEF Read, Abort, memory
  <2>4. CASE Update
    <3> DEFINE a == FetchPage(Nth(i))
    <3>1. CASE aborted' = TRUE /\ addr' = addr
      BY <1>1, <3>1
    <3>2. CASE /\ FetchesPage(Nth(i)) => CanRead
               /\ addr' = [a EXCEPT ![Nth(i)] = @ + Preceding(a, i) + rnum[Nth(i)]]
      <4>1. a \in [Elem -> Nat]
        BY <3>2, Contents
      <4> HIDE DEF a
      <4>2. Preceding(a, i) \in Nat
        BY <1>1, <4>1, Contents
      <4> QED BY <1>5, <3>2, <4>1, <4>2
    <3> QED BY <2>4, <3>1, <3>2 DEF Update, Abort, memory
  <2>5. CASE Verify \/ Revert
    BY <1>1, <2>5 DEF Verify, Revert, Abort, memory
  <2> QED BY <2>1, <2>2, <2>3, <2>4, <2>5
<1> QED BY <1>1, <1>2, <1>3, <1>4, <1>6 DEF TypeOK

\* An endless read
LEMMA SpinType ==
  ASSUME TypeOK, Spin
  PROVE  TypeOK'
<1>1. UNCHANGED <<conf, pc, i, prot, pflags, faults, file, aborted>>
  BY DEF Spin
<1>2. build' = build /\ rnum' = rnum /\ left' = left /\ base' = base /\ Program' = Program
  BY <1>1, Frame
<1>3. addr' \in [Elem -> Nat]
  <2>1. CASE build.GHOST
    BY <2>1 DEF Spin, TypeOK
  <2>2. CASE ~build.GHOST
    <3>1. CanRead /\ addr' = FetchPage(Nth(i))
      BY <2>2 DEF Spin, PastEnd, CanRead
    <3> QED BY <3>1, Contents
  <2> QED BY <2>1, <2>2
<1> QED BY <1>1, <1>2, <1>3 DEF TypeOK

\* A fault
LEMMA FaultedType ==
  ASSUME MemInv, Fault
  PROVE  TypeOK'
<1> DEFINE p == PageOf(Nth(i))
<1>1. /\ build \in Build /\ rnum \in Shuffles /\ left \in BOOLEAN /\ base \in Bases
      /\ pc \in 1 .. Len(Program) + 1 /\ i \in Elem
      /\ prot \in [Page -> {"none", "read", "write"}]
      /\ pflags \in [Page -> SUBSET {SYNC, DIRTY, ONDISK}]
      /\ addr \in [Elem -> Nat]
      /\ file = None \/ file \in [Elem -> Nat]
      /\ faults \in 0 .. MaxFaults /\ aborted \in BOOLEAN /\ TypeOK
  BY DEF MemInv, TypeOK
<1>2. /\ p \in Page /\ ~aborted
      /\ Dirties(p) \/ Loads(p) \/ Syncs(p) \/ Fails(p)
      /\ faults' = IF aborted' \/ faults = MaxFaults THEN faults ELSE faults + 1
      /\ UNCHANGED <<conf, pc, i, file>>
  BY FaultCases
<1>3. /\ build' = build /\ rnum' = rnum /\ left' = left /\ base' = base
      /\ Program' = Program
  BY <1>2, Frame
<1>4. faults' \in 0 .. MaxFaults
  BY <1>1, <1>2, MicroAssumption
<1>5. SUFFICES /\ prot' \in [Page -> {"none", "read", "write"}]
               /\ pflags' \in [Page -> SUBSET {SYNC, DIRTY, ONDISK}]
               /\ addr' \in [Elem -> Nat]
               /\ aborted' \in BOOLEAN
  BY <1>1, <1>2, <1>3, <1>4 DEF TypeOK
<1> HIDE DEF p
<1>6. CASE Dirties(p)
  BY <1>1, <1>2, <1>6 DEF Dirties, MakeDirty
<1>7. CASE Loads(p)
  BY <1>1, <1>2, <1>7, Contents DEF Loads, SyncOnDisk, AfterRead
<1>8. CASE Syncs(p)
  BY <1>1, <1>2, <1>8 DEF Syncs, SyncNew
<1>9. CASE Fails(p)
  BY <1>1, <1>9 DEF Fails
<1> QED BY <1>2, <1>6, <1>7, <1>8, <1>9

-----------------------------------------------------------------------------
(* The invariant of access and flags *)

\* A step that leaves pages and positions alone
LEMMA KeptMem ==
  ASSUME MemInv, UNCHANGED <<conf, pc, i, prot, pflags>>
  PROVE  FlagsInv' /\ AccessInv'
<1>1. /\ build' = build /\ rnum' = rnum /\ pc' = pc /\ i' = i
      /\ prot' = prot /\ pflags' = pflags
      /\ WriteEnd' = WriteEnd /\ SaveEnd' = SaveEnd /\ DropEnd' = DropEnd
      /\ ReadEnd' = ReadEnd /\ UpdateEnd' = UpdateEnd /\ Blind' = Blind
      /\ \A n : Nth(n)' = Nth(n)
  BY Frame
<1>2. /\ Writing' <=> Writing
      /\ Verifying' <=> Verifying
      /\ Reading' <=> Reading
      /\ Updating' <=> Updating
      /\ Reverting' <=> Reverting
      /\ Stored' <=> Stored
      /\ Saved' <=> Saved
      /\ Flushed' <=> Flushed
      /\ Writable' <=> Writable
      /\ Closed' <=> Closed
  BY <1>1 DEF Writing, Verifying, Reading, Updating, Reverting, Stored, Saved, Flushed,
              Writable, Closed
<1>3. FlagsInv'
  BY <1>1, <1>2 DEF MemInv, FlagsInv, FlagsMatch
<1> QED BY <1>1, <1>2, <1>3 DEF MemInv, AccessInv

\* The loops
LEMMA LoopsMem ==
  ASSUME MemInv, Write \/ Verify \/ Clear \/ Read \/ Update \/ Revert
  PROVE  FlagsInv' /\ AccessInv'
<1>1. /\ UNCHANGED <<conf, prot, pflags>> /\ ~Done /\ Runs
      /\ Program[pc] \in {"write", "verify", "clear", "read", "update", "revert"}
      /\ Iterate \/ UNCHANGED <<pc, i>>
  BY DEF Write, Verify, Clear, Read, Update, Revert, Abort, At, memory
<1>2. CASE Iterate
  BY <1>1, <1>2, LoopMem
<1>3. CASE UNCHANGED <<pc, i>>
  BY <1>1, <1>3, KeptMem
<1> QED BY <1>1, <1>2, <1>3

\* The parts of main between them that leave the pages alone
LEMMA PartsMem ==
  ASSUME MemInv, FetchBulk \/ Destroy \/ IoWrite \/ IoFlush
  PROVE  FlagsInv' /\ AccessInv'
<1>1. /\ UNCHANGED <<conf, prot, pflags>> /\ ~Done
      /\ Program[pc] \in {"fetch", "destroy", "save", "drop"}
      /\ NextPart \/ UNCHANGED <<pc, i>>
  BY DEF FetchBulk, Destroy, IoWrite, IoFlush, Abort, At, memory
<1>2. /\ TypeOK /\ build \in Build /\ pc \in 1 .. Len(Program) + 1
  BY DEF MemInv, TypeOK
<1>3. ~Writing /\ ~Updating
  BY <1>1, <1>2, Whereabouts
<1>4. CASE UNCHANGED <<pc, i>>
  BY <1>1, <1>4, KeptMem
<1>5. CASE NextPart /\ build.LOAD /\ build.SBMA /\ ~build.WR /\ pc = WriteEnd + 1
  <2>1. \A p \in Page : prot[p] = "none"
    BY <1>5 DEF MemInv, AccessInv, Closed
  <2>2. 0 \in Page
    BY Sizes DEF Page
  <2>3. Program[pc] = "save"
    BY <1>2, <1>5, Parts
  <2>4. Abort
    BY <1>1, <2>1, <2>2, <2>3 DEF FetchBulk, Destroy, IoWrite, IoFlush, At
  <2> QED BY <1>1, <2>4, KeptMem DEF Abort
<1>6. CASE NextPart /\ (build.LOAD /\ build.SBMA /\ pc = WriteEnd + 1 => build.WR)
  BY <1>1, <1>3, <1>6, Passed DEF NextPart
<1> QED BY <1>1, <1>2, <1>4, <1>5, <1>6 DEF Build

LEMMA MemStep ==
  ASSUME MemInv, [Next]_vars
  PROVE  MemInv'
<1>1. TypeOK
  BY DEF MemInv
<1>2. CASE Fault
  BY <1>2, FaultedType, FaultMem DEF MemInv
<1>3. CASE Flush
  BY <1>1, <1>3, PartType, FlushMem DEF MemInv
<1>4. CASE OnDisk
  BY <1>1, <1>4, PartType, OnDiskMem DEF MemInv
<1>5. CASE FetchBulk \/ Destroy \/ IoWrite \/ IoFlush
  BY <1>1, <1>5, PartType, PartsMem DEF MemInv
<1>6. CASE Write \/ Verify \/ Clear \/ Read \/ Update \/ Revert
  BY <1>1, <1>6, LoopType, LoopsMem DEF MemInv
<1>7. CASE Spin
  BY <1>1, <1>7, SpinType, KeptMem DEF MemInv, Spin
<1>8. CASE UNCHANGED vars
  <2>1. UNCHANGED <<conf, pc, i, prot, pflags>>
    BY <1>8 DEF vars, memory
  <2>2. TypeOK'
    <3>1. Program' = Program
      BY <2>1, Frame
    <3> QED BY <1>1, <1>8, <3>1 DEF vars, conf, memory, TypeOK
  <2> QED BY <2>1, <2>2, KeptMem DEF MemInv
<1> QED BY <1>2, <1>3, <1>4, <1>5, <1>6, <1>7, <1>8 DEF Next

LEMMA MemInit ==
  ASSUME Init
  PROVE  MemInv
<1>1. /\ build \in Build /\ rnum \in Shuffles /\ left \in BOOLEAN /\ base \in Bases
      /\ pc = 1 /\ i = 0 /\ faults = 0 /\ aborted = FALSE
      /\ prot = [p \in Page |-> IF build.SBMA THEN "none" ELSE "write"]
      /\ pflags = [p \in Page |-> {}]
  BY DEF Init
<1>2. /\ Len(Program) \in Nat
      /\ WriteEnd \in Nat /\ SaveEnd \in Nat /\ DropEnd \in Nat
      /\ ReadEnd \in Nat /\ UpdateEnd \in Nat
      /\ 4 <= WriteEnd /\ WriteEnd <= SaveEnd /\ SaveEnd <= DropEnd
      /\ DropEnd <= ReadEnd /\ ReadEnd <= UpdateEnd
  BY <1>1, Parts, Positions
<1>3. addr \in [Elem -> Nat] /\ (file = None \/ file \in [Elem -> Nat])
  BY DEF Init
<1>4. /\ prot \in [Page -> {"none", "read", "write"}]
      /\ pflags \in [Page -> SUBSET {SYNC, DIRTY, ONDISK}]
  BY <1>1
<1>5. TypeOK
  <2>1. pc \in 1 .. Len(Program) + 1
    BY <1>1, <1>2
  <2>2. i \in Elem
    BY <1>1, Sizes
  <2>3. faults \in 0 .. MaxFaults /\ aborted \in BOOLEAN
    <3>1. MaxFaults \in Nat
      BY MicroAssumption
    <3>2. 0 \in 0 .. MaxFaults
      BY <3>1
    <3>3. faults = 0 /\ aborted = FALSE
      BY <1>1
    <3> QED BY <3>2, <3>3
  <2> QED BY <1>1, <1>3, <1>4, <2>1, <2>2, <2>3 DEF TypeOK
<1>6. FlagsInv
  <2>1. \A p \in Page : /\ prot[p] = IF build.SBMA THEN "none" ELSE "write"
                        /\ pflags[p] = {}
    BY <1>1
  <2>2. ~Stored
    BY <1>1, <1>2 DEF Stored
  <2> QED BY <2>1, <2>2 DEF FlagsInv, FlagsMatch
<1>7. AccessInv
  <2>1. /\ ~Writing /\ ~Reading /\ ~Updating /\ ~Verifying /\ ~Reverting /\ ~Saved /\ ~Flushed
        /\ ~(pc \in 7 .. SaveEnd) /\ pc # WriteEnd + 1
    <3>1. build.LOAD => SaveEnd = WriteEnd + 3
      BY DEF SaveEnd
    <3> QED BY <1>1, <1>2, <3>1
        DEF Writing, Reading, Updating, Verifying, Reverting, Saved, Flushed
  <2>2. build.SBMA => Closed
    BY <1>1 DEF Closed
  <2> QED BY <2>1, <2>2 DEF AccessInv
<1> QED BY <1>5, <1>6, <1>7 DEF MemInv

LEMMA MemInvariant == Spec => []MemInv
BY MemInit, MemStep, PTL DEF Spec

\* The variables keep their types: no access leaves the array, no read of the
\* file or sum of an update anything but a number (micro.c, io.c, sbma.c).
THEOREM TypeCorrect == Spec => []TypeOK
BY MemInvariant, PTL DEF MemInv

\* In every build and through every flush, fault and marking as on disk, the
\* flags of sbma's pages say which access each page has (sbma.c:38-71,127-148).
THEOREM FlagsCorrect == Spec => []FlagsMatch
BY MemInvariant, PTL DEF MemInv, FlagsInv

-----------------------------------------------------------------------------
(* Faults *)

Accessible == {p \in Page : prot[p] \in {"read", "write"}}
Written    == {p \in Page : prot[p] \in {"write"}}

LEMMA Counting ==
  FaultsUseful <=>
    (build.SBMA => faults <= Cardinality(Accessible) + Cardinality(Written))
BY DEF FaultsUseful, Accessible, Written

\* More pages have access, or more of them write access.
LEMMA MorePages ==
  ASSUME NEW A \in SUBSET Page, NEW B \in SUBSET Page, A \subseteq B,
         NEW V \in SUBSET Page, NEW W \in SUBSET Page, V \subseteq W
  PROVE  /\ Cardinality(A) + Cardinality(V) \in Nat
         /\ Cardinality(B) + Cardinality(W) \in Nat
         /\ Cardinality(A) + Cardinality(V) <= Cardinality(B) + Cardinality(W)
         /\ A # B \/ V # W =>
              Cardinality(A) + Cardinality(V) + 1 <= Cardinality(B) + Cardinality(W)
<1>1. IsFiniteSet(B) /\ IsFiniteSet(W) /\ IsFiniteSet(A) /\ IsFiniteSet(V)
  BY Sizes, FS_Subset
<1>2. /\ Cardinality(A) \in Nat /\ Cardinality(B) \in Nat
      /\ Cardinality(V) \in Nat /\ Cardinality(W) \in Nat
  BY <1>1, FS_CardinalityType
<1>3. /\ Cardinality(A) <= Cardinality(B)
      /\ Cardinality(A) = Cardinality(B) => A = B
      /\ Cardinality(V) <= Cardinality(W)
      /\ Cardinality(V) = Cardinality(W) => V = W
  BY <1>1, FS_Subset
<1> QED BY <1>2, <1>3

LEMMA FaultUseful ==
  ASSUME MemInv, FaultsUseful, Fault
  PROVE  FaultsUseful'
<1> DEFINE p == PageOf(Nth(i))
<1>1. /\ p \in Page /\ build.SBMA
      /\ Dirties(p) \/ Loads(p) \/ Syncs(p) \/ Fails(p)
      /\ faults' = IF aborted' \/ faults = MaxFaults THEN faults ELSE faults + 1
      /\ UNCHANGED conf
  BY FaultCases
<1>2. /\ prot \in [Page -> {"none", "read", "write"}]
      /\ faults \in Nat /\ build' = build
  BY <1>1, Frame, MicroAssumption DEF MemInv, TypeOK
<1>3. /\ Accessible \in SUBSET Page /\ Written \in SUBSET Page
      /\ Accessible' \in SUBSET Page /\ Written' \in SUBSET Page
  BY DEF Accessible, Written
<1>4. faults <= Cardinality(Accessible) + Cardinality(Written)
  BY <1>1, Counting
<1> HIDE DEF p
<1>5. CASE Fails(p)
  <2>1. prot' = prot /\ aborted' = TRUE
    BY <1>5 DEF Fails
  <2>2. Accessible' = Accessible /\ Written' = Written /\ faults' = faults
    BY <1>1, <2>1 DEF Accessible, Written
  <2> QED BY <1>4, <2>2, <1>2 DEF FaultsUseful, Accessible, Written
<1>6. ASSUME Dirties(p) \/ Loads(p) \/ Syncs(p)
      PROVE  /\ Accessible \subseteq Accessible' /\ Written \subseteq Written'
             /\ Accessible # Accessible' \/ Written # Written'
  <2>1. ASSUME \A q \in Page : prot[q] = "write" => prot'[q] = "write",
               \A q \in Page : prot[q] = "read" => prot'[q] # "none",
               \A q \in Page : prot'[q] \in {"none", "read", "write"},
               prot'[p] # prot[p]
        PROVE  /\ Accessible \subseteq Accessible' /\ Written \subseteq Written'
               /\ Accessible # Accessible' \/ Written # Written'
    BY <1>1, <1>2, <2>1 DEF Accessible, Written
  <2>2. CASE Dirties(p)
    <3>1. \A q \in Page : prot'[q] = IF q = p THEN "write" ELSE prot[q]
      BY <1>2, <2>2 DEF Dirties, MakeDirty
    <3>2. prot[p] # "write"
      BY <2>2 DEF Dirties
    <3> QED BY <1>1, <1>2, <2>1, <3>1, <3>2
  <2>3. CASE Loads(p)
    <3>1. \A q \in Page : prot'[q] = IF q \in SyncPages(p) THEN "write" ELSE prot[q]
      BY <2>3 DEF Loads, SyncOnDisk, AfterRead
    <3>2. prot[p] = "none" /\ p \in SyncPages(p)
      BY <1>1, <2>3 DEF Loads, SyncPages
    <3> QED BY <1>1, <1>2, <2>1, <3>1, <3>2
  <2>4. CASE Syncs(p)
    <3>1. \A q \in Page : prot'[q] = IF q \in SyncPages(p) THEN "read" ELSE prot[q]
      BY <2>4 DEF Syncs, SyncNew
    <3>2. prot[p] = "none" /\ p \in SyncPages(p)
      BY <1>1, <2>4 DEF Syncs, SyncPages
    <3>3. \A q \in SyncPages(p) : prot[q] = "none"
      BY <2>4 DEF Syncs, SyncPages, Closed
    <3> QED BY <1>1, <1>2, <2>1, <3>1, <3>2, <3>3
  <2> QED BY <1>6, <2>2, <2>3, <2>4
<1>7. CASE Dirties(p) \/ Loads(p) \/ Syncs(p)
  <2>1. Cardinality(Accessible) + Cardinality(Written) + 1
          <= Cardinality(Accessible') + Cardinality(Written')
    BY <1>3, <1>6, <1>7, MorePages
  <2>2. /\ Cardinality(Accessible) + Cardinality(Written) \in Nat
        /\ Cardinality(Accessible') + Cardinality(Written') \in Nat
    BY <1>3, <1>6, <1>7, MorePages
  <2>3. faults' <= Cardinality(Accessible') + Cardinality(Written')
    BY <1>1, <1>2, <1>4, <2>1, <2>2
  <2> QED BY <2>3 DEF FaultsUseful, Accessible, Written
<1> QED BY <1>1, <1>5, <1>7

LEMMA UsefulStep ==
  ASSUME MemInv, FaultsUseful, [Next]_vars
  PROVE  FaultsUseful'
<1>1. CASE Fault
  BY <1>1, FaultUseful
<1>2. CASE UNCHANGED <<conf, prot, faults>>
  BY <1>2 DEF FaultsUseful, conf
<1>3. CASE Flush
  <2>1. faults' = 0
    BY <1>3 DEF Flush
  <2>2. /\ Accessible' \in SUBSET Page /\ Written' \in SUBSET Page
    BY DEF Accessible, Written
  <2>3. Cardinality(Accessible') + Cardinality(Written') \in Nat
    BY <2>2, MorePages
  <2>4. faults' <= Cardinality(Accessible') + Cardinality(Written')
    BY <2>1, <2>3
  <2> QED BY <2>4 DEF FaultsUseful, Accessible, Written
<1>4. ASSUME Next, ~Fault, ~Flush PROVE UNCHANGED <<conf, prot, faults>> 
  BY <1>4 DEF Next, OnDisk, FetchBulk, Spin, Destroy, IoWrite, IoFlush, Write, Verify, Clear,
              Read, Update, Revert, Abort, memory
<1>5. ASSUME UNCHANGED vars PROVE UNCHANGED <<conf, prot, faults>>
  BY <1>5 DEF vars, memory
<1> QED BY <1>1, <1>2, <1>3, <1>4, <1>5

\* No fault is in vain, however often the handler is called and whatever makes
\* a page accessible (sbma.c:38-76,153).
THEOREM FaultsUsefulAlways == Spec => []FaultsUseful
<1>1. Init => FaultsUseful
  <2> SUFFICES ASSUME Init PROVE FaultsUseful
    OBVIOUS
  <2>1. /\ Accessible \in SUBSET Page /\ Written \in SUBSET Page
    BY DEF Accessible, Written
  <2>2. Cardinality(Accessible) + Cardinality(Written) \in Nat
    BY <2>1, MorePages
  <2> QED BY <2>2, Counting DEF Init
<1> QED BY <1>1, MemInit, MemStep, UsefulStep, PTL DEF Spec
=============================================================================
