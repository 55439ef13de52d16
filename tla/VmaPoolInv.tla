----------------------------- MODULE VmaPoolInv -----------------------------
(***************************************************************************)
(* The inductive invariant of VmaPool, for the ways of use that are safe,  *)
(* and what each of its steps does to each field when it holds.            *)
(*                                                                         *)
(* First what the list operators of VmaPool do to a list, for lists of any *)
(* length.  A list is described by the set of its elements and the order   *)
(* in which the next pointers go through them, not by a walk along these;  *)
(* that the walk finds the same elements is ListedChain.                   *)
(***************************************************************************)
EXTENDS VmaPool, FiniteSetTheorems, TLAPS

\* r numbers the elements of S in the order in which the next pointers of f go
\* through them from h on.
InOrder(f, h, S, r) ==
  /\ \A x, y \in S : r[x] = r[y] => x = y
  /\ \A x \in S : r[h] <= r[x]
  /\ \A x \in S : f[x].next = None => \A y \in S : r[y] <= r[x]
  /\ \A x \in S : f[x].next # None =>
       /\ f[x].next \in S
       /\ r[x] < r[f[x].next]
       /\ \A y \in S : r[y] <= r[x] \/ r[f[x].next] <= r[y]

\* S is the set of the elements of the list that starts at h.
Chain(f, h, S) ==
  /\ IF S = {} THEN h = None ELSE h \in S
  /\ \A x \in S : x # h => \E y \in S : f[y].next = x
  /\ \E r \in [S -> Int] : InOrder(f, h, S, r)

-----------------------------------------------------------------------------
(* Chains *)

\* Only the next pointers of its elements matter to a list.
LEMMA ChainFrame ==
  ASSUME NEW f, NEW g, NEW h, NEW S, Chain(f, h, S),
         \A x \in S : g[x].next = f[x].next
  PROVE  Chain(g, h, S)
BY DEF Chain, InOrder

\* No two elements have the same successor, none has the first as its own, and
\* none is its own.
LEMMA ChainNext ==
  ASSUME NEW f, NEW h, NEW S, Chain(f, h, S), None \notin S
  PROVE  /\ \A x \in S : f[x].next = None \/ f[x].next \in S
         /\ \A x, y \in S : f[x].next = f[y].next /\ f[x].next # None => x = y
         /\ \A x \in S : f[x].next # h \/ h = None
         /\ \A x \in S : f[x].next # x
         /\ S = {} <=> h = None
<1>1. PICK r \in [S -> Int] : InOrder(f, h, S, r)
  BY DEF Chain
<1>2. \A x \in S : r[x] \in Int
  OBVIOUS
<1>3. ASSUME NEW x \in S, NEW y \in S, f[x].next = f[y].next, f[x].next # None
      PROVE  x = y
  <2>1. f[x].next \in S /\ r[x] < r[f[x].next] /\ r[y] < r[f[x].next]
    BY <1>1, <1>3 DEF InOrder
  <2>2. r[x] <= r[y] /\ r[y] <= r[x]
    BY <1>1, <1>2, <1>3, <2>1 DEF InOrder
  <2> QED BY <1>1, <1>2, <2>2 DEF InOrder
<1>4. ASSUME NEW x \in S, f[x].next = h, h # None PROVE FALSE
  <2>1. h \in S /\ r[x] < r[h] /\ r[h] <= r[x]
    BY <1>1, <1>4 DEF Chain, InOrder
  <2> QED BY <1>2, <2>1
<1>5. \A x \in S : f[x].next # x
  BY <1>1, <1>2 DEF InOrder
<1> QED BY <1>1, <1>3, <1>4, <1>5 DEF Chain, InOrder

\* A list of one element
LEMMA ChainOne ==
  ASSUME NEW f, NEW n, f[n].next = None
  PROVE  Chain(f, n, {n})
<1> DEFINE r == [x \in {n} |-> 0]
<1>1. r \in [{n} -> Int] /\ InOrder(f, n, {n}, r)
  BY DEF InOrder
<1> QED BY <1>1 DEF Chain

\* An element put in front
LEMMA ChainPush ==
  ASSUME NEW f, NEW g, NEW h, NEW S, NEW n, Chain(f, h, S),
         n \notin S, n # None, None \notin S,
         g[n].next = h,
         \A x \in S : g[x].next = f[x].next
  PROVE  Chain(g, n, S \cup {n})
<1>1. CASE S = {}
  <2>1. S \cup {n} = {n} /\ g[n].next = None
    BY <1>1 DEF Chain
  <2> QED BY <2>1, ChainOne
<1>2. CASE S # {}
  <2>1. PICK r \in [S -> Int] : InOrder(f, h, S, r)
    BY DEF Chain
  <2>2. h \in S /\ \A x \in S : r[x] \in Int /\ r[h] <= r[x]
    BY <1>2, <2>1 DEF Chain, InOrder
  <2> DEFINE T == S \cup {n}
             q == [x \in T |-> IF x = n THEN r[h] - 1 ELSE r[x]]
  <2>3. q[n] = r[h] - 1 /\ \A x \in S : q[x] = r[x] /\ q[n] < q[x]
    BY <2>2
  <2>4. q \in [T -> Int]
    BY <2>2
  <2> HIDE DEF q
  <2>5. InOrder(g, n, T, q)
    <3>1. \A x, y \in T : q[x] = q[y] => x = y
      BY <2>1, <2>2, <2>3 DEF InOrder
    <3>2. \A x \in T : q[n] <= q[x]
      BY <2>2, <2>3
    <3>3. ASSUME NEW x \in T, g[x].next = None PROVE \A y \in T : q[y] <= q[x]
      <4>1. x \in S /\ f[x].next = None
        BY <3>3, <2>2
      <4>2. \A y \in S : r[y] <= r[x]
        BY <2>1, <4>1 DEF InOrder
      <4> QED BY <2>2, <2>3, <4>1, <4>2
    <3>4. ASSUME NEW x \in T, g[x].next # None
          PROVE  /\ g[x].next \in T
                 /\ q[x] < q[g[x].next]
                 /\ \A y \in T : q[y] <= q[x] \/ q[g[x].next] <= q[y]
      <4>1. CASE x = n
        BY <4>1, <2>2, <2>3
      <4>2. CASE x # n
        <5>1. x \in S /\ g[x].next = f[x].next
          BY <4>2
        <5>2. /\ f[x].next \in S
              /\ r[x] < r[f[x].next]
              /\ \A y \in S : r[y] <= r[x] \/ r[f[x].next] <= r[y]
          BY <2>1, <3>4, <5>1 DEF InOrder
        <5> QED BY <2>2, <2>3, <5>1, <5>2
      <4> QED BY <4>1, <4>2
    <3> QED BY <3>1, <3>2, <3>3, <3>4 DEF InOrder
  <2>6. \A x \in T : x # n => \E y \in T : g[y].next = x
    BY DEF Chain
  <2> QED BY <2>4, <2>5, <2>6 DEF Chain
<1> QED BY <1>1, <1>2

\* The first element taken off
LEMMA ChainPop ==
  ASSUME NEW f, NEW g, NEW h, NEW S, Chain(f, h, S), h # None, None \notin S,
         \A x \in S \ {h} : g[x].next = f[x].next
  PROVE  Chain(g, f[h].next, S \ {h})
<1> DEFINE T == S \ {h}
           m == f[h].next
<1>1. PICK r \in [S -> Int] : InOrder(f, h, S, r)
  BY DEF Chain
<1>2. h \in S /\ \A x \in S : r[x] \in Int /\ r[h] <= r[x]
  BY <1>1 DEF Chain, InOrder
<1>3. CASE m = None
  <2>1. T = {}
    BY <1>1, <1>2, <1>3 DEF InOrder
  <2>2. [x \in {} |-> 0] \in [{} -> Int]
    OBVIOUS
  <2>3. InOrder(g, m, {}, [x \in {} |-> 0])
    BY DEF InOrder
  <2>4. Chain(g, m, {})
    BY <1>3, <2>2, <2>3 DEF Chain
  <2> QED BY <2>1, <2>4
<1>4. CASE m # None
  <2>1. m \in T /\ \A y \in T : r[m] <= r[y]
    BY <1>1, <1>2, <1>4 DEF InOrder
  <2> DEFINE q == [x \in T |-> r[x]]
  <2>2. q \in [T -> Int] /\ \A x \in T : q[x] = r[x]
    BY <1>2
  <2>3. \A x \in T : f[x].next # h
    BY ChainNext
  <2> HIDE DEF q
  <2>4. InOrder(g, m, T, q)
    <3>1. /\ \A x, y \in T : q[x] = q[y] => x = y
          /\ \A x \in T : q[m] <= q[x]
      BY <1>1, <2>1, <2>2 DEF InOrder
    <3>2. ASSUME NEW x \in T, g[x].next = None PROVE \A y \in T : q[y] <= q[x]
      BY <1>1, <2>2, <3>2 DEF InOrder
    <3>3. ASSUME NEW x \in T, g[x].next # None
          PROVE  /\ g[x].next \in T
                 /\ q[x] < q[g[x].next]
                 /\ \A y \in T : q[y] <= q[x] \/ q[g[x].next] <= q[y]
      BY <1>1, <2>2, <2>3, <3>3 DEF InOrder
    <3> QED BY <3>1, <3>2, <3>3 DEF InOrder
  <2>5. ASSUME NEW x \in T, x # m PROVE \E y \in T : g[y].next = x
    <3>1. PICK y \in S : f[y].next = x
      BY DEF Chain
    <3>2. y # h
      BY <2>5, <3>1
    <3> QED BY <3>1, <3>2
  <2> QED BY <2>1, <2>2, <2>4, <2>5 DEF Chain
<1> QED BY <1>3, <1>4

\* An element taken out from behind another, p
LEMMA ChainDelete ==
  ASSUME NEW f, NEW g, NEW h, NEW S, Chain(f, h, S), None \notin S,
         NEW n \in S, n # h, NEW p \in S, f[p].next = n,
         g[p].next = f[n].next,
         \A x \in S \ {n, p} : g[x].next = f[x].next
  PROVE  Chain(g, h, S \ {n})
<1> DEFINE T == S \ {n}
           m == f[n].next
<1>1. PICK r \in [S -> Int] : InOrder(f, h, S, r)
  BY DEF Chain
<1>2. h \in T /\ \A x \in S : r[x] \in Int /\ r[h] <= r[x]
  BY <1>1 DEF Chain, InOrder
<1>3. p # n /\ m # n
  BY ChainNext
<1>4. /\ r[p] < r[n]
      /\ \A y \in S : r[y] <= r[p] \/ r[n] <= r[y]
  BY <1>1, ChainNext DEF InOrder
<1>5. \A x \in S : x # p => f[x].next # n
  BY ChainNext
<1> DEFINE q == [x \in T |-> r[x]]
<1>6. q \in [T -> Int] /\ \A x \in T : q[x] = r[x]
  BY <1>2
<1> HIDE DEF q
<1>7. InOrder(g, h, T, q)
  <2>1. /\ \A x, y \in T : q[x] = q[y] => x = y
        /\ \A x \in T : q[h] <= q[x]
    BY <1>1, <1>2, <1>6 DEF InOrder
  <2>2. ASSUME NEW x \in T, g[x].next = None PROVE \A y \in T : q[y] <= q[x]
    <3>1. CASE x = p
      <4>1. \A y \in S : r[y] <= r[n]
        BY <1>1, <2>2, <3>1 DEF InOrder
      <4>2. \A y \in T : r[y] # r[n]
        BY <1>1 DEF InOrder
      <4>3. \A y \in T : r[y] <= r[p]
        BY <1>2, <1>4, <4>1, <4>2
      <4> QED BY <1>3, <1>6, <3>1, <4>3
    <3>2. CASE x # p
      BY <1>1, <1>6, <2>2, <3>2 DEF InOrder
    <3> QED BY <3>1, <3>2
  <2>3. ASSUME NEW x \in T, g[x].next # None
        PROVE  /\ g[x].next \in T
               /\ q[x] < q[g[x].next]
               /\ \A y \in T : q[y] <= q[x] \/ q[g[x].next] <= q[y]
    <3>1. CASE x = p
      <4>1. /\ m \in S /\ r[n] < r[m]
            /\ \A y \in S : r[y] <= r[n] \/ r[m] <= r[y]
        BY <1>1, <2>3, <3>1 DEF InOrder
      <4>2. \A y \in T : r[y] # r[n]
        BY <1>1 DEF InOrder
      <4>3. \A y \in T : r[y] <= r[p] \/ r[m] <= r[y]
        BY <1>2, <1>4, <4>1, <4>2
      <4>4. r[p] < r[m]
        BY <1>2, <1>4, <4>1
      <4> QED BY <1>3, <1>6, <3>1, <4>1, <4>3, <4>4
    <3>2. CASE x # p
      BY <1>1, <1>5, <1>6, <2>3, <3>2 DEF InOrder
    <3> QED BY <3>1, <3>2
  <2> QED BY <2>1, <2>2, <2>3 DEF InOrder
<1>8. ASSUME NEW x \in T, x # h PROVE \E y \in T : g[y].next = x
  <2>1. PICK y \in S : f[y].next = x
    BY <1>8 DEF Chain
  <2>2. CASE y = n
    BY <1>3, <2>1, <2>2
  <2>3. CASE y # n
    BY <2>1, <2>3
  <2> QED BY <2>2, <2>3
<1> QED BY <1>2, <1>6, <1>7, <1>8 DEF Chain

-----------------------------------------------------------------------------
(* Doubly linked lists *)

\* Back pointers lead to the element before.
LEMMA LinkedPrev ==
  ASSUME NEW f, NEW h, NEW S, Chain(f, h, S), LinkedBack(f, S), None \notin S,
         NEW n \in S, n # h
  PROVE  f[n].prev \in S /\ f[f[n].prev].next = n /\ f[n].prev # n
<1>1. PICK p \in S : f[p].next = n
  BY DEF Chain
<1>2. f[n].prev = p
  BY <1>1 DEF LinkedBack
<1> QED BY <1>1, <1>2, ChainNext

\* Only the pointers of its elements matter to a list.
LEMMA LinkedFrame ==
  ASSUME NEW f, NEW g, NEW h, NEW S, Chain(f, h, S), LinkedBack(f, S), None \notin S,
         \A x \in S : g[x].next = f[x].next,
         \A x \in S : x # h => g[x].prev = f[x].prev
  PROVE  LinkedBack(g, S)
BY ChainNext DEF LinkedBack

\* An element put in front
LEMMA LinkedPush ==
  ASSUME NEW f, NEW g, NEW h, NEW S, NEW n, Chain(f, h, S), LinkedBack(f, S),
         n \notin S, n # None, None \notin S,
         g[n].next = h, h # None => g[h].prev = n,
         \A x \in S : g[x].next = f[x].next,
         \A x \in S : x # h => g[x].prev = f[x].prev
  PROVE  LinkedBack(g, S \cup {n})
<1> SUFFICES ASSUME NEW x \in S \cup {n}, g[x].next # None
             PROVE  g[g[x].next].prev = x
  BY DEF LinkedBack
<1>1. CASE x = n
  BY <1>1
<1>2. CASE x # n
  <2>1. x \in S /\ g[x].next = f[x].next /\ f[x].next \in S /\ f[x].next # h
    BY <1>2, ChainNext
  <2> QED BY <2>1 DEF LinkedBack
<1> QED BY <1>1, <1>2

\* The first element taken off; the back pointer of the next may change.
LEMMA LinkedPop ==
  ASSUME NEW f, NEW g, NEW h, NEW S, Chain(f, h, S), LinkedBack(f, S),
         h # None, None \notin S,
         \A x \in S \ {h} : g[x].next = f[x].next,
         \A x \in S \ {h} : x # f[h].next => g[x].prev = f[x].prev
  PROVE  LinkedBack(g, S \ {h})
<1> SUFFICES ASSUME NEW x \in S \ {h}, g[x].next # None
             PROVE  g[g[x].next].prev = x
  BY DEF LinkedBack
<1>1. h \in S
  BY DEF Chain
<1>2. /\ g[x].next = f[x].next /\ f[x].next \in S \ {h}
      /\ f[x].next # f[h].next
  BY <1>1, ChainNext
<1> QED BY <1>2 DEF LinkedBack

\* An element taken out from behind another
LEMMA LinkedDelete ==
  ASSUME NEW f, NEW g, NEW h, NEW S, Chain(f, h, S), LinkedBack(f, S),
         None \notin S, NEW n \in S, n # h, NEW p \in S, f[p].next = n,
         g[p].next = f[n].next,
         f[n].next # None => g[f[n].next].prev = p,
         \A x \in S \ {n, p} : g[x].next = f[x].next,
         \A x \in S \ {n} : x # f[n].next => g[x].prev = f[x].prev
  PROVE  LinkedBack(g, S \ {n})
<1> SUFFICES ASSUME NEW x \in S \ {n}, g[x].next # None
             PROVE  g[g[x].next].prev = x
  BY DEF LinkedBack
<1>1. CASE x = p
  BY <1>1
<1>2. CASE x # p
  <2>1. /\ g[x].next = f[x].next /\ f[x].next \in S \ {n}
        /\ f[x].next # f[n].next
    BY <1>2, ChainNext
  <2> QED BY <2>1 DEF LinkedBack
<1> QED BY <1>1, <1>2

-----------------------------------------------------------------------------
(* The walk along the next pointers *)

\* A set of natural numbers has a least element: induction over numbers in the
\* form that the proofs below use.
LEMMA LeastNat ==
  ASSUME NEW T \in SUBSET Nat, T # {}
  PROVE  \E x \in T : \A y \in T : x <= y
<1> DEFINE F == {0 .. n : n \in T}
<1>1. F \subseteq FiniteSubsetsOf(Nat)
  <2> SUFFICES ASSUME NEW n \in T PROVE 0 .. n \in FiniteSubsetsOf(Nat)
    OBVIOUS
  <2>1. IsFiniteSet(0 .. n)
    BY FS_Interval
  <2>2. 0 .. n \in SUBSET Nat
    OBVIOUS
  <2> QED BY <2>1, <2>2 DEF FiniteSubsetsOf
<1>2. IsWellFoundedOn(StrictSubsetOrdering(Nat), FiniteSubsetsOf(Nat))
  BY FS_StrictSubsetOrderingWellFounded
<1>3. F # {}
  OBVIOUS
<1>4. PICK I \in F : \A J \in F : ~(<<J, I>> \in StrictSubsetOrdering(Nat))
  <2> HIDE DEF F
  <2> QED BY <1>1, <1>2, <1>3, WFMin
<1>5. PICK x \in T : I = 0 .. x
  OBVIOUS
<1>6. ASSUME NEW y \in T, ~(x <= y) PROVE FALSE
  <2>1. 0 .. y \in F
    OBVIOUS
  <2>2. 0 .. y \subseteq 0 .. x /\ 0 .. y # 0 .. x
    <3>1. x \in 0 .. x /\ x \notin 0 .. y
      BY <1>6
    <3>2. 0 .. y \subseteq 0 .. x
      BY <1>6
    <3> QED BY <3>1, <3>2
  <2>3. <<0 .. y, 0 .. x>> \in (SUBSET Nat) \X (SUBSET Nat)
    OBVIOUS
  <2>4. <<0 .. y, 0 .. x>> \in StrictSubsetOrdering(Nat)
    BY <2>2, <2>3 DEF StrictSubsetOrdering
  <2> QED BY <2>1, <2>4, <1>4, <1>5
<1> QED BY <1>6

\* The recursive definition of Walk has a solution: otherwise there is a least
\* length without one, and the solution for a length less can be extended.
LEMMA WalkDef ==
  ASSUME NEW f, NEW h, NEW last \in Nat
  PROVE  Walk(f, h, last) =
           [i \in 0 .. last |->
              IF i = 0 THEN h
              ELSE IF Walk(f, h, last)[i - 1] = None THEN None
              ELSE f[Walk(f, h, last)[i - 1]].next]
<1> DEFINE Solves(g, n) ==
             g = [i \in 0 .. n |-> IF i = 0 THEN h
                                   ELSE IF g[i - 1] = None THEN None
                                   ELSE f[g[i - 1]].next]
           Without == {n \in Nat : ~ \E g : Solves(g, n)}
<1>1. ASSUME Without # {} PROVE FALSE
  <2>1. PICK n \in Without : \A m \in Without : n <= m
    <3>1. Without \in SUBSET Nat
      OBVIOUS
    <3> HIDE DEF Without
    <3> QED BY <1>1, <3>1, LeastNat
  <2>2. n \in Nat
    OBVIOUS
  <2>3. CASE n = 0
    <3>1. Solves([i \in 0 .. 0 |-> h], 0)
      OBVIOUS
    <3> QED BY <2>3, <3>1
  <2>4. CASE n # 0
    <3>1. n - 1 \in Nat /\ n - 1 \notin Without
      <4> HIDE DEF Without
      <4> QED BY <2>1, <2>2, <2>4
    <3>2. PICK g : Solves(g, n - 1)
      BY <3>1
    <3> DEFINE k == [i \in 0 .. n |-> IF i \in 0 .. n - 1 THEN g[i]
                                      ELSE IF g[i - 1] = None THEN None
                                      ELSE f[g[i - 1]].next]
    <3>3. \A i \in 0 .. n :
            k[i] = IF i = 0 THEN h
                   ELSE IF k[i - 1] = None THEN None ELSE f[k[i - 1]].next
      <4> SUFFICES ASSUME NEW i \in 0 .. n
                   PROVE  k[i] = IF i = 0 THEN h
                                 ELSE IF k[i - 1] = None THEN None
                                 ELSE f[k[i - 1]].next
        OBVIOUS
      <4>1. \A j \in 0 .. n - 1 :
              /\ k[j] = g[j]
              /\ g[j] = IF j = 0 THEN h ELSE IF g[j - 1] = None THEN None
                        ELSE f[g[j - 1]].next
        <5>1. g = [j \in 0 .. n - 1 |-> IF j = 0 THEN h
                                         ELSE IF g[j - 1] = None THEN None
                                         ELSE f[g[j - 1]].next]
          BY <3>2
        <5>2. \A j \in 0 .. n - 1 :
                g[j] = IF j = 0 THEN h ELSE IF g[j - 1] = None THEN None
                       ELSE f[g[j - 1]].next
          BY <5>1
        <5>3. \A j \in 0 .. n - 1 : j \in 0 .. n
          BY <2>2
        <5>4. \A j \in 0 .. n - 1 : k[j] = g[j]
          BY <5>3
        <5> QED BY <5>2, <5>4
      <4>2. i = 0 \/ i - 1 \in 0 .. n - 1
        BY <2>2
      <4>3. CASE i \in 0 .. n - 1
        BY <4>1, <4>2, <4>3
      <4>4. CASE i \notin 0 .. n - 1
        BY <2>4, <4>1, <4>2, <4>4
      <4> QED BY <4>3, <4>4
    <3>4. Solves(k, n)
      <4> HIDE DEF k
      <4>1. k = [i \in 0 .. n |-> k[i]]
        BY DEF k
      <4> QED BY <3>3, <4>1
    <3> QED BY <3>4
  <2> QED BY <2>3, <2>4
<1>2. \E g : Solves(g, last)
  BY <1>1
<1>3. Solves(Walk(f, h, last), last)
  BY <1>2 DEF Walk
<1> QED BY <1>3

\* The walk visits the elements of the list and no others.  It stays in the
\* list; on the list its ranks increase, so that it ends before it has made as
\* many steps as there are elements; an element it has not visited would have
\* a predecessor it has not visited either, of a lower rank.
LEMMA ListedChain ==
  ASSUME NEW f, NEW h, NEW S, NEW all, Chain(f, h, S), S \subseteq all,
         IsFiniteSet(all), None \notin all
  PROVE  Listed(f, h, all) = S
<1> DEFINE last == Cardinality(all)
           w == Walk(f, h, last)
           W == {w[i] : i \in 0 .. last} \ {None}
<1>1. last \in Nat
  BY FS_CardinalityType
<1>2. w = [i \in 0 .. last |-> IF i = 0 THEN h ELSE IF w[i - 1] = None THEN None
                              ELSE f[w[i - 1]].next]
  BY <1>1, WalkDef
<1>3. Listed(f, h, all) = W
  BY <1>2 DEF Listed
<1>4. PICK r \in [S -> Int] : InOrder(f, h, S, r)
  BY DEF Chain
<1> HIDE DEF last, w
<1>5. \A x \in S : f[x].next = None \/ f[x].next \in S
  BY ChainNext
<1>6. \A i \in 0 .. last : w[i] = None \/ w[i] \in S
  <2> DEFINE Bad == {i \in 0 .. last : w[i] # None /\ w[i] \notin S}
  <2>1. SUFFICES ASSUME Bad # {} PROVE FALSE
    OBVIOUS
  <2>2. PICK i \in Bad : \A j \in Bad : i <= j
    <3>1. Bad \in SUBSET Nat
      BY <1>1
    <3> HIDE DEF Bad
    <3> QED BY <2>1, <3>1, LeastNat
  <2>3. i # 0
    BY <1>2, <1>1 DEF Chain
  <2>4. i - 1 \in 0 .. last /\ i - 1 \notin Bad
    <3>1. i \in 0 .. last
      OBVIOUS
    <3> HIDE DEF Bad
    <3> QED BY <1>1, <2>2, <2>3, <3>1
  <2> QED BY <1>2, <1>5, <2>3, <2>4
<1>7. \A x \in S : r[x] \in Int /\ r[h] <= r[x]
  BY <1>4 DEF InOrder
<1>8. \E i \in 0 .. last : w[i] = None
  <2> SUFFICES ASSUME \A i \in 0 .. last : w[i] # None PROVE FALSE
    OBVIOUS
  <2>1. \A i \in 0 .. last : w[i] \in S
    BY <1>6
  <2>2. \A i \in 1 .. last : r[w[i - 1]] < r[w[i]]
    <3> SUFFICES ASSUME NEW i \in 1 .. last PROVE r[w[i - 1]] < r[w[i]]
      OBVIOUS
    <3>1. i - 1 \in 0 .. last /\ i \in 0 .. last
      BY <1>1
    <3>2. w[i] = f[w[i - 1]].next
      BY <1>2, <3>1
    <3> QED BY <1>4, <2>1, <3>1, <3>2 DEF InOrder
  <2>3. \A i \in 0 .. last : \A j \in 0 .. last : i < j => r[w[i]] < r[w[j]]
    <3> SUFFICES ASSUME NEW i \in 0 .. last
                 PROVE  \A j \in 0 .. last : i < j => r[w[i]] < r[w[j]]
      OBVIOUS
    <3> DEFINE Bad == {j \in 0 .. last : i < j /\ ~(r[w[i]] < r[w[j]])}
    <3>1. SUFFICES ASSUME Bad # {} PROVE FALSE
      OBVIOUS
    <3>2. PICK j \in Bad : \A m \in Bad : j <= m
      <4>1. Bad \in SUBSET Nat
        BY <1>1
      <4> HIDE DEF Bad
      <4> QED BY <3>1, <4>1, LeastNat
    <3>3. /\ j \in 1 .. last /\ j - 1 \in 0 .. last /\ j \in 0 .. last
          /\ i < j /\ ~(r[w[i]] < r[w[j]])
      BY <1>1
    <3>4. j - 1 \notin Bad
      <4> HIDE DEF Bad
      <4> QED BY <1>1, <3>2, <3>3
    <3>5. r[w[j - 1]] < r[w[j]]
      BY <2>2, <3>3
    <3>6. /\ r[w[i]] \in Int /\ r[w[j]] \in Int /\ r[w[j - 1]] \in Int
      BY <1>7, <2>1, <3>3
    <3>7. i = j - 1 \/ r[w[i]] < r[w[j - 1]]
      BY <1>1, <3>3, <3>4
    <3> QED BY <3>3, <3>5, <3>6, <3>7
  <2> DEFINE v == [i \in 0 .. last |-> w[i]]
  <2>4. \A i, j \in 0 .. last : w[i] = w[j] => i = j
    <3> SUFFICES ASSUME NEW i \in 0 .. last, NEW j \in 0 .. last, w[i] = w[j],
                        i # j
                 PROVE  FALSE
      OBVIOUS
    <3>1. i < j \/ j < i
      BY <1>1
    <3>2. r[w[i]] < r[w[j]] \/ r[w[j]] < r[w[i]]
      BY <2>3, <3>1
    <3>3. r[w[i]] \in Int
      BY <1>7, <2>1
    <3> QED BY <3>2, <3>3
  <2>5. v \in Injection(0 .. last, all)
    <3>1. v \in [0 .. last -> all]
      BY <2>1
    <3> QED BY <2>4, <3>1 DEF Injection, IsInjective
  <2>6. Cardinality(0 .. last) <= Cardinality(all)
    BY <2>5, FS_Injection
  <2>7. Cardinality(0 .. last) = last + 1
    BY <1>1, FS_Interval
  <2> QED BY <1>1, <2>6, <2>7 DEF last
<1>9. PICK e \in 0 .. last : w[e] = None /\ \A i \in 0 .. last : i < e => w[i] # None
  <2> DEFINE Ends == {i \in 0 .. last : w[i] = None}
  <2>1. Ends \in SUBSET Nat /\ Ends # {}
    BY <1>1, <1>8
  <2>2. PICK e \in Ends : \A i \in Ends : e <= i
    <3> HIDE DEF Ends
    <3> QED BY <2>1, LeastNat
  <2>3. ASSUME NEW i \in 0 .. last, i < e PROVE w[i] # None
    <3>1. i \notin Ends
      <4> HIDE DEF Ends
      <4> QED BY <1>1, <2>1, <2>2, <2>3
    <3> QED BY <3>1
  <2> QED BY <2>2, <2>3
<1>10. \A i \in 0 .. last : e <= i => w[i] = None
  <2> DEFINE Bad == {i \in 0 .. last : e <= i /\ w[i] # None}
  <2>1. SUFFICES ASSUME Bad # {} PROVE FALSE
    OBVIOUS
  <2>2. PICK i \in Bad : \A j \in Bad : i <= j
    <3>1. Bad \in SUBSET Nat
      BY <1>1
    <3> HIDE DEF Bad
    <3> QED BY <2>1, <3>1, LeastNat
  <2>3. i \in 0 .. last /\ i # e /\ e <= i
    BY <1>9
  <2>4. i - 1 \in 0 .. last /\ e <= i - 1
    BY <1>1, <2>3
  <2>5. i - 1 \notin Bad
    <3> HIDE DEF Bad
    <3> QED BY <1>1, <2>2, <2>3, <2>4
  <2> QED BY <1>1, <1>2, <2>3, <2>4, <2>5
<1>11. \A x \in W : f[x].next = None \/ f[x].next \in W
  <2> SUFFICES ASSUME NEW x \in W, f[x].next # None PROVE f[x].next \in W
    OBVIOUS
  <2>1. PICK i \in 0 .. last : w[i] = x
    OBVIOUS
  <2>2. i < e
    BY <1>1, <1>10, <2>1
  <2>3. i + 1 \in 0 .. last
    BY <1>1, <2>2
  <2>4. w[i + 1] = f[x].next
    BY <1>1, <1>2, <2>1, <2>3
  <2> QED BY <2>3, <2>4
<1>12. S \subseteq W
  <2> DEFINE R == {r[x] - r[h] : x \in S \ W}
  <2>1. SUFFICES ASSUME S \ W # {} PROVE FALSE
    OBVIOUS
  <2>2. h \in S
    BY <2>1 DEF Chain
  <2>3. R \in SUBSET Nat /\ R # {}
    <3>1. \A x \in S : r[x] - r[h] \in Nat
      BY <1>7, <2>2
    <3> HIDE DEF W
    <3> QED BY <2>1, <3>1
  <2>4. PICK d \in R : \A c \in R : d <= c
    <3> HIDE DEF R
    <3> QED BY <2>3, LeastNat
  <2>5. PICK x \in S \ W : d = r[x] - r[h]
    OBVIOUS
  <2>6. x # h
    <3>1. w[0] = h /\ 0 \in 0 .. last /\ h # None
      BY <1>1, <1>2, <2>2
    <3> QED BY <3>1
  <2>7. PICK y \in S : f[y].next = x
    BY <2>6 DEF Chain
  <2>8. y \notin W
    BY <1>11, <2>7
  <2>9. r[y] < r[x]
    BY <1>4, <2>7 DEF InOrder
  <2>10. r[y] - r[h] \in R
    BY <2>8
  <2>11. r[x] \in Int /\ r[y] \in Int /\ r[h] \in Int
    BY <1>7, <2>2
  <2>12. d <= r[y] - r[h]
    BY <2>4, <2>10
  <2> QED BY <2>5, <2>9, <2>11, <2>12
<1>13. W \subseteq S
  BY <1>6
<1> QED BY <1>3, <1>12, <1>13

-----------------------------------------------------------------------------
(* Structs and their fields *)

SuperblockStruct ==
  [bctr : Int, lock : Thread \cup {None}, head : Block \cup {None},
   prev : Superblock \cup {None}, next : Superblock \cup {None}]

BlockStruct ==
  [vctr : Int, lock : Thread \cup {None}, head : SUBSET Vma,
   mpool : Thread \cup {None}, prev : Block \cup {None}, next : Block \cup {None}]

\* A block is a superblock and a number, a vm_area a block and a number.
LEMMA Places ==
  /\ \A b \in Block : /\ BlockSuperblock(b) \in Superblock /\ At(b) = BlockSuperblock(b)
                      /\ b[2] \in 1 .. SUPERBLOCK_CTR_FULL
                      /\ b = <<BlockSuperblock(b), b[2]>>
  /\ \A s \in Superblock : \A i \in 1 .. SUPERBLOCK_CTR_FULL :
       <<s, i>> \in Block /\ BlockSuperblock(<<s, i>>) = s
  /\ \A v \in Vma : VmaBlock(v) \in Block /\ Home[v] = At(VmaBlock(v))
  /\ At(None) = None
BY NoneAssumption DEF Block, Vma, BlockSuperblock, VmaBlock, Home, At

\* A struct that gets another list and counter and loses its lock
TakenBlockStruct(x, h, c) == [x EXCEPT !.head = h, !.vctr = c, !.lock = None]
TakenSuperblockStruct(x, h, c) == [x EXCEPT !.head = h, !.bctr = c, !.lock = None]

LEMMA TakenBlock ==
  ASSUME NEW x \in BlockStruct, NEW h \in SUBSET Vma, NEW c \in Int
  PROVE  LET y == TakenBlockStruct(x, h, c) IN
         /\ y \in BlockStruct
         /\ y.vctr = c /\ y.lock = None /\ y.head = h /\ y.mpool = x.mpool
         /\ y.next = x.next /\ y.prev = x.prev
<1> DEFINE y == TakenBlockStruct(x, h, c)
<1>1. y \in BlockStruct
  BY DEF TakenBlockStruct, BlockStruct
<1>2. y.vctr = c /\ y.lock = None /\ y.head = h
  BY DEF TakenBlockStruct, BlockStruct
<1>3. y.mpool = x.mpool /\ y.next = x.next /\ y.prev = x.prev
  BY DEF TakenBlockStruct, BlockStruct
<1> QED BY <1>1, <1>2, <1>3

LEMMA TakenSuperblock ==
  ASSUME NEW x \in SuperblockStruct, NEW h \in Block \cup {None}, NEW c \in Int
  PROVE  LET y == TakenSuperblockStruct(x, h, c) IN
         /\ y \in SuperblockStruct
         /\ y.bctr = c /\ y.lock = None /\ y.head = h
         /\ y.next = x.next /\ y.prev = x.prev
<1> DEFINE y == TakenSuperblockStruct(x, h, c)
<1>1. y \in SuperblockStruct
  BY DEF TakenSuperblockStruct, SuperblockStruct
<1>2. y.bctr = c /\ y.lock = None /\ y.head = h
  BY DEF TakenSuperblockStruct, SuperblockStruct
<1>3. y.next = x.next /\ y.prev = x.prev
  BY DEF TakenSuperblockStruct, SuperblockStruct
<1> QED BY <1>1, <1>2, <1>3

\* What the list operators keep of a block, and of a superblock
BlocksKept(g, f) ==
  /\ g \in [Block -> BlockStruct]
  /\ \A c \in Block : /\ g[c].vctr = f[c].vctr /\ g[c].lock = f[c].lock
                       /\ g[c].head = f[c].head /\ g[c].mpool = f[c].mpool
SuperblocksKept(g, f) ==
  /\ g \in [Superblock -> SuperblockStruct]
  /\ \A c \in Superblock : /\ g[c].bctr = f[c].bctr /\ g[c].lock = f[c].lock
                            /\ g[c].head = f[c].head

\* and what they do to the pointers
LinksSet(g, f, D, n, p) == \A c \in D :
  /\ g[c].next = f[c].next
  /\ g[c].prev = IF c = n THEN p ELSE f[c].prev
LinksPopped(g, f, D, n) == \A c \in D :
  /\ g[c].next = f[c].next
  /\ g[c].prev = IF c = f[n].next THEN f[n].prev ELSE f[c].prev
LinksPrepended(g, f, D, h, n) == \A c \in D :
  /\ g[c].next = IF c = n THEN h ELSE f[c].next
  /\ g[c].prev = IF c = h THEN n ELSE f[c].prev
LinksRemoved(g, f, D, h, n) == \A c \in D :
  /\ g[c].next = IF h # n /\ c = f[n].prev THEN f[n].next ELSE f[c].next
  /\ g[c].prev = IF c = f[n].next THEN f[n].prev ELSE f[c].prev

LEMMA SetPrevBlock ==
  ASSUME NEW f \in [Block -> BlockStruct], NEW n \in Block \cup {None},
         NEW p \in Block \cup {None}
  PROVE  BlocksKept(SetPrev(f, n, p), f) /\ LinksSet(SetPrev(f, n, p), f, Block, n, p)
<1> DEFINE g == SetPrev(f, n, p)
<1>1. CASE n = None
  <2>1. g = f
    BY <1>1 DEF SetPrev
  <2> HIDE DEF g
  <2>2. BlocksKept(g, f) /\ LinksSet(g, f, Block, n, p)
    BY <1>1, <2>1, NoneAssumption DEF BlocksKept, LinksSet
  <2> QED BY <2>2 DEF g
<1>2. CASE n \in Block
  <2>1. g = [f EXCEPT ![n].prev = p]
    BY <1>2, NoneAssumption DEF SetPrev
  <2> HIDE DEF g
  <2>2. g \in [Block -> BlockStruct]
    BY <1>2, <2>1 DEF BlockStruct
  <2>3. BlocksKept(g, f) /\ LinksSet(g, f, Block, n, p)
    BY <1>2, <2>1, <2>2 DEF BlocksKept, LinksSet, BlockStruct
  <2> QED BY <2>3 DEF g
<1> QED BY <1>1, <1>2

LEMMA PoppedBlock ==
  ASSUME NEW f \in [Block -> BlockStruct], NEW n \in Block
  PROVE  BlocksKept(Popped(f, n), f) /\ LinksPopped(Popped(f, n), f, Block, n)
<1> DEFINE g == Popped(f, n)
<1>1. f[n].next \in Block \cup {None} /\ f[n].prev \in Block \cup {None}
  BY DEF BlockStruct
<1>2. g = SetPrev(f, f[n].next, f[n].prev)
  BY DEF Popped
<1> HIDE DEF g
<1>3. BlocksKept(g, f) /\ LinksSet(g, f, Block, f[n].next, f[n].prev)
  BY <1>1, <1>2, SetPrevBlock
<1>4. LinksPopped(g, f, Block, n)
  BY <1>3 DEF LinksSet, LinksPopped
<1> QED BY <1>3, <1>4 DEF g

LEMMA PrependedBlock ==
  ASSUME NEW f \in [Block -> BlockStruct], NEW n \in Block, NEW h \in Block \cup {None},
         h # n
  PROVE  /\ BlocksKept(Prepended(f, h, n), f)
         /\ LinksPrepended(Prepended(f, h, n), f, Block, h, n)
<1> DEFINE m == [f EXCEPT ![n].next = h]
           g == Prepended(f, h, n)
<1>1. m \in [Block -> BlockStruct]
  BY DEF BlockStruct
<1>2. /\ BlocksKept(m, f)
      /\ \A c \in Block : m[c].next = (IF c = n THEN h ELSE f[c].next) /\ m[c].prev = f[c].prev
  BY <1>1 DEF BlocksKept, BlockStruct
<1>3. g = SetPrev(m, h, n)
  BY DEF Prepended
<1> HIDE DEF m, g
<1>4. BlocksKept(g, m) /\ LinksSet(g, m, Block, h, n)
  BY <1>1, <1>3, SetPrevBlock
<1>5. BlocksKept(g, f)
  BY <1>2, <1>4 DEF BlocksKept
<1>6. LinksPrepended(g, f, Block, h, n)
  BY <1>2, <1>4 DEF LinksSet, LinksPrepended
<1> QED BY <1>5, <1>6 DEF g

LEMMA RemovedBlock ==
  ASSUME NEW f \in [Block -> BlockStruct], NEW n \in Block, NEW h,
         h # n => f[n].prev \in Block
  PROVE  BlocksKept(Removed(f, h, n), f) /\ LinksRemoved(Removed(f, h, n), f, Block, h, n)
<1> DEFINE m == IF h = n THEN f ELSE [f EXCEPT ![f[n].prev].next = f[n].next]
           g == Removed(f, h, n)
<1>1. f[n].next \in Block \cup {None} /\ f[n].prev \in Block \cup {None}
  BY DEF BlockStruct
<1>2. /\ m \in [Block -> BlockStruct] /\ BlocksKept(m, f)
      /\ \A c \in Block :
         /\ m[c].next = IF h # n /\ c = f[n].prev THEN f[n].next ELSE f[c].next
         /\ m[c].prev = f[c].prev
  <2>1. CASE h = n
    BY <2>1 DEF BlocksKept
  <2>2. CASE h # n
    <3>1. [f EXCEPT ![f[n].prev].next = f[n].next] \in [Block -> BlockStruct]
      BY <1>1, <2>2 DEF BlockStruct
    <3> QED BY <1>1, <2>2, <3>1 DEF BlocksKept, BlockStruct
  <2> QED BY <2>1, <2>2
<1>3. g = SetPrev(m, f[n].next, f[n].prev)
  BY DEF Removed
<1> HIDE DEF m, g
<1>4. BlocksKept(g, m) /\ LinksSet(g, m, Block, f[n].next, f[n].prev)
  BY <1>1, <1>2, <1>3, SetPrevBlock
<1>5. BlocksKept(g, f)
  BY <1>2, <1>4 DEF BlocksKept
<1>6. LinksRemoved(g, f, Block, h, n)
  BY <1>2, <1>4 DEF LinksSet, LinksRemoved
<1> QED BY <1>5, <1>6 DEF g

LEMMA SetPrevSuperblock ==
  ASSUME NEW f \in [Superblock -> SuperblockStruct], NEW n \in Superblock \cup {None},
         NEW p \in Superblock \cup {None}
  PROVE  SuperblocksKept(SetPrev(f, n, p), f) /\ LinksSet(SetPrev(f, n, p), f, Superblock, n, p)
<1> DEFINE g == SetPrev(f, n, p)
<1>1. CASE n = None
  <2>1. g = f
    BY <1>1 DEF SetPrev
  <2> HIDE DEF g
  <2>2. SuperblocksKept(g, f) /\ LinksSet(g, f, Superblock, n, p)
    BY <1>1, <2>1, NoneAssumption DEF SuperblocksKept, LinksSet
  <2> QED BY <2>2 DEF g
<1>2. CASE n \in Superblock
  <2>1. g = [f EXCEPT ![n].prev = p]
    BY <1>2, NoneAssumption DEF SetPrev
  <2> HIDE DEF g
  <2>2. g \in [Superblock -> SuperblockStruct]
    BY <1>2, <2>1 DEF SuperblockStruct
  <2>3. SuperblocksKept(g, f) /\ LinksSet(g, f, Superblock, n, p)
    BY <1>2, <2>1, <2>2 DEF SuperblocksKept, LinksSet, SuperblockStruct
  <2> QED BY <2>3 DEF g
<1> QED BY <1>1, <1>2

LEMMA PoppedSuperblock ==
  ASSUME NEW f \in [Superblock -> SuperblockStruct], NEW n \in Superblock
  PROVE  SuperblocksKept(Popped(f, n), f) /\ LinksPopped(Popped(f, n), f, Superblock, n)
<1> DEFINE g == Popped(f, n)
<1>1. f[n].next \in Superblock \cup {None} /\ f[n].prev \in Superblock \cup {None}
  BY DEF SuperblockStruct
<1>2. g = SetPrev(f, f[n].next, f[n].prev)
  BY DEF Popped
<1> HIDE DEF g
<1>3. SuperblocksKept(g, f) /\ LinksSet(g, f, Superblock, f[n].next, f[n].prev)
  BY <1>1, <1>2, SetPrevSuperblock
<1>4. LinksPopped(g, f, Superblock, n)
  BY <1>3 DEF LinksSet, LinksPopped
<1> QED BY <1>3, <1>4 DEF g

LEMMA PrependedSuperblock ==
  ASSUME NEW f \in [Superblock -> SuperblockStruct], NEW n \in Superblock, NEW h \in Superblock \cup {None},
         h # n
  PROVE  /\ SuperblocksKept(Prepended(f, h, n), f)
         /\ LinksPrepended(Prepended(f, h, n), f, Superblock, h, n)
<1> DEFINE m == [f EXCEPT ![n].next = h]
           g == Prepended(f, h, n)
<1>1. m \in [Superblock -> SuperblockStruct]
  BY DEF SuperblockStruct
<1>2. /\ SuperblocksKept(m, f)
      /\ \A c \in Superblock : m[c].next = (IF c = n THEN h ELSE f[c].next) /\ m[c].prev = f[c].prev
  BY <1>1 DEF SuperblocksKept, SuperblockStruct
<1>3. g = SetPrev(m, h, n)
  BY DEF Prepended
<1> HIDE DEF m, g
<1>4. SuperblocksKept(g, m) /\ LinksSet(g, m, Superblock, h, n)
  BY <1>1, <1>3, SetPrevSuperblock
<1>5. SuperblocksKept(g, f)
  BY <1>2, <1>4 DEF SuperblocksKept
<1>6. LinksPrepended(g, f, Superblock, h, n)
  BY <1>2, <1>4 DEF LinksSet, LinksPrepended
<1> QED BY <1>5, <1>6 DEF g

LEMMA RemovedSuperblock ==
  ASSUME NEW f \in [Superblock -> SuperblockStruct], NEW n \in Superblock, NEW h,
         h # n => f[n].prev \in Superblock
  PROVE  SuperblocksKept(Removed(f, h, n), f) /\ LinksRemoved(Removed(f, h, n), f, Superblock, h, n)
<1> DEFINE m == IF h = n THEN f ELSE [f EXCEPT ![f[n].prev].next = f[n].next]
           g == Removed(f, h, n)
<1>1. f[n].next \in Superblock \cup {None} /\ f[n].prev \in Superblock \cup {None}
  BY DEF SuperblockStruct
<1>2. /\ m \in [Superblock -> SuperblockStruct] /\ SuperblocksKept(m, f)
      /\ \A c \in Superblock :
         /\ m[c].next = IF h # n /\ c = f[n].prev THEN f[n].next ELSE f[c].next
         /\ m[c].prev = f[c].prev
  <2>1. CASE h = n
    BY <2>1 DEF SuperblocksKept
  <2>2. CASE h # n
    <3>1. [f EXCEPT ![f[n].prev].next = f[n].next] \in [Superblock -> SuperblockStruct]
      BY <1>1, <2>2 DEF SuperblockStruct
    <3> QED BY <1>1, <2>2, <3>1 DEF SuperblocksKept, SuperblockStruct
  <2> QED BY <2>1, <2>2
<1>3. g = SetPrev(m, f[n].next, f[n].prev)
  BY DEF Removed
<1> HIDE DEF m, g
<1>4. SuperblocksKept(g, m) /\ LinksSet(g, m, Superblock, f[n].next, f[n].prev)
  BY <1>1, <1>2, <1>3, SetPrevSuperblock
<1>5. SuperblocksKept(g, f)
  BY <1>2, <1>4 DEF SuperblocksKept
<1>6. LinksRemoved(g, f, Superblock, h, n)
  BY <1>2, <1>4 DEF LinksSet, LinksRemoved
<1> QED BY <1>5, <1>6 DEF g

-----------------------------------------------------------------------------
(* The invariant *)

AllocPc == {"steal_gpool", "steal_superblock", "steal_block", "alloc_stolen",
            "alloc_cached"}
PutPc   == {"put_block", "put_gpool", "put_superblock", "put_memory"}
FreePc  == {"free", "return_superblock", "return_gpool", "return_block"} \cup PutPc

\* Steps before which a thread holds the lock of its block, has a block at all,
\* has a superblock; and those between the look at S_mpool.head and its change.
HoldsBlock == {"alloc_stolen", "return_superblock", "return_gpool",
               "return_block", "put_block"}
HasBlock   == HoldsBlock \cup {"steal_block", "alloc_cached", "free"}
HasSuper   == {"steal_superblock", "steal_block", "put_gpool", "put_superblock",
               "put_memory"}
Stealing   == {"steal_gpool", "steal_superblock", "steal_block", "alloc_stolen"}

\* A block without a vm_area in use that is on no list: a thread has taken it
\* off its superblock's list, or is about to put it there.
InHand(b) == \E t \in Thread :
  pc[t] \in {"alloc_stolen", "return_superblock"} /\ myBlock[t] = b

BlocksOf(s) == {b \in Block : At(b) = s}
VmasOf(b)   == {v \in Vma : VmaBlock(v) = b}

\* The blocks on a superblock's list, and the others.
Untaken(s) == {b \in BlocksOf(s) : block[b].vctr = 0 /\ ~InHand(b)}
Taken(s)   == BlocksOf(s) \ Untaken(s)

\* The vm_areas neither handed out nor on their way back.
Resting(b) == {v \in VmasOf(b) :
  v \notin live /\ \A t \in Thread : pc[t] = "free" => myVma[t] # v}

\* The blocks on the list of p's pool.
PoolSet(p) == {b \in Block :
  /\ At(b) \in mapped
  /\ block[b].mpool = p
  /\ block[b].vctr \in 1 .. BLOCK_CTR_FULL - 1}

\* The superblocks on S_gpool's list.  One that has a block may be missing there
\* because a thread is about to put it back or has just taken it out.
Leaving(s) == \E t \in Thread :
  \/ pc[t] = "return_gpool" /\ At(myBlock[t]) = s
  \/ pc[t] \in {"put_superblock", "put_memory"} /\ mySuperblock[t] = s
AvailSet == {s \in mapped : superblock[s].head # None /\ ~Leaving(s)}

\* Values of the variables, and of the locals where they are used.
Typed ==
  /\ mapped \subseteq Superblock
  /\ superblock \in [Superblock -> SuperblockStruct]
  /\ block \in [Block -> BlockStruct]
  /\ S_mpool_head \in [Thread -> Block \cup {None}]
  /\ S_gpool_head \in Superblock \cup {None}
  /\ S_gpool_lock \in Thread \cup {None}
  /\ live \subseteq Vma
  /\ pc \in [Thread -> Labels]
  /\ myBlock \in [Thread -> Block \cup {None}]
  /\ mySuperblock \in [Thread -> Superblock \cup {None}]
  /\ myVma \in [Thread -> Vma \cup {None}]
  /\ mode \in Modes
  /\ phase \in {"alloc", "free"}
  /\ aborted = FALSE
  /\ \A t \in Thread :
       /\ pc[t] \in HasBlock => myBlock[t] \in Block /\ At(myBlock[t]) \in mapped
       /\ pc[t] \in HasSuper => mySuperblock[t] \in mapped
       /\ pc[t] = "free" => myVma[t] \in Vma
  /\ \A v \in live : Home[v] \in mapped

\* What the way of use entails inside the calls.  A superblock is given back
\* only in "serial": otherwise a vm_area of it that is in use stays in use.
Discipline ==
  /\ mode \in SafeModes
  /\ mode = "serial" =>
       \A t, u \in Thread : pc[t] # "idle" /\ pc[u] # "idle" => t = u
  /\ mode = "phased" =>
       \A t \in Thread :
         pc[t] # "idle" => pc[t] \in IF phase = "alloc" THEN AllocPc ELSE FreePc
  /\ mode = "owner" =>
       \A t \in Thread : pc[t] = "free" => block[myBlock[t]].mpool = t
  /\ mode # "serial" =>
       \A t \in Thread :
         /\ pc[t] \in {"free", "return_superblock"} =>
              \E w \in live : Home[w] = At(myBlock[t])
         /\ pc[t] \notin PutPc

\* Who holds which lock; while S_gpool is locked its list does not change.
LockInv ==
  \A t \in Thread :
    /\ pc[t] \in HoldsBlock => block[myBlock[t]].lock = t
    /\ pc[t] \in {"steal_superblock", "steal_block"} =>
         S_gpool_lock = t /\ S_gpool_head = mySuperblock[t]
    /\ pc[t] = "steal_block" =>
         /\ superblock[mySuperblock[t]].lock = t
         /\ myBlock[t] = superblock[mySuperblock[t]].head
    /\ pc[t] = "return_gpool" => superblock[At(myBlock[t])].lock = t

\* The vm_areas of a block are on its list or in use, and its counter counts
\* those in use; one that is being freed is nobody else's.
VmaInv ==
  /\ \A b \in Block : At(b) \in mapped =>
       /\ block[b].head = Resting(b)
       /\ block[b].vctr = BLOCK_CTR_FULL - Cardinality(block[b].head)
       /\ block[b].vctr # 0 => block[b].mpool \in Thread
  /\ \A t \in Thread :
       /\ pc[t] = "free" =>
            /\ VmaBlock(myVma[t]) = myBlock[t]
            /\ myVma[t] \notin live
            /\ \A u \in Thread : pc[u] = "free" /\ myVma[u] = myVma[t] => u = t
       /\ pc[t] \in {"alloc_stolen", "return_superblock"} =>
            block[myBlock[t]].vctr = 0

\* A thread is about to take the first block of a superblock, or to free it.
With(t, s) ==
  \/ pc[t] \in HasSuper /\ mySuperblock[t] = s
  \/ pc[t] = "put_block" /\ At(myBlock[t]) = s

\* The list of a superblock, and its counter of the blocks not on it.  The
\* counter is zero only while some thread sees to it.
SuperInv ==
  /\ \A s \in mapped :
       /\ superblock[s].bctr = Cardinality(Taken(s))
       /\ Chain(block, superblock[s].head, Untaken(s))
       /\ superblock[s].bctr > 0 \/ \E t \in Thread : With(t, s)
       /\ \A t \in Thread : pc[t] \in PutPc /\ With(t, s) => Taken(s) = {}
  /\ \A t \in Thread :
       pc[t] = "return_gpool" => Untaken(At(myBlock[t])) = {myBlock[t]}

\* The list of a pool.  Nobody puts a block on it between its thread's look at
\* it, in vma_alloc, and the use of what the thread has seen.
PoolInv ==
  \A p \in Thread :
    /\ Chain(block, S_mpool_head[p], PoolSet(p))
    /\ LinkedBack(block, PoolSet(p))
    /\ pc[p] \in Stealing => S_mpool_head[p] = None
    /\ pc[p] = "alloc_cached" => myBlock[p] = S_mpool_head[p] /\ myBlock[p] # None

\* The list of S_gpool
GpoolInv ==
  /\ Chain(superblock, S_gpool_head, AvailSet)
  /\ LinkedBack(superblock, AvailSet)

IInv ==
  /\ Typed
  /\ Discipline
  /\ LockInv
  /\ VmaInv
  /\ SuperInv
  /\ PoolInv
  /\ GpoolInv

-----------------------------------------------------------------------------
(* What it says of one state *)

\* How many there are of each struct
LEMMA Sizes ==
  /\ IsFiniteSet(Superblock)
  /\ \A s \in Superblock :
       IsFiniteSet(BlocksOf(s)) /\ Cardinality(BlocksOf(s)) = SUPERBLOCK_CTR_FULL
  /\ IsFiniteSet(Block)
  /\ \A b \in Block : /\ VmasOf(b) = {b} \X (1 .. BLOCK_CTR_FULL)
                      /\ IsFiniteSet(VmasOf(b)) /\ Cardinality(VmasOf(b)) = BLOCK_CTR_FULL
<1>1. /\ BLOCK_CTR_FULL \in Nat /\ SUPERBLOCK_CTR_FULL \in Nat
      /\ BLOCK_CTR_FULL > 1 /\ SUPERBLOCK_CTR_FULL > 1
  BY CounterAssumption
<1>2. /\ IsFiniteSet(Superblock)
      /\ IsFiniteSet(1 .. SUPERBLOCK_CTR_FULL)
      /\ Cardinality(1 .. SUPERBLOCK_CTR_FULL) = SUPERBLOCK_CTR_FULL
      /\ IsFiniteSet(1 .. BLOCK_CTR_FULL)
      /\ Cardinality(1 .. BLOCK_CTR_FULL) = BLOCK_CTR_FULL
  BY <1>1, FS_Interval, MemoryAssumption DEF Superblock
<1>3. IsFiniteSet(Block)
  BY <1>2, FS_Product DEF Block
<1>4. ASSUME NEW s \in Superblock
      PROVE  IsFiniteSet(BlocksOf(s)) /\ Cardinality(BlocksOf(s)) = SUPERBLOCK_CTR_FULL
  <2>1. BlocksOf(s) = {s} \X (1 .. SUPERBLOCK_CTR_FULL)
    <3>1. \A b \in Block : At(b) = b[1]
      BY NoneAssumption DEF At, BlockSuperblock
    <3> QED BY <3>1 DEF BlocksOf, Block
  <2>2. IsFiniteSet({s}) /\ Cardinality({s}) = 1
    BY FS_Singleton
  <2>3. /\ IsFiniteSet({s} \X (1 .. SUPERBLOCK_CTR_FULL))
        /\ Cardinality({s} \X (1 .. SUPERBLOCK_CTR_FULL)) = 1 * SUPERBLOCK_CTR_FULL
    <3> DEFINE I == 1 .. SUPERBLOCK_CTR_FULL
    <3>1. IsFiniteSet(I) /\ Cardinality(I) = SUPERBLOCK_CTR_FULL
      BY <1>2
    <3> HIDE DEF I
    <3>2. /\ IsFiniteSet({s} \X I)
          /\ Cardinality({s} \X I) = Cardinality({s}) * Cardinality(I)
      BY <2>2, <3>1, FS_Product
    <3>3. /\ IsFiniteSet({s} \X I)
          /\ Cardinality({s} \X I) = 1 * SUPERBLOCK_CTR_FULL
      BY <2>2, <3>1, <3>2
    <3> QED BY <3>3 DEF I
  <2>4. 1 * SUPERBLOCK_CTR_FULL = SUPERBLOCK_CTR_FULL
    BY <1>1
  <2> QED BY <2>1, <2>3, <2>4
<1>5. ASSUME NEW b \in Block
      PROVE  /\ VmasOf(b) = {b} \X (1 .. BLOCK_CTR_FULL)
             /\ IsFiniteSet(VmasOf(b)) /\ Cardinality(VmasOf(b)) = BLOCK_CTR_FULL
  <2>1. VmasOf(b) = {b} \X (1 .. BLOCK_CTR_FULL)
    BY DEF VmasOf, Vma, VmaBlock
  <2>2. IsFiniteSet({b}) /\ Cardinality({b}) = 1
    BY FS_Singleton
  <2>3. /\ IsFiniteSet({b} \X (1 .. BLOCK_CTR_FULL))
        /\ Cardinality({b} \X (1 .. BLOCK_CTR_FULL)) = 1 * BLOCK_CTR_FULL
    <3> DEFINE I == 1 .. BLOCK_CTR_FULL
    <3>1. IsFiniteSet(I) /\ Cardinality(I) = BLOCK_CTR_FULL
      BY <1>2
    <3> HIDE DEF I
    <3>2. /\ IsFiniteSet({b} \X I)
          /\ Cardinality({b} \X I) = Cardinality({b}) * Cardinality(I)
      BY <2>2, <3>1, FS_Product
    <3>3. /\ IsFiniteSet({b} \X I)
          /\ Cardinality({b} \X I) = 1 * BLOCK_CTR_FULL
      BY <2>2, <3>1, <3>2
    <3> QED BY <3>3 DEF I
  <2>4. 1 * BLOCK_CTR_FULL = BLOCK_CTR_FULL
    BY <1>1
  <2> QED BY <2>1, <2>3, <2>4
<1> QED BY <1>2, <1>3, <1>4, <1>5

\* A block's counter says how many of its vm_areas are on its list.
LEMMA BlockCount ==
  ASSUME IInv, NEW b \in Block, At(b) \in mapped
  PROVE  /\ block[b].head \subseteq VmasOf(b) /\ IsFiniteSet(block[b].head)
         /\ Cardinality(block[b].head) \in Nat
         /\ block[b].vctr \in 0 .. BLOCK_CTR_FULL
         /\ block[b].vctr = 0 <=> block[b].head = VmasOf(b)
         /\ block[b].vctr = BLOCK_CTR_FULL <=> block[b].head = {}
<1> DEFINE H == block[b].head
<1>1. H = Resting(b) /\ block[b].vctr = BLOCK_CTR_FULL - Cardinality(H)
  BY DEF IInv, VmaInv
<1>2. H \subseteq VmasOf(b)
  BY <1>1 DEF Resting
<1>3. IsFiniteSet(VmasOf(b)) /\ Cardinality(VmasOf(b)) = BLOCK_CTR_FULL
  BY Sizes
<1>4. /\ IsFiniteSet(H) /\ Cardinality(H) <= BLOCK_CTR_FULL
      /\ Cardinality(H) = BLOCK_CTR_FULL => H = VmasOf(b)
  BY <1>2, <1>3, FS_Subset
<1>5. Cardinality(H) \in Nat /\ (Cardinality(H) = 0 <=> H = {})
  BY <1>4, FS_CardinalityType, FS_EmptySet
<1> HIDE DEF H
<1>6. BLOCK_CTR_FULL \in Nat
  BY CounterAssumption
<1>7. /\ block[b].vctr \in 0 .. BLOCK_CTR_FULL
      /\ block[b].vctr = 0 <=> H = VmasOf(b)
      /\ block[b].vctr = BLOCK_CTR_FULL <=> H = {}
  BY <1>1, <1>3, <1>4, <1>5, <1>6
<1> QED BY <1>2, <1>4, <1>5, <1>7 DEF H

\* A superblock's counter says how many of its blocks are on its list.
LEMMA SuperCount ==
  ASSUME IInv, NEW s \in mapped
  PROVE  /\ IsFiniteSet(Taken(s)) /\ Cardinality(Taken(s)) \in Nat
         /\ superblock[s].bctr \in 0 .. SUPERBLOCK_CTR_FULL
         /\ superblock[s].bctr = 0 <=> Taken(s) = {}
         /\ superblock[s].bctr = SUPERBLOCK_CTR_FULL <=> Untaken(s) = {}
         /\ superblock[s].head = None <=> Untaken(s) = {}
         /\ superblock[s].bctr = SUPERBLOCK_CTR_FULL - Cardinality(Untaken(s))
<1>1. /\ IsFiniteSet(BlocksOf(s)) /\ Cardinality(BlocksOf(s)) = SUPERBLOCK_CTR_FULL
      /\ SUPERBLOCK_CTR_FULL \in Nat
  BY Sizes, CounterAssumption DEF IInv, Typed
<1>2. Untaken(s) \subseteq BlocksOf(s) /\ Taken(s) = BlocksOf(s) \ Untaken(s)
  BY DEF Untaken, Taken
<1>3. /\ IsFiniteSet(Taken(s)) /\ Cardinality(Taken(s)) \in Nat
      /\ Cardinality(Taken(s)) = SUPERBLOCK_CTR_FULL - Cardinality(Untaken(s))
  <2>1. BlocksOf(s) \cap Untaken(s) = Untaken(s)
    BY <1>2
  <2> QED BY <1>1, <1>2, <2>1, FS_Difference, FS_CardinalityType
<1>4. IsFiniteSet(Untaken(s)) /\ Cardinality(Untaken(s)) \in Nat
  BY <1>1, <1>2, FS_Subset, FS_CardinalityType
<1>5. /\ Cardinality(Taken(s)) = 0 <=> Taken(s) = {}
      /\ Cardinality(Untaken(s)) = 0 <=> Untaken(s) = {}
  BY <1>3, <1>4, FS_EmptySet
<1>6. superblock[s].bctr = Cardinality(Taken(s)) /\ Chain(block, superblock[s].head, Untaken(s))
  BY DEF IInv, SuperInv
<1>7. superblock[s].head = None <=> Untaken(s) = {}
  <2>1. None \notin Untaken(s)
    BY NoneAssumption DEF Untaken, BlocksOf
  <2> QED BY <1>6, <2>1 DEF Chain
<1> QED BY <1>1, <1>3, <1>4, <1>5, <1>6, <1>7

-----------------------------------------------------------------------------
(* What a step does, field by field *)

\* Setup makes a list of all the blocks of the new superblock.
LEMMA SetupEffect ==
  ASSUME Typed, NEW s \in Superblock, Setup(s)
  PROVE  /\ superblock' \in [Superblock -> SuperblockStruct]
         /\ \A x \in Superblock : x # s => superblock'[x] = superblock[x]
         /\ superblock'[s].bctr = 0 /\ superblock'[s].lock = None
         /\ superblock'[s].head = <<s, 1>> /\ superblock'[s].next = None
         /\ superblock'[s].prev = None
         /\ block' \in [Block -> BlockStruct]
         /\ \A c \in Block : At(c) # s => block'[c] = block[c]
         /\ \A c \in BlocksOf(s) :
              /\ block'[c].vctr = 0 /\ block'[c].lock = None
              /\ block'[c].mpool = None /\ block'[c].head = VmasOf(c)
         /\ Chain(block', <<s, 1>>, BlocksOf(s))
<1> DEFINE F == SUPERBLOCK_CTR_FULL
<1>1. F \in Nat /\ F > 1
  BY CounterAssumption
<1>2. \A i \in 1 .. F : <<s, i>> \in Block /\ At(<<s, i>>) = s
  BY Places
<1>3. /\ superblock' \in [Superblock -> SuperblockStruct]
      /\ \A x \in Superblock : x # s => superblock'[x] = superblock[x]
      /\ superblock'[s].bctr = 0 /\ superblock'[s].lock = None
      /\ superblock'[s].head = <<s, 1>> /\ superblock'[s].next = None
      /\ superblock'[s].prev = None
  BY <1>1, <1>2 DEF Setup, Typed, SuperblockStruct
<1>4. \A c \in Block : At(c) # s => block'[c] = block[c]
  BY Places DEF Setup, Typed
<1>5. ASSUME NEW c \in BlocksOf(s)
      PROVE  /\ block'[c] \in BlockStruct
             /\ block'[c].vctr = 0 /\ block'[c].lock = None
             /\ block'[c].mpool = None /\ block'[c].head = VmasOf(c)
             /\ block'[c].next = IF c[2] = F THEN None ELSE <<s, c[2] + 1>>
             /\ c[2] \in 1 .. F /\ c = <<s, c[2]>>
  <2>1. c \in Block /\ BlockSuperblock(c) = s /\ c[2] \in 1 .. F /\ c = <<s, c[2]>>
    BY Places DEF BlocksOf
  <2>2. VmasOf(c) = {c} \X (1 .. BLOCK_CTR_FULL) /\ VmasOf(c) \subseteq Vma
    BY <2>1, Sizes DEF VmasOf
  <2> DEFINE p == IF c[2] = 1 THEN None ELSE <<s, c[2] - 1>>
             n == IF c[2] = F THEN None ELSE <<s, c[2] + 1>>
  <2>3. p \in Block \cup {None} /\ n \in Block \cup {None}
    BY <1>1, <1>2, <2>1
  <2>4. block'[c] = [vctr |-> 0, lock |-> None, head |-> VmasOf(c), mpool |-> None,
                     prev |-> p, next |-> n]
    BY <2>1, <2>2 DEF Setup
  <2> HIDE DEF p
  <2> QED BY <2>1, <2>2, <2>3, <2>4 DEF BlockStruct
<1>6. block' \in [Block -> BlockStruct]
  <2>1. \A c \in Block : block'[c] \in BlockStruct
    BY <1>4, <1>5 DEF Typed, BlocksOf
  <2>2. block' = [c \in Block |-> block'[c]]
    BY DEF Setup
  <2> QED BY <2>1, <2>2
<1>7. Chain(block', <<s, 1>>, BlocksOf(s))
  <2> DEFINE B == BlocksOf(s)
             r == [c \in B |-> c[2]]
  <2>1. \A c \in B : r[c] \in 1 .. F /\ r[c] = c[2] /\ c = <<s, r[c]>>
    BY <1>5
  <2>2. \A i \in 1 .. F : <<s, i>> \in B /\ r[<<s, i>>] = i
    BY <1>2 DEF BlocksOf
  <2>3. \A c \in B : block'[c].next = IF r[c] = F THEN None ELSE <<s, r[c] + 1>>
    BY <1>5, <2>1
  <2>4. None \notin B
    BY NoneAssumption DEF BlocksOf
  <2>5. r \in [B -> Int]
    BY <2>1
  <2> HIDE DEF r, B
  <2>6. \A c \in B : block'[c].next = None <=> r[c] = F
    <3> SUFFICES ASSUME NEW c \in B, r[c] # F PROVE <<s, r[c] + 1>> # None
      BY <2>3
    <3>1. r[c] + 1 \in 1 .. F
      BY <2>1, <1>1
    <3> QED BY <3>1, <2>2, <2>4
  <2>7. InOrder(block', <<s, 1>>, B, r)
    <3>1. \A x, y \in B : r[x] = r[y] => x = y
      BY <2>1
    <3>2. \A x \in B : r[<<s, 1>>] <= r[x]
      BY <1>1, <2>1, <2>2
    <3>3. \A x \in B : block'[x].next = None => \A y \in B : r[y] <= r[x]
      BY <1>1, <2>1, <2>6
    <3>4. ASSUME NEW x \in B, block'[x].next # None
          PROVE  /\ block'[x].next \in B
                 /\ r[x] < r[block'[x].next]
                 /\ \A y \in B : r[y] <= r[x] \/ r[block'[x].next] <= r[y]
      <4>1. r[x] # F /\ r[x] \in 1 .. F
        BY <2>1, <2>6, <3>4
      <4>2. r[x] + 1 \in 1 .. F
        BY <1>1, <4>1
      <4>3. block'[x].next = <<s, r[x] + 1>>
        BY <2>3, <4>1
      <4>4. block'[x].next \in B /\ r[block'[x].next] = r[x] + 1
        BY <2>2, <4>2, <4>3
      <4> QED BY <2>1, <4>4
    <3> QED BY <3>1, <3>2, <3>3, <3>4 DEF InOrder
  <2>8. ASSUME NEW x \in B, x # <<s, 1>> PROVE \E y \in B : block'[y].next = x
    <3>1. r[x] - 1 \in 1 .. F /\ r[x] - 1 # F
      BY <1>1, <2>1, <2>8
    <3>2. <<s, r[x] - 1>> \in B /\ block'[<<s, r[x] - 1>>].next = <<s, r[x] - 1 + 1>>
      BY <2>2, <2>3, <3>1
    <3>3. r[x] - 1 + 1 = r[x]
      BY <2>1
    <3> QED BY <2>1, <3>2, <3>3
  <2>9. <<s, 1>> \in B
    BY <1>1, <2>2
  <2> QED BY <2>5, <2>7, <2>8, <2>9 DEF Chain, B
<1> QED BY <1>3, <1>4, <1>5, <1>6, <1>7

\* A list of several elements goes on after its first.
LEMMA ChainSecond ==
  ASSUME NEW f, NEW h, NEW S, Chain(f, h, S), h # None, None \notin S
  PROVE  /\ h \in S
         /\ f[h].next # h
         /\ f[h].next = None => S = {h}
         /\ f[h].next # None => f[h].next \in S
         /\ f[h].next # None => S # {h}
<1>1. h \in S
  BY DEF Chain
<1>2. ASSUME f[h].next = None, NEW x \in S, x # h PROVE FALSE
  <2>1. PICK r \in [S -> Int] : InOrder(f, h, S, r)
    BY DEF Chain
  <2>2. r[x] \in Int /\ r[h] \in Int /\ r[x] <= r[h] /\ r[h] <= r[x]
    BY <1>1, <1>2, <2>1 DEF InOrder
  <2>3. r[x] = r[h]
    BY <2>2
  <2> QED BY <1>1, <1>2, <2>1, <2>3 DEF InOrder
<1> QED BY <1>1, <1>2, ChainNext

\* The superblock is the first of S_gpool and the block the first of the
\* superblock; the superblock leaves S_gpool when it has no other block.
StealBlockDoes(t, b, s, n) ==
  /\ b \in Untaken(s) /\ s \in AvailSet
  /\ superblock[s].head = b /\ S_gpool_head = s /\ S_gpool_lock = t
  /\ superblock[s].lock = t /\ block[b].lock = None
  /\ n = None => Untaken(s) = {b}
  /\ n # None => n \in Untaken(s) \ {b}
  /\ block' \in [Block -> BlockStruct]
  /\ \A c \in Block :
       /\ block'[c].vctr = block[c].vctr
       /\ block'[c].lock = IF c = b THEN t ELSE block[c].lock
       /\ block'[c].head = block[c].head /\ block'[c].mpool = block[c].mpool
       /\ block'[c].next = block[c].next
       /\ block'[c].prev = IF c = n THEN block[b].prev
                           ELSE block[c].prev
  /\ superblock' \in [Superblock -> SuperblockStruct]
  /\ superblock'[s].bctr = superblock[s].bctr + 1
  /\ \A x \in Superblock : x # s => superblock'[x].bctr = superblock[x].bctr
  /\ \A x \in Superblock :
       /\ superblock'[x].lock = IF x = s THEN None ELSE superblock[x].lock
       /\ superblock'[x].head = IF x = s THEN n ELSE superblock[x].head
       /\ superblock'[x].next = superblock[x].next
       /\ superblock'[x].prev =
            IF n = None /\ x = superblock[s].next
              THEN superblock[s].prev ELSE superblock[x].prev
  /\ n = None => S_gpool_head' = superblock[s].next
  /\ n # None => S_gpool_head' = s
  /\ S_gpool_lock' = None
  /\ aborted' = FALSE

\* StealBlock does that.
LEMMA StealBlockEffect ==
  ASSUME IInv, NEW t \in Thread, StealBlock(t),
         NEW b, b = myBlock[t], NEW s, s = mySuperblock[t],
         NEW n, n = block[b].next
  PROVE  StealBlockDoes(t, b, s, n)
<1>1. pc[t] = "steal_block" /\ block[b].lock = None
  BY DEF StealBlock, Ready
<1>2. /\ s \in mapped /\ s \in Superblock /\ b \in Block /\ At(b) \in mapped
      /\ superblock[s].head = b /\ S_gpool_head = s /\ S_gpool_lock = t
      /\ superblock[s].lock = t
  BY <1>1 DEF IInv, Typed, LockInv, HasBlock, HasSuper
<1>3. s \in AvailSet
  <2>1. Chain(superblock, S_gpool_head, AvailSet)
    BY DEF IInv, GpoolInv
  <2> QED BY <1>2, <2>1, NoneAssumption DEF Chain
<1>4. /\ b \in Untaken(s)
      /\ n = None => Untaken(s) = {b}
      /\ n # None => n \in Untaken(s) \ {b}
  <2>1. Chain(block, b, Untaken(s))
    BY <1>2 DEF IInv, SuperInv
  <2>2. b # None /\ None \notin Untaken(s)
    BY <1>2, NoneAssumption DEF Untaken, BlocksOf
  <2> QED BY <2>1, <2>2, ChainSecond
<1> DEFINE taken == [superblock EXCEPT ![s].head = n, ![s].bctr = @ + 1, ![s].lock = None]
<1>5. block \in [Block -> BlockStruct] /\ superblock \in [Superblock -> SuperblockStruct]
  BY DEF IInv, Typed
<1>6. /\ block' = [Popped(block, b) EXCEPT ![b].lock = t]
      /\ n # None => superblock' = taken /\ S_gpool_head' = S_gpool_head /\ aborted' = aborted
      /\ n = None => /\ superblock' = Popped(taken, s)
                     /\ S_gpool_head' = superblock[s].next
                     /\ aborted' = (taken[s].bctr # SUPERBLOCK_CTR_FULL)
      /\ S_gpool_lock' = None
  BY DEF StealBlock
<1>7. /\ block' \in [Block -> BlockStruct]
      /\ \A c \in Block :
           /\ block'[c].vctr = block[c].vctr
           /\ block'[c].lock = IF c = b THEN t ELSE block[c].lock
           /\ block'[c].head = block[c].head /\ block'[c].mpool = block[c].mpool
           /\ block'[c].next = block[c].next
           /\ block'[c].prev = IF c = n THEN block[b].prev ELSE block[c].prev
  <2> DEFINE g == Popped(block, b)
  <2>1. /\ g \in [Block -> BlockStruct]
        /\ \A c \in Block :
              /\ g[c].vctr = block[c].vctr /\ g[c].lock = block[c].lock
              /\ g[c].head = block[c].head /\ g[c].mpool = block[c].mpool
              /\ g[c].next = block[c].next
              /\ g[c].prev = IF c = n THEN block[b].prev ELSE block[c].prev
    <3>1. BlocksKept(g, block) /\ LinksPopped(g, block, Block, b)
      BY <1>2, <1>5, PoppedBlock DEF g
    <3> QED BY <3>1 DEF BlocksKept, LinksPopped
  <2> HIDE DEF g
  <2>2. block' = [g EXCEPT ![b].lock = t]
    BY <1>6 DEF g
  <2> QED BY <1>2, <2>1, <2>2 DEF BlockStruct
<1>8. /\ taken \in [Superblock -> SuperblockStruct]
      /\ taken[s].bctr = superblock[s].bctr + 1
      /\ \A x \in Superblock : x # s => taken[x].bctr = superblock[x].bctr
      /\ \A x \in Superblock :
           /\ taken[x].lock = IF x = s THEN None ELSE superblock[x].lock
           /\ taken[x].head = IF x = s THEN n ELSE superblock[x].head
           /\ taken[x].next = superblock[x].next
           /\ taken[x].prev = superblock[x].prev
  <2>1. n \in Block \cup {None}
    BY <1>2, <1>5 DEF BlockStruct
  <2>2. superblock[s] \in SuperblockStruct
    BY <1>2, <1>5
  <2>3. /\ \A x \in Superblock : x # s => taken[x] = superblock[x]
        /\ taken[s] = [superblock[s] EXCEPT !.head = n, !.bctr = @ + 1, !.lock = None]
        /\ DOMAIN taken = Superblock /\ taken = [x \in Superblock |-> taken[x]]
    BY <1>2, <1>5
  <2> HIDE DEF taken
  <2>4. /\ taken[s] \in SuperblockStruct
        /\ taken[s].bctr = superblock[s].bctr + 1 /\ taken[s].lock = None
        /\ taken[s].head = n
        /\ taken[s].next = superblock[s].next /\ taken[s].prev = superblock[s].prev
    <3>1. superblock[s].bctr + 1 \in Int
      BY <2>2 DEF SuperblockStruct
    <3>2. taken[s] = [superblock[s] EXCEPT !.head = n, !.bctr = superblock[s].bctr + 1,
                                           !.lock = None]
      BY <2>2, <2>3 DEF SuperblockStruct
    <3>3. taken[s] = TakenSuperblockStruct(superblock[s], n, superblock[s].bctr + 1)
      BY <3>2 DEF TakenSuperblockStruct
    <3> DEFINE x == superblock[s]
               c == x.bctr + 1
    <3>4. x \in SuperblockStruct /\ c \in Int /\ taken[s] = TakenSuperblockStruct(x, n, c)
      BY <2>2, <3>1, <3>3
    <3> HIDE DEF x, c
    <3>5. /\ taken[s] \in SuperblockStruct
          /\ taken[s].bctr = c /\ taken[s].lock = None /\ taken[s].head = n
          /\ taken[s].next = x.next /\ taken[s].prev = x.prev
      BY <2>1, <3>4, TakenSuperblock
    <3> QED BY <3>5 DEF x, c
  <2> QED BY <1>2, <1>5, <2>3, <2>4
<1> HIDE DEF taken
<1>9. CASE n # None
  <2>1. superblock' = taken /\ S_gpool_head' = s /\ aborted' = FALSE /\ S_gpool_lock' = None
    BY <1>2, <1>6, <1>9 DEF IInv, Typed
  <2> QED BY <1>1, <1>2, <1>3, <1>4, <1>7, <1>8, <1>9, <2>1 DEF StealBlockDoes
<1>10. CASE n = None
  <2>1. superblock' = Popped(taken, s)
    BY <1>6, <1>10
  <2>2. /\ superblock' \in [Superblock -> SuperblockStruct]
        /\ \A x \in Superblock :
             /\ superblock'[x].bctr = taken[x].bctr /\ superblock'[x].lock = taken[x].lock
             /\ superblock'[x].head = taken[x].head /\ superblock'[x].next = taken[x].next
             /\ superblock'[x].prev = IF x = taken[s].next THEN taken[s].prev ELSE taken[x].prev
    <3>1. SuperblocksKept(superblock', taken) /\ LinksPopped(superblock', taken, Superblock, s)
      BY <1>2, <1>8, <2>1, PoppedSuperblock
    <3> QED BY <3>1 DEF SuperblocksKept, LinksPopped
  <2>3. aborted' = FALSE
    <3>1. superblock[s].bctr = SUPERBLOCK_CTR_FULL - Cardinality(Untaken(s))
      BY <1>2, SuperCount
    <3>2. Cardinality(Untaken(s)) = 1
      BY <1>4, <1>10, FS_Singleton
    <3>3. taken[s].bctr = SUPERBLOCK_CTR_FULL
      BY <1>2, <1>8, <3>1, <3>2, CounterAssumption
    <3> QED BY <1>6, <1>10, <3>3
  <2>4. /\ superblock'[s].bctr = superblock[s].bctr + 1
        /\ \A x \in Superblock : x # s => superblock'[x].bctr = superblock[x].bctr
        /\ \A x \in Superblock :
             /\ superblock'[x].lock = IF x = s THEN None ELSE superblock[x].lock
             /\ superblock'[x].head = IF x = s THEN n ELSE superblock[x].head
             /\ superblock'[x].next = superblock[x].next
    BY <1>2, <1>8, <2>2
  <2>5. \A x \in Superblock :
          superblock'[x].prev = IF n = None /\ x = superblock[s].next
                                  THEN superblock[s].prev ELSE superblock[x].prev
    BY <1>2, <1>8, <1>10, <2>2
  <2> QED BY <1>1, <1>2, <1>3, <1>4, <1>6, <1>7, <1>10, <2>2, <2>3, <2>4, <2>5
          DEF StealBlockDoes
<1> QED BY <1>9, <1>10

\* All vm_areas of a block just stolen are free; the pool's list is empty.
AllocStolenDoes(t, b, v) ==
  /\ b \in Block /\ At(b) \in mapped /\ block[b].lock = t /\ block[b].vctr = 0
  /\ block' \in [Block -> BlockStruct]
  /\ S_mpool_head' = [S_mpool_head EXCEPT ![t] = b]
  /\ aborted' = FALSE
  /\ live' = live \cup {v}
  /\ \A c \in Block : c # b => block'[c] = block[c]
  /\ block'[b].vctr = 1 /\ block'[b].lock = None
  /\ block'[b].head = block[b].head \ {v}
  /\ block'[b].mpool = t
  /\ block'[b].prev = None /\ block'[b].next = None

\* AllocStolen does that.
LEMMA AllocStolenEffect ==
  ASSUME IInv, NEW t \in Thread, AllocStolen(t), NEW b, b = myBlock[t]
  PROVE  \E v \in block[b].head : AllocStolenDoes(t, b, v)
<1>1. pc[t] = "alloc_stolen"
  BY DEF AllocStolen, Ready
<1>2. /\ b \in Block /\ At(b) \in mapped /\ block[b].lock = t /\ block[b].vctr = 0
      /\ block \in [Block -> BlockStruct]
  BY <1>1 DEF IInv, Typed, LockInv, VmaInv, HasBlock, HoldsBlock
<1>3. /\ block[b].head = VmasOf(b) /\ IsFiniteSet(block[b].head)
      /\ Cardinality(block[b].head) = BLOCK_CTR_FULL /\ BLOCK_CTR_FULL > 1
  BY <1>2, BlockCount, Sizes, CounterAssumption
<1> DEFINE f == [block EXCEPT ![b].prev = None, ![b].next = None, ![b].mpool = t]
           v == CHOOSE w \in f[b].head : TRUE
           taken == [f EXCEPT ![b].head = @ \ {v}, ![b].vctr = @ + 1, ![b].lock = None]
<1>4. /\ f \in [Block -> BlockStruct]
      /\ \A c \in Block : c # b => f[c] = block[c]
      /\ f[b].vctr = 0 /\ f[b].head = block[b].head /\ f[b].mpool = t
      /\ f[b].prev = None /\ f[b].next = None
  <2>1. block[b] \in BlockStruct
    BY <1>2
  <2>2. /\ \A c \in Block : c # b => f[c] = block[c]
        /\ f[b] = [block[b] EXCEPT !.prev = None, !.next = None, !.mpool = t]
        /\ DOMAIN f = Block /\ f = [c \in Block |-> f[c]]
    BY <1>2
  <2>3. /\ f[b] \in BlockStruct
        /\ f[b].vctr = 0 /\ f[b].head = block[b].head /\ f[b].mpool = t
        /\ f[b].prev = None /\ f[b].next = None
    <3> HIDE DEF f
    <3> QED BY <1>2, <2>1, <2>2 DEF BlockStruct
  <2> HIDE DEF f
  <2> QED BY <1>2, <2>2, <2>3
<1>5. /\ IF f[b].head # {v}
           THEN /\ block' = taken
                /\ S_mpool_head' = [S_mpool_head EXCEPT ![t] = b]
                /\ aborted' = aborted
           ELSE TRUE
      /\ live' = live \cup {v}
  BY DEF AllocStolen, Take
<1>6. v \in block[b].head /\ f[b].head # {v}
  <2>1. block[b].head # {}
    BY <1>3, FS_EmptySet
  <2>2. v \in f[b].head
    BY <1>4, <2>1
  <2>3. \A w : block[b].head # {w}
    <3> SUFFICES ASSUME NEW w, block[b].head = {w} PROVE FALSE
      OBVIOUS
    <3>1. Cardinality(block[b].head) = 1
      BY FS_Singleton
    <3> QED BY <1>3, <3>1
  <2> HIDE DEF f, v
  <2> QED BY <1>4, <2>2, <2>3
<1> HIDE DEF f, v
<1>7. /\ taken \in [Block -> BlockStruct]
      /\ \A c \in Block : c # b => taken[c] = block[c]
      /\ taken[b].vctr = 1 /\ taken[b].lock = None
      /\ taken[b].head = block[b].head \ {v}
      /\ taken[b].mpool = t /\ taken[b].prev = None /\ taken[b].next = None
  <2>1. f[b] \in BlockStruct
    BY <1>2, <1>4
  <2>2. /\ \A c \in Block : c # b => taken[c] = block[c]
        /\ taken[b] = [f[b] EXCEPT !.head = @ \ {v}, !.vctr = 1, !.lock = None]
        /\ DOMAIN taken = Block /\ taken = [c \in Block |-> taken[c]]
    <3>1. f[b].vctr + 1 = 1 /\ DOMAIN f = Block
      BY <1>4
    <3> QED BY <1>2, <1>4, <3>1
  <2> HIDE DEF taken
  <2>3. /\ taken[b] \in BlockStruct
        /\ taken[b].vctr = 1 /\ taken[b].lock = None
        /\ taken[b].head = block[b].head \ {v}
        /\ taken[b].mpool = t /\ taken[b].prev = None /\ taken[b].next = None
    <3>1. f[b].head \ {v} \in SUBSET Vma
      BY <2>1 DEF BlockStruct
    <3>2. taken[b] = [f[b] EXCEPT !.head = f[b].head \ {v}, !.vctr = 1, !.lock = None]
      BY <2>1, <2>2 DEF BlockStruct
    <3>3. /\ taken[b] \in BlockStruct
          /\ taken[b].vctr = 1 /\ taken[b].lock = None
          /\ taken[b].head = f[b].head \ {v} /\ taken[b].mpool = f[b].mpool
          /\ taken[b].next = f[b].next /\ taken[b].prev = f[b].prev
      <4>1. taken[b] = TakenBlockStruct(f[b], f[b].head \ {v}, 1)
        BY <3>2 DEF TakenBlockStruct
      <4> QED BY <2>1, <3>1, <4>1, TakenBlock
    <3> QED BY <1>4, <3>3
  <2> QED BY <1>2, <2>2, <2>3
<1> HIDE DEF taken
<1>8. block' = taken /\ S_mpool_head' = [S_mpool_head EXCEPT ![t] = b] /\ aborted' = FALSE
  BY <1>5, <1>6 DEF IInv, Typed
<1> QED BY <1>2, <1>5, <1>6, <1>7, <1>8 DEF AllocStolenDoes

\* The first block of the pool loses a vm_area, and its place in the pool when
\* that was its last.
AllocCachedDoes(t, b, v) ==
  /\ b \in PoolSet(t) /\ S_mpool_head[t] = b /\ block[b].lock = None
  /\ block' \in [Block -> BlockStruct]
  /\ aborted' = FALSE
  /\ live' = live \cup {v}
  /\ block'[b].vctr = block[b].vctr + 1
  /\ block'[b].lock = None
  /\ block'[b].head = block[b].head \ {v}
  /\ \A c \in Block : c # b =>
       /\ block'[c].vctr = block[c].vctr /\ block'[c].lock = block[c].lock
       /\ block'[c].head = block[c].head
  /\ \A c \in Block :
       /\ block'[c].mpool = block[c].mpool
       /\ block'[c].next = block[c].next
       /\ block'[c].prev =
            IF block'[b].head = {} /\ c = block[b].next THEN block[b].prev
            ELSE block[c].prev
  /\ S_mpool_head' = [S_mpool_head EXCEPT ![t] =
       IF block'[b].head = {} THEN block[b].next ELSE b]

\* AllocCached does that.
LEMMA AllocCachedEffect ==
  ASSUME IInv, NEW t \in Thread, AllocCached(t), NEW b, b = myBlock[t]
  PROVE  \E v \in block[b].head : AllocCachedDoes(t, b, v)
<1>1. pc[t] = "alloc_cached" /\ block[b].lock = None
  BY DEF AllocCached, Ready
<1>2. /\ b \in Block /\ At(b) \in mapped /\ b = S_mpool_head[t]
      /\ block \in [Block -> BlockStruct]
  BY <1>1 DEF IInv, Typed, PoolInv, HasBlock
<1>3. b \in PoolSet(t)
  <2>1. Chain(block, b, PoolSet(t))
    BY <1>2 DEF IInv, PoolInv
  <2> QED BY <1>2, <2>1, NoneAssumption DEF Chain
<1>4. block[b].vctr \in 1 .. BLOCK_CTR_FULL - 1 /\ BLOCK_CTR_FULL \in Nat
  BY <1>3, CounterAssumption DEF PoolSet
<1>5. /\ block[b].head # {} /\ IsFiniteSet(block[b].head)
      /\ block[b].vctr = BLOCK_CTR_FULL - Cardinality(block[b].head)
  BY <1>2, <1>4, BlockCount DEF IInv, VmaInv
<1> DEFINE v == CHOOSE w \in block[b].head : TRUE
           taken == [block EXCEPT ![b].head = @ \ {v}, ![b].vctr = @ + 1, ![b].lock = None]
<1>6. /\ block[b].head # {v} => /\ block' = taken
                                /\ S_mpool_head' = [S_mpool_head EXCEPT ![t] = b]
                                /\ aborted' = aborted
      /\ block[b].head = {v} =>
           /\ block' = Popped(taken, b)
           /\ S_mpool_head' = [S_mpool_head EXCEPT ![t] = block[b].next]
           /\ aborted' = (taken[b].vctr # BLOCK_CTR_FULL)
      /\ live' = live \cup {v}
  BY <1>2 DEF AllocCached, Take
<1>7. v \in block[b].head
  BY <1>5
<1> HIDE DEF v
<1>8. /\ taken \in [Block -> BlockStruct]
      /\ taken[b].vctr = block[b].vctr + 1
      /\ taken[b].lock = None
      /\ taken[b].head = block[b].head \ {v}
      /\ \A c \in Block : c # b =>
           /\ taken[c].vctr = block[c].vctr /\ taken[c].lock = block[c].lock
           /\ taken[c].head = block[c].head
      /\ \A c \in Block :
           /\ taken[c].mpool = block[c].mpool
           /\ taken[c].next = block[c].next /\ taken[c].prev = block[c].prev
  <2>1. block[b] \in BlockStruct
    BY <1>2
  <2>2. /\ \A c \in Block : c # b => taken[c] = block[c]
        /\ taken[b] = [block[b] EXCEPT !.head = @ \ {v}, !.vctr = @ + 1, !.lock = None]
        /\ DOMAIN taken = Block /\ taken = [c \in Block |-> taken[c]]
    BY <1>2
  <2> HIDE DEF taken
  <2>3. /\ taken[b] \in BlockStruct
        /\ taken[b].vctr = block[b].vctr + 1 /\ taken[b].lock = None
        /\ taken[b].head = block[b].head \ {v}
        /\ taken[b].mpool = block[b].mpool
        /\ taken[b].next = block[b].next /\ taken[b].prev = block[b].prev
    <3>1. block[b].head \ {v} \in SUBSET Vma /\ block[b].vctr + 1 \in Int
      BY <2>1 DEF BlockStruct
    <3>2. taken[b] = [block[b] EXCEPT !.head = block[b].head \ {v},
                                      !.vctr = block[b].vctr + 1, !.lock = None]
      BY <2>1, <2>2 DEF BlockStruct
    <3>3. taken[b] = TakenBlockStruct(block[b], block[b].head \ {v}, block[b].vctr + 1)
      BY <3>2 DEF TakenBlockStruct
    <3> QED BY <2>1, <3>1, <3>3, TakenBlock
  <2> QED BY <1>2, <2>2, <2>3
<1> HIDE DEF taken
<1>9. CASE block[b].head # {v}
  <2>1. block' = taken /\ S_mpool_head' = [S_mpool_head EXCEPT ![t] = b] /\ aborted' = FALSE
    BY <1>6, <1>9 DEF IInv, Typed
  <2>2. taken[b].head # {}
    BY <1>2, <1>7, <1>8, <1>9
  <2>3. live' = live \cup {v}
    BY <1>6
  <2> QED BY <1>1, <1>2, <1>3, <1>7, <1>8, <2>1, <2>2, <2>3 DEF AllocCachedDoes
<1>10. CASE block[b].head = {v}
  <2>1. block' = Popped(taken, b) /\ live' = live \cup {v}
        /\ S_mpool_head' = [S_mpool_head EXCEPT ![t] = block[b].next]
    BY <1>6, <1>10
  <2>2. /\ block' \in [Block -> BlockStruct]
        /\ \A c \in Block :
              /\ block'[c].vctr = taken[c].vctr /\ block'[c].lock = taken[c].lock
              /\ block'[c].head = taken[c].head /\ block'[c].mpool = taken[c].mpool
              /\ block'[c].next = taken[c].next
              /\ block'[c].prev = IF c = taken[b].next THEN taken[b].prev ELSE taken[c].prev
    <3>1. BlocksKept(block', taken) /\ LinksPopped(block', taken, Block, b)
      BY <1>2, <1>8, <2>1, PoppedBlock
    <3> QED BY <3>1 DEF BlocksKept, LinksPopped
  <2>3. block'[b].head = {}
    BY <1>2, <1>8, <1>10, <2>2
  <2>4. aborted' = FALSE
    <3>1. block[b].vctr = BLOCK_CTR_FULL - 1
      BY <1>4, <1>5, <1>10, FS_Singleton
    <3>2. taken[b].vctr = BLOCK_CTR_FULL
      BY <1>2, <1>4, <1>8, <3>1
    <3> QED BY <1>6, <1>10, <3>2
  <2>5. /\ block'[b].vctr = block[b].vctr + 1
        /\ block'[b].lock = None
        /\ block'[b].head = block[b].head \ {v}
        /\ \A c \in Block : c # b =>
             /\ block'[c].vctr = block[c].vctr /\ block'[c].lock = block[c].lock
             /\ block'[c].head = block[c].head
    BY <1>2, <1>8, <2>2
  <2>6. \A c \in Block :
          /\ block'[c].mpool = block[c].mpool /\ block'[c].next = block[c].next
          /\ block'[c].prev = IF c = block[b].next THEN block[b].prev ELSE block[c].prev
    BY <1>2, <1>8, <2>2
  <2> QED BY <1>1, <1>2, <1>3, <1>7, <2>1, <2>2, <2>3, <2>4, <2>5, <2>6 DEF AllocCachedDoes
<1> QED BY <1>9, <1>10

\* A vm_area comes back to its block, which some thread's pool has or had.  That
\* pool loses the block with its last vm_area in use, gets it back with the
\* first that is free again, and has it all the while in between.
FreeDoes(t, b, v, p, h) ==
  /\ b \in Block /\ At(b) \in mapped /\ p \in Thread /\ block[b].lock = None
  /\ v \in VmasOf(b) /\ v \notin block[b].head
  /\ block[b].vctr \in 1 .. BLOCK_CTR_FULL
  /\ aborted' = FALSE
  /\ block' \in [Block -> BlockStruct]
  /\ block'[b].vctr = block[b].vctr - 1
  /\ block'[b].head = block[b].head \cup {v}
  /\ \A c \in Block : c # b =>
       /\ block'[c].vctr = block[c].vctr /\ block'[c].head = block[c].head
       /\ block'[c].lock = block[c].lock
  /\ \A c \in Block : block'[c].mpool = block[c].mpool
  /\ \/ /\ block[b].vctr = 1 /\ b \in PoolSet(p)
        /\ h # b => block[b].prev \in PoolSet(p) /\ block[block[b].prev].next = b
        /\ block'[b].lock = t
        /\ \A c \in Block :
             /\ block'[c].next = IF h # b /\ c = block[b].prev THEN block[b].next
                                 ELSE block[c].next
             /\ block'[c].prev = IF c = block[b].next THEN block[b].prev
                                 ELSE block[c].prev
        /\ S_mpool_head' = [S_mpool_head EXCEPT ![p] =
                              IF h = b THEN block[b].next ELSE h]
        /\ Goto(t, "return_superblock")
        /\ myVma' = [myVma EXCEPT ![t] = None]
        /\ UNCHANGED <<myBlock, mySuperblock>>
     \/ /\ block[b].vctr = BLOCK_CTR_FULL /\ h # b
        /\ block'[b].lock = None
        /\ \A c \in Block :
             /\ block'[c].next = IF c = b THEN h ELSE block[c].next
             /\ block'[c].prev = IF c = h THEN b ELSE block[c].prev
        /\ S_mpool_head' = [S_mpool_head EXCEPT ![p] = b]
        /\ Return(t)
     \/ /\ block[b].vctr \in 2 .. BLOCK_CTR_FULL - 1
        /\ block'[b].lock = None
        /\ \A c \in Block : /\ block'[c].next = block[c].next
                            /\ block'[c].prev = block[c].prev
        /\ S_mpool_head' = S_mpool_head
        /\ Return(t)

\* Free does that.
LEMMA FreeEffect ==
  ASSUME IInv, NEW t \in Thread, Free(t), NEW b, b = myBlock[t], NEW v, v = myVma[t],
         NEW p, p = block[b].mpool, NEW h, h = S_mpool_head[p]
  PROVE  FreeDoes(t, b, v, p, h)
<1>1. pc[t] = "free" /\ block[b].lock = None
  BY DEF Free, Ready
<1>2. /\ b \in Block /\ At(b) \in mapped /\ v \in VmasOf(b) /\ v \in Vma
      /\ block \in [Block -> BlockStruct] /\ S_mpool_head \in [Thread -> Block \cup {None}]
  BY <1>1 DEF IInv, Typed, VmaInv, HasBlock, VmasOf
<1>3. v \notin block[b].head
  <2>1. block[b].head = Resting(b)
    BY <1>2 DEF IInv, VmaInv
  <2> QED BY <1>1, <2>1 DEF Resting
<1>4. /\ block[b].vctr \in 1 .. BLOCK_CTR_FULL
      /\ block[b].vctr = BLOCK_CTR_FULL <=> block[b].head = {}
      /\ BLOCK_CTR_FULL \in Nat /\ BLOCK_CTR_FULL > 1
  BY <1>2, <1>3, BlockCount, CounterAssumption
<1>5. p \in Thread
  BY <1>2, <1>4 DEF IInv, VmaInv
<1>6. block[b].vctr # BLOCK_CTR_FULL => b \in PoolSet(p)
  BY <1>2, <1>4 DEF PoolSet
<1>7. block[b].vctr = BLOCK_CTR_FULL => b \notin PoolSet(p)
  BY <1>4 DEF PoolSet
<1>8. /\ Chain(block, h, PoolSet(p)) /\ LinkedBack(block, PoolSet(p))
      /\ None \notin PoolSet(p) /\ PoolSet(p) \subseteq Block
  BY <1>5, NoneAssumption DEF IInv, PoolInv, PoolSet
<1> DEFINE given == [block EXCEPT ![b].head = @ \cup {v}, ![b].vctr = @ - 1]
<1>9. /\ given[b].vctr = 0 =>
           /\ block' = [Removed(given, h, b) EXCEPT ![b].lock = t]
           /\ S_mpool_head' = [S_mpool_head EXCEPT ![p] = HeadWithout(block, h, b)]
           /\ Goto(t, "return_superblock")
           /\ myVma' = [myVma EXCEPT ![t] = None]
           /\ UNCHANGED <<myBlock, mySuperblock, aborted>>
      /\ given[b].vctr # 0 /\ block[b].head = {} =>
           /\ block' = Prepended(given, h, b)
           /\ S_mpool_head' = [S_mpool_head EXCEPT ![p] = b]
           /\ aborted' = (given[b].vctr # BLOCK_CTR_FULL - 1)
           /\ Return(t)
      /\ given[b].vctr # 0 /\ block[b].head # {} =>
           /\ block' = given
           /\ Return(t)
           /\ UNCHANGED <<S_mpool_head, aborted>>
  BY DEF Free
<1>10. /\ given \in [Block -> BlockStruct]
       /\ given[b].vctr = block[b].vctr - 1
       /\ given[b].head = block[b].head \cup {v}
       /\ \A c \in Block : c # b =>
            given[c].vctr = block[c].vctr /\ given[c].head = block[c].head
       /\ \A c \in Block :
            /\ given[c].lock = block[c].lock /\ given[c].mpool = block[c].mpool
            /\ given[c].next = block[c].next /\ given[c].prev = block[c].prev
  BY <1>2 DEF BlockStruct
<1> HIDE DEF given
<1>11. aborted = FALSE
  BY DEF IInv, Typed
<1>12. CASE block[b].vctr = 1
  <2>1. b \in PoolSet(p) /\ given[b].vctr = 0
    BY <1>4, <1>6, <1>10, <1>12
  <2>2. h # b => block[b].prev \in PoolSet(p) /\ block[block[b].prev].next = b
    BY <1>8, <2>1, LinkedPrev
  <2> DEFINE g == Removed(given, h, b)
  <2>3. /\ g \in [Block -> BlockStruct]
        /\ \A c \in Block :
              /\ g[c].vctr = given[c].vctr /\ g[c].lock = given[c].lock
              /\ g[c].head = given[c].head /\ g[c].mpool = given[c].mpool
              /\ g[c].next = IF h # b /\ c = given[b].prev THEN given[b].next ELSE given[c].next
              /\ g[c].prev = IF c = given[b].next THEN given[b].prev ELSE given[c].prev
    <3>1. given \in [Block -> BlockStruct] /\ given[b].prev = block[b].prev
      BY <1>2, <1>10
    <3>2. h # b => given[b].prev \in Block
      BY <1>8, <2>2, <3>1
    <3>3. BlocksKept(Removed(given, h, b), given)
          /\ LinksRemoved(Removed(given, h, b), given, Block, h, b)
      BY <1>2, <3>1, <3>2, RemovedBlock
    <3> QED BY <3>3 DEF BlocksKept, LinksRemoved
  <2> HIDE DEF g
  <2>4. block' = [g EXCEPT ![b].lock = t]
    BY <1>9, <2>1 DEF g
  <2>5. /\ block' \in [Block -> BlockStruct]
        /\ block'[b].lock = t
        /\ \A c \in Block : c # b => block'[c].lock = g[c].lock
        /\ \A c \in Block :
              /\ block'[c].vctr = g[c].vctr /\ block'[c].head = g[c].head
              /\ block'[c].mpool = g[c].mpool
              /\ block'[c].next = g[c].next /\ block'[c].prev = g[c].prev
    BY <1>2, <2>3, <2>4 DEF BlockStruct
  <2>6. \A c \in Block :
          /\ block'[c].next = IF h # b /\ c = block[b].prev THEN block[b].next
                              ELSE block[c].next
          /\ block'[c].prev = IF c = block[b].next THEN block[b].prev ELSE block[c].prev
    BY <1>2, <1>10, <2>3, <2>5
  <2>7. /\ S_mpool_head' = [S_mpool_head EXCEPT ![p] = IF h = b THEN block[b].next ELSE h]
        /\ Goto(t, "return_superblock") /\ myVma' = [myVma EXCEPT ![t] = None]
        /\ UNCHANGED <<myBlock, mySuperblock, aborted>>
    BY <1>9, <2>1 DEF HeadWithout
  <2>8. /\ block'[b].vctr = block[b].vctr - 1
        /\ block'[b].head = block[b].head \cup {v}
        /\ \A c \in Block : c # b =>
              /\ block'[c].vctr = block[c].vctr /\ block'[c].head = block[c].head
              /\ block'[c].lock = block[c].lock
        /\ \A c \in Block : block'[c].mpool = block[c].mpool
    BY <1>2, <1>10, <2>3, <2>5
  <2> QED BY <1>1, <1>2, <1>3, <1>4, <1>5, <1>11, <1>12, <2>1, <2>2, <2>5, <2>6, <2>7, <2>8 DEF FreeDoes
<1>13. CASE block[b].vctr = BLOCK_CTR_FULL
  <2>1. given[b].vctr # 0 /\ block[b].head = {} /\ given[b].vctr = BLOCK_CTR_FULL - 1
    BY <1>4, <1>10, <1>13
  <2>2. h # b /\ h \in Block \cup {None}
    BY <1>2, <1>5, <1>7, <1>8, <1>13, NoneAssumption DEF Chain
  <2>3. /\ block' = Prepended(given, h, b)
        /\ S_mpool_head' = [S_mpool_head EXCEPT ![p] = b]
        /\ aborted' = FALSE /\ Return(t)
    BY <1>9, <2>1
  <2>4. /\ block' \in [Block -> BlockStruct]
        /\ \A c \in Block :
              /\ block'[c].vctr = given[c].vctr /\ block'[c].lock = given[c].lock
              /\ block'[c].head = given[c].head /\ block'[c].mpool = given[c].mpool
              /\ block'[c].next = IF c = b THEN h ELSE given[c].next
              /\ block'[c].prev = IF c = h THEN b ELSE given[c].prev
    <3>1. given \in [Block -> BlockStruct]
      BY <1>10
    <3>2. BlocksKept(block', given) /\ LinksPrepended(block', given, Block, h, b)
      BY <1>2, <2>2, <2>3, <3>1, PrependedBlock
    <3> QED BY <3>2 DEF BlocksKept, LinksPrepended
  <2>5. /\ block'[b].vctr = block[b].vctr - 1
        /\ block'[b].head = block[b].head \cup {v}
        /\ \A c \in Block : c # b =>
              block'[c].vctr = block[c].vctr /\ block'[c].head = block[c].head
        /\ \A c \in Block :
              block'[c].lock = block[c].lock /\ block'[c].mpool = block[c].mpool
    BY <1>2, <1>10, <2>4
  <2>6. \A c \in Block : /\ block'[c].next = IF c = b THEN h ELSE block[c].next
                         /\ block'[c].prev = IF c = h THEN b ELSE block[c].prev
    BY <1>10, <2>4
  <2>7. block'[b].lock = None
    BY <1>1, <1>2, <2>5
  <2>8. \A c \in Block : c # b =>
          /\ block'[c].vctr = block[c].vctr /\ block'[c].head = block[c].head
          /\ block'[c].lock = block[c].lock
    BY <2>5
  <2>9. \A c \in Block : block'[c].mpool = block[c].mpool
    BY <2>5
  <2> QED BY <1>1, <1>2, <1>3, <1>4, <1>5, <1>13, <2>2, <2>3, <2>4, <2>5, <2>6, <2>7, <2>8, <2>9
          DEF FreeDoes
<1>14. CASE block[b].vctr # 1 /\ block[b].vctr # BLOCK_CTR_FULL
  <2>1. given[b].vctr # 0 /\ block[b].head # {} /\ block[b].vctr \in 2 .. BLOCK_CTR_FULL - 1
    BY <1>4, <1>10, <1>14
  <2>2. block' = given /\ S_mpool_head' = S_mpool_head /\ aborted' = FALSE /\ Return(t)
    BY <1>9, <1>11, <2>1
  <2> QED BY <1>1, <1>2, <1>3, <1>4, <1>5, <1>10, <2>1, <2>2 DEF FreeDoes
<1> QED BY <1>12, <1>13, <1>14

\* The block goes to the front of its superblock's list.  It was in use, so the
\* list can be empty and the counter one only if there is no other block.
ReturnSuperblockDoes(t, b, s, h) ==
  /\ b \in Block /\ s \in mapped /\ s \in Superblock
  /\ superblock[s].lock = None
  /\ block[b].vctr = 0 /\ b \in Taken(s) /\ block[b].lock = t
  /\ superblock[s].bctr \in 1 .. SUPERBLOCK_CTR_FULL
  /\ h # b /\ h \in Untaken(s) \cup {None}
  /\ block' \in [Block -> BlockStruct]
  /\ \A c \in Block :
       /\ block'[c].vctr = block[c].vctr /\ block'[c].lock = block[c].lock
       /\ block'[c].head = block[c].head /\ block'[c].mpool = block[c].mpool
       /\ block'[c].next = IF c = b THEN h ELSE block[c].next
       /\ block'[c].prev = IF c = h THEN b ELSE block[c].prev
  /\ superblock' \in [Superblock -> SuperblockStruct]
  /\ \A x \in Superblock : x # s => superblock'[x] = superblock[x]
  /\ superblock'[s].bctr = superblock[s].bctr - 1 /\ superblock'[s].head = b
  /\ superblock'[s].next = superblock[s].next
  /\ superblock'[s].prev = superblock[s].prev
  /\ \/ /\ superblock[s].bctr = 1 /\ h # None
        /\ superblock'[s].lock = None /\ Goto(t, "put_block")
     \/ /\ superblock[s].bctr # 1 /\ h = None
        /\ superblock'[s].lock = t /\ Goto(t, "return_gpool")
     \/ /\ superblock[s].bctr # 1 /\ h # None
        /\ superblock'[s].lock = None /\ Goto(t, "return_block")

\* ReturnSuperblock does that.
LEMMA ReturnSuperblockEffect ==
  ASSUME IInv, NEW t \in Thread, ReturnSuperblock(t),
         NEW b, b = myBlock[t], NEW s, s = At(b), NEW h, h = superblock[s].head
  PROVE  ReturnSuperblockDoes(t, b, s, h)
<1>1. pc[t] = "return_superblock"
  BY DEF ReturnSuperblock, Ready
<1>2. /\ b \in Block /\ s \in mapped /\ s \in Superblock /\ block[b].vctr = 0
      /\ block[b].lock = t
      /\ block \in [Block -> BlockStruct] /\ superblock \in [Superblock -> SuperblockStruct]
      /\ BlockSuperblock(b) = s
  BY <1>1, Places DEF IInv, Typed, VmaInv, LockInv, HasBlock, HoldsBlock
<1>3. superblock[s].lock = None
  BY <1>2 DEF ReturnSuperblock
<1>4. b \in Taken(s) /\ b \notin Untaken(s)
  BY <1>1, <1>2 DEF Taken, BlocksOf, Untaken, InHand
<1>5. /\ superblock[s].bctr \in 1 .. SUPERBLOCK_CTR_FULL
      /\ superblock[s].bctr = 1 => h # None
  BY <1>2, <1>4, SuperCount, CounterAssumption
<1>6. h # b /\ h \in Untaken(s) \cup {None} /\ h \in Block \cup {None}
  <2>1. Chain(block, h, Untaken(s))
    BY <1>2 DEF IInv, SuperInv
  <2> QED BY <1>2, <1>4, <2>1, NoneAssumption DEF Chain, Untaken, BlocksOf
<1>7. /\ block' \in [Block -> BlockStruct]
      /\ \A c \in Block :
           /\ block'[c].vctr = block[c].vctr /\ block'[c].lock = block[c].lock
           /\ block'[c].head = block[c].head /\ block'[c].mpool = block[c].mpool
           /\ block'[c].next = IF c = b THEN h ELSE block[c].next
           /\ block'[c].prev = IF c = h THEN b ELSE block[c].prev
  <2>1. block' = Prepended(block, h, b)
    BY <1>2 DEF ReturnSuperblock
  <2>2. BlocksKept(block', block) /\ LinksPrepended(block', block, Block, h, b)
    BY <1>2, <1>6, <2>1, PrependedBlock
  <2> QED BY <2>2 DEF BlocksKept, LinksPrepended
<1> DEFINE given == [superblock EXCEPT ![s].head = b, ![s].bctr = @ - 1]
<1>8. /\ given \in [Superblock -> SuperblockStruct]
      /\ \A x \in Superblock : x # s => given[x] = superblock[x]
      /\ given[s].bctr = superblock[s].bctr - 1 /\ given[s].head = b
      /\ given[s].lock = superblock[s].lock /\ given[s].next = superblock[s].next
      /\ given[s].prev = superblock[s].prev
  <2>1. /\ \A x \in Superblock : x # s => given[x] = superblock[x]
        /\ given[s] = [superblock[s] EXCEPT !.head = b, !.bctr = @ - 1]
        /\ given = [x \in Superblock |-> given[x]] /\ superblock[s] \in SuperblockStruct
    BY <1>2
  <2> HIDE DEF given
  <2>2. /\ given[s] \in SuperblockStruct
        /\ given[s].bctr = superblock[s].bctr - 1 /\ given[s].head = b
        /\ given[s].lock = superblock[s].lock /\ given[s].next = superblock[s].next
        /\ given[s].prev = superblock[s].prev
    <3>1. b \in Block
      BY <1>2
    <3> DEFINE r == superblock[s]
    <3>2. r \in SuperblockStruct /\ given[s] = [r EXCEPT !.head = b, !.bctr = r.bctr - 1]
      BY <2>1
    <3> HIDE DEF r
    <3>3. [r EXCEPT !.head = b, !.bctr = r.bctr - 1] =
            [bctr |-> r.bctr - 1, lock |-> r.lock, head |-> b, prev |-> r.prev,
             next |-> r.next]
      BY <3>2 DEF SuperblockStruct
    <3>4. /\ given[s] \in SuperblockStruct
          /\ given[s].bctr = r.bctr - 1 /\ given[s].head = b
          /\ given[s].lock = r.lock /\ given[s].next = r.next /\ given[s].prev = r.prev
      BY <3>1, <3>2, <3>3 DEF SuperblockStruct
    <3> QED BY <3>4 DEF r
  <2> QED BY <1>2, <2>1, <2>2
<1>9. \/ given[s].bctr = 0 /\ superblock' = given /\ Goto(t, "put_block")
      \/ /\ given[s].bctr # 0 /\ h = None
         /\ superblock' = [given EXCEPT ![s].lock = t] /\ Goto(t, "return_gpool")
      \/ /\ given[s].bctr # 0 /\ h # None
         /\ superblock' = given /\ Goto(t, "return_block")
  BY <1>2 DEF ReturnSuperblock
<1> HIDE DEF given
<1>10. given[s].bctr = 0 <=> superblock[s].bctr = 1
  BY <1>5, <1>8
<1>11. CASE given[s].bctr = 0 /\ superblock' = given /\ Goto(t, "put_block")
  BY <1>2, <1>3, <1>4, <1>5, <1>6, <1>7, <1>8, <1>10, <1>11 DEF ReturnSuperblockDoes
<1>12. CASE /\ given[s].bctr # 0 /\ h = None
            /\ superblock' = [given EXCEPT ![s].lock = t] /\ Goto(t, "return_gpool")
  <2>1. /\ superblock' \in [Superblock -> SuperblockStruct]
        /\ \A x \in Superblock : x # s => superblock'[x] = given[x]
        /\ superblock'[s].bctr = given[s].bctr /\ superblock'[s].head = given[s].head
        /\ superblock'[s].next = given[s].next /\ superblock'[s].prev = given[s].prev
        /\ superblock'[s].lock = t
    BY <1>2, <1>8, <1>12 DEF SuperblockStruct
  <2> QED BY <1>2, <1>3, <1>4, <1>5, <1>6, <1>7, <1>8, <1>10, <1>12, <2>1 DEF ReturnSuperblockDoes
<1>13. CASE given[s].bctr # 0 /\ h # None /\ superblock' = given /\ Goto(t, "return_block")
  BY <1>2, <1>3, <1>4, <1>5, <1>6, <1>7, <1>8, <1>10, <1>13 DEF ReturnSuperblockDoes
<1> QED BY <1>9, <1>11, <1>12, <1>13

\* The superblock, with its one block, goes to the front of S_gpool's list.
ReturnGpoolDoes(t, b, s) ==
  /\ b \in Block /\ s \in mapped /\ s \in Superblock
  /\ superblock[s].lock = t /\ superblock[s].head = b /\ Untaken(s) = {b}
  /\ s \notin AvailSet /\ s # S_gpool_head
  /\ superblock' \in [Superblock -> SuperblockStruct]
  /\ \A x \in Superblock :
       /\ superblock'[x].bctr = superblock[x].bctr
       /\ superblock'[x].lock = IF x = s THEN None ELSE superblock[x].lock
       /\ superblock'[x].head = superblock[x].head
       /\ superblock'[x].next = IF x = s THEN S_gpool_head ELSE superblock[x].next
       /\ superblock'[x].prev = IF x = S_gpool_head THEN s ELSE superblock[x].prev
  /\ aborted' = FALSE

\* ReturnGpool does that.
LEMMA ReturnGpoolEffect ==
  ASSUME IInv, NEW t \in Thread, ReturnGpool(t),
         NEW b, b = myBlock[t], NEW s, s = At(b)
  PROVE  ReturnGpoolDoes(t, b, s)
<1>1. pc[t] = "return_gpool"
  BY DEF ReturnGpool, Ready
<1>2. /\ b \in Block /\ s \in mapped /\ s \in Superblock
      /\ superblock \in [Superblock -> SuperblockStruct]
      /\ S_gpool_head \in Superblock \cup {None}
      /\ superblock[s].lock = t /\ Untaken(s) = {b} /\ BlockSuperblock(b) = s
  BY <1>1, Places DEF IInv, Typed, SuperInv, LockInv, HasBlock, HoldsBlock
<1>3. superblock[s].head = b
  BY <1>2 DEF IInv, SuperInv, Chain
<1>4. s \notin AvailSet
  BY <1>1 DEF AvailSet, Leaving
<1>5. s # S_gpool_head
  BY <1>2, <1>4, NoneAssumption DEF IInv, GpoolInv, Chain
<1>6. /\ superblock' = [Prepended(superblock, S_gpool_head, s) EXCEPT ![s].lock = None]
      /\ aborted' = (superblock[s].bctr # SUPERBLOCK_CTR_FULL - 1)
  BY <1>2 DEF ReturnGpool
<1> DEFINE g == Prepended(superblock, S_gpool_head, s)
<1>7. /\ g \in [Superblock -> SuperblockStruct]
      /\ \A x \in Superblock :
              /\ g[x].bctr = superblock[x].bctr /\ g[x].lock = superblock[x].lock
              /\ g[x].head = superblock[x].head
              /\ g[x].next = IF x = s THEN S_gpool_head ELSE superblock[x].next
              /\ g[x].prev = IF x = S_gpool_head THEN s ELSE superblock[x].prev
  <2>1. /\ SuperblocksKept(g, superblock)
        /\ LinksPrepended(g, superblock, Superblock, S_gpool_head, s)
    BY <1>2, <1>5, PrependedSuperblock
  <2> QED BY <2>1 DEF SuperblocksKept, LinksPrepended
<1> HIDE DEF g
<1>8. superblock' = [g EXCEPT ![s].lock = None]
  BY <1>6 DEF g
<1>9. /\ superblock' \in [Superblock -> SuperblockStruct]
      /\ \A x \in Superblock :
              /\ superblock'[x].bctr = superblock[x].bctr
              /\ superblock'[x].lock = IF x = s THEN None ELSE superblock[x].lock
              /\ superblock'[x].head = superblock[x].head
              /\ superblock'[x].next = IF x = s THEN S_gpool_head ELSE superblock[x].next
              /\ superblock'[x].prev = IF x = S_gpool_head THEN s ELSE superblock[x].prev
  BY <1>2, <1>7, <1>8 DEF SuperblockStruct
<1>10. superblock[s].bctr = SUPERBLOCK_CTR_FULL - 1
  BY <1>2, SuperCount, FS_Singleton
<1> QED BY <1>2, <1>3, <1>4, <1>5, <1>6, <1>9, <1>10 DEF ReturnGpoolDoes

\* A superblock to be given back is still on S_gpool's list, wherever.
PutGpoolDoes(t, s) ==
  /\ s \in AvailSet /\ s \in Superblock /\ mode = "serial"
  /\ s # S_gpool_head => /\ superblock[s].prev \in AvailSet
                         /\ superblock[superblock[s].prev].next = s
  /\ superblock' \in [Superblock -> SuperblockStruct]
  /\ \A x \in Superblock :
       /\ superblock'[x].bctr = superblock[x].bctr
       /\ superblock'[x].lock = superblock[x].lock
       /\ superblock'[x].head = superblock[x].head
       /\ superblock'[x].next =
            IF S_gpool_head # s /\ x = superblock[s].prev
              THEN superblock[s].next ELSE superblock[x].next
       /\ superblock'[x].prev =
            IF x = superblock[s].next THEN superblock[s].prev
            ELSE superblock[x].prev
  /\ S_gpool_head' = IF S_gpool_head = s THEN superblock[s].next ELSE S_gpool_head

\* PutGpool does that.
LEMMA PutGpoolEffect ==
  ASSUME IInv, NEW t \in Thread, PutGpool(t), NEW s, s = mySuperblock[t]
  PROVE  PutGpoolDoes(t, s)
<1>1. pc[t] = "put_gpool"
  BY DEF PutGpool, Ready
<1>2. mode = "serial" /\ s \in mapped /\ s \in Superblock /\ Taken(s) = {}
      /\ superblock \in [Superblock -> SuperblockStruct]
  BY <1>1 DEF IInv, Discipline, Typed, SuperInv, PutPc, HasSuper, With
<1>3. ~Leaving(s)
  <2>1. \A u \in Thread : pc[u] # "idle" => u = t
    BY <1>1, <1>2 DEF IInv, Discipline
  <2> QED BY <1>1, <2>1 DEF Leaving
<1>4. superblock[s].head # None
  BY <1>2, SuperCount, CounterAssumption
<1>5. s \in AvailSet
  BY <1>2, <1>3, <1>4 DEF AvailSet
<1>6. /\ Chain(superblock, S_gpool_head, AvailSet) /\ LinkedBack(superblock, AvailSet)
      /\ AvailSet \subseteq Superblock /\ None \notin AvailSet
  BY NoneAssumption DEF IInv, GpoolInv, Typed, AvailSet
<1>7. s # S_gpool_head => superblock[s].prev \in AvailSet /\ superblock[superblock[s].prev].next = s
  BY <1>5, <1>6, LinkedPrev
<1>8. /\ superblock' = Removed(superblock, S_gpool_head, s)
      /\ S_gpool_head' = HeadWithout(superblock, S_gpool_head, s)
  BY DEF PutGpool
<1>9. /\ superblock' \in [Superblock -> SuperblockStruct]
      /\ \A x \in Superblock :
           /\ superblock'[x].bctr = superblock[x].bctr
           /\ superblock'[x].lock = superblock[x].lock
           /\ superblock'[x].head = superblock[x].head
           /\ superblock'[x].next =
                IF S_gpool_head # s /\ x = superblock[s].prev
                  THEN superblock[s].next ELSE superblock[x].next
           /\ superblock'[x].prev =
                IF x = superblock[s].next THEN superblock[s].prev ELSE superblock[x].prev
  <2>1. S_gpool_head # s => superblock[s].prev \in Superblock
    BY <1>6, <1>7
  <2>2. /\ SuperblocksKept(superblock', superblock)
        /\ LinksRemoved(superblock', superblock, Superblock, S_gpool_head, s)
    BY <1>2, <1>8, <2>1, RemovedSuperblock
  <2> QED BY <2>2 DEF SuperblocksKept, LinksRemoved
<1> QED BY <1>2, <1>5, <1>7, <1>8, <1>9 DEF HeadWithout, PutGpoolDoes
=============================================================================
