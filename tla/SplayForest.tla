----------------------------- MODULE SplayForest -----------------------------
(***************************************************************************)
(* What the pointer macros and the loop of the splay of SplayTree do to    *)
(* search trees and to ordered lists of any size.  A tree is described by  *)
(* the set of nodes below each of its nodes, not by a walk along pointers; *)
(* that the walk finds the same nodes is lemma ReachIs.                    *)
(***************************************************************************)
EXTENDS SplayTree, FiniteSetTheorems, TLAPS

-----------------------------------------------------------------------------
(* Sides *)

\* Address a is on side w of address b.
On(w, a, b) == IF w = "sp_l" THEN a < b ELSE b < a

\* The sides are two strict orders, each the reverse of the other.
LEMMA OnOrder ==
  /\ \A w \in Side : Other(w) \in Side /\ Other(w) # w /\ Other(Other(w)) = w
  /\ \A w \in Side, a \in Nat : ~On(w, a, a)
  /\ \A w \in Side, a, b, c \in Nat : On(w, a, b) /\ On(w, b, c) => On(w, a, c)
  /\ \A w \in Side, a, b \in Nat : On(w, a, b) <=> On(Other(w), b, a)
  /\ \A w \in Side, a, b \in Nat : a = b \/ On(w, a, b) \/ On(Other(w), a, b)
  /\ \A w, v \in Side : v = w \/ v = Other(w)
BY DEF On, Other, Side

\* What is on one side is not on the other.
LEMMA OnApart ==
  ASSUME NEW w \in Side, NEW v \in Side, NEW a \in Nat, NEW b \in Nat,
         On(w, a, b), On(v, a, b)
  PROVE  w = v
BY DEF On, Side

-----------------------------------------------------------------------------
(* Trees *)

\* The nodes at and below n, which may be NULL
Under(D, n) == IF n = Null THEN {} ELSE D[n]

\* S is a set of nodes with search trees below them: D gives the nodes below
\* each, itself among them.
Tree(h, S, D) ==
  /\ D \in [S -> SUBSET S]
  /\ \A n \in S : h.vm_start[n] \in Nat
  /\ \A n \in S, w \in Side : h[w][n] \in S \cup {Null}
  /\ \A n \in S, m \in S :
       m \in D[n] <=> m = n \/ \E w \in Side : m \in Under(D, h[w][n])
  /\ \A n \in S, w \in Side : \A m \in Under(D, h[w][n]) :
       On(w, h.vm_start[m], h.vm_start[n])
  /\ \A n \in S : \A m \in D[n] : D[m] \subseteq D[n]
  /\ \A n \in S : \A m \in D[n] :
       m = n \/ \E a \in D[n], w \in Side : h[w][a] = m

\* No node but itself is above z.
Alone(S, D, z) == \A x \in S : z \in D[x] => x = z

\* The simple consequences of the definition.
LEMMA TreeFacts ==
  ASSUME NEW h, NEW S, NEW D, Tree(h, S, D), Null \notin S
  PROVE  /\ \A n \in S : n \in D[n] /\ D[n] \subseteq S
         /\ \A n \in S \cup {Null} : Under(D, n) \subseteq S
         /\ \A n \in S, w \in Side :
              /\ h[w][n] \in S \cup {Null}
              /\ h[w][n] # Null => h[w][n] \in D[n]
              /\ Under(D, h[w][n]) \subseteq D[n]
              /\ n \notin Under(D, h[w][n])
         /\ \A n \in S, m \in S : n \in D[m] /\ m \in D[n] => m = n
<1>1. \A n \in S : n \in D[n] /\ D[n] \subseteq S
  BY DEF Tree
<1>2. \A n \in S \cup {Null} : Under(D, n) \subseteq S
  BY <1>1 DEF Under
<1>3. ASSUME NEW n \in S, NEW w \in Side
      PROVE  /\ h[w][n] \in S \cup {Null}
             /\ h[w][n] # Null => h[w][n] \in D[n]
             /\ Under(D, h[w][n]) \subseteq D[n]
             /\ n \notin Under(D, h[w][n])
  <2>1. h[w][n] \in S \cup {Null}
    BY DEF Tree
  <2>2. Under(D, h[w][n]) \subseteq D[n]
    BY <2>1, <1>2 DEF Tree
  <2>3. h[w][n] # Null => h[w][n] \in Under(D, h[w][n])
    BY <2>1, <1>1 DEF Under
  <2>4. n \in Under(D, h[w][n]) => On(w, h.vm_start[n], h.vm_start[n])
    BY DEF Tree
  <2>5. h.vm_start[n] \in Nat
    BY DEF Tree
  <2> QED BY <2>1, <2>2, <2>3, <2>4, <2>5, OnOrder
<1>4. ASSUME NEW n \in S, NEW m \in S, n \in D[m], m \in D[n], m # n
      PROVE  FALSE
  <2>1. PICK w \in Side : m \in Under(D, h[w][n])
    BY <1>4 DEF Tree
  <2>2. h[w][n] \in S /\ D[m] \subseteq Under(D, h[w][n])
    BY <2>1 DEF Tree, Under
  <2> QED BY <1>4, <2>2, <1>3
<1> QED BY <1>1, <1>2, <1>3, <1>4

\* What is under a node that is not NULL
LEMMA UnderNode ==
  ASSUME NEW h, NEW S, NEW D, Tree(h, S, D), Null \notin S
  PROVE  \A n \in S : Under(D, n) = D[n] /\ n \in Under(D, n)
BY TreeFacts DEF Under

\* Only the pointers to children matter to a tree, and the order of the keys.
LEMMA TreeSame ==
  ASSUME NEW h, NEW g, NEW S, NEW D, Tree(h, S, D), Null \notin S,
         \A n \in S, w \in Side : g[w][n] = h[w][n],
         \A n \in S : g.vm_start[n] \in Nat,
         \A m, n \in S : h.vm_start[m] < h.vm_start[n] =>
                           g.vm_start[m] < g.vm_start[n]
  PROVE  Tree(g, S, D)
<1>1. ASSUME NEW n \in S, NEW w \in Side, NEW m \in Under(D, g[w][n])
      PROVE  On(w, g.vm_start[m], g.vm_start[n])
  <2>1. m \in Under(D, h[w][n]) /\ On(w, h.vm_start[m], h.vm_start[n])
    BY <1>1 DEF Tree
  <2>2. m \in S
    BY <2>1, TreeFacts
  <2> QED BY <2>1, <2>2 DEF On
<1> QED BY <1>1 DEF Tree

\* The nodes below n form a tree of their own.
LEMMA TreeBelow ==
  ASSUME NEW h, NEW S, NEW D, Tree(h, S, D), Null \notin S, NEW n \in S \cup {Null}
  PROVE  Tree(h, Under(D, n), [x \in Under(D, n) |-> D[x]])
<1> DEFINE T == Under(D, n)
           E == [x \in T |-> D[x]]
<1>1. T \subseteq S /\ \A x \in T : D[x] \subseteq T
  BY TreeFacts DEF Under, Tree
<1>2. \A x \in T : E[x] = D[x]
  OBVIOUS
<1>3. E \in [T -> SUBSET T]
  BY <1>1
<1> HIDE DEF T, E
<1>4. ASSUME NEW x \in T, NEW w \in Side
      PROVE  h[w][x] \in T \cup {Null} /\ Under(E, h[w][x]) = Under(D, h[w][x])
  <2>1. h[w][x] # Null => h[w][x] \in D[x]
    BY <1>1, TreeFacts
  <2> QED BY <1>1, <1>2, <2>1 DEF Under
<1>5. \A x \in T, m \in T :
        m \in E[x] <=> m = x \/ \E w \in Side : m \in Under(E, h[w][x])
  BY <1>1, <1>2, <1>4 DEF Tree
<1>6. \A x \in T, w \in Side : \A m \in Under(E, h[w][x]) :
        On(w, h.vm_start[m], h.vm_start[x])
  BY <1>1, <1>4 DEF Tree
<1>7. \A x \in T : \A m \in E[x] : E[m] \subseteq E[x]
  BY <1>1, <1>2 DEF Tree
<1>8. \A x \in T : \A m \in E[x] :
        m = x \/ \E a \in E[x], w \in Side : h[w][a] = m
  BY <1>1, <1>2 DEF Tree
<1>9. \A x \in T : h.vm_start[x] \in Nat
  BY <1>1 DEF Tree
<1> QED BY <1>3, <1>4, <1>5, <1>6, <1>7, <1>8, <1>9 DEF Tree, T, E

\* Two trees side by side
LEMMA TreeBoth ==
  ASSUME NEW h, NEW S, NEW D, Tree(h, S, D), NEW R, NEW E, Tree(h, R, E),
         S \cap R = {}, Null \notin S, Null \notin R
  PROVE  LET C == [x \in S \cup R |-> IF x \in S THEN D[x] ELSE E[x]]
         IN  /\ Tree(h, S \cup R, C)
             /\ \A x \in S : C[x] = D[x]
             /\ \A x \in R : C[x] = E[x]
<1> DEFINE T == S \cup R
           C == [x \in T |-> IF x \in S THEN D[x] ELSE E[x]]
<1>1. /\ \A x \in S : C[x] = D[x] /\ D[x] \subseteq S
      /\ \A x \in R : C[x] = E[x] /\ E[x] \subseteq R
  BY DEF Tree
<1>2. C \in [T -> SUBSET T]
  BY <1>1
<1> HIDE DEF C
<1>3. \A x \in S, w \in Side :
        h[w][x] \in S \cup {Null} /\ Under(C, h[w][x]) = Under(D, h[w][x])
  BY <1>1 DEF Tree, Under
<1>4. \A x \in R, w \in Side :
        h[w][x] \in R \cup {Null} /\ Under(C, h[w][x]) = Under(E, h[w][x])
  BY <1>1 DEF Tree, Under
<1>5. \A x \in T, m \in T :
        m \in C[x] <=> m = x \/ \E w \in Side : m \in Under(C, h[w][x])
  <2>1. ASSUME NEW x \in S, NEW m \in T
        PROVE  m \in C[x] <=> m = x \/ \E w \in Side : m \in Under(C, h[w][x])
    <3>1. CASE m \in S
      BY <3>1, <1>1, <1>3 DEF Tree
    <3>2. CASE m \notin S
      <4>1. \A w \in Side : Under(D, h[w][x]) \subseteq S
        BY TreeFacts
      <4> QED BY <3>2, <4>1, <1>1, <1>3
    <3> QED BY <3>1, <3>2
  <2>2. ASSUME NEW x \in R, NEW m \in T
        PROVE  m \in C[x] <=> m = x \/ \E w \in Side : m \in Under(C, h[w][x])
    <3>1. CASE m \in R
      BY <3>1, <1>1, <1>4 DEF Tree
    <3>2. CASE m \notin R
      <4>1. \A w \in Side : Under(E, h[w][x]) \subseteq R
        BY TreeFacts
      <4> QED BY <3>2, <4>1, <1>1, <1>4
    <3> QED BY <3>1, <3>2
  <2> QED BY <2>1, <2>2
<1>6. \A x \in T, w \in Side : \A m \in Under(C, h[w][x]) :
        On(w, h.vm_start[m], h.vm_start[x])
  BY <1>3, <1>4 DEF Tree
<1>7. \A x \in T : \A m \in C[x] : C[m] \subseteq C[x]
  BY <1>1 DEF Tree
<1>8. \A x \in T : \A m \in C[x] :
        m = x \/ \E a \in C[x], w \in Side : h[w][a] = m
  BY <1>1 DEF Tree
<1>9. \A x \in T : h.vm_start[x] \in Nat
  BY DEF Tree
<1>10. \A x \in T, w \in Side : h[w][x] \in T \cup {Null}
  BY <1>3, <1>4
<1>11. Tree(h, T, C)
  BY <1>2, <1>5, <1>6, <1>7, <1>8, <1>9, <1>10 DEF Tree
<1> QED BY <1>1, <1>11 DEF C

\* What is below each node once z has the children l and r
Mounted(D, S, z, l, r) ==
  [x \in S \cup {z} |-> IF x = z THEN {z} \cup Under(D, l) \cup Under(D, r)
                                 ELSE D[x]]

\* A node z, new or with none above it, gets two subtrees.
LEMMA TreeMount ==
  ASSUME NEW h, NEW g, NEW S, NEW D, Tree(h, S, D), Null \notin S,
         NEW z, z # Null, Alone(S, D, z),
         NEW l \in (S \cup {Null}) \ {z}, NEW r \in (S \cup {Null}) \ {z},
         g.sp_l[z] = l, g.sp_r[z] = r, g.vm_start[z] \in Nat,
         \A n \in S \ {z} : g.vm_start[n] = h.vm_start[n],
         \A n \in S \ {z}, w \in Side : g[w][n] = h[w][n],
         \A m \in Under(D, l) : g.vm_start[m] < g.vm_start[z],
         \A m \in Under(D, r) : g.vm_start[z] < g.vm_start[m]
  PROVE  Tree(g, S \cup {z}, Mounted(D, S, z, l, r))
<1> DEFINE T == S \cup {z}
           L == Under(D, l)
           R == Under(D, r)
           E == Mounted(D, S, z, l, r)
<1>1. L \subseteq S \ {z} /\ R \subseteq S \ {z}
  BY TreeFacts DEF Under, Alone
<1>2. E[z] = {z} \cup L \cup R /\ \A x \in S \ {z} : E[x] = D[x]
  BY DEF Mounted
<1>3. \A x \in S \ {z} : D[x] \subseteq S \ {z}
  BY TreeFacts DEF Alone
<1>4. E \in [T -> SUBSET T]
  BY <1>1, <1>2, <1>3 DEF Mounted
<1> HIDE DEF E
<1>5. ASSUME NEW x \in S \ {z}, NEW w \in Side
      PROVE  /\ g[w][x] = h[w][x]
             /\ g[w][x] \in (S \ {z}) \cup {Null}
             /\ Under(E, g[w][x]) = Under(D, h[w][x])
  BY <1>2, <1>3, TreeFacts DEF Under
<1>6. Under(E, l) = L /\ Under(E, r) = R
  BY <1>2 DEF Under
<1>7. ASSUME NEW x \in T, NEW m \in T
      PROVE  m \in E[x] <=> m = x \/ \E w \in Side : m \in Under(E, g[w][x])
  <2>1. CASE x = z
    BY <2>1, <1>2, <1>6 DEF Side
  <2>2. CASE x # z
    <3>1. \A w \in Side : Under(E, g[w][x]) = Under(D, h[w][x])
      BY <2>2, <1>5
    <3>2. CASE m \in S
      BY <2>2, <3>1, <3>2, <1>2 DEF Tree
    <3>3. CASE m \notin S
      BY <2>2, <3>1, <3>3, <1>2, TreeFacts
    <3> QED BY <3>2, <3>3
  <2> QED BY <2>1, <2>2
<1>8. ASSUME NEW x \in T, NEW w \in Side, NEW m \in Under(E, g[w][x])
      PROVE  On(w, g.vm_start[m], g.vm_start[x])
  <2>1. CASE x = z
    BY <2>1, <1>6, <1>8 DEF Side, On
  <2>2. CASE x # z
    <3>1. m \in Under(D, h[w][x]) /\ m \in S \ {z}
      BY <2>2, <1>5, <1>8, <1>3, TreeFacts
    <3> QED BY <2>2, <3>1 DEF Tree
  <2> QED BY <2>1, <2>2
<1>9. ASSUME NEW x \in T, NEW m \in E[x] PROVE E[m] \subseteq E[x]
  <2>1. CASE x = z
    <3>1. CASE m = z
      BY <2>1, <3>1
    <3>2. CASE m # z
      <4>1. m \in L \/ m \in R
        BY <2>1, <3>2, <1>2, <1>9
      <4>2. m \in S \ {z} /\ (D[m] \subseteq L \/ D[m] \subseteq R)
        BY <4>1, <1>1 DEF Under, Tree
      <4> QED BY <2>1, <4>2, <1>2
    <3> QED BY <3>1, <3>2
  <2>2. CASE x # z
    BY <2>2, <1>2, <1>3, <1>9 DEF Tree
  <2> QED BY <2>1, <2>2
<1>10. ASSUME NEW x \in T, NEW m \in E[x], m # x
       PROVE  \E a \in E[x], w \in Side : g[w][a] = m
  <2>1. CASE x = z
    <3>1. CASE m = l \/ m = r
      BY <2>1, <3>1, <1>2 DEF Side
    <3>2. CASE m # l /\ m # r
      <4>1. PICK c \in {l, r} : c # Null /\ m \in D[c]
        BY <2>1, <1>2, <1>10 DEF Under
      <4>2. PICK a \in D[c], w \in Side : h[w][a] = m
        BY <3>2, <4>1 DEF Tree
      <4>3. a \in E[x] /\ g[w][a] = m
        BY <2>1, <1>1, <1>2, <4>1, <4>2 DEF Under
      <4> QED BY <4>3
    <3> QED BY <3>1, <3>2
  <2>2. CASE x # z
    <3>1. PICK a \in D[x], w \in Side : h[w][a] = m
      BY <2>2, <1>2, <1>10 DEF Tree
    <3> QED BY <2>2, <3>1, <1>2, <1>3
  <2> QED BY <2>1, <2>2
<1>11. \A x \in T : g.vm_start[x] \in Nat
  BY DEF Tree
<1>12. \A x \in T, w \in Side : g[w][x] \in T \cup {Null}
  BY <1>5 DEF Side
<1> QED BY <1>4, <1>7, <1>8, <1>9, <1>10, <1>11, <1>12 DEF Tree, E

\* What is below each node once b hangs below a
Hung(D, S, a, b) ==
  [x \in S |-> IF a \in D[x] THEN D[x] \cup D[b] ELSE D[x]]

\* The subtree of b becomes the child, on side w, of node a that is the last on
\* that side of every node above it.
LEMMA TreeHang ==
  ASSUME NEW h, NEW g, NEW S, NEW D, Tree(h, S, D), Null \notin S,
         NEW a \in S, NEW b \in S, NEW w \in Side, h[w][a] = Null, a \notin D[b],
         g[w][a] = b,
         \A n \in S : g.vm_start[n] = h.vm_start[n],
         \A n \in S, v \in Side : n # a \/ v # w => g[v][n] = h[v][n],
         \A x \in S : a \in D[x] => x = a \/ On(w, h.vm_start[a], h.vm_start[x]),
         \A x \in S : a \in D[x] => \A m \in D[b] :
                                       On(w, h.vm_start[m], h.vm_start[x])
  PROVE  Tree(g, S, Hung(D, S, a, b))
<1> DEFINE E == Hung(D, S, a, b)
<1>1. \A x \in S : E[x] = IF a \in D[x] THEN D[x] \cup D[b] ELSE D[x]
  BY DEF Hung
<1>2. E \in [S -> SUBSET S]
  BY TreeFacts DEF Hung
<1> HIDE DEF E
<1>3. \A x \in D[b] : x \in S /\ a \notin D[x] /\ E[x] = D[x] /\ D[x] \subseteq D[b]
  <2>1. \A x \in D[b] : x \in S /\ D[x] \subseteq D[b]
    BY TreeFacts DEF Tree
  <2> QED BY <2>1, <1>1
<1>4. ASSUME NEW x \in S, NEW v \in Side, x # a \/ v # w
      PROVE  /\ g[v][x] = h[v][x]
             /\ Under(E, g[v][x]) = IF a \in Under(D, h[v][x])
                                      THEN Under(D, h[v][x]) \cup D[b]
                                      ELSE Under(D, h[v][x])
  <2>1. g[v][x] = h[v][x] /\ h[v][x] \in S \cup {Null}
    BY <1>4, TreeFacts
  <2> QED BY <2>1, <1>1 DEF Under
<1>5. Under(E, g[w][a]) = D[b]
  BY <1>1, TreeFacts DEF Under
<1>6. ASSUME NEW x \in S, NEW m \in S
      PROVE  m \in E[x] <=> m = x \/ \E v \in Side : m \in Under(E, g[v][x])
  <2>1. CASE x = a
    <3>1. \A v \in Side : v # w => Under(E, g[v][a]) = Under(D, h[v][a])
      <4>1. \A v \in Side : a \notin Under(D, h[v][a])
        BY TreeFacts
      <4> QED BY <4>1, <1>4
    <3>2. m \in D[a] <=> m = a \/ \E v \in Side : v # w /\ m \in Under(D, h[v][a])
      <4>1. Under(D, h[w][a]) = {}
        BY DEF Under
      <4>2. m \in D[a] <=> m = a \/ \E v \in Side : m \in Under(D, h[v][a])
        BY DEF Tree
      <4>3. \A v \in Side : m \in Under(D, h[v][a]) => v # w
        BY <4>1
      <4> QED BY <4>2, <4>3
    <3>3. E[a] = D[a] \cup D[b]
      <4>1. a \in D[a]
        BY TreeFacts
      <4> QED BY <4>1, <1>1
    <3>4. (\E v \in Side : m \in Under(E, g[v][a]))
            <=> m \in D[b] \/ \E v \in Side : v # w /\ m \in Under(D, h[v][a])
      BY <3>1, <1>5
    <3> QED BY <2>1, <3>2, <3>3, <3>4
  <2>2. CASE x # a
    <3>1. m \in D[x] <=> m = x \/ \E v \in Side : m \in Under(D, h[v][x])
      BY DEF Tree
    <3>2. a \in D[x] <=> \E v \in Side : a \in Under(D, h[v][x])
      BY <2>2 DEF Tree
    <3>3. \A v \in Side :
            m \in Under(E, g[v][x])
              <=> \/ m \in Under(D, h[v][x])
                  \/ m \in D[b] /\ a \in Under(D, h[v][x])
      <4> SUFFICES ASSUME NEW v \in Side
                   PROVE  m \in Under(E, g[v][x])
                            <=> \/ m \in Under(D, h[v][x])
                                \/ m \in D[b] /\ a \in Under(D, h[v][x])
        OBVIOUS
      <4>1. Under(E, g[v][x]) = IF a \in Under(D, h[v][x])
                                  THEN Under(D, h[v][x]) \cup D[b]
                                  ELSE Under(D, h[v][x])
        BY <2>2, <1>4
      <4> QED BY <4>1
    <3>4. (\E v \in Side : m \in Under(E, g[v][x]))
            <=> \/ \E v \in Side : m \in Under(D, h[v][x])
                \/ m \in D[b] /\ \E v \in Side : a \in Under(D, h[v][x])
      BY <3>3
    <3>5. m \in E[x] <=> m \in D[x] \/ (m \in D[b] /\ a \in D[x])
      <4>1. E[x] = IF a \in D[x] THEN D[x] \cup D[b] ELSE D[x]
        BY <1>1
      <4> QED BY <4>1
    <3> QED BY <3>1, <3>2, <3>4, <3>5
  <2> QED BY <2>1, <2>2
<1>7. ASSUME NEW x \in S, NEW v \in Side, NEW m \in Under(E, g[v][x])
      PROVE  On(v, g.vm_start[m], g.vm_start[x])
  <2>1. CASE x = a /\ v = w
    <3>1. m \in D[b] /\ m \in S /\ a \in D[a]
      BY <2>1, <1>3, <1>5, <1>7, TreeFacts
    <3> QED BY <2>1, <3>1
  <2>2. CASE x # a \/ v # w
    <3>1. CASE m \in Under(D, h[v][x])
      <4>1. m \in S
        BY <3>1, TreeFacts
      <4>2. On(v, h.vm_start[m], h.vm_start[x])
        BY <3>1 DEF Tree
      <4> QED BY <4>1, <4>2
    <3>2. CASE m \notin Under(D, h[v][x])
      <4>1. m \in D[b] /\ a \in Under(D, h[v][x])
        BY <2>2, <3>2, <1>4, <1>7
      <4>2. a \in D[x] /\ On(v, h.vm_start[a], h.vm_start[x]) /\ m \in S
        BY <4>1, <1>3, TreeFacts DEF Tree
      <4>3. x # a
        BY <4>1, TreeFacts
      <4>4. On(w, h.vm_start[a], h.vm_start[x]) /\ On(w, h.vm_start[m], h.vm_start[x])
        BY <4>1, <4>2, <4>3
      <4>5. h.vm_start[a] \in Nat /\ h.vm_start[x] \in Nat
        BY DEF Tree
      <4>6. v = w
        BY <4>2, <4>4, <4>5, OnApart
      <4> QED BY <4>2, <4>4, <4>6
    <3> QED BY <3>1, <3>2
  <2> QED BY <2>1, <2>2
<1>8. ASSUME NEW x \in S, NEW m \in E[x] PROVE E[m] \subseteq E[x]
  <2>1. CASE m \in D[x]
    <3>1. m \in S /\ D[m] \subseteq D[x]
      BY <2>1, TreeFacts DEF Tree
    <3> QED BY <1>1, <3>1
  <2>2. CASE m \notin D[x]
    BY <2>2, <1>1, <1>3, <1>8
  <2> QED BY <2>1, <2>2
<1>9. ASSUME NEW x \in S, NEW m \in E[x], m # x
      PROVE  \E c \in E[x], v \in Side : g[v][c] = m
  <2>1. \A y \in S : \A n \in D[y] : n # y => \E c \in D[y], v \in Side : g[v][c] = n
    <3> SUFFICES ASSUME NEW y \in S, NEW n \in D[y], n # y
                 PROVE  \E c \in D[y], v \in Side : g[v][c] = n
      OBVIOUS
    <3>1. PICK c \in D[y], v \in Side : h[v][c] = n
      BY DEF Tree
    <3>2. n # Null /\ c \in S
      BY TreeFacts
    <3> QED BY <3>1, <3>2
  <2>2. CASE m \in D[x]
    <3>1. D[x] \subseteq E[x]
      BY <1>1
    <3>2. \E c \in D[x], v \in Side : g[v][c] = m
      BY <2>1, <2>2, <1>9
    <3> QED BY <3>1, <3>2
  <2>3. CASE m \notin D[x]
    <3>1. a \in D[x] /\ m \in D[b] /\ D[b] \subseteq E[x] /\ D[x] \subseteq E[x]
      BY <2>3, <1>1, <1>9
    <3>2. CASE m = b
      BY <3>1, <3>2
    <3>3. CASE m # b
      BY <2>1, <3>1, <3>3
    <3> QED BY <3>2, <3>3
  <2> QED BY <2>2, <2>3
<1>10. \A x \in S : g.vm_start[x] \in Nat
  BY DEF Tree
<1>11. \A x \in S, v \in Side : g[v][x] \in S \cup {Null}
  BY DEF Tree
<1> QED BY <1>2, <1>6, <1>7, <1>8, <1>9, <1>10, <1>11 DEF Tree, E

\* Of the nodes S and z, z alone differs in g from h: it has child c on side w
\* and b on the other.
Put(g, h, S, z, w, c, b) ==
  /\ g[w][z] = c
  /\ g[Other(w)][z] = b
  /\ g.vm_start[z] \in Nat
  /\ \A n \in S \ {z} : g.vm_start[n] = h.vm_start[n]
  /\ \A n \in S \ {z}, v \in Side : g[v][n] = h[v][n]

\* What is below the nodes then
Below(E, g, S, D, z, c, b) ==
  /\ Tree(g, S \cup {z}, E)
  /\ E[z] = {z} \cup Under(D, c) \cup Under(D, b)
  /\ \A x \in S \ {z} : E[x] = D[x]

\* TreeMount, with the children by their sides
LEMMA TreePut ==
  ASSUME NEW h, NEW g, NEW S, NEW D, Tree(h, S, D), Null \notin S,
         NEW z, z # Null, Alone(S, D, z), NEW w \in Side,
         NEW c \in (S \cup {Null}) \ {z}, NEW b \in (S \cup {Null}) \ {z},
         Put(g, h, S, z, w, c, b),
         \A m \in Under(D, c) : On(w, g.vm_start[m], g.vm_start[z]),
         \A m \in Under(D, b) : On(Other(w), g.vm_start[m], g.vm_start[z])
  PROVE  \E E : Below(E, g, S, D, z, c, b)
<1>1. \A l, r : /\ Mounted(D, S, z, l, r)[z] = {z} \cup Under(D, l) \cup Under(D, r)
                /\ \A x \in S \ {z} : Mounted(D, S, z, l, r)[x] = D[x]
  BY DEF Mounted
<1> USE DEF Put, Below
<1>2. CASE w = "sp_l"
  <2>1. Other(w) = "sp_r"
    BY <1>2 DEF Other
  <2>2. g.sp_l[z] = c /\ g.sp_r[z] = b
    BY <1>2, <2>1
  <2>3. \A m \in Under(D, c) : g.vm_start[m] < g.vm_start[z]
    BY <1>2 DEF On
  <2>4. \A m \in Under(D, b) : g.vm_start[z] < g.vm_start[m]
    BY <2>1 DEF On
  <2>5. Tree(g, S \cup {z}, Mounted(D, S, z, c, b))
    BY <2>2, <2>3, <2>4, TreeMount
  <2> QED BY <1>1, <2>5
<1>3. CASE w = "sp_r"
  <2>1. Other(w) = "sp_l"
    BY <1>3 DEF Other
  <2>2. g.sp_l[z] = b /\ g.sp_r[z] = c
    BY <1>3, <2>1
  <2>3. \A m \in Under(D, b) : g.vm_start[m] < g.vm_start[z]
    BY <2>1 DEF On
  <2>4. \A m \in Under(D, c) : g.vm_start[z] < g.vm_start[m]
    BY <1>3 DEF On
  <2>5. Tree(g, S \cup {z}, Mounted(D, S, z, b, c))
    BY <2>2, <2>3, <2>4, TreeMount
  <2> QED BY <1>1, <2>5
<1> QED BY <1>2, <1>3 DEF Side

\* The fields of a heap
Data == {"vm_start", "vm_end", "vm_flags"}
Field == Link \cup Data
Slot == Node \cup {Header}
HeapDom(h) == DOMAIN h = Field /\ \A f \in Field : DOMAIN h[f] = Slot

\* What MAKE_CHILD(a, w, b) makes of h
Linked(k, h, a, w, b) ==
  /\ HeapDom(k)
  /\ \A f \in Field : f # w /\ f # "sp_p" => k[f] = h[f]
  /\ \A n \in Slot : k[w][n] = IF n = a THEN b ELSE h[w][n]
  /\ \A n \in Slot : k.sp_p[n] = IF n = a /\ h.sp_p[n] = b THEN Null
                                 ELSE IF n = b THEN a ELSE h.sp_p[n]

\* MAKE_CHILD does what Linked says.
LEMMA MakeChildLinked ==
  ASSUME NEW h, HeapDom(h), NEW a \in Slot, NEW w \in Side, NEW b
  PROVE  Linked(MakeChild(h, a, w, b), h, a, w, b)
<1> DEFINE k == MakeChild(h, a, w, b)
<1>1. w \in Field /\ "sp_p" \in Field /\ w # "sp_p"
  BY DEF Side, Field, Link
<1>2. HeapDom(k)
  BY <1>1 DEF MakeChild, HeapDom
<1>3. \A f \in Field : f # w /\ f # "sp_p" => k[f] = h[f]
  BY <1>1 DEF MakeChild, HeapDom
<1>4. \A n \in Slot : k[w][n] = IF n = a THEN b ELSE h[w][n]
  BY <1>1 DEF MakeChild, HeapDom
<1>5. \A n \in Slot : k.sp_p[n] = IF n = a /\ h.sp_p[n] = b THEN Null
                                 ELSE IF n = b THEN a ELSE h.sp_p[n]
  BY <1>1 DEF MakeChild, HeapDom
<1> QED BY <1>2, <1>3, <1>4, <1>5 DEF Linked

\* Of the fields a tree rests on, MAKE_CHILD(a, w, b) changes one.
LEMMA LinkedTree ==
  ASSUME NEW k, NEW h, NEW a \in Slot, NEW w \in Side, NEW b, Linked(k, h, a, w, b)
  PROVE  /\ k.vm_start = h.vm_start
         /\ k[w][a] = b
         /\ \A n \in Slot : n # a => k[w][n] = h[w][n]
         /\ \A v \in Side, n \in Slot : n # a \/ v # w => k[v][n] = h[v][n]
         /\ \A v \in Side : v # w => k[v] = h[v]
<1>1. "vm_start" \in Field /\ "vm_start" # w /\ "vm_start" # "sp_p"
  BY DEF Field, Data, Side
<1>2. \A v \in Side : v \in Field /\ v # "sp_p"
  BY DEF Field, Link, Side
<1> QED BY <1>1, <1>2 DEF Linked

\* What Linked says of the children of a node
LEMMA LinkedSides ==
  ASSUME NEW k, NEW h, NEW a \in Slot, NEW w \in Side, NEW b, Linked(k, h, a, w, b)
  PROVE  \A v \in Side, n \in Slot :
           k[v][n] = IF n = a /\ v = w THEN b ELSE h[v][n]
BY LinkedTree

\* Node b, or NULL, may become the child of a on side w: a is the header or the
\* last node on that side of the subtree that hangs at the header.
MayTie(f, S, D, w, a, b) ==
  /\ f[w][a] = Null
  /\ f[w][Header] \in S \cup {Null}
  /\ a # Header => a \in Under(D, f[w][Header])
  /\ a \notin Under(D, b)
  /\ \A x \in S : a \in D[x] => x = a \/ On(w, f.vm_start[a], f.vm_start[x])
  /\ \A x \in S : a \in D[x] => \A m \in Under(D, b) :
                                    On(w, f.vm_start[m], f.vm_start[x])

\* What is below the nodes then
Tied(E, g, f, S, D, w, a, b) ==
  /\ Tree(g, S, E)
  /\ g[w][Header] \in S \cup {Null}
  /\ Under(E, g[w][Header]) = Under(D, f[w][Header]) \cup Under(D, b)
  /\ \A x \in S : a \notin D[x] => E[x] = D[x]
  /\ \A x \in S : E[x] \subseteq D[x] \cup Under(D, b)

\* A tree tied to a node without a child on its side is under all that is above
\* that node.
LEMMA TreeTie ==
  ASSUME NEW f, NEW g, NEW S, NEW D, Tree(f, S, D), S \subseteq Node,
         NEW w \in Side, NEW a \in S \cup {Header}, NEW b \in S \cup {Null},
         Linked(g, f, a, w, b), MayTie(f, S, D, w, a, b)
  PROVE  \E E : Tied(E, g, f, S, D, w, a, b)
<1> USE DEF MayTie, Tied
<1>0. Null \notin S /\ Header \notin S /\ S \subseteq Slot /\ Header \in Slot
      /\ Header # Null
  BY NotNodes, NodeAssumption DEF Slot
<1>1. /\ g.vm_start = f.vm_start
      /\ g[w][a] = b
      /\ \A n \in Slot : n # a => g[w][n] = f[w][n]
      /\ \A v \in Side, n \in Slot : n # a \/ v # w => g[v][n] = f[v][n]
  BY <1>0, LinkedTree
<1>2. CASE a = Header
  <2>1. \A n \in S, v \in Side : g[v][n] = f[v][n]
    BY <1>0, <1>1, <1>2
  <2>2. Tree(g, S, D)
    <3>1. \A n \in S : g.vm_start[n] = f.vm_start[n] /\ f.vm_start[n] \in Nat
      BY <1>1 DEF Tree
    <3> QED BY <1>0, <2>1, <3>1, TreeSame
  <2>3. Under(D, f[w][Header]) = {}
    BY <1>2 DEF Under
  <2> QED BY <1>1, <1>2, <2>2, <2>3
<1>3. CASE a # Header /\ b = Null
  <2>1. \A n \in S, v \in Side : g[v][n] = f[v][n]
    BY <1>0, <1>1, <1>3
  <2>2. Tree(g, S, D)
    <3>1. \A n \in S : g.vm_start[n] = f.vm_start[n] /\ f.vm_start[n] \in Nat
      BY <1>1 DEF Tree
    <3> QED BY <1>0, <2>1, <3>1, TreeSame
  <2>3. g[w][Header] = f[w][Header] /\ Under(D, b) = {}
    BY <1>0, <1>1, <1>3 DEF Under
  <2> QED BY <2>2, <2>3
<1>4. CASE a # Header /\ b # Null
  <2> DEFINE E == Hung(D, S, a, b)
  <2>1. a \in S /\ b \in S /\ Under(D, b) = D[b]
    BY <1>4 DEF Under
  <2>2. Tree(g, S, E)
    <3>1. \A n \in S : g.vm_start[n] = f.vm_start[n]
      BY <1>1
    <3>2. \A n \in S, v \in Side : n # a \/ v # w => g[v][n] = f[v][n]
      BY <1>0, <1>1
    <3>3. \A x \in S : a \in D[x] => \A m \in D[b] :
                                        On(w, f.vm_start[m], f.vm_start[x])
      BY <2>1
    <3>4. g[w][a] = b /\ a \notin D[b]
      BY <1>1, <2>1
    <3> QED BY <1>0, <2>1, <3>1, <3>2, <3>3, <3>4, TreeHang
  <2>3. \A x \in S : E[x] = IF a \in D[x] THEN D[x] \cup D[b] ELSE D[x]
    BY DEF Hung
  <2>4. g[w][Header] = f[w][Header]
    BY <1>0, <1>1, <1>4
  <2>5. f[w][Header] # Null /\ f[w][Header] \in S
    BY <1>4 DEF Under
  <2> HIDE DEF E
  <2>6. Under(E, g[w][Header]) = Under(D, f[w][Header]) \cup D[b]
    BY <1>4, <2>3, <2>4, <2>5 DEF Under
  <2> QED BY <2>1, <2>2, <2>3, <2>4, <2>5, <2>6
<1> QED BY <1>2, <1>3, <1>4

-----------------------------------------------------------------------------
(* The splay *)

\* The heap h without what the fields at the hooks hk are stale for
Seen(h, hk) == [h EXCEPT !.sp_l[hk.sp_l] = Null, !.sp_r[hk.sp_r] = Null]

\* The fields that Seen leaves as they are
LEMMA SeenIs ==
  ASSUME NEW h, HeapDom(h), NEW hk \in [Side -> Slot]
  PROVE  /\ HeapDom(Seen(h, hk))
         /\ \A f \in Field : f \notin Side => Seen(h, hk)[f] = h[f]
         /\ \A w \in Side, n \in Slot :
              Seen(h, hk)[w][n] = IF n = hk[w] THEN Null ELSE h[w][n]
<1>1. "sp_l" \in Field /\ "sp_r" \in Field
  BY DEF Field, Link, Side
<1>2. HeapDom(Seen(h, hk))
  BY <1>1 DEF Seen, HeapDom
<1>3. \A f \in Field : f \notin Side => Seen(h, hk)[f] = h[f]
  BY <1>1 DEF Seen, HeapDom, Side
<1>4. \A n \in Slot : /\ Seen(h, hk).sp_l[n] = IF n = hk.sp_l THEN Null ELSE h.sp_l[n]
                      /\ Seen(h, hk).sp_r[n] = IF n = hk.sp_r THEN Null ELSE h.sp_r[n]
  BY <1>1 DEF Seen, HeapDom
<1> QED BY <1>2, <1>3, <1>4 DEF Side

\* Every child knows its parent.
Parented(h, S) == \A n \in S, w \in Side : h[w][n] # Null => h.sp_p[h[w][n]] = n

\* What the loop has cut off on the side of n where the field w is the hook's
Cut(v, D, w) == Under(D, v[w][Header])

\* In the loop of a splay of k, with n on top and hooks hk, v seen: S is what
\* is under n and what was cut off, between which k and the nodes under n are;
\* a hook is the last node, towards those, of what was cut off.
Splaying(v, n, hk, k, S, D) ==
  /\ Tree(v, S, D)
  /\ Parented(v, S)
  /\ n \in S
  /\ k \in Nat
  /\ hk \in [Side -> S \cup {Header}]
  /\ \A w \in Side : v[w][Header] \in S \cup {Null}
  /\ \A x \in S : x \in D[n] \/ \E w \in Side : x \in Cut(v, D, w)
  /\ \A w \in Side : \A m \in Cut(v, D, w) :
       /\ On(Other(w), v.vm_start[m], k)
       /\ \A x \in D[n] : On(Other(w), v.vm_start[m], v.vm_start[x])
  /\ \A w \in Side :
       IF hk[w] = Header THEN v[w][Header] = Null
       ELSE /\ hk[w] \in Cut(v, D, w)
            /\ \A m \in Cut(v, D, w) :
                 m = hk[w] \/ On(Other(w), v.vm_start[m], v.vm_start[hk[w]])

\* The parts are apart.
LEMMA SplayApart ==
  ASSUME NEW v, NEW n, NEW hk, NEW k, NEW S, NEW D, S \subseteq Node,
         Splaying(v, n, hk, k, S, D)
  PROVE  /\ D[n] \subseteq S /\ n \in D[n]
         /\ \A w \in Side : Cut(v, D, w) \subseteq S /\ Cut(v, D, w) \cap D[n] = {}
         /\ \A w \in Side : Cut(v, D, w) \cap Cut(v, D, Other(w)) = {}
         /\ \A w \in Side : \A x \in Cut(v, D, w) : D[x] \subseteq Cut(v, D, w)
         /\ \A w \in Side : hk[w] \in Slot /\ hk[w] \notin D[n]
         /\ \A w \in Side : v[w][Header] # Null => v[w][Header] \in Cut(v, D, w)
         /\ Alone(S, D, n)
         /\ \A w \in Side, x \in S :
              hk[w] \in D[x] => x \in Cut(v, D, w) /\ hk[w] \in S
<1>0. Null \notin S /\ Header \notin S /\ Tree(v, S, D)
  BY NotNodes, NodeAssumption DEF Splaying
<1>1. D[n] \subseteq S /\ n \in D[n]
  BY <1>0, TreeFacts DEF Splaying
<1>2. ASSUME NEW w \in Side
      PROVE  Cut(v, D, w) \subseteq S /\ Cut(v, D, w) \cap D[n] = {}
  <2>1. v[w][Header] \in S \cup {Null}
    BY DEF Splaying
  <2>2. Cut(v, D, w) \subseteq S
    BY <2>1, <1>0, TreeFacts DEF Cut
  <2>3. \A m \in Cut(v, D, w) : m \in D[n] =>
          On(Other(w), v.vm_start[m], v.vm_start[m]) /\ v.vm_start[m] \in Nat
    BY <1>1, <1>0 DEF Splaying, Tree
  <2> QED BY <2>2, <2>3, OnOrder
<1>3. ASSUME NEW w \in Side PROVE Cut(v, D, w) \cap Cut(v, D, Other(w)) = {}
  <2>1. \A m \in Cut(v, D, w) : On(Other(w), v.vm_start[m], k)
    BY DEF Splaying
  <2>2. Other(w) \in Side /\ Other(Other(w)) = w /\ Other(w) # w
    BY OnOrder
  <2>3. \A m \in Cut(v, D, Other(w)) : On(w, v.vm_start[m], k)
    BY <2>2 DEF Splaying
  <2>4. \A m \in Cut(v, D, w) : v.vm_start[m] \in Nat /\ k \in Nat
    BY <1>0, <1>2 DEF Splaying, Tree
  <2> QED BY <2>1, <2>2, <2>3, <2>4, OnApart
<1>4. ASSUME NEW w \in Side, NEW x \in Cut(v, D, w) PROVE D[x] \subseteq Cut(v, D, w)
  BY <1>0 DEF Cut, Under, Splaying, Tree
<1>5. ASSUME NEW w \in Side PROVE v[w][Header] # Null => v[w][Header] \in Cut(v, D, w)
  <2>1. v[w][Header] \in S \cup {Null}
    BY DEF Splaying
  <2> QED BY <2>1, <1>0, TreeFacts DEF Cut, Under
<1>6. ASSUME NEW w \in Side PROVE hk[w] \in Slot /\ hk[w] \notin D[n]
  <2>1. hk[w] \in S \cup {Header} /\ (hk[w] # Header => hk[w] \in Cut(v, D, w))
    BY DEF Splaying
  <2> QED BY <2>1, <1>0, <1>1, <1>2 DEF Slot
<1>7. ASSUME NEW x \in S
      PROVE  x \in D[n] \/ \E w \in Side : x \in Cut(v, D, w)
  BY DEF Splaying
<1>8. Alone(S, D, n)
  <2> SUFFICES ASSUME NEW x \in S, n \in D[x] PROVE x = n
    BY DEF Alone
  <2>1. ASSUME NEW w \in Side, x \in Cut(v, D, w) PROVE FALSE
    BY <2>1, <1>1, <1>2, <1>4
  <2>2. x \in D[n]
    BY <2>1, <1>7
  <2> QED BY <2>2, <1>0, TreeFacts DEF Splaying
<1>9. ASSUME NEW w \in Side, NEW x \in S, hk[w] \in D[x]
      PROVE  x \in Cut(v, D, w) /\ hk[w] \in S
  <2>1. hk[w] \in S
    BY <1>0, <1>9, TreeFacts
  <2>2. hk[w] \in Cut(v, D, w)
    BY <2>1, <1>0 DEF Splaying
  <2>3. x \notin D[n]
    <3>1. x \in D[n] => D[x] \subseteq D[n]
      BY <1>0 DEF Tree, Splaying
    <3> QED BY <3>1, <1>6, <1>9
  <2>4. PICK u \in Side : x \in Cut(v, D, u)
    BY <2>3, <1>7
  <2>5. hk[w] \in Cut(v, D, u)
    BY <2>4, <1>4, <1>9
  <2>6. u = w
    BY <2>2, <2>5, <1>3, OnOrder
  <2> QED BY <2>1, <2>4, <2>6
<1> QED BY <1>1, <1>2, <1>3, <1>4, <1>5, <1>6, <1>8, <1>9

\* Two nodes of a tree do not share a child, nor is a node a child twice.
LEMMA OneParent ==
  ASSUME NEW h, NEW S, NEW D, Tree(h, S, D), Parented(h, S), Null \notin S,
         NEW a \in S, NEW w \in Side, NEW c \in S, h[w][a] = c,
         NEW b \in S, NEW v \in Side, h[v][b] = c
  PROVE  a = b /\ w = v
<1>1. c # Null
  OBVIOUS
<1>2. h.sp_p[c] = a /\ h.sp_p[c] = b
  BY <1>1 DEF Parented
<1>3. c \in Under(D, h[w][a]) /\ c \in Under(D, h[v][a])
  <2>1. c \in D[c]
    BY TreeFacts
  <2> QED BY <1>1, <1>2, <2>1 DEF Under
<1>4. On(w, h.vm_start[c], h.vm_start[a]) /\ On(v, h.vm_start[c], h.vm_start[a])
  BY <1>3 DEF Tree
<1>5. h.vm_start[c] \in Nat /\ h.vm_start[a] \in Nat
  BY DEF Tree
<1> QED BY <1>2, <1>4, <1>5, OnApart

\* A rotation at the top, towards the other side
LEMMA SplayRotate ==
  ASSUME NEW h, HeapDom(h), NEW S, S \subseteq Node, NEW D, NEW n, NEW hk, NEW k,
         Splaying(Seen(h, hk), n, hk, k, S, D),
         NEW w \in Side, NEW y, y = h[w][n], y # Null,
         NEW h1, Linked(h1, h, n, w, h[Other(w)][y]),
         NEW g, Linked(g, h1, y, Other(w), n)
  PROVE  \E E : Splaying(Seen(g, hk), y, hk, k, S, E)
<1> DEFINE o == Other(w)
           c == h[o][y]
           b == h[o][n]
           v == Seen(h, hk)
           f == Seen(h1, hk)
           u == Seen(g, hk)
           start(x) == v.vm_start[x]
<1>1. /\ Null \notin S /\ Header \notin S /\ S \subseteq Slot
      /\ Tree(v, S, D) /\ Parented(v, S)
      /\ HeapDom(h1) /\ HeapDom(g) /\ n \in S
      /\ o \in Side /\ o # w /\ \A x \in Side : x = w \/ x = o
  BY NotNodes, NodeAssumption, OnOrder DEF Splaying, Linked, Slot
<1>2. hk \in [Side -> Slot]
  BY <1>1 DEF Splaying, Slot
<1>3. /\ D[n] \subseteq S /\ n \in D[n] /\ Alone(S, D, n)
      /\ \A x \in Side : hk[x] \notin D[n]
      /\ \A x \in Side : Cut(v, D, x) \subseteq S /\ Cut(v, D, x) \cap D[n] = {}
      /\ \A x \in Side : v[x][Header] # Null => v[x][Header] \in Cut(v, D, x)
  BY SplayApart
<1>4. \A x \in D[n], z \in Side : v[z][x] = h[z][x]
  BY <1>1, <1>2, <1>3, SeenIs
<1> HIDE DEF v
\* The nodes at hand
<1>5. y \in S /\ y \in D[n] /\ y # n /\ v[w][n] = y /\ v[o][y] = c /\ v[o][n] = b
  <2>1. v[w][n] = y
    BY <1>3, <1>4
  <2>2. y \in S /\ y \in D[n] /\ n \notin Under(D, y)
    BY <1>1, <2>1, TreeFacts
  <2>3. y \in D[y]
    BY <1>1, <2>2, TreeFacts
  <2> QED BY <1>1, <1>3, <1>4, <2>1, <2>2, <2>3 DEF Under
<1>6. /\ c \in S \cup {Null} /\ b \in S \cup {Null} /\ v[w][y] \in S \cup {Null}
      /\ Under(D, c) \subseteq D[y] /\ Under(D, v[w][y]) \subseteq D[y]
      /\ D[y] \subseteq D[n] /\ Under(D, b) \subseteq D[n]
      /\ n \notin Under(D, b) /\ n \notin D[y]
      /\ y \notin Under(D, c) /\ y \notin Under(D, v[w][y])
      /\ y \in D[y]
  <2>1. Under(D, y) = D[y] /\ n \notin Under(D, y) /\ Under(D, y) \subseteq D[n]
    BY <1>1, <1>5, TreeFacts DEF Under
  <2> QED BY <1>1, <1>5, <2>1, TreeFacts
\* Where the parts are
<1>7. /\ \A m \in D[y] : On(w, start(m), start(n))
      /\ \A m \in Under(D, c) : On(o, start(m), start(y))
      /\ \A m \in Under(D, v[w][y]) : On(w, start(m), start(y))
      /\ \A m \in Under(D, b) : On(o, start(m), start(n))
      /\ On(o, start(n), start(y))
      /\ \A m \in Under(D, b) : On(o, start(m), start(y))
  <2>1. /\ \A m \in D[y] : On(w, start(m), start(n))
        /\ \A m \in Under(D, c) : On(o, start(m), start(y))
        /\ \A m \in Under(D, v[w][y]) : On(w, start(m), start(y))
        /\ \A m \in Under(D, b) : On(o, start(m), start(n))
    <3>1. Under(D, v[w][n]) = D[y]
      BY <1>1, <1>5 DEF Under
    <3> QED BY <1>1, <1>5, <3>1 DEF Tree
  <2>2. \A m \in S : start(m) \in Nat
    BY <1>1 DEF Tree
  <2>3. Under(D, b) \subseteq S
    BY <1>3, <1>6
  <2>4. On(o, start(n), start(y))
    BY <2>1, <2>2, <1>1, <1>5, <1>6, OnOrder
  <2> QED BY <2>1, <2>2, <2>3, <2>4, <1>1, <1>5, OnOrder
<1>8. y \notin Under(D, b) /\ \A m \in Under(D, b) : m \notin D[y]
  <2>1. ASSUME NEW m \in Under(D, b), m \in D[y] PROVE FALSE
    <3>1. On(o, start(m), start(n)) /\ On(w, start(m), start(n))
      BY <1>7, <2>1
    <3>2. start(m) \in Nat /\ start(n) \in Nat
      BY <1>1, <1>3, <1>6, <2>1 DEF Tree
    <3> QED BY <1>1, <3>1, <3>2, OnApart
  <2> QED BY <2>1, <1>6
\* The first link
<1>9. /\ h1.vm_start = h.vm_start /\ g.vm_start = h.vm_start
      /\ \A x \in Side, z \in Slot :
           /\ h1[x][z] = IF z = n /\ x = w THEN c ELSE h[x][z]
           /\ g[x][z] = IF z = y /\ x = o THEN n ELSE h1[x][z]
  <2>1. n \in Slot /\ y \in Slot
    BY <1>1, <1>5
  <2>2. /\ h1.vm_start = h.vm_start
        /\ \A x \in Side, z \in Slot : h1[x][z] = IF z = n /\ x = w THEN c ELSE h[x][z]
    <3> HIDE DEF c
    <3>1. Linked(h1, h, n, w, c)
      BY DEF c
    <3>2. h1.vm_start = h.vm_start
      BY <2>1, <3>1, LinkedTree
    <3> QED BY <2>1, <3>1, <3>2, LinkedSides
  <2>3. /\ g.vm_start = h1.vm_start
        /\ \A x \in Side, z \in Slot : g[x][z] = IF z = y /\ x = o THEN n ELSE h1[x][z]
    <3>1. o \in Side /\ Linked(g, h1, y, o, n)
      BY <1>1
    <3> HIDE DEF o
    <3>2. g.vm_start = h1.vm_start
      BY <2>1, <3>1, LinkedTree
    <3> QED BY <2>1, <3>1, <3>2, LinkedSides
  <2> QED BY <2>2, <2>3
<1>10. /\ f.vm_start = v.vm_start /\ u.vm_start = v.vm_start
       /\ \A x \in Side, z \in Slot :
            /\ f[x][z] = IF z = n /\ x = w THEN c ELSE v[x][z]
            /\ u[x][z] = IF z = y /\ x = o THEN n ELSE f[x][z]
  <2>1. "vm_start" \in Field /\ "vm_start" \notin Side
    BY DEF Field, Data, Side
  <2>2. f.vm_start = v.vm_start /\ u.vm_start = v.vm_start
    BY <1>1, <1>2, <1>9, <2>1, SeenIs DEF v
  <2>3. \A x \in Side, z \in Slot : /\ v[x][z] = IF z = hk[x] THEN Null ELSE h[x][z]
                                    /\ f[x][z] = IF z = hk[x] THEN Null ELSE h1[x][z]
                                    /\ u[x][z] = IF z = hk[x] THEN Null ELSE g[x][z]
    BY <1>1, <1>2, SeenIs DEF v
  <2>4. \A x \in Side : hk[x] # n /\ hk[x] # y
    BY <1>3, <1>5
  <2> QED BY <1>9, <2>2, <2>3, <2>4
<1> HIDE DEF f, u
<1>11. PICK F : Below(F, f, S, D, n, c, b) /\ Tree(f, S, F)
  <2>1. c \in (S \cup {Null}) \ {n} /\ b \in (S \cup {Null}) \ {n}
    <3>1. \A x \in S : x \in Under(D, x)
      BY <1>1, UnderNode
    <3> QED BY <1>1, <1>6, <3>1
  <2>2. Put(f, v, S, n, w, c, b)
    <3>1. v.vm_start[n] \in Nat
      BY <1>1 DEF Tree
    <3> QED BY <1>1, <1>5, <1>10, <3>1 DEF Put
  <2>3. /\ \A m \in Under(D, c) : On(w, f.vm_start[m], f.vm_start[n])
        /\ \A m \in Under(D, b) : On(o, f.vm_start[m], f.vm_start[n])
    BY <1>6, <1>7, <1>10
  <2>4. \E E : Below(E, f, S, D, n, c, b)
    <3>1. Tree(v, S, D) /\ Null \notin S /\ n # Null /\ Alone(S, D, n)
      BY <1>1, <1>3
    <3> HIDE DEF c, b
    <3> QED BY <2>1, <2>2, <2>3, <3>1, TreePut
  <2>5. S \cup {n} = S
    BY <1>1
  <2> QED BY <2>4, <2>5 DEF Below
<1>11a. F[n] = {n} \cup Under(D, c) \cup Under(D, b) /\ \A x \in S \ {n} : F[x] = D[x]
  BY <1>11 DEF Below
\* The second
<1>12. PICK E : /\ Tree(u, S, E)
                /\ E[y] = {y} \cup Under(D, v[w][y]) \cup F[n]
                /\ \A x \in S \ {y} : E[x] = F[x]
  <2>1. Alone(S, F, y)
    <3> SUFFICES ASSUME NEW x \in S, y \in F[x], x # y PROVE FALSE
      BY DEF Alone
    <3>1. x # n
      BY <1>5, <1>6, <1>8, <1>11a
    <3>2. y \in D[x]
      BY <1>11a, <3>1
    <3>3. PICK a \in D[x], z \in Side : v[z][a] = y
      BY <1>1, <3>2 DEF Tree
    <3>4. a \in S
      BY <1>1, TreeFacts
    <3>5. a = n
      BY <1>1, <1>5, <3>3, <3>4, OneParent
    <3> QED BY <1>3, <3>1, <3>5 DEF Alone
  <2>2. Under(F, v[w][y]) = Under(D, v[w][y]) /\ Under(F, n) = F[n]
    <3>1. \A x \in S : x \in Under(D, x)
      BY <1>1, UnderNode
    <3> QED BY <1>1, <1>6, <1>11a, <3>1 DEF Under
  <2>3. v[w][y] \in (S \cup {Null}) \ {y} /\ n \in (S \cup {Null}) \ {y}
    <3>1. \A x \in S : x \in Under(D, x)
      BY <1>1, UnderNode
    <3> QED BY <1>1, <1>5, <1>6, <3>1
  <2>4. Put(u, f, S, y, w, v[w][y], n)
    <3>1. v.vm_start[y] \in Nat
      BY <1>1, <1>5 DEF Tree
    <3> QED BY <1>1, <1>5, <1>10, <3>1 DEF Put
  <2>5. /\ \A m \in Under(F, v[w][y]) : On(w, u.vm_start[m], u.vm_start[y])
        /\ \A m \in Under(F, n) : On(o, u.vm_start[m], u.vm_start[y])
    BY <1>7, <1>10, <1>11a, <2>2
  <2>6. \E E : Below(E, u, S, F, y, v[w][y], n)
    <3>1. Tree(f, S, F) /\ Null \notin S /\ y # Null
      BY <1>1, <1>11
    <3> QED BY <2>1, <2>3, <2>4, <2>5, <3>1, TreePut
  <2>7. S \cup {y} = S
    BY <1>5
  <2> QED BY <2>2, <2>6, <2>7 DEF Below
<1>13. E[y] = D[n]
  <2>1. \A m \in S : m \in D[n] <=> m = n \/ m \in D[y] \/ m \in Under(D, b)
    <3>1. Under(D, v[w][n]) = D[y] /\ Under(D, v[o][n]) = Under(D, b)
      BY <1>1, <1>5 DEF Under
    <3>2. \A m \in S : m \in D[n] <=> m = n \/ \E x \in Side : m \in Under(D, v[x][n])
      BY <1>1 DEF Tree
    <3> QED BY <1>1, <3>1, <3>2
  <2>2. \A m \in S : m \in D[y] <=> \/ m = y \/ m \in Under(D, c)
                                    \/ m \in Under(D, v[w][y])
    <3>1. \A m \in S : m \in D[y] <=> m = y \/ \E x \in Side : m \in Under(D, v[x][y])
      BY <1>1, <1>5 DEF Tree
    <3> QED BY <1>1, <1>5, <3>1
  <2>3. \A m : m \in E[y] <=> \/ m = y \/ m \in Under(D, v[w][y])
                              \/ m = n \/ m \in Under(D, c) \/ m \in Under(D, b)
    BY <1>11a, <1>12
  <2>4. E[y] \subseteq S
    BY <1>1, <1>5, <1>12, TreeFacts
  <2> QED BY <1>3, <2>1, <2>2, <2>3, <2>4
\* What was cut off stays so.
<1>14. ASSUME NEW x \in Side
       PROVE  u[x][Header] = v[x][Header] /\ Cut(u, E, x) = Cut(v, D, x)
  <2>1. u[x][Header] = v[x][Header]
    <3>1. Header \in Slot /\ Header # n /\ Header # y
      BY <1>1, <1>5 DEF Slot
    <3> QED BY <1>10, <3>1
  <2>2. v[x][Header] # Null => v[x][Header] \in S /\ v[x][Header] # n /\ v[x][Header] # y
    BY <1>3, <1>5
  <2> QED BY <1>11a, <1>12, <2>1, <2>2 DEF Cut, Under
<1>15. Parented(u, S)
  <2> SUFFICES ASSUME NEW x \in S, NEW z \in Side, u[z][x] # Null
               PROVE  u.sp_p[u[z][x]] = x
    BY DEF Parented
  <2>1. "sp_p" \in Field /\ "sp_p" \notin Side
    BY DEF Field, Link, Side
  <2>2. u.sp_p = g.sp_p /\ v.sp_p = h.sp_p
    BY <1>1, <1>2, <2>1, SeenIs DEF u, v
  <2>3. \A m \in Slot : g.sp_p[m] = IF m = y /\ h1.sp_p[m] = n THEN Null
                                    ELSE IF m = n THEN y ELSE h1.sp_p[m]
    BY DEF Linked
  <2>4. \A m \in Slot : h1.sp_p[m] = IF m = n /\ h.sp_p[m] = c THEN Null
                                     ELSE IF m = c THEN n ELSE h.sp_p[m]
    BY DEF Linked
  <2>5. CASE x = n /\ z = w
    <3>1. u[z][x] = c
      BY <1>1, <1>5, <1>10, <2>5
    <3>2. c \in S /\ c # n /\ c # y
      <4>1. c \in S /\ \A m \in S : m \in Under(D, m)
        BY <1>1, <1>6, <2>5, <3>1, UnderNode
      <4> QED BY <4>1, <1>6
    <3> QED BY <1>1, <2>2, <2>3, <2>4, <2>5, <3>1, <3>2
  <2>6. CASE x = y /\ z = o
    BY <1>1, <1>5, <1>10, <2>2, <2>3, <2>6
  <2>7. CASE ~(x = n /\ z = w) /\ ~(x = y /\ z = o)
    <3>1. u[z][x] = v[z][x]
      BY <1>1, <1>10, <2>7
    <3> DEFINE m == v[z][x]
    <3>2. m \in S /\ m \in D[x] /\ v.sp_p[m] = x
      BY <1>1, <3>1, TreeFacts DEF Parented
    <3>3. m # n
      <4>1. m \in Under(D, v[z][x]) /\ x \notin Under(D, v[z][x])
        BY <1>1, <3>2, TreeFacts DEF Under
      <4> QED BY <1>3, <3>2, <4>1 DEF Alone
    <3>4. m # y
      BY <1>1, <1>5, <2>7, <3>2, OneParent
    <3>5. m # c
      BY <1>1, <1>5, <2>7, <3>2, OneParent
    <3> QED BY <1>1, <2>2, <2>3, <2>4, <3>1, <3>2, <3>3, <3>4, <3>5
  <2> QED BY <2>5, <2>6, <2>7
<1> QED
  <2>1. /\ k \in Nat
        /\ hk \in [Side -> S \cup {Header}]
        /\ \A x \in Side : v[x][Header] \in S \cup {Null}
        /\ \A x \in S : x \in D[n] \/ \E z \in Side : x \in Cut(v, D, z)
        /\ \A z \in Side : \A m \in Cut(v, D, z) :
             /\ On(Other(z), v.vm_start[m], k)
             /\ \A x \in D[n] : On(Other(z), v.vm_start[m], v.vm_start[x])
        /\ \A z \in Side :
             IF hk[z] = Header THEN v[z][Header] = Null
             ELSE /\ hk[z] \in Cut(v, D, z)
                  /\ \A m \in Cut(v, D, z) :
                       m = hk[z] \/ On(Other(z), v.vm_start[m], v.vm_start[hk[z]])
    BY DEF Splaying, v
  <2>2. Splaying(u, y, hk, k, S, E)
    BY <1>5, <1>10, <1>12, <1>13, <1>14, <1>15, <2>1 DEF Splaying
  <2> QED BY <2>2 DEF u

\* The top m is tied to what was cut off on the far side of k, and its child on
\* side w is on top.
LEMMA SplayLink ==
  ASSUME NEW h, HeapDom(h), NEW S, S \subseteq Node, NEW D, NEW m, NEW hk, NEW k,
         Splaying(Seen(h, hk), m, hk, k, S, D),
         NEW w \in Side, NEW c, c = h[w][m], c # Null, On(w, k, h.vm_start[m]),
         NEW g, Linked(g, h, hk[w], w, m)
  PROVE  /\ g[w][m] = c
         /\ \E E : Splaying(Seen(g, [hk EXCEPT ![w] = m]), c,
                            [hk EXCEPT ![w] = m], k, S, E)
<1> DEFINE o == Other(w)
           a == hk[w]
           e == [hk EXCEPT ![w] = m]
           v == Seen(h, hk)
           u == Seen(g, e)
           f == MakeChild(v, m, w, Null)
           x == MakeChild(f, a, w, m)
           b == v[o][m]
           start(z) == v.vm_start[z]
<1>1. /\ Null \notin S /\ Header \notin S /\ S \subseteq Slot /\ Header \in Slot
      /\ Tree(v, S, D) /\ Parented(v, S) /\ HeapDom(g)
      /\ m \in S /\ a \in S \cup {Header}
      /\ k \in Nat
      /\ o \in Side /\ o # w /\ \A z \in Side : z = w \/ z = o
  BY NotNodes, NodeAssumption, OnOrder DEF Splaying, Linked, Slot
<1>2. hk \in [Side -> S \cup {Header}] /\ e \in [Side -> S \cup {Header}]
  BY <1>1 DEF Splaying
<1>3. hk \in [Side -> Slot] /\ e \in [Side -> Slot] /\ e[w] = m /\ e[o] = hk[o]
  BY <1>1, <1>2
<1>4. HeapDom(v)
  BY <1>3, SeenIs
<1>5. /\ D[m] \subseteq S /\ m \in D[m] /\ Alone(S, D, m)
      /\ a \notin D[m] /\ a # m
      /\ \A z \in Side : Cut(v, D, z) \subseteq S /\ Cut(v, D, z) \cap D[m] = {}
      /\ \A z \in Side : v[z][Header] # Null => v[z][Header] \in Cut(v, D, z)
      /\ \A z \in Side : v[z][Header] \in S \cup {Null}
      /\ \A z \in S : a \in D[z] => z \in Cut(v, D, w) /\ a \in S
      /\ Cut(v, D, o) \cap Cut(v, D, w) = {}
      /\ \A z \in Side : \A y \in Cut(v, D, z) : D[y] \subseteq Cut(v, D, z)
  <2>1. \A z \in Side : v[z][Header] \in S \cup {Null}
    BY DEF Splaying
  <2>2. /\ D[m] \subseteq S /\ m \in D[m] /\ Alone(S, D, m)
        /\ \A z \in Side : hk[z] \notin D[m]
        /\ \A z \in Side : Cut(v, D, z) \subseteq S /\ Cut(v, D, z) \cap D[m] = {}
        /\ \A z \in Side : v[z][Header] # Null => v[z][Header] \in Cut(v, D, z)
        /\ \A z \in Side, y \in S :
             hk[z] \in D[y] => y \in Cut(v, D, z) /\ hk[z] \in S
        /\ \A z \in Side : Cut(v, D, z) \cap Cut(v, D, Other(z)) = {}
        /\ \A z \in Side : \A y \in Cut(v, D, z) : D[y] \subseteq Cut(v, D, z)
    BY SplayApart
  <2> HIDE DEF v
  <2>3. a \notin D[m] /\ a # m
    BY <2>2
  <2>4. Cut(v, D, o) \cap Cut(v, D, w) = {}
    BY <2>2
  <2> QED BY <2>1, <2>2, <2>3, <2>4
<1> HIDE DEF v, e
<1>6. \A z \in Side, n \in Slot :
        /\ v[z][n] = IF n = hk[z] THEN Null ELSE h[z][n]
        /\ u[z][n] = IF n = e[z] THEN Null ELSE g[z][n]
  BY <1>1, <1>3, SeenIs DEF v
<1>7. /\ v.vm_start = h.vm_start /\ u.vm_start = v.vm_start
      /\ v.sp_p = h.sp_p /\ u.sp_p = g.sp_p
  <2>1. /\ "vm_start" \in Field /\ "vm_start" \notin Side
        /\ "sp_p" \in Field /\ "sp_p" \notin Side
    BY DEF Field, Data, Link, Side
  <2>2. g.vm_start = h.vm_start
    BY <1>1, LinkedTree
  <2> QED BY <1>1, <1>3, <2>1, <2>2, SeenIs DEF v
<1> HIDE DEF u
<1>8. c \in S /\ v[w][m] = c /\ b \in S \cup {Null} /\ v[w][a] = Null
  <2>1. v[w][m] = c
    BY <1>1, <1>5, <1>6
  <2> QED BY <1>1, <1>3, <1>6, <2>1, TreeFacts
<1>9. g[w][m] = c
  BY <1>1, <1>5, LinkedSides
\* Where the nodes under m are
<1>10. /\ \A z \in S : start(z) \in Nat
       /\ On(o, start(m), k)
       /\ \A z \in D[c] : On(o, start(m), start(z))
       /\ \A z \in Under(D, b) : On(o, start(z), start(m))
       /\ Under(D, b) \subseteq D[m] /\ D[c] \subseteq D[m]
       /\ m \notin Under(D, b) /\ m \notin D[c]
       /\ c \in D[c]
       /\ \A z \in S : z \in D[m] <=> z = m \/ z \in D[c] \/ z \in Under(D, b)
  <2>1. \A z \in S : start(z) \in Nat
    BY <1>1 DEF Tree
  <2>2. Under(D, v[w][m]) = D[c] /\ c \in D[c]
    BY <1>1, <1>8, UnderNode
  <2>3. /\ Under(D, b) \subseteq D[m] /\ D[c] \subseteq D[m]
        /\ m \notin Under(D, b) /\ m \notin D[c]
    BY <1>1, <2>2, TreeFacts
  <2>4. /\ \A z \in D[c] : On(w, start(z), start(m))
        /\ \A z \in Under(D, b) : On(o, start(z), start(m))
    BY <1>1, <2>2 DEF Tree
  <2>5. \A z \in D[c] : On(o, start(m), start(z))
    BY <1>1, <1>5, <2>1, <2>3, <2>4, OnOrder
  <2>6. On(o, start(m), k)
    BY <1>1, <1>7, <2>1, OnOrder
  <2>7. \A z \in S : z \in D[m] <=> z = m \/ \E y \in Side : z \in Under(D, v[y][m])
    BY <1>1 DEF Tree
  <2>8. \A z \in S : z \in D[m] <=> z = m \/ z \in D[c] \/ z \in Under(D, b)
    BY <1>1, <2>2, <2>7
  <2> QED BY <2>1, <2>2, <2>3, <2>4, <2>5, <2>6, <2>8
<1> HIDE DEF b
\* The child is cut off.
<1>11. Linked(f, v, m, w, Null) /\ HeapDom(f)
  BY <1>1, <1>4, MakeChildLinked DEF Linked
<1>12. Linked(x, f, a, w, m)
  BY <1>1, <1>11, MakeChildLinked DEF Slot
<1> HIDE DEF f, x
<1>13. /\ \A z \in Side, n \in Slot : f[z][n] = IF n = m /\ z = w THEN Null ELSE v[z][n]
       /\ f.vm_start = v.vm_start
  <2>1. m \in Slot
    BY <1>1
  <2> QED BY <1>11, <2>1, LinkedSides, LinkedTree
<1>14. /\ \A z \in Side, n \in Slot : x[z][n] = IF n = a /\ z = w THEN m ELSE f[z][n]
       /\ x.vm_start = f.vm_start
  <2>1. a \in Slot
    BY <1>1
  <2> HIDE DEF a
  <2> QED BY <1>12, <2>1, LinkedSides, LinkedTree
<1>15. \A z \in Side, n \in Slot : u[z][n] = x[z][n]
  <2>1. \A z \in Side, n \in Slot : g[z][n] = IF n = a /\ z = w THEN m ELSE h[z][n]
    <3>1. a \in Slot
      BY <1>1
    <3> QED BY <3>1, LinkedSides
  <2> QED BY <1>1, <1>3, <1>5, <1>6, <1>13, <1>14, <2>1
<1>16. PICK F : Below(F, f, S, D, m, Null, b)
  <2>1. Put(f, v, S, m, w, Null, b)
    BY <1>1, <1>10, <1>13 DEF Put, b
  <2>2. Null \in (S \cup {Null}) \ {m} /\ b \in (S \cup {Null}) \ {m}
    <3>1. \A z \in S : z \in Under(D, z)
      BY <1>1, UnderNode
    <3> QED BY <1>1, <1>8, <1>10, <3>1
  <2>3. /\ \A z \in Under(D, Null) : On(w, f.vm_start[z], f.vm_start[m])
        /\ \A z \in Under(D, b) : On(o, f.vm_start[z], f.vm_start[m])
    BY <1>10, <1>13 DEF Under
  <2>4. Tree(v, S, D) /\ Null \notin S /\ m # Null /\ Alone(S, D, m)
    BY <1>1, <1>5
  <2> QED BY <2>1, <2>2, <2>3, <2>4, TreePut
<1>17. /\ Tree(f, S, F)
       /\ F[m] = {m} \cup Under(D, b)
       /\ \A z \in S \ {m} : F[z] = D[z]
  <2>1. S \cup {m} = S /\ Under(D, Null) = {}
    BY <1>1 DEF Under
  <2> QED BY <1>16, <2>1 DEF Below
\* The rest is tied to the hook.
<1>18. /\ \A z \in Side : f[z][Header] = v[z][Header]
       /\ \A z \in Side : Under(F, f[z][Header]) = Cut(v, D, z)
       /\ Under(F, m) = F[m]
  <2>1. \A z \in Side : f[z][Header] = v[z][Header]
    BY <1>1, <1>13
  <2>2. \A z \in Side : v[z][Header] # Null => v[z][Header] \in S \ {m}
    BY <1>5
  <2> QED BY <1>1, <1>17, <2>1, <2>2 DEF Cut, Under
<1>19. PICK E : Tied(E, x, f, S, F, w, a, m)
  <2>1. \A z \in S : a \in F[z] => z \in Cut(v, D, w) /\ a \in S
    BY <1>5, <1>10, <1>17
  <2>2. \A z \in Cut(v, D, w) :
          /\ z = a \/ On(w, start(a), start(z))
          /\ \A y \in D[m] : On(w, start(y), start(z))
    <3> SUFFICES ASSUME NEW z \in Cut(v, D, w)
                 PROVE  /\ z = a \/ On(w, start(a), start(z))
                        /\ \A y \in D[m] : On(w, start(y), start(z))
      OBVIOUS
    <3>1. /\ \A y \in D[m] : On(o, start(z), start(y))
          /\ a # Header /\ a \in Cut(v, D, w)
          /\ z = a \/ On(o, start(z), start(a))
      BY <1>1 DEF Splaying, Cut, Under, v
    <3>2. a \in S /\ z \in S
      BY <1>5, <3>1
    <3> QED BY <1>1, <1>5, <1>10, <3>1, <3>2, OnOrder
  <2>3. MayTie(f, S, F, w, a, m)
    <3>1. f[w][a] = Null /\ f[w][Header] \in S \cup {Null}
      BY <1>1, <1>5, <1>8, <1>13, <1>18
    <3>2. a # Header => a \in Under(F, f[w][Header])
      BY <1>18 DEF Splaying, v
    <3>3. a \notin Under(F, m)
      BY <1>5, <1>10, <1>17, <1>18
    <3>4. \A z \in S : a \in F[z] => z = a \/ On(w, f.vm_start[a], f.vm_start[z])
      BY <2>1, <2>2, <1>13
    <3>5. \A z \in S : a \in F[z] => \A y \in Under(F, m) :
                                       On(w, f.vm_start[y], f.vm_start[z])
      <4> SUFFICES ASSUME NEW z \in S, a \in F[z], NEW y \in Under(F, m)
                   PROVE  On(w, f.vm_start[y], f.vm_start[z])
        OBVIOUS
      <4>1. z \in Cut(v, D, w) /\ y \in D[m]
        BY <2>1, <1>5, <1>10, <1>17, <1>18
      <4> QED BY <2>2, <4>1, <1>13
    <3> QED BY <3>1, <3>2, <3>3, <3>4, <3>5 DEF MayTie
  <2>4. m \in S \cup {Null}
    BY <1>1
  <2> HIDE DEF a
  <2> QED BY <1>1, <1>12, <1>17, <2>3, <2>4, TreeTie
<1>20. /\ Tree(u, S, E)
       /\ u[w][Header] \in S \cup {Null} /\ u[o][Header] = v[o][Header]
       /\ Cut(u, E, w) = Cut(v, D, w) \cup F[m]
       /\ Cut(u, E, o) = Cut(v, D, o)
       /\ E[c] = D[c]
  <2>1. /\ Tree(x, S, E)
        /\ x[w][Header] \in S \cup {Null}
        /\ Under(E, x[w][Header]) = Under(F, f[w][Header]) \cup Under(F, m)
        /\ \A z \in S : a \notin F[z] => E[z] = F[z]
    BY <1>19 DEF Tied
  <2>2. Tree(u, S, E)
    <3>1. /\ \A n \in S, z \in Side : u[z][n] = x[z][n]
          /\ \A n \in S : u.vm_start[n] \in Nat
          /\ u.vm_start = x.vm_start
      BY <1>1, <1>7, <1>10, <1>13, <1>14, <1>15
    <3> QED BY <1>1, <2>1, <3>1, TreeSame
  <2>3. u[w][Header] = x[w][Header] /\ u[o][Header] = v[o][Header]
    BY <1>1, <1>13, <1>14, <1>15
  <2>4. Cut(u, E, w) = Cut(v, D, w) \cup F[m]
    BY <2>1, <2>3, <1>18 DEF Cut
  <2>5. Cut(u, E, o) = Cut(v, D, o)
    <3>1. v[o][Header] # Null => /\ v[o][Header] \in S \ {m}
                                 /\ a \notin D[v[o][Header]]
      BY <1>1, <1>5
    <3> QED BY <1>17, <2>1, <2>3, <3>1 DEF Cut, Under
  <2>6. E[c] = D[c]
    BY <1>5, <1>8, <1>10, <1>17, <2>1
  <2> QED BY <2>1, <2>2, <2>3, <2>4, <2>5, <2>6
<1>21. Parented(u, S)
  <2> SUFFICES ASSUME NEW n \in S, NEW z \in Side, u[z][n] # Null
               PROVE  u.sp_p[u[z][n]] = n
    BY DEF Parented
  <2>1. \A y \in Slot : g.sp_p[y] = IF y = a /\ h.sp_p[y] = m THEN Null
                                    ELSE IF y = m THEN a ELSE h.sp_p[y]
    BY DEF Linked
  <2>2. u[z][n] = IF n = a /\ z = w THEN m
                  ELSE IF n = m /\ z = w THEN Null ELSE v[z][n]
    BY <1>1, <1>13, <1>14, <1>15
  <2>3. CASE n = a /\ z = w
    BY <1>1, <1>5, <1>7, <2>1, <2>2, <2>3
  <2>4. CASE ~(n = a /\ z = w)
    <3> DEFINE y == v[z][n]
    <3>1. u[z][n] = y /\ y # Null
      BY <2>2, <2>4
    <3>2. y \in S /\ y \in D[n] /\ v.sp_p[y] = n /\ n \notin D[y]
      <4>1. n \notin Under(D, y) /\ y \in S /\ y \in D[n]
        BY <1>1, <3>1, TreeFacts
      <4> QED BY <1>1, <3>1, <4>1 DEF Parented, Under
    <3>3. y # m
      BY <1>5, <3>2 DEF Alone
    <3>4. y = a => h.sp_p[y] # m
      BY <1>5, <1>7, <3>2
    <3> QED BY <1>1, <1>7, <2>1, <3>1, <3>2, <3>3, <3>4
  <2> QED BY <2>3, <2>4
<1>22. Splaying(u, c, e, k, S, E)
  <2>1. /\ \A z \in S : z \in D[m] \/ \E y \in Side : z \in Cut(v, D, y)
        /\ \A z \in Side : \A n \in Cut(v, D, z) :
             /\ On(Other(z), v.vm_start[n], k)
             /\ \A y \in D[m] : On(Other(z), v.vm_start[n], v.vm_start[y])
        /\ \A z \in Side :
             IF hk[z] = Header THEN v[z][Header] = Null
             ELSE /\ hk[z] \in Cut(v, D, z)
                  /\ \A n \in Cut(v, D, z) :
                       n = hk[z] \/ On(Other(z), v.vm_start[n], v.vm_start[hk[z]])
    BY DEF Splaying, v
  <2>2. \A z \in S : z \in E[c] \/ \E y \in Side : z \in Cut(u, E, y)
    BY <1>1, <1>10, <1>17, <1>20, <2>1
  <2>3. \A n \in F[m] :
          /\ On(o, u.vm_start[n], k)
          /\ \A y \in E[c] : On(o, u.vm_start[n], u.vm_start[y])
    <3>1. \A n \in F[m] : (n = m \/ On(o, start(n), start(m))) /\ n \in S
      BY <1>1, <1>5, <1>10, <1>17
    <3>2. \A y \in D[c] : y \in S
      BY <1>5, <1>10
    <3> QED BY <1>1, <1>7, <1>10, <1>20, <3>1, <3>2, OnOrder
  <2>4. ASSUME NEW z \in Side, NEW n \in Cut(u, E, z)
        PROVE  /\ On(Other(z), u.vm_start[n], k)
               /\ \A y \in E[c] : On(Other(z), u.vm_start[n], u.vm_start[y])
    <3>1. CASE n \in Cut(v, D, z)
      BY <1>7, <1>10, <1>20, <2>1, <3>1
    <3>2. CASE n \notin Cut(v, D, z)
      BY <1>1, <1>20, <2>3, <2>4, <3>2
    <3> QED BY <3>1, <3>2
  <2>5. ASSUME NEW z \in Side
        PROVE  IF e[z] = Header THEN u[z][Header] = Null
               ELSE /\ e[z] \in Cut(u, E, z)
                    /\ \A n \in Cut(u, E, z) :
                         n = e[z] \/ On(Other(z), u.vm_start[n], u.vm_start[e[z]])
    <3>1. CASE z = w
      <4>1. m \in Cut(u, E, w) /\ m # Header
        BY <1>1, <1>17, <1>20
      <4>2. \A n \in F[m] : n = m \/ On(o, start(n), start(m))
        BY <1>10, <1>17
      <4>3. \A n \in Cut(v, D, w) : On(o, start(n), start(m))
        BY <1>5, <2>1
      <4> QED BY <1>3, <1>7, <1>20, <3>1, <4>1, <4>2, <4>3
    <3>2. CASE z = o
      BY <1>3, <1>7, <1>20, <2>1, <3>2
    <3> QED BY <1>1, <3>1, <3>2
  <2>6. \A z \in Side : u[z][Header] \in S \cup {Null}
    BY <1>1, <1>5, <1>20
  <2> QED BY <1>1, <1>2, <1>8, <1>20, <1>21, <2>2, <2>4, <2>5, <2>6 DEF Splaying
<1> QED BY <1>9, <1>22 DEF u, e

\* All of S is the tree under n, or there is none and n is NULL.
Whole(h, n, S, D) ==
  /\ Tree(h, S, D)
  /\ Parented(h, S)
  /\ n \in S \cup {Null}
  /\ Under(D, n) = S

\* No key of S is strictly between k and that of n, and none but that is k.
Nearest(h, n, k, S) ==
  \A m \in S : m = n \/ \E w \in Side : /\ On(w, h.vm_start[m], h.vm_start[n])
                                        /\ On(w, h.vm_start[m], k)

\* What was under n on one side may be tied to the hook of the other.
LEMMA AssembleTie ==
  ASSUME NEW v, NEW n, NEW hk, NEW k, NEW S, NEW D, S \subseteq Node,
         Splaying(v, n, hk, k, S, D), NEW w \in Side,
         NEW f, NEW F, f.vm_start = v.vm_start,
         f[w][hk[w]] = Null, f[w][Header] = v[w][Header],
         Under(F, f[w][Header]) = Cut(v, D, w),
         NEW b, Under(F, b) \subseteq D[n],
         \A x \in S : hk[w] \in F[x] => hk[w] \in D[x]
  PROVE  MayTie(f, S, F, w, hk[w], b)
<1> DEFINE o == Other(w)
           a == hk[w]
           start(z) == v.vm_start[z]
<1>1. /\ Tree(v, S, D) /\ k \in Nat /\ Header \notin S
      /\ o \in Side /\ Other(o) = w
  BY NotNodes, NodeAssumption, OnOrder DEF Splaying
<1>2. \A z \in S : start(z) \in Nat
  BY <1>1 DEF Tree
<1>3. \A z \in S : a \in F[z] => z \in Cut(v, D, w) /\ a \in S
  BY SplayApart
<1>4. D[n] \subseteq S /\ Cut(v, D, w) \subseteq S /\ a \notin D[n]
  BY SplayApart
<1>5. ASSUME NEW z \in Cut(v, D, w)
      PROVE  /\ z = a \/ On(w, start(a), start(z))
             /\ \A y \in D[n] : On(w, start(y), start(z))
  <2>1. /\ \A y \in D[n] : On(o, start(z), start(y))
        /\ a # Header /\ a \in Cut(v, D, w)
        /\ z = a \/ On(o, start(z), start(a))
    BY DEF Splaying, Cut, Under
  <2>2. a \in S /\ z \in S
    BY <1>4, <2>1
  <2> QED BY <1>1, <1>2, <1>4, <2>1, <2>2, OnOrder
<1>6. f[w][a] = Null /\ f[w][Header] \in S \cup {Null}
  BY DEF Splaying
<1>7. a # Header => a \in Under(F, f[w][Header])
  BY DEF Splaying
<1>8. a \notin Under(F, b)
  BY <1>4
<1>9. \A z \in S : a \in F[z] => z = a \/ On(w, f.vm_start[a], f.vm_start[z])
  BY <1>3, <1>5
<1>10. \A z \in S : a \in F[z] => \A y \in Under(F, b) :
                                    On(w, f.vm_start[y], f.vm_start[z])
  BY <1>3, <1>5
<1> QED BY <1>6, <1>7, <1>8, <1>9, <1>10 DEF MayTie

\* g comes of h by the end of the splay, with the local node left alone or not.
Assembles(g, h, hk, n) ==
  \E h1, h2, h3, h4 :
    /\ Linked(h1, h, hk["sp_r"], "sp_r", h["sp_l"][n])
    /\ Linked(h2, h1, hk["sp_l"], "sp_l", h1["sp_r"][n])
    /\ Linked(h3, h2, n, "sp_l", h2["sp_r"][Header])
    /\ Linked(h4, h3, n, "sp_r", h3["sp_l"][Header])
    /\ \A w \in Side, x \in Node : g[w][x] = h4[w][x]
    /\ \A x \in Node : g.vm_start[x] = h4.vm_start[x]
    /\ \A x \in Node : g.sp_p[x] = IF x = n THEN Null ELSE h4.sp_p[x]

\* The two parts cut off become the subtrees of n.
LEMMA SplayAssemble ==
  ASSUME NEW h, HeapDom(h), NEW S, S \subseteq Node, NEW D, NEW n, NEW hk, NEW k,
         Splaying(Seen(h, hk), n, hk, k, S, D),
         \A w \in Side : On(w, k, h.vm_start[n]) => h[w][n] = Null,
         NEW g, Assembles(g, h, hk, n)
  PROVE  /\ \E E : Whole(g, n, S, E)
         /\ Nearest(g, n, k, S)
         /\ g.sp_p[n] = Null
<1> DEFINE v == Seen(h, hk)
           ar == hk["sp_r"]
           al == hk["sp_l"]
           br == v["sp_l"][n]
           bl == v["sp_r"][n]
           e1 == MakeChild(v, n, "sp_l", Null)
           e2 == MakeChild(e1, n, "sp_r", Null)
           f1 == MakeChild(e2, ar, "sp_r", br)
           f2 == MakeChild(f1, al, "sp_l", bl)
           start(z) == v.vm_start[z]
<1>1. /\ Null \notin S /\ Header \notin S /\ S \subseteq Slot /\ Header \in Slot
      /\ Tree(v, S, D) /\ Parented(v, S)
      /\ n \in S /\ k \in Nat
      /\ "sp_l" \in Side /\ "sp_r" \in Side
      /\ Other("sp_l") = "sp_r" /\ Other("sp_r") = "sp_l"
  BY NotNodes, NodeAssumption DEF Splaying, Slot, Side, Other
<1>2. hk \in [Side -> S \cup {Header}]
  BY DEF Splaying
<1>3. hk \in [Side -> Slot]
  BY <1>1, <1>2
<1>4. HeapDom(v)
  BY <1>3, SeenIs
<1>5. \A w \in Side : v[w][Header] \in S \cup {Null}
  BY DEF Splaying
<1>6. /\ D[n] \subseteq S /\ n \in D[n] /\ Alone(S, D, n)
      /\ \A z \in Side : hk[z] \notin D[n]
      /\ \A z \in Side : Cut(v, D, z) \subseteq S /\ Cut(v, D, z) \cap D[n] = {}
      /\ \A z \in Side : v[z][Header] # Null => v[z][Header] \in Cut(v, D, z)
      /\ \A z \in Side, y \in S :
           hk[z] \in D[y] => y \in Cut(v, D, z) /\ hk[z] \in S
      /\ \A z \in Side : Cut(v, D, z) \cap Cut(v, D, Other(z)) = {}
      /\ \A z \in Side : \A y \in Cut(v, D, z) : D[y] \subseteq Cut(v, D, z)
  BY SplayApart
<1> HIDE DEF v
<1>7. \A z \in Side, y \in Slot : v[z][y] = IF y = hk[z] THEN Null ELSE h[z][y]
  BY <1>3, SeenIs DEF v
<1>8. v.vm_start = h.vm_start /\ v.sp_p = h.sp_p
  <2>1. /\ "vm_start" \in Field /\ "vm_start" \notin Side
        /\ "sp_p" \in Field /\ "sp_p" \notin Side
    BY DEF Field, Data, Link, Side
  <2> QED BY <1>3, <2>1, SeenIs DEF v
<1>9. h["sp_l"][n] = br /\ h["sp_r"][n] = bl
  BY <1>1, <1>6, <1>7
\* Where the nodes are
<1>10. /\ \A z \in S : start(z) \in Nat
       /\ \A z \in Under(D, br) : On("sp_l", start(z), start(n))
       /\ \A z \in Under(D, bl) : On("sp_r", start(z), start(n))
       /\ \A z \in Cut(v, D, "sp_r") : On("sp_l", start(z), start(n))
       /\ \A z \in Cut(v, D, "sp_l") : On("sp_r", start(z), start(n))
       /\ Under(D, br) \subseteq D[n] /\ Under(D, bl) \subseteq D[n]
       /\ n \notin Under(D, br) /\ n \notin Under(D, bl)
       /\ br \in S \cup {Null} /\ bl \in S \cup {Null}
  <2>1. /\ \A z \in S : start(z) \in Nat
        /\ \A z \in Under(D, br) : On("sp_l", start(z), start(n))
        /\ \A z \in Under(D, bl) : On("sp_r", start(z), start(n))
    BY <1>1 DEF Tree
  <2>2. /\ Under(D, br) \subseteq D[n] /\ Under(D, bl) \subseteq D[n]
        /\ n \notin Under(D, br) /\ n \notin Under(D, bl)
        /\ br \in S \cup {Null} /\ bl \in S \cup {Null}
    BY <1>1, TreeFacts
  <2>3. /\ \A z \in Cut(v, D, "sp_r") : On("sp_l", start(z), start(n))
        /\ \A z \in Cut(v, D, "sp_l") : On("sp_r", start(z), start(n))
    BY <1>1, <1>6 DEF Splaying, v
  <2> QED BY <2>1, <2>2, <2>3
<1>11. \A z \in S : \/ z = n \/ z \in Under(D, br) \/ z \in Under(D, bl)
                    \/ z \in Cut(v, D, "sp_r") \/ z \in Cut(v, D, "sp_l")
  <2>1. \A z \in S : z \in D[n] \/ \E y \in Side : z \in Cut(v, D, y)
    BY DEF Splaying, v
  <2>2. \A z \in S : z \in D[n] <=> z = n \/ \E y \in Side : z \in Under(D, v[y][n])
    BY <1>1 DEF Tree
  <2> QED BY <2>1, <2>2 DEF Side
<1>12. Nearest(v, n, k, S)
  <2> SUFFICES ASSUME NEW m \in S, m # n
               PROVE  \E w \in Side : On(w, start(m), start(n)) /\ On(w, start(m), k)
    BY DEF Nearest
  <2>1. ASSUME NEW w \in Side, m \in Cut(v, D, w)
        PROVE  On(Other(w), start(m), start(n)) /\ On(Other(w), start(m), k)
    BY <1>6, <2>1 DEF Splaying, v
  <2>2. ASSUME NEW w \in Side, m \in Under(D, v[w][n])
        PROVE  On(w, start(m), start(n)) /\ On(w, start(m), k)
    <3>1. On(w, start(m), start(n))
      BY <1>1, <2>2 DEF Tree
    <3>2. ~On(w, k, start(n))
      BY <1>1, <1>6, <1>7, <1>8, <2>2 DEF Under
    <3> QED BY <1>1, <1>10, <3>1, <3>2, OnOrder
  <2> QED BY <1>1, <1>11, <2>1, <2>2
<1> HIDE DEF br, bl
<1>13. PICK h1, h2, h3, h4 :
         /\ Linked(h1, h, ar, "sp_r", br)
         /\ Linked(h2, h1, al, "sp_l", h1["sp_r"][n])
         /\ Linked(h3, h2, n, "sp_l", h2["sp_r"][Header])
         /\ Linked(h4, h3, n, "sp_r", h3["sp_l"][Header])
         /\ \A w \in Side, x \in Node : g[w][x] = h4[w][x]
         /\ \A x \in Node : g.vm_start[x] = h4.vm_start[x]
         /\ \A x \in Node : g.sp_p[x] = IF x = n THEN Null ELSE h4.sp_p[x]
  BY <1>9 DEF Assembles
<1> DEFINE cl == h2["sp_r"][Header]
           cr == h3["sp_l"][Header]
<1>14. ar \in Slot /\ al \in Slot /\ n \in Slot /\ ar # n /\ al # n
       /\ n # Header /\ n \in Node
  BY <1>1, <1>3, <1>6
<1> HIDE DEF ar, al
<1>15. h1["sp_r"][n] = bl
  BY <1>1, <1>9, <1>13, <1>14, LinkedSides
<1>16. /\ \A z \in Side, y \in Slot :
            /\ h1[z][y] = IF y = ar /\ z = "sp_r" THEN br ELSE h[z][y]
            /\ h2[z][y] = IF y = al /\ z = "sp_l" THEN bl ELSE h1[z][y]
       /\ h1.vm_start = h.vm_start /\ h2.vm_start = h1.vm_start
  <2>1. Linked(h2, h1, al, "sp_l", bl)
    BY <1>13, <1>15
  <2> QED BY <1>1, <1>13, <1>14, <2>1, LinkedSides, LinkedTree
<1>17. /\ \A z \in Side, y \in Slot :
            /\ h3[z][y] = IF y = n /\ z = "sp_l" THEN cl ELSE h2[z][y]
            /\ h4[z][y] = IF y = n /\ z = "sp_r" THEN cr ELSE h3[z][y]
       /\ h3.vm_start = h2.vm_start /\ h4.vm_start = h3.vm_start
  <2> HIDE DEF cl, cr
  <2>1. Linked(h3, h2, n, "sp_l", cl) /\ Linked(h4, h3, n, "sp_r", cr)
    BY <1>13 DEF cl, cr
  <2> QED BY <1>1, <1>14, <2>1, LinkedSides, LinkedTree
<1>17a. \A z \in Side, y \in Slot :
          h2[z][y] = IF y = ar /\ z = "sp_r" THEN br
                     ELSE IF y = al /\ z = "sp_l" THEN bl ELSE v[z][y]
  <2> SUFFICES ASSUME NEW z \in Side, NEW y \in Slot
               PROVE  h2[z][y] = IF y = ar /\ z = "sp_r" THEN br
                                 ELSE IF y = al /\ z = "sp_l" THEN bl ELSE v[z][y]
    OBVIOUS
  <2>1. CASE z = "sp_r"
    BY <1>7, <1>16, <2>1 DEF ar
  <2>2. CASE z = "sp_l"
    BY <1>7, <1>16, <2>2 DEF al
  <2> QED BY <2>1, <2>2 DEF Side
\* The subtrees of n are cut off.
<1>18. Linked(e1, v, n, "sp_l", Null) /\ HeapDom(e1)
  BY <1>1, <1>4, <1>14, MakeChildLinked DEF Linked
<1> HIDE DEF e1
<1>19. Linked(e2, e1, n, "sp_r", Null) /\ HeapDom(e2)
  BY <1>1, <1>14, <1>18, MakeChildLinked DEF Linked
<1> HIDE DEF e2
<1>20. Linked(f1, e2, ar, "sp_r", br) /\ HeapDom(f1)
  BY <1>1, <1>14, <1>19, MakeChildLinked DEF Linked
<1> HIDE DEF f1
<1>21. Linked(f2, f1, al, "sp_l", bl)
  BY <1>1, <1>14, <1>20, MakeChildLinked
<1> HIDE DEF f2
<1>22. /\ \A z \in Side, y \in Slot :
            /\ e1[z][y] = IF y = n /\ z = "sp_l" THEN Null ELSE v[z][y]
            /\ e2[z][y] = IF y = n /\ z = "sp_r" THEN Null ELSE e1[z][y]
       /\ e2.vm_start = v.vm_start
  <2>1. /\ \A z \in Side, y \in Slot :
             e1[z][y] = IF y = n /\ z = "sp_l" THEN Null ELSE v[z][y]
        /\ e1.vm_start = v.vm_start
    BY <1>1, <1>14, <1>18, LinkedSides, LinkedTree
  <2>2. /\ \A z \in Side, y \in Slot :
             e2[z][y] = IF y = n /\ z = "sp_r" THEN Null ELSE e1[z][y]
        /\ e2.vm_start = e1.vm_start
    BY <1>1, <1>14, <1>19, LinkedSides, LinkedTree
  <2> QED BY <2>1, <2>2
<1>23. /\ \A z \in Side, y \in Slot :
            /\ f1[z][y] = IF y = ar /\ z = "sp_r" THEN br ELSE e2[z][y]
            /\ f2[z][y] = IF y = al /\ z = "sp_l" THEN bl ELSE f1[z][y]
       /\ f1.vm_start = v.vm_start /\ f2.vm_start = v.vm_start
  BY <1>1, <1>14, <1>20, <1>21, <1>22, LinkedSides, LinkedTree
<1>24. PICK F : Below(F, e2, S, D, n, Null, Null)
  <2>1. Put(e2, v, S, n, "sp_l", Null, Null)
    BY <1>1, <1>10, <1>14, <1>22 DEF Put, Side
  <2>2. Null \in (S \cup {Null}) \ {n}
    BY <1>1
  <2>3. /\ \A z \in Under(D, Null) : On("sp_l", e2.vm_start[z], e2.vm_start[n])
        /\ \A z \in Under(D, Null) : On(Other("sp_l"), e2.vm_start[z], e2.vm_start[n])
    BY DEF Under
  <2>4. Tree(v, S, D) /\ Null \notin S /\ n # Null /\ Alone(S, D, n)
    BY <1>1, <1>6
  <2> QED BY <1>1, <2>1, <2>2, <2>3, <2>4, TreePut
<1>25. /\ Tree(e2, S, F)
       /\ F[n] = {n}
       /\ \A z \in S \ {n} : F[z] = D[z]
  <2>1. S \cup {n} = S /\ Under(D, Null) = {}
    BY <1>1 DEF Under
  <2> QED BY <1>24, <2>1 DEF Below
<1>26. /\ Under(F, v["sp_r"][Header]) = Cut(v, D, "sp_r")
       /\ Under(F, v["sp_l"][Header]) = Cut(v, D, "sp_l")
       /\ Under(F, br) = Under(D, br)
       /\ Under(F, bl) = Under(D, bl)
  <2>1. \A z \in Side : v[z][Header] # Null => v[z][Header] \in S \ {n}
    BY <1>6
  <2>2. (br # Null => br \in S \ {n}) /\ (bl # Null => bl \in S \ {n})
    <3>1. \A z \in S : z \in Under(D, z)
      BY <1>1, UnderNode
    <3> QED BY <1>10, <3>1
  <2> QED BY <1>1, <1>25, <2>1, <2>2 DEF Cut, Under
\* They are tied to the hooks.
<1>27. PICK G : Tied(G, f1, e2, S, F, "sp_r", ar, br)
  <2>1. MayTie(e2, S, F, "sp_r", ar, br)
    <3>1. e2["sp_r"][hk["sp_r"]] = Null /\ e2["sp_r"][Header] = v["sp_r"][Header]
      BY <1>1, <1>7, <1>14, <1>22 DEF ar
    <3>2. \A x \in S : hk["sp_r"] \in F[x] => hk["sp_r"] \in D[x]
      BY <1>6, <1>25, <1>14 DEF ar
    <3>3. /\ Splaying(v, n, hk, k, S, D)
          /\ e2.vm_start = v.vm_start
          /\ Under(F, e2["sp_r"][Header]) = Cut(v, D, "sp_r")
          /\ Under(F, br) \subseteq D[n]
      BY <1>10, <1>22, <1>26, <3>1 DEF v
    <3> QED BY <1>1, <3>1, <3>2, <3>3, AssembleTie DEF ar
  <2>2. ar \in S \cup {Header} /\ br \in S \cup {Null}
    BY <1>1, <1>2, <1>10 DEF ar
  <2> QED BY <1>1, <1>20, <1>25, <2>1, <2>2, TreeTie
<1>28. /\ Tree(f1, S, G)
       /\ f1["sp_r"][Header] \in S \cup {Null}
       /\ Under(G, f1["sp_r"][Header]) = Cut(v, D, "sp_r") \cup Under(D, br)
       /\ \A x \in S : ar \notin F[x] => G[x] = F[x]
       /\ \A x \in S : G[x] \subseteq F[x] \cup Under(D, br)
  <2>1. e2["sp_r"][Header] = v["sp_r"][Header]
    BY <1>1, <1>14, <1>22
  <2> QED BY <1>26, <1>27, <2>1 DEF Tied
<1>29. /\ f1["sp_l"][Header] = v["sp_l"][Header]
       /\ Under(G, f1["sp_l"][Header]) = Cut(v, D, "sp_l")
       /\ Under(G, bl) = Under(D, bl)
  <2>1. f1["sp_l"][Header] = v["sp_l"][Header]
    BY <1>1, <1>14, <1>22, <1>23
  <2>2. \A x \in S : ar \in F[x] => x \in Cut(v, D, "sp_r")
    BY <1>1, <1>6, <1>14, <1>25 DEF ar
  <2>3. v["sp_l"][Header] # Null => /\ v["sp_l"][Header] \in S
                                    /\ v["sp_l"][Header] \notin Cut(v, D, "sp_r")
    BY <1>1, <1>6
  <2>4. bl # Null => bl \in S /\ bl \notin Cut(v, D, "sp_r")
    <3>1. \A z \in S : z \in Under(D, z)
      BY <1>1, UnderNode
    <3> QED BY <1>1, <1>6, <1>10, <3>1
  <2> QED BY <1>26, <1>28, <2>1, <2>2, <2>3, <2>4 DEF Under
<1>30. PICK H : Tied(H, f2, f1, S, G, "sp_l", al, bl)
  <2>1. MayTie(f1, S, G, "sp_l", al, bl)
    <3>1. f1["sp_l"][hk["sp_l"]] = Null
      BY <1>1, <1>7, <1>14, <1>22, <1>23 DEF al
    <3>2. \A x \in S : hk["sp_l"] \in G[x] => hk["sp_l"] \in D[x]
      BY <1>1, <1>6, <1>10, <1>14, <1>25, <1>28 DEF al
    <3>3. /\ Splaying(v, n, hk, k, S, D)
          /\ f1.vm_start = v.vm_start
          /\ f1["sp_l"][Header] = v["sp_l"][Header]
          /\ Under(G, f1["sp_l"][Header]) = Cut(v, D, "sp_l")
          /\ Under(G, bl) \subseteq D[n]
      BY <1>10, <1>23, <1>29 DEF v
    <3> QED BY <1>1, <3>1, <3>2, <3>3, AssembleTie DEF al
  <2>2. al \in S \cup {Header} /\ bl \in S \cup {Null}
    BY <1>1, <1>2, <1>10 DEF al
  <2> QED BY <1>1, <1>21, <1>28, <2>1, <2>2, TreeTie
<1>31. /\ Tree(f2, S, H)
       /\ f2["sp_l"][Header] \in S \cup {Null}
       /\ Under(H, f2["sp_l"][Header]) = Cut(v, D, "sp_l") \cup Under(D, bl)
       /\ \A x \in S : al \notin G[x] => H[x] = G[x]
       /\ \A x \in S : H[x] \subseteq G[x] \cup Under(D, bl)
  BY <1>29, <1>30 DEF Tied
<1>32. /\ f2["sp_r"][Header] = f1["sp_r"][Header]
       /\ Under(H, f2["sp_r"][Header]) = Cut(v, D, "sp_r") \cup Under(D, br)
  <2>1. f2["sp_r"][Header] = f1["sp_r"][Header]
    BY <1>1, <1>23
  <2>2. al \notin Cut(v, D, "sp_r") \cup Under(D, br)
    <3>1. al \notin D[n]
      BY <1>1, <1>6 DEF al
    <3>2. al \in Cut(v, D, "sp_r") => al \in Cut(v, D, "sp_l")
      <4>1. al \in S => al \in D[al]
        BY <1>1, TreeFacts
      <4> QED BY <1>1, <1>6, <4>1 DEF al
    <3> QED BY <1>1, <1>6, <1>10, <3>1, <3>2
  <2> QED BY <1>28, <1>31, <2>1, <2>2 DEF Under
\* They become the subtrees of n.
<1>33. cl = f2["sp_r"][Header] /\ cr = f2["sp_l"][Header]
  <2>1. cl = f2["sp_r"][Header]
    BY <1>1, <1>7, <1>14, <1>16, <1>22, <1>23 DEF ar
  <2>2. cr = f2["sp_l"][Header]
    BY <1>1, <1>7, <1>14, <1>16, <1>17, <1>22, <1>23 DEF al
  <2> QED BY <2>1, <2>2
<1>34. PICK E : Below(E, g, S, H, n, cl, cr)
  <2>1. g.vm_start[n] = v.vm_start[n] /\ \A x \in S : g.vm_start[x] = v.vm_start[x]
    BY <1>1, <1>8, <1>13, <1>16, <1>17
  <2>2. Put(g, f2, S, n, "sp_l", cl, cr)
    <3>1. g["sp_l"][n] = cl /\ g["sp_r"][n] = cr
      BY <1>1, <1>13, <1>14, <1>17
    <3>2. ASSUME NEW x \in S \ {n}, NEW z \in Side PROVE g[z][x] = f2[z][x]
      <4>1. g[z][x] = h2[z][x] /\ x \in Slot
        BY <1>1, <1>13, <1>17
      <4>2. h2[z][x] = f2[z][x]
        BY <1>17a, <1>22, <1>23, <4>1
      <4> QED BY <4>1, <4>2
    <3> QED BY <1>1, <1>10, <1>23, <2>1, <3>1, <3>2 DEF Put
  <2>3. Alone(S, H, n)
    <3> SUFFICES ASSUME NEW x \in S, n \in H[x] PROVE x = n
      BY DEF Alone
    <3>1. n \in F[x]
      BY <1>10, <1>28, <1>31
    <3> QED BY <1>6, <1>25, <3>1 DEF Alone
  <2>4. /\ \A z \in Under(H, cl) : On("sp_l", g.vm_start[z], g.vm_start[n])
        /\ \A z \in Under(H, cr) : On(Other("sp_l"), g.vm_start[z], g.vm_start[n])
    <3>1. /\ \A z \in Under(H, cl) : On("sp_l", start(z), start(n)) /\ z \in S
          /\ \A z \in Under(H, cr) : On("sp_r", start(z), start(n)) /\ z \in S
      BY <1>1, <1>6, <1>10, <1>31, <1>32, <1>33
    <3> QED BY <1>1, <2>1, <3>1
  <2>5. cl \in (S \cup {Null}) \ {n} /\ cr \in (S \cup {Null}) \ {n}
    <3>1. cl \in S \cup {Null} /\ cr \in S \cup {Null}
      BY <1>28, <1>31, <1>32, <1>33
    <3>2. n \notin Under(H, cl) /\ n \notin Under(H, cr)
      BY <1>1, <1>6, <1>10, <1>31, <1>32, <1>33
    <3>3. \A z \in S : z \in Under(H, z)
      BY <1>1, <1>31, UnderNode
    <3> QED BY <1>1, <3>1, <3>2, <3>3
  <2>6. Tree(f2, S, H) /\ Null \notin S /\ n # Null
    BY <1>1, <1>31
  <2> HIDE DEF cl, cr
  <2> QED BY <1>1, <2>2, <2>3, <2>4, <2>5, <2>6, TreePut
<1>35. Tree(g, S, E) /\ E[n] = S
  <2>1. S \cup {n} = S
    BY <1>1
  <2>2. Tree(g, S, E) /\ E[n] = {n} \cup Under(H, cl) \cup Under(H, cr)
    BY <1>34, <2>1 DEF Below
  <2>3. E[n] \subseteq S
    BY <1>1, <2>2, TreeFacts
  <2> QED BY <1>11, <1>31, <1>32, <1>33, <2>2, <2>3
<1> HIDE DEF cl, cr
<1>36. /\ cl # Null => /\ cl \in S /\ cl # n /\ cl # cr
                       /\ cl = br \/ cl = v["sp_r"][Header]
       /\ cr # Null => /\ cr \in S /\ cr # n
                       /\ cr = bl \/ cr = v["sp_l"][Header]
  <2>1. cl = (IF ar = Header THEN br ELSE v["sp_r"][Header])
    BY <1>1, <1>7, <1>14, <1>16 DEF ar, cl
  <2>2. cr = (IF al = Header THEN bl ELSE v["sp_l"][Header])
    BY <1>1, <1>7, <1>14, <1>16, <1>17 DEF al, cr
  <2>3. \A z \in S : z \in Under(H, z)
    BY <1>1, <1>31, UnderNode
  <2>4. /\ \A z \in Under(H, cl) : On("sp_l", start(z), start(n)) /\ z \in S /\ z # n
        /\ \A z \in Under(H, cr) : On("sp_r", start(z), start(n)) /\ z \in S /\ z # n
    BY <1>1, <1>6, <1>10, <1>31, <1>32, <1>33
  <2>5. cl \in S \cup {Null} /\ cr \in S \cup {Null}
    BY <1>28, <1>31, <1>32, <1>33
  <2>6. cl # Null => cl \in S /\ cl # n /\ On("sp_l", start(cl), start(n))
    BY <2>3, <2>4, <2>5
  <2>7. cr # Null => cr \in S /\ cr # n /\ On("sp_r", start(cr), start(n))
    BY <2>3, <2>4, <2>5
  <2>8. "sp_l" # "sp_r"
    OBVIOUS
  <2> QED BY <1>1, <1>10, <2>1, <2>2, <2>6, <2>7, <2>8, OnApart
<1>37. ASSUME NEW x \in S, NEW z \in Side, g[z][x] # Null
       PROVE  g.sp_p[g[z][x]] = x
  <2>1. /\ \A y \in Slot : h1.sp_p[y] = IF y = ar /\ h.sp_p[y] = br THEN Null
                                        ELSE IF y = br THEN ar ELSE h.sp_p[y]
        /\ \A y \in Slot : h2.sp_p[y] = IF y = al /\ h1.sp_p[y] = bl THEN Null
                                        ELSE IF y = bl THEN al ELSE h1.sp_p[y]
    BY <1>13, <1>15 DEF Linked
  <2>2. /\ \A y \in Slot : h3.sp_p[y] = IF y = n /\ h2.sp_p[y] = cl THEN Null
                                        ELSE IF y = cl THEN n ELSE h2.sp_p[y]
        /\ \A y \in Slot : h4.sp_p[y] = IF y = n /\ h3.sp_p[y] = cr THEN Null
                                        ELSE IF y = cr THEN n ELSE h3.sp_p[y]
    BY <1>13 DEF Linked, cl, cr
  <2>3. ASSUME NEW y \in S, y # n, y # cl, y # cr
        PROVE  g.sp_p[y] = h2.sp_p[y]
    BY <1>1, <1>13, <2>2, <2>3
  <2>4. CASE x = n
    <3>1. CASE z = "sp_l"
      <4>1. g[z][x] = cl
        BY <1>1, <1>13, <1>14, <1>17, <2>4, <3>1
      <4> QED BY <1>1, <1>13, <1>36, <1>37, <2>2, <2>4, <4>1
    <3>2. CASE z = "sp_r"
      <4>1. g[z][x] = cr
        BY <1>1, <1>13, <1>14, <1>17, <2>4, <3>2
      <4> QED BY <1>1, <1>13, <1>36, <1>37, <2>2, <2>4, <4>1
    <3> QED BY <3>1, <3>2 DEF Side
  <2>5. \A y \in S : y \in D[n] => y # v["sp_r"][Header] /\ y # v["sp_l"][Header]
                                    /\ y # ar /\ y # al
    BY <1>1, <1>6 DEF ar, al
  <2>6. /\ br # Null => br \in S /\ br \in D[n] /\ br # n /\ br # bl /\ v.sp_p[br] = n
        /\ bl # Null => bl \in S /\ bl \in D[n] /\ bl # n /\ v.sp_p[bl] = n
    <3>1. \A y \in S : y \in Under(D, y)
      BY <1>1, UnderNode
    <3>2. /\ br # Null => br \in S /\ br \in D[n] /\ br # n
                          /\ On("sp_l", start(br), start(n))
          /\ bl # Null => bl \in S /\ bl \in D[n] /\ bl # n
                          /\ On("sp_r", start(bl), start(n))
      BY <1>10, <3>1
    <3>3. br # Null => v.sp_p[br] = n
      BY <1>1 DEF Parented, br
    <3>4. bl # Null => v.sp_p[bl] = n
      BY <1>1 DEF Parented, bl
    <3>5. "sp_l" # "sp_r"
      OBVIOUS
    <3> QED BY <1>1, <1>10, <3>2, <3>3, <3>4, <3>5, OnApart
  <2>7. CASE x # n
    <3>1. g[z][x] = IF x = ar /\ z = "sp_r" THEN br
                    ELSE IF x = al /\ z = "sp_l" THEN bl ELSE v[z][x]
      <4>1. g[z][x] = h2[z][x] /\ x \in Slot
        BY <1>1, <1>13, <1>17, <2>7
      <4> QED BY <1>17a, <4>1
    <3>2. CASE x = ar /\ z = "sp_r"
      <4>1. g[z][x] = br /\ br # Null
        BY <1>37, <3>1, <3>2
      <4>2. br # n /\ br # cl /\ br # cr /\ br # al /\ br # bl /\ br # ar /\ br \in S
        <5>1. br # cl
          <6>1. cl = (IF ar = Header THEN br ELSE v["sp_r"][Header])
            BY <1>1, <1>7, <1>14, <1>16 DEF ar, cl
          <6> QED BY <1>1, <2>5, <2>6, <3>2, <4>1, <6>1
        <5> QED BY <1>36, <2>5, <2>6, <4>1, <5>1
      <4>3. g.sp_p[br] = h2.sp_p[br]
        BY <2>3, <4>2
      <4>4. br \in Slot
        BY <1>1, <4>2
      <4>5. h2.sp_p[br] = ar
        BY <2>1, <4>2, <4>4
      <4> QED BY <3>2, <4>1, <4>3, <4>5
    <3>3. CASE x = al /\ z = "sp_l"
      <4>1. g[z][x] = bl /\ bl # Null
        BY <1>37, <3>1, <3>3
      <4>2. bl # n /\ bl # cl /\ bl # cr /\ bl # al /\ bl # br /\ bl \in S
        <5>1. bl # cr
          <6>1. cr = (IF al = Header THEN bl ELSE v["sp_l"][Header])
            BY <1>1, <1>7, <1>14, <1>16, <1>17 DEF al, cr
          <6> QED BY <1>1, <2>5, <2>6, <3>3, <4>1, <6>1
        <5> QED BY <1>36, <2>5, <2>6, <4>1, <5>1
      <4>3. g.sp_p[bl] = h2.sp_p[bl]
        BY <2>3, <4>2
      <4>4. bl \in Slot
        BY <1>1, <4>2
      <4>5. h2.sp_p[bl] = al
        BY <2>1, <4>2, <4>4
      <4> QED BY <3>3, <4>1, <4>3, <4>5
    <3>4. CASE ~(x = ar /\ z = "sp_r") /\ ~(x = al /\ z = "sp_l")
      <4> DEFINE y == v[z][x]
      <4>1. g[z][x] = y /\ y # Null
        BY <1>37, <3>1, <3>4
      <4>2. y \in S /\ y \in D[x] /\ v.sp_p[y] = x /\ x \notin D[y]
        <5>1. x \notin Under(D, y) /\ y \in S /\ y \in D[x]
          BY <1>1, <4>1, TreeFacts
        <5> QED BY <1>1, <4>1, <5>1 DEF Parented, Under
      <4> HIDE DEF y
      <4>3. y # n /\ y # br /\ y # bl
        BY <1>6, <2>6, <2>7, <4>1, <4>2 DEF Alone
      <4>4. y # v["sp_r"][Header] /\ y # v["sp_l"][Header]
        <5> SUFFICES ASSUME NEW w \in Side, y = v[w][Header] PROVE FALSE
          BY <1>1
        <5>1. y \in Cut(v, D, w) /\ Cut(v, D, w) = D[y]
          BY <1>1, <1>6, <4>2 DEF Cut, Under
        <5>2. x \notin Cut(v, D, w)
          BY <4>2, <5>1
        <5>3. x \notin D[n]
          <6>1. x \in D[n] => D[x] \subseteq D[n]
            BY <1>1 DEF Tree
          <6> QED BY <1>6, <4>2, <5>1, <6>1
        <5>4. PICK u \in Side : x \in Cut(v, D, u)
          <6>1. \A q \in S : q \in D[n] \/ \E p \in Side : q \in Cut(v, D, p)
            BY DEF Splaying, v
          <6> QED BY <5>3, <6>1
        <5>5. y \in Cut(v, D, u)
          BY <1>6, <4>2, <5>4
        <5>6. u = Other(w)
          BY <5>2, <5>4, OnOrder
        <5> QED BY <1>6, <5>1, <5>5, <5>6
      <4>5. y # cl /\ y # cr
        BY <1>36, <4>1, <4>3, <4>4
      <4>5a. x \in D[n] => y \in D[n]
        BY <1>1, <4>2 DEF Tree
      <4>5b. h.sp_p[y] = x
        BY <1>8, <4>2
      <4>6. y = ar => h.sp_p[y] # br
        BY <1>1, <2>5, <2>6, <4>2, <4>5a, <4>5b
      <4>8. y \in Slot
        BY <1>1, <4>2
      <4>7. y = al => h1.sp_p[y] # bl
        BY <1>1, <2>1, <2>5, <2>6, <4>2, <4>3, <4>5a, <4>5b, <4>6, <4>8
      <4>9. h2.sp_p[y] = h.sp_p[y]
        BY <2>1, <4>3, <4>6, <4>7, <4>8
      <4> QED BY <1>8, <2>3, <4>1, <4>2, <4>3, <4>5, <4>9
    <3> QED BY <3>2, <3>3, <3>4
  <2> QED BY <2>4, <2>7
<1>38. Whole(g, n, S, E)
  <2>1. Under(E, n) = S
    BY <1>1, <1>35 DEF Under
  <2> QED BY <1>1, <1>35, <1>37, <2>1 DEF Whole, Parented
<1>39. Nearest(g, n, k, S)
  <2>1. \A x \in S : g.vm_start[x] = v.vm_start[x]
    BY <1>1, <1>8, <1>13, <1>16, <1>17
  <2> QED BY <1>1, <1>12, <2>1 DEF Nearest
<1> QED BY <1>13, <1>14, <1>38, <1>39
-----------------------------------------------------------------------------
(* Whole trees *)

\* Of the fields of the nodes of S, g is like h.
Same(g, h, S) == \A f \in Field, n \in S : g[f][n] = h[f][n]

\* Same, field by field
LEMMA SameFields ==
  ASSUME NEW g, NEW h, NEW S, Same(g, h, S)
  PROVE  /\ \A n \in S, w \in Side : g[w][n] = h[w][n]
         /\ \A n \in S : /\ g.sp_p[n] = h.sp_p[n]
                         /\ g.vm_prev[n] = h.vm_prev[n]
                         /\ g.vm_next[n] = h.vm_next[n]
                         /\ g.vm_start[n] = h.vm_start[n]
                         /\ g.vm_end[n] = h.vm_end[n]
                         /\ g.vm_flags[n] = h.vm_flags[n]
<1>1. /\ Side \subseteq Field
      /\ {"sp_p", "vm_prev", "vm_next", "vm_start", "vm_end", "vm_flags"} \subseteq Field
  BY DEF Field, Link, Data, Side
<1>2. \A f \in Field, n \in S : g[f][n] = h[f][n]
  BY DEF Same
<1> HIDE DEF Field
<1>3. \A f \in {"sp_p", "vm_prev", "vm_next", "vm_start", "vm_end", "vm_flags"} :
        \A n \in S : g[f][n] = h[f][n]
  BY <1>1, <1>2
<1> QED BY <1>1, <1>2, <1>3

\* The pointers of the tree and the order of its keys are all that matters.
LEMMA WholeSame ==
  ASSUME NEW h, NEW g, NEW S, NEW D, NEW n, Whole(h, n, S, D), Null \notin S,
         \A m \in S, w \in Side : g[w][m] = h[w][m],
         \A m \in S : m # n => g.sp_p[m] = h.sp_p[m],
         \A m \in S : g.vm_start[m] \in Nat,
         \A l, m \in S : h.vm_start[l] < h.vm_start[m] =>
                           g.vm_start[l] < g.vm_start[m]
  PROVE  Whole(g, n, S, D)
<1>1. Tree(h, S, D) /\ Parented(h, S) /\ n \in S \cup {Null} /\ Under(D, n) = S
  BY DEF Whole
<1>2. Tree(g, S, D)
  BY <1>1, TreeSame
<1>3. \A m \in S, w \in Side : h[w][m] # Null => h[w][m] \in S /\ h[w][m] # n
  <2> SUFFICES ASSUME NEW m \in S, NEW w \in Side, h[w][m] # Null
               PROVE  h[w][m] \in S /\ h[w][m] # n
    OBVIOUS
  <2>1. /\ h[w][m] \in S \cup {Null} /\ h[w][m] \in D[m] /\ m \in D[m]
        /\ Under(D, h[w][m]) \subseteq D[m] /\ m \notin Under(D, h[w][m])
    BY <1>1, TreeFacts
  <2>2. h[w][m] \in S
    BY <2>1
  <2>3. ASSUME h[w][m] = n PROVE FALSE
    <3>1. Under(D, h[w][m]) = S
      BY <2>3, <1>1
    <3> QED BY <3>1, <2>1
  <2> QED BY <2>2, <2>3
<1>4. Parented(g, S)
  <2> SUFFICES ASSUME NEW m \in S, NEW w \in Side, g[w][m] # Null
               PROVE  g.sp_p[g[w][m]] = m
    BY DEF Parented
  <2>1. g[w][m] = h[w][m]
    OBVIOUS
  <2>2. h[w][m] \in S /\ h[w][m] # n
    BY <2>1, <1>3
  <2>3. h.sp_p[h[w][m]] = m
    BY <1>1, <2>1 DEF Parented
  <2> QED BY <2>1, <2>2, <2>3
<1> QED BY <1>1, <1>2, <1>4 DEF Whole

\* All nodes are under the top, and it is under no other.
LEMMA WholeFacts ==
  ASSUME NEW h, NEW S, NEW D, NEW n, Whole(h, n, S, D), Null \notin S
  PROVE  /\ n = Null => S = {}
         /\ n # Null => n \in S /\ D[n] = S
         /\ S # {} => n # Null
         /\ Alone(S, D, n)
         /\ \A x \in S : x = n \/ \E w \in Side : x \in Under(D, h[w][n])
         /\ \A x \in S, w \in Side : h[w][x] # n \/ n = Null
<1>1. Tree(h, S, D) /\ n \in S \cup {Null} /\ Under(D, n) = S
  BY DEF Whole
<1>2. CASE n = Null
  <2>1. S = {}
    BY <1>1, <1>2 DEF Under
  <2> QED BY <2>1, <1>2 DEF Alone
<1>3. CASE n # Null
  <2>1. n \in S /\ D[n] = S
    BY <1>1, <1>3 DEF Under
  <2>2. Alone(S, D, n)
    <3>1. \A x \in S, m \in S : x \in D[m] /\ m \in D[x] => m = x
      BY <1>1, TreeFacts
    <3> QED BY <2>1, <3>1 DEF Alone
  <2>3. \A x \in S : x \in D[n] <=> x = n \/ \E w \in Side : x \in Under(D, h[w][n])
    BY <1>1, <2>1 DEF Tree
  <2>4. \A x \in S, w \in Side : h[w][x] # n
    <3> SUFFICES ASSUME NEW x \in S, NEW w \in Side, h[w][x] = n PROVE FALSE
      OBVIOUS
    <3>1. x \notin Under(D, h[w][x])
      BY <1>1, TreeFacts
    <3>2. Under(D, h[w][x]) = S
      BY <1>1
    <3> QED BY <3>1, <3>2
  <2> QED BY <2>1, <2>2, <2>3, <2>4, <1>3
<1> QED BY <1>2, <1>3

\* A tree of one node
LEMMA WholeOne ==
  ASSUME NEW h, NEW z, z # Null, h.vm_start[z] \in Nat,
         \A w \in Side : h[w][z] = Null
  PROVE  \E E : Whole(h, z, {z}, E)
<1> DEFINE E == [x \in {z} |-> {z}]
<1>0. E[z] = {z}
  OBVIOUS
<1>1. Tree(h, {z}, E)
  <2>1. E \in [{z} -> SUBSET {z}]
    OBVIOUS
  <2> HIDE DEF E
  <2> QED BY <2>1, <1>0 DEF Tree, Under
<1>2. Parented(h, {z})
  BY DEF Parented
<1> HIDE DEF E
<1> QED BY <1>0, <1>1, <1>2 DEF Whole, Under

\* A tree of no nodes
LEMMA WholeNone ==
  ASSUME NEW h
  PROVE  \E E : Whole(h, Null, {}, E)
<1> DEFINE E == [x \in {} |-> {}]
<1>1. E \in [{} -> SUBSET {}]
  OBVIOUS
<1> HIDE DEF E
<1>2. Tree(h, {}, E)
  BY <1>1 DEF Tree
<1> QED BY <1>2 DEF Whole, Under, Parented

-----------------------------------------------------------------------------
(* The list *)

\* The pointer of the list towards the nodes on side w
ListOf(w) == IF w = "sp_l" THEN "vm_prev" ELSE "vm_next"

\* Node m is next to n in S on side w, or is NULL.
NextTo(h, S, n, w, m) ==
  \/ m = Null /\ \A x \in S : ~On(w, h.vm_start[x], h.vm_start[n])
  \/ /\ m \in S
     /\ On(w, h.vm_start[m], h.vm_start[n])
     /\ \A x \in S : On(w, h.vm_start[x], h.vm_start[n]) =>
                       x = m \/ On(w, h.vm_start[x], h.vm_start[m])

\* The list has the nodes of S in the order of their keys, all different.
Listed(h, S) ==
  /\ \A n \in S : h.vm_start[n] \in Nat
  /\ \A m, n \in S : h.vm_start[m] = h.vm_start[n] => m = n
  /\ \A n \in S, w \in Side : NextTo(h, S, n, w, h[ListOf(w)][n])

\* A list stays one when no pointer of it changes, nor the order of its keys.
LEMMA ListedSame ==
  ASSUME NEW h, NEW g, NEW S, Listed(h, S), Null \notin S,
         \A m \in S, w \in Side : g[ListOf(w)][m] = h[ListOf(w)][m],
         \A m \in S : g.vm_start[m] \in Nat,
         \A l, m \in S : h.vm_start[l] < h.vm_start[m] =>
                           g.vm_start[l] < g.vm_start[m]
  PROVE  Listed(g, S)
<1>1. \A l, m \in S : l = m \/ h.vm_start[l] < h.vm_start[m]
                            \/ h.vm_start[m] < h.vm_start[l]
  <2> SUFFICES ASSUME NEW l \in S, NEW m \in S
               PROVE  l = m \/ h.vm_start[l] < h.vm_start[m]
                            \/ h.vm_start[m] < h.vm_start[l]
    OBVIOUS
  <2>1. h.vm_start[l] \in Nat /\ h.vm_start[m] \in Nat
        /\ (h.vm_start[l] = h.vm_start[m] => l = m)
    BY DEF Listed
  <2> QED BY <2>1
<1>2. \A l, m \in S : g.vm_start[l] < g.vm_start[m] <=> h.vm_start[l] < h.vm_start[m]
  <2> SUFFICES ASSUME NEW l \in S, NEW m \in S
               PROVE  g.vm_start[l] < g.vm_start[m] <=> h.vm_start[l] < h.vm_start[m]
    OBVIOUS
  <2>1. /\ g.vm_start[l] \in Nat /\ g.vm_start[m] \in Nat
        /\ h.vm_start[l] < h.vm_start[m] => g.vm_start[l] < g.vm_start[m]
        /\ h.vm_start[m] < h.vm_start[l] => g.vm_start[m] < g.vm_start[l]
    OBVIOUS
  <2>2. l = m \/ h.vm_start[l] < h.vm_start[m] \/ h.vm_start[m] < h.vm_start[l]
    BY <1>1
  <2> QED BY <2>1, <2>2
<1>3. \A w \in Side, l, m \in S :
        On(w, g.vm_start[l], g.vm_start[m]) <=> On(w, h.vm_start[l], h.vm_start[m])
  BY <1>2 DEF On
<1>4. \A m, n \in S : g.vm_start[m] = g.vm_start[n] => m = n
  <2> SUFFICES ASSUME NEW l \in S, NEW m \in S, g.vm_start[l] = g.vm_start[m]
               PROVE  l = m
    OBVIOUS
  <2>1. /\ g.vm_start[l] \in Nat /\ g.vm_start[m] \in Nat
        /\ h.vm_start[l] < h.vm_start[m] => g.vm_start[l] < g.vm_start[m]
        /\ h.vm_start[m] < h.vm_start[l] => g.vm_start[m] < g.vm_start[l]
    OBVIOUS
  <2>2. l = m \/ h.vm_start[l] < h.vm_start[m] \/ h.vm_start[m] < h.vm_start[l]
    BY <1>1
  <2> QED BY <2>1, <2>2
<1>5. \A n \in S, w \in Side : NextTo(g, S, n, w, g[ListOf(w)][n])
  <2> SUFFICES ASSUME NEW n \in S, NEW w \in Side
               PROVE  NextTo(g, S, n, w, g[ListOf(w)][n])
    OBVIOUS
  <2> DEFINE m == h[ListOf(w)][n]
  <2>1. g[ListOf(w)][n] = m /\ NextTo(h, S, n, w, m)
    BY DEF Listed
  <2>2. \A x, y \in S :
          On(w, g.vm_start[x], g.vm_start[y]) <=> On(w, h.vm_start[x], h.vm_start[y])
    BY <1>3
  <2> HIDE DEF m
  <2>3. NextTo(g, S, n, w, m)
    BY <2>1, <2>2 DEF NextTo
  <2> QED BY <2>1, <2>3
<1> QED BY <1>4, <1>5 DEF Listed
\* z comes next to b on side w.
ListAdds(g, h, S, z, b, w) ==
  /\ \A n \in S \cup {z} : g.vm_start[n] = h.vm_start[n]
  /\ g[ListOf(w)][z] = h[ListOf(w)][b]
  /\ g[ListOf(Other(w))][z] = b
  /\ \A n \in S : g[ListOf(w)][n] = IF n = b THEN z ELSE h[ListOf(w)][n]
  /\ \A n \in S : g[ListOf(Other(w))][n] =
                    IF n = h[ListOf(w)][b] THEN z ELSE h[ListOf(Other(w))][n]

\* A list with a node more, put in the place its key asks for
LEMMA ListAdded ==
  ASSUME NEW h, NEW S, Listed(h, S), Null \notin S, NEW z, z \notin S, z # Null,
         h.vm_start[z] \in Nat, NEW b \in S, NEW w \in Side,
         On(w, h.vm_start[z], h.vm_start[b]),
         \A x \in S : On(w, h.vm_start[x], h.vm_start[b]) =>
                        On(w, h.vm_start[x], h.vm_start[z]),
         NEW g, ListAdds(g, h, S, z, b, w)
  PROVE  Listed(g, S \cup {z})
<1> DEFINE T == S \cup {z}
           o == Other(w)
           d == h[ListOf(w)][b]
           B(v, x, y) == On(v, h.vm_start[x], h.vm_start[y])
<1>1. /\ o \in Side /\ o # w /\ Other(o) = w
      /\ \A v \in Side : v = w \/ v = o
  BY OnOrder
<1>2. /\ \A x \in T : h.vm_start[x] \in Nat
      /\ \A x, y \in S : h.vm_start[x] = h.vm_start[y] => x = y
      /\ \A x \in S, v \in Side : NextTo(h, S, x, v, h[ListOf(v)][x])
  BY DEF Listed
<1>3. /\ \A v \in Side, x \in T : ~B(v, x, x)
      /\ \A v \in Side, x, y, u \in T : B(v, x, y) /\ B(v, y, u) => B(v, x, u)
      /\ \A v \in Side, x, y \in T : B(v, x, y) <=> B(Other(v), y, x)
  BY <1>2, OnOrder
<1>4. \A x, y \in S : x = y \/ B(w, x, y) \/ B(w, y, x)
  <2> SUFFICES ASSUME NEW x \in S, NEW y \in S PROVE x = y \/ B(w, x, y) \/ B(w, y, x)
    OBVIOUS
  <2>1. /\ h.vm_start[x] \in Nat /\ h.vm_start[y] \in Nat
        /\ h.vm_start[x] = h.vm_start[y] => x = y
    BY <1>2
  <2> QED BY <2>1 DEF On
<1>5. B(w, z, b) /\ \A x \in S : B(w, x, b) => B(w, x, z)
  OBVIOUS
<1>6. \A x \in S, v \in Side :
        \/ h[ListOf(v)][x] = Null /\ \A y \in S : ~B(v, y, x)
        \/ /\ h[ListOf(v)][x] \in S
           /\ B(v, h[ListOf(v)][x], x)
           /\ \A y \in S : B(v, y, x) =>
                y = h[ListOf(v)][x] \/ B(v, y, h[ListOf(v)][x])
  BY <1>2 DEF NextTo
<1>7. \A x, y \in T, v \in Side :
        B(v, x, y) <=> On(v, g.vm_start[x], g.vm_start[y])
  BY DEF ListAdds
<1>8. /\ \A x \in T : g.vm_start[x] = h.vm_start[x]
      /\ g[ListOf(w)][z] = d
      /\ g[ListOf(o)][z] = b
      /\ \A x \in S : g[ListOf(w)][x] = IF x = b THEN z ELSE h[ListOf(w)][x]
      /\ \A x \in S : g[ListOf(o)][x] = IF x = d THEN z ELSE h[ListOf(o)][x]
  BY DEF ListAdds
<1>d. \/ d = Null /\ \A y \in S : ~B(w, y, b)
      \/ d \in S /\ B(w, d, b) /\ \A y \in S : B(w, y, b) => y = d \/ B(w, y, d)
  BY <1>6
<1> HIDE DEF B, o, d
<1>e. \A x, y \in T : B(o, x, y) <=> B(w, y, x)
  BY <1>1, <1>3
<1>f. \A x \in S : x = b \/ B(w, x, z) \/ B(w, z, x)
  BY <1>3, <1>4, <1>5
<1> DEFINE Next1(n, v, m) ==
             \/ m = Null /\ \A x \in T : ~B(v, x, n)
             \/ /\ m \in T
                /\ B(v, m, n)
                /\ \A x \in T : B(v, x, n) => x = m \/ B(v, x, m)
<1>9. \A m : \A n \in T, v \in Side : Next1(n, v, m) => NextTo(g, T, n, v, m)
  BY <1>7 DEF NextTo
<1>10. ASSUME NEW n \in T PROVE Next1(n, w, g[ListOf(w)][n])
  <2>1. CASE n = z
    <3>1. g[ListOf(w)][n] = d
      BY <2>1, <1>8
    <3>2. ASSUME NEW x \in T, B(w, x, z) PROVE x \in S /\ B(w, x, b)
      BY <3>2, <1>3, <1>5
    <3>3. CASE d = Null
      BY <3>1, <3>2, <3>3, <1>d, <2>1
    <3>4. CASE d # Null
      <4>1. d \in S /\ B(w, d, b) /\ \A y \in S : B(w, y, b) => y = d \/ B(w, y, d)
        BY <3>4, <1>d
      <4>2. B(w, d, z)
        BY <4>1, <1>5
      <4> QED BY <3>1, <3>2, <4>1, <4>2, <2>1
    <3> QED BY <3>3, <3>4
  <2>2. CASE n = b
    <3>1. g[ListOf(w)][n] = z
      BY <2>2, <1>8
    <3> QED BY <3>1, <1>5, <2>2
  <2>3. CASE n # z /\ n # b
    <3>0. n \in S
      BY <2>3
    <3> DEFINE m == h[ListOf(w)][n]
    <3>1. g[ListOf(w)][n] = m
      BY <2>3, <1>8
    <3>2. \/ m = Null /\ \A y \in S : ~B(w, y, n)
          \/ m \in S /\ B(w, m, n) /\ \A y \in S : B(w, y, n) => y = m \/ B(w, y, m)
      BY <1>6, <3>0
    <3> HIDE DEF m
    <3>3. ASSUME B(w, z, n) PROVE B(w, b, n)
      <4>1. n = b \/ B(w, n, b) \/ B(w, b, n)
        BY <1>4, <3>0
      <4>2. ASSUME B(w, n, b) PROVE FALSE
        <5>1. B(w, n, z)
          BY <4>2, <1>5, <3>0
        <5> QED BY <5>1, <3>3, <1>3
      <4> QED BY <4>1, <4>2, <2>3
    <3>4. ASSUME B(w, z, n) PROVE m \in S /\ B(w, z, m)
      <4>1. B(w, b, n)
        BY <3>3, <3>4
      <4>2. m \in S /\ (b = m \/ B(w, b, m))
        BY <3>2, <4>1
      <4>3. B(w, z, b)
        BY <1>5
      <4>4. CASE b = m
        BY <4>2, <4>3, <4>4
      <4>5. CASE B(w, b, m)
        BY <4>2, <4>3, <4>5, <1>3
      <4> QED BY <4>2, <4>4, <4>5
    <3> QED BY <3>1, <3>2, <3>4
  <2> QED BY <2>1, <2>2, <2>3
<1>11. ASSUME NEW n \in T PROVE Next1(n, o, g[ListOf(o)][n])
  <2>1. CASE n = z
    <3>1. g[ListOf(o)][n] = b
      BY <2>1, <1>8
    <3>2. B(o, b, z)
      BY <1>5, <1>e
    <3>3. ASSUME NEW x \in T, B(o, x, z) PROVE x = b \/ B(o, x, b)
      <4>1. B(w, z, x) /\ x \in S
        BY <3>3, <1>e, <1>3, <1>1
      <4>2. ASSUME B(w, x, b) PROVE FALSE
        <5>1. B(w, x, z)
          BY <4>1, <4>2, <1>5
        <5> QED BY <5>1, <4>1, <1>3
      <4>3. x = b \/ B(w, b, x)
        BY <4>1, <4>2, <1>4
      <4> QED BY <4>3, <1>e
    <3> QED BY <3>1, <3>2, <3>3, <2>1
  <2>2. CASE n # z /\ n = d
    <3>1. n \in S /\ B(w, n, b) /\ \A y \in S : B(w, y, b) => y = n \/ B(w, y, n)
      BY <2>2, <1>d
    <3>2. g[ListOf(o)][n] = z
      BY <3>1, <2>2, <1>8
    <3>3. B(o, z, n)
      BY <3>1, <1>5, <1>e
    <3>4. ASSUME NEW x \in T, B(o, x, n) PROVE x = z \/ B(o, x, z)
      <4>1. B(w, n, x)
        BY <3>4, <1>e
      <4>2. CASE x \in S
        <5>1. ~B(w, x, b)
          <6>1. x # n /\ ~B(w, x, n)
            BY <4>1, <1>3
          <6> QED BY <6>1, <3>1, <4>2
        <5>2. x = b \/ B(w, b, x)
          BY <5>1, <4>2, <1>4
        <5>3. B(w, z, x)
          BY <5>2, <1>5, <1>3
        <5> QED BY <5>3, <1>e
      <4> QED BY <4>2
    <3> QED BY <3>2, <3>3, <3>4
  <2>3. CASE n # z /\ n # d
    <3>0. n \in S
      BY <2>3
    <3> DEFINE m == h[ListOf(o)][n]
    <3>1. g[ListOf(o)][n] = m
      BY <2>3, <1>8
    <3>2. \/ m = Null /\ \A y \in S : ~B(o, y, n)
          \/ m \in S /\ B(o, m, n) /\ \A y \in S : B(o, y, n) => y = m \/ B(o, y, m)
      BY <1>6, <3>0, <1>1
    <3> HIDE DEF m
    <3>3. ASSUME B(o, z, n) PROVE m \in S /\ B(o, z, m)
      <4>1. B(w, n, z)
        BY <3>3, <1>e
      <4>2. B(w, n, b)
        BY <4>1, <1>5, <1>3
      <4>3. B(o, b, n)
        BY <4>2, <1>e
      <4>4. m \in S /\ B(o, m, n) /\ (b = m \/ B(o, b, m))
        BY <4>3, <3>2
      <4>5. CASE B(o, b, m)
        <5>1. B(w, m, b)
          BY <4>4, <4>5, <1>e
        <5>2. B(w, m, z)
          BY <5>1, <4>4, <1>5
        <5> QED BY <5>2, <4>4, <1>e
      <4>6. CASE b = m
        <5>1. d \in S /\ B(w, d, b) /\ B(w, n, d)
          BY <4>2, <1>d, <2>3, <3>0
        <5>2. B(o, d, n)
          BY <5>1, <1>e
        <5>3. d = m \/ B(o, d, m)
          BY <5>1, <5>2, <4>4, <3>2, <4>3
        <5>4. d # b /\ ~B(w, b, d)
          BY <5>1, <1>3
        <5> QED BY <5>3, <5>4, <4>6, <5>1, <1>e
      <4> QED BY <4>4, <4>5, <4>6
    <3> QED BY <3>1, <3>2, <3>3
  <2> QED BY <2>1, <2>2, <2>3
<1>12. \A n \in T, v \in Side : NextTo(g, T, n, v, g[ListOf(v)][n])
  <2> HIDE DEF Next1, T
  <2> SUFFICES ASSUME NEW n \in T, NEW v \in Side PROVE Next1(n, v, g[ListOf(v)][n])
    BY <1>9
  <2>1. v = w \/ v = o
    BY <1>1
  <2> QED BY <2>1, <1>10, <1>11
<1>13. \A x, y \in T : g.vm_start[x] = g.vm_start[y] => x = y
  <2> SUFFICES ASSUME NEW x \in S, h.vm_start[x] = h.vm_start[z] PROVE FALSE
    BY <1>2, <1>8
  <2>1. ~B(w, x, z) /\ ~B(w, z, x)
    BY <1>3 DEF B
  <2>2. x = b
    BY <2>1, <1>f
  <2> QED BY <2>1, <2>2, <1>5
<1> QED BY <1>2, <1>8, <1>12, <1>13 DEF Listed

\* z is taken out.
ListDrops(g, h, S, z) ==
  /\ \A n \in S \ {z} : g.vm_start[n] = h.vm_start[n]
  /\ \A w \in Side : \A n \in S \ {z} :
       g[ListOf(w)][n] = IF n = h[ListOf(Other(w))][z] THEN h[ListOf(w)][z]
                         ELSE h[ListOf(w)][n]

\* A list with a node less
LEMMA ListDropped ==
  ASSUME NEW h, NEW S, Listed(h, S), Null \notin S, NEW z \in S,
         NEW g, ListDrops(g, h, S, z)
  PROVE  Listed(g, S \ {z})
<1> DEFINE T == S \ {z}
           B(v, x, y) == On(v, h.vm_start[x], h.vm_start[y])
<1>1. \A w \in Side : Other(w) \in Side /\ Other(w) # w /\ Other(Other(w)) = w
  BY OnOrder
<1>2. /\ \A x \in S : h.vm_start[x] \in Nat
      /\ \A x, y \in S : h.vm_start[x] = h.vm_start[y] => x = y
      /\ \A x \in S, v \in Side : NextTo(h, S, x, v, h[ListOf(v)][x])
  BY DEF Listed
<1>3. /\ \A v \in Side, x \in S : ~B(v, x, x)
      /\ \A v \in Side, x, y, u \in S : B(v, x, y) /\ B(v, y, u) => B(v, x, u)
      /\ \A v \in Side, x, y \in S : B(v, x, y) <=> B(Other(v), y, x)
  BY <1>2, OnOrder
<1>4. \A v \in Side, x, y \in S : x = y \/ B(v, x, y) \/ B(v, y, x)
  <2> SUFFICES ASSUME NEW v \in Side, NEW x \in S, NEW y \in S
               PROVE x = y \/ B(v, x, y) \/ B(v, y, x)
    OBVIOUS
  <2>1. /\ h.vm_start[x] \in Nat /\ h.vm_start[y] \in Nat
        /\ h.vm_start[x] = h.vm_start[y] => x = y
    BY <1>2
  <2> QED BY <2>1 DEF On
<1>6. \A x \in S, v \in Side :
        \/ h[ListOf(v)][x] = Null /\ \A y \in S : ~B(v, y, x)
        \/ /\ h[ListOf(v)][x] \in S
           /\ B(v, h[ListOf(v)][x], x)
           /\ \A y \in S : B(v, y, x) =>
                y = h[ListOf(v)][x] \/ B(v, y, h[ListOf(v)][x])
  BY <1>2 DEF NextTo
<1>7. \A x, y \in T, v \in Side :
        B(v, x, y) <=> On(v, g.vm_start[x], g.vm_start[y])
  BY DEF ListDrops
<1>8. \A w \in Side : \A n \in T :
        g[ListOf(w)][n] = IF n = h[ListOf(Other(w))][z] THEN h[ListOf(w)][z]
                          ELSE h[ListOf(w)][n]
  BY DEF ListDrops
<1>13. \A x, y \in T : g.vm_start[x] = g.vm_start[y] => x = y
  BY <1>2 DEF ListDrops
<1>14. \A x \in T : g.vm_start[x] \in Nat
  BY <1>2 DEF ListDrops
<1> HIDE DEF B
<1> DEFINE Next1(n, v, m) ==
             \/ m = Null /\ \A x \in T : ~B(v, x, n)
             \/ /\ m \in T
                /\ B(v, m, n)
                /\ \A x \in T : B(v, x, n) => x = m \/ B(v, x, m)
<1>9. \A m : \A n \in T, v \in Side : Next1(n, v, m) => NextTo(g, T, n, v, m)
  BY <1>7 DEF NextTo
<1>10. ASSUME NEW n \in T, NEW w \in Side PROVE Next1(n, w, g[ListOf(w)][n])
  <2> DEFINE o == Other(w)
             m == h[ListOf(w)][n]
             p == h[ListOf(o)][z]
             q == h[ListOf(w)][z]
  <2>1. \/ m = Null /\ \A y \in S : ~B(w, y, n)
        \/ m \in S /\ B(w, m, n) /\ \A y \in S : B(w, y, n) => y = m \/ B(w, y, m)
    BY <1>6
  <2>2. \/ p = Null /\ \A y \in S : ~B(o, y, z)
        \/ p \in S /\ B(o, p, z) /\ \A y \in S : B(o, y, z) => y = p \/ B(o, y, p)
    BY <1>6, <1>1
  <2>3. \/ q = Null /\ \A y \in S : ~B(w, y, z)
        \/ q \in S /\ B(w, q, z) /\ \A y \in S : B(w, y, z) => y = q \/ B(w, y, q)
    BY <1>6
  <2>4. g[ListOf(w)][n] = IF n = p THEN q ELSE m
    BY <1>8
  <2>5. \A x, y \in S : B(o, x, y) <=> B(w, y, x)
    BY <1>1, <1>3
  <2> HIDE DEF o, m, p, q
  <2>6. CASE n = p
    <3>1. B(w, z, n) /\ \A y \in S : B(w, z, y) => y = n \/ B(w, n, y)
      BY <2>2, <2>5, <2>6
    <3>2. ASSUME NEW x \in T, B(w, x, n) PROVE B(w, x, z)
      <4>1. B(w, x, z) \/ B(w, z, x)
        BY <1>4
      <4>2. ASSUME B(w, z, x) PROVE FALSE
        BY <4>2, <3>1, <3>2, <1>3
      <4> QED BY <4>1, <4>2
    <3>3. CASE q = Null
      BY <2>3, <2>4, <2>6, <3>2, <3>3
    <3>4. CASE q # Null
      <4>1. q \in S /\ B(w, q, z) /\ \A y \in S : B(w, y, z) => y = q \/ B(w, y, q)
        BY <2>3, <3>4
      <4>2. q \in T /\ B(w, q, n)
        BY <4>1, <3>1, <1>3
      <4> QED BY <2>4, <2>6, <3>2, <4>1, <4>2
    <3> QED BY <3>3, <3>4
  <2>7. CASE n # p
    <3>1. ASSUME m = z PROVE FALSE
      <4>1. B(w, z, n) /\ \A y \in S : B(w, y, n) => y = z \/ B(w, y, z)
        BY <2>1, <3>1
      <4>2. B(o, n, z)
        BY <4>1, <2>5
      <4>3. p \in S /\ B(o, p, z) /\ B(o, n, p)
        BY <4>2, <2>2, <2>7
      <4>4. B(w, z, p) /\ B(w, p, n)
        BY <4>3, <2>5
      <4>5. p = z \/ B(w, p, z)
        BY <4>1, <4>3, <4>4
      <4> QED BY <4>4, <4>5, <4>3, <1>3
    <3> QED BY <2>1, <2>4, <2>7, <3>1
  <2> QED BY <2>6, <2>7
<1> QED BY <1>9, <1>10, <1>13, <1>14 DEF Listed
-----------------------------------------------------------------------------
(* A node above the top *)

\* What FIX_LISTLT(z, b), or FIX_LISTGT(z, b), makes of h
ListInserted(g, h, z, b, w) ==
  /\ HeapDom(g)
  /\ \A f \in Field : f \notin {"vm_prev", "vm_next"} => g[f] = h[f]
  /\ \A n \in Slot :
       /\ g[ListOf(w)][n] = IF n = b THEN z
                            ELSE IF n = z THEN h[ListOf(w)][b] ELSE h[ListOf(w)][n]
       /\ g[ListOf(Other(w))][n] =
            IF n = h[ListOf(w)][b] THEN z
            ELSE IF n = z THEN b ELSE h[ListOf(Other(w))][n]

\* FIX_LISTLT and FIX_LISTGT put z next to b.
LEMMA ListInsertIs ==
  ASSUME NEW h, HeapDom(h), NEW z \in Slot, NEW b \in Slot, z # b, NEW w \in Side
  PROVE  ListInserted(ListInsert(h, z, b, ListOf(w), ListOf(Other(w))), h, z, b, w)
<1> DEFINE l == ListOf(w)
           m == ListOf(Other(w))
           c == h[l][b]
           s1 == [h EXCEPT ![l][z] = c, ![m][z] = b, ![l][b] = z]
           g == ListInsert(h, z, b, l, m)
<1>1. /\ l \in {"vm_prev", "vm_next"} /\ m \in {"vm_prev", "vm_next"} /\ l # m
      /\ \A f \in {"vm_prev", "vm_next"} : f = l \/ f = m
      /\ {"vm_prev", "vm_next"} \subseteq Field
  BY OnOrder DEF ListOf, Other, Side, Field, Link
<1>2. DOMAIN h = Field /\ \A f \in Field : DOMAIN h[f] = Slot
  BY DEF HeapDom
<1>3. g = IF c # Null THEN [s1 EXCEPT ![m][c] = z] ELSE s1
  BY DEF ListInsert
<1> HIDE DEF l, m, g
<1>4. /\ DOMAIN s1 = Field /\ \A f \in Field : DOMAIN s1[f] = Slot
      /\ \A f \in Field : f # l /\ f # m => s1[f] = h[f]
      /\ \A n \in Slot : s1[l][n] = IF n = b THEN z ELSE IF n = z THEN c ELSE h[l][n]
      /\ \A n \in Slot : s1[m][n] = IF n = z THEN b ELSE h[m][n]
  BY <1>1, <1>2
<1> HIDE DEF s1, c
<1>5. \A n \in Slot : n # Null
  BY NotNodes, NodeAssumption DEF Slot
<1>6. /\ DOMAIN g = Field /\ \A f \in Field : DOMAIN g[f] = Slot
      /\ \A f \in Field : f # l /\ f # m => g[f] = h[f]
      /\ \A n \in Slot : g[l][n] = IF n = b THEN z ELSE IF n = z THEN c ELSE h[l][n]
      /\ \A n \in Slot : g[m][n] = IF n = c THEN z ELSE IF n = z THEN b ELSE h[m][n]
  <2>1. CASE c = Null
    BY <2>1, <1>3, <1>4, <1>5
  <2>2. CASE c # Null
    <3>1. g = [s1 EXCEPT ![m][c] = z]
      BY <2>2, <1>3
    <3> QED BY <3>1, <1>4, <1>1
  <2> QED BY <2>1, <2>2
<1> QED BY <1>6, <1>1 DEF ListInserted, HeapDom, g, l, m, c

\* What one side of S_sp_tree_insert_helper makes of h
Besides(g, h, z, b, w) ==
  /\ HeapDom(g)
  /\ \A f \in Data : g[f] = h[f]
  /\ \A n \in Slot :
       /\ g[w][n] = IF n = b THEN Null ELSE IF n = z THEN h[w][b] ELSE h[w][n]
       /\ g[Other(w)][n] = IF n = z THEN b ELSE h[Other(w)][n]
       /\ g.sp_p[n] = IF n = h[w][b] \/ n = b THEN z
                      ELSE IF n = z THEN Null ELSE h.sp_p[n]
       /\ g[ListOf(w)][n] = IF n = b THEN z
                            ELSE IF n = z THEN h[ListOf(w)][b] ELSE h[ListOf(w)][n]
       /\ g[ListOf(Other(w))][n] =
            IF n = h[ListOf(w)][b] THEN z
            ELSE IF n = z THEN b ELSE h[ListOf(Other(w))][n]

\* What Beside does to the children and the parents
LEMMA BesideIs ==
  ASSUME NEW h, HeapDom(h), NEW z \in Slot, NEW b \in Slot, z # b, NEW w \in Side,
         h[w][b] # z, h[w][b] # b, h.sp_p[z] = Null
  PROVE  Besides(Beside(h, z, b, w, Other(w), ListOf(w), ListOf(Other(w))), h, z, b, w)
<1> DEFINE o == Other(w)
           g1 == ListInsert(h, z, b, ListOf(w), ListOf(o))
           c == g1[w][b]
           k1 == MakeChild(g1, z, w, c)
           k2 == MakeChild(k1, z, o, b)
           g == Beside(h, z, b, w, o, ListOf(w), ListOf(o))
<1>1. g = [k2 EXCEPT ![w][b] = Null]
  BY DEF Beside
<1>2. ListInserted(g1, h, z, b, w)
  BY ListInsertIs
<1>3. HeapDom(g1)
  BY <1>2 DEF ListInserted
<1> HIDE DEF g1, k1, k2, g
<1>4. Linked(k1, g1, z, w, c)
  <2> HIDE DEF c
  <2> QED BY <1>3, MakeChildLinked DEF k1
<1>5. Linked(k2, k1, z, o, b)
  <2>1. HeapDom(k1) /\ o \in Side
    BY <1>4, OnOrder DEF Linked
  <2> HIDE DEF o
  <2> QED BY <2>1, MakeChildLinked DEF k2
<1>6. /\ o \in Side /\ o # w /\ \A v \in Side : v = w \/ v = o
      /\ w \in Field /\ o \in Field /\ "sp_p" \in Field /\ Data \subseteq Field
      /\ w \notin {"sp_p", "vm_prev", "vm_next"} /\ o \notin {"sp_p", "vm_prev", "vm_next"}
      /\ {"vm_prev", "vm_next"} \subseteq Field
      /\ ListOf(w) \in {"vm_prev", "vm_next"} /\ ListOf(o) \in {"vm_prev", "vm_next"}
      /\ \A f \in Data : f \notin {"sp_l", "sp_r", "sp_p", "vm_prev", "vm_next"}
      /\ \A f \in Field : f \in Data \/ f = w \/ f = o \/ f = "sp_p"
                            \/ f \in {"vm_prev", "vm_next"}
  BY OnOrder DEF Side, Field, Link, Data, ListOf
<1>7. /\ HeapDom(k2)
      /\ \A f \in Field : f # o /\ f # "sp_p" => k2[f] = k1[f]
      /\ \A n \in Slot : k2[o][n] = IF n = z THEN b ELSE k1[o][n]
      /\ \A n \in Slot : k2.sp_p[n] = IF n = z /\ k1.sp_p[n] = b THEN Null
                                      ELSE IF n = b THEN z ELSE k1.sp_p[n]
  BY <1>5 DEF Linked
<1>8. /\ \A f \in Field : f # w /\ f # "sp_p" => k1[f] = g1[f]
      /\ \A n \in Slot : k1[w][n] = IF n = z THEN c ELSE g1[w][n]
      /\ \A n \in Slot : k1.sp_p[n] = IF n = z /\ g1.sp_p[n] = c THEN Null
                                      ELSE IF n = c THEN z ELSE g1.sp_p[n]
  BY <1>4 DEF Linked
<1>9. /\ \A f \in Field : f \notin {"vm_prev", "vm_next"} => g1[f] = h[f]
      /\ \A n \in Slot :
           /\ g1[ListOf(w)][n] = IF n = b THEN z
                            ELSE IF n = z THEN h[ListOf(w)][b] ELSE h[ListOf(w)][n]
           /\ g1[ListOf(o)][n] =
                IF n = h[ListOf(w)][b] THEN z
                ELSE IF n = z THEN b ELSE h[ListOf(o)][n]
  BY <1>2 DEF ListInserted
<1>10. /\ HeapDom(g)
       /\ \A f \in Field : f # w => g[f] = k2[f]
       /\ \A n \in Slot : g[w][n] = IF n = b THEN Null ELSE k2[w][n]
  <2>1. DOMAIN k2 = Field /\ \A f \in Field : DOMAIN k2[f] = Slot
    BY <1>7 DEF HeapDom
  <2> QED BY <2>1, <1>1, <1>6 DEF HeapDom
<1>11. c = h[w][b] /\ g1.sp_p = h.sp_p /\ g1[w] = h[w] /\ g1[o] = h[o]
  <2>1. \A f \in Field : f \notin {"vm_prev", "vm_next"} => g1[f] = h[f]
    BY <1>9
  <2>2. "sp_p" \notin {"vm_prev", "vm_next"}
    OBVIOUS
  <2>3. g1["sp_p"] = h["sp_p"]
    BY <2>1, <2>2, <1>6
  <2> QED BY <2>1, <1>6, <2>3
<1> HIDE DEF c, o
<1>12. \A f \in Data : g[f] = h[f]
  <2> SUFFICES ASSUME NEW f \in Data PROVE g[f] = h[f]
    OBVIOUS
  <2>0. f \in Field /\ f \notin {"sp_l", "sp_r", "sp_p", "vm_prev", "vm_next"}
    BY <1>6
  <2>1. f \in Field /\ f # w /\ f # o /\ f # "sp_p" /\ f \notin {"vm_prev", "vm_next"}
    BY <2>0, <1>6 DEF Side
  <2>2. g[f] = k2[f]
    BY <2>1, <1>10
  <2>3. k2[f] = k1[f]
    BY <2>1, <1>7
  <2>4. k1[f] = g1[f]
    BY <2>1, <1>8
  <2>5. g1[f] = h[f]
    BY <2>1, <1>9
  <2> QED BY <2>2, <2>3, <2>4, <2>5
<1>13. \A n \in Slot : g[w][n] = IF n = b THEN Null ELSE IF n = z THEN c ELSE h[w][n]
  BY <1>6, <1>7, <1>8, <1>10, <1>11
<1>14. \A n \in Slot : g[o][n] = IF n = z THEN b ELSE h[o][n]
  BY <1>6, <1>7, <1>8, <1>10, <1>11
<1>15. \A n \in Slot : g.sp_p[n] = IF n = c \/ n = b THEN z
                                   ELSE IF n = z THEN Null ELSE h.sp_p[n]
  <2>1. g["sp_p"] = k2["sp_p"]
    BY <1>6, <1>10
  <2>2. \A n \in Slot : g.sp_p[n] = k2.sp_p[n]
    BY <2>1
  <2>3. \A n \in Slot : k1.sp_p[n] = IF n = c THEN z ELSE h.sp_p[n]
    BY <1>8, <1>11
  <2> QED BY <2>2, <2>3, <1>7, <1>11
<1>16. \A n \in Slot :
         /\ g[ListOf(w)][n] = IF n = b THEN z
                            ELSE IF n = z THEN h[ListOf(w)][b] ELSE h[ListOf(w)][n]
         /\ g[ListOf(o)][n] =
              IF n = h[ListOf(w)][b] THEN z ELSE IF n = z THEN b ELSE h[ListOf(o)][n]
  <2>1. \A f \in {"vm_prev", "vm_next"} : g[f] = g1[f]
    <3> SUFFICES ASSUME NEW f \in {"vm_prev", "vm_next"} PROVE g[f] = g1[f]
      OBVIOUS
    <3>1. f \in Field /\ f # w /\ f # o /\ f # "sp_p"
      BY <1>6
    <3> QED BY <3>1, <1>7, <1>8, <1>10
  <2> QED BY <2>1, <1>6, <1>9
<1> QED BY <1>10, <1>11, <1>12, <1>13, <1>14, <1>15, <1>16 DEF Besides, g, o
\* z takes the place of the top b, which keeps its subtree on the side away
\* from z.
LEMMA BesideWhole ==
  ASSUME NEW h, NEW S, S \subseteq Node, NEW D, NEW b, Whole(h, b, S, D), b # Null,
         NEW z \in Node \ S, NEW w \in Side, h.vm_start[z] \in Nat,
         On(w, h.vm_start[z], h.vm_start[b]), Nearest(h, b, h.vm_start[z], S),
         NEW g, Besides(g, h, z, b, w)
  PROVE  \E E : Whole(g, z, S \cup {z}, E)
<1> DEFINE o == Other(w)
           c == h[w][b]
           d == h[o][b]
           k == h.vm_start
<1>0. /\ Null \notin S /\ z # Null /\ z \notin S /\ S \cup {z} \subseteq Slot
      /\ o \in Side /\ o # w /\ Other(o) = w /\ Other(w) = o
      /\ \A v \in Side : v = w \/ v = o
  BY NotNodes, NodeAssumption, OnOrder DEF Slot
<1>1. Tree(h, S, D) /\ Parented(h, S)
  BY DEF Whole
<1>2. b \in S /\ D[b] = S /\ Alone(S, D, b) /\ \A x \in S, v \in Side : h[v][x] # b
  BY <1>0, WholeFacts
<1>3. /\ \A v \in Side, x \in S : h[v][x] \in S \cup {Null} /\ x \notin Under(D, h[v][x])
      /\ \A x \in S : x \in D[x]
      /\ \A v \in Side, x \in S : h[v][x] # Null => h[v][x] \in D[x]
  BY <1>0, <1>1, TreeFacts
<1>4. /\ c \in (S \cup {Null}) \ {b} /\ d \in (S \cup {Null}) \ {b}
      /\ c # z
  BY <1>0, <1>2, <1>3
<1>5. /\ \A n \in Slot : g.vm_start[n] = k[n]
      /\ \A n \in Slot : g[w][n] = IF n = b THEN Null ELSE IF n = z THEN c ELSE h[w][n]
      /\ \A n \in Slot : g[o][n] = IF n = z THEN b ELSE h[o][n]
      /\ \A n \in Slot : g.sp_p[n] = IF n = c \/ n = b THEN z
                                     ELSE IF n = z THEN Null ELSE h.sp_p[n]
  <2>1. g["vm_start"] = h["vm_start"]
    BY DEF Besides, Data
  <2> QED BY <2>1 DEF Besides
<1>6. \A x \in S : k[x] \in Nat
  BY <1>1 DEF Tree
<1>b. \A v \in Side : \A m \in Under(D, h[v][b]) : m \in S /\ On(v, k[m], k[b])
  <2>1. \A v \in Side : Under(D, h[v][b]) \subseteq S
    BY <1>0, <1>1, <1>2, TreeFacts
  <2>2. \A v \in Side : \A m \in Under(D, h[v][b]) : On(v, k[m], k[b])
    BY <1>1, <1>2 DEF Tree
  <2> QED BY <2>1, <2>2
<1>7. \A m \in Under(D, c) : m \in S /\ On(w, k[m], k[b])
  BY <1>b
<1>8. \A m \in Under(D, d) : m \in S /\ On(o, k[m], k[b])
  BY <1>0, <1>b
<1>9. \A x \in S : x = b \/ x \in Under(D, c) \/ x \in Under(D, d)
  <2>1. \A x \in S : x \in D[b] <=> x = b \/ \E v \in Side : x \in Under(D, h[v][b])
    BY <1>1, <1>2 DEF Tree
  <2> QED BY <2>1, <1>0, <1>2
<1>10. \A m \in Under(D, c) : On(w, k[m], k[z])
  <2> SUFFICES ASSUME NEW m \in Under(D, c) PROVE On(w, k[m], k[z])
    OBVIOUS
  <2>1. m \in S /\ On(w, k[m], k[b])
    BY <1>7
  <2>2. m # b
    BY <2>1, <1>6, OnOrder
  <2>3. PICK v \in Side : On(v, k[m], k[b]) /\ On(v, k[m], k[z])
    BY <2>1, <2>2 DEF Nearest
  <2>4. k[m] \in Nat /\ k[b] \in Nat
    BY <2>1, <1>2, <1>6
  <2> HIDE DEF k
  <2>5. v = w
    BY <2>1, <2>3, <2>4, OnApart
  <2> QED BY <2>3, <2>5
<1>11. Put(g, h, S, b, w, Null, d)
  <2>1. \A n \in S \ {b}, v \in Side : g[v][n] = h[v][n]
    BY <1>0, <1>5
  <2> QED BY <2>1, <1>0, <1>2, <1>5, <1>6 DEF Put
<1>12. PICK F : Below(F, g, S, D, b, Null, d)
  <2>1. \A m \in Under(D, Null) : On(w, g.vm_start[m], g.vm_start[b])
    BY DEF Under
  <2>2. \A m \in Under(D, d) : On(Other(w), g.vm_start[m], g.vm_start[b])
    BY <1>0, <1>2, <1>5, <1>8
  <2>3. Null \in (S \cup {Null}) \ {b} /\ b # Null
    BY <1>0, <1>2
  <2> HIDE DEF o, c, d
  <2> QED BY <1>0, <1>1, <1>2, <1>4, <1>11, <2>1, <2>2, <2>3, TreePut
<1>13. /\ Tree(g, S, F) /\ F[b] = {b} \cup Under(D, d)
       /\ \A x \in S \ {b} : F[x] = D[x]
  <2>1. S \cup {b} = S
    BY <1>2
  <2>2. Under(D, Null) = {}
    BY DEF Under
  <2> QED BY <2>1, <2>2, <1>12 DEF Below
<1>14. Under(F, c) = Under(D, c) /\ Under(F, b) = {b} \cup Under(D, d)
  BY <1>4, <1>13, <1>2, <1>0 DEF Under
<1>15. Put(g, g, S, z, w, c, b)
  <2>1. z \in Slot /\ b \in Slot /\ z # b
    BY <1>0, <1>2
  <2>2. g[w][z] = c /\ g[o][z] = b /\ g.vm_start[z] = k[z]
    BY <2>1, <1>5
  <2> QED BY <2>2, <1>0 DEF Put
<1>16. PICK E : Below(E, g, S, F, z, c, b)
  <2>1. \A m \in Under(F, c) : On(w, g.vm_start[m], g.vm_start[z])
    <3> SUFFICES ASSUME NEW m \in Under(D, c)
                 PROVE On(w, g.vm_start[m], g.vm_start[z])
      BY <1>14
    <3>1. m \in S /\ On(w, k[m], k[z])
      BY <1>7, <1>10
    <3>2. g.vm_start[m] = k[m] /\ g.vm_start[z] = k[z]
      BY <3>1, <1>0, <1>5
    <3> QED BY <3>1, <3>2
  <2>2. \A m \in Under(F, b) : On(Other(w), g.vm_start[m], g.vm_start[z])
    <3> SUFFICES ASSUME NEW m \in {b} \cup Under(D, d)
                 PROVE On(o, g.vm_start[m], g.vm_start[z])
      BY <1>14
    <3>1. On(o, k[b], k[z]) /\ k[b] \in Nat /\ k[z] \in Nat
      BY <1>2, <1>6, OnOrder
    <3>2. m \in S /\ (m = b \/ On(o, k[m], k[b]))
      BY <1>8, <1>2
    <3>3. k[m] \in Nat
      BY <3>2, <1>6
    <3>4. g.vm_start[m] = k[m] /\ g.vm_start[z] = k[z]
      BY <3>2, <1>0, <1>5
    <3> HIDE DEF k
    <3>5. On(o, k[m], k[z])
      BY <3>1, <3>2, <3>3, <1>0, OnOrder
    <3> QED BY <3>4, <3>5
  <2>3. Alone(S, F, z)
    <3>1. \A x \in S : F[x] \subseteq S
      BY <1>13 DEF Tree
    <3> QED BY <3>1, <1>0 DEF Alone
  <2>4. c \in (S \cup {Null}) \ {z} /\ b \in (S \cup {Null}) \ {z}
    BY <1>0, <1>2, <1>4
  <2> HIDE DEF c
  <2> QED BY <1>0, <1>13, <1>15, <2>1, <2>2, <2>3, <2>4, TreePut
<1>17. Tree(g, S \cup {z}, E) /\ E[z] = {z} \cup Under(F, c) \cup Under(F, b)
  BY <1>16 DEF Below
<1>18. E[z] = S \cup {z}
  <2>1. \A x \in S \cup {z} : x \in E[z]
    BY <1>9, <1>14, <1>17
  <2>2. \A x \in E[z] : x \in S \cup {z}
    BY <1>2, <1>7, <1>8, <1>14, <1>17
  <2> QED BY <2>1, <2>2
<1>19. Parented(g, S \cup {z})
  <2> SUFFICES ASSUME NEW x \in S \cup {z}, NEW v \in Side, g[v][x] # Null
               PROVE  g.sp_p[g[v][x]] = x
    BY DEF Parented
  <2>1. CASE x = z
    <3>1. g[v][x] = c \/ g[v][x] = b
      BY <2>1, <1>0, <1>2, <1>5
    <3>2. g[v][x] \in S
      BY <3>1, <1>2, <1>4
    <3> QED BY <3>1, <3>2, <2>1, <1>0, <1>5
  <2>2. CASE x # z
    <3>1. x \in S /\ x \in Slot
      BY <2>2, <1>0
    <3>2. ~(x = b /\ v = w)
      BY <3>1, <1>5
    <3>3. g[v][x] = h[v][x]
      BY <3>1, <3>2, <2>2, <1>0, <1>5
    <3>4. h[v][x] \in S /\ h[v][x] # b /\ h[v][x] # z
      BY <3>1, <3>3, <1>0, <1>2, <1>3
    <3>5. h[v][x] # c
      <4> SUFFICES ASSUME h[v][x] = c PROVE FALSE
        OBVIOUS
      <4>1. c \in S /\ h[w][b] = c
        BY <3>4
      <4> HIDE DEF c
      <4>2. x = b /\ v = w
        BY <4>1, <3>1, <1>0, <1>1, <1>2, OneParent
      <4> QED BY <4>2, <3>2
    <3>6. h.sp_p[h[v][x]] = x
      BY <3>1, <3>3, <1>1 DEF Parented
    <3>7. h[v][x] \in Slot
      BY <3>4, <1>0
    <3> QED BY <3>3, <3>4, <3>5, <3>6, <3>7, <1>5
  <2> QED BY <2>1, <2>2
<1> QED BY <1>17, <1>18, <1>19, <1>0 DEF Whole, Under

\* The list goes with the tree.
LEMMA BesideListed ==
  ASSUME NEW h, NEW S, S \subseteq Node, Listed(h, S), NEW b \in S,
         NEW z \in Node \ S, NEW w \in Side, h.vm_start[z] \in Nat,
         On(w, h.vm_start[z], h.vm_start[b]), Nearest(h, b, h.vm_start[z], S),
         NEW g, Besides(g, h, z, b, w)
  PROVE  Listed(g, S \cup {z})
<1>0. Null \notin S /\ z # Null /\ z \notin S /\ S \cup {z} \subseteq Slot /\ z # b
  BY NotNodes, NodeAssumption DEF Slot
<1>1. \A x \in S : On(w, h.vm_start[x], h.vm_start[b]) =>
                     On(w, h.vm_start[x], h.vm_start[z])
  <2> SUFFICES ASSUME NEW x \in S, On(w, h.vm_start[x], h.vm_start[b])
               PROVE  On(w, h.vm_start[x], h.vm_start[z])
    OBVIOUS
  <2> DEFINE kx == h.vm_start[x]
             kb == h.vm_start[b]
             kz == h.vm_start[z]
  <2>1. kx \in Nat /\ kb \in Nat
    BY DEF Listed
  <2>2. x = b \/ \E v \in Side : On(v, kx, kb) /\ On(v, kx, kz)
    BY DEF Nearest
  <2>3. On(w, kx, kb) /\ (x = b => kx = kb)
    OBVIOUS
  <2> HIDE DEF kx, kb, kz
  <2>4. x # b
    BY <2>1, <2>3, OnOrder
  <2>5. PICK v \in Side : On(v, kx, kb) /\ On(v, kx, kz)
    BY <2>2, <2>4
  <2>6. v = w
    BY <2>1, <2>3, <2>5, OnApart
  <2> QED BY <2>5, <2>6 DEF kx, kz
<1>2. ListAdds(g, h, S, z, b, w)
  <2>1. \A n \in S \cup {z} : g.vm_start[n] = h.vm_start[n]
    <3>1. g["vm_start"] = h["vm_start"]
      BY DEF Besides, Data
    <3> QED BY <3>1
  <2>2. h[ListOf(w)][b] # z
    <3>1. NextTo(h, S, b, w, h[ListOf(w)][b])
      BY DEF Listed
    <3> QED BY <3>1, <1>0 DEF NextTo
  <2>3. z \in Slot /\ \A n \in S : n \in Slot /\ n # z
    BY <1>0
  <2>4. \A n \in Slot :
       /\ g[ListOf(w)][n] = IF n = b THEN z
                            ELSE IF n = z THEN h[ListOf(w)][b] ELSE h[ListOf(w)][n]
       /\ g[ListOf(Other(w))][n] =
            IF n = h[ListOf(w)][b] THEN z
            ELSE IF n = z THEN b ELSE h[ListOf(Other(w))][n]
    BY DEF Besides
  <2> QED BY <2>1, <2>2, <2>3, <2>4, <1>0 DEF ListAdds
<1> QED BY <1>0, <1>1, <1>2, ListAdded
\* The values the fields may have
Typed(h) ==
  /\ HeapDom(h)
  /\ \A n \in Slot :
       /\ \A f \in Side \cup {"vm_prev", "vm_next"} : h[f][n] \in Node \cup {Null}
       /\ h.sp_p[n] \in Node \cup {Header, Null}
       /\ h.vm_start[n] \in Nat
       /\ h.vm_end[n] \in Nat
       /\ h.vm_flags[n] \in Flag

\* and what it leaves as it is
LEMMA BesideSame ==
  ASSUME NEW h, NEW g, NEW S, S \subseteq Node, NEW b \in S, NEW z \in Node,
         NEW w \in Side, h[w][b] \in S \cup {Null},
         h[ListOf(w)][b] \in S \cup {Null}, h.sp_p[z] = Null, Besides(g, h, z, b, w)
  PROVE  /\ Same(g, h, Slot \ (S \cup {z}))
         /\ Typed(h) => Typed(g)
         /\ z \notin S => g.sp_p[z] = Null
<1>0. /\ Null \notin Slot /\ S \subseteq Slot /\ z \in Slot
      /\ \A f \in Side : f = w \/ f = Other(w)
      /\ \A f \in {"vm_prev", "vm_next"} : f = ListOf(w) \/ f = ListOf(Other(w))
      /\ \A f \in Field : f \in Data \/ f \in Side \/ f = "sp_p" \/ f \in {"vm_prev", "vm_next"}
      /\ w \in Side /\ Other(w) \in Side
      /\ ListOf(w) \in {"vm_prev", "vm_next"} /\ ListOf(Other(w)) \in {"vm_prev", "vm_next"}
  BY NotNodes, NodeAssumption, OnOrder
     DEF Slot, Side, Field, Link, Data, ListOf, Other
<1>1. /\ HeapDom(g)
      /\ \A f \in Data : g[f] = h[f]
      /\ \A n \in Slot :
           /\ g[w][n] = IF n = b THEN Null ELSE IF n = z THEN h[w][b] ELSE h[w][n]
           /\ g[Other(w)][n] = IF n = z THEN b ELSE h[Other(w)][n]
           /\ g.sp_p[n] = IF n = h[w][b] \/ n = b THEN z
                          ELSE IF n = z THEN Null ELSE h.sp_p[n]
           /\ g[ListOf(w)][n] = IF n = b THEN z
                                ELSE IF n = z THEN h[ListOf(w)][b] ELSE h[ListOf(w)][n]
           /\ g[ListOf(Other(w))][n] =
                IF n = h[ListOf(w)][b] THEN z
                ELSE IF n = z THEN b ELSE h[ListOf(Other(w))][n]
  BY DEF Besides
<1>2. Same(g, h, Slot \ (S \cup {z}))
  <2> SUFFICES ASSUME NEW f \in Field, NEW n \in Slot \ (S \cup {z})
               PROVE  g[f][n] = h[f][n]
    BY DEF Same
  <2>1. n # b /\ n # z /\ n # h[w][b] /\ n # h[ListOf(w)][b]
    BY <1>0
  <2>2. CASE f \in Data
    BY <2>2, <1>1
  <2>3. CASE f \in Side
    BY <2>1, <2>3, <1>0, <1>1
  <2>4. CASE f = "sp_p"
    BY <2>1, <2>4, <1>1
  <2>5. CASE f \in {"vm_prev", "vm_next"}
    BY <2>1, <2>5, <1>0, <1>1
  <2> QED BY <2>2, <2>3, <2>4, <2>5, <1>0
<1>3. ASSUME Typed(h) PROVE Typed(g)
  <2>1. \A n \in Slot :
          /\ \A f \in Side \cup {"vm_prev", "vm_next"} : h[f][n] \in Node \cup {Null}
          /\ h.sp_p[n] \in Node \cup {Header, Null}
          /\ h.vm_start[n] \in Nat
          /\ h.vm_end[n] \in Nat
          /\ h.vm_flags[n] \in Flag
    BY <1>3 DEF Typed
  <2> SUFFICES ASSUME NEW n \in Slot
               PROVE  /\ \A f \in Side \cup {"vm_prev", "vm_next"} :
                           g[f][n] \in Node \cup {Null}
                      /\ g.sp_p[n] \in Node \cup {Header, Null}
                      /\ g.vm_start[n] \in Nat
                      /\ g.vm_end[n] \in Nat
                      /\ g.vm_flags[n] \in Flag
    BY <1>1 DEF Typed
  <2>2. g["vm_start"] = h["vm_start"] /\ g["vm_end"] = h["vm_end"]
        /\ g["vm_flags"] = h["vm_flags"]
    BY <1>1 DEF Data
  <2>3. g.sp_p[n] \in Node \cup {Header, Null}
    BY <2>1, <1>1
  <2>4. \A f \in Side : g[f][n] \in Node \cup {Null}
    <3>1. g[w][n] \in Node \cup {Null} /\ g[Other(w)][n] \in Node \cup {Null}
      BY <2>1, <1>0, <1>1
    <3> QED BY <3>1, <1>0
  <2>5. \A f \in {"vm_prev", "vm_next"} : g[f][n] \in Node \cup {Null}
    <3>1. \A l \in {"vm_prev", "vm_next"} : h[l][n] \in Node \cup {Null}
                                            /\ h[l][b] \in Node \cup {Null}
      BY <2>1, <1>0
    <3>2. g[ListOf(w)][n] \in Node \cup {Null} /\ g[ListOf(Other(w))][n] \in Node \cup {Null}
      BY <3>1, <1>0, <1>1
    <3> QED BY <3>2, <1>0
  <2> QED BY <2>1, <2>2, <2>3, <2>4, <2>5
<1>4. ASSUME z \notin S PROVE g.sp_p[z] = Null
  BY <1>4, <1>0, <1>1
<1> QED BY <1>2, <1>3, <1>4

\* What S_sp_tree_insert_helper does, g being h after it: z is on top of all.
Inserted(g, h, z, S) ==
  /\ \E E : Whole(g, z, S \cup {z}, E)
  /\ Listed(g, S \cup {z})
  /\ g.sp_p[z] = Null
  /\ HeapDom(g)
  /\ \A f \in Data : g[f] = h[f]
  /\ Same(g, h, Slot \ (S \cup {z}))
  /\ Typed(h) => Typed(g)

\* S_sp_tree_insert_helper puts z above the tree and on the list.
LEMMA InsertHelperIs ==
  ASSUME NEW h, HeapDom(h), NEW S, S \subseteq Node, NEW D, NEW b, Whole(h, b, S, D),
         b # Null, Listed(h, S), NEW z \in Node \ S, h.vm_start[z] \in Nat,
         h.sp_p[z] = Null, h.vm_start[z] # h.vm_start[b],
         Nearest(h, b, h.vm_start[z], S), NEW r, r # Null
  PROVE  Inserted(InsertHelper(h, r, b, z), h, z, S)
<1> DEFINE g == InsertHelper(h, r, b, z)
<1>0. Null \notin S
  BY NotNodes, NodeAssumption
<1>1. b \in S /\ z # b /\ b \in Slot /\ z \in Slot
  BY <1>0, WholeFacts DEF Slot
<1>2. PICK w \in Side : /\ On(w, h.vm_start[z], h.vm_start[b])
                        /\ g = Beside(h, z, b, w, Other(w), ListOf(w), ListOf(Other(w)))
  <2>1. CASE h.vm_start[z] < h.vm_start[b]
    <3>1. g = Beside(h, z, b, "sp_l", "sp_r", "vm_prev", "vm_next")
      BY <2>1 DEF InsertHelper
    <3>2. /\ "sp_l" \in Side /\ Other("sp_l") = "sp_r" /\ ListOf("sp_l") = "vm_prev"
          /\ ListOf("sp_r") = "vm_next" /\ On("sp_l", h.vm_start[z], h.vm_start[b])
      BY <2>1 DEF Side, Other, ListOf, On
    <3> HIDE DEF g
    <3> QED BY <3>1, <3>2
  <2>2. CASE ~(h.vm_start[z] < h.vm_start[b])
    <3>1. g = Beside(h, z, b, "sp_r", "sp_l", "vm_next", "vm_prev")
      BY <2>2 DEF InsertHelper
    <3>2. h.vm_start[b] \in Nat
      BY <1>1 DEF Listed
    <3>3. h.vm_start[b] < h.vm_start[z]
      BY <2>2, <3>2
    <3>4. /\ "sp_r" \in Side /\ Other("sp_r") = "sp_l" /\ ListOf("sp_l") = "vm_prev"
          /\ ListOf("sp_r") = "vm_next" /\ On("sp_r", h.vm_start[z], h.vm_start[b])
      BY <3>3 DEF Side, Other, ListOf, On
    <3> HIDE DEF g
    <3> QED BY <3>1, <3>4
  <2> QED BY <2>1, <2>2
<1> HIDE DEF g
<1>3. h[w][b] \in S \cup {Null} /\ h[w][b] # b /\ h[w][b] # z
  <2>1. Tree(h, S, D)
    BY DEF Whole
  <2>2. h[w][b] \in S \cup {Null}
    BY <2>1, <1>1 DEF Tree
  <2>3. h[w][b] # b
    BY <1>0, <1>1, WholeFacts
  <2> QED BY <2>2, <2>3, NotNodes, NodeAssumption
<1>4. Besides(g, h, z, b, w)
  BY <1>1, <1>2, <1>3, BesideIs
<1>5. \E E : Whole(g, z, S \cup {z}, E)
  BY <1>2, <1>4, BesideWhole
<1>6. Listed(g, S \cup {z})
  BY <1>1, <1>2, <1>4, BesideListed
<1>7. h[ListOf(w)][b] \in S \cup {Null}
  <2>1. NextTo(h, S, b, w, h[ListOf(w)][b])
    BY <1>1 DEF Listed
  <2> QED BY <2>1 DEF NextTo
<1>8. /\ Same(g, h, Slot \ (S \cup {z}))
      /\ Typed(h) => Typed(g)
      /\ g.sp_p[z] = Null
  BY <1>1, <1>3, <1>4, <1>7, BesideSame
<1> QED BY <1>4, <1>5, <1>6, <1>8 DEF Inserted, Besides, g
-----------------------------------------------------------------------------
(* The start of a splay, and the two halves of a removal *)

\* Nothing is cut off at first.
LEMMA SplayStart ==
  ASSUME NEW h, HeapDom(h), NEW S, S \subseteq Node, NEW D, NEW n, Whole(h, n, S, D),
         n # Null, \A w \in Side : h[w][Header] = Null, NEW k \in Nat
  PROVE  Splaying(Seen(h, [w \in Side |-> Header]), n, [w \in Side |-> Header], k, S, D)
<1> DEFINE hk == [w \in Side |-> Header]
           v == Seen(h, hk)
<1>0. /\ Null \notin S /\ Header \notin S /\ Header \in Slot /\ S \subseteq Slot
      /\ {"sp_p", "vm_start"} \subseteq Field /\ {"sp_p", "vm_start"} \cap Side = {}
  BY NotNodes, NodeAssumption DEF Slot, Field, Link, Data, Side
<1>1. n \in S /\ D[n] = S
  BY <1>0, WholeFacts
<1>2. Tree(h, S, D) /\ Parented(h, S)
  BY DEF Whole
<1>3. hk \in [Side -> Slot] /\ \A w \in Side : hk[w] = Header
  BY <1>0
<1> HIDE DEF hk, v
<1>4. /\ \A f \in Field : f \notin Side => v[f] = h[f]
      /\ \A w \in Side, x \in Slot : v[w][x] = IF x = hk[w] THEN Null ELSE h[w][x]
  BY <1>3, SeenIs DEF v
<1>5. v["sp_p"] = h["sp_p"] /\ v["vm_start"] = h["vm_start"]
  BY <1>0, <1>4
<1>6. \A w \in Side, x \in Slot : v[w][x] = h[w][x]
  BY <1>3, <1>4
<1>7. Tree(v, S, D)
  <2>1. \A x \in S : v.vm_start[x] \in Nat
    BY <1>2, <1>5 DEF Tree
  <2> QED BY <1>0, <1>2, <1>5, <1>6, <2>1, TreeSame
<1>8. Parented(v, S)
  BY <1>0, <1>2, <1>5, <1>6 DEF Parented
<1>9. \A w \in Side : v[w][Header] = Null
  BY <1>0, <1>6
<1>10. \A w \in Side : Cut(v, D, w) = {}
  BY <1>9 DEF Cut, Under
<1> QED BY <1>1, <1>3, <1>7, <1>8, <1>9, <1>10 DEF Splaying, hk, v

\* The nodes on either side of the top are the subtrees of it.
LEMMA WholeSplit ==
  ASSUME NEW h, NEW S, NEW D, NEW n, Whole(h, n, S, D), n # Null, Null \notin S,
         NEW w \in Side
  PROVE  \E E : Whole(h, h[w][n], {m \in S : On(w, h.vm_start[m], h.vm_start[n])}, E)
<1> DEFINE c == h[w][n]
           R == {m \in S : On(w, h.vm_start[m], h.vm_start[n])}
<1>1. Tree(h, S, D) /\ Parented(h, S)
  BY DEF Whole
<1>2. n \in S /\ D[n] = S
      /\ \A x \in S : x = n \/ \E v \in Side : x \in Under(D, h[v][n])
  BY WholeFacts
<1>3. /\ \A v \in Side : \A m \in Under(D, h[v][n]) :
           On(v, h.vm_start[m], h.vm_start[n])
      /\ \A x \in S : h.vm_start[x] \in Nat
  <2>1. \A v \in Side : \A m \in Under(D, h[v][n]) :
          On(v, h.vm_start[m], h.vm_start[n])
    BY <1>1, <1>2 DEF Tree
  <2> QED BY <2>1, <1>1 DEF Tree
<1>4. c \in S \cup {Null} /\ Under(D, c) \subseteq S
  BY <1>1, <1>2, TreeFacts
<1>5. Under(D, c) = R
  <2>1. ASSUME NEW m \in Under(D, c) PROVE m \in R
    BY <1>3, <1>4
  <2>2. ASSUME NEW m \in R PROVE m \in Under(D, c)
    <3>1. m \in S /\ On(w, h.vm_start[m], h.vm_start[n])
      OBVIOUS
    <3>2. m # n
      BY <3>1, <1>3, OnOrder
    <3>3. PICK v \in Side : m \in Under(D, h[v][n])
      BY <3>1, <3>2, <1>2
    <3>4. On(v, h.vm_start[m], h.vm_start[n])
      BY <3>3, <1>3
    <3>5. h.vm_start[m] \in Nat /\ h.vm_start[n] \in Nat
      BY <3>1, <1>2, <1>3
    <3>6. v = w
      BY <3>1, <3>4, <3>5, OnApart
    <3> QED BY <3>3, <3>6
  <2> QED BY <2>1, <2>2
<1> HIDE DEF c, R
<1> DEFINE E == [x \in Under(D, c) |-> D[x]]
<1>6. Tree(h, Under(D, c), E)
  BY <1>1, <1>4, TreeBelow
<1>7. Parented(h, Under(D, c))
  BY <1>1, <1>4 DEF Parented
<1>8. c \in Under(D, c) \cup {Null}
  BY <1>1, <1>4, UnderNode
<1>9. Under(E, c) = Under(D, c)
  <2>1. CASE c = Null
    BY <2>1 DEF Under
  <2>2. CASE c # Null
    <3>1. c \in Under(D, c)
      BY <2>2, <1>8
    <3>2. E[c] = D[c]
      BY <3>1
    <3> HIDE DEF E
    <3> QED BY <3>2, <2>2 DEF Under
  <2> QED BY <2>1, <2>2
<1> HIDE DEF E
<1>10. Whole(h, c, Under(D, c), E)
  BY <1>6, <1>7, <1>8, <1>9 DEF Whole
<1> QED BY <1>5, <1>10 DEF c, R

\* g is h with r as the right child of t, of S, which held the rest.
Joins(g, h, t0, r, T) ==
  /\ \A n \in T : g.sp_l[n] = h.sp_l[n]
  /\ \A n \in T : g.sp_r[n] = IF n = t0 THEN r ELSE h.sp_r[n]
  /\ \A n \in T : n # t0 => g.sp_p[n] = IF n = r THEN t0 ELSE h.sp_p[n]
  /\ \A n \in T : g.vm_start[n] = h.vm_start[n]

\* The tree of the greater nodes comes under the last of the others.
LEMMA WholeJoin ==
  ASSUME NEW h, NEW S, S \subseteq Node, NEW D, NEW t0, Whole(h, t0, S, D), t0 # Null,
         NEW R, R \subseteq Node, NEW F, NEW r, Whole(h, r, R, F),
         \A x \in S, m \in R : h.vm_start[x] < h.vm_start[m],
         \A x \in S : x = t0 \/ h.vm_start[x] < h.vm_start[t0],
         NEW g, Joins(g, h, t0, r, S \cup R)
  PROVE  \E E : Whole(g, t0, S \cup R, E)
<1> DEFINE T == S \cup R
           C == [x \in S \cup R |-> IF x \in S THEN D[x] ELSE F[x]]
           l == h.sp_l[t0]
<1>0. /\ Null \notin S /\ Null \notin R /\ Null \notin T
      /\ "sp_r" \in Side /\ "sp_l" \in Side /\ Other("sp_r") = "sp_l"
      /\ \A w \in Side : w = "sp_l" \/ w = "sp_r"
  BY NotNodes, NodeAssumption DEF Side, Other
<1>1. /\ Tree(h, S, D) /\ Parented(h, S) /\ Tree(h, R, F) /\ Parented(h, R)
      /\ r \in R \cup {Null} /\ Under(F, r) = R
  BY DEF Whole
<1>2. t0 \in S /\ D[t0] = S /\ Alone(S, D, t0) /\ \A x \in S, w \in Side : h[w][x] # t0
  BY <1>0, WholeFacts
<1>3. \A x \in T : h.vm_start[x] \in Nat
  BY <1>1 DEF Tree
<1>4. S \cap R = {}
  <2> SUFFICES ASSUME NEW x \in S, x \in R PROVE FALSE
    OBVIOUS
  <2>1. h.vm_start[x] < h.vm_start[x] /\ h.vm_start[x] \in Nat
    BY <1>3
  <2> QED BY <2>1
<1>5. h.sp_r[t0] = Null
  <2> SUFFICES ASSUME h["sp_r"][t0] # Null PROVE FALSE
    OBVIOUS
  <2> DEFINE c == h["sp_r"][t0]
  <2>1. c \in S /\ c \in D[c]
    BY <1>0, <1>1, <1>2, TreeFacts
  <2>2. c \in Under(D, c)
    BY <2>1, <1>0 DEF Under
  <2>3. On("sp_r", h.vm_start[c], h.vm_start[t0])
    BY <2>2, <1>0, <1>1, <1>2 DEF Tree
  <2>4. h.vm_start[t0] < h.vm_start[c]
    BY <2>3 DEF On
  <2>5. c = t0 \/ h.vm_start[c] < h.vm_start[t0]
    BY <2>1
  <2>6. h.vm_start[c] \in Nat /\ h.vm_start[t0] \in Nat
    BY <2>1, <1>2, <1>3
  <2> HIDE DEF c
  <2> QED BY <2>4, <2>5, <2>6
<1>6. Tree(h, T, C) /\ (\A x \in S : C[x] = D[x]) /\ \A x \in R : C[x] = F[x]
  BY <1>0, <1>1, <1>4, TreeBoth
<1> HIDE DEF C
<1>7. Alone(T, C, t0)
  <2> SUFFICES ASSUME NEW x \in T, t0 \in C[x] PROVE x = t0
    BY DEF Alone
  <2>1. CASE x \in S
    BY <2>1, <1>2, <1>6 DEF Alone
  <2>2. CASE x \in R
    <3>1. C[x] \subseteq R
      BY <2>2, <1>1, <1>6 DEF Tree
    <3> QED BY <3>1, <1>2, <1>4
  <2> QED BY <2>1, <2>2
<1>8. Under(C, r) = R
  BY <1>0, <1>1, <1>6 DEF Under
<1>9. /\ l \in S \cup {Null} /\ l # t0 /\ Under(C, l) = Under(D, l)
      /\ Under(D, l) \subseteq S
      /\ \A m \in Under(D, l) : On("sp_l", h.vm_start[m], h.vm_start[t0])
  <2>1. h["sp_l"][t0] \in S \cup {Null} /\ Under(D, h["sp_l"][t0]) \subseteq S
    BY <1>0, <1>1, <1>2, TreeFacts
  <2>2. h["sp_l"][t0] # t0
    BY <1>0, <1>2
  <2>3. Under(C, l) = Under(D, l)
    BY <2>1, <1>0, <1>6 DEF Under
  <2>4. \A m \in Under(D, h["sp_l"][t0]) : On("sp_l", h.vm_start[m], h.vm_start[t0])
    BY <1>0, <1>1, <1>2 DEF Tree
  <2> QED BY <2>1, <2>2, <2>3, <2>4
<1> HIDE DEF l, T
<1>t. T = S \cup R
  BY DEF T
<1>g. /\ \A n \in T : g.sp_l[n] = h.sp_l[n]
      /\ \A n \in T : g.sp_r[n] = IF n = t0 THEN r ELSE h.sp_r[n]
      /\ \A n \in T : n # t0 => g.sp_p[n] = IF n = r THEN t0 ELSE h.sp_p[n]
      /\ \A n \in T : g.vm_start[n] = h.vm_start[n]
  BY <1>t DEF Joins
<1>10. Put(g, h, T, t0, "sp_r", r, l)
  <2>1. t0 \in T
    BY <1>2, <1>t
  <2>2. g.sp_r[t0] = r /\ g.sp_l[t0] = l /\ g.vm_start[t0] \in Nat
    BY <2>1, <1>3, <1>g, <1>t DEF l
  <2>3. \A n \in T \ {t0}, v \in Side : g[v][n] = h[v][n]
    <3>1. \A n \in T \ {t0} : g["sp_l"][n] = h["sp_l"][n] /\ g["sp_r"][n] = h["sp_r"][n]
      BY <1>g
    <3> QED BY <3>1, <1>0
  <2> QED BY <2>2, <2>3, <1>0, <1>g DEF Put
<1>11. PICK E : Below(E, g, T, C, t0, r, l)
  <2>1. r \in (T \cup {Null}) \ {t0} /\ l \in (T \cup {Null}) \ {t0}
    BY <1>0, <1>1, <1>2, <1>4, <1>9, <1>t
  <2>2. \A m \in Under(C, r) : On("sp_r", g.vm_start[m], g.vm_start[t0])
    <3> SUFFICES ASSUME NEW m \in R
                 PROVE On("sp_r", g.vm_start[m], g.vm_start[t0])
      BY <1>8
    <3>1. h.vm_start[t0] < h.vm_start[m]
      BY <1>2
    <3>2. g.vm_start[t0] = h.vm_start[t0] /\ g.vm_start[m] = h.vm_start[m]
      BY <1>2, <1>g, <1>t
    <3> QED BY <3>1, <3>2 DEF On
  <2>3. \A m \in Under(C, l) : On("sp_l", g.vm_start[m], g.vm_start[t0])
    <3> SUFFICES ASSUME NEW m \in Under(D, l)
                 PROVE On("sp_l", g.vm_start[m], g.vm_start[t0])
      BY <1>9
    <3>1. m \in S
      BY <1>9
    <3>2. g.vm_start[t0] = h.vm_start[t0] /\ g.vm_start[m] = h.vm_start[m]
      BY <1>2, <1>g, <1>t, <3>1
    <3> QED BY <3>2, <1>9
  <2>4. \A m \in Under(C, l) : On(Other("sp_r"), g.vm_start[m], g.vm_start[t0])
    BY <2>3, <1>0
  <2>5. Tree(h, T, C)
    BY <1>6, <1>t
  <2> QED BY <2>1, <2>2, <2>4, <2>5, <1>0, <1>7, <1>10, <1>t, TreePut
<1>12. Tree(g, T \cup {t0}, E) /\ E[t0] = {t0} \cup Under(C, r) \cup Under(C, l)
  BY <1>11 DEF Below
<1>13. T \cup {t0} = T
  BY <1>2, <1>t
<1>14. E[t0] = T
  <2>1. \A x \in S : x = t0 \/ x \in Under(D, l)
    <3>1. \A x \in S : x \in D[t0] <=> x = t0 \/ \E w \in Side : x \in Under(D, h[w][t0])
      BY <1>1, <1>2 DEF Tree
    <3>2. Under(D, h["sp_r"][t0]) = {}
      BY <1>5 DEF Under
    <3> QED BY <3>1, <3>2, <1>0, <1>2 DEF l
  <2>2. \A x \in T : x \in E[t0]
    BY <2>1, <1>8, <1>9, <1>12, <1>t
  <2>3. \A x \in E[t0] : x \in T
    BY <1>2, <1>8, <1>9, <1>12, <1>t
  <2> QED BY <2>2, <2>3, <1>12, <1>13
<1>15. Parented(g, T)
  <2> SUFFICES ASSUME NEW x \in T, NEW v \in Side, g[v][x] # Null
               PROVE  g.sp_p[g[v][x]] = x
    BY DEF Parented
  <2>1. CASE x = t0 /\ v = "sp_r"
    <3>1. g[v][x] = r /\ r \in R /\ r \in T /\ r # t0
      BY <2>1, <1>g, <1>1, <1>2, <1>4, <1>t
    <3> QED BY <3>1, <2>1, <1>g
  <2>2. CASE ~(x = t0 /\ v = "sp_r")
    <3>1. g[v][x] = h[v][x]
      BY <2>2, <1>0, <1>g
    <3>2. h.sp_p[h[v][x]] = x
      BY <3>1, <1>1, <1>t DEF Parented
    <3>3. h[v][x] \in T /\ h[v][x] # t0
      <4>1. x \in S => h[v][x] \in S /\ h[v][x] # t0
        BY <3>1, <1>1, <1>2 DEF Tree
      <4>2. x \in R => h[v][x] \in R
        BY <3>1, <1>1 DEF Tree
      <4> QED BY <4>1, <4>2, <1>2, <1>4, <1>t
    <3>4. h[v][x] # r
      <4>1. CASE x \in S
        <5>1. h[v][x] \in S
          BY <4>1, <3>1, <1>1 DEF Tree
        <5> QED BY <5>1, <1>1, <1>4, <3>1
      <4>2. CASE x \in R
        BY <4>2, <3>1, <1>0, WholeFacts
      <4> QED BY <4>1, <4>2, <1>t
    <3> QED BY <3>1, <3>2, <3>3, <3>4, <1>g
  <2> QED BY <2>1, <2>2
<1>16. Tree(g, T, E)
  BY <1>12, <1>13
<1>17. t0 \in T
  BY <1>2, <1>t
<1> QED BY <1>14, <1>15, <1>16, <1>17, <1>0, <1>t DEF Whole, Under
-----------------------------------------------------------------------------
(* The walk along the pointers *)

\* A set of natural numbers has a least element: what the proofs below use in
\* place of an induction.
LEMMA LeastNumber ==
  ASSUME NEW T \in SUBSET Nat, T # {}
  PROVE  \E x \in T : \A y \in T : x <= y
<1> DEFINE F == {0 .. n : n \in T}
<1>1. F \subseteq FiniteSubsetsOf(Nat)
  <2> SUFFICES ASSUME NEW n \in T PROVE 0 .. n \in FiniteSubsetsOf(Nat)
    OBVIOUS
  <2>1. IsFiniteSet(0 .. n)
    BY FS_Interval
  <2>2. 0 .. n \in SUBSET Nat
    OBVIOUS
  <2> QED BY <2>1, <2>2 DEF FiniteSubsetsOf
<1>2. IsWellFoundedOn(StrictSubsetOrdering(Nat), FiniteSubsetsOf(Nat))
  BY FS_StrictSubsetOrderingWellFounded
<1>3. F # {}
  OBVIOUS
<1>4. PICK I \in F : \A J \in F : ~(<<J, I>> \in StrictSubsetOrdering(Nat))
  <2> HIDE DEF F
  <2> QED BY <1>1, <1>2, <1>3, WFMin
<1>5. PICK x \in T : I = 0 .. x
  OBVIOUS
<1>6. ASSUME NEW y \in T, ~(x <= y) PROVE FALSE
  <2>1. 0 .. y \in F
    OBVIOUS
  <2>2. 0 .. y \subseteq 0 .. x /\ 0 .. y # 0 .. x
    <3>1. x \in 0 .. x /\ x \notin 0 .. y
      BY <1>6
    <3>2. 0 .. y \subseteq 0 .. x
      BY <1>6
    <3> QED BY <3>1, <3>2
  <2>3. <<0 .. y, 0 .. x>> \in (SUBSET Nat) \X (SUBSET Nat)
    OBVIOUS
  <2>4. <<0 .. y, 0 .. x>> \in StrictSubsetOrdering(Nat)
    BY <2>2, <2>3 DEF StrictSubsetOrdering
  <2> QED BY <2>1, <2>4, <1>4, <1>5
<1> QED BY <1>6

\* The recursive definition of Within has a solution.
LEMMA WithinDef ==
  ASSUME NEW h, NEW n, NEW last \in Nat
  PROVE  /\ Within(h, n, last)[0] = {n}
         /\ \A i \in 1 .. last :
              Within(h, n, last)[i] = Spread(h, Within(h, n, last)[i - 1])
<1> DEFINE Solves(g, j) ==
             g = [i \in 0 .. j |-> IF i = 0 THEN {n} ELSE Spread(h, g[i - 1])]
           Without == {j \in Nat : ~ \E g : Solves(g, j)}
<1>1. ASSUME Without # {} PROVE FALSE
  <2>1. PICK j \in Without : \A m \in Without : j <= m
    <3>1. Without \in SUBSET Nat
      OBVIOUS
    <3> HIDE DEF Without
    <3> QED BY <1>1, <3>1, LeastNumber
  <2>2. j \in Nat
    OBVIOUS
  <2>3. CASE j = 0
    <3>1. Solves([i \in 0 .. 0 |-> {n}], 0)
      OBVIOUS
    <3> QED BY <2>3, <3>1
  <2>4. CASE j # 0
    <3>1. j - 1 \in Nat /\ j - 1 \notin Without
      <4> HIDE DEF Without
      <4> QED BY <2>1, <2>2, <2>4
    <3>2. PICK g : Solves(g, j - 1)
      BY <3>1
    <3> DEFINE k == [i \in 0 .. j |-> IF i \in 0 .. j - 1 THEN g[i]
                                      ELSE Spread(h, g[i - 1])]
    <3>3. \A i \in 0 .. j : k[i] = IF i = 0 THEN {n} ELSE Spread(h, k[i - 1])
      <4> SUFFICES ASSUME NEW i \in 0 .. j
                   PROVE  k[i] = IF i = 0 THEN {n} ELSE Spread(h, k[i - 1])
        OBVIOUS
      <4>1. \A m \in 0 .. j - 1 :
              /\ k[m] = g[m]
              /\ g[m] = IF m = 0 THEN {n} ELSE Spread(h, g[m - 1])
        <5>1. g = [m \in 0 .. j - 1 |-> IF m = 0 THEN {n} ELSE Spread(h, g[m - 1])]
          BY <3>2
        <5>2. \A m \in 0 .. j - 1 : g[m] = IF m = 0 THEN {n} ELSE Spread(h, g[m - 1])
          BY <5>1
        <5>3. \A m \in 0 .. j - 1 : m \in 0 .. j
          BY <2>2
        <5>4. \A m \in 0 .. j - 1 : k[m] = g[m]
          BY <5>3
        <5> QED BY <5>2, <5>4
      <4>2. i = 0 \/ i - 1 \in 0 .. j - 1
        BY <2>2
      <4>3. CASE i \in 0 .. j - 1
        BY <4>1, <4>2, <4>3
      <4>4. CASE i \notin 0 .. j - 1
        BY <2>4, <4>1, <4>2, <4>4
      <4> QED BY <4>3, <4>4
    <3>4. Solves(k, j)
      <4> HIDE DEF k
      <4>1. k = [i \in 0 .. j |-> k[i]]
        BY DEF k
      <4> QED BY <3>3, <4>1
    <3> QED BY <3>4
  <2> QED BY <2>3, <2>4
<1>2. \E g : Solves(g, last)
  BY <1>1
<1>3. Solves(Within(h, n, last), last)
  BY <1>2 DEF Within
<1> DEFINE W == Within(h, n, last)
<1> HIDE DEF W
<1>4. W = [i \in 0 .. last |-> IF i = 0 THEN {n} ELSE Spread(h, W[i - 1])]
  BY <1>3 DEF W
<1>5. W[0] = {n}
  BY <1>4
<1>6. \A i \in 1 .. last : W[i] = Spread(h, W[i - 1])
  <2> SUFFICES ASSUME NEW i \in 1 .. last PROVE W[i] = Spread(h, W[i - 1])
    OBVIOUS
  <2>1. i \in 0 .. last /\ i # 0
    OBVIOUS
  <2> QED BY <2>1, <1>4
<1> QED BY <1>5, <1>6 DEF W

\* The recursive definition of Searched has a solution.
LEMMA SearchedDef ==
  ASSUME NEW h, NEW n, NEW a, NEW last \in Nat
  PROVE  /\ Searched(h, n, a, last)[0] = n
         /\ \A i \in 1 .. last :
              Searched(h, n, a, last)[i] = Toward(h, a, Searched(h, n, a, last)[i - 1])
<1> DEFINE Solves(g, j) ==
             g = [i \in 0 .. j |-> IF i = 0 THEN n ELSE Toward(h, a, g[i - 1])]
           Without == {j \in Nat : ~ \E g : Solves(g, j)}
<1>1. ASSUME Without # {} PROVE FALSE
  <2>1. PICK j \in Without : \A m \in Without : j <= m
    <3>1. Without \in SUBSET Nat
      OBVIOUS
    <3> HIDE DEF Without
    <3> QED BY <1>1, <3>1, LeastNumber
  <2>2. j \in Nat
    OBVIOUS
  <2>3. CASE j = 0
    <3>1. Solves([i \in 0 .. 0 |-> n], 0)
      OBVIOUS
    <3> QED BY <2>3, <3>1
  <2>4. CASE j # 0
    <3>1. j - 1 \in Nat /\ j - 1 \notin Without
      <4> HIDE DEF Without
      <4> QED BY <2>1, <2>2, <2>4
    <3>2. PICK g : Solves(g, j - 1)
      BY <3>1
    <3> DEFINE k == [i \in 0 .. j |-> IF i \in 0 .. j - 1 THEN g[i]
                                      ELSE Toward(h, a, g[i - 1])]
    <3>3. \A i \in 0 .. j : k[i] = IF i = 0 THEN n ELSE Toward(h, a, k[i - 1])
      <4> SUFFICES ASSUME NEW i \in 0 .. j
                   PROVE  k[i] = IF i = 0 THEN n ELSE Toward(h, a, k[i - 1])
        OBVIOUS
      <4>1. \A m \in 0 .. j - 1 :
              /\ k[m] = g[m]
              /\ g[m] = IF m = 0 THEN n ELSE Toward(h, a, g[m - 1])
        <5>1. g = [m \in 0 .. j - 1 |-> IF m = 0 THEN n ELSE Toward(h, a, g[m - 1])]
          BY <3>2
        <5>2. \A m \in 0 .. j - 1 : g[m] = IF m = 0 THEN n ELSE Toward(h, a, g[m - 1])
          BY <5>1
        <5>3. \A m \in 0 .. j - 1 : m \in 0 .. j
          BY <2>2
        <5>4. \A m \in 0 .. j - 1 : k[m] = g[m]
          BY <5>3
        <5> QED BY <5>2, <5>4
      <4>2. i = 0 \/ i - 1 \in 0 .. j - 1
        BY <2>2
      <4>3. CASE i \in 0 .. j - 1
        BY <4>1, <4>2, <4>3
      <4>4. CASE i \notin 0 .. j - 1
        BY <2>4, <4>1, <4>2, <4>4
      <4> QED BY <4>3, <4>4
    <3>4. Solves(k, j)
      <4> HIDE DEF k
      <4>1. k = [i \in 0 .. j |-> k[i]]
        BY DEF k
      <4> QED BY <3>3, <4>1
    <3> QED BY <3>4
  <2> QED BY <2>3, <2>4
<1>2. \E g : Solves(g, last)
  BY <1>1
<1>3. Solves(Searched(h, n, a, last), last)
  BY <1>2 DEF Searched
<1> DEFINE W == Searched(h, n, a, last)
<1> HIDE DEF W
<1>4. W = [i \in 0 .. last |-> IF i = 0 THEN n ELSE Toward(h, a, W[i - 1])]
  BY <1>3 DEF W
<1>5. W[0] = n
  BY <1>4
<1>6. \A i \in 1 .. last : W[i] = Toward(h, a, W[i - 1])
  <2> SUFFICES ASSUME NEW i \in 1 .. last PROVE W[i] = Toward(h, a, W[i - 1])
    OBVIOUS
  <2>1. i \in 0 .. last /\ i # 0
    OBVIOUS
  <2> QED BY <2>1, <1>4
<1> QED BY <1>5, <1>6 DEF W

\* What Reach collects is what is under a node of a tree: no node that is not,
\* as no pointer leads out; and every one that is, as the walk comes to a node
\* after no more steps than nodes are under the top and not under it.
LEMMA ReachIs ==
  ASSUME NEW h, NEW S, S \subseteq Node, NEW D, Tree(h, S, D), NEW n \in S \cup {Null}
  PROVE  Reach(h, n) = Under(D, n)
<1> DEFINE last == Cardinality(Node)
           W == Within(h, n, last)
<1>1. CASE n = Null
  BY <1>1 DEF Reach, Under
<1>2. CASE n # Null
  <2>0. /\ Null \notin S /\ n \in S /\ last \in Nat /\ IsFiniteSet(Node)
    BY <1>2, NotNodes, NodeAssumption, FS_CardinalityType
  <2>1. /\ Reach(h, n) = W[last]
        /\ Under(D, n) = D[n]
    BY <1>2 DEF Reach, Under
  <2>2. /\ W[0] = {n}
        /\ \A i \in 1 .. last : W[i] = Spread(h, W[i - 1])
    <3> HIDE DEF last
    <3> QED BY <2>0, WithinDef DEF W
  <2> HIDE DEF W, last
  <2>3. /\ D[n] \subseteq S /\ n \in D[n]
        /\ \A x \in S : x \in D[x]
        /\ \A x \in D[n] : D[x] \subseteq D[n]
        /\ \A x \in D[n] : x = n \/ \E a \in D[n], w \in Side : h[w][a] = x
        /\ \A x \in S, w \in Side :
             /\ h[w][x] \in S \cup {Null}
             /\ h[w][x] # Null => h[w][x] \in D[x]
             /\ Under(D, h[w][x]) \subseteq D[x]
             /\ x \notin Under(D, h[w][x])
    <3>1. /\ \A x \in D[n] : D[x] \subseteq D[n]
          /\ \A x \in D[n] : x = n \/ \E a \in D[n], w \in Side : h[w][a] = x
      BY <2>0 DEF Tree
    <3>2. /\ \A x \in S : x \in D[x] /\ D[x] \subseteq S
          /\ \A x \in S, w \in Side :
               /\ h[w][x] \in S \cup {Null}
               /\ h[w][x] # Null => h[w][x] \in D[x]
               /\ Under(D, h[w][x]) \subseteq D[x]
               /\ x \notin Under(D, h[w][x])
      BY <2>0, TreeFacts
    <3> QED BY <2>0, <3>1, <3>2
  <2>4. \A i \in 0 .. last : W[i] \subseteq D[n]
    <3> DEFINE Bad == {i \in 0 .. last : ~(W[i] \subseteq D[n])}
    <3>1. SUFFICES ASSUME Bad # {} PROVE FALSE
      OBVIOUS
    <3>2. PICK i \in Bad : \A j \in Bad : i <= j
      <4>1. Bad \in SUBSET Nat
        OBVIOUS
      <4> HIDE DEF Bad
      <4> QED BY <3>1, <4>1, LeastNumber
    <3>3. i \in 0 .. last /\ ~(W[i] \subseteq D[n])
      OBVIOUS
    <3>4. i # 0
      BY <3>3, <2>2, <2>3
    <3>5. i - 1 \in 0 .. last /\ i - 1 \notin Bad /\ i \in 1 .. last
      <4> HIDE DEF Bad
      <4> QED BY <2>0, <3>2, <3>3, <3>4
    <3>6. W[i - 1] \subseteq D[n]
      BY <3>5
    <3>7. W[i] = Spread(h, W[i - 1])
      BY <2>2, <3>5
    <3>8. Spread(h, W[i - 1]) \subseteq D[n]
      <4> DEFINE M == W[i - 1]
      <4>1. M \subseteq D[n]
        BY <3>6
      <4> HIDE DEF M
      <4>2. \A w \in Side, m \in M : h[w][m] = Null \/ h[w][m] \in D[n]
        BY <4>1, <2>3
      <4>3. Spread(h, M) \subseteq D[n]
        BY <4>1, <4>2 DEF Spread
      <4> QED BY <4>3 DEF M
    <3> QED BY <3>3, <3>7, <3>8
  <2>5. \A i \in 0 .. last : \A j \in 0 .. last : i <= j => W[i] \subseteq W[j]
    <3> SUFFICES ASSUME NEW i \in 0 .. last
                 PROVE  \A j \in 0 .. last : i <= j => W[i] \subseteq W[j]
      OBVIOUS
    <3> DEFINE Bad == {j \in 0 .. last : i <= j /\ ~(W[i] \subseteq W[j])}
    <3>1. SUFFICES ASSUME Bad # {} PROVE FALSE
      OBVIOUS
    <3>2. PICK j \in Bad : \A m \in Bad : j <= m
      <4>1. Bad \in SUBSET Nat
        OBVIOUS
      <4> HIDE DEF Bad
      <4> QED BY <3>1, <4>1, LeastNumber
    <3>3. j \in 0 .. last /\ i <= j /\ ~(W[i] \subseteq W[j])
      OBVIOUS
    <3>4. i # j
      BY <3>3
    <3>5. j - 1 \in 0 .. last /\ j - 1 \notin Bad /\ j \in 1 .. last /\ i <= j - 1
      <4> HIDE DEF Bad
      <4> QED BY <2>0, <3>2, <3>3, <3>4
    <3>6. W[i] \subseteq W[j - 1]
      BY <3>5
    <3>7. W[j] = Spread(h, W[j - 1])
      BY <2>2, <3>5
    <3>8. W[j - 1] \subseteq Spread(h, W[j - 1])
      BY DEF Spread
    <3> QED BY <3>3, <3>6, <3>7, <3>8
  <2>6. /\ \A x \in S : IsFiniteSet(D[x]) /\ Cardinality(D[x]) \in Nat
        /\ Cardinality(D[n]) <= last
        /\ \A x \in D[n] : Cardinality(D[x]) <= Cardinality(D[n])
        /\ Cardinality(D[n]) # 0
        /\ \A x \in S : Cardinality(D[x]) # 0
    <3>1. \A x \in S : D[x] \in SUBSET Node
      BY DEF Tree
    <3>2. \A x \in S : IsFiniteSet(D[x]) /\ Cardinality(D[x]) <= last
      BY <3>1, <2>0, FS_Subset DEF last
    <3>3. \A x \in S : Cardinality(D[x]) \in Nat
      BY <3>2, FS_CardinalityType
    <3>4. \A x \in D[n] : Cardinality(D[x]) <= Cardinality(D[n])
      <4> SUFFICES ASSUME NEW x \in D[n]
                   PROVE  Cardinality(D[x]) <= Cardinality(D[n])
        OBVIOUS
      <4>1. D[x] \in SUBSET D[n] /\ IsFiniteSet(D[n])
        BY <2>0, <2>3, <3>2
      <4> QED BY <4>1, FS_Subset
    <3>5. \A x \in S : Cardinality(D[x]) # 0
      BY <2>3, <3>2, FS_EmptySet
    <3> QED BY <2>0, <3>2, <3>3, <3>4, <3>5
  <2> DEFINE C(x) == Cardinality(D[n]) - Cardinality(D[x])
  <2>7. \A x \in D[n] : C(x) \in 0 .. last
    <3> SUFFICES ASSUME NEW x \in D[n] PROVE C(x) \in 0 .. last
      OBVIOUS
    <3>1. x \in S /\ n \in S
      BY <2>0, <2>3
    <3>2. /\ Cardinality(D[n]) \in Nat /\ Cardinality(D[x]) \in Nat
          /\ Cardinality(D[x]) <= Cardinality(D[n]) /\ Cardinality(D[n]) <= last
      BY <2>6, <3>1
    <3> QED BY <3>2, <2>0
  <2>8. \A x \in D[n] : x \in W[C(x)]
    <3> DEFINE Bad == {C(x) : x \in {y \in D[n] : y \notin W[C(y)]}}
    <3>1. SUFFICES ASSUME Bad # {} PROVE FALSE
      OBVIOUS
    <3>2. PICK i \in Bad : \A j \in Bad : i <= j
      <4>1. Bad \in SUBSET Nat
        BY <2>7
      <4> HIDE DEF Bad
      <4> QED BY <3>1, <4>1, LeastNumber
    <3>3. PICK x \in D[n] : i = C(x) /\ x \notin W[C(x)]
      OBVIOUS
    <3>4. x # n
      <4>1. ASSUME x = n PROVE C(x) = 0
        BY <4>1, <2>0, <2>6
      <4> QED BY <4>1, <3>3, <2>2
    <3>5. PICK a \in D[n], w \in Side : h[w][a] = x
      BY <2>3, <3>4
    <3>6. /\ a \in S /\ x \in S /\ x # Null
          /\ D[x] \subseteq D[a] /\ a \notin D[x] /\ a \in D[a]
      <4>1. a \in S /\ x \in S /\ x # Null
        BY <2>0, <2>3
      <4>2. Under(D, x) \subseteq D[a] /\ a \notin Under(D, x)
        BY <4>1, <2>3, <3>5
      <4>3. Under(D, x) = D[x]
        BY <4>1 DEF Under
      <4> QED BY <4>1, <4>2, <4>3, <2>3
    <3>7. Cardinality(D[x]) < Cardinality(D[a])
      <4>1. D[x] \in SUBSET D[a] /\ IsFiniteSet(D[a]) /\ D[x] # D[a]
        BY <2>6, <3>6
      <4>2. Cardinality(D[x]) <= Cardinality(D[a]) /\ Cardinality(D[x]) # Cardinality(D[a])
        BY <4>1, FS_Subset
      <4>3. Cardinality(D[x]) \in Nat /\ Cardinality(D[a]) \in Nat
        BY <2>6, <3>6
      <4> QED BY <4>2, <4>3
    <3>8. C(a) < C(x)
      <4>1. Cardinality(D[x]) \in Nat /\ Cardinality(D[a]) \in Nat
            /\ Cardinality(D[n]) \in Nat
        BY <2>0, <2>6, <3>6
      <4> QED BY <4>1, <3>7
    <3>9. C(a) \in 0 .. last /\ C(x) \in 0 .. last
      BY <2>7
    <3>10. a \in W[C(a)]
      <4>1. C(a) \notin Bad
        <5> HIDE DEF Bad, C
        <5> QED BY <3>2, <3>3, <3>8, <3>9
      <4> QED BY <4>1
    <3> HIDE DEF C
    <3>11. C(x) - 1 \in 0 .. last /\ C(a) <= C(x) - 1 /\ C(x) \in 1 .. last
      BY <2>0, <3>8, <3>9
    <3>12. a \in W[C(x) - 1]
      BY <2>5, <3>9, <3>10, <3>11
    <3>13. x \in Spread(h, W[C(x) - 1])
      BY <3>5, <3>6, <3>12 DEF Spread
    <3> QED BY <2>2, <3>3, <3>11, <3>13
  <2>9. last \in 0 .. last /\ \A x \in D[n] : C(x) <= last
    BY <2>0, <2>7
  <2>10. D[n] \subseteq W[last]
    <3> HIDE DEF C
    <3> QED BY <2>5, <2>7, <2>8, <2>9
  <2>11. W[last] \subseteq D[n]
    BY <2>4, <2>9
  <2> QED BY <2>1, <2>10, <2>11
<1> QED BY <1>1, <1>2

\* What holds first and of each number after one of which it holds
LEMMA ByCounting ==
  ASSUME NEW last \in Nat, NEW G, 0 \in G, \A i \in 1 .. last : i - 1 \in G => i \in G
  PROVE  \A i \in 0 .. last : i \in G
<1> DEFINE Bad == {i \in 0 .. last : i \notin G}
<1>1. SUFFICES ASSUME Bad # {} PROVE FALSE
  OBVIOUS
<1>2. PICK i \in Bad : \A j \in Bad : i <= j
  <2>1. Bad \in SUBSET Nat
    OBVIOUS
  <2> HIDE DEF Bad
  <2> QED BY <1>1, <2>1, LeastNumber
<1>3. i \in 0 .. last /\ i \notin G /\ i # 0
  OBVIOUS
<1>4. i \in 1 .. last /\ i - 1 \in 0 .. last /\ ~(i <= i - 1)
  BY <1>3
<1>5. i - 1 \notin Bad
  <2> HIDE DEF Bad
  <2> QED BY <1>2, <1>4
<1>6. i - 1 \in G
  BY <1>4, <1>5
<1> QED BY <1>3, <1>4, <1>6

\* A search goes on to the child on the side of what is sought, if there is one.
LEMMA TowardIs ==
  ASSUME NEW h, NEW n, NEW a \in Nat, h.vm_start[n] \in Nat, NEW w \in Side,
         On(w, a, h.vm_start[n])
  PROVE  Toward(h, a, n) = IF h[w][n] = Null THEN n ELSE h[w][n]
<1> DEFINE b == h.vm_start[n]
<1>1. b \in Nat
  OBVIOUS
<1>2. On(w, a, b)
  OBVIOUS
<1>3. Toward(h, a, n) = IF (a < b /\ h["sp_l"][n] # Null) \/ (b < a /\ h["sp_r"][n] # Null)
                          THEN h[IF a < b THEN "sp_l" ELSE "sp_r"][n] ELSE n
  BY DEF Toward, Side
<1> HIDE DEF b
<1>4. CASE w = "sp_l"
  <2>1. a < b /\ ~(b < a)
    BY <1>1, <1>2, <1>4 DEF On
  <2> QED BY <1>3, <1>4, <2>1
<1>5. CASE w = "sp_r"
  <2>1. b < a /\ ~(a < b)
    BY <1>1, <1>2, <1>5 DEF On
  <2> QED BY <1>3, <1>5, <2>1
<1> QED BY <1>4, <1>5 DEF Side

\* At what is sought it ends.
LEMMA TowardStops ==
  ASSUME NEW h, NEW n, NEW a \in Nat, h.vm_start[n] \in Nat,
         \A w \in Side : ~On(w, a, h.vm_start[n])
  PROVE  Toward(h, a, n) = n
<1> DEFINE b == h.vm_start[n]
<1>1. ~(a < b) /\ ~(b < a)
  BY DEF On, Side
<1>2. Toward(h, a, n) = IF (a < b /\ h["sp_l"][n] # Null) \/ (b < a /\ h["sp_r"][n] # Null)
                          THEN h[IF a < b THEN "sp_l" ELSE "sp_r"][n] ELSE n
  BY DEF Toward, Side
<1> HIDE DEF b
<1> QED BY <1>1, <1>2

\* From a node it goes to one of its children or stays.
LEMMA TowardChild ==
  ASSUME NEW h, NEW n, NEW a \in Nat, h.vm_start[n] \in Nat
  PROVE  Toward(h, a, n) = n \/ \E w \in Side : Toward(h, a, n) = h[w][n] /\ h[w][n] # Null
BY TowardIs, TowardStops

\* Where the search ends that starts at n and takes as many steps as there are
\* nodes (a SearchEnd of any heap)
Ending(h, n, a) == Searched(h, n, a, Cardinality(Node))[Cardinality(Node)]

\* which is a number, and not 0 where there is a node.
LEMMA LastIs ==
  /\ Cardinality(Node) \in Nat
  /\ IsFiniteSet(Node)
  /\ \A n \in Node : Cardinality(Node) # 0
BY NodeAssumption, FS_CardinalityType, FS_EmptySet

\* A search that does not move ends where it starts.
LEMMA SearchStays ==
  ASSUME NEW h, NEW n, NEW a, Toward(h, a, n) = n
  PROVE  Ending(h, n, a) = n
<1> DEFINE last == Cardinality(Node)
           R == Searched(h, n, a, last)
           G == {i \in 0 .. last : R[i] = n}
<1>0. last \in Nat
  BY LastIs
<1> HIDE DEF last
<1>1. R[0] = n /\ \A i \in 1 .. last : R[i] = Toward(h, a, R[i - 1])
  BY <1>0, SearchedDef
<1> HIDE DEF R
<1>2. 0 \in G
  BY <1>0, <1>1
<1>3. \A i \in 1 .. last : i - 1 \in G => i \in G
  BY <1>0, <1>1
<1> HIDE DEF G
<1>4. last \in G
  BY <1>0, <1>2, <1>3, ByCounting
<1> QED BY <1>4 DEF Ending, R, G, last

\* A search meets only nodes below the first, and of each only the children and
\* the address matter.
LEMMA SearchSame ==
  ASSUME NEW h, NEW S, NEW D, Tree(h, S, D), Null \notin S, NEW n \in S, NEW a \in Nat,
         NEW g, \A x \in D[n] : /\ g.vm_start[x] = h.vm_start[x]
                                /\ \A w \in Side : g[w][x] = h[w][x]
  PROVE  Ending(g, n, a) = Ending(h, n, a) /\ Ending(h, n, a) \in D[n]
<1> DEFINE last == Cardinality(Node)
           R == Searched(h, n, a, last)
           Q == Searched(g, n, a, last)
           G == {i \in 0 .. last : R[i] \in D[n] /\ Q[i] = R[i]}
<1>0. last \in Nat
  BY LastIs
<1> HIDE DEF last
<1>1. /\ R[0] = n /\ \A i \in 1 .. last : R[i] = Toward(h, a, R[i - 1])
      /\ Q[0] = n /\ \A i \in 1 .. last : Q[i] = Toward(g, a, Q[i - 1])
  BY <1>0, SearchedDef
<1> HIDE DEF R, Q
<1>2. ASSUME NEW x \in D[n]
      PROVE  Toward(h, a, x) \in D[n] /\ Toward(g, a, x) = Toward(h, a, x)
  <2>1. x \in S /\ D[x] \subseteq D[n] /\ h.vm_start[x] \in Nat
    <3>1. D[n] \subseteq S
      BY TreeFacts
    <3> QED BY <3>1 DEF Tree
  <2>2. Toward(h, a, x) = x \/ \E w \in Side : Toward(h, a, x) = h[w][x] /\ h[w][x] # Null
    BY <2>1, TowardChild
  <2>3. \A w \in Side : h[w][x] # Null => h[w][x] \in D[x]
    BY <2>1, TreeFacts
  <2>4. Toward(g, a, x) = Toward(h, a, x)
    <3>1. g.vm_start[x] = h.vm_start[x] /\ \A w \in Side : g[w][x] = h[w][x]
      OBVIOUS
    <3>2. "sp_l" \in Side /\ "sp_r" \in Side
      BY DEF Side
    <3> QED BY <3>1, <3>2 DEF Toward
  <2> QED BY <2>1, <2>2, <2>3, <2>4
<1>3. 0 \in G
  <2>1. n \in D[n]
    BY TreeFacts
  <2> QED BY <1>0, <1>1, <2>1
<1>4. ASSUME NEW i \in 1 .. last, i - 1 \in G PROVE i \in G
  BY <1>0, <1>1, <1>2, <1>4
<1> HIDE DEF G
<1>5. last \in G
  BY <1>0, <1>3, <1>4, ByCounting
<1> QED BY <1>5 DEF Ending, Q, R, G, last

\* A search that moves on from its first node ends where one does that starts at
\* the second: there are steps enough to the last.
LEMMA SearchDown ==
  ASSUME NEW h, NEW S, S \subseteq Node, NEW D, Tree(h, S, D), NEW n \in S, NEW a \in Nat,
         NEW w \in Side, NEW c, c = h[w][n], c # Null, On(w, a, h.vm_start[n])
  PROVE  Ending(h, n, a) = Ending(h, c, a)
<1> DEFINE last == Cardinality(Node)
           R == Searched(h, n, a, last)
           Q == Searched(h, c, a, last)
           size(x) == Cardinality(D[x])
           still(x) == Toward(h, a, x) = x
<1>0. /\ last \in Nat /\ last # 0 /\ Null \notin S /\ IsFiniteSet(Node)
  BY LastIs, NotNodes, NodeAssumption
<1>1. /\ c \in S /\ D[c] \subseteq S /\ c \in D[c] /\ n \notin D[c]
      /\ \A x \in D[c] : x \in S /\ D[x] \subseteq D[c] /\ x \in D[x]
  <2>1. c \in S \cup {Null} /\ n \notin Under(D, c)
    BY <1>0, TreeFacts
  <2>2. c \in S /\ Under(D, c) = D[c]
    BY <2>1 DEF Under
  <2>3. D[c] \subseteq S /\ \A x \in S : x \in D[x]
    BY <1>0, <2>2, TreeFacts
  <2>4. \A x \in D[c] : D[x] \subseteq D[c]
    BY <2>2 DEF Tree
  <2> QED BY <2>1, <2>2, <2>3, <2>4
<1>2. \A x \in D[c] : IsFiniteSet(D[x]) /\ size(x) \in Nat /\ size(x) # 0
  <2> SUFFICES ASSUME NEW x \in D[c] PROVE IsFiniteSet(D[x]) /\ size(x) \in Nat /\ size(x) # 0
    OBVIOUS
  <2>1. IsFiniteSet(D[x])
    <3>1. D[x] \in SUBSET Node
      BY <1>1
    <3> QED BY <1>0, <3>1, FS_Subset
  <2> QED BY <1>1, <2>1, FS_CardinalityType, FS_EmptySet
<1>3. size(c) < last
  <2>1. D[c] \in SUBSET Node /\ D[c] # Node
    BY <1>1
  <2>2. size(c) <= last /\ size(c) # last
    BY <1>0, <2>1, FS_Subset
  <2> QED BY <1>0, <1>1, <1>2, <2>2
<1>4. ASSUME NEW x \in D[c], ~still(x)
      PROVE  /\ Toward(h, a, x) \in D[c]
             /\ size(Toward(h, a, x)) < size(x)
  <2> DEFINE y == Toward(h, a, x)
  <2>1. h.vm_start[x] \in Nat
    BY <1>1 DEF Tree
  <2>2. PICK v \in Side : y = h[v][x] /\ y # Null
    BY <1>4, <2>1, TowardChild
  <2> HIDE DEF y
  <2>3. y \in D[x] /\ y \in D[c] /\ y \in S
    BY <1>0, <1>1, <2>2, TreeFacts
  <2>4. D[y] \subseteq D[x] /\ x \notin D[y]
    <3>1. x \notin Under(D, h[v][x])
      BY <1>0, <1>1, TreeFacts
    <3>2. Under(D, y) = D[y]
      BY <2>2 DEF Under
    <3>3. D[y] \subseteq D[x]
      BY <1>1, <2>3 DEF Tree
    <3> QED BY <2>2, <3>1, <3>2, <3>3
  <2>5. D[y] \in SUBSET D[x] /\ D[y] # D[x]
    BY <1>1, <2>4
  <2>6. size(y) <= size(x) /\ size(y) # size(x)
    BY <1>2, <2>5, FS_Subset
  <2> QED BY <1>2, <2>3, <2>6 DEF y
<1>5. /\ R[0] = n /\ \A i \in 1 .. last : R[i] = Toward(h, a, R[i - 1])
      /\ Q[0] = c /\ \A i \in 1 .. last : Q[i] = Toward(h, a, Q[i - 1])
  <2> HIDE DEF last
  <2> QED BY <1>0, SearchedDef
<1> HIDE DEF last, R, Q, size
<1>6. /\ last - 1 \in Nat /\ last - 1 \in 0 .. last /\ last \in 1 .. last
      /\ \A i \in 1 .. last - 1 : i \in 1 .. last /\ i - 1 \in 0 .. last
  BY <1>0
<1>7. R[last] = Q[last - 1]
  <2> DEFINE G == {i \in 0 .. last - 1 : R[i + 1] = Q[i]}
  <2>1. 0 \in G
    <3>1. h.vm_start[n] \in Nat
      BY DEF Tree
    <3>2. Toward(h, a, n) = c
      BY <3>1, TowardIs
    <3>3. 1 \in 1 .. last /\ 1 - 1 = 0 /\ 0 + 1 = 1
      BY <1>6
    <3>4. R[1] = c
      BY <1>5, <3>2, <3>3
    <3> QED BY <1>5, <1>6, <3>3, <3>4
  <2>2. ASSUME NEW i \in 1 .. last - 1, i - 1 \in G PROVE i \in G
    <3>1. R[(i - 1) + 1] = Q[i - 1]
      BY <2>2
    <3>2. /\ (i - 1) + 1 = i /\ (i + 1) - 1 = i
          /\ i + 1 \in 1 .. last /\ i \in 1 .. last /\ i \in 0 .. last - 1
      BY <1>0
    <3>3. R[i + 1] = Toward(h, a, R[i])
      BY <1>5, <3>2
    <3>4. Q[i] = Toward(h, a, Q[i - 1])
      BY <1>5, <3>2
    <3> QED BY <3>1, <3>2, <3>3, <3>4
  <2> HIDE DEF G
  <2>3. last - 1 \in G
    BY <1>6, <2>1, <2>2, ByCounting
  <2>4. (last - 1) + 1 = last
    BY <1>0
  <2> QED BY <2>3, <2>4 DEF G
<1>8. still(Q[last - 1])
  <2> DEFINE G == {i \in 0 .. last - 1 : /\ Q[i] \in D[c]
                                         /\ still(Q[i]) \/ size(Q[i]) + i <= size(c)}
  <2>1. 0 \in G
    <3>1. size(c) \in Nat /\ Q[0] \in D[c]
      BY <1>1, <1>2, <1>5 DEF size
    <3>2. size(Q[0]) + 0 <= size(c)
      BY <1>5, <3>1
    <3> QED BY <1>6, <3>1, <3>2
  <2>2. ASSUME NEW i \in 1 .. last - 1, i - 1 \in G PROVE i \in G
    <3>1. Q[i] = Toward(h, a, Q[i - 1])
      BY <1>5, <1>6
    <3>2. Q[i - 1] \in D[c] /\ (still(Q[i - 1]) \/ size(Q[i - 1]) + (i - 1) <= size(c))
      BY <2>2
    <3>3. i \in 0 .. last - 1
      BY <1>0
    <3>4. CASE still(Q[i - 1])
      BY <3>1, <3>2, <3>3, <3>4
    <3>5. CASE ~still(Q[i - 1])
      <4>1. Q[i] \in D[c] /\ size(Q[i]) < size(Q[i - 1])
        BY <1>4, <3>1, <3>2, <3>5
      <4>2. size(Q[i]) \in Nat /\ size(Q[i - 1]) \in Nat /\ size(c) \in Nat
        BY <1>1, <1>2, <3>2, <4>1 DEF size
      <4>3. size(Q[i]) + i <= size(c)
        BY <3>2, <3>3, <3>5, <4>1, <4>2, <1>0
      <4> QED BY <3>3, <4>1, <4>3
    <3> QED BY <3>4, <3>5
  <2> HIDE DEF G
  <2>3. last - 1 \in G
    BY <1>6, <2>1, <2>2, ByCounting
  <2>4. Q[last - 1] \in D[c] /\ (still(Q[last - 1]) \/ size(Q[last - 1]) + (last - 1) <= size(c))
    BY <2>3 DEF G
  <2>5. size(Q[last - 1]) \in Nat /\ size(Q[last - 1]) # 0 /\ size(c) \in Nat /\ size(c) < last
    BY <1>1, <1>2, <1>3, <2>4 DEF size
  <2>6. ~(size(Q[last - 1]) + (last - 1) <= size(c))
    BY <1>0, <2>5
  <2> QED BY <2>4, <2>6
<1>9. Q[last] = Q[last - 1]
  BY <1>5, <1>6, <1>8
<1> QED BY <1>7, <1>9 DEF Ending, R, Q, last

\* Where a binary search ends there is no child on the side of what is sought.
LEMMA SearchEnds ==
  ASSUME NEW h, NEW S, S \subseteq Node, NEW D, Tree(h, S, D), NEW n \in S,
         NEW a \in Nat, Ending(h, n, a) = n
  PROVE  \A w \in Side : On(w, a, h.vm_start[n]) => h[w][n] = Null
<1> SUFFICES ASSUME NEW w \in Side, On(w, a, h.vm_start[n]), h[w][n] # Null
             PROVE  FALSE
  OBVIOUS
<1> DEFINE c == h[w][n]
<1>1. Null \notin S /\ c # Null
  BY NotNodes, NodeAssumption
<1>2. c \in S /\ n \notin D[c]
  <2>1. c \in S \cup {Null} /\ n \notin Under(D, c)
    BY <1>1, TreeFacts
  <2> QED BY <1>1, <2>1 DEF Under
<1> HIDE DEF c
<1>3. Ending(h, n, a) = Ending(h, c, a)
  BY <1>1, SearchDown DEF c
<1>4. Ending(h, c, a) \in D[c]
  BY <1>1, <1>2, SearchSame
<1> QED BY <1>2, <1>3, <1>4

-----------------------------------------------------------------------------
(* What the macros leave alone *)

\* The pointers stay pointers, and two nodes alone are told of each other.
LEMMA LinkedSame ==
  ASSUME NEW k, NEW h, NEW a \in Slot, NEW w \in Side, NEW b, Linked(k, h, a, w, b)
  PROVE  /\ \A f \in Data \cup {"vm_prev", "vm_next"} : k[f] = h[f]
         /\ Same(k, h, Slot \ {a, b})
         /\ b \in Node \cup {Null} /\ Typed(h) => Typed(k)
<1>1. /\ HeapDom(k)
      /\ \A f \in Field : f # w /\ f # "sp_p" => k[f] = h[f]
      /\ \A n \in Slot : k[w][n] = IF n = a THEN b ELSE h[w][n]
      /\ \A n \in Slot : k.sp_p[n] = IF n = a /\ h.sp_p[n] = b THEN Null
                                     ELSE IF n = b THEN a ELSE h.sp_p[n]
  BY DEF Linked
<1>2. /\ \A f \in Field : f \in Data \/ f \in Side \/ f = "sp_p" \/ f \in {"vm_prev", "vm_next"}
      /\ Data \subseteq Field /\ Side \subseteq Field /\ {"vm_prev", "vm_next"} \subseteq Field
      /\ \A f \in Data \cup {"vm_prev", "vm_next"} : f \notin Side /\ f # "sp_p"
      /\ w \in Side /\ "sp_p" \notin Side
  BY DEF Field, Link, Data, Side
<1>3. \A f \in Data \cup {"vm_prev", "vm_next"} : k[f] = h[f]
  <2> SUFFICES ASSUME NEW f \in Data \cup {"vm_prev", "vm_next"} PROVE k[f] = h[f]
    OBVIOUS
  <2>1. f \in Field /\ f # w /\ f # "sp_p"
    BY <1>2
  <2> QED BY <1>1, <2>1
<1>4. \A f \in Side, n \in Slot : k[f][n] = IF f = w /\ n = a THEN b ELSE h[f][n]
  <2> SUFFICES ASSUME NEW f \in Side, NEW n \in Slot
               PROVE  k[f][n] = IF f = w /\ n = a THEN b ELSE h[f][n]
    OBVIOUS
  <2>1. CASE f = w
    BY <1>1, <2>1
  <2>2. CASE f # w
    <3>1. k[f] = h[f]
      BY <1>1, <1>2, <2>2
    <3> QED BY <2>2, <3>1
  <2> QED BY <2>1, <2>2
<1>5. Same(k, h, Slot \ {a, b})
  <2> SUFFICES ASSUME NEW f \in Field, NEW n \in Slot \ {a, b} PROVE k[f][n] = h[f][n]
    BY DEF Same
  <2>1. CASE f \in Side
    BY <1>4, <2>1
  <2>2. CASE f = "sp_p"
    BY <1>1, <2>2
  <2>3. CASE f \in Data \cup {"vm_prev", "vm_next"}
    BY <1>3, <2>3
  <2> QED BY <1>2, <2>1, <2>2, <2>3
<1>6. ASSUME b \in Node \cup {Null}, Typed(h) PROVE Typed(k)
  <2>1. \A n \in Slot :
          /\ \A f \in Side \cup {"vm_prev", "vm_next"} : h[f][n] \in Node \cup {Null}
          /\ h.sp_p[n] \in Node \cup {Header, Null}
          /\ h.vm_start[n] \in Nat
          /\ h.vm_end[n] \in Nat
          /\ h.vm_flags[n] \in Flag
    BY <1>6 DEF Typed
  <2> SUFFICES ASSUME NEW n \in Slot
               PROVE  /\ \A f \in Side \cup {"vm_prev", "vm_next"} :
                           k[f][n] \in Node \cup {Null}
                      /\ k.sp_p[n] \in Node \cup {Header, Null}
                      /\ k.vm_start[n] \in Nat
                      /\ k.vm_end[n] \in Nat
                      /\ k.vm_flags[n] \in Flag
    BY <1>1 DEF Typed
  <2>2. k["vm_start"] = h["vm_start"] /\ k["vm_end"] = h["vm_end"]
        /\ k["vm_flags"] = h["vm_flags"]
    BY <1>3 DEF Data
  <2>3. k.sp_p[n] \in Node \cup {Header, Null}
    BY <1>1, <2>1 DEF Slot
  <2>4. \A f \in Side : k[f][n] \in Node \cup {Null}
    BY <1>4, <1>6, <2>1
  <2>5. \A f \in {"vm_prev", "vm_next"} : k[f][n] \in Node \cup {Null}
    BY <1>3, <2>1
  <2> QED BY <2>1, <2>2, <2>3, <2>4, <2>5
<1> QED BY <1>3, <1>5, <1>6

\* g is h with z, of the list of S, taken out.
Delisted(g, h, z, S) ==
  /\ HeapDom(g)
  /\ \A f \in Side \cup Data \cup {"sp_p"} : g[f] = h[f]
  /\ Listed(g, S \ {z})
  /\ Same(g, h, Slot \ S)
  /\ Typed(h) => Typed(g)

\* FIX_LISTRM(z) of a node on the list
LEMMA ListRemoveIs ==
  ASSUME NEW h, HeapDom(h), NEW S, S \subseteq Node, Listed(h, S), NEW z \in S
  PROVE  Delisted(ListRemove(h, z), h, z, S)
<1> SUFFICES ASSUME NEW g, g = ListRemove(h, z) PROVE Delisted(g, h, z, S)
  OBVIOUS
<1> DEFINE p == h.vm_prev[z]
           q == h.vm_next[z]
           s1 == IF p # Null THEN [h EXCEPT !.vm_next[p] = q] ELSE h
<1>1. g = IF q # Null THEN [s1 EXCEPT !.vm_prev[q] = p] ELSE s1
  BY DEF ListRemove
<1>2. /\ Null \notin Slot /\ S \subseteq Slot
      /\ \A f \in Side \cup Data \cup {"sp_p"} :
           f \in Field /\ f \notin {"vm_prev", "vm_next"}
      /\ \A f \in Field : f \in Side \cup Data \cup {"sp_p", "vm_prev", "vm_next"}
      /\ {"vm_prev", "vm_next"} \subseteq Field
  BY NotNodes, NodeAssumption DEF Slot, Field, Link, Data, Side
<1>3. DOMAIN h = Field /\ \A f \in Field : DOMAIN h[f] = Slot
  BY DEF HeapDom
<1> HIDE DEF p, q
<1>4. /\ DOMAIN s1 = Field /\ \A f \in Field : DOMAIN s1[f] = Slot
      /\ \A f \in Field : f # "vm_next" => s1[f] = h[f]
      /\ \A n \in Slot : s1.vm_next[n] = IF n = p THEN q ELSE h.vm_next[n]
  <2>1. CASE p = Null
    <3>1. s1 = h
      BY <2>1
    <3> QED BY <3>1, <1>2, <1>3, <2>1
  <2>2. CASE p # Null
    <3>1. s1 = [h EXCEPT !.vm_next[p] = q]
      BY <2>2
    <3> QED BY <3>1, <1>2, <1>3
  <2> QED BY <2>1, <2>2
<1> HIDE DEF s1
<1>5. /\ DOMAIN g = Field /\ \A f \in Field : DOMAIN g[f] = Slot
      /\ \A f \in Field : f # "vm_prev" => g[f] = s1[f]
      /\ \A n \in Slot : g.vm_prev[n] = IF n = q THEN p ELSE s1.vm_prev[n]
  <2>1. CASE q = Null
    <3>1. g = s1
      BY <2>1, <1>1
    <3> QED BY <3>1, <1>2, <1>4, <2>1
  <2>2. CASE q # Null
    <3>1. g = [s1 EXCEPT !.vm_prev[q] = p]
      BY <2>2, <1>1
    <3> QED BY <3>1, <1>2, <1>4
  <2> QED BY <2>1, <2>2
<1>6. /\ \A n \in Slot : g.vm_next[n] = IF n = p THEN q ELSE h.vm_next[n]
      /\ \A n \in Slot : g.vm_prev[n] = IF n = q THEN p ELSE h.vm_prev[n]
  <2>1. g["vm_next"] = s1["vm_next"] /\ s1["vm_prev"] = h["vm_prev"]
    BY <1>2, <1>4, <1>5
  <2> QED BY <2>1, <1>4, <1>5
<1>7. \A f \in Side \cup Data \cup {"sp_p"} : g[f] = h[f]
  <2> SUFFICES ASSUME NEW f \in Side \cup Data \cup {"sp_p"} PROVE g[f] = h[f]
    OBVIOUS
  <2>1. f \in Field /\ f # "vm_prev" /\ f # "vm_next"
    BY <1>2
  <2> QED BY <2>1, <1>4, <1>5
<1>8. p \in S \cup {Null} /\ q \in S \cup {Null}
  <2>1. "sp_l" \in Side /\ "sp_r" \in Side
        /\ ListOf("sp_l") = "vm_prev" /\ ListOf("sp_r") = "vm_next"
    BY DEF Side, ListOf
  <2>2. NextTo(h, S, z, "sp_l", p) /\ NextTo(h, S, z, "sp_r", q)
    BY <2>1 DEF Listed, p, q
  <2> QED BY <2>2 DEF NextTo
<1>9. ListDrops(g, h, S, z)
  <2>1. "vm_start" \in Data
    BY DEF Data
  <2>2. g["vm_start"] = h["vm_start"]
    BY <1>7, <2>1
  <2>3. \A w \in Side : \A n \in S \ {z} :
         g[ListOf(w)][n] = IF n = h[ListOf(Other(w))][z] THEN h[ListOf(w)][z]
                           ELSE h[ListOf(w)][n]
    <3> SUFFICES ASSUME NEW w \in Side, NEW n \in S \ {z}
                 PROVE  g[ListOf(w)][n] =
                          IF n = h[ListOf(Other(w))][z] THEN h[ListOf(w)][z]
                          ELSE h[ListOf(w)][n]
      OBVIOUS
    <3>0. n \in Slot
      BY <1>2
    <3>1. CASE w = "sp_l"
      <4>1. ListOf(w) = "vm_prev" /\ ListOf(Other(w)) = "vm_next"
        BY <3>1 DEF ListOf, Other
      <4> QED BY <4>1, <3>0, <1>6 DEF p, q
    <3>2. CASE w = "sp_r"
      <4>1. ListOf(w) = "vm_next" /\ ListOf(Other(w)) = "vm_prev"
        BY <3>2 DEF ListOf, Other
      <4> QED BY <4>1, <3>0, <1>6 DEF p, q
    <3> QED BY <3>1, <3>2 DEF Side
  <2> QED BY <2>2, <2>3 DEF ListDrops
<1>10. Listed(g, S \ {z})
  BY <1>2, <1>9, ListDropped
<1>11. Same(g, h, Slot \ S)
  <2> SUFFICES ASSUME NEW f \in Field, NEW n \in Slot \ S PROVE g[f][n] = h[f][n]
    BY DEF Same
  <2>1. n # p /\ n # q
    BY <1>2, <1>8
  <2>2. f \in Side \cup Data \cup {"sp_p"} \/ f = "vm_prev" \/ f = "vm_next"
    BY <1>2
  <2> QED BY <2>1, <2>2, <1>6, <1>7
<1>12. ASSUME Typed(h) PROVE Typed(g)
  <2>1. \A n \in Slot :
          /\ \A f \in Side \cup {"vm_prev", "vm_next"} : h[f][n] \in Node \cup {Null}
          /\ h.sp_p[n] \in Node \cup {Header, Null}
          /\ h.vm_start[n] \in Nat
          /\ h.vm_end[n] \in Nat
          /\ h.vm_flags[n] \in Flag
    BY <1>12 DEF Typed
  <2>2. HeapDom(g)
    BY <1>5 DEF HeapDom
  <2> SUFFICES ASSUME NEW n \in Slot
               PROVE  /\ \A f \in Side \cup {"vm_prev", "vm_next"} :
                           g[f][n] \in Node \cup {Null}
                      /\ g.sp_p[n] \in Node \cup {Header, Null}
                      /\ g.vm_start[n] \in Nat
                      /\ g.vm_end[n] \in Nat
                      /\ g.vm_flags[n] \in Flag
    BY <2>2 DEF Typed
  <2>3. g["vm_start"] = h["vm_start"] /\ g["vm_end"] = h["vm_end"]
        /\ g["vm_flags"] = h["vm_flags"] /\ g["sp_p"] = h["sp_p"]
    BY <1>7 DEF Data
  <2>4. \A f \in Side : g[f][n] \in Node \cup {Null}
    BY <1>7, <2>1
  <2>5. g["vm_prev"][n] \in Node \cup {Null} /\ g["vm_next"][n] \in Node \cup {Null}
    <3>1. p \in Node \cup {Null} /\ q \in Node \cup {Null}
      BY <1>8
    <3>2. h["vm_prev"][n] \in Node \cup {Null} /\ h["vm_next"][n] \in Node \cup {Null}
      BY <2>1
    <3> QED BY <3>1, <3>2, <1>6
  <2> QED BY <2>1, <2>3, <2>4, <2>5
<1> QED BY <1>5, <1>7, <1>10, <1>11, <1>12 DEF HeapDom, Delisted

\* The flags are closed under VM_PROT_PROMOTE.
LEMMA FlagIs ==
  /\ Flag = {0, 1, 3, 7}
  /\ \A f \in Flag : Promote(f) \in Flag
<1>1. Promote(1) = 3
  <2>1. 1 % 4 = 1 /\ 0 \div 4 = 0 /\ 0 % 2 = 0
    OBVIOUS
  <2> QED BY <2>1 DEF Promote
<1>2. Promote(3) = 7
  <2>1. 3 % 4 = 3 /\ 0 \div 4 = 0 /\ 0 % 2 = 0
    OBVIOUS
  <2> QED BY <2>1 DEF Promote
<1>3. Promote(7) = 7
  <2>1. 7 % 4 = 3 /\ 4 \div 4 = 1 /\ 1 % 2 = 1
    OBVIOUS
  <2> QED BY <2>1 DEF Promote
<1>4. Promote(0) = 1
  <2>1. 0 % 4 = 0 /\ 0 \div 4 = 0 /\ 0 % 2 = 0
    OBVIOUS
  <2> QED BY <2>1 DEF Promote
<1>5. Flag = {0, 1, 3, 7}
  BY <1>1, <1>2 DEF Flag, READ
<1> QED BY <1>1, <1>2, <1>3, <1>4, <1>5

\* g is h with the fields of z cleared.
Cleared(g, h, z) ==
  /\ HeapDom(g)
  /\ Same(g, h, Slot \ {z})
  /\ \A f \in Link : g[f][z] = Null
  /\ g.vm_start[z] = 0 /\ g.vm_end[z] = 0
  /\ Typed(h) => Typed(g)

\* z is given back.
LEMMA FreedIs ==
  ASSUME NEW h, HeapDom(h), NEW z \in Slot
  PROVE  Cleared(Freed(h, z), h, z)
<1> SUFFICES ASSUME NEW g, g = Freed(h, z) PROVE Cleared(g, h, z)
  OBVIOUS
<1>1. DOMAIN h = Field /\ \A f \in Field : DOMAIN h[f] = Slot
  BY DEF HeapDom
<1>2. HeapDom(g) /\ \A f \in Field, n \in Slot :
        g[f][n] = IF n = z THEN IF f \in Link THEN Null ELSE 0 ELSE h[f][n]
  BY <1>1 DEF Freed, HeapDom
<1>3. /\ Link \subseteq Field /\ {"vm_start", "vm_end", "vm_flags"} \subseteq Field
      /\ Side \cup {"vm_prev", "vm_next", "sp_p"} \subseteq Link
      /\ {"vm_start", "vm_end", "vm_flags"} \cap Link = {}
  BY DEF Field, Link, Data, Side
<1>4. ASSUME Typed(h) PROVE Typed(g)
  <2> SUFFICES ASSUME NEW n \in Slot
               PROVE  /\ \A f \in Side \cup {"vm_prev", "vm_next"} :
                           g[f][n] \in Node \cup {Null}
                      /\ g.sp_p[n] \in Node \cup {Header, Null}
                      /\ g.vm_start[n] \in Nat
                      /\ g.vm_end[n] \in Nat
                      /\ g.vm_flags[n] \in Flag
    BY <1>2 DEF Typed
  <2>1. CASE n = z
    <3>1. \A f \in Link : g[f][n] = Null
      BY <1>2, <1>3, <2>1
    <3>2. g["vm_start"][n] = 0 /\ g["vm_end"][n] = 0 /\ g["vm_flags"][n] = 0
      BY <1>2, <1>3, <2>1
    <3> QED BY <1>3, <3>1, <3>2, FlagIs
  <2>2. CASE n # z
    <3>1. \A f \in Field : g[f][n] = h[f][n]
      BY <1>2, <2>2
    <3>2. \A f \in Side \cup {"vm_prev", "vm_next", "sp_p", "vm_start", "vm_end", "vm_flags"} :
            g[f][n] = h[f][n]
      BY <1>3, <3>1
    <3> QED BY <3>2, <1>4 DEF Typed
  <2> QED BY <2>1, <2>2
<1>5. g["vm_start"][z] = 0 /\ g["vm_end"][z] = 0
  BY <1>2, <1>3
<1> QED BY <1>2, <1>3, <1>4, <1>5 DEF Same, Cleared

\* z is a new node.
Made(g, h, z, s, e) ==
  /\ HeapDom(g)
  /\ Same(g, h, Slot \ {z})
  /\ \A f \in Link : g[f][z] = Null
  /\ g.vm_start[z] = s /\ g.vm_end[z] = e

\* S_sp_node_init makes a node of no links.
LEMMA NodeInitIs ==
  ASSUME NEW h, HeapDom(h), NEW z \in Slot, NEW s, NEW e, NEW f
  PROVE  /\ Made(NodeInit(h, z, s, e, f), h, z, s, e)
         /\ Typed(h) /\ s \in Nat /\ e \in Nat /\ f \in Flag =>
              Typed(NodeInit(h, z, s, e, f))
<1> SUFFICES ASSUME NEW g, g = NodeInit(h, z, s, e, f)
             PROVE  /\ Made(g, h, z, s, e)
                    /\ Typed(h) /\ s \in Nat /\ e \in Nat /\ f \in Flag => Typed(g)
  OBVIOUS
<1> DEFINE k == Freed(h, z)
<1>1. /\ HeapDom(k)
      /\ Same(k, h, Slot \ {z})
      /\ \A l \in Link : k[l][z] = Null
      /\ Typed(h) => Typed(k)
  BY FreedIs DEF Cleared
<1> HIDE DEF k
<1>2. g = [k EXCEPT !.vm_start[z] = s, !.vm_end[z] = e, !.vm_flags[z] = f]
  BY DEF NodeInit, k
<1>3. /\ Link \subseteq Field /\ {"vm_start", "vm_end", "vm_flags"} \subseteq Field
      /\ Side \cup {"vm_prev", "vm_next", "sp_p"} \subseteq Link
      /\ {"vm_start", "vm_end", "vm_flags"} \cap Link = {}
  BY DEF Field, Link, Data, Side
<1>4. DOMAIN k = Field /\ \A l \in Field : DOMAIN k[l] = Slot
  BY <1>1 DEF HeapDom
<1>5. /\ HeapDom(g)
      /\ \A l \in Field, n \in Slot \ {z} : g[l][n] = k[l][n]
      /\ \A l \in Link : g[l] = k[l]
      /\ g.vm_start[z] = s /\ g.vm_end[z] = e /\ g.vm_flags[z] = f
  <2>1. /\ DOMAIN g = Field
        /\ \A l \in Field : l \notin {"vm_start", "vm_end", "vm_flags"} => g[l] = k[l]
        /\ g.vm_start = [k.vm_start EXCEPT ![z] = s]
        /\ g.vm_end = [k.vm_end EXCEPT ![z] = e]
        /\ g.vm_flags = [k.vm_flags EXCEPT ![z] = f]
    BY <1>2, <1>3, <1>4
  <2>2. /\ DOMAIN k["vm_start"] = Slot /\ DOMAIN k["vm_end"] = Slot
        /\ DOMAIN k["vm_flags"] = Slot
    BY <1>3, <1>4
  <2>3. /\ DOMAIN g["vm_start"] = Slot /\ DOMAIN g["vm_end"] = Slot
        /\ DOMAIN g["vm_flags"] = Slot
        /\ \A l \in {"vm_start", "vm_end", "vm_flags"}, n \in Slot \ {z} : g[l][n] = k[l][n]
        /\ g.vm_start[z] = s /\ g.vm_end[z] = e /\ g.vm_flags[z] = f
    BY <2>1, <2>2
  <2>4. \A l \in Field : DOMAIN g[l] = Slot
    BY <2>1, <2>3, <1>4
  <2>5. \A l \in Field, n \in Slot \ {z} : g[l][n] = k[l][n]
    BY <2>1, <2>3
  <2>6. \A l \in Link : g[l] = k[l]
    BY <2>1, <1>3
  <2> QED BY <2>1, <2>3, <2>4, <2>5, <2>6 DEF HeapDom
<1>6. Same(g, h, Slot \ {z})
  BY <1>1, <1>5 DEF Same
<1>7. \A l \in Link : g[l][z] = Null
  BY <1>1, <1>5
<1>8. ASSUME Typed(h), s \in Nat, e \in Nat, f \in Flag PROVE Typed(g)
  <2> SUFFICES ASSUME NEW n \in Slot
               PROVE  /\ \A l \in Side \cup {"vm_prev", "vm_next"} :
                           g[l][n] \in Node \cup {Null}
                      /\ g.sp_p[n] \in Node \cup {Header, Null}
                      /\ g.vm_start[n] \in Nat
                      /\ g.vm_end[n] \in Nat
                      /\ g.vm_flags[n] \in Flag
    BY <1>5 DEF Typed
  <2>1. CASE n = z
    <3>1. g["sp_p"][n] = Null /\ \A l \in Side \cup {"vm_prev", "vm_next"} : g[l][n] = Null
      BY <1>7, <1>3, <2>1
    <3> QED BY <3>1, <1>5, <1>8, <2>1
  <2>2. CASE n # z
    <3>1. \A l \in Field : g[l][n] = k[l][n]
      BY <1>5, <2>2
    <3>2. \A l \in Side \cup {"vm_prev", "vm_next", "sp_p", "vm_start", "vm_end", "vm_flags"} :
            g[l][n] = k[l][n]
      BY <1>3, <3>1
    <3> QED BY <3>2, <1>1, <1>8 DEF Typed
  <2> QED BY <2>1, <2>2
<1> QED BY <1>5, <1>6, <1>7, <1>8 DEF Made

-----------------------------------------------------------------------------
(* Nodes enough for all pages *)

\* If the nodes of L hold pages of their own, and not page a, then another node
\* is left;
LEMMA SpareOne ==
  ASSUME NEW L \in SUBSET Node, NEW s, NEW a \in Page,
         \A n \in L : s[n] \in Page /\ s[n] # a,
         \A m, n \in L : s[m] = s[n] => m = n
  PROVE  Node \ L # {}
<1> SUFFICES ASSUME L = Node PROVE FALSE
  OBVIOUS
<1> DEFINE T == Node \ {a}
           f == [n \in Node |-> s[n]]
<1>1. IsFiniteSet(Node) /\ a \in Node /\ Page \subseteq Node
  BY NodeAssumption
<1>2. IsFiniteSet(T) /\ Cardinality(T) = Cardinality(Node) - 1 /\ Cardinality(Node) \in Nat
  BY <1>1, FS_RemoveElement, FS_CardinalityType
<1>3. f \in [Node -> T]
  BY <1>1
<1>4. \A m, n \in Node : f[m] = f[n] => m = n
  OBVIOUS
<1>5. Cardinality(T) < Cardinality(Node)
  <2> HIDE DEF T
  <2> QED BY <1>2
<1> HIDE DEF T, f
<1> QED BY <1>1, <1>2, <1>3, <1>4, <1>5, FS_PigeonHole

\* and if they hold neither of two pages, then two are.
LEMMA SpareTwo ==
  ASSUME NEW L \in SUBSET Node, NEW s, NEW a \in Page, NEW b \in Page, a # b,
         \A n \in L : s[n] \in Page /\ s[n] # a /\ s[n] # b,
         \A m, n \in L : s[m] = s[n] => m = n, NEW z \in Node
  PROVE  Node \ (L \cup {z}) # {}
<1> SUFFICES ASSUME Node \ {z} \subseteq L PROVE FALSE
  OBVIOUS
<1> DEFINE N == Node \ {z}
           T == Node \ {a}
           U == T \ {b}
           f == [n \in N |-> s[n]]
<1>1. IsFiniteSet(Node) /\ a \in Node /\ b \in Node /\ Page \subseteq Node
  BY NodeAssumption
<1>2. /\ IsFiniteSet(T) /\ Cardinality(T) = Cardinality(Node) - 1
      /\ IsFiniteSet(N) /\ Cardinality(N) = Cardinality(Node) - 1
      /\ Cardinality(Node) \in Nat /\ Cardinality(T) \in Nat /\ b \in T
  <2>1. IsFiniteSet(T) /\ Cardinality(T) = Cardinality(Node) - 1
    BY <1>1, FS_RemoveElement
  <2>2. IsFiniteSet(N) /\ Cardinality(N) = Cardinality(Node) - 1
    BY <1>1, FS_RemoveElement
  <2>3. Cardinality(Node) \in Nat /\ Cardinality(T) \in Nat
    <3> HIDE DEF T
    <3> QED BY <1>1, <2>1, FS_CardinalityType
  <2> QED BY <1>1, <2>1, <2>2, <2>3
<1>3. f \in [N -> U]
  BY <1>1
<1>4. \A m, n \in N : f[m] = f[n] => m = n
  OBVIOUS
<1> HIDE DEF N, T, f
<1>5. IsFiniteSet(U) /\ Cardinality(U) = Cardinality(T) - 1
  BY <1>2, FS_RemoveElement
<1> HIDE DEF U
<1>6. Cardinality(U) < Cardinality(N)
  BY <1>2, <1>5
<1> QED BY <1>2, <1>3, <1>4, <1>5, <1>6, FS_PigeonHole

=============================================================================
