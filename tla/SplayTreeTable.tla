---------------------------- MODULE SplayTreeTable ----------------------------
(***************************************************************************)
(* That SplayTree implements PageTable, for any number of nodes: what each *)
(* step does to the set of regions, and what an operation knows of the     *)
(* page it is about.                                                       *)
(***************************************************************************)
EXTENDS SplayTreeProofs

-----------------------------------------------------------------------------
(* The regions                                                             *)

\* The region of node n in heap h, and those of the nodes of S
Region1(h, n) ==
  [start |-> h.vm_start[n], end |-> h.vm_end[n], flags |-> h.vm_flags[n]]
Regions(h, S) == {Region1(h, n) : n \in S}

\* The nodes whose regions the page table has: all with a range, but one that
\* is on its way in or out
InTable ==
  IF op = "insert" THEN LiveOf(heap) \ {cur}
  ELSE IF op = "join" /\ after = "removed" THEN LiveOf(heap) \ {victim}
  ELSE LiveOf(heap)

\* The refinement mapping's regions are those.
LEMMA ExtentsAre == IInv => Extents = Regions(heap, InTable)
<1> SUFFICES ASSUME IInv PROVE Extents = Regions(heap, InTable)
  OBVIOUS
<1> DEFINE S == Nodes \cup (IF op = "join" /\ after # "removed" THEN {victim} ELSE {})
<1>1. Nodes = Members /\ Ops
  BY NodesAre DEF IInv
<1>2. Null \notin LiveOf(heap)
  BY MembersIn, Constants
<1>3. S = InTable
  <2>1. CASE op = "join"
    <3>1. victim \in LiveOf(heap)
      BY <1>1, <2>1 DEF Ops, AtJoin
    <3> QED BY <1>1, <2>1, <3>1 DEF Members, InTable
  <2>2. CASE op # "join"
    <3>1. victim = Null
      BY <1>1, <2>2 DEF Ops, AtNone, AtInsert, AtRemove, AtFind, AtMod, First,
                        AtMigrate, AtMerge
    <3> QED BY <1>1, <1>2, <2>2, <3>1 DEF Members, InTable
  <2> QED BY <2>1, <2>2
<1>4. Extents = {Extent(n) : n \in S}
  BY DEF Extents
<1>5. \A n : Extent(n) = Region1(heap, n)
  BY DEF Extent, Region1, Start, End, Flags
<1> HIDE DEF S
<1> QED BY <1>3, <1>4, <1>5 DEF Regions

\* They are after a step that keeps the invariant.
LEMMA ExtentsThen == IInv' => Extents' = Regions(heap', InTable')
<1>1. (IInv => Extents = Regions(heap, InTable))'
  BY ExtentsAre, PTL
<1> QED BY <1>1

-----------------------------------------------------------------------------
(* What leaves ranges and flags as they are                                *)

SameData(g, h) == HeapDom(g) /\ \A f \in Data : g[f] = h[f]

\* A field of a heap that is not one of a node's range or flags is set.
LEMMA SetLink ==
  ASSUME NEW h, HeapDom(h), NEW f \in Link, NEW n, NEW v
  PROVE  SameData([h EXCEPT ![f][n] = v], h)
<1> DEFINE g == [h EXCEPT ![f][n] = v]
<1>1. f \in Field /\ f \notin Data
  BY DEF Field, Link, Data, Side
<1>2. DOMAIN g = Field /\ \A e \in Field : e # f => g[e] = h[e]
  BY <1>1 DEF HeapDom
<1>3. DOMAIN g[f] = Slot
  BY <1>1 DEF HeapDom
<1> HIDE DEF g
<1>4. \A e \in Field : DOMAIN g[e] = Slot
  BY <1>2, <1>3 DEF HeapDom
<1>5. \A e \in Data : e \in Field /\ e # f
  BY <1>1 DEF Field
<1>6. SameData(g, h)
  BY <1>2, <1>4, <1>5 DEF SameData, HeapDom
<1> QED BY <1>6 DEF g

\* One such change may follow another.
LEMMA SameDataTwice ==
  ASSUME NEW h, NEW k, NEW g, SameData(k, h), SameData(g, k)
  PROVE  SameData(g, h)
BY DEF SameData

\* MAKE_CHILD is such a change,
LEMMA MakeChildData ==
  ASSUME NEW h, HeapDom(h), NEW a, NEW w \in Side, NEW b
  PROVE  SameData(MakeChild(h, a, w, b), h)
<1> DEFINE up == [n \in DOMAIN h.sp_p |-> IF n = a /\ h.sp_p[a] = b THEN Null
                                          ELSE IF n = b THEN a ELSE h.sp_p[n]]
           k == [h EXCEPT ![w][a] = b]
           g == [k EXCEPT !.sp_p = up]
<1>1. w \in Link /\ w \in Field /\ w # "sp_p" /\ "sp_p" \in Field /\ "sp_p" \notin Data
  BY DEF Link, Field, Side, Data
<1>2. SameData(k, h)
  BY <1>1, SetLink
<1>3. DOMAIN up = Slot
  BY <1>1 DEF HeapDom
<1>4. HeapDom(k)
  BY <1>2 DEF SameData
<1>5. MakeChild(h, a, w, b) = g
  BY <1>1 DEF MakeChild, HeapDom
<1> HIDE DEF up, k
<1>6. DOMAIN g = Field /\ g.sp_p = up /\ \A e \in Field : e # "sp_p" => g[e] = k[e]
  BY <1>1, <1>4 DEF HeapDom
<1> HIDE DEF g
<1>7. HeapDom(g)
  BY <1>3, <1>4, <1>6 DEF HeapDom
<1>8. \A e \in Data : e \in Field /\ e # "sp_p"
  BY <1>1 DEF Field
<1>9. SameData(g, k)
  BY <1>6, <1>7, <1>8 DEF SameData
<1>10. SameData(g, h)
  BY <1>2, <1>9, SameDataTwice
<1> QED BY <1>5, <1>10

\* and so are the macros of the list,
LEMMA ListInsertData ==
  ASSUME NEW h, HeapDom(h), NEW z, NEW b,
         NEW w \in {"vm_prev", "vm_next"}, NEW o \in {"vm_prev", "vm_next"}
  PROVE  SameData(ListInsert(h, z, b, w, o), h)
<1> DEFINE c  == h[w][b]
           h1 == [h EXCEPT ![w][z] = c]
           h2 == [h1 EXCEPT ![o][z] = b]
           h3 == [h2 EXCEPT ![w][b] = z]
           h4 == [h3 EXCEPT ![o][c] = z]
<1>1. w \in Link /\ o \in Link
  BY DEF Link
<1>2. ListInsert(h, z, b, w, o) = IF c # Null THEN h4 ELSE h3
  BY DEF ListInsert
<1> HIDE DEF c
<1>3. SameData(h1, h)
  BY <1>1, SetLink
<1> HIDE DEF h1
<1>4. SameData(h2, h1)
  <2>1. HeapDom(h1)
    BY <1>3 DEF SameData
  <2> QED BY <1>1, <2>1, SetLink
<1> HIDE DEF h2
<1>5. SameData(h3, h2)
  <2>1. HeapDom(h2)
    BY <1>4 DEF SameData
  <2> QED BY <1>1, <2>1, SetLink
<1> HIDE DEF h3
<1>6. SameData(h4, h3)
  <2>1. HeapDom(h3)
    BY <1>5 DEF SameData
  <2> QED BY <1>1, <2>1, SetLink
<1> HIDE DEF h4
<1>7. SameData(h3, h)
  BY <1>3, <1>4, <1>5, SameDataTwice
<1>8. SameData(h4, h)
  BY <1>6, <1>7, SameDataTwice
<1> QED BY <1>2, <1>7, <1>8

\* whether a node comes into it or goes,
LEMMA ListRemoveData ==
  ASSUME NEW h, HeapDom(h), NEW z
  PROVE  SameData(ListRemove(h, z), h)
<1> DEFINE p == h.vm_prev[z]
           n == h.vm_next[z]
           k == [h EXCEPT !.vm_next[p] = n]
           skip == IF p # Null THEN k ELSE h
           g == [skip EXCEPT !.vm_prev[n] = p]
<1>1. "vm_prev" \in Link /\ "vm_next" \in Link
  BY DEF Link
<1>2. ListRemove(h, z) = IF n # Null THEN g ELSE skip
  BY DEF ListRemove
<1> HIDE DEF p, n
<1>3. SameData(k, h)
  BY <1>1, SetLink
<1>4. SameData(h, h)
  BY DEF SameData
<1>5. SameData(skip, h)
  BY <1>3, <1>4
<1> HIDE DEF skip
<1>6. SameData(g, skip)
  <2>1. HeapDom(skip)
    BY <1>5 DEF SameData
  <2> QED BY <1>1, <2>1, SetLink
<1>7. SameData(g, h)
  BY <1>5, <1>6, SameDataTwice
<1> HIDE DEF g
<1> QED BY <1>2, <1>5, <1>7

\* the insertion of a node,
LEMMA BesideData ==
  ASSUME NEW h, HeapDom(h), NEW z, NEW b, NEW w \in Side, NEW o \in Side,
         NEW wl \in {"vm_prev", "vm_next"}, NEW ol \in {"vm_prev", "vm_next"}
  PROVE  SameData(Beside(h, z, b, w, o, wl, ol), h)
<1> DEFINE g == ListInsert(h, z, b, wl, ol)
           j == MakeChild(g, z, w, g[w][b])
           k == MakeChild(j, z, o, b)
           l == [k EXCEPT ![w][b] = Null]
<1>1. w \in Link
  BY DEF Link
<1>2. Beside(h, z, b, w, o, wl, ol) = l
  BY DEF Beside
<1>3. SameData(g, h)
  BY ListInsertData
<1> HIDE DEF g
<1>4. SameData(j, g)
  BY <1>3, MakeChildData DEF SameData
<1> HIDE DEF j
<1>5. SameData(k, j)
  BY <1>4, MakeChildData DEF SameData
<1> HIDE DEF k
<1>6. SameData(l, k)
  <2>1. HeapDom(k)
    BY <1>5 DEF SameData
  <2> QED BY <1>1, <2>1, SetLink
<1> HIDE DEF l
<1>7. SameData(k, h)
  BY <1>3, <1>4, <1>5, SameDataTwice
<1> QED BY <1>2, <1>6, <1>7, SameDataTwice

\* on either side of the node on top,
LEMMA InsertHelperData ==
  ASSUME NEW h, HeapDom(h), NEW r, NEW b, NEW z
  PROVE  SameData(InsertHelper(h, r, b, z), h)
<1>1. SameData(h, h)
  BY DEF SameData
<1>2. SameData(Beside(h, z, b, "sp_l", "sp_r", "vm_prev", "vm_next"), h)
  BY BesideData DEF Side
<1>3. SameData(Beside(h, z, b, "sp_r", "sp_l", "vm_next", "vm_prev"), h)
  BY BesideData DEF Side
<1> QED BY <1>1, <1>2, <1>3 DEF InsertHelper

\* and the joining of the subtrees of one that is removed.
LEMMA JoinedData ==
  ASSUME HeapDom(heap)
  PROVE  SameData(Joined, heap)
<1> DEFINE r == heap.sp_r[victim]
           k == [heap EXCEPT !.sp_p[t] = Null]
           g == MakeChild(k, t, "sp_r", r)
           l == [heap EXCEPT !.sp_p[r] = Null]
<1>1. "sp_p" \in Link /\ "sp_r" \in Side
  BY DEF Link, Side
<1>2. Joined = IF t # Null THEN g ELSE IF r # Null THEN l ELSE heap
  BY DEF Joined
<1> HIDE DEF r
<1>3. SameData(k, heap) /\ SameData(l, heap)
  BY <1>1, SetLink
<1> HIDE DEF k, l
<1>4. SameData(g, k)
  BY <1>1, <1>3, MakeChildData DEF SameData
<1> HIDE DEF g
<1>5. SameData(heap, heap)
  BY DEF SameData
<1> QED BY <1>2, <1>3, <1>4, <1>5, SameDataTwice

\* A node gets its range and its flags, or loses them.
LEMMA NodeInitData ==
  ASSUME NEW h, HeapDom(h), NEW z \in Node, NEW s, NEW e, NEW f
  PROVE  LET g == NodeInit(h, z, s, e, f)
         IN  /\ HeapDom(g)
             /\ g.vm_start[z] = s /\ g.vm_end[z] = e /\ g.vm_flags[z] = f
             /\ \A n \in Node : n # z => /\ g.vm_start[n] = h.vm_start[n]
                                         /\ g.vm_end[n] = h.vm_end[n]
                                         /\ g.vm_flags[n] = h.vm_flags[n]
<1> DEFINE k == Freed(h, z)
           g == NodeInit(h, z, s, e, f)
<1>1. Made(g, h, z, s, e)
  BY NodeInitIs DEF Slot
<1>2. HeapDom(k)
  BY FreedIs DEF Cleared, Slot
<1>3. "vm_flags" \in Field /\ z \in Slot /\ Node \subseteq Slot
  BY DEF Field, Data, Slot
<1>4. z \in DOMAIN k.vm_flags
  BY <1>2, <1>3 DEF HeapDom
<1>5. g = [k EXCEPT !.vm_start[z] = s, !.vm_end[z] = e, !.vm_flags[z] = f]
  BY DEF NodeInit
<1> HIDE DEF k
<1>6. g.vm_flags[z] = f
  BY <1>2, <1>3, <1>4, <1>5 DEF HeapDom
<1> HIDE DEF g
<1>7. HeapDom(g) /\ Same(g, h, Slot \ {z}) /\ g.vm_start[z] = s /\ g.vm_end[z] = e
  BY <1>1 DEF Made
<1>8. \A n \in Node : n # z => /\ g.vm_start[n] = h.vm_start[n]
                               /\ g.vm_end[n] = h.vm_end[n]
                               /\ g.vm_flags[n] = h.vm_flags[n]
  <2> SUFFICES ASSUME NEW n \in Slot \ {z}
               PROVE  /\ g.vm_start[n] = h.vm_start[n]
                      /\ g.vm_end[n] = h.vm_end[n]
                      /\ g.vm_flags[n] = h.vm_flags[n]
    BY <1>3
  <2> QED BY <1>7, SameFields
<1> QED BY <1>6, <1>7, <1>8 DEF g

-----------------------------------------------------------------------------
(* The page table's operations                                             *)

\* Node n of h has address a in its range.
Has(h, n, a) == h.vm_start[n] <= a /\ a < h.vm_end[n]

\* The regions do not overlap.
LEMMA RegionsDisjoint ==
  ASSUME NEW h, Typed(h), Apart(h), NEW S, S \subseteq LiveOf(h)
  PROVE  Table!Disjoint(Regions(h, S))
<1> SUFFICES ASSUME NEW m \in S, NEW n \in S
             PROVE  \/ Region1(h, m) = Region1(h, n)
                    \/ Region1(h, m).end <= Region1(h, n).start
                    \/ Region1(h, n).end <= Region1(h, m).start
  BY DEF Table!Disjoint, Regions
<1>1. m = n \/ h.vm_end[m] <= h.vm_start[n] \/ h.vm_end[n] <= h.vm_start[m]
  BY DEF Apart
<1> QED BY <1>1 DEF Region1

\* The flags of an address are those of the node that has it,
LEMMA FlagsAt ==
  ASSUME NEW h, Typed(h), Apart(h), NEW n \in LiveOf(h), NEW a \in Nat, Has(h, n, a)
  PROVE  Table!Flags(Regions(h, LiveOf(h)), a) = h.vm_flags[n]
<1> DEFINE R == Regions(h, LiveOf(h))
           r == CHOOSE q \in R : Table!Holds(q, a)
<1>1. Region1(h, n) \in R /\ Table!Holds(Region1(h, n), a)
  BY DEF Regions, Table!Holds, Region1, Has
<1>2. r \in R /\ Table!Holds(r, a)
  BY <1>1
<1>3. Table!Flags(R, a) = r.flags
  BY <1>1 DEF Table!Flags
<1> HIDE DEF r
<1>4. PICK m \in LiveOf(h) : r = Region1(h, m)
  BY <1>2 DEF Regions
<1>5. h.vm_start[m] <= a /\ a < h.vm_end[m]
  BY <1>2, <1>4 DEF Table!Holds, Region1
<1>6. m = n
  BY <1>5, HoldsOne DEF Has
<1> QED BY <1>3, <1>4, <1>6 DEF Region1

\* if there is one.
LEMMA FlagsNone ==
  ASSUME NEW h, NEW a, \A n \in LiveOf(h) : ~Has(h, n, a)
  PROVE  Table!Flags(Regions(h, LiveOf(h)), a) = Null
<1>1. \A r \in Regions(h, LiveOf(h)) : ~Table!Holds(r, a)
  BY DEF Regions, Table!Holds, Region1, Has
<1> QED BY <1>1 DEF Table!Flags

\* From h to g page p alone gets other flags, those for reading if it is new.
Modified(g, h, p) ==
  /\ \A a \in Nat : a # p => \A n \in LiveOf(h) : Has(h, n, a) =>
       \E m \in LiveOf(g) : Has(g, m, a) /\ g.vm_flags[m] = h.vm_flags[n]
  /\ \A a \in Nat : a # p => \A m \in LiveOf(g) : Has(g, m, a) =>
       \E n \in LiveOf(h) : Has(h, n, a)
  /\ \E m \in LiveOf(g) :
       /\ Has(g, m, p)
       /\ (\A n \in LiveOf(h) : ~Has(h, n, p)) => g.vm_flags[m] = READ

\* Such a change is PageTable's Modify.
LEMMA ModifyIs ==
  ASSUME IInv, IInv', vm_addr \in Address, Modified(heap', heap, vm_addr),
         InTable = LiveOf(heap), InTable' = LiveOf(heap')
  PROVE  Table!Modify
<1> DEFINE old == Regions(heap, LiveOf(heap))
           new == Regions(heap', LiveOf(heap'))
           f == Table!Flags(old, vm_addr)
<1>1. Extents = old /\ Extents' = new
  BY ExtentsAre, ExtentsThen
<1>2. /\ Typed(heap) /\ Apart(heap) /\ Typed(heap') /\ Apart(heap')
      /\ vm_addr \in Nat /\ Address \subseteq Nat
      /\ LiveOf(heap) \subseteq Node /\ LiveOf(heap') \subseteq Node
  BY Addresses DEF IInv, Types, Ranges, LiveOf
<1>3. ASSUME NEW a \in Address \ {vm_addr}
      PROVE  Table!Flags(new, a) = Table!Flags(old, a)
  <2>1. CASE \E n \in LiveOf(heap) : Has(heap, n, a)
    <3>1. PICK n \in LiveOf(heap) : Has(heap, n, a)
      BY <2>1
    <3>2. PICK m \in LiveOf(heap') : Has(heap', m, a) /\ heap'.vm_flags[m] = heap.vm_flags[n]
      BY <1>2, <1>3, <3>1 DEF Modified
    <3>3. Table!Flags(old, a) = heap.vm_flags[n]
      BY <1>2, <1>3, <3>1, FlagsAt
    <3>4. Table!Flags(new, a) = heap'.vm_flags[m]
      BY <1>2, <1>3, <3>2, FlagsAt
    <3> QED BY <3>2, <3>3, <3>4
  <2>2. CASE \A n \in LiveOf(heap) : ~Has(heap, n, a)
    <3>1. \A m \in LiveOf(heap') : ~Has(heap', m, a)
      BY <1>2, <1>3, <2>2 DEF Modified
    <3>2. Table!Flags(old, a) = Null
      BY <2>2, FlagsNone
    <3>3. Table!Flags(new, a) = Null
      BY <3>1, FlagsNone
    <3> QED BY <3>2, <3>3
  <2> QED BY <2>1, <2>2
<1>4. Table!Flags(new, vm_addr) \in IF f = Null THEN {READ} ELSE Flag
  <2>1. PICK m \in LiveOf(heap') :
          /\ Has(heap', m, vm_addr)
          /\ (\A n \in LiveOf(heap) : ~Has(heap, n, vm_addr)) => heap'.vm_flags[m] = READ
    BY DEF Modified
  <2>2. Table!Flags(new, vm_addr) = heap'.vm_flags[m]
    BY <1>2, <2>1, FlagsAt
  <2>3. heap'.vm_flags[m] \in Flag
    BY <1>2, <2>1, FlagsOf
  <2>4. CASE \A n \in LiveOf(heap) : ~Has(heap, n, vm_addr)
    BY <2>1, <2>2, <2>3, <2>4
  <2>5. CASE \E n \in LiveOf(heap) : Has(heap, n, vm_addr)
    <3>1. PICK n \in LiveOf(heap) : Has(heap, n, vm_addr)
      BY <2>5
    <3>2. f = heap.vm_flags[n]
      BY <1>2, <3>1, FlagsAt
    <3>3. f \in Flag
      BY <1>2, <3>2, FlagsOf
    <3>4. Null \notin Flag
      BY NotNodes, FlagIs
    <3> QED BY <2>2, <2>3, <3>3, <3>4
  <2> QED BY <2>4, <2>5
<1>5. Table!Disjoint(new)
  BY <1>2, RegionsDisjoint
<1> QED BY <1>1, <1>3, <1>4, <1>5 DEF Table!Modify

\* A search that ends at a node with the address asked for is Find.
LEMMA FindIs ==
  ASSUME IInv', NEW n \in InTable', found' = n, Has(heap', n, vm_addr)
  PROVE  Table!Find
<1>1. Extents' = Regions(heap', InTable')
  BY ExtentsThen
<1>2. /\ Typed(heap') /\ Apart(heap') /\ InTable' \subseteq LiveOf(heap')
      /\ LiveOf(heap') \subseteq Node
  BY DEF IInv, Types, Ranges, InTable, LiveOf
<1>3. Table!Disjoint(Extents')
  BY <1>1, <1>2, RegionsDisjoint
<1>4. n # Null
  BY <1>2, Constants
<1>5. (IF found = Null THEN Null ELSE Extent(found))' = Region1(heap', n)
  BY <1>4 DEF Extent, Region1, Start, End, Flags
<1>6. /\ Region1(heap', n) \in Extents'
      /\ Table!Holds(Region1(heap', n), vm_addr)
  BY <1>1 DEF Regions, Table!Holds, Region1, Has
<1> QED BY <1>3, <1>5, <1>6 DEF Table!Find

-----------------------------------------------------------------------------
(* What an operation knows of the page it is about                         *)

\* The range of n in h is page a.
IsPage(h, n, a) == h.vm_start[n] = a /\ h.vm_end[n] = a + 1

\* In a merge either the page's own node is removed or one of the same flags is.
AskedJoin ==
  \/ after = "removed"
  \/ after \in {"new_next", "old_next"} /\ IsPage(heap, victim, vm_addr)
  \/ /\ after = "found"
     /\ Has(heap, victim, vm_addr)
     /\ heap.vm_flags[cur] = heap.vm_flags[victim]

Asked ==
  /\ pc # "idle" => found = Null /\ vm_addr \in Address
  /\ op \in Merges => Has(heap, cur, vm_addr)
  /\ op \in {"new_prev", "old_prev"} => IsPage(heap, cur, vm_addr)
  /\ op = "join" => AskedJoin
  /\ op = "migrate" => \E m \in LiveOf(heap) : heap.vm_start[m] = key /\ Has(heap, m, vm_addr)

\* What the theorem is to say of a step
FoundRegion == IF found = Null THEN Null ELSE Extent(found)
TableStep == Table!Next \/ UNCHANGED <<Extents, vm_addr, FoundRegion>>

\* The nodes of g have the ranges and the flags they have in h.
NodesSame(g, h) ==
  \A n \in Node : /\ g.vm_start[n] = h.vm_start[n]
                  /\ g.vm_end[n] = h.vm_end[n]
                  /\ g.vm_flags[n] = h.vm_flags[n]

\* Where ranges and flags are as they were they are so node by node.
LEMMA SameDataNodes ==
  ASSUME NEW g, NEW h, SameData(g, h)
  PROVE  NodesSame(g, h)
<1>1. /\ g["vm_start"] = h["vm_start"] /\ g["vm_end"] = h["vm_end"]
      /\ g["vm_flags"] = h["vm_flags"]
  BY DEF SameData, Data
<1> QED BY <1>1 DEF NodesSame

\* Then the same nodes have a range, and have the same addresses.
LEMMA NodesSameLive ==
  ASSUME NEW g, NEW h, NodesSame(g, h)
  PROVE  /\ LiveOf(g) = LiveOf(h)
         /\ \A n \in Node : \A a : Has(g, n, a) <=> Has(h, n, a)
         /\ \A n \in Node : \A a : IsPage(g, n, a) <=> IsPage(h, n, a)
         /\ \A n \in Node : Region1(g, n) = Region1(h, n)
BY DEF NodesSame, LiveOf, Has, IsPage, Region1

\* The regions are the same if their nodes and those's ranges and flags are.
LEMMA ExtentsKept ==
  ASSUME IInv, IInv', InTable' = InTable,
         \A n \in InTable : Region1(heap', n) = Region1(heap, n)
  PROVE  Extents' = Extents
<1>1. Extents = Regions(heap, InTable) /\ Extents' = Regions(heap', InTable)
  BY ExtentsAre, ExtentsThen
<1> QED BY <1>1 DEF Regions

\* Between operations the page table has every node with a range.
LEMMA TableIdle == ASSUME IInv, pc = "idle" PROVE InTable = LiveOf(heap)
BY IdleFacts DEF InTable

\* An operation that returns asks for nothing.
LEMMA AskedIdle == ASSUME Return PROVE Asked'
BY DEF Return, Continue, Asked, Merges

\* A call leaves the regions as they are and forgets what was found.
LEMMA TableCall ==
  ASSUME IInv, IInv', NEW a \in Address, vm_addr' = a, found' = Null,
         InTable' = InTable, \A n \in InTable : Region1(heap', n) = Region1(heap, n)
  PROVE  TableStep
<1>1. Extents' = Extents
  BY ExtentsKept
<1>2. Table!Call(a)
  BY <1>1 DEF Table!Call
<1> QED BY <1>2 DEF Table!Next, TableStep

\* A step within an operation that is not to be seen
LEMMA TableQuiet ==
  ASSUME IInv, IInv', vm_addr' \in {vm_addr, Null}, found = Null, found' = Null,
         InTable' = InTable, \A n \in InTable : Region1(heap', n) = Region1(heap, n)
  PROVE  TableStep
<1>1. Extents' = Extents
  BY ExtentsKept
<1>2. UNCHANGED FoundRegion
  BY DEF FoundRegion
<1>3. Table!Return
  BY DEF Table!Return
<1> QED BY <1>1, <1>2, <1>3 DEF Table!Next, TableStep, FoundRegion

\* The rest of a call that asks for a is like this.
LEMMA AskedFirst ==
  ASSUME NEW o \in {"insert", "remove", "find", "mod"}, NEW a \in Address, Enter(o, a)
  PROVE  Asked'
BY DEF Enter, Splay, Asked, Merges

\* The calls
LEMMA TableCalls ==
  ASSUME IInv, IInv', NEW o \in {"remove", "find", "mod"}, NEW a \in Address,
         pc = "idle", Enter(o, a), heap' = heap
  PROVE  Asked' /\ TableStep
<1>1. InTable = LiveOf(heap)
  BY TableIdle
<1>2. op' = o /\ vm_addr' = a /\ found' = Null
  BY DEF Enter, Splay
<1>3. InTable' = LiveOf(heap)
  BY <1>2 DEF InTable
<1>4. TableStep
  BY <1>1, <1>2, <1>3, TableCall
<1>5. Asked'
  BY AskedFirst
<1> QED BY <1>4, <1>5

-----------------------------------------------------------------------------
(* The splay and the operations on regions                                 *)

\* A step of a splay
LEMMA AskedSplay ==
  ASSUME IInv, Asked, pc = "splay", NodesSame(heap', heap),
         UNCHANGED <<op, vm_addr, key, victim, cur, after, found>>
  PROVE  Asked'
<1>1. LiveOf(heap') = LiveOf(heap) /\ LiveOf(heap) \subseteq Node
  BY NodesSameLive DEF LiveOf
<1>2. op \notin Merges
  BY DEF IInv, Ops, AtMerge
<1>3. op = "join" => AskedJoin'
  <2> SUFFICES ASSUME op = "join" PROVE AskedJoin'
    OBVIOUS
  <2>1. AskedJoin /\ AtJoin /\ victim \in Node
    BY MembersIn DEF IInv, Ops, Asked, AtJoin
  <2>2. after \in {"new_next", "old_next", "found"} => cur \in Node
    BY <2>1, MembersIn DEF AtJoin
  <2>3. /\ Has(heap', victim, vm_addr) <=> Has(heap, victim, vm_addr)
        /\ IsPage(heap', victim, vm_addr) <=> IsPage(heap, victim, vm_addr)
    BY <2>1, NodesSameLive
  <2>4. heap'.vm_flags[victim] = heap.vm_flags[victim]
    BY <2>1 DEF NodesSame
  <2>5. after = "found" => heap'.vm_flags[cur] = heap.vm_flags[cur]
    BY <2>2 DEF NodesSame
  <2> QED BY <2>1, <2>3, <2>4, <2>5 DEF AskedJoin
<1>4. ASSUME NEW m \in LiveOf(heap)
      PROVE  /\ heap'.vm_start[m] = heap.vm_start[m]
             /\ Has(heap', m, vm_addr) <=> Has(heap, m, vm_addr)
  BY <1>1, NodesSameLive DEF NodesSame
<1>5. op = "migrate" =>
        \E m \in LiveOf(heap') : heap'.vm_start[m] = key /\ Has(heap', m, vm_addr)
  BY <1>1, <1>4 DEF Asked
<1>6. found = Null /\ vm_addr \in Address
  BY DEF Asked
<1>7. op \notin {"new_prev", "old_prev"}
  BY <1>2 DEF Merges
<1> QED BY <1>2, <1>3, <1>5, <1>6, <1>7 DEF Asked

\* of which the page table sees nothing
LEMMA TableSplay ==
  ASSUME IInv, IInv', Asked, pc = "splay", NodesSame(heap', heap),
         UNCHANGED <<op, vm_addr, key, victim, cur, after, found>>
  PROVE  Asked' /\ TableStep
<1>1. Asked'
  BY AskedSplay
<1>2. found = Null
  BY DEF Asked
<1>3. LiveOf(heap') = LiveOf(heap) /\ LiveOf(heap) \subseteq Node
  BY NodesSameLive DEF LiveOf
<1>4. InTable' = InTable /\ InTable \subseteq Node
  BY <1>3 DEF InTable
<1>5. \A n \in InTable : Region1(heap', n) = Region1(heap, n)
  BY <1>4, NodesSameLive
<1>6. TableStep
  BY <1>2, <1>4, <1>5, TableQuiet
<1> QED BY <1>1, <1>6

\* An iteration sets pointers only,
LEMMA TableIterate ==
  ASSUME IInv, IInv', Asked, Iterate
  PROVE  Asked' /\ TableStep
<1>1. PICK w \in Side : Descend(w)
  BY DEF Iterate
<1>2. HeapDom(heap) /\ Other(w) \in Side
  BY OnOrder DEF IInv, Types, Typed
<1>3. SameData(heap, heap)
  BY <1>2 DEF SameData
<1>4. SameData(Rotate(w), heap)
  <2> DEFINE y == heap[w][t]
             c == heap[Other(w)][y]
             k == MakeChild(heap, t, w, c)
             g == MakeChild(k, y, Other(w), t)
  <2>1. Rotate(w) = g
    BY DEF Rotate
  <2> HIDE DEF y, c
  <2>2. SameData(k, heap)
    BY <1>2, MakeChildData
  <2>3. HeapDom(k)
    BY <2>2 DEF SameData
  <2> HIDE DEF k
  <2>4. SameData(g, k)
    BY <1>2, <2>3, MakeChildData
  <2> HIDE DEF g
  <2> QED BY <2>1, <2>2, <2>4, SameDataTwice
<1>5. ASSUME NEW h, SameData(h, heap), NEW m, LinkTo(h, w, m)
      PROVE  SameData(heap', heap)
  <2>1. heap' = MakeChild(h, hook[w], w, m)
    BY <1>5 DEF LinkTo
  <2>2. HeapDom(h)
    BY <1>5 DEF SameData
  <2>3. SameData(heap', h)
    BY <2>1, <2>2, MakeChildData
  <2> QED BY <1>5, <2>3, SameDataTwice
<1>6. SameData(heap', heap)
  <2> DEFINE h == IF Far(w) THEN Rotate(w) ELSE heap
             m == IF Far(w) THEN heap[w][t] ELSE t
  <2>1. heap' = h \/ LinkTo(h, w, m)
    BY <1>1 DEF Descend
  <2>2. SameData(h, heap)
    BY <1>3, <1>4
  <2> HIDE DEF h, m
  <2> QED BY <1>5, <2>1, <2>2
<1>7. NodesSame(heap', heap)
  BY <1>6, SameDataNodes
<1>8. pc = "splay" /\ UNCHANGED <<op, vm_addr, key, victim, cur, after, found>>
  BY DEF Iterate
<1> QED BY <1>7, <1>8, TableSplay

\* and so does what follows the loop.
LEMMA TableAssemble ==
  ASSUME IInv, IInv', Asked, Assemble
  PROVE  Asked' /\ TableStep
<1> DEFINE h1 == MakeChild(heap, hook.sp_r, "sp_r", heap.sp_l[t])
           h2 == MakeChild(h1, hook.sp_l, "sp_l", h1.sp_r[t])
           h3 == MakeChild(h2, t, "sp_l", h2.sp_r[Header])
           h4 == MakeChild(h3, t, "sp_r", h3.sp_l[Header])
           h5 == [h4 EXCEPT !.sp_p[t] = Null]
<1>1. HeapDom(heap) /\ "sp_l" \in Side /\ "sp_r" \in Side /\ "sp_p" \in Link
  BY DEF IInv, Types, Typed, Side, Link
<1>2. heap' = Freed(h5, Header)
  BY DEF Assemble, Assembled
<1>3. SameData(h1, heap)
  BY <1>1, MakeChildData
<1> HIDE DEF h1
<1>4. SameData(h2, h1)
  <2>1. HeapDom(h1)
    BY <1>3 DEF SameData
  <2> QED BY <1>1, <2>1, MakeChildData
<1> HIDE DEF h2
<1>5. SameData(h3, h2)
  <2>1. HeapDom(h2)
    BY <1>4 DEF SameData
  <2> QED BY <1>1, <2>1, MakeChildData
<1> HIDE DEF h3
<1>6. SameData(h4, h3)
  <2>1. HeapDom(h3)
    BY <1>5 DEF SameData
  <2> QED BY <1>1, <2>1, MakeChildData
<1> HIDE DEF h4
<1>7. SameData(h5, h4)
  <2>1. HeapDom(h4)
    BY <1>6 DEF SameData
  <2> QED BY <1>1, <2>1, SetLink
<1> HIDE DEF h5
<1>8. SameData(h5, heap)
  <2>1. SameData(h2, heap)
    BY <1>3, <1>4, SameDataTwice
  <2>2. SameData(h3, heap)
    BY <2>1, <1>5, SameDataTwice
  <2>3. SameData(h4, heap)
    BY <2>2, <1>6, SameDataTwice
  <2> QED BY <2>3, <1>7, SameDataTwice
<1>9. HeapDom(h5) /\ Header \in Slot
  BY <1>8, Constants DEF SameData
<1>10. Cleared(Freed(h5, Header), h5, Header)
  BY <1>9, FreedIs
<1>11. Same(heap', h5, Slot \ {Header})
  BY <1>2, <1>10 DEF Cleared
<1>12. NodesSame(heap', h5)
  <2> SUFFICES ASSUME NEW n \in Node
               PROVE  /\ heap'.vm_start[n] = h5.vm_start[n]
                      /\ heap'.vm_end[n] = h5.vm_end[n]
                      /\ heap'.vm_flags[n] = h5.vm_flags[n]
    BY DEF NodesSame
  <2>1. n \in Slot \ {Header}
    BY Constants
  <2> QED BY <1>11, <2>1, SameFields
<1>13. NodesSame(heap', heap)
  <2>1. NodesSame(h5, heap)
    BY <1>8, SameDataNodes
  <2> QED BY <1>12, <2>1 DEF NodesSame
<1>14. pc = "splay" /\ UNCHANGED <<op, vm_addr, key, victim, cur, after, found>>
  BY DEF Assemble
<1> QED BY <1>13, <1>14, TableSplay

\* A search that ends returns a region that holds the address.
LEMMA TableFind ==
  ASSUME IInv', NEW n \in InTable', ReturnNode(n), Has(heap', n, vm_addr),
         Extents' = Extents \/ Table!Modify
  PROVE  Asked' /\ TableStep
<1>1. Return /\ found' = n /\ vm_addr' = Null
  BY DEF ReturnNode, Return
<1>2. Table!Find
  BY <1>1, FindIs
<1>3. Table!Return
  BY <1>1 DEF Table!Return
<1>4. Table!Next
  BY <1>2, <1>3 DEF Table!Next
<1> QED BY <1>1, <1>4, AskedIdle DEF TableStep

\* The call of sp_tree_insert gives a node its range: it is not in the table yet.
LEMMA TableCallInsert ==
  ASSUME IInv, IInv', NEW z \in Node, CallInsert(z)
  PROVE  Asked' /\ TableStep
<1> DEFINE a == Region[z].start
<1>1. /\ pc = "idle" /\ Enter("insert", a) /\ cur' = z /\ z \notin Live
      /\ heap' = NodeInit(heap, z, a, Region[z].end, 0)
  BY DEF CallInsert
<1>2. a \in Nat /\ Region[z].end \in Nat /\ a < Region[z].end
  BY RegionsApart
<1>3. a \in Address
  <2>1. a \in Region[z].start .. Region[z].end - 1
    BY <1>2
  <2> QED BY <2>1 DEF Address
<1>4. HeapDom(heap) /\ Live = LiveOf(heap) /\ InTable = LiveOf(heap)
  BY <1>1, IdleFacts, TableIdle DEF IInv, Types, Typed
<1>5. /\ heap'.vm_start[z] = a /\ heap'.vm_end[z] = Region[z].end
      /\ \A n \in Node : n # z => Region1(heap', n) = Region1(heap, n)
      /\ \A n \in Node : n # z => /\ heap'.vm_start[n] = heap.vm_start[n]
                                  /\ heap'.vm_end[n] = heap.vm_end[n]
  BY <1>1, <1>4, NodeInitData DEF Region1
<1>6. LiveOf(heap') = LiveOf(heap) \cup {z}
  BY <1>2, <1>5 DEF LiveOf
<1>7. op' = "insert" /\ vm_addr' = a /\ found' = Null
  BY <1>1 DEF Enter, Splay
<1>8. InTable' = LiveOf(heap') \ {z}
  BY <1>1, <1>7 DEF InTable
<1>9. InTable' = InTable /\ z \notin InTable /\ InTable \subseteq Node
  BY <1>1, <1>4, <1>6, <1>8 DEF LiveOf
<1>10. \A n \in InTable : Region1(heap', n) = Region1(heap, n)
  BY <1>5, <1>9
<1> HIDE DEF a
<1>11. Asked'
  BY <1>1, <1>3, AskedFirst
<1>12. TableStep
  BY <1>3, <1>7, <1>9, <1>10, TableCall
<1> QED BY <1>11, <1>12

\* sp_tree_free itself, before and after its removals
LEMMA TableCallFree ==
  ASSUME IInv, IInv', Asked, CallFree \/ FreeDone
  PROVE  Asked' /\ TableStep
<1>1. pc = "idle" /\ UNCHANGED <<heap, locals>> /\ found' \in {found, Null}
  BY DEF CallFree, FreeDone
<1>2. op = "none" /\ vm_addr = Null
  BY <1>1, IdleFacts DEF AtNone
<1>3. UNCHANGED <<pc, op, vm_addr, key, victim, cur, after>>
  BY <1>1 DEF locals
<1>4. Asked'
  BY <1>1, <1>2, <1>3 DEF Asked, Merges
<1>5. InTable' = InTable
  BY <1>1, <1>3 DEF InTable
<1>6. Extents' = Extents
  BY <1>1, <1>5, ExtentsKept
<1>7. CASE CallFree
  <2>1. found' = Null /\ vm_addr' = Null
    BY <1>2, <1>3, <1>7 DEF CallFree
  <2>2. Table!Call(Null)
    BY <1>6, <2>1 DEF Table!Call
  <2> QED BY <1>4, <2>2 DEF Table!Next, TableStep
<1>8. CASE FreeDone
  <2>1. found' = found
    BY <1>8 DEF FreeDone
  <2>2. UNCHANGED FoundRegion
    BY <1>1, <2>1 DEF FoundRegion, Extent, Start, End, Flags
  <2> QED BY <1>3, <1>4, <1>6, <2>2 DEF TableStep
<1> QED BY <1>7, <1>8

\* The node inserted brings its region.
LEMMA TableInsert ==
  ASSUME IInv, IInv', Asked, Insert
  PROVE  Asked' /\ TableStep
<1>1. /\ pc = "run" /\ op = "insert" /\ AtInsert /\ First /\ aborted' = FALSE
  BY DEF Insert, IInv, Ops, AtInsert, Types
<1>2. cur \in LiveOf(heap) /\ vm_addr = heap.vm_start[cur]
  BY <1>1 DEF AtInsert, First, Start
<1>3. heap' = InsertHelper(heap, root, t, cur) /\ Return /\ found' = found
  BY <1>1 DEF Insert, Abort
<1>4. /\ HeapDom(heap) /\ Typed(heap) /\ Apart(heap) /\ Typed(heap') /\ Apart(heap')
      /\ LiveOf(heap) \subseteq Node
  BY DEF IInv, Types, Typed, Ranges, LiveOf
<1>5. NodesSame(heap', heap)
  BY <1>3, <1>4, InsertHelperData, SameDataNodes
<1>6. LiveOf(heap') = LiveOf(heap) /\ \A n \in LiveOf(heap) : Region1(heap', n) = Region1(heap, n)
  BY <1>4, <1>5, NodesSameLive
<1>7. op' = "none" /\ vm_addr' = Null
  BY <1>3 DEF Return, Continue
<1>8. InTable = LiveOf(heap) \ {cur} /\ InTable' = LiveOf(heap)
  BY <1>1, <1>6, <1>7 DEF InTable
<1> DEFINE r == Region1(heap, cur)
<1>9. Extents = Regions(heap, LiveOf(heap) \ {cur}) /\ Extents' = Regions(heap', LiveOf(heap'))
  BY <1>6, <1>8, ExtentsAre, ExtentsThen
<1>10. Extents' = Extents \cup {r}
  BY <1>2, <1>6, <1>9 DEF Regions
<1>11. r \notin Extents
  <2> SUFFICES ASSUME NEW n \in LiveOf(heap) \ {cur}, r = Region1(heap, n) PROVE FALSE
    BY <1>9 DEF Regions
  <2>1. heap.vm_start[n] = heap.vm_start[cur]
    BY DEF Region1
  <2> QED BY <1>2, <1>4, <2>1, LiveFacts
<1>12. r.start = vm_addr
  BY <1>2 DEF Region1
<1>13. Table!Disjoint(Extents')
  BY <1>4, <1>9, RegionsDisjoint
<1>14. found = Null /\ found' = Null
  BY <1>1, <1>3 DEF Asked
<1> HIDE DEF r
<1>15. Table!Insert(r)
  BY <1>10, <1>12, <1>13, <1>14 DEF Table!Insert
<1>16. Table!Return
  BY <1>7 DEF Table!Return
<1>17. r \in Extents' \ Extents
  BY <1>10, <1>11
<1>18. Table!Next
  BY <1>15, <1>16, <1>17 DEF Table!Next
<1> QED BY <1>3, <1>18, AskedIdle DEF TableStep

\* S_sp_tree_remove_helper, up to its splay, changes the list only.
LEMMA HelperSame ==
  ASSUME IInv, NEW n, NEW what, NEW m, RemoveHelper(n, what, m)
  PROVE  /\ NodesSame(heap', heap) /\ LiveOf(heap') = LiveOf(heap)
         /\ \A x \in LiveOf(heap) : Region1(heap', x) = Region1(heap, x)
         /\ op' = "join" /\ victim' = n /\ cur' = m /\ after' = what /\ pc' # "idle"
         /\ UNCHANGED <<vm_addr, found>>
<1>1. HeapDom(heap) /\ LiveOf(heap) \subseteq Node
  BY DEF IInv, Types, Typed, LiveOf
<1>2. heap' = ListRemove(heap, n)
  BY DEF RemoveHelper
<1>3. NodesSame(heap', heap)
  BY <1>1, <1>2, ListRemoveData, SameDataNodes
<1>4. /\ LiveOf(heap') = LiveOf(heap)
      /\ \A x \in LiveOf(heap) : Region1(heap', x) = Region1(heap, x)
  BY <1>1, <1>3, NodesSameLive
<1> QED BY <1>3, <1>4 DEF RemoveHelper, Splay

\* The node removed takes its region with it, and this before its memory.
LEMMA TableRemove ==
  ASSUME IInv, IInv', Asked, Remove
  PROVE  Asked' /\ TableStep
<1>1. pc = "run" /\ op = "remove" /\ AtRemove /\ First /\ aborted' = FALSE
  BY DEF Remove, IInv, Ops, AtRemove, Types
<1>2. RemoveHelper(t, "removed", Null) /\ Start(t) = vm_addr
  BY <1>1 DEF Remove, Abort
<1>3. t \in LiveOf(heap) /\ Members = LiveOf(heap)
  <2>1. Members = LiveOf(heap) /\ Members # {}
    BY <1>1, AllMembers DEF First, AtRemove
  <2> QED BY <1>1, <2>1, RunFirst
<1>4. /\ LiveOf(heap') = LiveOf(heap)
      /\ \A x \in LiveOf(heap) : Region1(heap', x) = Region1(heap, x)
      /\ op' = "join" /\ victim' = t /\ after' = "removed" /\ pc' # "idle"
      /\ UNCHANGED <<vm_addr, found>>
  BY <1>2, HelperSame
<1>5. InTable = LiveOf(heap) /\ InTable' = LiveOf(heap) \ {t}
  BY <1>1, <1>4 DEF InTable
<1>6. Typed(heap) /\ Apart(heap)
  BY DEF IInv, Types, Ranges
<1> DEFINE r == Region1(heap, t)
<1>7. Extents = Regions(heap, LiveOf(heap)) /\ Extents' = Regions(heap', LiveOf(heap) \ {t})
  BY <1>5, ExtentsAre, ExtentsThen
<1>8. Extents' = Regions(heap, LiveOf(heap) \ {t})
  BY <1>4, <1>7 DEF Regions
<1>9. \A n \in LiveOf(heap) \ {t} : Region1(heap, n) # r
  <2> SUFFICES ASSUME NEW n \in LiveOf(heap) \ {t}, Region1(heap, n) = r PROVE FALSE
    OBVIOUS
  <2>1. heap.vm_start[n] = heap.vm_start[t]
    BY DEF Region1
  <2> QED BY <1>3, <1>6, <2>1, LiveFacts
<1>10. Extents' = Extents \ {r} /\ r \in Extents
  BY <1>3, <1>7, <1>8, <1>9 DEF Regions
<1>11. r.start = vm_addr
  BY <1>2 DEF Region1, Start
<1>12. found = Null /\ found' = Null /\ vm_addr \in Address
  BY <1>1, <1>4 DEF Asked
<1> HIDE DEF r
<1>13. Table!Remove(r)
  BY <1>10, <1>11, <1>12 DEF Table!Remove
<1>14. Table!Return
  BY <1>4 DEF Table!Return
<1>15. r \in Extents \ Extents'
  BY <1>10
<1>16. Table!Next
  BY <1>13, <1>14, <1>15 DEF Table!Next
<1>17. Asked'
  BY <1>4, <1>12 DEF Asked, AskedJoin, Merges
<1> QED BY <1>16, <1>17 DEF TableStep

\* What a search found holds the address.
LEMMA TableFindStep ==
  ASSUME IInv, IInv', Find
  PROVE  Asked' /\ TableStep
<1>1. /\ pc = "run" /\ op = "find" /\ AtFind /\ First /\ aborted' = FALSE
  BY DEF Find, IInv, Ops, AtFind, Types
<1>2. Hit # Null /\ Holds(Hit, vm_addr) /\ ReturnNode(Hit) /\ heap' = heap
  BY <1>1 DEF Find, Abort
<1>3. Members = LiveOf(heap) /\ Members # {}
  BY <1>1, AllMembers DEF First, AtFind
<1>4. t \in LiveOf(heap) /\ Listed(heap, LiveOf(heap)) /\ Null \notin LiveOf(heap)
  BY <1>1, <1>3, RunFirst, MembersIn DEF IInv
<1>5. Hit \in LiveOf(heap)
  <2>1. CASE Hit = t
    BY <1>4, <2>1
  <2>2. CASE Hit = heap.vm_prev[t]
    BY <1>2, <1>4, <2>2, Neighbour
  <2> QED BY <2>1, <2>2 DEF Hit, Prev
<1>6. op' = "none"
  BY <1>2 DEF ReturnNode, Return, Continue
<1>7. InTable = LiveOf(heap) /\ InTable' = LiveOf(heap)
  BY <1>1, <1>2, <1>6 DEF InTable
<1>8. Extents' = Extents
  BY <1>2, <1>7, ExtentsKept
<1>9. Has(heap', Hit, vm_addr)
  BY <1>2 DEF Has, Holds, Start, End
<1>10. Hit \in InTable'
  BY <1>5, <1>7
<1> DEFINE n == Hit
<1>11. ReturnNode(n) /\ Has(heap', n, vm_addr) /\ n \in InTable'
  BY <1>2, <1>9, <1>10
<1> HIDE DEF n
<1> QED BY <1>8, <1>11, TableFind

\* The neighbour that got the page is the one its splay brings up.
LEMMA TableMigrated ==
  ASSUME IInv, IInv', Asked, Migrated
  PROVE  Asked' /\ TableStep
<1>1. /\ pc = "run" /\ op = "migrate" /\ AtMigrate /\ ReturnNode(t) /\ heap' = heap
  BY DEF Migrated, IInv, Ops
<1>2. victim = Null /\ t # Null /\ Here = LiveOf(heap)
  BY <1>1, AllMembers DEF AtMigrate, Here
<1>3. Nearest(heap, t, key, LiveOf(heap))
  BY <1>1, <1>2 DEF IInv, MainTree
<1>4. PICK m \in LiveOf(heap) : heap.vm_start[m] = key /\ Has(heap, m, vm_addr)
  BY <1>1 DEF Asked
<1>5. m = t
  <2>1. heap.vm_start[m] \in Nat
    BY LiveFacts DEF IInv, Types, Ranges
  <2>2. \A w \in Side : ~On(w, heap.vm_start[m], key)
    BY <1>4, <2>1, OnOrder
  <2> QED BY <1>3, <2>2 DEF Nearest
<1>6. op' = "none"
  BY <1>1 DEF ReturnNode, Return, Continue
<1>7. InTable = LiveOf(heap) /\ InTable' = LiveOf(heap)
  BY <1>1, <1>6 DEF InTable
<1>8. Extents' = Extents
  BY <1>1, <1>7, ExtentsKept
<1> QED BY <1>1, <1>4, <1>5, <1>7, <1>8, TableFind

\* A page that is a region of its own: nothing changes yet.
LEMMA TableOnlyPage ==
  ASSUME IInv, IInv', Asked, NEW n, OnlyPage(n)
  PROVE  Asked' /\ TableStep
<1>1. /\ AtTarget(n, TRUE, TRUE) /\ pc' = "run" /\ Continue("old_prev", n)
      /\ UNCHANGED <<heap, vm_addr, found>>
  BY DEF OnlyPage
<1>2. /\ pc = "run" /\ op = "mod" /\ heap.vm_start[n] = vm_addr
      /\ heap.vm_end[n] = vm_addr + 1
  BY <1>1, TargetRoot
<1>3. op' = "old_prev" /\ cur' = n
  BY <1>1 DEF Continue
<1>4. found = Null /\ vm_addr \in Address /\ vm_addr \in Nat
  BY <1>2, Addresses DEF Asked
<1>5. IsPage(heap, n, vm_addr) /\ Has(heap, n, vm_addr)
  BY <1>2, <1>4 DEF IsPage, Has
<1>6. Asked'
  BY <1>1, <1>3, <1>4, <1>5 DEF Asked
<1>7. InTable = LiveOf(heap) /\ InTable' = LiveOf(heap)
  BY <1>1, <1>2, <1>3 DEF InTable
<1>8. TableStep
  BY <1>1, <1>4, <1>7, TableQuiet
<1> QED BY <1>6, <1>8

-----------------------------------------------------------------------------
(* Merges                                                                  *)

\* The merge with the node before removes the page's own node, or nothing.
LEMMA TableMergePrev ==
  ASSUME IInv, IInv', Asked, NEW o, NEW next, NEW f, MergePrev(o, next, f),
         \/ o = "new_prev" /\ next = "new_next"
         \/ o = "old_prev" /\ next = "old_next"
  PROVE  Asked' /\ TableStep
<1>1. pc = "run" /\ op = o /\ op \in Merges
  BY DEF MergePrev, Merges
<1>2. /\ found = Null /\ vm_addr \in Address /\ Has(heap, cur, vm_addr)
      /\ IsPage(heap, cur, vm_addr)
  BY <1>1 DEF Asked
<1>3. InTable = LiveOf(heap) /\ cur \in Node
  BY <1>1, RunMerge DEF InTable, Merges
<1>4. CASE RemoveHelper(cur, next, Prev(cur))
  <2>1. /\ NodesSame(heap', heap) /\ LiveOf(heap') = LiveOf(heap)
        /\ \A x \in LiveOf(heap) : Region1(heap', x) = Region1(heap, x)
        /\ op' = "join" /\ victim' = cur /\ after' = next /\ pc' # "idle"
        /\ UNCHANGED <<vm_addr, found>>
    BY <1>4, HelperSame
  <2>2. InTable' = LiveOf(heap)
    BY <2>1 DEF InTable
  <2>3. IsPage(heap', cur, vm_addr)
    BY <1>2, <1>3, <2>1, NodesSameLive
  <2>4. AskedJoin'
    BY <2>1, <2>3 DEF AskedJoin
  <2>5. Asked'
    BY <1>2, <2>1, <2>4 DEF Asked, Merges
  <2>6. TableStep
    BY <1>2, <1>3, <2>1, <2>2, TableQuiet
  <2> QED BY <2>5, <2>6
<1>5. CASE /\ pc' = "run" /\ Continue(next, cur)
           /\ UNCHANGED <<heap, root, vm_addr, found, aborted>>
  <2>1. op' = next /\ cur' = cur
    BY <1>5 DEF Continue
  <2>2. InTable' = LiveOf(heap)
    BY <1>5, <2>1 DEF InTable
  <2>3. Asked'
    BY <1>2, <1>5, <2>1 DEF Asked
  <2>4. TableStep
    BY <1>2, <1>3, <1>5, <2>2, TableQuiet
  <2> QED BY <2>3, <2>4
<1> QED BY <1>4, <1>5 DEF MergePrev

\* The merge with the node after is with one of the same flags, or the node at
\* hand is what the operation returns.
LEMMA TableReturnNode ==
  ASSUME IInv, IInv', Asked, pc = "run", op \in Merges, ReturnNode(cur), heap' = heap
  PROVE  Asked' /\ TableStep
<1>1. Has(heap', cur, vm_addr) /\ cur \in LiveOf(heap)
  BY RunMerge DEF Asked
<1>2. op' = "none"
  BY DEF ReturnNode, Return, Continue
<1>3. InTable = LiveOf(heap) /\ InTable' = LiveOf(heap)
  BY <1>2 DEF InTable, Merges
<1>4. Extents' = Extents
  BY <1>3, ExtentsKept
<1> DEFINE n == cur
<1>5. ReturnNode(n) /\ Has(heap', n, vm_addr) /\ n \in InTable'
  BY <1>1, <1>3
<1> HIDE DEF n
<1> QED BY <1>4, <1>5, TableFind

\* The merge of a page's new node with the node after it, if it is of the same
\* flags
LEMMA TableNewNext ==
  ASSUME IInv, IInv', Asked, NewNext
  PROVE  Asked' /\ TableStep
<1>1. pc = "run" /\ op = "new_next" /\ op \in Merges
  BY DEF NewNext, Merges
<1>2. CASE Touch(cur, Succ(cur)) /\ Flags(Succ(cur)) = Flags(cur)
  <2>1. RemoveHelper(cur, "found", Succ(cur))
    BY <1>2 DEF NewNext, MergeNext
  <2>2. /\ NodesSame(heap', heap) /\ LiveOf(heap') = LiveOf(heap)
        /\ \A x \in LiveOf(heap) : Region1(heap', x) = Region1(heap, x)
        /\ op' = "join" /\ victim' = cur /\ cur' = Succ(cur) /\ after' = "found"
        /\ pc' # "idle"
        /\ UNCHANGED <<vm_addr, found>>
    BY <2>1, HelperSame
  <2>3. /\ found = Null /\ vm_addr \in Address /\ Has(heap, cur, vm_addr)
    BY <1>1 DEF Asked
  <2>4. cur \in Node /\ Succ(cur) \in Node
    BY <1>1, <1>2, RunMerge, MembersIn
  <2>5. Has(heap', cur, vm_addr)
    BY <2>2, <2>3, <2>4, NodesSameLive
  <2>6. heap'.vm_flags[Succ(cur)] = heap'.vm_flags[cur]
    BY <1>2, <2>2, <2>4 DEF NodesSame, Flags
  <2>7. AskedJoin'
    BY <2>2, <2>5, <2>6 DEF AskedJoin
  <2>8. Asked'
    BY <2>2, <2>3, <2>7 DEF Asked, Merges
  <2>9. InTable = LiveOf(heap) /\ InTable' = LiveOf(heap)
    BY <1>1, <2>2 DEF InTable
  <2>10. TableStep
    BY <2>2, <2>3, <2>9, TableQuiet
  <2> QED BY <2>8, <2>10
<1>3. CASE ~(Touch(cur, Succ(cur)) /\ Flags(Succ(cur)) = Flags(cur))
  <2>1. ReturnNode(cur) /\ heap' = heap
    BY <1>3 DEF NewNext, MergeNext
  <2> QED BY <1>1, <2>1, TableReturnNode
<1> QED BY <1>2, <1>3

\* The merge of a page's old node with the node after it, which there is none of
LEMMA TableOldNext ==
  ASSUME IInv, IInv', Asked, OldNext
  PROVE  Asked' /\ TableStep
<1>1. pc = "run" /\ op = "old_next" /\ op \in Merges
  BY DEF OldNext, Merges
<1>2. ~Touch(cur, Succ(cur))
  BY <1>1, RunMerge DEF Start, End
<1>3. ReturnNode(cur) /\ heap' = heap
  BY <1>2 DEF OldNext, MergeNext
<1> QED BY <1>1, <1>3, TableReturnNode

-----------------------------------------------------------------------------
(* Changes that are PageTable's Modify                                     *)

\* A node z for a page that had none
LEMMA ModifiedNew ==
  ASSUME NEW g, NEW h, NEW p \in Nat, NEW z, IsPage(g, z, p), g.vm_flags[z] = READ,
         LiveOf(g) = LiveOf(h) \cup {z}, z \notin LiveOf(h),
         \A n \in LiveOf(h) : Region1(g, n) = Region1(h, n)
  PROVE  Modified(g, h, p)
<1>1. \A n \in LiveOf(h) : /\ g.vm_flags[n] = h.vm_flags[n]
                           /\ \A a : Has(g, n, a) <=> Has(h, n, a)
  BY DEF Region1, Has
<1>2. \A a \in Nat : a # p => ~Has(g, z, a)
  BY DEF IsPage, Has
<1>3. Has(g, z, p)
  BY DEF IsPage, Has
<1> QED BY <1>1, <1>2, <1>3 DEF Modified

\* A node z for the page alone, where node n has what else it had, but for what
\* the nodes of Y have of it now
LEMMA ModifiedSplit ==
  ASSUME NEW g, NEW h, NEW p \in Nat, NEW n \in LiveOf(h), Has(h, n, p),
         NEW z, IsPage(g, z, p), NEW Y,
         LiveOf(g) = LiveOf(h) \cup {z} \cup Y, z \notin LiveOf(h),
         \A m \in Y : m \notin LiveOf(h),
         \A m \in LiveOf(h) \ {n} : Region1(g, m) = Region1(h, m),
         \A m \in {n} \cup Y : g.vm_flags[m] = h.vm_flags[n],
         \A a \in Nat : a # p => (Has(h, n, a) <=> \E m \in {n} \cup Y : Has(g, m, a))
  PROVE  Modified(g, h, p)
<1>1. \A m \in LiveOf(h) \ {n} : /\ g.vm_flags[m] = h.vm_flags[m]
                                 /\ \A a : Has(g, m, a) <=> Has(h, m, a)
  BY DEF Region1, Has
<1>2. \A a \in Nat : a # p => ~Has(g, z, a)
  BY DEF IsPage, Has
<1>3. Has(g, z, p)
  BY DEF IsPage, Has
<1>4. ASSUME NEW a \in Nat, a # p, NEW m \in LiveOf(h), Has(h, m, a)
      PROVE  \E x \in LiveOf(g) : Has(g, x, a) /\ g.vm_flags[x] = h.vm_flags[m]
  <2>1. CASE m = n
    BY <1>4, <2>1
  <2>2. CASE m # n
    BY <1>1, <1>4, <2>2
  <2> QED BY <2>1, <2>2
<1>5. ASSUME NEW a \in Nat, a # p, NEW x \in LiveOf(g), Has(g, x, a)
      PROVE  \E m \in LiveOf(h) : Has(h, m, a)
  <2>1. x # z
    BY <1>2, <1>5
  <2>2. CASE x \in {n} \cup Y
    BY <1>5, <2>2
  <2>3. CASE x \in LiveOf(h) \ {n}
    BY <1>1, <1>5, <2>3
  <2> QED BY <2>1, <2>2, <2>3
<1> QED BY <1>3, <1>4, <1>5 DEF Modified

\* The page alone goes from a node to another.
LEMMA ModifiedMoved ==
  ASSUME NEW g, NEW h, NEW p \in Nat, NEW n \in LiveOf(h), Has(h, n, p),
         NEW m \in LiveOf(h), Has(g, m, p), LiveOf(g) = LiveOf(h),
         \A x \in LiveOf(h) : /\ g.vm_flags[x] = h.vm_flags[x]
                              /\ \A a \in Nat : a # p => (Has(g, x, a) <=> Has(h, x, a))
  PROVE  Modified(g, h, p)
BY DEF Modified

\* Node c gets what node v had, which has the flags of c but for the page.
LEMMA ModifiedJoined ==
  ASSUME NEW g, NEW h, NEW p \in Nat, NEW v \in LiveOf(h), Has(h, v, p),
         NEW c \in LiveOf(h), c # v, LiveOf(g) = LiveOf(h) \ {v},
         \A m \in LiveOf(h) \ {c, v} : Region1(g, m) = Region1(h, m),
         g.vm_flags[c] = h.vm_flags[c],
         \A a \in Nat : Has(g, c, a) <=> Has(h, c, a) \/ Has(h, v, a),
         \A a \in Nat : a # p /\ Has(h, v, a) => h.vm_flags[c] = h.vm_flags[v]
  PROVE  Modified(g, h, p)
<1>1. \A m \in LiveOf(h) \ {c, v} : /\ g.vm_flags[m] = h.vm_flags[m]
                                    /\ \A a : Has(g, m, a) <=> Has(h, m, a)
  BY DEF Region1, Has
<1>2. Has(g, c, p) /\ c \in LiveOf(g)
  OBVIOUS
<1>3. ASSUME NEW a \in Nat, a # p, NEW m \in LiveOf(h), Has(h, m, a)
      PROVE  \E x \in LiveOf(g) : Has(g, x, a) /\ g.vm_flags[x] = h.vm_flags[m]
  <2>1. CASE m \in {c, v}
    BY <1>2, <1>3, <2>1
  <2>2. CASE m \notin {c, v}
    BY <1>1, <1>3, <2>2
  <2> QED BY <2>1, <2>2
<1>4. ASSUME NEW a \in Nat, a # p, NEW x \in LiveOf(g), Has(g, x, a)
      PROVE  \E m \in LiveOf(h) : Has(h, m, a)
  <2>1. CASE x = c
    BY <1>4, <2>1
  <2>2. CASE x # c
    BY <1>1, <1>4, <2>2
  <2> QED BY <2>1, <2>2
<1> QED BY <1>2, <1>3, <1>4 DEF Modified

\* The heap without the node that is removed
LEMMA JoinedNodes ==
  ASSUME IInv, pc = "run", op = "join", NEW h, h = Freed(Joined, victim)
  PROVE  /\ Typed(h) /\ LiveOf(h) = LiveOf(heap) \ {victim}
         /\ \A n \in Node : n # victim => Region1(h, n) = Region1(heap, n)
<1>1. /\ victim \in Node /\ victim \notin Members /\ HeapDom(heap)
      /\ LiveOf(heap) = Members \cup {victim}
  BY AtJoinFacts DEF Typed
<1>2. LiveOf(h) = Members /\ Typed(h)
  BY JoinedIs DEF Fine
<1> DEFINE j == Joined
<1>3. SameData(j, heap)
  BY <1>1, JoinedData
<1> HIDE DEF j
<1>4. HeapDom(j) /\ NodesSame(j, heap) /\ victim \in Slot
  BY <1>1, <1>3, SameDataNodes, Constants DEF SameData
<1>5. Cleared(Freed(j, victim), j, victim)
  BY <1>4, FreedIs
<1>6. Same(h, j, Slot \ {victim})
  BY <1>5 DEF Cleared, j
<1>7. ASSUME NEW n \in Node, n # victim PROVE Region1(h, n) = Region1(heap, n)
  <2>1. n \in Slot \ {victim}
    BY <1>7, Constants
  <2>2. h.vm_start[n] = j.vm_start[n] /\ h.vm_end[n] = j.vm_end[n]
        /\ h.vm_flags[n] = j.vm_flags[n]
    BY <1>6, <2>1, SameFields
  <2> QED BY <1>4, <2>2 DEF NodesSame, Region1
<1> QED BY <1>1, <1>2, <1>7

\* Two ranges that touch, in one
LEMMA RangesJoined ==
  ASSUME NEW s \in Nat, NEW m \in Nat, NEW e \in Nat, s < m, m < e, NEW a \in Nat
  PROVE  s <= a /\ a < e <=> (s <= a /\ a < m) \/ (m <= a /\ a < e)
OBVIOUS

\* The end of a removal: in a merge, the page's node and its neighbour are one
\* from now on.
LEMMA TableJoin ==
  ASSUME IInv, IInv', Asked, Join
  PROVE  Asked' /\ TableStep
<1> DEFINE h == Freed(Joined, victim)
           L == LiveOf(heap)
<1>1. pc = "run" /\ op = "join" /\ AskedJoin /\ found = Null /\ vm_addr \in Address
  BY DEF Join, Asked
<1>2. /\ Typed(h) /\ LiveOf(h) = L \ {victim}
      /\ \A n \in Node : n # victim => Region1(h, n) = Region1(heap, n)
  BY <1>1, JoinedNodes
<1>3. /\ AtJoin /\ victim \in L /\ victim \notin Members /\ L = Members \cup {victim}
      /\ L \subseteq Node /\ Typed(heap) /\ Apart(heap) /\ vm_addr \in Nat
  BY <1>1, AtJoinFacts, MembersIn, Addresses DEF IInv, Ranges
<1>4. \A n \in L : /\ heap.vm_start[n] \in Nat /\ heap.vm_end[n] \in Nat
                   /\ heap.vm_start[n] < heap.vm_end[n]
  BY <1>3, LiveFacts
<1>5. CASE after = "removed"
  <2>1. heap' = h /\ Return /\ found' = found
    BY <1>5 DEF Join
  <2> HIDE DEF h
  <2>2. op' = "none" /\ vm_addr' = Null
    BY <2>1 DEF Return, Continue
  <2>3. InTable = L \ {victim} /\ InTable' = L \ {victim}
    BY <1>1, <1>2, <1>5, <2>1, <2>2 DEF InTable
  <2>4. \A n \in InTable : Region1(heap', n) = Region1(heap, n)
    BY <1>2, <1>3, <2>1, <2>3
  <2>5. TableStep
    BY <1>1, <2>1, <2>2, <2>3, <2>4, TableQuiet
  <2> QED BY <2>1, <2>5, AskedIdle
<1>6. ASSUME after # "removed", cur \in Members
      PROVE  /\ cur \in L /\ cur # victim /\ cur \in Node /\ InTable = L
             /\ Region1(h, cur) = Region1(heap, cur)
  BY <1>1, <1>2, <1>3, <1>6 DEF InTable
<1>7. CASE after \in {"new_next", "old_next"}
  <2> DEFINE g == [h EXCEPT !.vm_end[cur] = End(victim)]
  <2>1. /\ heap' = g /\ Continue(after, cur) /\ pc' = "run"
        /\ vm_addr' = vm_addr /\ found' = found
    BY <1>7 DEF Join
  <2>2. cur \in Members /\ End(cur) = Start(victim) /\ IsPage(heap, victim, vm_addr)
    BY <1>1, <1>3, <1>7 DEF AtJoin, AskedJoin
  <2>3. End(victim) \in Nat /\ cur \in Node /\ cur \in L /\ cur # victim /\ InTable = L
        /\ Region1(h, cur) = Region1(heap, cur)
    BY <1>3, <1>4, <1>6, <1>7, <2>2 DEF End
  <2> HIDE DEF h
  <2>4. FieldSet(g, h, "vm_end", cur, End(victim))
    BY <1>2, <2>3, EndSet
  <2> HIDE DEF g
  <2>5. /\ g.vm_end[cur] = heap.vm_end[victim] /\ g.vm_start[cur] = heap.vm_start[cur]
        /\ g.vm_flags = h.vm_flags
        /\ \A x \in Node : x # cur => /\ g.vm_start[x] = h.vm_start[x]
                                      /\ g.vm_end[x] = h.vm_end[x]
    <3>1. RangeSet(g, h, cur) /\ g.vm_end[cur] = End(victim) /\ g.vm_start = h.vm_start
      BY <2>3, <2>4, FieldRange
    <3>2. "vm_flags" \in Field /\ "vm_flags" # "vm_end"
      BY DEF Field, Data
    <3>3. h.vm_start[cur] = heap.vm_start[cur]
      BY <2>3 DEF Region1
    <3> QED BY <2>4, <3>1, <3>2, <3>3 DEF FieldSet, RangeSet, End
  <2>6. /\ g.vm_flags[cur] = heap.vm_flags[cur]
        /\ \A m \in L \ {cur, victim} : Region1(g, m) = Region1(heap, m)
    BY <1>2, <1>3, <2>3, <2>5 DEF Region1
  <2>7. \A a \in Nat : Has(g, cur, a) <=> Has(heap, cur, a) \/ Has(heap, victim, a)
    <3> DEFINE sc == heap.vm_start[cur]
               sv == heap.vm_start[victim]
               ev == heap.vm_end[victim]
    <3>1. /\ sc \in Nat /\ sv \in Nat /\ ev \in Nat /\ sc < sv /\ sv < ev
          /\ heap.vm_end[cur] = sv
      BY <1>3, <1>4, <2>2, <2>3 DEF Start, End
    <3> HIDE DEF sc, sv, ev
    <3>2. \A a \in Nat : sc <= a /\ a < ev <=> (sc <= a /\ a < sv) \/ (sv <= a /\ a < ev)
      BY <3>1, RangesJoined
    <3> QED BY <2>5, <3>1, <3>2 DEF Has, sc, sv, ev
  <2>8. Has(heap, victim, vm_addr) /\ \A a \in Nat : Has(heap, victim, a) => a = vm_addr
    BY <1>3, <2>2 DEF Has, IsPage
  <2>9. LiveOf(g) = L \ {victim}
    <3>1. \A x \in Node : x # cur => (x \in LiveOf(g) <=> x \in LiveOf(h))
      BY <2>5 DEF LiveOf
    <3>2. cur \in LiveOf(g)
      <4>1. heap.vm_start[cur] < heap.vm_end[victim]
        BY <1>3, <1>4, <2>2, <2>3 DEF Start, End
      <4> QED BY <2>3, <2>5, <4>1 DEF LiveOf
    <3>3. LiveOf(g) \subseteq Node /\ LiveOf(h) \subseteq Node /\ cur \in LiveOf(h)
      BY <1>2, <2>3 DEF LiveOf
    <3> QED BY <1>2, <3>1, <3>2, <3>3
  <2>10. Modified(g, heap, vm_addr)
    BY <1>3, <2>3, <2>6, <2>7, <2>8, <2>9, ModifiedJoined
  <2>11. op' = after /\ cur' = cur
    BY <2>1 DEF Continue
  <2>12. InTable' = LiveOf(heap')
    BY <1>7, <2>11 DEF InTable
  <2>13. Table!Modify
    BY <1>1, <2>1, <2>3, <2>10, <2>12, ModifyIs
  <2>14. UNCHANGED FoundRegion
    BY <1>1, <2>1 DEF FoundRegion
  <2>15. vm_addr # Null /\ vm_addr' = vm_addr
    BY <1>1, <2>1, Addresses
  <2>16. TableStep
    BY <2>13, <2>14, <2>15 DEF TableStep, Table!Next, Table!Return, FoundRegion
  <2>17. Asked'
    BY <1>1, <1>3, <1>7, <2>1, <2>7, <2>8, <2>11 DEF Asked
  <2> QED BY <2>16, <2>17
<1>8. CASE after = "found"
  <2> DEFINE g == [h EXCEPT !.vm_start[cur] = Start(victim)]
             n == cur
  <2>1. heap' = g /\ ReturnNode(n)
    BY <1>8 DEF Join
  <2>2. cur \in Members /\ End(victim) = Start(cur) /\ Has(heap, victim, vm_addr)
        /\ heap.vm_flags[cur] = heap.vm_flags[victim]
    BY <1>1, <1>3, <1>8 DEF AtJoin, AskedJoin
  <2>3. Start(victim) \in Nat /\ cur \in Node /\ cur \in L /\ cur # victim /\ InTable = L
        /\ Region1(h, cur) = Region1(heap, cur)
    BY <1>3, <1>4, <1>6, <1>8, <2>2 DEF Start
  <2> HIDE DEF h, n
  <2>4. FieldSet(g, h, "vm_start", cur, Start(victim))
    BY <1>2, <2>3, StartSet
  <2> HIDE DEF g
  <2>5. /\ g.vm_start[cur] = heap.vm_start[victim] /\ g.vm_end[cur] = heap.vm_end[cur]
        /\ g.vm_flags = h.vm_flags
        /\ \A x \in Node : x # cur => /\ g.vm_start[x] = h.vm_start[x]
                                      /\ g.vm_end[x] = h.vm_end[x]
    <3>1. RangeSet(g, h, cur) /\ g.vm_start[cur] = Start(victim) /\ g.vm_end = h.vm_end
      BY <2>3, <2>4, FieldRange
    <3>2. "vm_flags" \in Field /\ "vm_flags" # "vm_start"
      BY DEF Field, Data
    <3>3. h.vm_end[cur] = heap.vm_end[cur]
      BY <2>3 DEF Region1
    <3> QED BY <2>4, <3>1, <3>2, <3>3 DEF FieldSet, RangeSet, Start
  <2>6. /\ g.vm_flags[cur] = heap.vm_flags[cur]
        /\ \A m \in L \ {cur, victim} : Region1(g, m) = Region1(heap, m)
    BY <1>2, <1>3, <2>3, <2>5 DEF Region1
  <2>7. \A a \in Nat : Has(g, cur, a) <=> Has(heap, cur, a) \/ Has(heap, victim, a)
    <3> DEFINE sv == heap.vm_start[victim]
               sc == heap.vm_start[cur]
               ec == heap.vm_end[cur]
    <3>1. /\ sv \in Nat /\ sc \in Nat /\ ec \in Nat /\ sv < sc /\ sc < ec
          /\ heap.vm_end[victim] = sc
      BY <1>3, <1>4, <2>2, <2>3 DEF Start, End
    <3> HIDE DEF sc, sv, ec
    <3>2. \A a \in Nat : sv <= a /\ a < ec <=> (sv <= a /\ a < sc) \/ (sc <= a /\ a < ec)
      BY <3>1, RangesJoined
    <3> QED BY <2>5, <3>1, <3>2 DEF Has, sc, sv, ec
  <2>8. LiveOf(g) = L \ {victim}
    <3>1. \A x \in Node : x # cur => (x \in LiveOf(g) <=> x \in LiveOf(h))
      BY <2>5 DEF LiveOf
    <3>2. cur \in LiveOf(g)
      <4>1. heap.vm_start[victim] < heap.vm_end[cur]
        BY <1>3, <1>4, <2>2, <2>3 DEF Start, End
      <4> QED BY <2>3, <2>5, <4>1 DEF LiveOf
    <3>3. LiveOf(g) \subseteq Node /\ LiveOf(h) \subseteq Node /\ cur \in LiveOf(h)
      BY <1>2, <2>3 DEF LiveOf
    <3> QED BY <1>2, <3>1, <3>2, <3>3
  <2>9. Modified(g, heap, vm_addr)
    BY <1>3, <2>2, <2>3, <2>6, <2>7, <2>8, ModifiedJoined
  <2>10. op' = "none"
    BY <2>1 DEF ReturnNode, Return, Continue
  <2>11. InTable' = LiveOf(heap')
    BY <2>10 DEF InTable
  <2>12. Table!Modify
    BY <1>1, <2>1, <2>3, <2>9, <2>11, ModifyIs
  <2>13. n \in InTable' /\ Has(heap', n, vm_addr)
    BY <1>3, <2>1, <2>2, <2>3, <2>7, <2>8, <2>11 DEF n
  <2> QED BY <2>1, <2>12, <2>13, TableFind
<1> QED BY <1>3, <1>5, <1>7, <1>8 DEF AtJoin

-----------------------------------------------------------------------------
(* Splits                                                                  *)

\* g is h with a node z, of a range s to e and flags f.
NodeGiven(g, h, z, s, e, f) ==
  /\ HeapDom(g)
  /\ Region1(g, z) = [start |-> s, end |-> e, flags |-> f]
  /\ \A n \in Node : n # z => Region1(g, n) = Region1(h, n)
  /\ LiveOf(g) = LiveOf(h) \cup {z}

\* Such is a heap with a new node, before it is in the tree
LEMMA NodeGivenInit ==
  ASSUME NEW h, HeapDom(h), NEW z \in Node, NEW s \in Nat, NEW e \in Nat, s < e, NEW f
  PROVE  NodeGiven(NodeInit(h, z, s, e, f), h, z, s, e, f)
<1> DEFINE g == NodeInit(h, z, s, e, f)
<1>1. /\ HeapDom(g)
      /\ g.vm_start[z] = s /\ g.vm_end[z] = e /\ g.vm_flags[z] = f
      /\ \A n \in Node : n # z => /\ g.vm_start[n] = h.vm_start[n]
                                  /\ g.vm_end[n] = h.vm_end[n]
                                  /\ g.vm_flags[n] = h.vm_flags[n]
  BY NodeInitData
<1> HIDE DEF g
<1>2. Region1(g, z) = [start |-> s, end |-> e, flags |-> f]
      /\ \A n \in Node : n # z => Region1(g, n) = Region1(h, n)
  BY <1>1 DEF Region1
<1>3. LiveOf(g) = LiveOf(h) \cup {z}
  BY <1>1 DEF LiveOf
<1>4. NodeGiven(g, h, z, s, e, f)
  BY <1>1, <1>2, <1>3 DEF NodeGiven
<1> QED BY <1>4 DEF g

\* and after.
LEMMA NodeGivenInsert ==
  ASSUME NEW h, NEW k, NEW z \in Node, NEW s, NEW e, NEW f, NodeGiven(k, h, z, s, e, f),
         NEW r, NEW b, NEW y
  PROVE  NodeGiven(InsertHelper(k, r, b, y), h, z, s, e, f)
<1> DEFINE g == InsertHelper(k, r, b, y)
<1>1. HeapDom(k)
  BY DEF NodeGiven
<1>2. SameData(g, k)
  BY <1>1, InsertHelperData
<1> HIDE DEF g
<1>3. HeapDom(g) /\ NodesSame(g, k)
  BY <1>2, SameDataNodes DEF SameData
<1>4. /\ \A n \in Node : Region1(g, n) = Region1(k, n)
      /\ LiveOf(g) = LiveOf(k)
  BY <1>3, NodesSameLive
<1>5. NodeGiven(g, h, z, s, e, f)
  BY <1>3, <1>4 DEF NodeGiven
<1> QED BY <1>5 DEF g

\* A step of sp_tree_find_mod_and_lock that returns the page's node
LEMMA TableModReturn ==
  ASSUME IInv, IInv', Asked, pc = "run", op = "mod", NEW n \in LiveOf(heap'),
         ReturnNode(n), Has(heap', n, vm_addr), Modified(heap', heap, vm_addr)
  PROVE  Asked' /\ TableStep
<1>1. op' = "none" /\ vm_addr \in Address
  BY DEF ReturnNode, Return, Continue, Asked
<1>2. InTable = LiveOf(heap) /\ InTable' = LiveOf(heap')
  BY <1>1 DEF InTable
<1>3. Table!Modify
  BY <1>1, <1>2, ModifyIs
<1> QED BY <1>2, <1>3, TableFind

\* and one that goes on: it knows the page's node.
LEMMA TableModOn ==
  ASSUME IInv, IInv', Asked, pc = "run", op = "mod", op' \in {"new_prev", "migrate"},
         UNCHANGED <<vm_addr, found>>, Modified(heap', heap, vm_addr)
  PROVE  TableStep
<1>1. vm_addr \in Address /\ found = Null
  BY DEF Asked
<1>2. InTable = LiveOf(heap) /\ InTable' = LiveOf(heap')
  BY DEF InTable
<1>3. Table!Modify
  BY <1>1, <1>2, ModifyIs
<1>4. UNCHANGED FoundRegion /\ vm_addr # Null
  BY <1>1, Addresses DEF FoundRegion
<1> QED BY <1>3, <1>4 DEF TableStep, Table!Next, Table!Return, FoundRegion

\* The page's node has the page.
LEMMA PageOf ==
  ASSUME NEW g, NEW z, NEW p \in Nat, NEW f,
         Region1(g, z) = [start |-> p, end |-> p + 1, flags |-> f]
  PROVE  IsPage(g, z, p) /\ Has(g, z, p) /\ g.vm_flags[z] = f
<1>1. g.vm_start[z] = p /\ g.vm_end[z] = p + 1 /\ g.vm_flags[z] = f
  BY DEF Region1
<1> QED BY <1>1 DEF IsPage, Has

\* The page in an empty tree
LEMMA TableFirstNode ==
  ASSUME IInv, IInv', Asked, FirstNode
  PROVE  Asked' /\ TableStep
<1> DEFINE z == Fresh({})
           k == NodeInit(heap, z, vm_addr, vm_addr + 1, READ)
<1>1. pc = "run" /\ op = "mod" /\ root = Null /\ heap' = k /\ ReturnNode(z)
  BY DEF FirstNode
<1>2. /\ vm_addr \in Page /\ vm_addr \in Nat /\ LiveOf(heap) = {}
      /\ Typed(heap) /\ Ranges(heap, "faults")
  BY <1>1, RunMod DEF Fine
<1>3. z \in Node \ LiveOf(heap)
  BY <1>2, FreshPage
<1> HIDE DEF z
<1>4. NodeGiven(k, heap, z, vm_addr, vm_addr + 1, READ)
  <2>1. vm_addr + 1 \in Nat /\ vm_addr < vm_addr + 1 /\ HeapDom(heap)
    BY <1>2 DEF Typed
  <2> QED BY <1>2, <1>3, <2>1, NodeGivenInit
<1> HIDE DEF k
<1>5. /\ IsPage(k, z, vm_addr) /\ Has(k, z, vm_addr) /\ k.vm_flags[z] = READ
      /\ LiveOf(k) = LiveOf(heap) \cup {z}
  BY <1>2, <1>4, PageOf DEF NodeGiven
<1>6. Modified(k, heap, vm_addr)
  BY <1>2, <1>3, <1>5, ModifiedNew
<1> QED BY <1>1, <1>5, <1>6, TableModReturn

\* The page in no region: its node is there, and its neighbours come next.
LEMMA TableNewNode ==
  ASSUME IInv, IInv', Asked, NewNode
  PROVE  Asked' /\ TableStep
<1> DEFINE z == Fresh({})
           k == NodeInit(heap, z, vm_addr, vm_addr + 1, READ)
           g == InsertHelper(k, root, t, z)
<1>1. /\ pc = "run" /\ op = "mod" /\ Target = Null /\ aborted' = FALSE
  BY DEF NewNode, IInv, Types
<1>2. /\ heap' = g /\ pc' = "run" /\ Continue("new_prev", z) /\ UNCHANGED <<vm_addr, found>>
  BY <1>1 DEF NewNode, Abort
<1>3. /\ vm_addr \in Page /\ vm_addr \in Nat /\ Typed(heap) /\ Ranges(heap, "faults")
      /\ Apart(heap)
  BY <1>1, RunMod DEF Fine
<1>4. z \in Node \ LiveOf(heap)
  <2>1. \A x \in LiveOf(heap) : heap.vm_start[x] # vm_addr
    <3>1. \A x \in LiveOf(heap) : ~(heap.vm_start[x] <= vm_addr /\ vm_addr < heap.vm_end[x])
      BY <1>1, TargetNone DEF Holds, Start, End
    <3> QED BY <1>3, <3>1, LiveFacts
  <2> QED BY <1>3, <2>1, FreshPage
<1> HIDE DEF z
<1>5. NodeGiven(k, heap, z, vm_addr, vm_addr + 1, READ)
  <2>1. vm_addr + 1 \in Nat /\ vm_addr < vm_addr + 1 /\ HeapDom(heap)
    BY <1>3 DEF Typed
  <2> QED BY <1>3, <1>4, <2>1, NodeGivenInit
<1> HIDE DEF k
<1>6. NodeGiven(g, heap, z, vm_addr, vm_addr + 1, READ)
  BY <1>4, <1>5, NodeGivenInsert
<1> HIDE DEF g
<1>7. /\ IsPage(g, z, vm_addr) /\ Has(g, z, vm_addr) /\ g.vm_flags[z] = READ
      /\ LiveOf(g) = LiveOf(heap) \cup {z}
      /\ \A n \in LiveOf(heap) : Region1(g, n) = Region1(heap, n)
  <2>1. \A n \in LiveOf(heap) : n \in Node /\ n # z
    BY <1>4 DEF LiveOf
  <2> QED BY <1>3, <1>6, <2>1, PageOf DEF NodeGiven
<1>8. Modified(g, heap, vm_addr)
  BY <1>3, <1>4, <1>7, ModifiedNew
<1>9. op' = "new_prev" /\ cur' = z
  BY <1>2 DEF Continue
<1>10. TableStep
  BY <1>1, <1>2, <1>8, <1>9, TableModOn
<1>11. Asked'
  BY <1>1, <1>2, <1>7, <1>9 DEF Asked
<1> QED BY <1>10, <1>11

\* The page at an edge of the region of n, of which h has the rest, gets a node.
LEMMA TableSplitOff ==
  ASSUME IInv, IInv', Asked, pc = "run", op = "mod", NEW h, SplitOff(h),
         NEW n \in LiveOf(heap), Has(heap, n, vm_addr),
         Typed(h), Ranges(h, "faults"), LiveOf(h) = LiveOf(heap),
         \A x \in LiveOf(h) : ~(h.vm_start[x] <= vm_addr /\ vm_addr < h.vm_end[x]),
         \A m \in Node : m # n => Region1(h, m) = Region1(heap, m),
         h.vm_flags[n] = heap.vm_flags[n],
         \A a \in Nat : a # vm_addr => (Has(heap, n, a) <=> Has(h, n, a))
  PROVE  Asked' /\ TableStep
<1> DEFINE z == Fresh({})
           k(f) == NodeInit(h, z, vm_addr, vm_addr + 1, f)
           g(f) == InsertHelper(k(f), root, root, z)
<1>1. PICK f \in Flag :
        IF InsertFails(k(f), root, root, z) THEN Abort
        ELSE heap' = g(f) /\ root' = z /\ ReturnNode(z) /\ UNCHANGED aborted
  BY DEF SplitOff
<1>2. heap' = g(f) /\ ReturnNode(z)
  BY <1>1 DEF Abort, IInv, Types
<1>3. vm_addr \in Page /\ vm_addr \in Nat /\ Apart(h)
  BY RunMod DEF Ranges
<1>4. z \in Node \ LiveOf(h)
  <2>1. \A x \in LiveOf(h) : h.vm_start[x] # vm_addr
    BY <1>3, LiveFacts
  <2> QED BY <1>3, <2>1, FreshPage
<1> HIDE DEF z
<1>5. NodeGiven(k(f), h, z, vm_addr, vm_addr + 1, f)
  <2>1. vm_addr + 1 \in Nat /\ vm_addr < vm_addr + 1 /\ HeapDom(h)
    BY <1>3 DEF Typed
  <2> QED BY <1>3, <1>4, <2>1, NodeGivenInit
<1> HIDE DEF k
<1>6. NodeGiven(g(f), h, z, vm_addr, vm_addr + 1, f)
  BY <1>4, <1>5, NodeGivenInsert
<1> HIDE DEF g
<1>7. /\ IsPage(g(f), z, vm_addr) /\ Has(g(f), z, vm_addr)
      /\ LiveOf(g(f)) = LiveOf(heap) \cup {z}
      /\ \A m \in LiveOf(heap) : Region1(g(f), m) = Region1(h, m)
  <2>1. \A m \in LiveOf(heap) : m \in Node /\ m # z
    BY <1>4 DEF LiveOf
  <2> QED BY <1>3, <1>6, <2>1, PageOf DEF NodeGiven
<1>8. \A m \in LiveOf(heap) \ {n} : Region1(g(f), m) = Region1(heap, m)
  BY <1>7 DEF LiveOf
<1>9. /\ g(f).vm_flags[n] = heap.vm_flags[n]
      /\ \A a \in Nat : a # vm_addr => (Has(heap, n, a) <=> Has(g(f), n, a))
  BY <1>7 DEF Region1, Has
<1>10. Modified(g(f), heap, vm_addr)
  <2> DEFINE Y == {}
  <2>1. /\ LiveOf(g(f)) = LiveOf(heap) \cup {z} \cup Y /\ z \notin LiveOf(heap)
        /\ \A m \in Y : m \notin LiveOf(heap)
        /\ \A m \in {n} \cup Y : g(f).vm_flags[m] = heap.vm_flags[n]
        /\ \A a \in Nat : a # vm_addr =>
             (Has(heap, n, a) <=> \E m \in {n} \cup Y : Has(g(f), m, a))
    BY <1>4, <1>7, <1>9
  <2> HIDE DEF Y
  <2> QED BY <1>3, <1>7, <1>8, <2>1, ModifiedSplit
<1>11. z \in LiveOf(heap')
  BY <1>2, <1>7
<1> QED BY <1>2, <1>7, <1>10, <1>11, TableModReturn

\* The page goes from n to m, which is then splayed.
LEMMA TableMigrate ==
  ASSUME IInv, IInv', Asked, pc = "run", op = "mod", NEW h, NEW m, Migrate(m, h),
         NEW n \in LiveOf(heap), Has(heap, n, vm_addr),
         m \in LiveOf(heap), Has(h, m, vm_addr), LiveOf(h) = LiveOf(heap),
         \A x \in LiveOf(heap) :
           /\ h.vm_flags[x] = heap.vm_flags[x]
           /\ \A a \in Nat : a # vm_addr => (Has(h, x, a) <=> Has(heap, x, a))
  PROVE  Asked' /\ TableStep
<1>1. /\ heap' = h /\ op' = "migrate" /\ key' = h.vm_start[m]
      /\ UNCHANGED <<vm_addr, found>>
  BY DEF Migrate, Splay
<1>2. vm_addr \in Nat
  BY RunMod
<1>3. Modified(heap', heap, vm_addr)
  BY <1>1, <1>2, ModifiedMoved
<1>4. TableStep
  BY <1>1, <1>3, TableModOn
<1>5. Asked'
  BY <1>1 DEF Asked, Merges
<1> QED BY <1>4, <1>5

\* What changes with the range of one node
LEMMA RangeSetNodes ==
  ASSUME NEW g, NEW h, NEW n \in Node, NEW v, NEW f \in {"vm_start", "vm_end"},
         FieldSet(g, h, f, n, v)
  PROVE  /\ \A m \in Node : m # n => Region1(g, m) = Region1(h, m)
         /\ g.vm_flags = h.vm_flags
<1>1. "vm_flags" \in Field /\ "vm_flags" # f
  BY DEF Field, Data
<1>2. g["vm_flags"] = h["vm_flags"]
  BY <1>1 DEF FieldSet
<1>3. \A x \in Node : x # n => g.vm_start[x] = h.vm_start[x] /\ g.vm_end[x] = h.vm_end[x]
  BY FieldRange DEF RangeSet
<1> QED BY <1>2, <1>3 DEF Region1

\* The first page of a region becomes one, or the last of the region before.
LEMMA TableFirstPage ==
  ASSUME IInv, IInv', Asked, NEW n, FirstPage(n)
  PROVE  Asked' /\ TableStep
<1> DEFINE g == [heap EXCEPT !.vm_start[n] = vm_addr + 1]
           m == heap.vm_prev[n]
           h == GiveToPrev(n)
           a == vm_addr
<1>1. /\ AtTarget(n, TRUE, FALSE)
      /\ \/ Touch(Prev(n), n) /\ Migrate(Prev(n), h)
         \/ SplitOff(g)
  BY DEF FirstPage
<1>2. /\ pc = "run" /\ op = "mod" /\ n \in LiveOf(heap)
      /\ heap.vm_start[n] = a /\ a < heap.vm_end[n] /\ heap.vm_end[n] \in Nat
  <2>1. /\ pc = "run" /\ op = "mod" /\ n \in LiveOf(heap)
        /\ a < heap.vm_end[n] /\ heap.vm_end[n] \in Nat
        /\ TRUE = (heap.vm_start[n] = a)
    BY <1>1, TargetRoot
  <2> QED BY <2>1
<1>3. /\ a \in Nat /\ n \in Node /\ Typed(heap) /\ Apart(heap)
      /\ Listed(heap, LiveOf(heap)) /\ LiveOf(heap) \subseteq Node /\ Null \notin LiveOf(heap)
  BY <1>2, RunMod, MembersIn, Constants DEF Fine
<1>4. FieldSet(g, heap, "vm_start", n, a + 1)
  <2>1. a + 1 \in Nat
    BY <1>3
  <2> QED BY <1>3, <2>1, StartSet
<1>0. h = [g EXCEPT !.vm_end[m] = a + 1]
  BY DEF GiveToPrev, Prev
<1> HIDE DEF g, h
<1>5. RangeSet(g, heap, n) /\ g.vm_start[n] = a + 1 /\ g.vm_end = heap.vm_end
  BY <1>3, <1>4, FieldRange
<1>6. /\ LiveOf(g) = LiveOf(heap) /\ Typed(g) /\ Ranges(g, "faults")
      /\ \A x \in LiveOf(g) : ~(g.vm_start[x] <= vm_addr /\ vm_addr < g.vm_end[x])
  <2>1. g.vm_end[n] = heap.vm_end[n]
    BY <1>5
  <2>2. /\ LiveOf(g) = LiveOf(heap) /\ Fine(g, n, LiveOf(g)) /\ Ranges(g, "faults")
        /\ \A x \in LiveOf(g) : ~(g.vm_start[x] <= vm_addr /\ vm_addr < g.vm_end[x])
    BY <1>1, <1>5, <2>1, Shrunk
  <2> QED BY <2>2 DEF Fine
<1>7. /\ \A x \in Node : x # n => Region1(g, x) = Region1(heap, x)
      /\ g.vm_flags = heap.vm_flags
  BY <1>3, <1>4, RangeSetNodes
<1>8. \A y \in Nat : y # a => (Has(heap, n, y) <=> Has(g, n, y))
  <2> SUFFICES ASSUME NEW y \in Nat, y # a
               PROVE  a <= y <=> a + 1 <= y
    BY <1>2, <1>5 DEF Has
  <2> QED BY <1>3
<1>9. Has(heap, n, a)
  BY <1>2, <1>3 DEF Has
<1>10. CASE SplitOff(g)
  BY <1>2, <1>6, <1>7, <1>8, <1>9, <1>10, TableSplitOff
<1>11. CASE Touch(Prev(n), n) /\ Migrate(Prev(n), h)
  <2>1. m \in LiveOf(heap) /\ m # n /\ heap.vm_end[m] = a /\ heap.vm_start[m] < a
    BY <1>2, <1>3, <1>11, TouchNeighbour DEF Prev
  <2>2. m \in Node /\ a + 1 \in Nat /\ heap.vm_start[m] \in Nat
    BY <1>3, <2>1, LiveFacts
  <2>3. FieldSet(h, g, "vm_end", m, a + 1)
    BY <1>0, <1>6, <2>2, EndSet
  <2>4. h.vm_end[m] = a + 1 /\ h.vm_start = g.vm_start
    BY <2>2, <2>3, FieldRange
  <2>5. /\ \A x \in Node : x # m => Region1(h, x) = Region1(g, x)
        /\ h.vm_flags = g.vm_flags
    BY <2>2, <2>3, RangeSetNodes
  <2>6. g.vm_start[m] = heap.vm_start[m] /\ h.vm_start[m] = heap.vm_start[m]
    BY <1>7, <2>1, <2>2, <2>4 DEF Region1
  <2>7. Has(h, m, a)
    <3> DEFINE s == heap.vm_start[m]
    <3> HIDE DEF s
    <3>1. s <= a /\ a < a + 1
      BY <1>3, <2>1, <2>2 DEF s
    <3> QED BY <2>4, <2>6, <3>1 DEF Has, s
  <2>8. ASSUME NEW x \in LiveOf(heap), NEW y \in Nat, y # a
        PROVE  Has(h, x, y) <=> Has(heap, x, y)
    <3>1. CASE x = m
      <4>1. y < a + 1 <=> y < a
        BY <1>3, <2>8
      <4> QED BY <2>1, <2>4, <2>6, <3>1, <4>1 DEF Has
    <3>2. CASE x = n
      <4>1. Region1(h, n) = Region1(g, n)
        BY <1>3, <2>1, <2>5
      <4>2. Has(h, n, y) <=> Has(g, n, y)
        BY <4>1 DEF Has, Region1
      <4> QED BY <1>8, <2>8, <3>2, <4>2
    <3>3. CASE x # m /\ x # n
      <4>1. Region1(h, x) = Region1(heap, x)
        BY <1>3, <1>7, <2>5, <3>3
      <4> QED BY <4>1 DEF Has, Region1
    <3> QED BY <3>1, <3>2, <3>3
  <2>9. LiveOf(h) = LiveOf(heap)
    <3>1. \A x \in Node : x # m => (x \in LiveOf(h) <=> x \in LiveOf(g))
      BY <2>5 DEF LiveOf, Region1
    <3>2. m \in LiveOf(h)
      <4> DEFINE s == heap.vm_start[m]
      <4> HIDE DEF s
      <4>1. s < a + 1
        BY <1>3, <2>1, <2>2 DEF s
      <4> QED BY <2>2, <2>4, <2>6, <4>1 DEF LiveOf, s
    <3>3. LiveOf(h) \subseteq Node
      BY DEF LiveOf
    <3> QED BY <1>3, <1>6, <2>1, <3>1, <3>2, <3>3
  <2>10. Migrate(m, h)
    BY <1>11 DEF Prev
  <2>11. \A x \in LiveOf(heap) : h.vm_flags[x] = heap.vm_flags[x]
    BY <1>7, <2>5
  <2> HIDE DEF m
  <2> QED BY <1>2, <1>9, <2>1, <2>7, <2>8, <2>9, <2>10, <2>11, TableMigrate
<1> QED BY <1>1, <1>10, <1>11

\* The last page of a region becomes one, or the first of the region after.
LEMMA TableLastPage ==
  ASSUME IInv, IInv', Asked, NEW n, LastPage(n)
  PROVE  Asked' /\ TableStep
<1> DEFINE g == [heap EXCEPT !.vm_end[n] = vm_addr]
           m == heap.vm_next[n]
           h == GiveToNext(n)
           a == vm_addr
<1>1. /\ AtTarget(n, FALSE, TRUE)
      /\ \/ Touch(n, Succ(n)) /\ Migrate(Succ(n), h)
         \/ SplitOff(g)
  BY DEF LastPage
<1>2. /\ pc = "run" /\ op = "mod" /\ n \in LiveOf(heap)
      /\ heap.vm_start[n] <= a /\ heap.vm_start[n] \in Nat
      /\ heap.vm_end[n] = a + 1
  <2>1. /\ pc = "run" /\ op = "mod" /\ n \in LiveOf(heap)
        /\ heap.vm_start[n] <= a /\ heap.vm_start[n] \in Nat
        /\ TRUE = (heap.vm_end[n] = a + 1)
    BY <1>1, TargetRoot
  <2> QED BY <2>1
<1>3. /\ a \in Nat /\ n \in Node /\ Typed(heap) /\ Apart(heap)
      /\ Listed(heap, LiveOf(heap)) /\ LiveOf(heap) \subseteq Node /\ Null \notin LiveOf(heap)
  BY <1>2, RunMod, MembersIn, Constants DEF Fine
<1>4. FieldSet(g, heap, "vm_end", n, a)
  BY <1>3, EndSet
<1>0. h = [g EXCEPT !.vm_start[m] = a]
  BY DEF GiveToNext, Succ
<1> HIDE DEF g, h
<1>5. RangeSet(g, heap, n) /\ g.vm_end[n] = a /\ g.vm_start = heap.vm_start
  BY <1>3, <1>4, FieldRange
<1>6. /\ LiveOf(g) = LiveOf(heap) /\ Typed(g) /\ Ranges(g, "faults")
      /\ \A x \in LiveOf(g) : ~(g.vm_start[x] <= vm_addr /\ vm_addr < g.vm_end[x])
  <2>1. g.vm_start[n] = heap.vm_start[n]
    BY <1>5
  <2>2. /\ LiveOf(g) = LiveOf(heap) /\ Fine(g, n, LiveOf(g)) /\ Ranges(g, "faults")
        /\ \A x \in LiveOf(g) : ~(g.vm_start[x] <= vm_addr /\ vm_addr < g.vm_end[x])
    BY <1>1, <1>5, <2>1, Shrunk
  <2> QED BY <2>2 DEF Fine
<1>7. /\ \A x \in Node : x # n => Region1(g, x) = Region1(heap, x)
      /\ g.vm_flags = heap.vm_flags
  BY <1>3, <1>4, RangeSetNodes
<1>8. \A y \in Nat : y # a => (Has(heap, n, y) <=> Has(g, n, y))
  <2> SUFFICES ASSUME NEW y \in Nat, y # a
               PROVE  y < a + 1 <=> y < a
    BY <1>2, <1>5 DEF Has
  <2> QED BY <1>3
<1>9. Has(heap, n, a)
  BY <1>2, <1>3 DEF Has
<1>10. CASE SplitOff(g)
  BY <1>2, <1>6, <1>7, <1>8, <1>9, <1>10, TableSplitOff
<1>11. CASE Touch(n, Succ(n)) /\ Migrate(Succ(n), h)
  <2>1. m \in LiveOf(heap) /\ m # n /\ heap.vm_start[m] = a + 1
    BY <1>2, <1>3, <1>11, TouchNeighbour DEF Succ
  <2>2. m \in Node /\ heap.vm_end[m] \in Nat /\ a + 1 < heap.vm_end[m]
    BY <1>3, <2>1, LiveFacts
  <2>3. FieldSet(h, g, "vm_start", m, a)
    BY <1>0, <1>3, <1>6, <2>2, StartSet
  <2>4. h.vm_start[m] = a /\ h.vm_end = g.vm_end
    BY <2>2, <2>3, FieldRange
  <2>5. /\ \A x \in Node : x # m => Region1(h, x) = Region1(g, x)
        /\ h.vm_flags = g.vm_flags
    BY <2>2, <2>3, RangeSetNodes
  <2>6. h.vm_end[m] = heap.vm_end[m]
    BY <1>7, <2>1, <2>2, <2>4 DEF Region1
  <2>7. Has(h, m, a) /\ h.vm_start[m] < h.vm_end[m]
    <3> DEFINE e == heap.vm_end[m]
    <3> HIDE DEF e
    <3>1. a <= a /\ a < e
      BY <1>3, <2>2 DEF e
    <3> QED BY <2>4, <2>6, <3>1 DEF Has, e
  <2>8. ASSUME NEW x \in LiveOf(heap), NEW y \in Nat, y # a
        PROVE  Has(h, x, y) <=> Has(heap, x, y)
    <3>1. CASE x = m
      <4>1. a <= y <=> a + 1 <= y
        BY <1>3, <2>8
      <4> QED BY <2>1, <2>4, <2>6, <3>1, <4>1 DEF Has
    <3>2. CASE x = n
      <4>1. Region1(h, n) = Region1(g, n)
        BY <1>3, <2>1, <2>5
      <4>2. Has(h, n, y) <=> Has(g, n, y)
        BY <4>1 DEF Has, Region1
      <4> QED BY <1>8, <2>8, <3>2, <4>2
    <3>3. CASE x # m /\ x # n
      <4>1. Region1(h, x) = Region1(heap, x)
        BY <1>3, <1>7, <2>5, <3>3
      <4> QED BY <4>1 DEF Has, Region1
    <3> QED BY <3>1, <3>2, <3>3
  <2>9. LiveOf(h) = LiveOf(heap)
    <3>1. \A x \in Node : x # m => (x \in LiveOf(h) <=> x \in LiveOf(g))
      BY <2>5 DEF LiveOf, Region1
    <3>2. m \in LiveOf(h)
      BY <2>2, <2>7 DEF LiveOf
    <3>3. LiveOf(h) \subseteq Node
      BY DEF LiveOf
    <3> QED BY <1>3, <1>6, <2>1, <3>1, <3>2, <3>3
  <2>10. Migrate(m, h)
    BY <1>11 DEF Succ
  <2>11. \A x \in LiveOf(heap) : h.vm_flags[x] = heap.vm_flags[x]
    BY <1>7, <2>5
  <2> HIDE DEF m
  <2> QED BY <1>2, <1>9, <2>1, <2>7, <2>8, <2>9, <2>10, <2>11, TableMigrate
<1> QED BY <1>1, <1>10, <1>11

\* A page in the middle of a region: the three parts have what the region had.
LEMMA TableMidSplit ==
  ASSUME IInv, IInv', Asked, NEW n, MidSplit(n)
  PROVE  Asked' /\ TableStep
<1> DEFINE L   == LiveOf(heap)
           a   == vm_addr
           e   == heap.vm_end[n]
           q   == heap.vm_flags[n]
           z   == Fresh({})
           y   == Fresh({z})
           h1  == NodeInit(heap, z, a, a + 1, Promote(q))
           h2  == NodeInit(h1, y, a + 1, e, q)
           h3  == [h2 EXCEPT !.vm_end[n] = a]
           h4  == InsertHelper(h3, root, root, y)
           g   == InsertHelper(h4, y, y, z)
<1>1. /\ AtTarget(n, FALSE, FALSE) /\ aborted' = FALSE
      /\ Abort \/ (heap' = g /\ ReturnNode(z))
  BY DEF MidSplit, End, Flags, IInv, Types
<1>2. heap' = g /\ ReturnNode(z)
  BY <1>1 DEF Abort
<1>3. /\ pc = "run" /\ op = "mod" /\ n \in L
      /\ heap.vm_start[n] \in Nat /\ heap.vm_start[n] < a /\ a + 1 < e /\ e \in Nat
      /\ a \in Nat /\ a + 1 \in Nat /\ a < a + 1
  <2>1. /\ pc = "run" /\ op = "mod" /\ n \in L
        /\ heap.vm_start[n] <= a /\ heap.vm_start[n] \in Nat
        /\ a < e /\ e \in Nat
        /\ FALSE = (heap.vm_start[n] = a) /\ FALSE = (e = a + 1)
    BY <1>1, TargetRoot
  <2>2. a \in Nat
    BY <2>1, RunMod
  <2> QED BY <2>1, <2>2
<1>4. Typed(heap) /\ HeapDom(heap) /\ L \subseteq Node /\ n \in Node /\ Node \subseteq Slot
  BY <1>3, RunMod, MembersIn, Constants DEF Fine, Typed
<1>5. q \in Flag /\ Promote(q) \in Flag
  <2>1. q \in Flag
    BY <1>4, FlagsOf
  <2> QED BY <2>1, FlagIs
<1>6. z \in Node \ L /\ y \in Node \ L /\ y # z
  BY <1>1, FreshTwo
<1> HIDE DEF z, y
<1>7. NodeGiven(h1, heap, z, a, a + 1, Promote(q)) /\ Typed(h1)
  <2>1. NodeGiven(h1, heap, z, a, a + 1, Promote(q))
    BY <1>3, <1>4, <1>6, NodeGivenInit
  <2>2. z \in Slot
    BY <1>4, <1>6
  <2>3. Typed(h1)
    BY <1>3, <1>4, <1>5, <2>2, NodeInitIs
  <2> QED BY <2>1, <2>3
<1> HIDE DEF h1
<1>8. NodeGiven(h2, h1, y, a + 1, e, q) /\ Typed(h2)
  <2>1. HeapDom(h1) /\ y \in Slot
    BY <1>4, <1>6, <1>7 DEF NodeGiven
  <2>2. NodeGiven(h2, h1, y, a + 1, e, q)
    BY <1>3, <1>6, <2>1, NodeGivenInit
  <2>3. Typed(h2)
    BY <1>3, <1>5, <1>7, <2>1, NodeInitIs
  <2> QED BY <2>2, <2>3
<1> HIDE DEF h2
<1>9. FieldSet(h3, h2, "vm_end", n, a)
  BY <1>3, <1>4, <1>8, EndSet
<1> HIDE DEF h3
<1>10. /\ h3.vm_end[n] = a /\ h3.vm_start = h2.vm_start /\ h3.vm_flags = h2.vm_flags
       /\ \A m \in Node : m # n => Region1(h3, m) = Region1(h2, m)
  <2>1. h3.vm_end[n] = a /\ h3.vm_start = h2.vm_start
    BY <1>4, <1>9, FieldRange
  <2>2. /\ \A m \in Node : m # n => Region1(h3, m) = Region1(h2, m)
        /\ h3.vm_flags = h2.vm_flags
    BY <1>4, <1>9, RangeSetNodes
  <2> QED BY <2>1, <2>2
<1>11. HeapDom(h3)
  BY <1>9 DEF FieldSet, Typed
<1>12. SameData(h4, h3)
  BY <1>11, InsertHelperData
<1> HIDE DEF h4
<1>13. SameData(g, h4)
  <2>1. HeapDom(h4)
    BY <1>12 DEF SameData
  <2> QED BY <2>1, InsertHelperData
<1> HIDE DEF g
<1>14. NodesSame(g, h3)
  <2>1. SameData(g, h3)
    BY <1>12, <1>13, SameDataTwice
  <2> QED BY <2>1, SameDataNodes
<1>15. LiveOf(g) = LiveOf(h3) /\ \A m \in Node : Region1(g, m) = Region1(h3, m)
  BY <1>14, NodesSameLive
<1>16. n # z /\ n # y
  BY <1>3, <1>6
<1>17. \A m \in Node : m # n /\ m # z /\ m # y => Region1(g, m) = Region1(heap, m)
  BY <1>7, <1>8, <1>10, <1>15 DEF NodeGiven
<1>18. /\ Region1(g, z) = [start |-> a, end |-> a + 1, flags |-> Promote(q)]
       /\ Region1(g, y) = [start |-> a + 1, end |-> e, flags |-> q]
  <2>1. Region1(h2, z) = Region1(h1, z) /\ Region1(h3, z) = Region1(h2, z)
        /\ Region1(h3, y) = Region1(h2, y)
    BY <1>6, <1>8, <1>10, <1>16 DEF NodeGiven
  <2> QED BY <1>6, <1>7, <1>8, <1>15, <2>1 DEF NodeGiven
<1>19. g.vm_start[n] = heap.vm_start[n] /\ g.vm_end[n] = a /\ g.vm_flags[n] = q
  <2>1. Region1(h2, n) = Region1(heap, n)
    BY <1>4, <1>7, <1>8, <1>16 DEF NodeGiven
  <2>2. h3.vm_start[n] = heap.vm_start[n] /\ h3.vm_flags[n] = q
    BY <1>10, <2>1 DEF Region1
  <2> QED BY <1>4, <1>10, <1>14, <2>2 DEF NodesSame
<1>20. IsPage(g, z, a) /\ Has(g, z, a)
  BY <1>3, <1>18, PageOf
<1>21. g.vm_start[y] = a + 1 /\ g.vm_end[y] = e /\ g.vm_flags[y] = q
  BY <1>18 DEF Region1
<1>22. LiveOf(g) = L \cup {z} \cup {y}
  <2>1. \A m \in Node : m # n /\ m # z /\ m # y => (m \in LiveOf(g) <=> m \in L)
    BY <1>17 DEF LiveOf, Region1
  <2>2. n \in LiveOf(g) /\ y \in LiveOf(g)
    BY <1>3, <1>4, <1>6, <1>19, <1>21 DEF LiveOf
  <2>3. z \in LiveOf(g)
    BY <1>3, <1>6, <1>20 DEF LiveOf, IsPage
  <2>4. LiveOf(g) \subseteq Node
    BY DEF LiveOf
  <2> QED BY <1>3, <1>4, <1>6, <2>1, <2>2, <2>3, <2>4
<1>23. ASSUME NEW x \in Nat, x # a
       PROVE  Has(heap, n, x) <=> \E m \in {n} \cup {y} : Has(g, m, x)
  <2> DEFINE s == heap.vm_start[n]
  <2>1. s <= x /\ x < e <=> (s <= x /\ x < a) \/ (a + 1 <= x /\ x < e)
    <3> HIDE DEF s, e
    <3> QED BY <1>3, <1>23 DEF s
  <2>2. Has(heap, n, x) <=> Has(g, n, x) \/ Has(g, y, x)
    BY <1>19, <1>21, <2>1 DEF Has
  <2> QED BY <2>2
<1>24. Modified(g, heap, a)
  <2>1. Has(heap, n, a)
    <3> DEFINE s == heap.vm_start[n]
    <3> HIDE DEF s, e
    <3>1. s <= a /\ a < e
      BY <1>3 DEF s
    <3> QED BY <3>1 DEF Has, s, e
  <2>2. \A m \in L \ {n} : Region1(g, m) = Region1(heap, m)
    BY <1>4, <1>6, <1>17
  <2> DEFINE Y == {y}
  <2>3. /\ LiveOf(g) = L \cup {z} \cup Y /\ z \notin L /\ \A m \in Y : m \notin L
        /\ \A m \in {n} \cup Y : g.vm_flags[m] = heap.vm_flags[n]
    BY <1>6, <1>19, <1>21, <1>22
  <2>4. \A x \in Nat : x # a =>
          (Has(heap, n, x) <=> \E m \in {n} \cup Y : Has(g, m, x))
    BY <1>23
  <2> HIDE DEF Y, e, q
  <2> QED BY <1>3, <1>20, <2>1, <2>2, <2>3, <2>4, ModifiedSplit
<1>25. z \in LiveOf(heap')
  BY <1>2, <1>22
<1> QED BY <1>2, <1>3, <1>20, <1>24, <1>25, TableModReturn

-----------------------------------------------------------------------------
(* That SplayTree implements PageTable                                     *)

\* A step of the program is one of the page table, or is not seen there; what an
\* operation knows of its page stays true.
LEMMA NextTable ==
  ASSUME Uses \subseteq {"regions", "faults"}, IInv, Asked, [Next]_vars
  PROVE  Asked' /\ TableStep
<1>0. IInv'
  BY NextIInv
<1>1. CASE UNCHANGED vars
  <2>1. UNCHANGED <<heap, root, pc, op, vm_addr, key, t, hook, victim, cur, after, found>>
    BY <1>1 DEF vars, locals
  <2>2. Asked'
    BY <2>1 DEF Asked, AskedJoin, Has, IsPage, LiveOf
  <2>3. InTable' = InTable
    BY <2>1 DEF InTable, LiveOf
  <2>4. Extents' = Extents
    BY <1>0, <2>1, <2>3, ExtentsKept
  <2>5. UNCHANGED FoundRegion
    BY <2>1 DEF FoundRegion, Extent, Start, End, Flags
  <2> QED BY <2>1, <2>2, <2>4, <2>5 DEF TableStep
<1>2. ASSUME NEW n \in Node, CallRemove(n) PROVE Asked' /\ TableStep
  <2>1. pc = "idle" /\ Enter("remove", Start(n)) /\ heap' = heap /\ n \in LiveOf(heap)
    <3>1. pc = "idle" /\ (n = root \/ n \in Nodes)
      BY <1>2 DEF CallRemove
    <3>2. n \in LiveOf(heap)
      BY <3>1, IdleNodes, IdleFacts, Constants
    <3> QED BY <1>2, <3>1, <3>2 DEF CallRemove
  <2>2. Start(n) \in Address
    BY <2>1, StartAddress DEF IInv, Types, Start
  <2> QED BY <1>0, <2>1, <2>2, TableCalls
<1>3. CASE Call
  <2>1. ASSUME NEW z \in Node, CallInsert(z) PROVE Asked' /\ TableStep
    BY <1>0, <2>1, TableCallInsert
  <2>2. CASE CallFind
    <3>1. PICK n \in Nodes : \E a \in Start(n) .. End(n) - 1 : Enter("find", a)
      BY <2>2 DEF CallFind
    <3>2. PICK a \in Start(n) .. End(n) - 1 : Enter("find", a)
      BY <3>1
    <3>3. n \in LiveOf(heap)
      BY <2>2, IdleNodes DEF CallFind
    <3>4. a \in Nat /\ Start(n) <= a /\ a < End(n)
      <4>1. Start(n) \in Nat /\ End(n) \in Nat
        BY <3>3, LiveFacts DEF IInv, Types, Ranges, Start, End
      <4> QED BY <4>1
    <3>5. a \in Address
      BY <3>3, <3>4, LiveAddress DEF Start, End, IInv, Types
    <3> QED BY <1>0, <2>2, <3>2, <3>5, TableCalls DEF CallFind
  <2>3. ASSUME NEW a \in Page, CallFindMod(a) PROVE Asked' /\ TableStep
    <3>1. a \in Address
      BY Addresses
    <3> QED BY <1>0, <2>3, <3>1, TableCalls DEF CallFindMod
  <2>4. CASE CallFree
    BY <1>0, <2>4, TableCallFree
  <2> QED BY <1>2, <1>3, <2>1, <2>2, <2>3, <2>4 DEF Call
<1>4. CASE Work
  <2>1. CASE Iterate
    BY <1>0, <2>1, TableIterate
  <2>2. CASE Assemble
    BY <1>0, <2>2, TableAssemble
  <2>3. CASE Insert
    BY <1>0, <2>3, TableInsert
  <2>4. CASE Remove
    BY <1>0, <2>4, TableRemove
  <2>5. CASE Join
    BY <1>0, <2>5, TableJoin
  <2>6. CASE Find
    BY <1>0, <2>6, TableFindStep
  <2>7. CASE FirstNode
    BY <1>0, <2>7, TableFirstNode
  <2>8. CASE NewNode
    BY <1>0, <2>8, TableNewNode
  <2>9. ASSUME NEW n \in Node, MidSplit(n) PROVE Asked' /\ TableStep
    BY <1>0, <2>9, TableMidSplit
  <2>10. ASSUME NEW n \in Node, FirstPage(n) PROVE Asked' /\ TableStep
    BY <1>0, <2>10, TableFirstPage
  <2>11. ASSUME NEW n \in Node, LastPage(n) PROVE Asked' /\ TableStep
    BY <1>0, <2>11, TableLastPage
  <2>12. ASSUME NEW n \in Node, OnlyPage(n) PROVE Asked' /\ TableStep
    BY <1>0, <2>12, TableOnlyPage
  <2>13. CASE Migrated
    BY <1>0, <2>13, TableMigrated
  <2>14. CASE NewPrev
    BY <1>0, <2>14, TableMergePrev DEF NewPrev
  <2>15. CASE OldPrev
    BY <1>0, <2>15, TableMergePrev DEF OldPrev
  <2>16. CASE NewNext
    BY <1>0, <2>16, TableNewNext
  <2>17. CASE OldNext
    BY <1>0, <2>17, TableOldNext
  <2>18. CASE FreeDone
    BY <1>0, <2>18, TableCallFree
  <2> QED BY <1>2, <1>4, <2>1, <2>2, <2>3, <2>4, <2>5, <2>6, <2>7, <2>8, <2>9, <2>10,
             <2>11, <2>12, <2>13, <2>14, <2>15, <2>16, <2>17, <2>18 DEF Work
<1> QED BY <1>1, <1>3, <1>4 DEF Next

\* There is no region at first.
LEMMA InitTable ==
  ASSUME Init, Uses \subseteq {"regions", "faults"}
  PROVE  Asked /\ Table!Init
<1>1. IInv
  BY InitIInv
<1>2. pc = "idle" /\ op = "none" /\ vm_addr = Null /\ found = Null
  BY DEF Init
<1>3. Asked
  BY <1>2 DEF Asked, Merges
<1>4. LiveOf(heap) = {}
  <2> SUFFICES ASSUME NEW n \in Node PROVE ~(heap.vm_start[n] < heap.vm_end[n])
    BY DEF LiveOf
  <2>1. heap["vm_start"][n] = 0 /\ heap["vm_end"][n] = 0
    BY DEF Init, Link, Side
  <2> QED BY <2>1
<1>5. InTable = {}
  BY <1>1, <1>2, <1>4, TableIdle
<1>6. Extents = {}
  BY <1>1, <1>5, ExtentsAre DEF Regions
<1> QED BY <1>2, <1>3, <1>6 DEF Table!Init

\* The calls and the returns of the splay tree are those of a table of regions
\* that do not overlap: insertion and removal of one region, a search that
\* returns the region that has the address, and a page's flags that change alone
\* (common.h:117-138), whatever the splays, splits and merges in between.
THEOREM ImplementsTable ==
  ASSUME Uses \subseteq {"regions", "faults"}
  PROVE  Spec => TableSpec
<1>1. Init => IInv /\ Asked /\ Table!Init
  BY InitIInv, InitTable
<1>2. IInv /\ Asked /\ [Next]_vars =>
        /\ IInv' /\ Asked'
        /\ [Table!Next]_<<Extents, vm_addr, IF found = Null THEN Null ELSE Extent(found)>>
  BY NextIInv, NextTable DEF TableStep, FoundRegion
<1> QED BY <1>1, <1>2, PTL DEF Spec, TableSpec, Table!Spec

=============================================================================
