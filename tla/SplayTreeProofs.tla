---------------------------- MODULE SplayTreeProofs ----------------------------
(***************************************************************************)
(* That the tree and the list of SplayTree stay what they are to be, for   *)
(* any number of nodes, by an inductive invariant of what is under each    *)
(* node at every moment of a splay, and of what each operation knows.      *)
(***************************************************************************)
EXTENDS SplayForest

-----------------------------------------------------------------------------
(* The invariant *)

\* The nodes with a range
LiveOf(h) == {n \in Node : h.vm_start[n] < h.vm_end[n]}

\* Their ranges do not overlap,
Apart(h) ==
  \A m, n \in LiveOf(h) :
    m # n => h.vm_end[m] <= h.vm_start[n] \/ h.vm_end[n] <= h.vm_start[m]

\* and are those of the program's regions, or have pages only.
Owned(h, u) ==
  \A n \in LiveOf(h) :
    IF u = "regions"
      THEN h.vm_start[n] = Region[n].start /\ h.vm_end[n] = Region[n].end
      ELSE \A a \in Nat : h.vm_start[n] <= a /\ a < h.vm_end[n] => a \in Page

Ranges(h, u) == Apart(h) /\ Owned(h, u)

\* The nodes that are to be in the tree: not one that is on its way in or out
Members == LiveOf(heap) \ ({victim} \cup IF op = "insert" THEN {cur} ELSE {})

\* Those of them in the tree that is splayed, and those a removal left aside
Here ==
  IF victim = Null THEN Members
  ELSE {n \in Members : On("sp_l", heap.vm_start[n], heap.vm_start[victim])}
Aside ==
  IF victim = Null THEN {}
  ELSE {n \in Members : On("sp_r", heap.vm_start[n], heap.vm_start[victim])}

HeaderHooks == [w \in Side |-> Header]

Types ==
  /\ use \in {"regions", "faults"}
  /\ Typed(heap)
  /\ vm_addr \in Address \cup {Null}
  /\ key \in Address \cup {Null}
  /\ root \in Node \cup {Null} /\ t \in Node \cup {Null}
  /\ victim \in Node \cup {Null} /\ cur \in Node \cup {Null}
  /\ found \in Node \cup {Null}
  /\ draining \in BOOLEAN
  /\ aborted = FALSE

MainTree ==
  IF pc = "splay"
    THEN \E D : Splaying(Seen(heap, hook), t, hook, key, Here, D)
    ELSE /\ \E D : Whole(heap, Top, Here, D)
         /\ hook = HeaderHooks
         /\ \A w \in Side : heap[w][Header] = Null
         /\ t # Null => Nearest(heap, t, key, Here) /\ heap.sp_p[t] = Null

SideTree == victim # Null => \E E : Whole(heap, heap.sp_r[victim], Aside, E)

\* No splay changes a thing for a page in the root, on a side of which nothing
\* is and to which no region is tied.
Quiet ==
  /\ t = root /\ root # Null /\ Holds(root, vm_addr)
  /\ \A w \in Side : On(w, vm_addr, heap.vm_start[root]) => heap[w][root] = Null
  /\ hook = HeaderHooks
  /\ Start(root) + 1 = End(root) => \A m \in Members : Start(m) # End(root)

\* An operation's first splay, and what follows it
First ==
  /\ pc # "idle" /\ victim = Null /\ after = "none"
  /\ vm_addr # Null /\ key = vm_addr
  /\ root = Null <=> t = Null
  /\ root \in Members \cup {Null}

\* What the operations know
AtNone ==
  /\ pc = "idle" /\ victim = Null /\ cur = Null /\ after = "none"
  /\ vm_addr = Null /\ key = Null /\ t = Null
  /\ root # Null => heap.sp_p[root] = Null
AtInsert ==
  /\ First /\ use = "regions" /\ cur \in LiveOf(heap) /\ key = Start(cur)
  /\ \A f \in Link : heap[f][cur] = Null
AtRemove ==
  /\ First /\ cur = Null
  /\ \E n \in Members : Start(n) = vm_addr
AtFind ==
  /\ First /\ cur = Null
  /\ \E n \in Members : Holds(n, vm_addr)
AtMod ==
  /\ First /\ cur = Null /\ use = "faults" /\ vm_addr \in Page
  /\ Quiet \/ \A n \in Members : ~Holds(n, vm_addr)
AtMigrate == pc # "idle" /\ victim = Null /\ cur = Null /\ after = "none" /\ t # Null
AtJoin ==
  /\ pc # "idle" /\ victim \in LiveOf(heap) /\ key = Start(victim)
  /\ \/ after = "removed" /\ cur = Null
     \/ /\ after \in {"new_next", "old_next"} /\ use = "faults"
        /\ cur \in Members /\ End(cur) = Start(victim)
        /\ after = "old_next" => \A m \in Members : Start(m) # End(victim)
     \/ /\ after = "found" /\ use = "faults"
        /\ cur \in Members /\ End(victim) = Start(cur)
AtMerge ==
  /\ pc = "run" /\ victim = Null /\ after = "none" /\ t = Null /\ key = Null
  /\ use = "faults" /\ cur = root /\ cur \in Members /\ heap.sp_p[cur] = Null
  /\ op \in {"old_prev", "old_next"} => \A m \in Members : Start(m) # End(cur)

Merges == {"new_prev", "new_next", "old_prev", "old_next"}

Ops ==
  /\ op \in {"none", "insert", "remove", "join", "find", "mod", "migrate"} \cup Merges
  /\ pc \in {"idle", "splay", "run"}
  /\ op = "none" => AtNone
  /\ op = "insert" => AtInsert
  /\ op = "remove" => AtRemove
  /\ op = "find" => AtFind
  /\ op = "mod" => AtMod
  /\ op = "migrate" => AtMigrate
  /\ op = "join" => AtJoin
  /\ op \in Merges => AtMerge

IInv ==
  /\ Types
  /\ Ranges(heap, use)
  /\ Listed(heap, Members)
  /\ MainTree
  /\ SideTree
  /\ Ops

-----------------------------------------------------------------------------
(* A tree with its list, between splays *)

Fine(h, n, S) ==
  /\ Typed(h)
  /\ S \subseteq Node
  /\ \E D : Whole(h, n, S, D)
  /\ Listed(h, S)
  /\ n # Null => h.sp_p[n] = Null
  /\ \A w \in Side : h[w][Header] = Null

\* Which node, slot and field is which
LEMMA Constants ==
  /\ Null \notin Node /\ Header \notin Node /\ Header \in Slot /\ Header # Null
  /\ Node \subseteq Slot /\ Node \subseteq Nat /\ Null \notin Slot
  /\ \A f \in Link : f \in Field
  /\ \A f \in Side : f \in Link /\ f \in Field
  /\ {"sp_p", "vm_prev", "vm_next"} \subseteq Link
  /\ {"vm_start", "vm_end", "vm_flags"} = Data
  /\ Data \subseteq Field
  /\ \A w \in Side : ListOf(w) \in Link
  /\ HeaderHooks \in [Side -> Slot] /\ \A w \in Side : HeaderHooks[w] = Header
BY NotNodes, NodeAssumption
   DEF Slot, Link, Field, Data, Side, ListOf, HeaderHooks

\* The nodes of such a tree
LEMMA FineFacts ==
  ASSUME NEW h, NEW n, NEW S, Fine(h, n, S)
  PROVE  /\ Null \notin S /\ HeapDom(h)
         /\ \A m \in S : h.vm_start[m] \in Nat
         /\ n \in S \cup {Null}
         /\ n = Null => S = {}
BY Constants, WholeFacts DEF Fine, Typed, Listed, Whole

\* It is the same in a heap with the same fields of its nodes,
LEMMA FineSame ==
  ASSUME NEW h, NEW g, NEW n, NEW S, Fine(h, n, S), Typed(g), Same(g, h, S \cup {Header})
  PROVE  Fine(g, n, S)
<1>1. /\ Null \notin S /\ S \subseteq Node /\ n \in S \cup {Null}
      /\ \A m \in S : h.vm_start[m] \in Nat
  BY FineFacts DEF Fine
<1>2. /\ \A m \in S \cup {Header}, w \in Side : g[w][m] = h[w][m]
      /\ \A m \in S : g.sp_p[m] = h.sp_p[m] /\ g.vm_start[m] = h.vm_start[m]
  BY SameFields
<1>3. \A m \in S, w \in Side : g[ListOf(w)][m] = h[ListOf(w)][m]
  BY Constants DEF Same
<1>4. \E D : Whole(g, n, S, D)
  <2>1. PICK D : Whole(h, n, S, D)
    BY DEF Fine
  <2>2. Whole(g, n, S, D)
    BY <1>1, <1>2, <2>1, WholeSame
  <2> QED BY <2>2
<1>5. Listed(g, S)
  <2>1. Listed(h, S)
    BY DEF Fine
  <2> QED BY <1>1, <1>2, <1>3, <2>1, ListedSame
<1>6. n # Null => g.sp_p[n] = Null
  BY <1>1, <1>2 DEF Fine
<1>7. \A w \in Side : g[w][Header] = Null
  BY <1>2 DEF Fine
<1> QED BY <1>1, <1>4, <1>5, <1>6, <1>7 DEF Fine

\* and in one where the keys have changed but not their order.
LEMMA FineKeys ==
  ASSUME NEW h, NEW g, NEW n, NEW S, Fine(h, n, S), Typed(g),
         \A f \in Link : g[f] = h[f],
         \A l, m \in S : h.vm_start[l] < h.vm_start[m] =>
                           g.vm_start[l] < g.vm_start[m]
  PROVE  Fine(g, n, S)
<1>1. /\ Null \notin S /\ S \subseteq Node /\ n \in S \cup {Null}
      /\ \A m \in S : g.vm_start[m] \in Nat
  BY FineFacts, Constants DEF Fine, Typed
<1>2. /\ \A w \in Side : g[w] = h[w] /\ g[ListOf(w)] = h[ListOf(w)]
      /\ g["sp_p"] = h["sp_p"]
  BY Constants
<1>4. \E D : Whole(g, n, S, D)
  <2>1. PICK D : Whole(h, n, S, D)
    BY DEF Fine
  <2>2. Whole(g, n, S, D)
    BY <1>1, <1>2, <2>1, WholeSame
  <2> QED BY <2>2
<1>5. Listed(g, S)
  <2>1. Listed(h, S)
    BY DEF Fine
  <2> QED BY <1>1, <1>2, <2>1, ListedSame
<1>6. n # Null => g.sp_p[n] = Null
  BY <1>2 DEF Fine
<1>7. \A w \in Side : g[w][Header] = Null
  BY <1>2 DEF Fine
<1> QED BY <1>1, <1>4, <1>5, <1>6, <1>7 DEF Fine

\* g is h with z above the tree of S.
Topped(g, h, z, S) ==
  /\ Fine(g, z, S \cup {z})
  /\ \A f \in Data : g[f] = h[f]
  /\ Same(g, h, Slot \ (S \cup {z}))

\* S_sp_tree_insert_helper on a tree whose root is the nearest to the new key
LEMMA FineInsert ==
  ASSUME NEW h, NEW b, NEW S, Fine(h, b, S), b # Null, NEW z \in Node \ S,
         h.sp_p[z] = Null, h.vm_start[z] # h.vm_start[b],
         Nearest(h, b, h.vm_start[z], S), NEW r, r # Null
  PROVE  Topped(InsertHelper(h, r, b, z), h, z, S)
<1> DEFINE g == InsertHelper(h, r, b, z)
<1>1. PICK D : Whole(h, b, S, D)
  BY DEF Fine
<1>2. HeapDom(h) /\ S \subseteq Node /\ Listed(h, S) /\ h.vm_start[z] \in Nat /\ Typed(h)
  BY Constants DEF Fine, Typed
<1>3. Inserted(g, h, z, S)
  BY <1>1, <1>2, InsertHelperIs
<1> HIDE DEF g
<1>4. \A w \in Side : g[w][Header] = Null
  <2>1. Header \in Slot \ (S \cup {z})
    BY <1>2, Constants
  <2>2. \A w \in Side : g[w][Header] = h[w][Header]
    BY <1>3, <2>1, Constants DEF Inserted, Same
  <2> QED BY <2>2 DEF Fine
<1>5. Topped(g, h, z, S)
  BY <1>2, <1>3, <1>4 DEF Inserted, Fine, Topped
<1> QED BY <1>5 DEF g

\* A node without links is a tree.
LEMMA FineOne ==
  ASSUME NEW h, Typed(h), NEW z \in Node, \A f \in Link : h[f][z] = Null,
         \A w \in Side : h[w][Header] = Null
  PROVE  Fine(h, z, {z})
<1>1. h.vm_start[z] \in Nat /\ z # Null
  BY Constants DEF Typed
<1>2. \A w \in Side : h[w][z] = Null /\ h[ListOf(w)][z] = Null
  BY Constants
<1>3. \E D : Whole(h, z, {z}, D)
  BY <1>1, <1>2, WholeOne
<1>4. Listed(h, {z})
  BY <1>1, <1>2, OnOrder DEF Listed, NextTo
<1>5. h["sp_p"][z] = Null
  BY Constants
<1> QED BY <1>3, <1>4, <1>5 DEF Fine

\* What an ordinary state between splays has
LEMMA MembersIn ==
  /\ Members \subseteq Node /\ Members \subseteq LiveOf(heap)
  /\ LiveOf(heap) \subseteq Node
  /\ Null \notin Members /\ Header \notin Members
  /\ Here \subseteq Members /\ Aside \subseteq Members
BY Constants DEF Members, LiveOf, Here, Aside

\* The invariant between two splays, when no removal is in progress
LEMMA FineNow ==
  ASSUME IInv, pc # "splay", victim = Null
  PROVE  Fine(heap, Top, Members)
<1>1. Here = Members /\ Members \subseteq Node
  BY MembersIn DEF Here
<1>2. /\ \E D : Whole(heap, Top, Members, D)
      /\ \A w \in Side : heap[w][Header] = Null
  BY <1>1 DEF IInv, MainTree
<1>3. Top # Null => heap.sp_p[Top] = Null
  <2>1. CASE t # Null
    BY <2>1 DEF IInv, MainTree, Top
  <2>2. CASE t = Null
    <3>1. Top = root
      BY <2>2 DEF Top
    <3>2. victim \notin LiveOf(heap)
      BY MembersIn, Constants
    <3>3. CASE op = "none"
      BY <3>1, <3>3 DEF IInv, Ops, AtNone
    <3>4. CASE op \in {"insert", "remove", "find", "mod"}
      BY <2>2, <3>1, <3>4 DEF IInv, Ops, AtInsert, AtRemove, AtFind, AtMod, First
    <3>5. CASE op = "migrate"
      BY <2>2, <3>5 DEF IInv, Ops, AtMigrate
    <3>6. CASE op = "join"
      BY <3>2, <3>6 DEF IInv, Ops, AtJoin
    <3>7. CASE op \in Merges
      BY <3>1, <3>7 DEF IInv, Ops, AtMerge
    <3> QED BY <3>3, <3>4, <3>5, <3>6, <3>7 DEF IInv, Ops
  <2> QED BY <2>1, <2>2
<1> QED BY <1>1, <1>2, <1>3 DEF IInv, Types, Fine

-----------------------------------------------------------------------------
(* Where the steps lead *)

\* The addresses an operation may be about
LEMMA Addresses == Address \subseteq Nat /\ Null \notin Address /\ Page \subseteq Address
<1>1. Page \subseteq Nat
  BY NodeAssumption
<1>2. \A n \in Node : Region[n].start .. Region[n].end - 1 \subseteq Nat
  BY RegionsApart
<1> QED BY <1>1, <1>2, NotNodes DEF Address

\* An operation that returns leaves all nodes with a range in the tree.
LEMMA ToIdle ==
  ASSUME Return, use' \in {"regions", "faults"}, draining' \in BOOLEAN,
         aborted' = FALSE, found' \in Node \cup {Null}, root' \in Node \cup {Null},
         Fine(heap', root', LiveOf(heap')), Ranges(heap', use')
  PROVE  IInv'
<1>1. /\ pc' = "idle" /\ op' = "none" /\ key' = Null /\ t' = Null /\ victim' = Null
      /\ cur' = Null /\ after' = "none" /\ vm_addr' = Null /\ hook' = HeaderHooks
  BY DEF Return, Continue, HeaderHooks
<1>2. Members' = LiveOf(heap') /\ Here' = LiveOf(heap')
  <2>1. Null \notin LiveOf(heap')
    BY Constants DEF LiveOf
  <2>2. Members' = LiveOf(heap')
    BY <1>1, <2>1 DEF Members
  <2> QED BY <1>1, <2>2 DEF Here
<1>3. Types'
  BY <1>1 DEF Types, Fine
<1>4. Listed(heap, Members)'
  BY <1>2 DEF Fine
<1>5. MainTree'
  <2>1. Top' = root'
    BY <1>1 DEF Top
  <2> QED BY <1>1, <1>2, <2>1 DEF MainTree, Fine
<1>6. SideTree'
  BY <1>1 DEF SideTree
<1>7. AtNone'
  BY <1>1 DEF AtNone, Fine
<1>8. Ops'
  BY <1>1, <1>7 DEF Ops, Merges
<1> QED BY <1>3, <1>4, <1>5, <1>6, <1>8 DEF IInv

\* A merge is about to be tried.
LEMMA ToMerge ==
  ASSUME NEW o \in Merges, NEW n, Continue(o, n), pc' = "run", n = root',
         n \in LiveOf(heap'), Fine(heap', n, LiveOf(heap')), Ranges(heap', use'),
         use' = "faults", vm_addr' \in Address \cup {Null}, found' \in Node \cup {Null},
         draining' \in BOOLEAN, aborted' = FALSE,
         o \in {"old_prev", "old_next"} =>
           \A m \in LiveOf(heap') : heap'.vm_start[m] # heap'.vm_end[n]
  PROVE  IInv'
<1>1. /\ op' = o /\ key' = Null /\ t' = Null /\ victim' = Null
      /\ cur' = n /\ after' = "none" /\ hook' = HeaderHooks
      /\ o \notin {"none", "insert", "remove", "join", "find", "mod", "migrate"}
  BY DEF Continue, HeaderHooks, Merges
<1>2. Members' = LiveOf(heap') /\ Here' = LiveOf(heap')
  <2>1. Null \notin LiveOf(heap')
    BY Constants DEF LiveOf
  <2>2. Members' = LiveOf(heap')
    BY <1>1, <2>1 DEF Members
  <2> QED BY <1>1, <2>2 DEF Here
<1>0. n \in Node /\ n # Null
  BY Constants DEF LiveOf
<1>3. Types'
  BY <1>0, <1>1 DEF Types, Fine
<1>4. Listed(heap, Members)'
  BY <1>2 DEF Fine
<1>5. MainTree'
  <2>1. Top' = n
    BY <1>1 DEF Top
  <2> QED BY <1>1, <1>2, <2>1 DEF MainTree, Fine
<1>6. SideTree'
  BY <1>1 DEF SideTree
<1>7. AtMerge'
  BY <1>0, <1>1, <1>2 DEF AtMerge, Fine, Start, End
<1>8. Ops'
  BY <1>1, <1>7 DEF Ops
<1> QED BY <1>3, <1>4, <1>5, <1>6, <1>8 DEF IInv

\* A splay begins, of the tree of S.
LEMMA ToTree ==
  ASSUME NEW o, NEW a \in Nat, NEW n, Splay(o, a, n), Typed(heap'), Here' \subseteq Node,
         \E D : Whole(heap', n, Here', D), \A w \in Side : heap'[w][Header] = Null,
         n = Null => Top' = Null
  PROVE  MainTree'
<1>1. /\ pc' = IF n = Null THEN "run" ELSE "splay"
      /\ key' = a /\ t' = n /\ hook' = HeaderHooks
  BY DEF Splay, HeaderHooks
<1>2. PICK D : Whole(heap', n, Here', D)
  OBVIOUS
<1>3. CASE n = Null
  <2>1. pc' # "splay" /\ Top' = n /\ t' = Null
    BY <1>1, <1>3
  <2> QED BY <1>1, <1>2, <2>1 DEF MainTree
<1>4. CASE n # Null
  <2>1. /\ HeapDom(heap') /\ Here' \subseteq Node
        /\ \A w \in Side : heap'[w][Header] = Null
    BY DEF Typed
  <2>2. Splaying(Seen(heap', HeaderHooks), n, HeaderHooks, a, Here', D)
    BY <1>2, <1>4, <2>1, SplayStart DEF HeaderHooks
  <2>3. pc' = "splay"
    BY <1>1, <1>4
  <2> QED BY <1>1, <2>2, <2>3 DEF MainTree
<1> QED BY <1>3, <1>4

\* The splay of an operation begins.
LEMMA ToSplay ==
  ASSUME NEW o, NEW a \in Address, NEW n, Splay(o, a, n), victim' = Null,
         Fine(heap', n, Members'), Ranges(heap', use'), n = Null => root' = Null,
         use' \in {"regions", "faults"}, vm_addr' \in Address \cup {Null},
         root' \in Node \cup {Null}, cur' \in Node \cup {Null},
         found' \in Node \cup {Null}, draining' \in BOOLEAN, aborted' = FALSE
  PROVE  /\ Types' /\ Ranges(heap', use') /\ Listed(heap', Members')
         /\ MainTree' /\ SideTree'
<1>1. Here' = Members'
  BY DEF Here
<1>2. n = Null => Top' = Null
  BY DEF Top, Splay
<1>3. MainTree'
  BY <1>1, <1>2, Addresses, ToTree DEF Fine
<1>4. n \in Node \cup {Null}
  BY FineFacts DEF Fine
<1>5. Types'
  BY <1>4 DEF Types, Splay, Fine
<1> QED BY <1>3, <1>5 DEF SideTree, Fine

-----------------------------------------------------------------------------
(* Ranges *)

\* What ranges that do not overlap imply
LEMMA LiveFacts ==
  ASSUME NEW h, Typed(h), Apart(h)
  PROVE  /\ \A n \in LiveOf(h) : /\ n \in Node /\ h.vm_start[n] < h.vm_end[n]
                                 /\ h.vm_start[n] \in Nat /\ h.vm_end[n] \in Nat
         /\ \A m, n \in LiveOf(h) : h.vm_start[m] = h.vm_start[n] => m = n
         /\ \A m, n \in LiveOf(h) : h.vm_start[m] < h.vm_start[n] =>
                                      h.vm_end[m] <= h.vm_start[n]
<1>1. \A n \in LiveOf(h) : /\ n \in Node /\ h.vm_start[n] < h.vm_end[n]
                           /\ h.vm_start[n] \in Nat /\ h.vm_end[n] \in Nat
  BY Constants DEF LiveOf, Typed
<1>2. \A m, n \in LiveOf(h) : m # n => \/ h.vm_end[m] <= h.vm_start[n]
                                       \/ h.vm_end[n] <= h.vm_start[m]
  BY DEF Apart
<1>3. ASSUME NEW m \in LiveOf(h), NEW n \in LiveOf(h)
      PROVE  /\ h.vm_start[m] = h.vm_start[n] => m = n
             /\ h.vm_start[m] < h.vm_start[n] => h.vm_end[m] <= h.vm_start[n]
  <2> DEFINE sm == h.vm_start[m]
             sn == h.vm_start[n]
             em == h.vm_end[m]
             en == h.vm_end[n]
  <2>1. /\ sm \in Nat /\ em \in Nat /\ sm < em /\ sn \in Nat /\ en \in Nat /\ sn < en
        /\ m = n \/ em <= sn \/ en <= sm
        /\ m = n => sm = sn
    BY <1>1, <1>2
  <2> HIDE DEF sm, sn, em, en
  <2>2. (sm = sn => m = n) /\ (sm < sn => em <= sn)
    BY <2>1
  <2> QED BY <2>2 DEF sm, sn, em, en
<1> QED BY <1>1, <1>3

\* A node holds no more than one address each, and no address is in two.
LEMMA HoldsOne ==
  ASSUME NEW h, Typed(h), Apart(h), NEW m \in LiveOf(h), NEW n \in LiveOf(h),
         NEW a \in Nat, h.vm_start[m] <= a, a < h.vm_end[m],
         h.vm_start[n] <= a, a < h.vm_end[n]
  PROVE  m = n
<1> DEFINE sm == h.vm_start[m]
           sn == h.vm_start[n]
           em == h.vm_end[m]
           en == h.vm_end[n]
<1>1. /\ sm \in Nat /\ em \in Nat /\ sn \in Nat /\ en \in Nat
      /\ m = n \/ em <= sn \/ en <= sm
  BY Constants DEF Apart, LiveOf, Typed
<1>2. sm <= a /\ a < em /\ sn <= a /\ a < en
  OBVIOUS
<1> HIDE DEF sm, sn, em, en
<1> QED BY <1>1, <1>2

\* The ranges after the node z got range s to e, of addresses no other node has
LEMMA RangesSet ==
  ASSUME NEW h, Typed(h), NEW u, Ranges(h, u), NEW g, Typed(g), NEW z \in Node,
         NEW L, LiveOf(g) = L \cup {z}, L \subseteq LiveOf(h),
         \A n \in L \ {z} : g.vm_start[n] = h.vm_start[n] /\ g.vm_end[n] = h.vm_end[n],
         \A n \in L \ {z} : g.vm_end[n] <= g.vm_start[z] \/ g.vm_end[z] <= g.vm_start[n],
         IF u = "regions"
           THEN g.vm_start[z] = Region[z].start /\ g.vm_end[z] = Region[z].end
           ELSE \A a \in Nat : g.vm_start[z] <= a /\ a < g.vm_end[z] => a \in Page
  PROVE  Ranges(g, u)
<1>1. Apart(g)
  <2> SUFFICES ASSUME NEW m \in L \cup {z}, NEW n \in L \cup {z}, m # n
               PROVE  g.vm_end[m] <= g.vm_start[n] \/ g.vm_end[n] <= g.vm_start[m]
    BY DEF Apart
  <2>1. CASE m = z \/ n = z
    BY <2>1
  <2>2. CASE m # z /\ n # z
    <3>1. m \in L \ {z} /\ n \in L \ {z} /\ m \in LiveOf(h) /\ n \in LiveOf(h)
      BY <2>2
    <3>2. h.vm_end[m] <= h.vm_start[n] \/ h.vm_end[n] <= h.vm_start[m]
      BY <3>1 DEF Ranges, Apart
    <3> QED BY <3>1, <3>2
  <2> QED BY <2>1, <2>2
<1>2. Owned(g, u)
  <2> SUFFICES ASSUME NEW n \in L \cup {z}
               PROVE  IF u = "regions"
                        THEN g.vm_start[n] = Region[n].start /\ g.vm_end[n] = Region[n].end
                        ELSE \A a \in Nat : g.vm_start[n] <= a /\ a < g.vm_end[n] => a \in Page
    BY DEF Owned
  <2>1. CASE n = z
    BY <2>1
  <2>2. CASE n # z
    <3>1. n \in L \ {z} /\ n \in LiveOf(h)
      BY <2>2
    <3>2. g.vm_start[n] = h.vm_start[n] /\ g.vm_end[n] = h.vm_end[n]
      BY <3>1
    <3> QED BY <3>1, <3>2 DEF Ranges, Owned
  <2> QED BY <2>1, <2>2
<1> QED BY <1>1, <1>2 DEF Ranges

\* Fewer nodes, or as many
LEMMA RangesFewer ==
  ASSUME NEW h, NEW u, Ranges(h, u), NEW g, LiveOf(g) \subseteq LiveOf(h),
         \A n \in LiveOf(g) : g.vm_start[n] = h.vm_start[n] /\ g.vm_end[n] = h.vm_end[n]
  PROVE  Ranges(g, u)
<1>1. Apart(g)
  <2> SUFFICES ASSUME NEW m \in LiveOf(g), NEW n \in LiveOf(g), m # n
               PROVE  g.vm_end[m] <= g.vm_start[n] \/ g.vm_end[n] <= g.vm_start[m]
    BY DEF Apart
  <2>1. h.vm_end[m] <= h.vm_start[n] \/ h.vm_end[n] <= h.vm_start[m]
    BY DEF Ranges, Apart
  <2> QED BY <2>1
<1>2. Owned(g, u)
  BY DEF Ranges, Owned
<1> QED BY <1>1, <1>2 DEF Ranges

\* The ranges stay when no range of a node changes,
LEMMA LiveNodes ==
  ASSUME NEW h, NEW g, \A f \in Data, n \in Node : g[f][n] = h[f][n], NEW u
  PROVE  /\ LiveOf(g) = LiveOf(h)
         /\ \A n \in Node : g.vm_start[n] = h.vm_start[n] /\ g.vm_end[n] = h.vm_end[n]
         /\ Ranges(h, u) => Ranges(g, u)
<1>1. \A n \in Node : g.vm_start[n] = h.vm_start[n] /\ g.vm_end[n] = h.vm_end[n]
  BY DEF Data
<1>2. LiveOf(g) = LiveOf(h) /\ LiveOf(g) \subseteq Node
  BY <1>1 DEF LiveOf
<1>3. \A n \in LiveOf(g) : g.vm_start[n] = h.vm_start[n] /\ g.vm_end[n] = h.vm_end[n]
  BY <1>1, <1>2
<1> QED BY <1>1, <1>2, <1>3, RangesFewer

\* so also when none of the fields does.
LEMMA LiveSame ==
  ASSUME NEW h, NEW g, \A f \in Data : g[f] = h[f], NEW u
  PROVE  /\ LiveOf(g) = LiveOf(h)
         /\ g.vm_start = h.vm_start /\ g.vm_end = h.vm_end /\ g.vm_flags = h.vm_flags
         /\ Ranges(h, u) => Ranges(g, u)
<1>1. g["vm_start"] = h["vm_start"] /\ g["vm_end"] = h["vm_end"]
      /\ g["vm_flags"] = h["vm_flags"]
  BY DEF Data
<1>2. LiveOf(g) = LiveOf(h)
  BY <1>1 DEF LiveOf
<1> QED BY <1>1, <1>2, RangesFewer

-----------------------------------------------------------------------------
(* The start, and a step that changes nothing *)

\* The tree is empty at first.
LEMMA InitIInv ==
  ASSUME Init, Uses \subseteq {"regions", "faults"}
  PROVE  IInv
<1>1. /\ HeapDom(heap)
      /\ \A n \in Slot : /\ \A f \in Link : heap[f][n] = Null
                         /\ \A f \in Data : heap[f][n] = 0
  <2>1. heap = [f \in Field |-> [n \in Slot |-> IF f \in Link THEN Null ELSE 0]]
    BY DEF Init, Field, Data, Slot
  <2>2. \A f \in Data : f \notin Link /\ f \in Field
    BY DEF Data, Link, Side, Field
  <2>3. Link \subseteq Field
    BY DEF Field
  <2> QED BY <2>1, <2>2, <2>3 DEF HeapDom
<1>2. Typed(heap)
  <2>1. 0 \in Flag
    BY DEF Flag
  <2>2. \A n \in Slot : heap.vm_start[n] = 0 /\ heap.vm_end[n] = 0 /\ heap.vm_flags[n] = 0
    BY <1>1 DEF Data
  <2> QED BY <1>1, <2>1, <2>2 DEF Typed, Link
<1>3. LiveOf(heap) = {}
  BY <1>1 DEF LiveOf, Data, Slot
<1>4. Members = {} /\ Here = {} /\ Top = Null /\ victim = Null
  BY <1>3 DEF Members, Here, Init, Top
<1>5. Types
  BY <1>2 DEF Types, Init
<1>6. Ranges(heap, use)
  BY <1>3 DEF Ranges, Apart, Owned
<1>7. Listed(heap, Members)
  BY <1>4 DEF Listed
<1>8. MainTree
  <2>1. \A w \in Side : heap[w][Header] = Null
    BY <1>1, Constants
  <2> QED BY <1>4, <2>1, WholeNone DEF MainTree, Init, HeaderHooks
<1>9. SideTree
  BY <1>4 DEF SideTree
<1>10. Ops
  BY DEF Ops, AtNone, Init, Merges
<1> QED BY <1>5, <1>6, <1>7, <1>8, <1>9, <1>10 DEF IInv

\* Neither the last result nor whether sp_tree_free runs matters.
LEMMA StutterIInv ==
  ASSUME IInv, UNCHANGED <<use, heap, root, locals, aborted>>,
         draining' \in BOOLEAN, found' \in Node \cup {Null}
  PROVE  IInv'
<1>1. /\ use' = use /\ heap' = heap /\ root' = root
      /\ aborted' = aborted /\ pc' = pc /\ op' = op
      /\ vm_addr' = vm_addr /\ key' = key /\ t' = t /\ hook' = hook
      /\ victim' = victim /\ cur' = cur /\ after' = after
  BY DEF locals
<1>2. Members' = Members /\ Here' = Here /\ Aside' = Aside /\ Top' = Top
  BY <1>1 DEF Members, Here, Aside, Top
<1>3. Types' /\ Ranges(heap, use)' /\ Listed(heap, Members)'
  BY <1>1, <1>2 DEF IInv, Types
<1>4. MainTree'
  BY <1>1, <1>2 DEF IInv, MainTree
<1>5. SideTree'
  BY <1>1, <1>2 DEF IInv, SideTree
<1>6. Ops'
  <2>1. First' <=> First
    BY <1>1, <1>2 DEF First
  <2>2. Quiet' <=> Quiet
    BY <1>1, <1>2 DEF Quiet, Holds, Start, End
  <2>3. /\ AtNone' <=> AtNone
        /\ AtInsert' <=> AtInsert
        /\ AtRemove' <=> AtRemove
        /\ AtFind' <=> AtFind
    BY <1>1, <1>2, <2>1 DEF AtNone, AtInsert, AtRemove, AtFind, Holds, Start, End
  <2>4. AtMod' <=> AtMod
    BY <1>1, <1>2, <2>1, <2>2 DEF AtMod, Holds, Start, End
  <2>5. AtMigrate' <=> AtMigrate
    BY <1>1 DEF AtMigrate
  <2>6. AtJoin' <=> AtJoin
    BY <1>1, <1>2 DEF AtJoin, Start, End
  <2>7. AtMerge' <=> AtMerge
    BY <1>1, <1>2 DEF AtMerge, Start, End
  <2>8. Ops
    BY DEF IInv
  <2> QED BY <1>1, <2>3, <2>4, <2>5, <2>6, <2>7, <2>8 DEF Ops
<1> QED BY <1>3, <1>4, <1>5, <1>6 DEF IInv

-----------------------------------------------------------------------------
(* The calls *)

\* Between operations all nodes with a range are in the tree.
LEMMA IdleFacts ==
  ASSUME IInv, pc = "idle"
  PROVE  /\ op = "none" /\ AtNone
         /\ Members = LiveOf(heap) /\ Top = root
         /\ Fine(heap, root, LiveOf(heap))
         /\ Ranges(heap, use)
         /\ Live = LiveOf(heap)
         /\ root \in LiveOf(heap) \cup {Null}
<1>1. op = "none" /\ AtNone
  BY DEF IInv, Ops, AtInsert, AtRemove, AtFind, AtMod, AtMigrate, AtJoin, AtMerge, First
<1>2. Members = LiveOf(heap) /\ Top = root
  BY <1>1, Constants DEF Members, AtNone, Top, LiveOf
<1>3. Fine(heap, root, LiveOf(heap))
  BY <1>1, <1>2, FineNow DEF AtNone
<1>4. Live = LiveOf(heap)
  BY DEF Live, LiveOf, Start, End
<1> QED BY <1>1, <1>2, <1>3, <1>4, FineFacts DEF IInv

\* The nodes found by the tree's pointers are those the invariant speaks of.
LEMMA IdleNodes ==
  ASSUME IInv, pc = "idle"
  PROVE  Nodes = LiveOf(heap)
<1>1. victim = Null /\ Top = root /\ Fine(heap, root, LiveOf(heap))
  BY IdleFacts DEF AtNone
<1>2. PICK D : Whole(heap, root, LiveOf(heap), D)
  BY <1>1 DEF Fine
<1>3. View = heap
  BY DEF View
<1>4. Reach(heap, root) = LiveOf(heap)
  BY <1>2, MembersIn, ReachIs DEF Whole
<1>5. Right = {}
  BY <1>1 DEF Right
<1> QED BY <1>1, <1>3, <1>4, <1>5 DEF Nodes

\* An operation begins with its splay.
LEMMA EnterFirst ==
  ASSUME IInv, pc = "idle", NEW o, NEW a \in Address, Enter(o, a),
         Members' = LiveOf(heap)
  PROVE  First'
<1>1. /\ victim = Null /\ after = "none" /\ root \in LiveOf(heap) \cup {Null}
  BY IdleFacts DEF AtNone
<1>2. /\ pc' \in {"run", "splay"} /\ key' = a /\ t' = root /\ vm_addr' = a
      /\ root' = root /\ victim' = Null /\ after' = "none"
  BY <1>1 DEF Enter, Splay
<1> QED BY <1>1, <1>2, Addresses DEF First

\* The call of an operation that leaves the heap as it is
LEMMA CallPlain ==
  ASSUME IInv, pc = "idle", NEW o, o # "insert", NEW a \in Address, Enter(o, a),
         UNCHANGED <<heap, cur, draining>>
  PROVE  /\ Types' /\ Ranges(heap', use') /\ Listed(heap', Members')
         /\ MainTree' /\ SideTree' /\ First' /\ Members' = LiveOf(heap)
         /\ cur' = Null /\ op' = o
<1>1. /\ victim = Null /\ cur = Null /\ Fine(heap, root, LiveOf(heap)) /\ aborted = FALSE
      /\ Ranges(heap, use)
  BY IdleFacts DEF AtNone, IInv, Types
<1>2. /\ victim' = Null /\ op' = o /\ Splay(o, a, root) /\ vm_addr' = a /\ found' = Null
      /\ use' = use /\ root' = root /\ aborted' = FALSE /\ heap' = heap /\ cur' = Null
      /\ draining' = draining
  BY <1>1 DEF Enter, Splay
<1>3. Members' = LiveOf(heap)
  BY <1>2, Constants DEF Members, LiveOf
<1>4. First'
  BY <1>3, EnterFirst
<1>5. /\ Fine(heap', root, Members') /\ Ranges(heap', use')
      /\ use' \in {"regions", "faults"} /\ root' \in Node \cup {Null} /\ draining' \in BOOLEAN
  BY <1>1, <1>2, <1>3 DEF IInv, Types
<1>6. /\ Types' /\ Ranges(heap', use') /\ Listed(heap', Members')
      /\ MainTree' /\ SideTree'
  BY <1>2, <1>5, ToSplay
<1> QED BY <1>2, <1>3, <1>4, <1>6

\* What a node holds is an address.
LEMMA LiveAddress ==
  ASSUME NEW h, Typed(h), NEW u, Ranges(h, u), NEW n \in LiveOf(h),
         NEW a \in Nat, h.vm_start[n] <= a, a < h.vm_end[n]
  PROVE  a \in Address
<1>1. n \in Node
  BY DEF LiveOf
<1>2. CASE u = "regions"
  <2>1. h.vm_start[n] = Region[n].start /\ h.vm_end[n] = Region[n].end
    BY <1>2 DEF Ranges, Owned
  <2>2. a \in Region[n].start .. Region[n].end - 1
    BY <1>1, <2>1, RegionsApart
  <2> QED BY <1>1, <2>2 DEF Address
<1>3. CASE u # "regions"
  BY <1>3, Addresses DEF Ranges, Owned
<1> QED BY <1>2, <1>3

\* A region starts at an address.
LEMMA StartAddress ==
  ASSUME NEW h, Typed(h), NEW u, Ranges(h, u), NEW n \in LiveOf(h)
  PROVE  h.vm_start[n] \in Address
<1>1. /\ h.vm_start[n] \in Nat /\ h.vm_start[n] < h.vm_end[n]
      /\ h.vm_start[n] <= h.vm_start[n]
  BY LiveFacts DEF Ranges
<1> QED BY <1>1, LiveAddress

\* The calls keep the invariant: of sp_tree_remove,
LEMMA StepCallRemove ==
  ASSUME IInv, NEW n \in Node, CallRemove(n)
  PROVE  IInv'
<1>1. /\ pc = "idle" /\ Enter("remove", Start(n)) /\ UNCHANGED <<heap, cur, draining>>
      /\ draining => n = root
      /\ ~draining => n \in Nodes
  BY DEF CallRemove, IInv, Types
<1>2. n \in LiveOf(heap)
  BY <1>1, IdleNodes, IdleFacts, Constants
<1>3. Start(n) \in Address
  BY <1>2, StartAddress DEF Start, IInv, Types
<1>4. /\ Types' /\ Ranges(heap', use') /\ Listed(heap', Members')
      /\ MainTree' /\ SideTree' /\ First' /\ Members' = LiveOf(heap)
      /\ cur' = Null /\ op' = "remove"
  BY <1>1, <1>3, CallPlain
<1>5. AtRemove'
  <2>1. vm_addr' = Start(n) /\ heap' = heap
    BY <1>1 DEF Enter
  <2> QED BY <1>2, <1>4, <2>1 DEF AtRemove, Start
<1>6. Ops'
  <2>1. pc' \in {"run", "splay"}
    BY <1>1 DEF Enter, Splay
  <2> QED BY <1>4, <1>5, <2>1 DEF Ops, Merges
<1> QED BY <1>4, <1>6 DEF IInv

\* sp_tree_find_and_lock,
LEMMA StepCallFind ==
  ASSUME IInv, CallFind
  PROVE  IInv'
<1>1. /\ pc = "idle" /\ UNCHANGED <<heap, cur, draining>>
  BY DEF CallFind
<1>2. PICK n \in Nodes : \E a \in Start(n) .. End(n) - 1 : Enter("find", a)
  BY DEF CallFind
<1>3. PICK a \in Start(n) .. End(n) - 1 : Enter("find", a)
  BY <1>2
<1>4. n \in LiveOf(heap)
  BY <1>1, IdleNodes
<1>5. a \in Nat /\ Start(n) <= a /\ a < End(n)
  <2>1. Start(n) \in Nat /\ End(n) \in Nat
    BY <1>4, LiveFacts DEF IInv, Types, Ranges, Start, End
  <2> QED BY <2>1
<1>6. a \in Address
  BY <1>4, <1>5, LiveAddress DEF Start, End, IInv, Types
<1>7. /\ Types' /\ Ranges(heap', use') /\ Listed(heap', Members')
      /\ MainTree' /\ SideTree' /\ First' /\ Members' = LiveOf(heap)
      /\ cur' = Null /\ op' = "find"
  BY <1>1, <1>3, <1>6, CallPlain
<1>8. AtFind'
  <2>1. vm_addr' = a /\ heap' = heap
    BY <1>1, <1>3 DEF Enter
  <2> QED BY <1>4, <1>5, <1>7, <2>1 DEF AtFind, Holds, Start, End
<1>9. Ops'
  <2>1. pc' \in {"run", "splay"}
    BY <1>3 DEF Enter, Splay
  <2> QED BY <1>7, <1>8, <2>1 DEF Ops, Merges
<1> QED BY <1>7, <1>9 DEF IInv

\* sp_tree_free, and its end,
LEMMA StepCallFree ==
  ASSUME IInv, CallFree \/ FreeDone
  PROVE  IInv'
<1>1. /\ UNCHANGED <<use, heap, root, locals, aborted>>
      /\ draining' \in BOOLEAN /\ found' \in {Null, found}
  BY DEF CallFree, FreeDone
<1>2. found' \in Node \cup {Null}
  BY <1>1 DEF IInv, Types
<1> QED BY <1>1, <1>2, StutterIInv

\* A page in the root, where its search ends, keeps the tree as it is.
LEMMA GoodFaultQuiet ==
  ASSUME IInv, pc = "idle", NEW a \in Page, GoodFault(a), \E n \in Nodes : Holds(n, a)
  PROVE  /\ root # Null /\ Holds(root, a)
         /\ \A w \in Side : On(w, a, heap.vm_start[root]) => heap[w][root] = Null
         /\ Start(root) + 1 = End(root) =>
              \A m \in LiveOf(heap) : Start(m) # End(root)
<1> DEFINE S == LiveOf(heap)
<1>1. Nodes = S /\ S # {} /\ Fine(heap, root, S)
  BY IdleNodes, IdleFacts
<1>2. /\ root # Null /\ root \in S /\ S \subseteq Node /\ a \in Nat
      /\ Typed(heap) /\ Apart(heap)
  BY <1>1, FineFacts, MembersIn, NodeAssumption DEF IInv, Ranges, Types
<1>3. /\ Holds(root, a) /\ SearchEnd(root, a) = root
      /\ Start(root) + 1 = End(root) => ~Touch(root, Succ(root))
  BY DEF GoodFault
<1>4. \A w \in Side : On(w, a, heap.vm_start[root]) => heap[w][root] = Null
  <2>1. PICK D : Whole(heap, root, S, D)
    BY <1>1 DEF Fine
  <2>2. View = heap
    BY DEF View
  <2>3. Ending(heap, root, a) = root
    BY <1>3, <2>2 DEF SearchEnd, Ending
  <2> QED BY <1>2, <2>1, <2>3, SearchEnds DEF Whole
<1>5. ASSUME Start(root) + 1 = End(root), NEW m \in S, Start(m) = End(root)
      PROVE  FALSE
  <2> DEFINE n == Succ(root)
             sn == Start(n)
             sm == Start(m)
             sr == Start(root)
  <2>1. sm \in Nat /\ sr \in Nat /\ sm = sr + 1
    BY <1>2, <1>5, LiveFacts DEF Start, End
  <2>2. NextTo(heap, S, root, "sp_r", n)
    <3>1. Listed(heap, S)
      BY <1>1 DEF Fine
    <3>2. NextTo(heap, S, root, "sp_r", heap[ListOf("sp_r")][root])
      BY <1>2, <3>1 DEF Listed, Side
    <3>3. ListOf("sp_r") = "vm_next"
      BY DEF ListOf
    <3> QED BY <3>2, <3>3 DEF Succ
  <2>3. /\ n = Null => ~(sr < sm)
        /\ n # Null => n \in S /\ sr < sn /\ (m = n \/ sn < sm)
    <3>1. Null \notin S
      BY <1>2, Constants
    <3>2. \A x, y : On("sp_r", x, y) <=> y < x
      BY DEF On
    <3>3. /\ n = Null => ~On("sp_r", heap.vm_start[m], heap.vm_start[root])
          /\ n # Null => /\ n \in S
                         /\ On("sp_r", heap.vm_start[n], heap.vm_start[root])
                         /\ On("sp_r", heap.vm_start[m], heap.vm_start[root]) =>
                              m = n \/ On("sp_r", heap.vm_start[m], heap.vm_start[n])
      BY <2>2, <3>1 DEF NextTo
    <3>4. sr < sm => On("sp_r", heap.vm_start[m], heap.vm_start[root])
      BY <3>2 DEF Start
    <3>5. sr < sm
      BY <2>1
    <3>6. n # Null => n \in S /\ sr < sn /\ (m = n \/ sn < sm)
      BY <3>2, <3>3, <3>4, <3>5 DEF Start
    <3> QED BY <3>3, <3>4, <3>6
  <2>4. n # Null /\ n \in S /\ sr < sn /\ (m = n \/ sn < sm)
    BY <2>1, <2>3
  <2>5. sn \in Nat
    BY <1>2, <2>4, LiveFacts DEF Start
  <2>6. m = n
    BY <2>1, <2>4, <2>5
  <2>7. ~Touch(root, n)
    BY <1>3, <1>5
  <2>8. root # Null /\ n # Null /\ End(root) = Start(n)
    BY <1>2, <1>5, <2>4, <2>6
  <2> QED BY <2>7, <2>8 DEF Touch
<1> QED BY <1>2, <1>3, <1>4, <1>5

\* sp_tree_find_mod_and_lock
LEMMA StepCallFindMod ==
  ASSUME IInv, NEW a \in Page, CallFindMod(a)
  PROVE  IInv'
<1>1. /\ pc = "idle" /\ Enter("mod", a) /\ UNCHANGED <<heap, cur, draining>>
      /\ use = "faults" /\ GoodFault(a)
  BY DEF CallFindMod, IInv, Types
<1>2. a \in Address
  BY Addresses
<1>3. /\ Types' /\ Ranges(heap', use') /\ Listed(heap', Members')
      /\ MainTree' /\ SideTree' /\ First' /\ Members' = LiveOf(heap)
      /\ cur' = Null /\ op' = "mod"
  BY <1>1, <1>2, CallPlain
<1>4. /\ vm_addr' = a /\ heap' = heap /\ t' = root /\ root' = root /\ use' = "faults"
      /\ hook' = HeaderHooks /\ pc' \in {"run", "splay"}
  BY <1>1 DEF Enter, Splay, HeaderHooks
<1>5. CASE \E n \in Nodes : Holds(n, a)
  <2>1. Quiet'
    BY <1>1, <1>3, <1>4, <1>5, GoodFaultQuiet DEF Quiet, Holds, Start, End
  <2> QED BY <1>3, <1>4, <2>1 DEF AtMod, IInv, Ops, Merges
<1>6. CASE ~\E n \in Nodes : Holds(n, a)
  <2>1. Nodes = LiveOf(heap)
    BY <1>1, IdleNodes
  <2>2. \A n \in Members' : ~Holds(n, vm_addr)'
    BY <1>3, <1>4, <1>6, <2>1 DEF Holds, Start, End
  <2>3. AtMod'
    BY <1>3, <1>4, <2>2 DEF AtMod
  <2> QED BY <1>3, <1>4, <2>3 DEF IInv, Ops, Merges
<1> QED BY <1>5, <1>6

\* and sp_tree_insert.
LEMMA StepCallInsert ==
  ASSUME IInv, NEW z \in Node, CallInsert(z)
  PROVE  IInv'
<1> DEFINE S == LiveOf(heap)
           s == Region[z].start
           e == Region[z].end
<1>1. /\ pc = "idle" /\ use = "regions" /\ z \notin S /\ Enter("insert", s) /\ cur' = z
      /\ heap' = NodeInit(heap, z, s, e, 0) /\ draining' = draining
  BY IdleFacts DEF CallInsert
<1>2. s \in Nat /\ e \in Nat /\ s < e
  BY RegionsApart
<1>3. s \in Address
  <2>1. s \in s .. e - 1
    BY <1>2
  <2> QED BY <2>1 DEF Address
<1>4. /\ Fine(heap, root, S) /\ Ranges(heap, use) /\ Typed(heap) /\ aborted = FALSE
      /\ victim = Null /\ S \subseteq Node /\ HeapDom(heap)
  BY <1>1, IdleFacts, MembersIn, FineFacts DEF IInv, Types, AtNone
<1>5. Made(heap', heap, z, s, e) /\ Typed(heap')
  BY <1>1, <1>2, <1>4, NodeInitIs, FlagIs, Constants
<1>6. \A n \in Slot \ {z} : /\ heap'.vm_start[n] = heap.vm_start[n]
                            /\ heap'.vm_end[n] = heap.vm_end[n]
  BY <1>5, SameFields DEF Made
<1>7. LiveOf(heap') = S \cup {z}
  BY <1>2, <1>5, <1>6, Constants DEF LiveOf, Made
<1>8. Fine(heap', root, S)
  <2>1. S \cup {Header} \subseteq Slot \ {z}
    BY <1>1, <1>4, Constants
  <2>2. Same(heap', heap, S \cup {Header})
    BY <1>5, <2>1 DEF Made, Same
  <2> QED BY <1>4, <1>5, <2>2, FineSame
<1>9. /\ Splay("insert", s, root) /\ victim' = Null /\ vm_addr' = s /\ found' = Null
      /\ use' = "regions" /\ root' = root /\ aborted' = FALSE /\ cur' = z
      /\ op' = "insert"
  BY <1>1, <1>4 DEF Enter, Splay
<1>10. Members' = S
  <2>1. Members' = LiveOf(heap') \ ({Null} \cup {z})
    BY <1>9 DEF Members
  <2> QED BY <1>1, <1>4, <1>7, <2>1, Constants
<1>11. Ranges(heap', use')
  <2>1. \A n \in S : heap'.vm_start[n] = heap.vm_start[n] /\ heap'.vm_end[n] = heap.vm_end[n]
    BY <1>1, <1>4, <1>6, Constants
  <2>2. \A n \in S : heap'.vm_start[n] = Region[n].start /\ heap'.vm_end[n] = Region[n].end
    BY <1>1, <1>4, <2>1 DEF Ranges, Owned
  <2>3. \A n \in S : heap'.vm_end[n] <= heap'.vm_start[z] \/ heap'.vm_end[z] <= heap'.vm_start[n]
    <3>1. \A n \in S : n \in Nat /\ z \in Nat /\ n # z /\ n \in Node
      BY <1>1, <1>4, NodeAssumption
    <3>2. \A n \in S : n < z \/ z < n
      BY <3>1
    <3>3. \A n \in S : Region[n].end <= s \/ e <= Region[n].start
      BY <3>1, <3>2, RegionsApart
    <3> QED BY <1>5, <2>2, <3>3 DEF Made
  <2>4. heap'.vm_start[z] = s /\ heap'.vm_end[z] = e
    BY <1>5 DEF Made
  <2> QED BY <1>1, <1>4, <1>5, <1>7, <1>9, <2>1, <2>3, <2>4, RangesSet
<1>12. root \in S \cup {Null} /\ draining' \in BOOLEAN
  BY <1>1, IdleFacts DEF IInv, Types
<1>13. /\ Types' /\ Ranges(heap', use') /\ Listed(heap', Members')
       /\ MainTree' /\ SideTree'
  <2>1. /\ root' \in Node \cup {Null} /\ use' \in {"regions", "faults"}
        /\ vm_addr' \in Address \cup {Null} /\ cur' \in Node \cup {Null}
        /\ found' \in Node \cup {Null} /\ Fine(heap', root, Members')
        /\ root = Null => root' = Null
    BY <1>3, <1>4, <1>8, <1>9, <1>10, <1>12
  <2> QED BY <1>3, <1>9, <1>11, <1>12, <2>1, ToSplay
<1>14. First'
  BY <1>1, <1>3, <1>10, EnterFirst
<1>15. AtInsert'
  <2>1. key' = s /\ heap'.vm_start[z] = s /\ \A f \in Link : heap'[f][z] = Null
    BY <1>1, <1>5 DEF Made, Enter, Splay
  <2> QED BY <1>7, <1>9, <1>14, <2>1 DEF AtInsert, Start
<1>16. pc' \in {"run", "splay"}
  BY <1>9 DEF Splay
<1> QED BY <1>9, <1>13, <1>15, <1>16 DEF IInv, Ops, Merges

-----------------------------------------------------------------------------
(* The loop of the splay *)

\* g is h but for the pointers of the trees at the nodes of S and the header.
Reshaped(g, h, S) ==
  /\ Typed(g)
  /\ \A f \in Data \cup {"vm_prev", "vm_next"}, n \in Node : g[f][n] = h[f][n]
  /\ Same(g, h, Slot \ (S \cup {Header}))

\* A reshaped heap may be reshaped again,
LEMMA ReshapedTwice ==
  ASSUME NEW h, NEW k, NEW g, NEW S, Reshaped(k, h, S), Reshaped(g, k, S)
  PROVE  Reshaped(g, h, S)
BY DEF Reshaped, Same

\* and is, where a node of S, or NULL, becomes the child of another.
LEMMA LinkReshapes ==
  ASSUME NEW h, Typed(h), NEW S, S \subseteq Node, NEW a \in S \cup {Header},
         NEW w \in Side, NEW b \in S \cup {Null}
  PROVE  /\ Reshaped(MakeChild(h, a, w, b), h, S)
         /\ Linked(MakeChild(h, a, w, b), h, a, w, b)
         /\ Typed(MakeChild(h, a, w, b))
<1> DEFINE k == MakeChild(h, a, w, b)
<1>1. a \in Slot /\ HeapDom(h)
  BY Constants DEF Typed
<1>2. Linked(k, h, a, w, b)
  BY <1>1, MakeChildLinked
<1> HIDE DEF k
<1>3. /\ \A f \in Data \cup {"vm_prev", "vm_next"} : k[f] = h[f]
      /\ Same(k, h, Slot \ {a, b})
      /\ b \in Node \cup {Null} /\ Typed(h) => Typed(k)
  BY <1>1, <1>2, LinkedSame
<1>4. Same(k, h, Slot \ (S \cup {Header}))
  <2>1. Slot \ (S \cup {Header}) \subseteq Slot \ {a, b}
    BY Constants
  <2> QED BY <1>3, <2>1 DEF Same
<1>5. Reshaped(k, h, S)
  BY <1>3, <1>4 DEF Reshaped
<1>6. Typed(k)
  BY <1>5 DEF Reshaped
<1> QED BY <1>2, <1>5, <1>6 DEF k

\* The nodes on top in the loop are no hooks: what they point to is not stale.
LEMMA TopFields ==
  ASSUME NEW h, Typed(h), NEW S, S \subseteq Node, NEW hk, NEW n, NEW k, NEW D,
         Splaying(Seen(h, hk), n, hk, k, S, D)
  PROVE  /\ n \in S /\ hk \in [Side -> Slot] /\ k \in Nat
         /\ \A w \in Side, x \in D[n] : /\ h[w][x] \in S \cup {Null}
                                        /\ h[w][x] # Null => h[w][x] \in D[n]
         /\ n \in D[n]
         /\ \A w \in Side : hk[w] \in S \cup {Header}
<1>1. /\ n \in S /\ k \in Nat /\ hk \in [Side -> S \cup {Header}]
      /\ Tree(Seen(h, hk), S, D)
  BY DEF Splaying
<1>2. hk \in [Side -> Slot] /\ HeapDom(h) /\ Null \notin S
  BY <1>1, Constants DEF Typed
<1>3. n \in D[n] /\ D[n] \subseteq S /\ \A w \in Side : hk[w] \notin D[n]
  BY SplayApart
<1>4. ASSUME NEW w \in Side, NEW x \in D[n]
      PROVE  /\ h[w][x] \in S \cup {Null}
             /\ h[w][x] # Null => h[w][x] \in D[n]
  <2>1. x \in S /\ x \in Slot
    BY <1>3, Constants
  <2>2. Seen(h, hk)[w][x] = h[w][x]
    BY <1>2, <1>3, <2>1, SeenIs
  <2>3. /\ Seen(h, hk)[w][x] \in S \cup {Null}
        /\ Seen(h, hk)[w][x] # Null => Seen(h, hk)[w][x] \in D[x]
    BY <1>1, <1>2, <2>1, TreeFacts
  <2>4. D[x] \subseteq D[n]
    BY <1>1 DEF Tree
  <2> QED BY <2>2, <2>3, <2>4
<1> QED BY <1>1, <1>2, <1>3, <1>4

\* The part of an iteration that follows the rotation
LEMMA LinkKeeps ==
  ASSUME NEW h, Typed(h), NEW S, S \subseteq Node, NEW m, NEW D,
         Splaying(Seen(h, hook), m, hook, key, S, D), NEW w \in Side,
         On(w, key, h.vm_start[m]),
         IF h[w][m] = Null THEN t' = m /\ heap' = h /\ hook' = hook
         ELSE LinkTo(h, w, m)
  PROVE  /\ heap' = h \/ Reshaped(heap', h, S)
         /\ t' \in S
         /\ \E E : Splaying(Seen(heap', hook'), t', hook', key, S, E)
<1>1. /\ m \in S /\ h[w][m] \in S \cup {Null} /\ hook[w] \in S \cup {Header}
      /\ HeapDom(h)
  BY TopFields DEF Typed
<1>2. CASE h[w][m] = Null
  <2>1. t' = m /\ heap' = h /\ hook' = hook
    BY <1>2
  <2> QED BY <1>1, <2>1
<1>3. CASE h[w][m] # Null
  <2> DEFINE g == MakeChild(h, hook[w], w, m)
             c == h[w][m]
             hk == [hook EXCEPT ![w] = m]
  <2>1. heap' = g /\ hook' = hk /\ t' = g[w][m]
    BY <1>3 DEF LinkTo
  <2>2. Reshaped(g, h, S) /\ Linked(g, h, hook[w], w, m)
    BY <1>1, LinkReshapes
  <2> HIDE DEF g
  <2>3. g[w][m] = c /\ \E E : Splaying(Seen(g, hk), c, hk, key, S, E)
    BY <1>1, <1>3, <2>2, SplayLink
  <2> QED BY <1>1, <1>3, <2>1, <2>2, <2>3
<1> QED BY <1>2, <1>3

\* g is h after the rotation of n with its child y on side w.
Rotated(g, h, n, w, y) ==
  /\ y = h[w][n]
  /\ \E k : Linked(k, h, n, w, h[Other(w)][y]) /\ Linked(g, k, y, Other(w), n)

\* A rotation keeps the tree of the loop.
LEMMA RotatedSplaying ==
  ASSUME NEW h, HeapDom(h), NEW S, S \subseteq Node, NEW D, NEW n, NEW hk, NEW a,
         Splaying(Seen(h, hk), n, hk, a, S, D), NEW w \in Side, NEW y, y # Null,
         NEW g, Rotated(g, h, n, w, y)
  PROVE  \E E : Splaying(Seen(g, hk), y, hk, a, S, E)
<1>1. y = h[w][n]
  BY DEF Rotated
<1>2. PICK k : Linked(k, h, n, w, h[Other(w)][y]) /\ Linked(g, k, y, Other(w), n)
  BY DEF Rotated
<1> QED BY <1>1, <1>2, SplayRotate

\* A rotation keeps what is under the top, which is then t's child.
LEMMA RotateKeeps ==
  ASSUME Typed(heap), NEW S, S \subseteq Node, NEW D,
         Splaying(Seen(heap, hook), t, hook, key, S, D), NEW w \in Side,
         heap[w][t] # Null
  PROVE  /\ Reshaped(Rotate(w), heap, S)
         /\ \E E : Splaying(Seen(Rotate(w), hook), heap[w][t], hook, key, S, E)
<1> DEFINE y == heap[w][t]
           o == Other(w)
           c == heap[o][y]
           h1 == MakeChild(heap, t, w, c)
           g == MakeChild(h1, y, o, t)
<1>1. Rotate(w) = g
  BY DEF Rotate
<1>2. o \in Side
  BY OnOrder
<1>3. t \in S /\ y \in S /\ y \in D[t] /\ t \in D[t]
  <2>1. t \in S /\ t \in D[t]
    BY TopFields
  <2>2. y \in S \cup {Null} /\ (y # Null => y \in D[t])
    BY <2>1, TopFields
  <2> QED BY <2>1, <2>2
<1>4. c \in S \cup {Null}
  BY <1>2, <1>3, TopFields
<1>5. Reshaped(h1, heap, S) /\ Linked(h1, heap, t, w, c)
  BY <1>3, <1>4, LinkReshapes
<1> HIDE DEF h1
<1>6. Reshaped(g, h1, S) /\ Linked(g, h1, y, o, t)
  <2>1. Typed(h1) /\ y \in S \cup {Header} /\ t \in S \cup {Null}
    BY <1>3, <1>5 DEF Reshaped
  <2> QED BY <1>2, <2>1, LinkReshapes
<1> HIDE DEF g
<1>7. HeapDom(heap)
  BY DEF Typed
<1>8. \E E : Splaying(Seen(g, hook), y, hook, key, S, E)
  <2>1. y # Null /\ Rotated(g, heap, t, w, y)
    BY <1>5, <1>6 DEF Rotated
  <2> HIDE DEF y
  <2> QED BY <1>7, <2>1, RotatedSplaying
<1>9. Reshaped(g, heap, S)
  BY <1>5, <1>6, ReshapedTwice
<1> QED BY <1>1, <1>8, <1>9

\* What no step of the splay touches
LEMMA SplayFrame ==
  ASSUME IInv, pc = "splay", heap' = heap \/ Reshaped(heap', heap, Here),
         UNCHANGED <<use, root, op, vm_addr, key, victim, cur, after, found,
                     draining, aborted>>,
         pc' \in {"splay", "run"}, t' \in Here, MainTree',
         op = "mod" /\ Quiet => t' = t /\ Quiet'
  PROVE  IInv'
<1>1. /\ Typed(heap) /\ Typed(heap')
      /\ \A f \in Data \cup {"vm_prev", "vm_next"}, n \in Node : heap'[f][n] = heap[f][n]
      /\ Same(heap', heap, Slot \ (Here \cup {Header}))
  BY DEF IInv, Types, Reshaped, Same, Typed
<1>2. /\ use' = use /\ root' = root /\ op' = op /\ vm_addr' = vm_addr /\ key' = key
      /\ victim' = victim /\ cur' = cur /\ after' = after /\ found' = found
      /\ draining' = draining /\ aborted' = aborted
  OBVIOUS
<1>3. /\ \A n \in Node : /\ heap'.vm_start[n] = heap.vm_start[n]
                         /\ heap'.vm_end[n] = heap.vm_end[n]
      /\ LiveOf(heap') = LiveOf(heap) /\ Ranges(heap', use')
  BY <1>1, <1>2, LiveNodes DEF IInv
<1>4. Members' = Members /\ Here' = Here /\ Aside' = Aside
  <2>1. Members' = Members
    BY <1>2, <1>3 DEF Members
  <2>2. victim \in Node \cup {Null} /\ Members \subseteq Node
    BY MembersIn DEF IInv, Types
  <2> QED BY <1>2, <1>3, <2>1, <2>2 DEF Here, Aside
<1>5. /\ Here \subseteq Node /\ Here \subseteq Members /\ Aside \subseteq Node
      /\ Null \notin Aside /\ Header \notin Aside /\ Null \notin Here /\ Null \notin Members
      /\ Members \subseteq Node
  BY MembersIn
<1>6. t \in Here
  BY DEF IInv, MainTree, Splaying
<1>7. Types'
  BY <1>1, <1>2, <1>5 DEF IInv, Types
<1>8. Listed(heap', Members')
  <2>1. Listed(heap, Members) /\ \A m \in Members : heap.vm_start[m] \in Nat
    BY DEF IInv, Listed
  <2>2. \A m \in Members, w \in Side : heap'[ListOf(w)][m] = heap[ListOf(w)][m]
    BY <1>1, <1>5 DEF ListOf
  <2> QED BY <1>3, <1>4, <1>5, <2>1, <2>2, ListedSame
<1>9. SideTree'
  <2> SUFFICES ASSUME victim # Null
               PROVE  \E E : Whole(heap', heap'.sp_r[victim], Aside, E)
    BY <1>2, <1>4 DEF SideTree
  <2>1. PICK E : Whole(heap, heap.sp_r[victim], Aside, E)
    BY DEF IInv, SideTree
  <2>2. victim \in Node /\ victim \notin Members
    BY DEF IInv, Types, Members
  <2>3. \A m \in Aside : m \notin Here
    <3> SUFFICES ASSUME NEW m \in Aside, m \in Here PROVE FALSE
      OBVIOUS
    <3>1. heap.vm_start[m] \in Nat /\ heap.vm_start[victim] \in Nat
      BY <1>1, <1>5, <2>2, Constants DEF Typed
    <3>2. /\ On("sp_l", heap.vm_start[m], heap.vm_start[victim])
          /\ On("sp_r", heap.vm_start[m], heap.vm_start[victim])
      BY DEF Here, Aside
    <3> QED BY <3>1, <3>2, OnApart DEF Side
  <2>4. Aside \cup {victim} \subseteq Slot \ (Here \cup {Header})
    BY <1>5, <2>2, <2>3, Constants
  <2>5. /\ \A m \in Aside, w \in Side : heap'[w][m] = heap[w][m]
        /\ \A m \in Aside : heap'.sp_p[m] = heap.sp_p[m] /\ heap'.vm_start[m] \in Nat
        /\ heap'.sp_r[victim] = heap.sp_r[victim]
    BY <1>1, <2>4, Constants DEF Same, Typed, Side
  <2>6. Whole(heap', heap.sp_r[victim], Aside, E)
    BY <1>3, <1>5, <2>1, <2>5, WholeSame
  <2> QED BY <2>5, <2>6
<1>10. Ops'
  <2>1. Ops /\ t # Null /\ t' # Null /\ pc' # "idle"
    BY <1>5, <1>6 DEF IInv
  <2>2. First => First'
    BY <1>2, <1>4, <2>1 DEF First
  <2>3. op # "none" /\ op \notin Merges
    BY <2>1 DEF Ops, AtNone, AtMerge
  <2>4. op = "insert" => AtInsert'
    <3> SUFFICES ASSUME op = "insert" PROVE AtInsert'
      OBVIOUS
    <3>1. AtInsert
      BY <2>1 DEF Ops
    <3>2. cur \notin Members
      BY DEF Members
    <3>3. cur \in Slot \ (Here \cup {Header})
      BY <1>5, <3>1, <3>2, MembersIn, Constants DEF AtInsert
    <3>4. \A f \in Link : heap'[f][cur] = Null
      BY <1>1, <3>1, <3>3, Constants DEF AtInsert, Same
    <3>5. cur \in Node
      BY <3>1, MembersIn DEF AtInsert
    <3> QED BY <1>2, <1>3, <2>2, <3>1, <3>4, <3>5 DEF AtInsert, Start
  <2>5. op = "remove" => AtRemove'
    BY <1>2, <1>3, <1>4, <1>5, <2>1, <2>2 DEF Ops, AtRemove, Start
  <2>6. op = "find" => AtFind'
    BY <1>2, <1>3, <1>4, <1>5, <2>1, <2>2 DEF Ops, AtFind, Holds, Start, End
  <2>7. op = "mod" => AtMod'
    <3>1. (\A n \in Members : ~Holds(n, vm_addr)) => (\A n \in Members : ~Holds(n, vm_addr))'
      BY <1>2, <1>3, <1>4, <1>5 DEF Holds, Start, End
    <3> QED BY <1>2, <2>1, <2>2, <3>1 DEF Ops, AtMod
  <2>8. op = "migrate" => AtMigrate'
    BY <1>2, <2>1 DEF Ops, AtMigrate
  <2>9. op = "join" => AtJoin'
    <3> SUFFICES ASSUME op = "join" PROVE AtJoin'
      OBVIOUS
    <3>1. AtJoin
      BY <2>1 DEF Ops
    <3>2. victim \in Node
      BY <3>1, MembersIn DEF AtJoin
    <3> QED BY <1>2, <1>3, <1>4, <1>5, <2>1, <3>1, <3>2 DEF AtJoin, Start, End
  <2> QED BY <1>2, <2>1, <2>3, <2>4, <2>5, <2>6, <2>7, <2>8, <2>9 DEF Ops, Merges
<1> QED BY <1>3, <1>7, <1>8, <1>9, <1>10 DEF IInv

\* Links have no part in which nodes are splayed.
LEMMA HereSame ==
  ASSUME IInv, heap' = heap \/ Reshaped(heap', heap, Here),
         UNCHANGED <<op, victim, cur>>
  PROVE  Here' = Here
<1>1. \A f \in Data, n \in Node : heap'[f][n] = heap[f][n]
  BY DEF Reshaped
<1>2. /\ \A n \in Node : heap'.vm_start[n] = heap.vm_start[n]
      /\ LiveOf(heap') = LiveOf(heap)
  <2>1. \A n \in Node : /\ heap'.vm_start[n] = heap.vm_start[n]
                        /\ heap'.vm_end[n] = heap.vm_end[n]
    BY <1>1 DEF Data
  <2> QED BY <2>1 DEF LiveOf
<1>3. Members' = Members /\ victim' = victim
  BY <1>2 DEF Members
<1>4. victim \in Node \cup {Null} /\ Members \subseteq Node
  BY MembersIn DEF IInv, Types
<1> QED BY <1>2, <1>3, <1>4 DEF Here

\* An iteration gives nodes here other children, and goes on with one of them.
LEMMA IterateIs ==
  ASSUME IInv, Iterate
  PROVE  /\ heap' = heap \/ Reshaped(heap', heap, Here)
         /\ t' \in Here
         /\ \E E : Splaying(Seen(heap', hook'), t', hook', key, Here, E)
<1>1. PICK w \in Side : Beyond(w, t) /\ heap[w][t] # Null /\ Descend(w)
  BY DEF Iterate
<1>2. /\ pc = "splay" /\ pc' = "splay"
      /\ UNCHANGED <<use, root, op, vm_addr, key, victim, cur, after, found,
                     draining, aborted>>
  BY DEF Iterate
<1>3. PICK D : Splaying(Seen(heap, hook), t, hook, key, Here, D)
  BY <1>2 DEF IInv, MainTree
<1>4. Typed(heap) /\ Here \subseteq Node
  BY MembersIn DEF IInv, Types
<1>5. \A v \in Side : \A n : Beyond(v, n) <=> On(v, key, heap.vm_start[n])
  BY DEF Beyond, On, Start
<1>6. CASE Far(w)
  <2> DEFINE h == Rotate(w)
             y == heap[w][t]
  <2>1. /\ Reshaped(h, heap, Here)
        /\ \E E : Splaying(Seen(h, hook), y, hook, key, Here, E)
    BY <1>1, <1>3, <1>4, RotateKeeps
  <2>2. Typed(h) /\ h.vm_start[y] = heap.vm_start[y]
    <3>1. y \in Node
      <4>1. t \in D[t]
        BY <1>3, <1>4, TopFields
      <4>2. y \in Here \cup {Null}
        BY <1>3, <1>4, <4>1, TopFields
      <4> QED BY <1>1, <1>4, <4>2
    <3> QED BY <2>1, <3>1 DEF Reshaped, Data
  <2>3. On(w, key, h.vm_start[y])
    BY <1>5, <1>6, <2>2 DEF Far
  <2>4. IF h[w][y] = Null THEN t' = y /\ heap' = h /\ hook' = hook ELSE LinkTo(h, w, y)
    BY <1>1, <1>6 DEF Descend
  <2> HIDE DEF h, y
  <2>5. /\ heap' = h \/ Reshaped(heap', h, Here)
        /\ t' \in Here
        /\ \E E : Splaying(Seen(heap', hook'), t', hook', key, Here, E)
    BY <1>4, <2>1, <2>2, <2>3, <2>4, LinkKeeps
  <2>6. Reshaped(heap', heap, Here)
    BY <2>1, <2>5, ReshapedTwice
  <2> QED BY <2>5, <2>6
<1>7. CASE ~Far(w)
  <2>1. IF heap[w][t] = Null THEN t' = t /\ heap' = heap /\ hook' = hook
        ELSE LinkTo(heap, w, t)
    BY <1>1, <1>7 DEF Descend
  <2>2. On(w, key, heap.vm_start[t])
    BY <1>1, <1>5
  <2> QED BY <1>3, <1>4, <2>1, <2>2, LinkKeeps
<1> QED BY <1>6, <1>7

\* An iteration of the loop keeps the invariant.
LEMMA StepIterate ==
  ASSUME IInv, Iterate
  PROVE  IInv'
<1>1. PICK w \in Side : Beyond(w, t) /\ heap[w][t] # Null /\ Descend(w)
  BY DEF Iterate
<1>2. /\ pc = "splay" /\ pc' = "splay"
      /\ UNCHANGED <<use, root, op, vm_addr, key, victim, cur, after, found,
                     draining, aborted>>
  BY DEF Iterate
<1>3. \A v \in Side : \A n : Beyond(v, n) <=> On(v, key, heap.vm_start[n])
  BY DEF Beyond, On, Start
<1>4. /\ heap' = heap \/ Reshaped(heap', heap, Here)
      /\ t' \in Here
      /\ \E E : Splaying(Seen(heap', hook'), t', hook', key, Here, E)
  BY IterateIs
<1>5. MainTree'
  <2>1. Here' = Here
    BY <1>2, <1>4, HereSame
  <2> QED BY <1>2, <1>4, <2>1 DEF MainTree
<1>6. ~(op = "mod" /\ Quiet)
  <2> SUFFICES ASSUME op = "mod", Quiet PROVE FALSE
    OBVIOUS
  <2>1. key = vm_addr /\ t = root
    BY DEF IInv, Ops, AtMod, First, Quiet
  <2> QED BY <1>1, <1>3, <2>1 DEF Quiet
<1> QED BY <1>2, <1>4, <1>5, <1>6, SplayFrame

\* g is h with no parent for a.
Orphaned(g, h, a) ==
  /\ Typed(g)
  /\ \A f \in Field : f # "sp_p" => g[f] = h[f]
  /\ \A n \in Slot : g.sp_p[n] = IF n = a THEN Null ELSE h.sp_p[n]

\* The new root gets no parent.
LEMMA OrphanIs ==
  ASSUME NEW h, Typed(h), NEW a \in Slot
  PROVE  Orphaned([h EXCEPT !.sp_p[a] = Null], h, a)
<1> DEFINE k == [h EXCEPT !.sp_p[a] = Null]
<1>1. HeapDom(h) /\ "sp_p" \in Field
  BY Constants DEF Typed
<1>2. /\ DOMAIN k = Field /\ \A f \in Field : f # "sp_p" => k[f] = h[f]
      /\ k.sp_p = [h.sp_p EXCEPT ![a] = Null]
  BY <1>1 DEF HeapDom
<1>3. DOMAIN h.sp_p = Slot
  BY <1>1 DEF HeapDom
<1> HIDE DEF k
<1>4. HeapDom(k) /\ \A n \in Slot : k.sp_p[n] = IF n = a THEN Null ELSE h.sp_p[n]
  BY <1>1, <1>2, <1>3 DEF HeapDom
<1>5. \A f \in Side \cup {"vm_prev", "vm_next"} \cup Data : f \in Field /\ f # "sp_p"
  BY DEF Side, Data, Field, Link
<1>6. \A n \in Slot : k.sp_p[n] \in Node \cup {Header, Null}
  BY <1>4 DEF Typed
<1>7. Typed(k)
  BY <1>2, <1>4, <1>5, <1>6 DEF Typed, Data
<1>8. Orphaned(k, h, a)
  BY <1>2, <1>4, <1>7 DEF Orphaned
<1> QED BY <1>8 DEF k

\* What Assemble makes of the heap
LEMMA AssembledIs ==
  ASSUME Typed(heap), NEW S, S \subseteq Node, NEW D,
         Splaying(Seen(heap, hook), t, hook, key, S, D), NEW g, g = Assembled
  PROVE  /\ Reshaped(g, heap, S)
         /\ Assembles(g, heap, hook, t)
         /\ \A w \in Side : g[w][Header] = Null
         /\ hook = HeaderHooks => \A w \in Side : g[w][t] = heap[w][t]
<1> DEFINE l == hook.sp_l
           r == hook.sp_r
           h1 == MakeChild(heap, r, "sp_r", heap.sp_l[t])
           h2 == MakeChild(h1, l, "sp_l", h1.sp_r[t])
           h3 == MakeChild(h2, t, "sp_l", h2.sp_r[Header])
           h4 == MakeChild(h3, t, "sp_r", h3.sp_l[Header])
           k == [h4 EXCEPT !.sp_p[t] = Null]
<1>1. g = Freed(k, Header)
  BY DEF Assembled
<1>2. /\ t \in S /\ t \in D[t] /\ l \in S \cup {Header} /\ r \in S \cup {Header}
      /\ hook \in [Side -> Slot]
      /\ "sp_l" \in Side /\ "sp_r" \in Side
  BY TopFields DEF Side
<1>3. heap.sp_l[t] \in S \cup {Null} /\ heap.sp_r[t] \in S \cup {Null}
  BY <1>2, TopFields
<1>4. /\ r # Header => heap.sp_r[Header] \in S \cup {Null}
      /\ l # Header => heap.sp_l[Header] \in S \cup {Null}
  <2>1. \A w \in Side : Seen(heap, hook)[w][Header] \in S \cup {Null}
    BY DEF Splaying
  <2>2. HeapDom(heap)
    BY DEF Typed
  <2>3. \A w \in Side : hook[w] # Header => Seen(heap, hook)[w][Header] = heap[w][Header]
    BY <1>2, <2>2, SeenIs, Constants
  <2> QED BY <1>2, <2>1, <2>3
<1>5. t # Header /\ t \in Slot /\ Header \in Slot /\ l \in Slot /\ r \in Slot
  BY <1>2, Constants
<1>6. Reshaped(h1, heap, S) /\ Linked(h1, heap, r, "sp_r", heap.sp_l[t]) /\ Typed(h1)
  BY <1>2, <1>3, LinkReshapes
<1> HIDE DEF h1
<1>7. /\ h1.sp_r[t] = IF t = r THEN heap.sp_l[t] ELSE heap.sp_r[t]
      /\ h1.sp_r[Header] = IF Header = r THEN heap.sp_l[t] ELSE heap.sp_r[Header]
      /\ h1.sp_l = heap.sp_l
  BY <1>2, <1>5, <1>6, LinkedTree
<1>8. h1.sp_r[t] \in S \cup {Null} /\ h1.sp_r[Header] \in S \cup {Null}
  BY <1>3, <1>4, <1>7
<1>9. Reshaped(h2, h1, S) /\ Linked(h2, h1, l, "sp_l", h1.sp_r[t]) /\ Typed(h2)
  BY <1>2, <1>6, <1>8, LinkReshapes
<1> HIDE DEF h2
<1>10. /\ h2.sp_l[Header] = IF Header = l THEN h1.sp_r[t] ELSE h1.sp_l[Header]
       /\ h2.sp_r = h1.sp_r
  BY <1>2, <1>5, <1>9, LinkedTree
<1>11. h2.sp_l[Header] \in S \cup {Null} /\ h2.sp_r[Header] \in S \cup {Null}
  BY <1>4, <1>7, <1>8, <1>10
<1>12. Reshaped(h3, h2, S) /\ Linked(h3, h2, t, "sp_l", h2.sp_r[Header]) /\ Typed(h3)
  BY <1>2, <1>9, <1>11, LinkReshapes
<1> HIDE DEF h3
<1>13. /\ h3.sp_l[Header] = h2.sp_l[Header]
       /\ h3.sp_l[t] = h2.sp_r[Header]
  BY <1>2, <1>5, <1>12, LinkedTree
<1>14. Reshaped(h4, h3, S) /\ Linked(h4, h3, t, "sp_r", h3.sp_l[Header]) /\ Typed(h4)
  BY <1>2, <1>11, <1>12, <1>13, LinkReshapes
<1> HIDE DEF h4
<1>15. h4.sp_r[t] = h3.sp_l[Header] /\ h4.sp_l[t] = h3.sp_l[t]
  BY <1>2, <1>5, <1>14, LinkedTree
<1>16. Reshaped(h4, heap, S)
  BY <1>6, <1>9, <1>12, <1>14, ReshapedTwice
<1>17. /\ HeapDom(k) /\ Typed(k)
       /\ \A f \in Field : f # "sp_p" => k[f] = h4[f]
       /\ \A n \in Slot : k.sp_p[n] = IF n = t THEN Null ELSE h4.sp_p[n]
  <2>1. Orphaned(k, h4, t)
    BY <1>5, <1>14, OrphanIs
  <2> HIDE DEF k
  <2> QED BY <2>1 DEF Orphaned, Typed
<1> HIDE DEF k
<1>18. /\ Same(g, k, Slot \ {Header}) /\ \A f \in Link : g[f][Header] = Null
       /\ Typed(g)
  BY <1>1, <1>5, <1>17, FreedIs DEF Cleared
<1>19. \A f \in Field : f # "sp_p" => \A n \in Node : g[f][n] = h4[f][n]
  BY <1>17, <1>18, Constants DEF Same
<1>20. \A n \in Node : g.sp_p[n] = IF n = t THEN Null ELSE h4.sp_p[n]
  <2>1. "sp_p" \in Field /\ Node \subseteq Slot \ {Header}
    BY Constants
  <2>2. \A n \in Node : g.sp_p[n] = k.sp_p[n]
    BY <1>18, <2>1 DEF Same
  <2> QED BY <1>17, <2>1, <2>2
<1>21. Reshaped(g, heap, S)
  <2>1. \A f \in Data \cup {"vm_prev", "vm_next"} : f \in Field /\ f # "sp_p"
    BY DEF Data, Field, Link
  <2>2. \A f \in Data \cup {"vm_prev", "vm_next"}, n \in Node : g[f][n] = heap[f][n]
    BY <1>16, <1>19, <2>1 DEF Reshaped
  <2>3. Same(g, heap, Slot \ (S \cup {Header}))
    <3>1. Same(h4, heap, Slot \ (S \cup {Header}))
      BY <1>16 DEF Reshaped
    <3>2. \A n \in Slot \ (S \cup {Header}) : n \in Node /\ n # t
      BY <1>2 DEF Slot
    <3>3. \A n \in Slot \ (S \cup {Header}), f \in Field : g[f][n] = h4[f][n]
      BY <1>19, <1>20, <3>2
    <3> QED BY <3>1, <3>3 DEF Same
  <2> QED BY <1>18, <2>2, <2>3 DEF Reshaped
<1>22. Assembles(g, heap, hook, t)
  <2>1. \A w \in Side, x \in Node : g[w][x] = h4[w][x]
    BY <1>19, Constants DEF Side
  <2>2. \A x \in Node : g.vm_start[x] = h4.vm_start[x]
    BY <1>19 DEF Field, Data
  <2> QED BY <1>6, <1>9, <1>12, <1>14, <1>20, <2>1, <2>2 DEF Assembles
<1>23. \A w \in Side : g[w][Header] = Null
  BY <1>18, Constants
<1>24. ASSUME hook = HeaderHooks
       PROVE  \A w \in Side : g[w][t] = heap[w][t]
  <2>1. l = Header /\ r = Header
    BY <1>24, <1>2 DEF HeaderHooks
  <2>2. h4.sp_l[t] = heap.sp_l[t]
    BY <1>5, <1>7, <1>10, <1>13, <1>15, <2>1
  <2>3. h4.sp_r[t] = heap.sp_r[t]
    BY <1>5, <1>7, <1>10, <1>13, <1>15, <2>1
  <2>4. t \in Node /\ "sp_l" \in Field /\ "sp_r" \in Field
    BY <1>2, Constants
  <2>5. g["sp_l"][t] = heap["sp_l"][t] /\ g["sp_r"][t] = heap["sp_r"][t]
    BY <1>19, <2>2, <2>3, <2>4
  <2> QED BY <2>5 DEF Side
<1> QED BY <1>21, <1>22, <1>23, <1>24

\* The end of the splay keeps the invariant.
LEMMA StepAssemble ==
  ASSUME IInv, Assemble
  PROVE  IInv'
<1>1. /\ pc = "splay" /\ pc' = "run" /\ t' = t /\ hook' = HeaderHooks /\ heap' = Assembled
      /\ UNCHANGED <<use, root, op, vm_addr, key, victim, cur, after, found,
                     draining, aborted>>
      /\ \A w \in Side : Beyond(w, t) => heap[w][t] = Null
  BY DEF Assemble, HeaderHooks
<1>2. PICK D : Splaying(Seen(heap, hook), t, hook, key, Here, D)
  BY <1>1 DEF IInv, MainTree
<1>3. Typed(heap) /\ Here \subseteq Node /\ HeapDom(heap)
  BY MembersIn DEF IInv, Types, Typed
<1>4. /\ Reshaped(heap', heap, Here)
      /\ Assembles(heap', heap, hook, t)
      /\ \A w \in Side : heap'[w][Header] = Null
      /\ hook = HeaderHooks => \A w \in Side : heap'[w][t] = heap[w][t]
  BY <1>1, <1>2, <1>3, AssembledIs
<1>5. \A w \in Side : On(w, key, heap.vm_start[t]) => heap[w][t] = Null
  BY <1>1 DEF Beyond, On, Start
<1>6. /\ \E E : Whole(heap', t, Here, E)
      /\ Nearest(heap', t, key, Here)
      /\ heap'.sp_p[t] = Null
  BY <1>2, <1>3, <1>4, <1>5, SplayAssemble
<1>7. Here' = Here /\ t \in Here /\ t # Null
  <2>1. Here' = Here
    BY <1>1, <1>4, HereSame
  <2> QED BY <1>2, <2>1, MembersIn DEF Splaying
<1>8. MainTree'
  <2>1. Top' = t
    BY <1>1, <1>7 DEF Top
  <2> QED BY <1>1, <1>4, <1>6, <1>7, <2>1 DEF MainTree
<1>9. ASSUME op = "mod", Quiet
      PROVE  Quiet'
  <2>1. \A n \in Node : heap'.vm_start[n] = heap.vm_start[n] /\ heap'.vm_end[n] = heap.vm_end[n]
    BY <1>4 DEF Reshaped, Data
  <2>2. LiveOf(heap') = LiveOf(heap)
    BY <2>1 DEF LiveOf
  <2>3. Members' = Members /\ Members \subseteq Node
    BY <1>1, <2>2, MembersIn DEF Members
  <2>4. root = t /\ root \in Node
    BY <1>3, <1>7, <1>9 DEF Quiet
  <2>5. \A w \in Side : heap'[w][root] = heap[w][root]
    BY <1>4, <1>9, <2>4 DEF Quiet
  <2> QED BY <1>1, <1>9, <2>1, <2>3, <2>4, <2>5 DEF Quiet, Holds, Start, End
<1>10. /\ t' \in Here /\ pc' \in {"splay", "run"}
       /\ op = "mod" /\ Quiet => t' = t /\ Quiet'
  BY <1>1, <1>7, <1>9
<1> QED BY <1>1, <1>4, <1>8, <1>10, SplayFrame

-----------------------------------------------------------------------------
(* What follows a splay: sp_tree_insert, sp_tree_find_and_lock              *)

\* After an operation's first splay
LEMMA RunFirst ==
  ASSUME IInv, pc = "run", First
  PROVE  /\ Fine(heap, t, Members)
         /\ t \in Members \cup {Null}
         /\ t # Null => Nearest(heap, t, vm_addr, Members)
         /\ root = Null <=> t = Null
         /\ t = Null => Members = {}
         /\ \A m \in Members : heap.vm_start[m] \in Nat
         /\ vm_addr \in Address
<1>1. /\ victim = Null /\ vm_addr # Null /\ key = vm_addr /\ (root = Null <=> t = Null)
  BY DEF First
<1>2. Top = t
  BY <1>1 DEF Top
<1>3. Fine(heap, t, Members)
  BY <1>1, <1>2, FineNow
<1>4. t # Null => Nearest(heap, t, vm_addr, Members)
  <2>1. Here = Members
    BY <1>1 DEF Here
  <2> QED BY <1>1, <2>1 DEF IInv, MainTree
<1> QED BY <1>1, <1>3, <1>4, FineFacts DEF IInv, Types

\* The rest of sp_tree_insert: the splay leaves the neighbour of the new address on
\* top, so that the assertion holds and the new node can go above it.
LEMMA StepInsert ==
  ASSUME IInv, Insert
  PROVE  IInv'
<1>1. pc = "run" /\ op = "insert" /\ AtInsert /\ First /\ use' = use /\ draining' = draining
  BY DEF Insert, IInv, Ops, AtInsert
<1>2. /\ cur \in LiveOf(heap) /\ vm_addr = Start(cur) /\ \A f \in Link : heap[f][cur] = Null
      /\ victim = Null
  BY <1>1 DEF AtInsert, First
<1>3. /\ Fine(heap, t, Members)
      /\ t \in Members \cup {Null}
      /\ t # Null => Nearest(heap, t, vm_addr, Members)
      /\ root = Null <=> t = Null
      /\ t = Null => Members = {}
  BY <1>1, RunFirst
<1>4. Members = LiveOf(heap) \ {cur} /\ Null \notin LiveOf(heap) /\ cur \in Node
  BY <1>1, <1>2, MembersIn, Constants DEF Members
<1>5. Typed(heap) /\ Ranges(heap, use) /\ Apart(heap) /\ found \in Node \cup {Null}
      /\ draining \in BOOLEAN /\ use \in {"regions", "faults"} /\ aborted = FALSE
      /\ \A w \in Side : heap[w][Header] = Null
  BY <1>3 DEF IInv, Types, Ranges, Fine
<1>6. ~InsertFails(heap, root, t, cur)
  <2> SUFFICES ASSUME root # Null, heap.vm_start[cur] = heap.vm_start[t]
               PROVE  FALSE
    BY DEF InsertFails
  <2>1. t \in Members
    BY <1>3
  <2>2. t \in LiveOf(heap) /\ t # cur
    BY <1>4, <2>1
  <2> QED BY <1>2, <1>5, <2>2, LiveFacts
<1>7. /\ heap' = InsertHelper(heap, root, t, cur) /\ root' = cur /\ Return
      /\ found' = found /\ aborted' = aborted
  BY <1>1, <1>6 DEF Insert
<1>8. Fine(heap', cur, LiveOf(heap)) /\ \A f \in Data : heap'[f] = heap[f]
  <2>1. CASE root = Null
    <3>1. heap' = heap /\ LiveOf(heap) = {cur}
      BY <1>2, <1>3, <1>4, <1>7, <2>1 DEF InsertHelper
    <3>2. Fine(heap, cur, {cur})
      BY <1>2, <1>4, <1>5, FineOne
    <3> QED BY <3>1, <3>2
  <2>2. CASE root # Null
    <3>1. LiveOf(heap) = Members \cup {cur} /\ cur \in Node \ Members
      BY <1>2, <1>4
    <3>2. heap.sp_p[cur] = Null
      BY <1>2, Constants
    <3>3. heap.vm_start[cur] # heap.vm_start[t]
      BY <1>6, <2>2 DEF InsertFails
    <3>4. Nearest(heap, t, heap.vm_start[cur], Members) /\ t # Null
      BY <1>2, <1>3, <2>2 DEF Start
    <3>5. Fine(heap, t, Members) /\ heap' = InsertHelper(heap, root, t, cur)
      BY <1>3, <1>7
    <3>7. cur \in Node \ Members
      BY <3>1
    <3>6. Topped(InsertHelper(heap, root, t, cur), heap, cur, Members)
      BY <2>2, <3>2, <3>3, <3>4, <3>5, <3>7, FineInsert
    <3> QED BY <3>1, <3>5, <3>6 DEF Topped
  <2> QED BY <2>1, <2>2
<1>9. LiveOf(heap') = LiveOf(heap) /\ Ranges(heap', use)
  BY <1>5, <1>8, LiveSame
<1> QED BY <1>1, <1>4, <1>5, <1>7, <1>8, <1>9, ToIdle

\* In an operation that inserts nothing the members are all that are live.
LEMMA AllMembers ==
  ASSUME victim = Null, op # "insert"
  PROVE  Members = LiveOf(heap)
BY Constants DEF Members, LiveOf

\* The neighbours on the list
LEMMA Neighbour ==
  ASSUME NEW h, NEW S, Listed(h, S), Null \notin S, NEW n \in S
  PROVE  LET p == h.vm_prev[n]
             q == h.vm_next[n]
         IN  /\ p = Null => \A x \in S : ~(h.vm_start[x] < h.vm_start[n])
             /\ p # Null => /\ p \in S /\ h.vm_start[p] < h.vm_start[n]
                            /\ \A x \in S : h.vm_start[x] < h.vm_start[n] =>
                                 x = p \/ h.vm_start[x] < h.vm_start[p]
             /\ q = Null => \A x \in S : ~(h.vm_start[n] < h.vm_start[x])
             /\ q # Null => /\ q \in S /\ h.vm_start[n] < h.vm_start[q]
                            /\ \A x \in S : h.vm_start[n] < h.vm_start[x] =>
                                 x = q \/ h.vm_start[q] < h.vm_start[x]
<1> DEFINE p == h.vm_prev[n]
           q == h.vm_next[n]
<1>1. NextTo(h, S, n, "sp_l", p) /\ NextTo(h, S, n, "sp_r", q)
  BY DEF Listed, Side, ListOf
<1>2. \A x, y : (On("sp_l", x, y) <=> x < y) /\ (On("sp_r", x, y) <=> y < x)
  BY DEF On
<1> HIDE DEF p, q
<1>3. /\ p = Null => \A x \in S : ~(h.vm_start[x] < h.vm_start[n])
      /\ p # Null => /\ p \in S /\ h.vm_start[p] < h.vm_start[n]
                     /\ \A x \in S : h.vm_start[x] < h.vm_start[n] =>
                          x = p \/ h.vm_start[x] < h.vm_start[p]
  BY <1>1, <1>2 DEF NextTo
<1>4. /\ q = Null => \A x \in S : ~(h.vm_start[n] < h.vm_start[x])
      /\ q # Null => /\ q \in S /\ h.vm_start[n] < h.vm_start[q]
                     /\ \A x \in S : h.vm_start[n] < h.vm_start[x] =>
                          x = q \/ h.vm_start[q] < h.vm_start[x]
  BY <1>1, <1>2 DEF NextTo
<1> QED BY <1>3, <1>4 DEF p, q

\* The node that holds an address is the nearest to it or the one before that.
LEMMA HitHolds ==
  ASSUME NEW h, Typed(h), Apart(h), NEW S, S \subseteq LiveOf(h), Listed(h, S),
         NEW a \in Nat, NEW r \in S, Nearest(h, r, a, S),
         NEW n \in S, h.vm_start[n] <= a, a < h.vm_end[n]
  PROVE  n = IF h.vm_start[r] <= a THEN r ELSE h.vm_prev[r]
<1>1. Null \notin S
  BY Constants DEF LiveOf
<1>2. \A m \in S : h.vm_start[m] \in Nat /\ h.vm_end[m] \in Nat /\ m \in LiveOf(h)
  BY LiveFacts
<1>3. \A l, m \in S : h.vm_start[l] < h.vm_start[m] => h.vm_end[l] <= h.vm_start[m]
  BY <1>2, LiveFacts
<1>4. \A m \in S : m = r \/ \/ h.vm_start[m] < h.vm_start[r] /\ h.vm_start[m] < a
                            \/ h.vm_start[r] < h.vm_start[m] /\ a < h.vm_start[m]
  BY DEF Nearest, On, Side
<1> DEFINE sn == h.vm_start[n]
           en == h.vm_end[n]
           sr == h.vm_start[r]
<1>5. /\ sn \in Nat /\ en \in Nat /\ sr \in Nat /\ sn <= a /\ a < en
      /\ n = r \/ (sn < sr /\ sn < a) \/ (sr < sn /\ a < sn)
      /\ sn < sr => en <= sr
  BY <1>2, <1>3, <1>4
<1>6. CASE sr <= a
  <2>1. n = r
    <3> HIDE DEF sn, en, sr
    <3> QED BY <1>5, <1>6
  <2> QED BY <1>6, <2>1
<1>7. CASE ~(sr <= a)
  <2> DEFINE p == h.vm_prev[r]
             s == h.vm_start[p]
  <2>1. sn < sr
    <3>1. n = r => sn = sr
      OBVIOUS
    <3> HIDE DEF sn, en, sr
    <3> QED BY <1>5, <1>7, <3>1
  <2>2. p # Null /\ p \in S /\ s < sr /\ (n = p \/ sn < s)
    BY <1>1, <2>1, Neighbour
  <2>3. /\ s \in Nat
        /\ sn < s => en <= s
        /\ p = r \/ (s < sr /\ s < a) \/ (sr < s /\ a < s)
        /\ p = r => s = sr
    BY <1>2, <1>3, <1>4, <2>2
  <2>4. n = p
    <3> HIDE DEF sn, en, sr, s, p
    <3> QED BY <1>5, <1>7, <2>2, <2>3
  <2> QED BY <1>7, <2>4
<1> QED BY <1>6, <1>7

\* The rest of sp_tree_find_and_lock: the address is in the root or its vm_prev.
LEMMA StepFind ==
  ASSUME IInv, Find
  PROVE  IInv'
<1>1. pc = "run" /\ op = "find" /\ AtFind /\ First /\ use' = use /\ draining' = draining
  BY DEF Find, IInv, Ops, AtFind
<1>2. PICK n \in Members : Holds(n, vm_addr)
  BY <1>1 DEF AtFind
<1>3. /\ Fine(heap, t, Members) /\ t \in Members /\ Nearest(heap, t, vm_addr, Members)
      /\ vm_addr \in Nat /\ t # Null
  BY <1>1, <1>2, RunFirst, MembersIn, Addresses
<1>4. /\ Typed(heap) /\ Ranges(heap, use) /\ Apart(heap) /\ draining \in BOOLEAN
      /\ use \in {"regions", "faults"} /\ aborted = FALSE
  BY DEF IInv, Types, Ranges
<1>5. Hit = n
  <2>1. n = IF heap.vm_start[t] <= vm_addr THEN t ELSE heap.vm_prev[t]
    BY <1>2, <1>3, <1>4, MembersIn, HitHolds DEF Holds, Start, End, Fine
  <2> QED BY <2>1 DEF Hit, Start, Prev
<1>6. /\ root' = t /\ ReturnNode(n) /\ heap' = heap /\ aborted' = aborted
  BY <1>2, <1>5, MembersIn DEF Find
<1>7. Members = LiveOf(heap)
  BY <1>1, AllMembers DEF First
<1>8. n \in Node /\ t \in Node
  BY <1>3, MembersIn
<1>9. found' = n /\ Return
  BY <1>6 DEF ReturnNode
<1> QED BY <1>1, <1>3, <1>4, <1>6, <1>7, <1>8, <1>9, ToIdle

\* The splayed neighbour becomes the root.
LEMMA StepMigrated ==
  ASSUME IInv, Migrated
  PROVE  IInv'
<1>1. /\ pc = "run" /\ op = "migrate" /\ AtMigrate /\ UNCHANGED <<use, heap, draining, aborted>>
      /\ root' = t /\ found' = t /\ Return
  BY DEF Migrated, IInv, Ops, ReturnNode
<1>2. victim = Null /\ t # Null /\ Top = t
  BY <1>1 DEF AtMigrate, Top
<1>3. Fine(heap, t, LiveOf(heap))
  BY <1>1, <1>2, FineNow, AllMembers
<1> QED BY <1>1, <1>2, <1>3, ToIdle DEF IInv, Types

-----------------------------------------------------------------------------
(* Removals                                                                *)

\* What the operation that removes victim knows of the node at hand
Removal(what, n, m, L) ==
  \/ what = "removed" /\ m = Null
  \/ /\ what \in {"new_next", "old_next"} /\ use = "faults"
     /\ m \in L /\ m # n /\ End(m) = Start(n)
     /\ what = "old_next" => \A x \in L \ {n} : Start(x) # End(n)
  \/ /\ what = "found" /\ use = "faults"
     /\ m \in L /\ m # n /\ End(n) = Start(m)

\* S_sp_tree_remove_helper: the list goes on around the node, its left subtree is
\* splayed, the right one is left aside.
LEMMA StepRemoveHelper ==
  ASSUME IInv, pc = "run", NEW n, n \in LiveOf(heap),
         Fine(heap, n, LiveOf(heap)), NEW what, NEW m,
         RemoveHelper(n, what, m), use' = use, draining' = draining,
         Removal(what, n, m, LiveOf(heap))
  PROVE  IInv'
<1> DEFINE S == LiveOf(heap)
           g == ListRemove(heap, n)
           l == {x \in S : On("sp_l", heap.vm_start[x], heap.vm_start[n])}
           r == {x \in S : On("sp_r", heap.vm_start[x], heap.vm_start[n])}
<1>1. /\ heap' = g /\ Splay("join", Start(n), heap.sp_l[n]) /\ victim' = n
      /\ cur' = m /\ after' = what /\ root' = root /\ vm_addr' = vm_addr
      /\ found' = found /\ aborted' = aborted
  BY DEF RemoveHelper
<1>2. /\ op' = "join" /\ key' = Start(n) /\ t' = heap.sp_l[n] /\ pc' \in {"run", "splay"}
  BY <1>1 DEF Splay
<1>3. /\ Typed(heap) /\ Ranges(heap, use) /\ Apart(heap) /\ S \subseteq Node
      /\ HeapDom(heap) /\ n \in Node /\ n # Null /\ Null \notin S /\ Header \notin S
      /\ Listed(heap, S)
  BY MembersIn, Constants DEF IInv, Types, Ranges, Typed, Fine, LiveOf
<1>4. /\ \A f \in Side \cup Data \cup {"sp_p"} : g[f] = heap[f]
      /\ Listed(g, S \ {n}) /\ Typed(g)
  <2>1. Delisted(g, heap, n, S)
    BY <1>3, ListRemoveIs
  <2> HIDE DEF g
  <2> QED BY <1>3, <2>1 DEF Delisted
<1> HIDE DEF g
<1>5. /\ LiveOf(g) = S /\ Ranges(g, use)
      /\ g.vm_start = heap.vm_start /\ g.vm_end = heap.vm_end
      /\ \A f \in Data : g[f] = heap[f]
  <2>1. \A f \in Data : g[f] = heap[f]
    BY <1>4
  <2> QED BY <1>3, <2>1, LiveSame
<1>6. \A x \in S : heap.vm_start[x] \in Nat
  BY <1>3, LiveFacts
<1>7. /\ Members' = S \ {n} /\ Here' = l /\ Aside' = r
      /\ l \subseteq Node /\ r \subseteq Node
  <2>1. Members' = S \ {n}
    BY <1>1, <1>2, <1>5 DEF Members
  <2>2. \A w \in Side : ~On(w, heap.vm_start[n], heap.vm_start[n])
    BY <1>6, OnOrder
  <2>3. Here' = {x \in S \ {n} : On("sp_l", g.vm_start[x], g.vm_start[n])}
    BY <1>1, <1>3, <2>1 DEF Here
  <2>4. Aside' = {x \in S \ {n} : On("sp_r", g.vm_start[x], g.vm_start[n])}
    BY <1>1, <1>3, <2>1 DEF Aside
  <2>5. \A x : x \in Here' <=> x \in l
    BY <1>5, <2>2, <2>3 DEF Side
  <2>6. \A x : x \in Aside' <=> x \in r
    BY <1>5, <2>2, <2>4 DEF Side
  <2> QED BY <1>3, <2>1, <2>5, <2>6
<1>8. PICK D : Whole(heap, n, S, D)
  BY DEF Fine
<1>9. /\ \E E : Whole(g, heap.sp_l[n], l, E)
      /\ \E E : Whole(g, heap.sp_r[n], r, E)
  <2>1. "sp_l" \in Side /\ "sp_r" \in Side
    BY DEF Side
  <2>2. /\ \A w \in Side : g[w] = heap[w]
        /\ g.sp_p = heap.sp_p
    BY <1>4
  <2>3. PICK E : Whole(heap, heap.sp_l[n], l, E)
    BY <1>3, <1>8, <2>1, WholeSplit
  <2>4. PICK F : Whole(heap, heap.sp_r[n], r, F)
    BY <1>3, <1>8, <2>1, WholeSplit
  <2>5. /\ Null \notin l /\ Null \notin r
        /\ \A x \in l : g.vm_start[x] \in Nat
        /\ \A x \in r : g.vm_start[x] \in Nat
    BY <1>3, <1>5, <1>6
  <2> HIDE DEF l, r
  <2>6. Whole(g, heap.sp_l[n], l, E)
    BY <1>5, <2>2, <2>3, <2>5, WholeSame
  <2>7. Whole(g, heap.sp_r[n], r, F)
    BY <1>5, <2>2, <2>4, <2>5, WholeSame
  <2> QED BY <2>6, <2>7
<1>10. Start(n) \in Address /\ Start(n) \in Nat
  BY <1>3, StartAddress, Addresses DEF Start
<1>11. Types'
  <2>1. heap.sp_l[n] \in Node \cup {Null}
    BY <1>3, Constants DEF Typed, Side
  <2>2. m \in Node \cup {Null}
    BY <1>3 DEF Removal
  <2> QED BY <1>1, <1>2, <1>3, <1>4, <1>10, <2>1, <2>2 DEF IInv, Types
<1>12. MainTree'
  <2>1. \A w \in Side : heap'[w][Header] = Null
    BY <1>1, <1>4 DEF Fine
  <2>2. heap.sp_l[n] = Null => Top' = Null
    BY <1>1, <1>2, <1>3 DEF Top
  <2> QED BY <1>1, <1>4, <1>7, <1>9, <1>10, <2>1, <2>2, ToTree
<1>13. SideTree'
  <2>1. g.sp_r = heap.sp_r
    BY <1>4 DEF Side
  <2> QED BY <1>1, <1>7, <1>9, <2>1 DEF SideTree
<1>14. Ranges(heap', use') /\ Listed(heap', Members')
  BY <1>1, <1>4, <1>5, <1>7
<1>15. AtJoin'
  <2>1. /\ pc' # "idle" /\ victim' \in LiveOf(heap') /\ key' = heap'.vm_start[victim']
    BY <1>1, <1>2, <1>5 DEF Start
  <2>2. \/ after' = "removed" /\ cur' = Null
        \/ /\ after' \in {"new_next", "old_next"} /\ use' = "faults"
           /\ cur' \in Members' /\ heap'.vm_end[cur'] = heap'.vm_start[victim']
           /\ after' = "old_next" =>
                \A x \in Members' : heap'.vm_start[x] # heap'.vm_end[victim']
        \/ /\ after' = "found" /\ use' = "faults"
           /\ cur' \in Members' /\ heap'.vm_end[victim'] = heap'.vm_start[cur']
    BY <1>1, <1>5, <1>7 DEF Removal, Start, End
  <2> QED BY <2>1, <2>2 DEF AtJoin, Start, End
<1> QED BY <1>2, <1>11, <1>12, <1>13, <1>14, <1>15 DEF IInv, Ops, Merges

\* The rest of sp_tree_remove: the address is that of the root.
LEMMA StepRemove ==
  ASSUME IInv, Remove
  PROVE  IInv'
<1>1. pc = "run" /\ op = "remove" /\ AtRemove /\ First /\ use' = use /\ draining' = draining
  BY DEF Remove, IInv, Ops, AtRemove
<1>2. PICK n \in Members : Start(n) = vm_addr
  BY <1>1 DEF AtRemove
<1>3. /\ Fine(heap, t, Members) /\ t \in Members /\ Nearest(heap, t, vm_addr, Members)
      /\ heap.vm_start[n] \in Nat /\ t # Null
  BY <1>1, <1>2, RunFirst, MembersIn
<1>4. n = t
  <2>1. \A w \in Side : ~On(w, heap.vm_start[n], vm_addr)
    BY <1>2, <1>3, OnOrder DEF Start
  <2> QED BY <1>2, <1>3, <2>1 DEF Nearest
<1>5. RemoveHelper(t, "removed", Null)
  BY <1>1, <1>2, <1>4 DEF Remove
<1>6. Members = LiveOf(heap)
  BY <1>1, AllMembers DEF First
<1>7. Removal("removed", t, Null, LiveOf(heap))
  BY DEF Removal
<1> QED BY <1>1, <1>3, <1>5, <1>6, <1>7, StepRemoveHelper

\* What the invariant says at the end of the splay of a removal
LEMMA AtJoinFacts ==
  ASSUME IInv, pc = "run", op = "join"
  PROVE  /\ AtJoin /\ Typed(heap) /\ victim \in Node /\ victim # Null
         /\ victim \notin Members /\ victim \in LiveOf(heap) /\ key = heap.vm_start[victim]
         /\ Members = Here \cup Aside /\ LiveOf(heap) = Members \cup {victim}
         /\ \E D : Whole(heap, t, Here, D)
         /\ \E E : Whole(heap, heap.sp_r[victim], Aside, E)
         /\ t # Null => /\ t \in Here /\ heap.sp_p[t] = Null
                        /\ \A m \in Here : m = t \/ heap.vm_start[m] < heap.vm_start[t]
         /\ t = Null => Here = {}
         /\ \A w \in Side : heap[w][Header] = Null
         /\ \A x \in Here : heap.vm_start[x] < heap.vm_start[victim]
         /\ \A x \in Aside : heap.vm_start[victim] < heap.vm_start[x]
<1>1. /\ AtJoin /\ Typed(heap) /\ Apart(heap) /\ MainTree /\ SideTree
      /\ Listed(heap, Members)
  BY DEF IInv, Ops, Types, Ranges
<1>2. /\ victim \in LiveOf(heap) /\ victim # Null /\ victim \in Node
      /\ key = heap.vm_start[victim] /\ victim \notin Members
  BY <1>1, Constants DEF AtJoin, LiveOf, Start, Members
<1>3. LiveOf(heap) = Members \cup {victim}
  BY <1>2 DEF Members
<1>4. /\ \A x \in Members : On("sp_l", heap.vm_start[x], heap.vm_start[victim]) <=>
                              heap.vm_start[x] < heap.vm_start[victim]
      /\ \A x \in Members : On("sp_r", heap.vm_start[x], heap.vm_start[victim]) <=>
                              heap.vm_start[victim] < heap.vm_start[x]
  BY DEF On
<1>5. Here = {x \in Members : On("sp_l", heap.vm_start[x], heap.vm_start[victim])}
  BY <1>2 DEF Here
<1>6. Aside = {x \in Members : On("sp_r", heap.vm_start[x], heap.vm_start[victim])}
  BY <1>2 DEF Aside
<1>7. Members = Here \cup Aside
  <2>1. ASSUME NEW x \in Members PROVE x \in Here \/ x \in Aside
    <3> DEFINE sx == heap.vm_start[x]
               sv == heap.vm_start[victim]
    <3>1. x \in LiveOf(heap) /\ x # victim
      BY <1>2, <1>3
    <3>2. sx \in Nat /\ sv \in Nat /\ sx # sv
      BY <1>1, <1>2, <3>1, LiveFacts
    <3>3. sx < sv \/ sv < sx
      <4> HIDE DEF sx, sv
      <4> QED BY <3>2
    <3> QED BY <1>4, <1>5, <1>6, <3>3
  <2> QED BY <2>1, MembersIn
<1>8. /\ Top = t
      /\ \E D : Whole(heap, t, Here, D)
      /\ \A w \in Side : heap[w][Header] = Null
      /\ t # Null => Nearest(heap, t, key, Here) /\ heap.sp_p[t] = Null
  <2>1. Top = t
    BY <1>2 DEF Top
  <2> QED BY <1>1, <2>1 DEF MainTree
<1>9. \E E : Whole(heap, heap.sp_r[victim], Aside, E)
  BY <1>1, <1>2 DEF SideTree
<1>10. /\ t # Null => t \in Here
       /\ t = Null => Here = {}
  BY <1>8, MembersIn, WholeFacts
<1>11. ASSUME t # Null, NEW m \in Here
       PROVE  m = t \/ heap.vm_start[m] < heap.vm_start[t]
  <2>1. m = t \/ \E w \in Side : /\ On(w, heap.vm_start[m], heap.vm_start[t])
                                 /\ On(w, heap.vm_start[m], heap.vm_start[victim])
    BY <1>2, <1>8, <1>11 DEF Nearest
  <2>2. On("sp_l", heap.vm_start[m], heap.vm_start[victim])
    BY <1>5, <1>11
  <2>3. heap.vm_start[m] \in Nat /\ heap.vm_start[victim] \in Nat
    BY <1>1, <1>2, <1>11, MembersIn, LiveFacts
  <2>4. m = t \/ On("sp_l", heap.vm_start[m], heap.vm_start[t])
    BY <2>1, <2>2, <2>3, OnApart DEF Side
  <2> QED BY <2>4 DEF On
<1>12. /\ \A x \in Here : heap.vm_start[x] < heap.vm_start[victim]
       /\ \A x \in Aside : heap.vm_start[victim] < heap.vm_start[x]
  BY <1>4, <1>5, <1>6
<1> QED BY <1>1, <1>2, <1>3, <1>7, <1>8, <1>9, <1>10, <1>11, <1>12

\* The two trees become one again.
LEMMA JoinedIs ==
  ASSUME IInv, pc = "run", op = "join", NEW h, h = Freed(Joined, victim)
  PROVE  /\ Fine(h, IF t # Null THEN t ELSE heap.sp_r[victim], Members)
         /\ LiveOf(h) = Members
         /\ \A n \in Members : /\ h.vm_start[n] = heap.vm_start[n]
                               /\ h.vm_end[n] = heap.vm_end[n]
<1> DEFINE r == heap.sp_r[victim]
           rt == IF t # Null THEN t ELSE r
           j == Joined
<1>1. /\ Typed(heap) /\ victim \in Node /\ victim # Null
      /\ victim \notin Members
      /\ Members = Here \cup Aside /\ LiveOf(heap) = Members \cup {victim}
      /\ \E D : Whole(heap, t, Here, D)
      /\ \E E : Whole(heap, r, Aside, E)
      /\ t # Null => /\ t \in Here /\ heap.sp_p[t] = Null
                     /\ \A m \in Here : m = t \/ heap.vm_start[m] < heap.vm_start[t]
      /\ t = Null => Here = {}
      /\ \A w \in Side : heap[w][Header] = Null
      /\ \A x \in Here : heap.vm_start[x] < heap.vm_start[victim]
      /\ \A x \in Aside : heap.vm_start[victim] < heap.vm_start[x]
  BY AtJoinFacts
<1>2. /\ Members \subseteq Node /\ Null \notin Members /\ Header \notin Members
      /\ Here \subseteq Node /\ Aside \subseteq Node
      /\ victim \in Slot /\ Members \subseteq Slot \ {victim} /\ Header \in Slot \ {victim}
  BY <1>1, MembersIn, Constants
<1>3. r \in Aside \cup {Null} /\ (r = Null => Aside = {})
  BY <1>1, <1>2, WholeFacts
<1>4. /\ \A x \in Members : heap.vm_start[x] \in Nat
      /\ \A x \in Here, m \in Aside : heap.vm_start[x] < heap.vm_start[m]
  <2>1. heap.vm_start[victim] \in Nat /\ \A x \in Members : heap.vm_start[x] \in Nat
    BY <1>1, <1>2, Constants DEF Typed
  <2>2. ASSUME NEW x \in Here, NEW m \in Aside
        PROVE  heap.vm_start[x] < heap.vm_start[m]
    <3> DEFINE a == heap.vm_start[x]
               b == heap.vm_start[victim]
               c == heap.vm_start[m]
    <3>1. a \in Nat /\ b \in Nat /\ c \in Nat /\ a < b /\ b < c
      BY <1>1, <2>1
    <3> HIDE DEF a, b, c
    <3>2. a < c
      BY <3>1
    <3> QED BY <3>2 DEF a, b, c
  <2> QED BY <2>1, <2>2
<1>5. /\ Typed(j)
      /\ \A f \in Field : f \notin {"sp_p", "sp_r"} => j[f] = heap[f]
      /\ \A n \in Slot : j.sp_r[n] = IF t # Null /\ n = t THEN r ELSE heap.sp_r[n]
      /\ \A n \in Slot : n # rt => j.sp_p[n] = IF n = r /\ t # Null THEN t ELSE heap.sp_p[n]
      /\ rt # Null => j.sp_p[rt] = Null
  <2>0. "sp_r" \in Side /\ "sp_r" \in Field /\ "sp_r" # "sp_p"
    BY Constants DEF Side
  <2>1. CASE t # Null
    <3> DEFINE k == [heap EXCEPT !.sp_p[t] = Null]
    <3>1. t \in Slot /\ t \in Here /\ t # r
      <4>1. t \in Here
        BY <1>1, <2>1
      <4>2. t \in Node
        BY <1>2, <4>1
      <4>3. t \notin Aside
        <5>1. t \in Aside => heap.vm_start[t] < heap.vm_start[t]
          BY <1>4, <4>1
        <5>2. heap.vm_start[t] \in Nat
          BY <1>1, <1>4, <4>1
        <5> QED BY <5>1, <5>2
      <4> QED BY <1>3, <2>1, <4>1, <4>2, <4>3, Constants
    <3>2. Orphaned(k, heap, t)
      BY <1>1, <3>1, OrphanIs
    <3>3. j = MakeChild(k, t, "sp_r", r)
      BY <2>1 DEF Joined
    <3> HIDE DEF k, j
    <3>4. /\ HeapDom(k) /\ Typed(k) /\ \A f \in Field : f # "sp_p" => k[f] = heap[f]
          /\ \A n \in Slot : k.sp_p[n] = IF n = t THEN Null ELSE heap.sp_p[n]
      BY <3>2 DEF Orphaned, Typed
    <3>5. Linked(j, k, t, "sp_r", r)
      BY <2>0, <3>1, <3>3, <3>4, MakeChildLinked
    <3>6. Typed(j)
      <4>1. r \in Node \cup {Null}
        BY <1>2, <1>3
      <4> QED BY <2>0, <3>1, <3>4, <3>5, <4>1, LinkedSame
    <3>7. /\ \A f \in Field : f # "sp_r" /\ f # "sp_p" => j[f] = k[f]
          /\ \A n \in Slot : j["sp_r"][n] = IF n = t THEN r ELSE k["sp_r"][n]
          /\ \A n \in Slot : j.sp_p[n] = IF n = t /\ k.sp_p[n] = r THEN Null
                                         ELSE IF n = r THEN t ELSE k.sp_p[n]
      BY <3>5 DEF Linked
    <3>8. \A f \in Field : f \notin {"sp_p", "sp_r"} => j[f] = heap[f]
      BY <3>4, <3>7
    <3>9. k["sp_r"] = heap["sp_r"]
      BY <2>0, <3>4
    <3>10. rt = t
      BY <2>1
    <3>11. /\ \A n \in Slot : n # t => j.sp_p[n] = IF n = r THEN t ELSE heap.sp_p[n]
           /\ j.sp_p[t] = Null
      BY <3>1, <3>4, <3>7
    <3> QED BY <2>1, <3>6, <3>7, <3>8, <3>9, <3>10, <3>11
  <2>2. CASE t = Null /\ r # Null
    <3> DEFINE k == [heap EXCEPT !.sp_p[r] = Null]
    <3>1. r \in Slot
      BY <1>2, <1>3, <2>2, Constants
    <3>2. Orphaned(k, heap, r)
      BY <1>1, <3>1, OrphanIs
    <3>3. j = k
      BY <2>2 DEF Joined
    <3>4. rt = r
      BY <2>2
    <3> HIDE DEF k, j, rt
    <3>5. /\ Typed(j) /\ \A f \in Field : f # "sp_p" => j[f] = heap[f]
          /\ \A n \in Slot : j.sp_p[n] = IF n = r THEN Null ELSE heap.sp_p[n]
      BY <3>2, <3>3 DEF Orphaned
    <3>6. j["sp_r"] = heap["sp_r"]
      BY <2>0, <3>5
    <3> QED BY <2>2, <3>1, <3>4, <3>5, <3>6
  <2>3. CASE t = Null /\ r = Null
    <3>1. j = heap /\ rt = Null
      BY <2>3 DEF Joined
    <3> HIDE DEF j, rt
    <3> QED BY <1>1, <2>3, <3>1
  <2> QED BY <2>1, <2>2, <2>3
<1> HIDE DEF j
<1>6. Cleared(h, j, victim)
  <2>1. HeapDom(j) /\ h = Freed(j, victim)
    BY <1>5 DEF j, Typed
  <2> QED BY <1>2, <2>1, FreedIs
<1>7. /\ \A f \in Field, n \in Slot \ {victim} : h[f][n] = j[f][n]
      /\ Typed(h) /\ h.vm_start[victim] = 0 /\ h.vm_end[victim] = 0
  BY <1>5, <1>6 DEF Cleared, Same
<1>8. /\ \A f \in Data \cup {"sp_l", "vm_prev", "vm_next"} : f \in Field /\ f \notin {"sp_p", "sp_r"}
      /\ "sp_r" \in Field /\ "sp_p" \in Field
  BY DEF Data, Field, Link, Side
<1>9. /\ \A f \in Data \cup {"sp_l", "vm_prev", "vm_next"}, n \in Slot \ {victim} :
           h[f][n] = heap[f][n]
      /\ \A n \in Slot \ {victim} :
           /\ h["sp_r"][n] = IF t # Null /\ n = t THEN r ELSE heap.sp_r[n]
           /\ n # rt => h["sp_p"][n] = IF n = r /\ t # Null THEN t ELSE heap.sp_p[n]
           /\ n = rt /\ rt # Null => h["sp_p"][n] = Null
  BY <1>5, <1>7, <1>8
<1>10. \A n \in Slot \ {victim} : /\ h.vm_start[n] = heap.vm_start[n]
                                  /\ h.vm_end[n] = heap.vm_end[n]
  BY <1>9 DEF Data
<1>11. LiveOf(h) = Members
  <2>1. \A n \in Node : n # victim => (n \in LiveOf(h) <=> n \in LiveOf(heap))
    BY <1>10, Constants DEF LiveOf
  <2>2. victim \notin LiveOf(h)
    BY <1>7 DEF LiveOf
  <2>3. LiveOf(h) \subseteq Node /\ LiveOf(heap) \subseteq Node
    BY DEF LiveOf
  <2> QED BY <1>1, <2>1, <2>2, <2>3
<1>12. rt \in Members \cup {Null} /\ (rt # Null => h.sp_p[rt] = Null)
  <2>1. rt \in Members \cup {Null}
    BY <1>1, <1>3
  <2> QED BY <1>2, <1>9, <2>1
<1>13. \A w \in Side : h[w][Header] = Null
  <2>1. Header # t \/ t = Null
    BY <1>1, <1>2
  <2>2. h["sp_l"][Header] = heap["sp_l"][Header] /\ h["sp_r"][Header] = heap["sp_r"][Header]
    BY <1>2, <1>9, <2>1
  <2> QED BY <1>1, <2>2 DEF Side
<1>14. Listed(h, Members)
  <2>1. \A m \in Members, w \in Side : h[ListOf(w)][m] = heap[ListOf(w)][m]
    BY <1>2, <1>9 DEF ListOf
  <2>2. Listed(heap, Members) /\ \A m \in Members : h.vm_start[m] = heap.vm_start[m]
    BY <1>2, <1>10 DEF IInv
  <2> QED BY <1>2, <1>4, <2>1, <2>2, ListedSame
<1>15. \E E : Whole(h, rt, Members, E)
  <2>1. CASE t # Null
    <3>1. rt = t
      BY <2>1
    <3>2. Joins(h, heap, t, r, Members)
      <4>1. \A n \in Members : h["sp_l"][n] = heap["sp_l"][n]
        BY <1>2, <1>9
      <4>2. \A n \in Members : h["sp_r"][n] = IF n = t THEN r ELSE heap.sp_r[n]
        BY <1>2, <1>9, <2>1
      <4>3. \A n \in Members : n # t => h["sp_p"][n] = IF n = r THEN t ELSE heap.sp_p[n]
        BY <1>2, <1>9, <2>1, <3>1
      <4>4. \A n \in Members : h.vm_start[n] = heap.vm_start[n]
        BY <1>2, <1>10
      <4> QED BY <4>1, <4>2, <4>3, <4>4 DEF Joins
    <3>3. PICK D : Whole(heap, t, Here, D)
      BY <1>1
    <3>4. PICK F : Whole(heap, r, Aside, F)
      BY <1>1
    <3>5. \A x \in Here : x = t \/ heap.vm_start[x] < heap.vm_start[t]
      BY <1>1, <2>1
    <3>6. Joins(h, heap, t, r, Here \cup Aside)
      BY <1>1, <3>2
    <3> HIDE DEF r, rt
    <3>7. \E E : Whole(h, t, Here \cup Aside, E)
      BY <1>2, <1>4, <2>1, <3>3, <3>4, <3>5, <3>6, WholeJoin
    <3> QED BY <1>1, <3>1, <3>7
  <2>2. CASE t = Null
    <3>1. rt = r /\ Members = Aside
      BY <1>1, <2>2
    <3>2. PICK F : Whole(heap, r, Aside, F)
      BY <1>1
    <3>3. \A m \in Aside, w \in Side : h[w][m] = heap[w][m]
      <4>1. \A m \in Aside : h["sp_l"][m] = heap["sp_l"][m] /\ h["sp_r"][m] = heap["sp_r"][m]
        BY <1>2, <1>9, <2>2, <3>1
      <4> QED BY <4>1 DEF Side
    <3>4. \A m \in Aside : m # r => h.sp_p[m] = heap.sp_p[m]
      BY <1>2, <1>9, <2>2, <3>1
    <3>5. \A m \in Aside : h.vm_start[m] = heap.vm_start[m] /\ h.vm_start[m] \in Nat
      BY <1>2, <1>4, <1>10, <3>1
    <3> HIDE DEF r, rt
    <3>6. Null \notin Aside
      BY <1>2, <3>1
    <3>7. Whole(h, r, Aside, F)
      BY <3>2, <3>3, <3>4, <3>5, <3>6, WholeSame
    <3> QED BY <3>1, <3>7
  <2> QED BY <2>1, <2>2
<1>16. Fine(h, rt, Members)
  BY <1>2, <1>7, <1>12, <1>13, <1>14, <1>15 DEF Fine
<1> QED BY <1>2, <1>10, <1>11, <1>16

-----------------------------------------------------------------------------
(* A range that changes                                                    *)

\* g is h but for field f of node n, which is v.
FieldSet(g, h, f, n, v) ==
  /\ Typed(g)
  /\ \A e \in Field : e # f => g[e] = h[e]
  /\ \A x \in Slot : g[f][x] = IF x = n THEN v ELSE h[f][x]

\* An assignment to vm_end,
LEMMA EndSet ==
  ASSUME NEW h, Typed(h), NEW n \in Node, NEW v \in Nat
  PROVE  FieldSet([h EXCEPT !.vm_end[n] = v], h, "vm_end", n, v)
<1> DEFINE k == [h EXCEPT !.vm_end[n] = v]
<1>1. HeapDom(h) /\ "vm_end" \in Field
  BY Constants DEF Typed
<1>2. /\ DOMAIN k = Field /\ \A f \in Field : f # "vm_end" => k[f] = h[f]
      /\ k.vm_end = [h.vm_end EXCEPT ![n] = v]
  BY <1>1 DEF HeapDom
<1>3. DOMAIN h.vm_end = Slot
  BY <1>1 DEF HeapDom
<1> HIDE DEF k
<1>4. HeapDom(k) /\ \A x \in Slot : k.vm_end[x] = IF x = n THEN v ELSE h.vm_end[x]
  BY <1>1, <1>2, <1>3 DEF HeapDom
<1>5. \A f \in Side \cup {"vm_prev", "vm_next", "sp_p", "vm_start", "vm_flags"} :
        f \in Field /\ f # "vm_end"
  BY DEF Side, Data, Field, Link
<1>6. \A x \in Slot : k.vm_end[x] \in Nat
  BY <1>4 DEF Typed
<1>7. Typed(k)
  BY <1>2, <1>4, <1>5, <1>6 DEF Typed
<1>8. FieldSet(k, h, "vm_end", n, v)
  BY <1>2, <1>4, <1>7 DEF FieldSet
<1> QED BY <1>8 DEF k

\* and one to vm_start
LEMMA StartSet ==
  ASSUME NEW h, Typed(h), NEW n \in Node, NEW v \in Nat
  PROVE  FieldSet([h EXCEPT !.vm_start[n] = v], h, "vm_start", n, v)
<1> DEFINE k == [h EXCEPT !.vm_start[n] = v]
<1>1. HeapDom(h) /\ "vm_start" \in Field
  BY Constants DEF Typed
<1>2. /\ DOMAIN k = Field /\ \A f \in Field : f # "vm_start" => k[f] = h[f]
      /\ k.vm_start = [h.vm_start EXCEPT ![n] = v]
  BY <1>1 DEF HeapDom
<1>3. DOMAIN h.vm_start = Slot
  BY <1>1 DEF HeapDom
<1> HIDE DEF k
<1>4. HeapDom(k) /\ \A x \in Slot : k.vm_start[x] = IF x = n THEN v ELSE h.vm_start[x]
  BY <1>1, <1>2, <1>3 DEF HeapDom
<1>5. \A f \in Side \cup {"vm_prev", "vm_next", "sp_p", "vm_end", "vm_flags"} :
        f \in Field /\ f # "vm_start"
  BY DEF Side, Data, Field, Link
<1>6. \A x \in Slot : k.vm_start[x] \in Nat
  BY <1>4 DEF Typed
<1>7. Typed(k)
  BY <1>2, <1>4, <1>5, <1>6 DEF Typed
<1>8. FieldSet(k, h, "vm_start", n, v)
  BY <1>2, <1>4, <1>7 DEF FieldSet
<1> QED BY <1>8 DEF k

\* g is h but for the range of node n.
RangeSet(g, h, n) ==
  /\ Typed(g)
  /\ \A f \in Link : g[f] = h[f]
  /\ \A x \in Node : x # n => g.vm_start[x] = h.vm_start[x] /\ g.vm_end[x] = h.vm_end[x]

\* Such an assignment is about the range of one node.
LEMMA FieldRange ==
  ASSUME NEW g, NEW h, NEW n \in Node, NEW v, NEW f \in {"vm_start", "vm_end"},
         FieldSet(g, h, f, n, v)
  PROVE  /\ RangeSet(g, h, n)
         /\ f = "vm_start" => g.vm_start[n] = v /\ g.vm_end = h.vm_end
         /\ f = "vm_end" => g.vm_end[n] = v /\ g.vm_start = h.vm_start
<1>1. \A e \in Link : e \in Field /\ e \notin {"vm_start", "vm_end"}
  BY DEF Link, Field, Side
<1>2. "vm_start" \in Field /\ "vm_end" \in Field /\ Node \subseteq Slot
  BY Constants
<1>3. CASE f = "vm_start"
  <2>1. g["vm_end"] = h["vm_end"]
    BY <1>2, <1>3 DEF FieldSet
  <2>2. \A x \in Node : g["vm_start"][x] = IF x = n THEN v ELSE h["vm_start"][x]
    BY <1>2, <1>3 DEF FieldSet
  <2>3. Typed(g) /\ \A e \in Link : g[e] = h[e]
    BY <1>1, <1>3 DEF FieldSet
  <2> QED BY <1>3, <2>1, <2>2, <2>3 DEF RangeSet
<1>4. CASE f = "vm_end"
  <2>1. g["vm_start"] = h["vm_start"]
    BY <1>2, <1>4 DEF FieldSet
  <2>2. \A x \in Node : g["vm_end"][x] = IF x = n THEN v ELSE h["vm_end"][x]
    BY <1>2, <1>4 DEF FieldSet
  <2>3. Typed(g) /\ \A e \in Link : g[e] = h[e]
    BY <1>1, <1>4 DEF FieldSet
  <2> QED BY <1>4, <2>1, <2>2, <2>3 DEF RangeSet
<1> QED BY <1>3, <1>4

\* Such a change keeps the tree if the ranges still do not overlap and are in
\* the same order: n's new range is where no other node's is.
LEMMA RangeChanged ==
  ASSUME NEW h, NEW g, NEW r, NEW L, L = LiveOf(h), Fine(h, r, L), Ranges(h, "faults"),
         NEW n \in L, RangeSet(g, h, n), g.vm_start[n] < g.vm_end[n],
         \A x \in L \ {n} : h.vm_start[x] < h.vm_start[n] => h.vm_end[x] <= g.vm_start[n],
         \A x \in L \ {n} : h.vm_start[n] < h.vm_start[x] => g.vm_end[n] <= h.vm_start[x],
         \A a \in Nat : g.vm_start[n] <= a /\ a < g.vm_end[n] => a \in Page
  PROVE  Fine(g, r, L) /\ Ranges(g, "faults") /\ LiveOf(g) = L
<1>1. /\ Typed(h) /\ Typed(g) /\ Apart(h) /\ n \in Node /\ L \subseteq Node
      /\ \A f \in Link : g[f] = h[f]
      /\ \A x \in L \ {n} : g.vm_start[x] = h.vm_start[x] /\ g.vm_end[x] = h.vm_end[x]
  BY MembersIn DEF Fine, Ranges, RangeSet, LiveOf
<1>2. LiveOf(g) = L
  <2>1. \A x \in Node : x # n => (x \in LiveOf(g) <=> x \in LiveOf(h))
    BY DEF LiveOf, RangeSet
  <2>2. n \in LiveOf(g) /\ n \in LiveOf(h)
    BY <1>1 DEF LiveOf
  <2>3. LiveOf(g) \subseteq Node /\ LiveOf(h) \subseteq Node
    BY DEF LiveOf
  <2> QED BY <2>1, <2>2, <2>3
<1>3. \A x \in L : /\ h.vm_start[x] \in Nat /\ h.vm_end[x] \in Nat
                   /\ g.vm_start[x] \in Nat /\ g.vm_end[x] \in Nat
                   /\ h.vm_start[x] < h.vm_end[x]
  BY <1>1, LiveFacts, Constants DEF Typed
<1>4. \A x \in L \ {n} : h.vm_start[x] < h.vm_start[n] \/ h.vm_start[n] < h.vm_start[x]
  <2> SUFFICES ASSUME NEW x \in L \ {n}
               PROVE  h.vm_start[x] < h.vm_start[n] \/ h.vm_start[n] < h.vm_start[x]
    OBVIOUS
  <2> DEFINE a == h.vm_start[x]
             b == h.vm_start[n]
  <2>1. a # b /\ a \in Nat /\ b \in Nat
    BY <1>1, <1>3, LiveFacts
  <2> HIDE DEF a, b
  <2>2. a < b \/ b < a
    BY <2>1
  <2> QED BY <2>2 DEF a, b
<1>5. ASSUME NEW l \in L, NEW m \in L, h.vm_start[l] < h.vm_start[m]
      PROVE  g.vm_start[l] < g.vm_start[m]
  <2> DEFINE sl == h.vm_start[l]
             sm == h.vm_start[m]
             el == h.vm_end[l]
             gl == g.vm_start[l]
             gm == g.vm_start[m]
             fl == g.vm_end[l]
  <2>1. /\ sl \in Nat /\ sm \in Nat /\ el \in Nat /\ gl \in Nat /\ gm \in Nat /\ fl \in Nat
        /\ sl < sm /\ sl < el /\ (l = m => sl = sm)
    BY <1>3, <1>5
  <2>2. /\ l # n => gl = sl
        /\ m # n => gm = sm
        /\ l # n /\ m = n => el <= gm
        /\ l = n /\ m # n => fl <= sm /\ gl < fl
    BY <1>1, <1>5
  <2> HIDE DEF sl, sm, el, gl, gm, fl
  <2>3. gl < gm
    BY <2>1, <2>2
  <2> QED BY <2>3 DEF gl, gm
<1>6. Fine(g, r, L)
  BY <1>1, <1>5, FineKeys
<1>7. Ranges(g, "faults")
  <2>1. \A x \in L \ {n} : g.vm_end[x] <= g.vm_start[n] \/ g.vm_end[n] <= g.vm_start[x]
    BY <1>1, <1>4
  <2>2. LiveOf(g) = L \cup {n} /\ L \subseteq LiveOf(h)
    BY <1>2
  <2> QED BY <1>1, <2>1, <2>2, RangesSet
<1> QED BY <1>2, <1>6, <1>7

\* What the program knows of the nodes next to one that touches another
LEMMA TouchNone ==
  ASSUME NEW h, Typed(h), Apart(h), NEW n \in LiveOf(h), NEW m \in LiveOf(h),
         h.vm_end[n] = h.vm_start[m], NEW x \in LiveOf(h)
  PROVE  /\ h.vm_start[n] < h.vm_start[m]
         /\ x # n /\ h.vm_start[x] < h.vm_start[m] => h.vm_start[x] < h.vm_start[n]
                                                     /\ h.vm_end[x] <= h.vm_start[n]
         /\ x # m /\ h.vm_start[n] < h.vm_start[x] => h.vm_start[m] < h.vm_start[x]
                                                     /\ h.vm_end[m] <= h.vm_start[x]
<1> DEFINE sn == h.vm_start[n]
           en == h.vm_end[n]
           sm == h.vm_start[m]
           em == h.vm_end[m]
           sx == h.vm_start[x]
           ex == h.vm_end[x]
<1>1. /\ sn \in Nat /\ en \in Nat /\ sm \in Nat /\ em \in Nat /\ sx \in Nat /\ ex \in Nat
      /\ sn < en /\ sm < em /\ sx < ex /\ en = sm
      /\ sx = sn => x = n
      /\ sx = sm => x = m
      /\ sx < sn => ex <= sn
      /\ sn < sx => en <= sx
      /\ sm < sx => em <= sx
  BY LiveFacts
<1> HIDE DEF sn, en, sm, em, sx, ex
<1>2. /\ sn < sm
      /\ x # n /\ sx < sm => sx < sn /\ ex <= sn
      /\ x # m /\ sn < sx => sm < sx /\ em <= sx
  BY <1>1
<1> QED BY <1>2 DEF sn, en, sm, em, sx, ex

\* The range of cur grows by that of the node that was removed.
LEMMA JoinedMerge ==
  ASSUME IInv, pc = "run", op = "join", use = "faults", cur \in Members,
         NEW r, NEW h, h = Freed(Joined, victim), Fine(h, r, Members),
         LiveOf(h) = Members,
         \A n \in Members : h.vm_start[n] = heap.vm_start[n] /\ h.vm_end[n] = heap.vm_end[n],
         NEW g, RangeSet(g, h, cur),
         \/ /\ End(cur) = Start(victim)
            /\ g.vm_start[cur] = Start(cur) /\ g.vm_end[cur] = End(victim)
         \/ /\ End(victim) = Start(cur)
            /\ g.vm_start[cur] = Start(victim) /\ g.vm_end[cur] = End(cur)
  PROVE  Fine(g, r, Members) /\ Ranges(g, "faults") /\ LiveOf(g) = Members
<1> DEFINE L == LiveOf(heap)
           c == cur
           v == victim
<1>1. /\ Typed(heap) /\ Apart(heap) /\ Ranges(heap, "faults") /\ Members \subseteq L
      /\ v \in L /\ c \in L /\ v \notin Members
  BY AtJoinFacts, MembersIn DEF IInv, Ranges
<1>2. Ranges(h, "faults")
  BY <1>1, MembersIn, RangesFewer
<1>3. \A x \in L : /\ heap.vm_start[x] \in Nat /\ heap.vm_end[x] \in Nat
                   /\ heap.vm_start[x] < heap.vm_end[x]
  BY <1>1, LiveFacts
<1>4. \A x \in Members : x # v /\ x \in L
  BY <1>1
<1>5. \A x, y \in L : heap.vm_start[x] < heap.vm_start[y] => heap.vm_end[x] <= heap.vm_start[y]
  BY <1>1, LiveFacts
<1> DEFINE sc == heap.vm_start[c]
           ec == heap.vm_end[c]
           sv == heap.vm_start[v]
           ev == heap.vm_end[v]
           sg == g.vm_start[c]
           eg == g.vm_end[c]
<1>6. /\ sc \in Nat /\ ec \in Nat /\ sv \in Nat /\ ev \in Nat /\ sc < ec /\ sv < ev
      /\ (ec = sv /\ sg = sc /\ eg = ev) \/ (ev = sc /\ sg = sv /\ eg = ec)
  BY <1>1, <1>3 DEF Start, End
<1>7. ASSUME NEW x \in Members \ {c}
      PROVE  /\ h.vm_start[x] < h.vm_start[c] => h.vm_end[x] <= sg
             /\ h.vm_start[c] < h.vm_start[x] => eg <= h.vm_start[x]
  <2> DEFINE sx == heap.vm_start[x]
             ex == heap.vm_end[x]
  <2>1. x \in L /\ x # v /\ x # c
    BY <1>4
  <2>2. /\ sx < sc => ex <= sc
        /\ sc < sx => ec <= sx
    BY <1>1, <1>5, <2>1
  <2>3. ec = sv => (sc < sx => ev <= sx)
    BY <1>1, <2>1, TouchNone
  <2>4. ev = sc => (sx < sc => ex <= sv)
    BY <1>1, <2>1, TouchNone
  <2>5. /\ sx < sc => ex <= sg
        /\ sc < sx => eg <= sx
    <3> HIDE DEF sx, ex, sc, ec, sv, ev, sg, eg
    <3> QED BY <1>6, <2>2, <2>3, <2>4
  <2> QED BY <2>5
<1>8. sg < eg
  <2> HIDE DEF sc, ec, sv, ev, sg, eg
  <2> QED BY <1>6
<1>9. ASSUME NEW a \in Nat, sg <= a, a < eg
      PROVE  a \in Page
  <2>1. (sc <= a /\ a < ec) \/ (sv <= a /\ a < ev)
    <3> HIDE DEF sc, ec, sv, ev, sg, eg
    <3> QED BY <1>6, <1>9
  <2> QED BY <1>1, <2>1 DEF Ranges, Owned
<1> HIDE DEF sg, eg
<1>10. /\ g.vm_start[c] < g.vm_end[c]
       /\ \A x \in Members \ {c} : h.vm_start[x] < h.vm_start[c] => h.vm_end[x] <= g.vm_start[c]
       /\ \A x \in Members \ {c} : h.vm_start[c] < h.vm_start[x] => g.vm_end[c] <= h.vm_start[x]
       /\ \A a \in Nat : g.vm_start[c] <= a /\ a < g.vm_end[c] => a \in Page
  BY <1>7, <1>8, <1>9 DEF sg, eg
<1> QED BY <1>2, <1>10, RangeChanged

\* The end of a removal: the predecessor is the last node of the left subtree and
\* has no right one, so that the right subtree can go there.  In a merge the node
\* at hand gets the range of the one removed.
LEMMA StepJoin ==
  ASSUME IInv, Join
  PROVE  IInv'
<1> DEFINE r == IF t # Null THEN t ELSE heap.sp_r[victim]
           h == Freed(Joined, victim)
<1>1. /\ pc = "run" /\ op = "join" /\ use' = use /\ draining' = draining
      /\ aborted' = aborted /\ root' = r
  BY DEF Join
<1>2. /\ Fine(h, r, Members) /\ LiveOf(h) = Members
      /\ \A n \in Members : /\ h.vm_start[n] = heap.vm_start[n]
                            /\ h.vm_end[n] = heap.vm_end[n]
  BY <1>1, JoinedIs
<1>3. /\ Typed(heap) /\ Apart(heap) /\ Ranges(heap, use) /\ draining \in BOOLEAN
      /\ aborted = FALSE /\ use \in {"regions", "faults"} /\ found \in Node \cup {Null}
      /\ vm_addr \in Address \cup {Null}
      /\ Members \subseteq LiveOf(heap) /\ Members \subseteq Node
  BY MembersIn DEF IInv, Types, Ranges
<1>4. /\ AtJoin /\ victim \in LiveOf(heap) /\ victim \notin Members
      /\ Members = Here \cup Aside
      /\ t # Null => /\ t \in Here
                     /\ \A m \in Here : m = t \/ heap.vm_start[m] < heap.vm_start[t]
      /\ t = Null => Here = {}
      /\ \A x \in Here : heap.vm_start[x] < heap.vm_start[victim]
      /\ \A x \in Aside : heap.vm_start[victim] < heap.vm_start[x]
  BY <1>1, AtJoinFacts
<1>5. Ranges(h, use)
  BY <1>2, <1>3, RangesFewer
<1>6. r \in Node \cup {Null} /\ Typed(h)
  BY <1>2, <1>3, FineFacts DEF Fine
<1>7. CASE after = "removed"
  <2>1. heap' = h /\ Return /\ found' = found
    BY <1>7 DEF Join
  <2> HIDE DEF h, r
  <2> QED BY <1>1, <1>2, <1>3, <1>5, <1>6, <2>1, ToIdle
<1>8. CASE after \in {"new_next", "old_next"}
  <2> DEFINE g == [h EXCEPT !.vm_end[cur] = End(victim)]
  <2>1. /\ heap' = g /\ pc' = "run" /\ Continue(after, cur)
        /\ vm_addr' = vm_addr /\ found' = found
    BY <1>8 DEF Join
  <2>2. /\ use = "faults" /\ cur \in Members /\ End(cur) = Start(victim)
        /\ after = "old_next" => \A m \in Members : Start(m) # End(victim)
    BY <1>4, <1>8 DEF AtJoin
  <2>3. End(victim) \in Nat /\ cur \in Node
    BY <1>3, <1>4, <2>2, LiveFacts DEF End
  <2> HIDE DEF h, r
  <2>4. FieldSet(g, h, "vm_end", cur, End(victim))
    BY <1>6, <2>3, EndSet
  <2> HIDE DEF g
  <2>5. /\ RangeSet(g, h, cur) /\ g.vm_end[cur] = End(victim) /\ g.vm_start = h.vm_start
    BY <2>3, <2>4, FieldRange
  <2>6. g.vm_start[cur] = Start(cur)
    BY <1>2, <2>2, <2>5 DEF Start
  <2>7. Fine(g, r, Members) /\ Ranges(g, "faults") /\ LiveOf(g) = Members
    BY <1>1, <1>2, <2>2, <2>5, <2>6, JoinedMerge DEF h
  <2>8. cur = r
    <3>1. cur \in LiveOf(heap) /\ heap.vm_end[cur] = heap.vm_start[victim]
      BY <1>3, <2>2 DEF Start, End
    <3>2. /\ heap.vm_start[cur] < heap.vm_start[victim]
          /\ heap.vm_start[cur] \in Nat /\ heap.vm_start[victim] \in Nat
      BY <1>3, <1>4, <3>1, TouchNone, LiveFacts
    <3>3. cur \in Here
      <4>1. ~(heap.vm_start[victim] < heap.vm_start[cur])
        BY <3>2
      <4> QED BY <1>4, <2>2, <4>1
    <3>4. t # Null /\ t \in Here /\ t \in Members /\ t \in LiveOf(heap) /\ t # victim
      BY <1>3, <1>4, <3>3
    <3>5. heap.vm_start[t] < heap.vm_start[victim] /\ heap.vm_start[t] \in Nat
      BY <1>3, <1>4, <3>4, LiveFacts
    <3>6. cur # t => heap.vm_start[cur] < heap.vm_start[t]
      BY <1>4, <3>3, <3>4
    <3>7. cur # t => heap.vm_start[victim] < heap.vm_start[t]
      BY <1>3, <1>4, <3>1, <3>4, <3>6, TouchNone
    <3>8. cur = t
      BY <3>2, <3>5, <3>7
    <3> QED BY <3>4, <3>8 DEF r
  <2>9. after = "old_next" => \A m \in Members : g.vm_start[m] # g.vm_end[cur]
    BY <1>2, <2>2, <2>5 DEF Start
  <2>10. after \in Merges /\ (after \in {"old_prev", "old_next"} => after = "old_next")
    BY <1>8 DEF Merges
  <2>11. /\ cur = root' /\ cur \in LiveOf(heap') /\ Fine(heap', cur, LiveOf(heap'))
         /\ Ranges(heap', use')
         /\ after \in {"old_prev", "old_next"} =>
              \A m \in LiveOf(heap') : heap'.vm_start[m] # heap'.vm_end[cur]
    BY <1>1, <2>1, <2>2, <2>7, <2>8, <2>9, <2>10
  <2> QED BY <1>1, <1>3, <2>1, <2>2, <2>10, <2>11, ToMerge
<1>9. CASE after = "found"
  <2> DEFINE g == [h EXCEPT !.vm_start[cur] = Start(victim)]
  <2>1. /\ heap' = g /\ found' = cur /\ Return
    BY <1>9 DEF Join, ReturnNode
  <2>2. /\ use = "faults" /\ cur \in Members /\ End(victim) = Start(cur)
    BY <1>4, <1>9 DEF AtJoin
  <2>3. Start(victim) \in Nat /\ cur \in Node
    BY <1>3, <1>4, <2>2, LiveFacts DEF Start
  <2> HIDE DEF h, r
  <2>4. FieldSet(g, h, "vm_start", cur, Start(victim))
    BY <1>6, <2>3, StartSet
  <2> HIDE DEF g
  <2>5. /\ RangeSet(g, h, cur) /\ g.vm_start[cur] = Start(victim) /\ g.vm_end = h.vm_end
    BY <2>3, <2>4, FieldRange
  <2>6. g.vm_end[cur] = End(cur)
    BY <1>2, <2>2, <2>5 DEF End
  <2>7. Fine(g, r, Members) /\ Ranges(g, "faults") /\ LiveOf(g) = Members
    BY <1>1, <1>2, <2>2, <2>5, <2>6, JoinedMerge DEF h
  <2> QED BY <1>1, <1>3, <1>6, <2>1, <2>2, <2>3, <2>7, ToIdle
<1> QED BY <1>4, <1>7, <1>8, <1>9 DEF AtJoin

-----------------------------------------------------------------------------
(* sp_tree_find_mod_and_lock                                               *)

\* What its splay leaves: the page is in no region, or in that of the root.
LEMMA RunMod ==
  ASSUME IInv, pc = "run", op = "mod"
  PROVE  /\ First /\ AtMod /\ use = "faults" /\ vm_addr \in Page /\ vm_addr \in Nat
         /\ Members = LiveOf(heap)
         /\ Fine(heap, t, LiveOf(heap)) /\ Ranges(heap, "faults") /\ Apart(heap)
         /\ t # Null => Nearest(heap, t, vm_addr, LiveOf(heap))
         /\ t \in LiveOf(heap) \cup {Null}
         /\ root = Null <=> t = Null
         /\ t = Null => LiveOf(heap) = {}
         /\ draining \in BOOLEAN /\ aborted = FALSE /\ found \in Node \cup {Null}
         /\ vm_addr \in Address
<1>1. AtMod /\ First /\ use = "faults" /\ vm_addr \in Page
  BY DEF IInv, Ops, AtMod
<1>2. Members = LiveOf(heap)
  BY <1>1, AllMembers DEF First
<1> QED BY <1>1, <1>2, RunFirst, Addresses DEF IInv, Types, Ranges

\* If no region holds the page there is no target,
LEMMA TargetNone ==
  ASSUME IInv, pc = "run", op = "mod", Target = Null
  PROVE  \A n \in LiveOf(heap) : ~Holds(n, vm_addr)
<1>1. /\ AtMod /\ Members = LiveOf(heap) /\ (root = Null <=> t = Null)
  BY RunMod
<1>2. ~Quiet
  <2> SUFFICES ASSUME Quiet PROVE FALSE
    OBVIOUS
  <2>1. t # Null /\ Holds(t, vm_addr)
    BY DEF Quiet
  <2> QED BY <2>1 DEF Target
<1> QED BY <1>1, <1>2 DEF AtMod

\* and if there is one it is the root.
LEMMA TargetRoot ==
  ASSUME IInv, NEW n, NEW f, NEW l, AtTarget(n, f, l)
  PROVE  /\ pc = "run" /\ op = "mod" /\ Quiet /\ n = t /\ n = root /\ n \in LiveOf(heap)
         /\ heap.vm_start[n] <= vm_addr /\ vm_addr < heap.vm_end[n]
         /\ heap.vm_start[n] \in Nat /\ heap.vm_end[n] \in Nat
         /\ f = (heap.vm_start[n] = vm_addr) /\ l = (heap.vm_end[n] = vm_addr + 1)
<1>1. pc = "run" /\ op = "mod" /\ n = Target /\ n # Null
      /\ f = (Start(n) = vm_addr) /\ l = (End(n) = vm_addr + 1)
  BY DEF AtTarget
<1>2. /\ AtMod /\ Members = LiveOf(heap) /\ t \in LiveOf(heap) \cup {Null}
      /\ Fine(heap, t, LiveOf(heap)) /\ Typed(heap) /\ Apart(heap)
  BY <1>1, RunMod DEF Fine
<1>3. t # Null /\ t \in LiveOf(heap) /\ (n = t \/ n = Prev(t)) /\ Holds(n, vm_addr)
  BY <1>1, <1>2 DEF Target
<1>4. n \in LiveOf(heap)
  <2>1. Listed(heap, LiveOf(heap)) /\ Null \notin LiveOf(heap)
    BY <1>2, Constants DEF Fine, LiveOf
  <2>2. heap.vm_prev[t] \in LiveOf(heap) \cup {Null}
    BY <1>3, <2>1, Neighbour
  <2> QED BY <1>1, <1>3, <2>2 DEF Prev
<1>5. Quiet
  BY <1>2, <1>3, <1>4 DEF AtMod
<1>6. t = root /\ Holds(t, vm_addr)
  BY <1>5 DEF Quiet
<1>7. n = t
  <2>1. Target = t
    BY <1>3, <1>6 DEF Target
  <2> QED BY <1>1, <2>1
<1>8. heap.vm_start[n] \in Nat /\ heap.vm_end[n] \in Nat
  BY <1>2, <1>4, LiveFacts
<1> QED BY <1>1, <1>3, <1>4, <1>5, <1>6, <1>7, <1>8 DEF Holds, Start, End

\* There is a vm_area for a page that is in no region.
LEMMA FreshIs ==
  ASSUME NEW M, Node \ (LiveOf(heap) \cup M) # {}
  PROVE  Fresh(M) \in Node \ (LiveOf(heap) \cup M)
<1>1. Live = LiveOf(heap)
  BY DEF Live, LiveOf, Start, End
<1> QED BY <1>1 DEF Fresh

\* The starts of regions of pages are pages, all different.
LEMMA StartPages ==
  ASSUME NEW h, Typed(h), Ranges(h, "faults")
  PROVE  /\ \A n \in LiveOf(h) : h.vm_start[n] \in Page
         /\ \A m, n \in LiveOf(h) : h.vm_start[m] = h.vm_start[n] => m = n
<1>1. \A n \in LiveOf(h) : /\ h.vm_start[n] \in Nat /\ h.vm_start[n] < h.vm_end[n]
                           /\ h.vm_start[n] <= h.vm_start[n]
  BY LiveFacts DEF Ranges
<1>2. \A n \in LiveOf(h) : h.vm_start[n] \in Page
  BY <1>1 DEF Ranges, Owned
<1> QED BY <1>2, LiveFacts DEF Ranges

\* k is h where node z has the range s to e, and the tree under r stays.
Ranged(k, h, r, z, s, e) ==
  /\ Typed(k) /\ LiveOf(k) = LiveOf(h) \cup {z} /\ Ranges(k, "faults")
  /\ k.vm_start[z] = s /\ k.vm_end[z] = e
  /\ \A n \in Node \ {z} : k.vm_start[n] = h.vm_start[n] /\ k.vm_end[n] = h.vm_end[n]
  /\ \A l \in Link : k[l][z] = Null
  /\ Same(k, h, Slot \ {z})
  /\ Fine(h, r, LiveOf(h)) => Fine(k, r, LiveOf(h))

\* Node z gets a range that is in no other region.
LEMMA NewRange ==
  ASSUME NEW h, NEW r, Typed(h), Ranges(h, "faults"), NEW z \in Node \ LiveOf(h),
         NEW s \in Nat, NEW e \in Nat, s < e, NEW f \in Flag,
         \A n \in LiveOf(h) : h.vm_end[n] <= s \/ e <= h.vm_start[n],
         \A a \in Nat : s <= a /\ a < e => a \in Page
  PROVE  Ranged(NodeInit(h, z, s, e, f), h, r, z, s, e)
<1> DEFINE k == NodeInit(h, z, s, e, f)
           L == LiveOf(h)
<1>1. Made(k, h, z, s, e) /\ Typed(k)
  BY Constants, NodeInitIs DEF Typed
<1> HIDE DEF k
<1>2. /\ k.vm_start[z] = s /\ k.vm_end[z] = e /\ \A l \in Link : k[l][z] = Null
      /\ Same(k, h, Slot \ {z})
  BY <1>1 DEF Made
<1>3. \A n \in Node \ {z} : k.vm_start[n] = h.vm_start[n] /\ k.vm_end[n] = h.vm_end[n]
  <2>1. \A n \in Node \ {z} : n \in Slot \ {z}
    BY Constants
  <2> QED BY <1>2, <2>1, SameFields
<1>4. L \subseteq Node /\ z \notin L
  BY DEF LiveOf
<1>5. LiveOf(k) = L \cup {z}
  <2>1. \A n \in Node : n # z => (n \in LiveOf(k) <=> n \in LiveOf(h))
    BY <1>3, Constants DEF LiveOf
  <2>2. z \in LiveOf(k) /\ LiveOf(k) \subseteq Node
    BY <1>2 DEF LiveOf
  <2> QED BY <1>4, <2>1, <2>2
<1>6. Ranges(k, "faults")
  <2>1. \A n \in L \ {z} : k.vm_start[n] = h.vm_start[n] /\ k.vm_end[n] = h.vm_end[n]
    BY <1>3, <1>4
  <2>2. \A n \in L \ {z} : k.vm_end[n] <= k.vm_start[z] \/ k.vm_end[z] <= k.vm_start[n]
    BY <1>2, <2>1
  <2>3. \A a \in Nat : k.vm_start[z] <= a /\ a < k.vm_end[z] => a \in Page
    BY <1>2
  <2> QED BY <1>1, <1>5, <2>1, <2>2, <2>3, RangesSet
<1>7. ASSUME Fine(h, r, L) PROVE Fine(k, r, L)
  <2>1. L \cup {Header} \subseteq Slot \ {z}
    BY <1>4, Constants
  <2>2. Same(k, h, L \cup {Header})
    BY <1>2, <2>1 DEF Same
  <2> QED BY <1>1, <1>7, <2>2, FineSame
<1> HIDE DEF k
<1>8. Ranged(k, h, r, z, s, e)
  BY <1>1, <1>2, <1>3, <1>5, <1>6, <1>7 DEF Ranged
<1> QED BY <1>8 DEF k

\* g has the nodes of L and z above them.
PageAdded(g, z, L) ==
  /\ Fine(g, z, L \cup {z})
  /\ Ranges(g, "faults")
  /\ LiveOf(g) = L \cup {z}

\* A page in no region gets one, above the tree of which the node on top is the
\* nearest to the page.
LEMMA PageOnTop ==
  ASSUME NEW h, NEW b, Fine(h, b, LiveOf(h)), b # Null, Ranges(h, "faults"),
         NEW a \in Page,
         \A x \in LiveOf(h) : ~(h.vm_start[x] <= a /\ a < h.vm_end[x]),
         Nearest(h, b, a, LiveOf(h)),
         NEW z \in Node \ LiveOf(h), NEW f \in Flag, NEW r, r # Null
  PROVE  /\ ~InsertFails(NodeInit(h, z, a, a + 1, f), r, b, z)
         /\ PageAdded(InsertHelper(NodeInit(h, z, a, a + 1, f), r, b, z), z, LiveOf(h))
<1> DEFINE L == LiveOf(h)
           k == NodeInit(h, z, a, a + 1, f)
           g == InsertHelper(k, r, b, z)
<1>1. /\ a \in Nat /\ a + 1 \in Nat /\ a < a + 1
      /\ Typed(h) /\ Apart(h) /\ L \subseteq Node /\ z \in Node /\ z \notin L
      /\ b \in L
  <2>1. a \in Nat /\ a + 1 \in Nat /\ a < a + 1
    BY NodeAssumption
  <2>2. Typed(h) /\ Apart(h) /\ L \subseteq Node
    BY DEF Fine, Ranges
  <2>3. b \in L
    BY FineFacts
  <2> QED BY <2>1, <2>2, <2>3
<1>2. \A x \in L : /\ h.vm_start[x] \in Nat /\ h.vm_end[x] \in Nat
                   /\ h.vm_start[x] < h.vm_end[x]
  BY <1>1, LiveFacts
<1>3. \A x \in L : h.vm_end[x] <= a \/ a + 1 <= h.vm_start[x]
  BY <1>1, <1>2
<1>4. \A y \in Nat : a <= y /\ y < a + 1 => y \in Page
  <2> SUFFICES ASSUME NEW y \in Nat, a <= y, y < a + 1 PROVE y \in Page
    OBVIOUS
  <2>1. y = a
    BY <1>1
  <2> QED BY <2>1
<1>5. Ranged(k, h, b, z, a, a + 1)
  BY <1>1, <1>3, <1>4, NewRange
<1> HIDE DEF k
<1>6. /\ Fine(k, b, L) /\ k.vm_start[z] = a /\ k["sp_p"][z] = Null
      /\ LiveOf(k) = L \cup {z} /\ Ranges(k, "faults")
      /\ \A x \in L : k.vm_start[x] = h.vm_start[x]
  BY <1>1, <1>5, Constants DEF Ranged
<1>7. k.vm_start[z] # k.vm_start[b]
  <2>1. h.vm_start[b] # a
    BY <1>1, <1>2
  <2> QED BY <1>1, <1>6, <2>1
<1>8. Nearest(k, b, k.vm_start[z], L)
  BY <1>1, <1>6 DEF Nearest
<1>9. Topped(g, k, z, L)
  BY <1>1, <1>6, <1>7, <1>8, FineInsert
<1>10. ~InsertFails(k, r, b, z)
  BY <1>7 DEF InsertFails
<1> HIDE DEF g
<1>11. LiveOf(g) = L \cup {z} /\ Ranges(g, "faults")
  <2>1. \A d \in Data : g[d] = k[d]
    BY <1>9 DEF Topped
  <2> QED BY <1>6, <2>1, LiveSame
<1>12. PageAdded(g, z, L)
  BY <1>9, <1>11 DEF Topped, PageAdded
<1> QED BY <1>10, <1>12 DEF k, g

\* There is a vm_area for a page that no region has.
LEMMA FreshPage ==
  ASSUME NEW h, Typed(h), Ranges(h, "faults"), LiveOf(h) = LiveOf(heap), NEW a \in Page,
         \A x \in LiveOf(h) : h.vm_start[x] # a
  PROVE  Fresh({}) \in Node \ LiveOf(h)
<1>1. LiveOf(h) \in SUBSET Node
  BY DEF LiveOf
<1>2. /\ \A n \in LiveOf(h) : h.vm_start[n] \in Page /\ h.vm_start[n] # a
      /\ \A m, n \in LiveOf(h) : h.vm_start[m] = h.vm_start[n] => m = n
  BY StartPages
<1>3. Node \ LiveOf(h) # {}
  BY <1>1, <1>2, SpareOne
<1>4. Node \ (LiveOf(heap) \cup {}) # {}
  BY <1>3
<1> QED BY <1>4, FreshIs

\* The flags of a heap are among those that occur.
LEMMA FlagsOf ==
  /\ READ \in Flag
  /\ \A h, n : Typed(h) /\ n \in Node => h.vm_flags[n] \in Flag
BY Constants DEF Flag, Typed

\* A page in an empty tree
LEMMA StepFirstNode ==
  ASSUME IInv, FirstNode
  PROVE  IInv'
<1> DEFINE z == Fresh({})
           k == NodeInit(heap, z, vm_addr, vm_addr + 1, READ)
<1>1. /\ pc = "run" /\ op = "mod" /\ root = Null /\ heap' = k /\ root' = z
      /\ found' = z /\ Return /\ UNCHANGED <<use, draining, aborted>>
  BY DEF FirstNode, ReturnNode
<1>2. /\ use = "faults" /\ vm_addr \in Page /\ vm_addr \in Nat /\ t = Null
      /\ LiveOf(heap) = {} /\ Fine(heap, t, LiveOf(heap)) /\ Ranges(heap, "faults")
      /\ draining \in BOOLEAN /\ aborted = FALSE
  BY <1>1, RunMod
<1>3. Typed(heap) /\ \A w \in Side : heap[w][Header] = Null
  BY <1>2 DEF Fine
<1>4. z \in Node \ LiveOf(heap)
  BY <1>2, <1>3, FreshPage
<1> HIDE DEF z
<1>5. \A y \in Nat : vm_addr <= y /\ y < vm_addr + 1 => y \in Page
  <2> SUFFICES ASSUME NEW y \in Nat, vm_addr <= y, y < vm_addr + 1 PROVE y \in Page
    OBVIOUS
  <2>1. y = vm_addr
    BY <1>2
  <2> QED BY <1>2, <2>1
<1>6. Ranged(k, heap, t, z, vm_addr, vm_addr + 1)
  <2>1. vm_addr + 1 \in Nat /\ vm_addr < vm_addr + 1
    BY <1>2
  <2> QED BY <1>2, <1>3, <1>4, <1>5, <2>1, FlagsOf, NewRange
<1> HIDE DEF k
<1>7. /\ Typed(k) /\ LiveOf(k) = {z} /\ Ranges(k, "faults")
      /\ \A l \in Link : k[l][z] = Null /\ Same(k, heap, Slot \ {z})
  BY <1>2, <1>6 DEF Ranged
<1>8. \A w \in Side : k[w][Header] = Null
  <2>1. Header \in Slot \ {z}
    BY <1>4, Constants
  <2>2. \A w \in Side : w \in Field
    BY Constants
  <2> QED BY <1>3, <1>7, <2>1, <2>2, Constants DEF Same
<1>9. Fine(k, z, {z})
  BY <1>4, <1>7, <1>8, FineOne
<1>10. /\ Fine(heap', root', LiveOf(heap')) /\ Ranges(heap', use') /\ root' \in Node
       /\ found' \in Node
  BY <1>1, <1>2, <1>4, <1>7, <1>9
<1> QED BY <1>1, <1>2, <1>10, ToIdle

\* A page in no region
LEMMA StepNewNode ==
  ASSUME IInv, NewNode
  PROVE  IInv'
<1> DEFINE z == Fresh({})
           h == NodeInit(heap, z, vm_addr, vm_addr + 1, READ)
           g == InsertHelper(h, root, t, z)
<1>1. pc = "run" /\ op = "mod" /\ root # Null /\ Target = Null
      /\ UNCHANGED <<use, draining>>
  BY DEF NewNode
<1>2. /\ use = "faults" /\ vm_addr \in Page /\ vm_addr \in Nat /\ t # Null
      /\ Fine(heap, t, LiveOf(heap)) /\ Ranges(heap, "faults")
      /\ Nearest(heap, t, vm_addr, LiveOf(heap))
      /\ draining \in BOOLEAN /\ aborted = FALSE /\ found \in Node \cup {Null}
      /\ vm_addr \in Address /\ Apart(heap)
  BY <1>1, RunMod
<1>3. \A x \in LiveOf(heap) : ~(heap.vm_start[x] <= vm_addr /\ vm_addr < heap.vm_end[x])
  BY <1>1, TargetNone DEF Holds, Start, End
<1>4. z \in Node \ LiveOf(heap)
  <2>1. Typed(heap)
    BY <1>2 DEF Fine
  <2>2. \A x \in LiveOf(heap) : heap.vm_start[x] # vm_addr
    BY <1>2, <1>3, <2>1, LiveFacts
  <2> QED BY <1>2, <2>1, <2>2, FreshPage
<1> HIDE DEF z
<1>5. ~InsertFails(h, root, t, z) /\ PageAdded(g, z, LiveOf(heap))
  <2>1. READ \in Flag
    BY FlagsOf
  <2>2. /\ Fine(heap, t, LiveOf(heap)) /\ Ranges(heap, "faults") /\ vm_addr \in Page
        /\ Nearest(heap, t, vm_addr, LiveOf(heap)) /\ t # Null /\ root # Null
    BY <1>1, <1>2
  <2> QED BY <1>3, <1>4, <2>1, <2>2, PageOnTop
<1>6. /\ heap' = g /\ root' = z /\ pc' = "run" /\ Continue("new_prev", z)
      /\ UNCHANGED <<vm_addr, found, aborted>>
  <2>1. InsertFails(h, root, t, z) \/ (/\ heap' = g /\ root' = z /\ pc' = "run"
                                     /\ Continue("new_prev", z)
                                     /\ UNCHANGED <<vm_addr, found, aborted>>)
    <3> USE DEF z
    <3> HIDE DEF g, h
    <3> QED BY DEF NewNode, g, h
  <2> QED BY <1>5, <2>1
<1> HIDE DEF g, h
<1>7. /\ Fine(heap', z, LiveOf(heap')) /\ Ranges(heap', "faults") /\ z \in LiveOf(heap')
  BY <1>5, <1>6 DEF PageAdded
<1>8. "new_prev" \in Merges /\ "new_prev" \notin {"old_prev", "old_next"}
  BY DEF Merges
<1> QED BY <1>1, <1>2, <1>6, <1>7, <1>8, ToMerge

\* The page at the edge of the root's region becomes a region of its own.
LEMMA StepSplitOff ==
  ASSUME IInv, pc = "run", op = "mod", root # Null, use' = use, draining' = draining,
         NEW h, SplitOff(h), LiveOf(h) = LiveOf(heap), Fine(h, root, LiveOf(h)),
         Ranges(h, "faults"), Nearest(h, root, vm_addr, LiveOf(h)),
         \A x \in LiveOf(h) : ~(h.vm_start[x] <= vm_addr /\ vm_addr < h.vm_end[x])
  PROVE  IInv'
<1> DEFINE z == Fresh({})
           k(f) == NodeInit(h, z, vm_addr, vm_addr + 1, f)
           g(f) == InsertHelper(k(f), root, root, z)
<1>1. /\ use = "faults" /\ vm_addr \in Page /\ vm_addr \in Nat
      /\ draining \in BOOLEAN /\ aborted = FALSE
  BY RunMod
<1>2. z \in Node \ LiveOf(h)
  <2>1. Typed(h) /\ Apart(h)
    BY DEF Fine, Ranges
  <2>2. \A x \in LiveOf(h) : h.vm_start[x] # vm_addr
    BY <1>1, <2>1, LiveFacts
  <2> QED BY <1>1, <2>1, <2>2, FreshPage
<1>3. PICK f \in Flag :
        IF InsertFails(k(f), root, root, z) THEN Abort
        ELSE heap' = g(f) /\ root' = z /\ ReturnNode(z) /\ UNCHANGED aborted
  BY DEF SplitOff
<1> HIDE DEF z
<1>4. ~InsertFails(k(f), root, root, z) /\ PageAdded(g(f), z, LiveOf(h))
  BY <1>1, <1>2, PageOnTop
<1>5. heap' = g(f) /\ root' = z /\ found' = z /\ Return /\ UNCHANGED aborted
  BY <1>3, <1>4 DEF ReturnNode
<1> HIDE DEF g, k
<1>6. /\ Fine(heap', root', LiveOf(heap')) /\ Ranges(heap', use')
      /\ root' \in Node /\ found' \in Node
  BY <1>1, <1>2, <1>4, <1>5 DEF PageAdded
<1> QED BY <1>1, <1>5, <1>6, ToIdle

\* Where the other regions are, seen from one that holds a page
LEMMA Elsewhere ==
  ASSUME NEW h, Typed(h), Apart(h), NEW n \in LiveOf(h), NEW a \in Nat,
         h.vm_start[n] <= a, a < h.vm_end[n]
  PROVE  /\ \A x \in LiveOf(h) \ {n} :
              \/ h.vm_end[x] <= h.vm_start[n] /\ h.vm_start[x] < h.vm_start[n]
              \/ h.vm_end[n] <= h.vm_start[x] /\ h.vm_start[n] < h.vm_start[x]
         /\ \A x \in LiveOf(h) : /\ h.vm_start[x] \in Nat /\ h.vm_end[x] \in Nat
                                 /\ h.vm_start[x] < h.vm_end[x]
<1>1. \A x \in LiveOf(h) : /\ h.vm_start[x] \in Nat /\ h.vm_end[x] \in Nat
                           /\ h.vm_start[x] < h.vm_end[x]
  BY LiveFacts
<1>2. ASSUME NEW x \in LiveOf(h) \ {n}
      PROVE  \/ h.vm_end[x] <= h.vm_start[n] /\ h.vm_start[x] < h.vm_start[n]
             \/ h.vm_end[n] <= h.vm_start[x] /\ h.vm_start[n] < h.vm_start[x]
  <2>1. h.vm_end[x] <= h.vm_start[n] \/ h.vm_end[n] <= h.vm_start[x]
    BY DEF Apart
  <2> QED BY <1>1, <2>1
<1> QED BY <1>1, <1>2

\* The range of the root without its first page, or without its last
LEMMA Shrunk ==
  ASSUME IInv, NEW n, NEW f, NEW l, AtTarget(n, f, l), NEW g, RangeSet(g, heap, n),
         \/ l = FALSE /\ f = TRUE /\ g.vm_start[n] = vm_addr + 1
                                  /\ g.vm_end[n] = heap.vm_end[n]
         \/ f = FALSE /\ g.vm_start[n] = heap.vm_start[n] /\ g.vm_end[n] = vm_addr
  PROVE  /\ LiveOf(g) = LiveOf(heap) /\ Fine(g, n, LiveOf(g)) /\ Ranges(g, "faults")
         /\ Nearest(g, n, vm_addr, LiveOf(g))
         /\ \A x \in LiveOf(g) : ~(g.vm_start[x] <= vm_addr /\ vm_addr < g.vm_end[x])
         /\ \A x \in LiveOf(g) \ {n} :
              \/ g.vm_end[x] <= heap.vm_start[n] /\ g.vm_start[x] < heap.vm_start[n]
              \/ heap.vm_end[n] <= g.vm_start[x] /\ heap.vm_start[n] < g.vm_start[x]
<1> DEFINE L == LiveOf(heap)
           s == heap.vm_start[n]
           e == heap.vm_end[n]
           sg == g.vm_start[n]
           eg == g.vm_end[n]
<1>1. /\ n = t /\ n = root /\ n \in L /\ s <= vm_addr /\ vm_addr < e
      /\ s \in Nat /\ e \in Nat
      /\ f = (s = vm_addr) /\ l = (e = vm_addr + 1)
      /\ pc = "run" /\ op = "mod"
  BY TargetRoot
<1>2. /\ vm_addr \in Nat /\ Fine(heap, n, L) /\ Ranges(heap, "faults")
      /\ Typed(heap) /\ Apart(heap)
  BY <1>1, RunMod DEF Fine
<1>3. /\ \A x \in L \ {n} :
           \/ heap.vm_end[x] <= s /\ heap.vm_start[x] < s
           \/ e <= heap.vm_start[x] /\ s < heap.vm_start[x]
      /\ \A x \in L : heap.vm_start[x] \in Nat /\ heap.vm_end[x] \in Nat
                      /\ heap.vm_start[x] < heap.vm_end[x]
  BY <1>1, <1>2, Elsewhere
<1>4. /\ s <= sg /\ eg <= e /\ sg < eg /\ sg \in Nat /\ eg \in Nat
      /\ ~(sg <= vm_addr /\ vm_addr < eg)
  <2>1. CASE l = FALSE /\ f = TRUE /\ sg = vm_addr + 1 /\ eg = e
    <3>1. s = vm_addr /\ e # vm_addr + 1
      <4> HIDE DEF s, e
      <4> QED BY <1>1, <2>1
    <3>2. sg = vm_addr + 1 /\ eg = e
      BY <2>1
    <3> HIDE DEF s, e, sg, eg
    <3> QED BY <1>1, <1>2, <3>1, <3>2
  <2>2. CASE f = FALSE /\ sg = s /\ eg = vm_addr
    <3>1. s # vm_addr
      <4> HIDE DEF s, e
      <4> QED BY <1>1, <2>2
    <3>2. sg = s /\ eg = vm_addr
      BY <2>2
    <3> HIDE DEF s, e, sg, eg
    <3> QED BY <1>1, <1>2, <3>1, <3>2
  <2> QED BY <2>1, <2>2
<1>5. \A x \in L \ {n} : /\ heap.vm_start[x] < s => heap.vm_end[x] <= sg
                         /\ s < heap.vm_start[x] => eg <= heap.vm_start[x]
  <2> SUFFICES ASSUME NEW x \in L \ {n}
               PROVE  /\ heap.vm_start[x] < s => heap.vm_end[x] <= sg
                      /\ s < heap.vm_start[x] => eg <= heap.vm_start[x]
    OBVIOUS
  <2> DEFINE sx == heap.vm_start[x]
             ex == heap.vm_end[x]
  <2>1. (ex <= s /\ sx < s) \/ (e <= sx /\ s < sx)
    BY <1>3
  <2>2. sx \in Nat /\ ex \in Nat
    BY <1>3
  <2> HIDE DEF s, e, sg, eg, sx, ex
  <2>3. (sx < s => ex <= sg) /\ (s < sx => eg <= sx)
    BY <1>1, <1>4, <2>1, <2>2
  <2> QED BY <2>3 DEF sx, ex
<1>6. \A a \in Nat : sg <= a /\ a < eg => a \in Page
  <2> SUFFICES ASSUME NEW a \in Nat, sg <= a, a < eg PROVE a \in Page
    OBVIOUS
  <2>1. s <= a /\ a < e
    <3> HIDE DEF s, e, sg, eg
    <3> QED BY <1>1, <1>4
  <2> QED BY <1>1, <1>2, <2>1 DEF Ranges, Owned
<1>7. Fine(g, n, L) /\ Ranges(g, "faults") /\ LiveOf(g) = L
  <2>1. /\ \A x \in L \ {n} : heap.vm_start[x] < heap.vm_start[n] => heap.vm_end[x] <= g.vm_start[n]
        /\ \A x \in L \ {n} : heap.vm_start[n] < heap.vm_start[x] => g.vm_end[n] <= heap.vm_start[x]
        /\ g.vm_start[n] < g.vm_end[n]
        /\ \A a \in Nat : g.vm_start[n] <= a /\ a < g.vm_end[n] => a \in Page
    BY <1>4, <1>5, <1>6
  <2> QED BY <1>1, <1>2, <2>1, RangeChanged
<1>8. \A x \in L \ {n} : /\ g.vm_start[x] = heap.vm_start[x] /\ g.vm_end[x] = heap.vm_end[x]
                         /\ x \in Node
  BY DEF RangeSet, LiveOf
<1>9. \A x \in L \ {n} : \/ g.vm_end[x] <= s /\ g.vm_start[x] < s
                         \/ e <= g.vm_start[x] /\ s < g.vm_start[x]
  BY <1>3, <1>8
<1>10. ASSUME NEW x \in L
       PROVE  /\ ~(g.vm_start[x] <= vm_addr /\ vm_addr < g.vm_end[x])
              /\ x = n \/ (g.vm_start[x] < sg /\ g.vm_start[x] < vm_addr)
                       \/ (sg < g.vm_start[x] /\ vm_addr < g.vm_start[x])
  <2>1. CASE x = n
    BY <1>4, <2>1
  <2>2. CASE x # n
    <3> DEFINE sx == g.vm_start[x]
               ex == g.vm_end[x]
    <3>1. (ex <= s /\ sx < s) \/ (e <= sx /\ s < sx)
      BY <1>9, <2>2
    <3>2. sx \in Nat /\ ex \in Nat
      BY <1>3, <1>8, <2>2
    <3> HIDE DEF s, e, sg, eg, sx, ex
    <3>3. /\ ~(sx <= vm_addr /\ vm_addr < ex)
          /\ (sx < sg /\ sx < vm_addr) \/ (sg < sx /\ vm_addr < sx)
      BY <1>1, <1>2, <1>4, <3>1, <3>2
    <3> QED BY <3>3 DEF sx, ex
  <2> QED BY <2>1, <2>2
<1>11. Nearest(g, n, vm_addr, L)
  <2> SUFFICES ASSUME NEW x \in L, x # n
               PROVE  \E w \in Side : /\ On(w, g.vm_start[x], g.vm_start[n])
                                      /\ On(w, g.vm_start[x], vm_addr)
    BY DEF Nearest
  <2>1. "sp_l" \in Side /\ "sp_r" \in Side
    BY DEF Side
  <2> QED BY <1>10, <2>1 DEF On
<1> QED BY <1>7, <1>9, <1>10, <1>11

\* The page is given to a neighbour, which is then splayed.
LEMMA StepMigrate ==
  ASSUME IInv, pc = "run", op = "mod", use' = use, draining' = draining, t # Null,
         NEW h, NEW m \in LiveOf(h), Migrate(m, h), Fine(h, t, LiveOf(h)),
         Ranges(h, "faults")
  PROVE  IInv'
<1>1. /\ First /\ AtMod /\ use = "faults" /\ draining \in BOOLEAN /\ aborted = FALSE
      /\ found \in Node \cup {Null} /\ vm_addr \in Address
  BY RunMod
<1>2. victim = Null /\ after = "none" /\ cur = Null /\ root \in Node \cup {Null}
  BY <1>1 DEF First, AtMod, IInv, Types
<1>3. /\ heap' = h /\ Splay("migrate", h.vm_start[m], t)
      /\ UNCHANGED <<root, vm_addr, victim, cur, after, found, aborted>>
  BY DEF Migrate
<1>4. pc' = "splay" /\ op' = "migrate" /\ t' = t
  BY <1>3 DEF Splay
<1>5. h.vm_start[m] \in Address
  BY StartAddress DEF Fine
<1>6. Members' = LiveOf(heap')
  <2>1. Null \notin LiveOf(heap')
    BY Constants DEF LiveOf
  <2>2. victim' = Null /\ op' # "insert"
    BY <1>2, <1>3, <1>4
  <2> QED BY <2>1, <2>2 DEF Members
<1>7. /\ Fine(heap', t, Members') /\ Ranges(heap', use')
      /\ use' \in {"regions", "faults"} /\ vm_addr' \in Address \cup {Null}
      /\ root' \in Node \cup {Null} /\ cur' \in Node \cup {Null} /\ victim' = Null
      /\ found' \in Node \cup {Null} /\ draining' \in BOOLEAN /\ aborted' = FALSE
  BY <1>1, <1>2, <1>3, <1>6
<1>8. /\ Types' /\ Ranges(heap', use') /\ Listed(heap', Members')
      /\ MainTree' /\ SideTree'
  BY <1>3, <1>5, <1>7, ToSplay
<1>9. AtMigrate'
  BY <1>2, <1>3, <1>4 DEF AtMigrate
<1>10. Ops'
  BY <1>4, <1>9 DEF Ops, Merges
<1> QED BY <1>8, <1>10 DEF IInv

\* A neighbour in the tree, of a node of which Touch holds
LEMMA TouchNeighbour ==
  ASSUME NEW S, Listed(heap, S), Null \notin S, NEW n \in S
  PROVE  /\ Touch(Prev(n), n) => /\ Prev(n) \in S /\ Prev(n) # n
                                 /\ heap.vm_end[Prev(n)] = heap.vm_start[n]
                                 /\ heap.vm_start[Prev(n)] < heap.vm_start[n]
         /\ Touch(n, Succ(n)) => /\ Succ(n) \in S /\ Succ(n) # n
                                 /\ heap.vm_end[n] = heap.vm_start[Succ(n)]
                                 /\ heap.vm_start[n] < heap.vm_start[Succ(n)]
<1> DEFINE p == heap.vm_prev[n]
           q == heap.vm_next[n]
<1>1. heap.vm_start[n] \in Nat
  BY DEF Listed
<1>2. /\ p # Null => p \in S /\ heap.vm_start[p] < heap.vm_start[n]
      /\ q # Null => q \in S /\ heap.vm_start[n] < heap.vm_start[q]
  BY Neighbour
<1>3. /\ Touch(p, n) => p # Null /\ heap.vm_end[p] = heap.vm_start[n]
      /\ Touch(n, q) => q # Null /\ heap.vm_end[n] = heap.vm_start[q]
  BY DEF Touch, Start, End
<1>4. Prev(n) = p /\ Succ(n) = q
  BY DEF Prev, Succ
<1> HIDE DEF p, q
<1> QED BY <1>1, <1>2, <1>3, <1>4

\* The first page of a region, of its own now or given to vm_prev
LEMMA StepFirstPage ==
  ASSUME IInv, NEW n, FirstPage(n)
  PROVE  IInv'
<1> DEFINE g == [heap EXCEPT !.vm_start[n] = vm_addr + 1]
           m == heap.vm_prev[n]
           h == GiveToPrev(n)
           a == vm_addr
<1>1. /\ AtTarget(n, TRUE, FALSE) /\ use' = use /\ draining' = draining
      /\ \/ Touch(Prev(n), n) /\ Migrate(Prev(n), h)
         \/ SplitOff(g)
  BY DEF FirstPage
<1>2. /\ pc = "run" /\ op = "mod" /\ n = t /\ n = root /\ n \in LiveOf(heap)
      /\ heap.vm_start[n] = a /\ a < heap.vm_end[n] /\ heap.vm_end[n] \in Nat
      /\ heap.vm_end[n] # a + 1
  <2>1. /\ pc = "run" /\ op = "mod" /\ n = t /\ n = root /\ n \in LiveOf(heap)
        /\ a < heap.vm_end[n] /\ heap.vm_end[n] \in Nat
        /\ TRUE = (heap.vm_start[n] = a) /\ FALSE = (heap.vm_end[n] = a + 1)
    BY <1>1, TargetRoot
  <2> QED BY <2>1
<1>3. /\ a \in Nat /\ a \in Page /\ n \in Node /\ n # Null /\ Typed(heap) /\ Apart(heap)
      /\ Ranges(heap, "faults") /\ Listed(heap, LiveOf(heap))
  BY <1>2, RunMod, MembersIn, Constants DEF Fine
<1>4. FieldSet(g, heap, "vm_start", n, a + 1)
  <2>1. a + 1 \in Nat
    BY <1>3
  <2> QED BY <1>3, <2>1, StartSet
<1>0. h = [g EXCEPT !.vm_end[m] = a + 1]
  BY DEF GiveToPrev, Prev
<1> HIDE DEF g, h
<1>5. RangeSet(g, heap, n) /\ g.vm_start[n] = a + 1 /\ g.vm_end = heap.vm_end
  BY <1>3, <1>4, FieldRange
<1>6. /\ LiveOf(g) = LiveOf(heap) /\ Fine(g, n, LiveOf(g)) /\ Ranges(g, "faults")
      /\ Nearest(g, n, vm_addr, LiveOf(g))
      /\ \A x \in LiveOf(g) : ~(g.vm_start[x] <= vm_addr /\ vm_addr < g.vm_end[x])
      /\ \A x \in LiveOf(g) \ {n} :
           \/ g.vm_end[x] <= heap.vm_start[n] /\ g.vm_start[x] < heap.vm_start[n]
           \/ heap.vm_end[n] <= g.vm_start[x] /\ heap.vm_start[n] < g.vm_start[x]
  <2>1. g.vm_end[n] = heap.vm_end[n]
    BY <1>5
  <2> QED BY <1>1, <1>5, <2>1, Shrunk
<1>7. CASE SplitOff(g)
  BY <1>1, <1>2, <1>3, <1>6, <1>7, StepSplitOff
<1>8. CASE Touch(Prev(n), n) /\ Migrate(Prev(n), h)
  <2>1. /\ m \in LiveOf(heap) /\ m # n /\ heap.vm_end[m] = a
        /\ heap.vm_start[m] < a
    <3>1. Null \notin LiveOf(heap)
      BY Constants DEF LiveOf
    <3> QED BY <1>2, <1>3, <1>8, <3>1, TouchNeighbour DEF Prev
  <2>2. m \in Node /\ Typed(g) /\ a + 1 \in Nat /\ Apart(g) /\ m \in LiveOf(g)
    BY <1>3, <1>6, <2>1 DEF Fine, Ranges, LiveOf
  <2>3. FieldSet(h, g, "vm_end", m, a + 1)
    BY <1>0, <2>2, EndSet
  <2>4. RangeSet(h, g, m) /\ h.vm_end[m] = a + 1 /\ h.vm_start = g.vm_start
    BY <2>2, <2>3, FieldRange
  <2>5. g.vm_start[m] = heap.vm_start[m] /\ g.vm_end[m] = a
    BY <1>5, <2>1, <2>2 DEF RangeSet
  <2>6. /\ \A x \in LiveOf(g) : g.vm_start[x] \in Nat /\ g.vm_end[x] \in Nat
                                /\ g.vm_start[x] < g.vm_end[x]
        /\ \A x, y \in LiveOf(g) : g.vm_start[x] < g.vm_start[y] =>
                                     g.vm_end[x] <= g.vm_start[y]
    BY <2>2, LiveFacts
  <2>7. ASSUME NEW x \in LiveOf(g) \ {m}
        PROVE  /\ g.vm_start[x] < g.vm_start[m] => g.vm_end[x] <= h.vm_start[m]
               /\ g.vm_start[m] < g.vm_start[x] => h.vm_end[m] <= g.vm_start[x]
    <3>1. g.vm_start[x] < g.vm_start[m] => g.vm_end[x] <= h.vm_start[m]
      BY <2>2, <2>4, <2>6
    <3>2. ASSUME g.vm_start[m] < g.vm_start[x] PROVE a + 1 <= g.vm_start[x]
      <4>1. CASE x = n
        BY <1>3, <1>5, <4>1
      <4>2. CASE x # n
        <5>1. a <= g.vm_start[x]
          BY <2>2, <2>5, <2>6, <3>2
        <5>2. g.vm_start[x] < a \/ a < g.vm_start[x]
          BY <1>2, <1>6, <4>2
        <5> QED BY <1>3, <2>6, <5>1, <5>2
      <4> QED BY <4>1, <4>2
    <3> QED BY <2>4, <3>1, <3>2
  <2>8. h.vm_start[m] < h.vm_end[m]
    BY <1>3, <2>1, <2>2, <2>4, <2>5, <2>6
  <2>9. ASSUME NEW y \in Nat, h.vm_start[m] <= y, y < h.vm_end[m]
        PROVE  y \in Page
    <3>1. y = a \/ (g.vm_start[m] <= y /\ y < g.vm_end[m])
      BY <1>3, <2>4, <2>5, <2>9
    <3> QED BY <1>3, <1>6, <2>2, <3>1 DEF Ranges, Owned
  <2>10. Fine(h, n, LiveOf(g)) /\ Ranges(h, "faults") /\ LiveOf(h) = LiveOf(g)
    BY <1>6, <2>2, <2>4, <2>7, <2>8, <2>9, RangeChanged
  <2>11. Migrate(m, h)
    BY <1>8 DEF Prev
  <2> QED BY <1>1, <1>2, <1>3, <2>2, <2>10, <2>11, StepMigrate
<1> QED BY <1>1, <1>7, <1>8

\* The last page of a region, of its own now or given to vm_next
LEMMA StepLastPage ==
  ASSUME IInv, NEW n, LastPage(n)
  PROVE  IInv'
<1> DEFINE g == [heap EXCEPT !.vm_end[n] = vm_addr]
           m == heap.vm_next[n]
           h == GiveToNext(n)
           a == vm_addr
<1>1. /\ AtTarget(n, FALSE, TRUE) /\ use' = use /\ draining' = draining
      /\ \/ Touch(n, Succ(n)) /\ Migrate(Succ(n), h)
         \/ SplitOff(g)
  BY DEF LastPage
<1>2. /\ pc = "run" /\ op = "mod" /\ n = t /\ n = root /\ n \in LiveOf(heap)
      /\ heap.vm_start[n] <= a /\ heap.vm_start[n] # a /\ heap.vm_start[n] \in Nat
      /\ heap.vm_end[n] = a + 1
  <2>1. /\ pc = "run" /\ op = "mod" /\ n = t /\ n = root /\ n \in LiveOf(heap)
        /\ heap.vm_start[n] <= a /\ heap.vm_start[n] \in Nat
        /\ FALSE = (heap.vm_start[n] = a) /\ TRUE = (heap.vm_end[n] = a + 1)
    BY <1>1, TargetRoot
  <2> QED BY <2>1
<1>3. /\ a \in Nat /\ a \in Page /\ n \in Node /\ n # Null /\ Typed(heap) /\ Apart(heap)
      /\ Ranges(heap, "faults") /\ Listed(heap, LiveOf(heap))
  BY <1>2, RunMod, MembersIn, Constants DEF Fine
<1>4. FieldSet(g, heap, "vm_end", n, a)
  BY <1>3, EndSet
<1>0. h = [g EXCEPT !.vm_start[m] = a]
  BY DEF GiveToNext, Succ
<1> HIDE DEF g, h
<1>5. RangeSet(g, heap, n) /\ g.vm_end[n] = a /\ g.vm_start = heap.vm_start
  BY <1>3, <1>4, FieldRange
<1>6. /\ LiveOf(g) = LiveOf(heap) /\ Fine(g, n, LiveOf(g)) /\ Ranges(g, "faults")
      /\ Nearest(g, n, vm_addr, LiveOf(g))
      /\ \A x \in LiveOf(g) : ~(g.vm_start[x] <= vm_addr /\ vm_addr < g.vm_end[x])
      /\ \A x \in LiveOf(g) \ {n} :
           \/ g.vm_end[x] <= heap.vm_start[n] /\ g.vm_start[x] < heap.vm_start[n]
           \/ heap.vm_end[n] <= g.vm_start[x] /\ heap.vm_start[n] < g.vm_start[x]
  <2>1. g.vm_start[n] = heap.vm_start[n]
    BY <1>5
  <2> QED BY <1>1, <1>5, <2>1, Shrunk
<1>7. CASE SplitOff(g)
  BY <1>1, <1>2, <1>3, <1>6, <1>7, StepSplitOff
<1>8. CASE Touch(n, Succ(n)) /\ Migrate(Succ(n), h)
  <2>1. /\ m \in LiveOf(heap) /\ m # n /\ heap.vm_start[m] = a + 1
    <3>1. Null \notin LiveOf(heap)
      BY Constants DEF LiveOf
    <3> QED BY <1>2, <1>3, <1>8, <3>1, TouchNeighbour DEF Succ
  <2>2. m \in Node /\ Typed(g) /\ Apart(g) /\ m \in LiveOf(g)
    BY <1>3, <1>6, <2>1 DEF Fine, Ranges, LiveOf
  <2>3. FieldSet(h, g, "vm_start", m, a)
    BY <1>0, <1>3, <2>2, StartSet
  <2>4. RangeSet(h, g, m) /\ h.vm_start[m] = a /\ h.vm_end = g.vm_end
    BY <2>2, <2>3, FieldRange
  <2>5. g.vm_start[m] = a + 1
    BY <1>5, <2>1
  <2>6. /\ \A x \in LiveOf(g) : g.vm_start[x] \in Nat /\ g.vm_end[x] \in Nat
                                /\ g.vm_start[x] < g.vm_end[x]
        /\ \A x, y \in LiveOf(g) : g.vm_start[x] < g.vm_start[y] =>
                                     g.vm_end[x] <= g.vm_start[y]
    BY <2>2, LiveFacts
  <2>7. ASSUME NEW x \in LiveOf(g) \ {m}
        PROVE  /\ g.vm_start[x] < g.vm_start[m] => g.vm_end[x] <= h.vm_start[m]
               /\ g.vm_start[m] < g.vm_start[x] => h.vm_end[m] <= g.vm_start[x]
    <3>1. g.vm_start[m] < g.vm_start[x] => h.vm_end[m] <= g.vm_start[x]
      BY <2>2, <2>4, <2>6
    <3>2. ASSUME g.vm_start[x] < g.vm_start[m] PROVE g.vm_end[x] <= a
      <4>1. CASE x = n
        BY <1>3, <1>5, <4>1
      <4>2. CASE x # n
        <5>1. g.vm_start[x] < a + 1
          BY <2>5, <3>2
        <5>2. g.vm_end[x] <= heap.vm_start[n] \/ a + 1 <= g.vm_start[x]
          BY <1>2, <1>6, <4>2
        <5> QED BY <1>2, <1>3, <2>6, <5>1, <5>2
      <4> QED BY <4>1, <4>2
    <3> QED BY <2>4, <3>1, <3>2
  <2>8. h.vm_start[m] < h.vm_end[m]
    BY <1>3, <2>2, <2>4, <2>5, <2>6
  <2>9. ASSUME NEW y \in Nat, h.vm_start[m] <= y, y < h.vm_end[m]
        PROVE  y \in Page
    <3>1. y = a \/ (g.vm_start[m] <= y /\ y < g.vm_end[m])
      BY <1>3, <2>4, <2>5, <2>9
    <3> QED BY <1>3, <1>6, <2>2, <3>1 DEF Ranges, Owned
  <2>10. Fine(h, n, LiveOf(g)) /\ Ranges(h, "faults") /\ LiveOf(h) = LiveOf(g)
    BY <1>6, <2>2, <2>4, <2>7, <2>8, <2>9, RangeChanged
  <2>11. Migrate(m, h)
    BY <1>8 DEF Succ
  <2> QED BY <1>1, <1>2, <1>3, <2>2, <2>10, <2>11, StepMigrate
<1> QED BY <1>1, <1>7, <1>8

\* The heap of a split in three before the two new nodes are in the tree: h3 is
\* heap with the root's region cut short and z and y of ranges, in no tree.
Parted(h3, n, z, y, e) ==
  /\ LiveOf(h3) = LiveOf(heap) \cup {z, y}
  /\ Ranges(h3, "faults")
  /\ Fine(h3, n, LiveOf(heap))
  /\ h3.vm_start[z] = vm_addr /\ h3.vm_start[y] = vm_addr + 1
  /\ h3.vm_start[n] = heap.vm_start[n]
  /\ h3["sp_p"][z] = Null /\ h3["sp_p"][y] = Null
  /\ \A x \in LiveOf(heap) \ {n} :
       \/ h3.vm_start[x] < heap.vm_start[n]
       \/ e <= h3.vm_start[x]

\* Neither of the new ranges is in another region.
LEMMA PartedIs ==
  ASSUME IInv, NEW n, AtTarget(n, FALSE, FALSE), NEW z \in Node \ LiveOf(heap),
         NEW y \in Node \ LiveOf(heap), z # y, NEW f \in Flag, NEW l \in Flag,
         NEW h2, h2 = NodeInit(NodeInit(heap, z, vm_addr, vm_addr + 1, f), y,
                               vm_addr + 1, heap.vm_end[n], l)
  PROVE  Parted([h2 EXCEPT !.vm_end[n] = vm_addr], n, z, y, heap.vm_end[n])
<1> DEFINE L == LiveOf(heap)
           a == vm_addr
           e == heap.vm_end[n]
           h1 == NodeInit(heap, z, a, a + 1, f)
           h3 == [h2 EXCEPT !.vm_end[n] = a]
           j0 == [heap EXCEPT !.vm_end[n] = a]
           j1 == NodeInit(j0, z, a, a + 1, f)
           j2 == NodeInit(j1, y, a + 1, e, l)
<1>1. /\ pc = "run" /\ op = "mod" /\ n = t /\ n = root /\ n \in L
      /\ heap.vm_start[n] \in Nat /\ heap.vm_start[n] < a /\ a + 1 < e /\ e \in Nat
      /\ a \in Nat /\ a \in Page
  <2>1. /\ pc = "run" /\ op = "mod" /\ n = t /\ n = root /\ n \in L
        /\ heap.vm_start[n] <= a /\ heap.vm_start[n] \in Nat
        /\ a < e /\ e \in Nat
        /\ FALSE = (heap.vm_start[n] = a) /\ FALSE = (e = a + 1)
    BY TargetRoot
  <2>2. a \in Nat /\ a \in Page
    BY <2>1, RunMod
  <2> QED BY <2>1, <2>2
<1>2. /\ n \in Node /\ n # z /\ n # y /\ Typed(heap) /\ Ranges(heap, "faults")
      /\ L \subseteq Node /\ Header \notin Node
  BY <1>1, RunMod, MembersIn, Constants DEF Fine
<1>3. FieldSet(j0, heap, "vm_end", n, a)
  BY <1>1, <1>2, EndSet
<1>4. /\ Made(h1, heap, z, a, a + 1) /\ Typed(h1)
      /\ Made(h2, h1, y, a + 1, e) /\ Typed(h2)
  <2>1. Made(h1, heap, z, a, a + 1) /\ Typed(h1)
    <3>1. a \in Nat /\ a + 1 \in Nat /\ z \in Slot /\ HeapDom(heap)
      BY <1>1, <1>2, Constants DEF Typed
    <3> QED BY <1>2, <3>1, NodeInitIs
  <2> HIDE DEF h1
  <2>2. Made(NodeInit(h1, y, a + 1, e, l), h1, y, a + 1, e)
        /\ Typed(NodeInit(h1, y, a + 1, e, l))
    <3>1. a + 1 \in Nat /\ e \in Nat /\ y \in Slot /\ HeapDom(h1)
      BY <1>1, <2>1, Constants DEF Typed
    <3> QED BY <2>1, <3>1, NodeInitIs
  <2>3. h2 = NodeInit(h1, y, a + 1, e, l)
    BY DEF h1
  <2> QED BY <2>1, <2>2, <2>3
<1>5. FieldSet(h3, h2, "vm_end", n, a)
  BY <1>1, <1>2, <1>4, EndSet
<1> HIDE DEF j0, j1, j2, h1, h3
<1>6. RangeSet(j0, heap, n) /\ j0.vm_end[n] = a /\ j0.vm_start = heap.vm_start
  BY <1>2, <1>3, FieldRange
<1>7. /\ LiveOf(j0) = L /\ Fine(j0, n, L) /\ Ranges(j0, "faults")
      /\ \A x \in L \ {n} : \/ j0.vm_end[x] <= heap.vm_start[n] /\ j0.vm_start[x] < heap.vm_start[n]
                            \/ e <= j0.vm_start[x] /\ heap.vm_start[n] < j0.vm_start[x]
  <2>1. j0.vm_start[n] = heap.vm_start[n]
    BY <1>6
  <2>2. /\ LiveOf(j0) = LiveOf(heap) /\ Fine(j0, n, LiveOf(j0)) /\ Ranges(j0, "faults")
        /\ \A x \in LiveOf(j0) \ {n} :
             \/ j0.vm_end[x] <= heap.vm_start[n] /\ j0.vm_start[x] < heap.vm_start[n]
             \/ heap.vm_end[n] <= j0.vm_start[x] /\ heap.vm_start[n] < j0.vm_start[x]
    BY <1>6, <2>1, Shrunk
  <2> QED BY <2>2
<1>8. \A x \in L : /\ j0.vm_start[x] \in Nat /\ j0.vm_end[x] \in Nat
  <2>1. Typed(j0) /\ Apart(j0)
    BY <1>7 DEF Fine, Ranges
  <2> QED BY <1>7, <2>1, LiveFacts
<1>9. Ranged(j1, j0, n, z, a, a + 1)
  <2>1. \A x \in LiveOf(j0) : j0.vm_end[x] <= a \/ a + 1 <= j0.vm_start[x]
    <3> SUFFICES ASSUME NEW x \in L PROVE j0.vm_end[x] <= a \/ a + 1 <= j0.vm_start[x]
      BY <1>7
    <3>1. CASE x = n
      BY <1>1, <1>6, <3>1
    <3>2. CASE x # n
      BY <1>1, <1>7, <1>8, <3>2
    <3> QED BY <3>1, <3>2
  <2>2. ASSUME NEW x \in Nat, a <= x, x < a + 1 PROVE x \in Page
    <3>1. x = a
      BY <1>1, <2>2
    <3> QED BY <1>1, <3>1
  <2>3. a + 1 \in Nat /\ a < a + 1 /\ Typed(j0) /\ z \in Node \ LiveOf(j0)
    BY <1>1, <1>7 DEF Fine
  <2> QED BY <1>1, <1>7, <2>1, <2>2, <2>3, NewRange DEF j1
<1>10. /\ Typed(j1) /\ LiveOf(j1) = L \cup {z} /\ Ranges(j1, "faults")
       /\ j1.vm_start[z] = a /\ j1.vm_end[z] = a + 1
       /\ \A x \in Node \ {z} : j1.vm_start[x] = j0.vm_start[x] /\ j1.vm_end[x] = j0.vm_end[x]
  BY <1>7, <1>9 DEF Ranged
<1>11. Ranged(j2, j1, n, y, a + 1, e)
  <2>1. \A x \in LiveOf(j1) : j1.vm_end[x] <= a + 1 \/ e <= j1.vm_start[x]
    <3> SUFFICES ASSUME NEW x \in L \cup {z}
                 PROVE  j1.vm_end[x] <= a + 1 \/ e <= j1.vm_start[x]
      BY <1>10
    <3>1. CASE x = z
      BY <1>1, <1>10, <3>1
    <3>2. CASE x # z
      <4>1. j1.vm_start[x] = j0.vm_start[x] /\ j1.vm_end[x] = j0.vm_end[x] /\ x \in L
        BY <1>2, <1>10, <3>2
      <4>2. CASE x = n
        BY <1>1, <1>6, <4>1, <4>2
      <4>3. CASE x # n
        BY <1>1, <1>7, <1>8, <4>1, <4>3
      <4> QED BY <4>2, <4>3
    <3> QED BY <3>1, <3>2
  <2>2. ASSUME NEW x \in Nat, a + 1 <= x, x < e PROVE x \in Page
    <3>1. heap.vm_start[n] <= x
      BY <1>1, <2>2
    <3> QED BY <1>1, <1>2, <2>2, <3>1 DEF Ranges, Owned
  <2>3. a + 1 \in Nat /\ a + 1 < e /\ y \in Node \ LiveOf(j1)
    BY <1>1, <1>10
  <2> QED BY <1>1, <1>10, <2>1, <2>2, <2>3, NewRange DEF j2
<1>12. /\ Typed(j2) /\ LiveOf(j2) = L \cup {z, y} /\ Ranges(j2, "faults")
       /\ j2.vm_start[y] = a + 1 /\ j2.vm_end[y] = e
       /\ \A x \in Node \ {y} : j2.vm_start[x] = j1.vm_start[x] /\ j2.vm_end[x] = j1.vm_end[x]
  BY <1>10, <1>11 DEF Ranged
<1>13. /\ \A d \in Field, x \in Slot : x # z => h1[d][x] = heap[d][x]
       /\ \A d \in Field, x \in Slot : x # y => h2[d][x] = h1[d][x]
       /\ h1.vm_start[z] = a /\ h1.vm_end[z] = a + 1
       /\ h2.vm_start[y] = a + 1 /\ h2.vm_end[y] = e
       /\ h1["sp_p"][z] = Null /\ h2["sp_p"][y] = Null
  BY <1>4, Constants DEF Made, Same
<1>14. \A d \in Field, x \in Slot :
         h3[d][x] = IF d = "vm_end" /\ x = n THEN a ELSE h2[d][x]
  BY <1>5 DEF FieldSet
<1>15. \A d \in Field, x \in Slot :
         j0[d][x] = IF d = "vm_end" /\ x = n THEN a ELSE heap[d][x]
  BY <1>3 DEF FieldSet
<1>16. "vm_end" \in Field /\ "vm_start" \in Field /\ "sp_p" \in Field
       /\ "vm_end" # "vm_start" /\ "vm_end" # "sp_p" /\ Node \subseteq Slot
  BY Constants DEF Data, Field, Link
<1>17. Same(h3, j0, L \cup {Header})
  <2> SUFFICES ASSUME NEW d \in Field, NEW x \in L \cup {Header} PROVE h3[d][x] = j0[d][x]
    BY DEF Same
  <2>1. x \in Slot /\ x # z /\ x # y
    BY <1>2, Constants
  <2> QED BY <1>13, <1>14, <1>15, <2>1
<1>18. Fine(h3, n, L)
  <2>1. Typed(h3)
    BY <1>5 DEF FieldSet
  <2> QED BY <1>7, <1>17, <2>1, FineSame
<1>19. \A x \in Node : h3.vm_start[x] = j2.vm_start[x] /\ h3.vm_end[x] = j2.vm_end[x]
  <2> SUFFICES ASSUME NEW x \in Node
               PROVE  h3.vm_start[x] = j2.vm_start[x] /\ h3.vm_end[x] = j2.vm_end[x]
    OBVIOUS
  <2>0. x \in Slot
    BY <1>16
  <2>1. CASE x = y
    <3>1. h3.vm_start[x] = h2.vm_start[x] /\ h3.vm_end[x] = h2.vm_end[x]
      BY <1>2, <1>14, <1>16, <2>0, <2>1
    <3> QED BY <1>12, <1>13, <2>1, <3>1
  <2>2. CASE x = z
    <3>1. h3.vm_start[x] = h1.vm_start[x] /\ h3.vm_end[x] = h1.vm_end[x]
      BY <1>2, <1>13, <1>14, <1>16, <2>0, <2>2
    <3> QED BY <1>10, <1>12, <1>13, <2>2, <3>1
  <2>3. CASE x # y /\ x # z
    <3>1. h3.vm_start[x] = j0.vm_start[x] /\ h3.vm_end[x] = j0.vm_end[x]
      BY <1>13, <1>14, <1>15, <1>16, <2>0, <2>3
    <3> QED BY <1>10, <1>12, <2>3, <3>1
  <2> QED BY <2>1, <2>2, <2>3
<1>20. LiveOf(h3) = L \cup {z, y}
  <2>1. LiveOf(h3) = LiveOf(j2)
    BY <1>19 DEF LiveOf
  <2> QED BY <1>12, <2>1
<1>21. Ranges(h3, "faults")
  <2>1. LiveOf(h3) \subseteq LiveOf(j2) /\ LiveOf(h3) \subseteq Node
    BY <1>12, <1>20 DEF LiveOf
  <2> QED BY <1>12, <1>19, <2>1, RangesFewer
<1>22. /\ h3.vm_start[z] = a /\ h3.vm_start[y] = a + 1
       /\ h3.vm_start[n] = heap.vm_start[n]
  BY <1>2, <1>6, <1>10, <1>12, <1>19
<1>23. h3["sp_p"][z] = Null /\ h3["sp_p"][y] = Null
  BY <1>13, <1>14, <1>16
<1>24. \A x \in L \ {n} : h3.vm_start[x] < heap.vm_start[n] \/ e <= h3.vm_start[x]
  <2> SUFFICES ASSUME NEW x \in L \ {n}
               PROVE  h3.vm_start[x] < heap.vm_start[n] \/ e <= h3.vm_start[x]
    OBVIOUS
  <2>1. h3.vm_start[x] = j0.vm_start[x]
    <3>1. x \in Node /\ x # z /\ x # y
      BY <1>2
    <3> QED BY <1>10, <1>12, <1>19, <3>1
  <2> QED BY <1>7, <2>1
<1>25. Parted(h3, n, z, y, e)
  BY <1>18, <1>20, <1>21, <1>22, <1>23, <1>24 DEF Parted
<1> QED BY <1>25 DEF h3

\* The two vm_areas for a page in the middle of a region and what is after it
LEMMA FreshTwo ==
  ASSUME IInv, NEW n, AtTarget(n, FALSE, FALSE)
  PROVE  /\ Fresh({}) \in Node \ LiveOf(heap)
         /\ Fresh({Fresh({})}) \in Node \ LiveOf(heap)
         /\ Fresh({Fresh({})}) # Fresh({})
<1> DEFINE L == LiveOf(heap)
           a == vm_addr
           e == heap.vm_end[n]
           z == Fresh({})
           y == Fresh({z})
<1>1. /\ n \in L /\ heap.vm_start[n] \in Nat /\ heap.vm_start[n] < a /\ a + 1 < e
      /\ e \in Nat /\ a \in Nat /\ a \in Page
  <2>1. /\ pc = "run" /\ op = "mod" /\ n \in L
        /\ heap.vm_start[n] <= a /\ heap.vm_start[n] \in Nat
        /\ a < e /\ e \in Nat
        /\ FALSE = (heap.vm_start[n] = a) /\ FALSE = (e = a + 1)
    BY TargetRoot
  <2>2. a \in Nat /\ a \in Page
    BY <2>1, RunMod
  <2> QED BY <2>1, <2>2
<1>2. /\ Typed(heap) /\ Apart(heap) /\ Ranges(heap, "faults") /\ L \in SUBSET Node
  <2>1. pc = "run" /\ op = "mod"
    BY TargetRoot
  <2> QED BY <2>1, RunMod DEF Fine, LiveOf
<1>3. \A x \in L : /\ heap.vm_start[x] \in Page
                   /\ heap.vm_start[x] # a /\ heap.vm_start[x] # a + 1
  <2> SUFFICES ASSUME NEW x \in L
               PROVE  heap.vm_start[x] \in Page /\ heap.vm_start[x] # a
                                                /\ heap.vm_start[x] # a + 1
    OBVIOUS
  <2>1. heap.vm_start[x] \in Page
    BY <1>2, StartPages
  <2>2. CASE x = n
    BY <1>1, <2>1, <2>2
  <2>3. CASE x # n
    <3>1. heap.vm_start[n] <= a /\ a < e
      BY <1>1
    <3>2. \/ heap.vm_end[x] <= heap.vm_start[n] /\ heap.vm_start[x] < heap.vm_start[n]
          \/ heap.vm_end[n] <= heap.vm_start[x] /\ heap.vm_start[n] < heap.vm_start[x]
      BY <1>1, <1>2, <2>3, <3>1, Elsewhere
    <3>3. heap.vm_start[x] \in Nat
      BY <1>1, <1>2, <3>1, Elsewhere
    <3> QED BY <1>1, <2>1, <3>2, <3>3
  <2> QED BY <2>2, <2>3
<1>4. \A x, w \in L : heap.vm_start[x] = heap.vm_start[w] => x = w
  BY <1>2, StartPages
<1>5. z \in Node \ L
  BY <1>1, <1>2, <1>3, FreshPage
<1> HIDE DEF z
<1>6. a + 1 \in Page /\ a # a + 1
  <2>1. a + 1 \in Nat /\ heap.vm_start[n] <= a + 1
    BY <1>1
  <2> QED BY <1>1, <1>2, <2>1 DEF Ranges, Owned
<1>7. Node \ (L \cup {z}) # {}
  <2> DEFINE b == a + 1
             s == heap.vm_start
  <2>1. /\ \A x \in L : s[x] \in Page /\ s[x] # a /\ s[x] # b
        /\ \A x, w \in L : s[x] = s[w] => x = w
        /\ L \in SUBSET Node /\ a \in Page /\ b \in Page /\ a # b /\ z \in Node
    BY <1>1, <1>2, <1>3, <1>4, <1>5, <1>6
  <2> HIDE DEF b, s, L
  <2> QED BY <2>1, SpareTwo
<1>8. y \in Node \ (L \cup {z})
  BY <1>7, FreshIs
<1> HIDE DEF y
<1>9. z \in Node \ L /\ y \in Node \ L /\ y # z
  BY <1>5, <1>8
<1> QED BY <1>9 DEF z, y

\* A page in the middle of a region: first what is after the page goes above the
\* rest of the region, then the page.
LEMMA StepMidSplit ==
  ASSUME IInv, NEW n, MidSplit(n)
  PROVE  IInv'
<1> DEFINE L   == LiveOf(heap)
           a   == vm_addr
           e   == heap.vm_end[n]
           z   == Fresh({})
           y   == Fresh({z})
           h1  == NodeInit(heap, z, a, a + 1, Promote(Flags(n)))
           h2  == NodeInit(h1, y, a + 1, End(n), Flags(n))
           h3  == [h2 EXCEPT !.vm_end[n] = a]
           h4  == InsertHelper(h3, root, root, y)
           g   == InsertHelper(h4, y, y, z)
<1>1. /\ AtTarget(n, FALSE, FALSE) /\ use' = use /\ draining' = draining
      /\ \/ InsertFails(h3, root, root, y)
         \/ InsertFails(h4, y, y, z)
         \/ heap' = g /\ root' = z /\ ReturnNode(z) /\ UNCHANGED aborted
  BY DEF MidSplit
<1>2. /\ pc = "run" /\ op = "mod" /\ n = root /\ n \in L
      /\ heap.vm_start[n] \in Nat /\ heap.vm_start[n] < a /\ a + 1 < e /\ e \in Nat
  <2>1. /\ pc = "run" /\ op = "mod" /\ n = root /\ n \in L
        /\ heap.vm_start[n] <= a /\ heap.vm_start[n] \in Nat
        /\ a < e /\ e \in Nat
        /\ FALSE = (heap.vm_start[n] = a) /\ FALSE = (e = a + 1)
    BY <1>1, TargetRoot
  <2>2. a \in Nat
    BY <2>1, RunMod
  <2> QED BY <2>1, <2>2
<1>3. /\ a \in Nat /\ a \in Page /\ Typed(heap) /\ Apart(heap) /\ L \in SUBSET Node
      /\ Ranges(heap, "faults") /\ use = "faults" /\ n # Null /\ n \in Node
      /\ draining \in BOOLEAN /\ aborted = FALSE
  BY <1>2, RunMod, MembersIn, Constants DEF Fine
<1>4. /\ Promote(Flags(n)) \in Flag /\ Flags(n) \in Flag
  <2>1. Flags(n) \in Flag
    BY <1>3, FlagsOf DEF Flags
  <2> QED BY <2>1, FlagIs
<1>5. z \in Node \ L /\ y \in Node \ L /\ y # z
  BY <1>1, FreshTwo
<1> HIDE DEF z, y
<1>6. Parted(h3, n, z, y, e)
  <2>1. h2 = NodeInit(NodeInit(heap, z, a, a + 1, Promote(Flags(n))), y, a + 1,
                      heap.vm_end[n], Flags(n))
    BY DEF End
  <2> HIDE DEF h2
  <2> QED BY <1>1, <1>4, <1>5, <2>1, PartedIs
<1> HIDE DEF h1, h2, h3
<1>7. /\ LiveOf(h3) = L \cup {z, y} /\ Ranges(h3, "faults") /\ Fine(h3, n, L)
      /\ h3.vm_start[z] = a /\ h3.vm_start[y] = a + 1
      /\ h3.vm_start[n] = heap.vm_start[n]
      /\ h3["sp_p"][z] = Null /\ h3["sp_p"][y] = Null
      /\ \A x \in L \ {n} : h3.vm_start[x] < heap.vm_start[n] \/ e <= h3.vm_start[x]
      /\ \A x \in L : h3.vm_start[x] \in Nat
  <2>1. Fine(h3, n, L)
    BY <1>6 DEF Parted
  <2> QED BY <1>6, <2>1, FineFacts DEF Parted
<1>8. h3.vm_start[y] # h3.vm_start[n]
  BY <1>2, <1>3, <1>7
<1>9. Nearest(h3, n, h3.vm_start[y], L)
  <2> SUFFICES ASSUME NEW x \in L, x # n
               PROVE  \E w \in Side : /\ On(w, h3.vm_start[x], h3.vm_start[n])
                                      /\ On(w, h3.vm_start[x], h3.vm_start[y])
    BY DEF Nearest
  <2>1. "sp_l" \in Side /\ "sp_r" \in Side
    BY DEF Side
  <2> DEFINE sx == h3.vm_start[x]
             sn == heap.vm_start[n]
  <2>2. (sx < sn \/ e <= sx) /\ sx \in Nat
    BY <1>7
  <2>3. (sx < sn /\ sx < a + 1) \/ (sn < sx /\ a + 1 < sx)
    <3> HIDE DEF sx, sn, e
    <3> QED BY <1>2, <1>3, <2>2 DEF sn
  <2> QED BY <1>7, <2>1, <2>3 DEF On
<1>10. Topped(h4, h3, y, L)
  <2>1. /\ Fine(h3, root, L) /\ root # Null /\ y \in Node \ L /\ h3.sp_p[y] = Null
        /\ h3.vm_start[y] # h3.vm_start[root] /\ Nearest(h3, root, h3.vm_start[y], L)
    BY <1>2, <1>3, <1>5, <1>7, <1>8, <1>9
  <2> QED BY <2>1, FineInsert
<1>11. ~InsertFails(h3, root, root, y)
  BY <1>2, <1>8 DEF InsertFails
<1> HIDE DEF h4
<1>12. /\ Fine(h4, y, L \cup {y}) /\ \A f \in Data : h4[f] = h3[f]
       /\ Same(h4, h3, Slot \ (L \cup {y}))
  BY <1>10 DEF Topped
<1>13. /\ h4.vm_start = h3.vm_start /\ LiveOf(h4) = L \cup {z, y}
       /\ Ranges(h4, "faults") /\ h4["sp_p"][z] = Null
  <2>1. h4.vm_start = h3.vm_start /\ LiveOf(h4) = L \cup {z, y} /\ Ranges(h4, "faults")
    BY <1>7, <1>12, LiveSame
  <2>2. z \in Slot \ (L \cup {y}) /\ "sp_p" \in Field
    BY <1>5, Constants
  <2> QED BY <1>7, <1>12, <2>1, <2>2 DEF Same
<1>14. h4.vm_start[z] # h4.vm_start[y]
  BY <1>3, <1>7, <1>13
<1>15. Nearest(h4, y, h4.vm_start[z], L \cup {y})
  <2> SUFFICES ASSUME NEW x \in L, x # y
               PROVE  \E w \in Side : /\ On(w, h4.vm_start[x], h4.vm_start[y])
                                      /\ On(w, h4.vm_start[x], h4.vm_start[z])
    BY DEF Nearest
  <2>1. "sp_l" \in Side /\ "sp_r" \in Side
    BY DEF Side
  <2> DEFINE sx == h3.vm_start[x]
             sn == heap.vm_start[n]
  <2>2. (sx = sn \/ sx < sn \/ e <= sx) /\ sx \in Nat
    BY <1>7
  <2>3. (sx < a /\ sx < a + 1) \/ (a < sx /\ a + 1 < sx)
    <3> HIDE DEF sx, sn, e
    <3> QED BY <1>2, <1>3, <2>2 DEF sn
  <2> QED BY <1>7, <1>13, <2>1, <2>3 DEF On
<1>16. Topped(g, h4, z, L \cup {y})
  <2>1. /\ y # Null /\ z \in Node \ (L \cup {y}) /\ h4.sp_p[z] = Null
        /\ Fine(h4, y, L \cup {y})
    BY <1>5, <1>12, <1>13, Constants
  <2> QED BY <1>14, <1>15, <2>1, FineInsert
<1>17. ~InsertFails(h4, y, y, z)
  BY <1>14 DEF InsertFails
<1>18. heap' = g /\ root' = z /\ found' = z /\ Return /\ UNCHANGED aborted
  BY <1>1, <1>11, <1>17 DEF ReturnNode
<1> HIDE DEF g
<1>19. /\ Fine(g, z, (L \cup {y}) \cup {z}) /\ \A f \in Data : g[f] = h4[f]
  BY <1>16 DEF Topped
<1>20. LiveOf(g) = L \cup {z, y} /\ Ranges(g, "faults")
  BY <1>13, <1>19, LiveSame
<1>21. (L \cup {y}) \cup {z} = L \cup {z, y}
  OBVIOUS
<1>22. /\ Fine(heap', root', LiveOf(heap')) /\ Ranges(heap', use')
       /\ root' \in Node /\ found' \in Node
  <2>1. Fine(g, z, LiveOf(g))
    BY <1>19, <1>20, <1>21
  <2> QED BY <1>1, <1>3, <1>5, <1>18, <1>20, <2>1
<1> QED BY <1>1, <1>3, <1>18, <1>22, ToIdle

\* A page that is a region
LEMMA StepOnlyPage ==
  ASSUME IInv, NEW n, OnlyPage(n)
  PROVE  IInv'
<1>1. /\ AtTarget(n, TRUE, TRUE) /\ pc' = "run" /\ Continue("old_prev", n)
      /\ UNCHANGED <<use, heap, root, vm_addr, found, draining, aborted>>
  BY DEF OnlyPage
<1>2. /\ pc = "run" /\ op = "mod" /\ Quiet /\ n = root /\ n \in LiveOf(heap) /\ n = t
      /\ heap.vm_start[n] = vm_addr /\ heap.vm_end[n] = vm_addr + 1
  <2>1. /\ pc = "run" /\ op = "mod" /\ Quiet /\ n = root /\ n \in LiveOf(heap) /\ n = t
        /\ TRUE = (heap.vm_start[n] = vm_addr) /\ TRUE = (heap.vm_end[n] = vm_addr + 1)
    BY <1>1, TargetRoot
  <2> QED BY <2>1
<1>3. /\ use = "faults" /\ Members = LiveOf(heap) /\ Fine(heap, n, LiveOf(heap))
      /\ Ranges(heap, "faults") /\ draining \in BOOLEAN /\ aborted = FALSE
      /\ found \in Node \cup {Null} /\ vm_addr \in Address
  BY <1>2, RunMod
<1>4. \A m \in LiveOf(heap) : heap.vm_start[m] # heap.vm_end[n]
  <2>1. Start(root) + 1 = End(root)
    BY <1>2 DEF Start, End
  <2> QED BY <1>2, <1>3, <2>1 DEF Quiet, Start, End
<1>5. "old_prev" \in Merges
  BY DEF Merges
<1> QED BY <1>1, <1>2, <1>3, <1>4, <1>5, ToMerge

\* What a merge has at hand
LEMMA RunMerge ==
  ASSUME IInv, pc = "run", op \in Merges
  PROVE  /\ use = "faults" /\ cur = root /\ cur \in LiveOf(heap)
         /\ Fine(heap, cur, LiveOf(heap)) /\ Ranges(heap, "faults")
         /\ draining \in BOOLEAN /\ aborted = FALSE /\ found \in Node \cup {Null}
         /\ vm_addr \in Address \cup {Null} /\ cur \in Node
         /\ op \in {"old_prev", "old_next"} =>
              \A m \in LiveOf(heap) : heap.vm_start[m] # heap.vm_end[cur]
         /\ Touch(Prev(cur), cur) => /\ Prev(cur) \in LiveOf(heap) /\ Prev(cur) # cur
                                     /\ End(Prev(cur)) = Start(cur)
         /\ Touch(cur, Succ(cur)) => /\ Succ(cur) \in LiveOf(heap) /\ Succ(cur) # cur
                                     /\ End(cur) = Start(Succ(cur))
<1>1. AtMerge
  BY DEF IInv, Ops
<1>2. Members = LiveOf(heap)
  <2>1. victim = Null /\ op # "insert"
    BY <1>1 DEF AtMerge, Merges
  <2> QED BY <2>1, AllMembers
<1>3. Fine(heap, cur, LiveOf(heap))
  <2>1. victim = Null /\ t = Null /\ cur = root
    BY <1>1 DEF AtMerge
  <2>2. Top = cur
    BY <2>1 DEF Top
  <2> QED BY <1>2, <2>1, <2>2, FineNow
<1>4. cur \in LiveOf(heap) /\ cur \in Node /\ Null \notin LiveOf(heap)
  BY <1>1, <1>2, MembersIn DEF AtMerge
<1>5. Listed(heap, LiveOf(heap))
  BY <1>3 DEF Fine
<1>6. /\ Touch(Prev(cur), cur) => /\ Prev(cur) \in LiveOf(heap) /\ Prev(cur) # cur
                                  /\ End(Prev(cur)) = Start(cur)
      /\ Touch(cur, Succ(cur)) => /\ Succ(cur) \in LiveOf(heap) /\ Succ(cur) # cur
                                  /\ End(cur) = Start(Succ(cur))
  BY <1>4, <1>5, TouchNeighbour DEF Start, End
<1>7. op \in {"old_prev", "old_next"} =>
        \A m \in LiveOf(heap) : heap.vm_start[m] # heap.vm_end[cur]
  BY <1>1, <1>2 DEF AtMerge, Start, End
<1>8. /\ use = "faults" /\ cur = root /\ Ranges(heap, "faults")
      /\ draining \in BOOLEAN /\ aborted = FALSE /\ found \in Node \cup {Null}
      /\ vm_addr \in Address \cup {Null}
  BY <1>1 DEF AtMerge, IInv, Types
<1> QED BY <1>3, <1>4, <1>6, <1>7, <1>8

\* A merge with vm_prev, or none
LEMMA StepMergePrev ==
  ASSUME IInv, NEW o, NEW next, NEW f, MergePrev(o, next, f),
         \/ o = "new_prev" /\ next = "new_next"
         \/ o = "old_prev" /\ next = "old_next"
  PROVE  IInv'
<1>1. /\ pc = "run" /\ op = o /\ use' = use /\ draining' = draining
      /\ \/ Touch(Prev(cur), cur) /\ RemoveHelper(cur, next, Prev(cur))
         \/ /\ pc' = "run" /\ Continue(next, cur)
            /\ UNCHANGED <<heap, root, vm_addr, found, aborted>>
  BY DEF MergePrev
<1>2. /\ op \in Merges /\ next \in Merges /\ next \in {"new_next", "old_next"}
      /\ next \in {"old_prev", "old_next"} => op \in {"old_prev", "old_next"}
  BY <1>1 DEF Merges
<1>3. /\ use = "faults" /\ cur = root /\ cur \in LiveOf(heap)
      /\ Fine(heap, cur, LiveOf(heap)) /\ Ranges(heap, "faults")
      /\ draining \in BOOLEAN /\ aborted = FALSE /\ found \in Node \cup {Null}
      /\ vm_addr \in Address \cup {Null}
      /\ next \in {"old_prev", "old_next"} =>
           \A m \in LiveOf(heap) : heap.vm_start[m] # heap.vm_end[cur]
      /\ Touch(Prev(cur), cur) => /\ Prev(cur) \in LiveOf(heap) /\ Prev(cur) # cur
                                  /\ End(Prev(cur)) = Start(cur)
  <2>1. pc = "run"
    BY <1>1
  <2> QED BY <1>2, <2>1, RunMerge
<1>4. CASE Touch(Prev(cur), cur) /\ RemoveHelper(cur, next, Prev(cur))
  <2>1. Removal(next, cur, Prev(cur), LiveOf(heap))
    <3>1. next = "old_next" => \A x \in LiveOf(heap) \ {cur} : Start(x) # End(cur)
      BY <1>3 DEF Start, End
    <3> QED BY <1>2, <1>3, <1>4, <3>1 DEF Removal
  <2> QED BY <1>1, <1>3, <1>4, <2>1, StepRemoveHelper
<1>5. CASE /\ pc' = "run" /\ Continue(next, cur)
           /\ UNCHANGED <<heap, root, vm_addr, found, aborted>>
  <2>1. /\ cur = root' /\ cur \in LiveOf(heap') /\ Fine(heap', cur, LiveOf(heap'))
        /\ Ranges(heap', use') /\ use' = "faults" /\ vm_addr' \in Address \cup {Null}
        /\ found' \in Node \cup {Null} /\ draining' \in BOOLEAN /\ aborted' = FALSE
        /\ next \in {"old_prev", "old_next"} =>
             \A m \in LiveOf(heap') : heap'.vm_start[m] # heap'.vm_end[cur]
    BY <1>1, <1>3, <1>5
  <2> QED BY <1>2, <1>5, <2>1, ToMerge
<1> QED BY <1>1, <1>4, <1>5

\* The merges of a new page and of a page that was a region
LEMMA StepNewPrev ==
  ASSUME IInv, NewPrev
  PROVE  IInv'
BY StepMergePrev DEF NewPrev

\* The same of the latter
LEMMA StepOldPrev ==
  ASSUME IInv, OldPrev
  PROVE  IInv'
BY StepMergePrev DEF OldPrev

\* A merge that ends with the node at hand
LEMMA StepReturnNode ==
  ASSUME IInv, pc = "run", op \in Merges, ReturnNode(cur),
         UNCHANGED <<use, heap, root, draining, aborted>>
  PROVE  IInv'
<1>1. found' = cur /\ Return
  BY DEF ReturnNode
<1>2. /\ use = "faults" /\ cur = root /\ Fine(heap, cur, LiveOf(heap))
      /\ Ranges(heap, "faults") /\ draining \in BOOLEAN /\ aborted = FALSE /\ cur \in Node
  BY RunMerge
<1> QED BY <1>1, <1>2, ToIdle

\* A merge with vm_next, or none
LEMMA StepNewNext ==
  ASSUME IInv, NewNext
  PROVE  IInv'
<1>1. /\ pc = "run" /\ op = "new_next" /\ use' = use /\ draining' = draining
      /\ \/ Touch(cur, Succ(cur)) /\ RemoveHelper(cur, "found", Succ(cur))
         \/ ReturnNode(cur) /\ UNCHANGED <<heap, root, aborted>>
  BY DEF NewNext, MergeNext
<1>2. op \in Merges
  BY <1>1 DEF Merges
<1>3. CASE Touch(cur, Succ(cur)) /\ RemoveHelper(cur, "found", Succ(cur))
  <2>1. /\ use = "faults" /\ cur \in LiveOf(heap) /\ Fine(heap, cur, LiveOf(heap))
        /\ Succ(cur) \in LiveOf(heap) /\ Succ(cur) # cur /\ End(cur) = Start(Succ(cur))
    BY <1>1, <1>2, <1>3, RunMerge
  <2>2. Removal("found", cur, Succ(cur), LiveOf(heap))
    BY <2>1 DEF Removal
  <2> QED BY <1>1, <1>3, <2>1, <2>2, StepRemoveHelper
<1>4. CASE ReturnNode(cur) /\ UNCHANGED <<heap, root, aborted>>
  BY <1>1, <1>2, <1>4, StepReturnNode
<1> QED BY <1>1, <1>3, <1>4

\* GoodFault excludes the second merge of a page that was a region.
LEMMA StepOldNext ==
  ASSUME IInv, OldNext
  PROVE  IInv'
<1>1. pc = "run" /\ op = "old_next" /\ use' = use /\ draining' = draining
  BY DEF OldNext
<1>2. op \in Merges /\ op \in {"old_prev", "old_next"}
  BY <1>1 DEF Merges
<1>3. ~Touch(cur, Succ(cur))
  <2>1. /\ \A m \in LiveOf(heap) : heap.vm_start[m] # heap.vm_end[cur]
        /\ Touch(cur, Succ(cur)) => /\ Succ(cur) \in LiveOf(heap)
                                    /\ End(cur) = Start(Succ(cur))
    BY <1>1, <1>2, RunMerge
  <2> QED BY <2>1 DEF Start, End
<1>4. ReturnNode(cur) /\ UNCHANGED <<heap, root, aborted>>
  BY <1>3 DEF OldNext, MergeNext
<1> QED BY <1>1, <1>2, <1>4, StepReturnNode

-----------------------------------------------------------------------------
(* The theorems *)

\* The inductive invariant is kept by every step,
LEMMA NextIInv ==
  ASSUME Uses \subseteq {"regions", "faults"}, IInv, [Next]_vars
  PROVE  IInv'
<1>1. CASE UNCHANGED vars
  <2>1. UNCHANGED <<use, heap, root, locals, aborted>> /\ draining' = draining
        /\ found' = found
    BY <1>1 DEF vars
  <2>2. draining' \in BOOLEAN /\ found' \in Node \cup {Null}
    BY <2>1 DEF IInv, Types
  <2> QED BY <2>1, <2>2, StutterIInv
<1>2. CASE Call
  <2>1. ASSUME NEW z \in Node, CallInsert(z) PROVE IInv'
    BY <2>1, StepCallInsert
  <2>2. ASSUME NEW n \in Node, CallRemove(n) PROVE IInv'
    BY <2>2, StepCallRemove
  <2>3. CASE CallFind
    BY <2>3, StepCallFind
  <2>4. ASSUME NEW a \in Page, CallFindMod(a) PROVE IInv'
    BY <2>4, StepCallFindMod
  <2>5. CASE CallFree
    BY <2>5, StepCallFree
  <2> QED BY <1>2, <2>1, <2>2, <2>3, <2>4, <2>5 DEF Call
<1>3. CASE Work
  <2>1. CASE Iterate
    BY <2>1, StepIterate
  <2>2. CASE Assemble
    BY <2>2, StepAssemble
  <2>3. CASE Insert
    BY <2>3, StepInsert
  <2>4. CASE Remove
    BY <2>4, StepRemove
  <2>5. CASE Join
    BY <2>5, StepJoin
  <2>6. CASE Find
    BY <2>6, StepFind
  <2>7. CASE FirstNode
    BY <2>7, StepFirstNode
  <2>8. CASE NewNode
    BY <2>8, StepNewNode
  <2>9. ASSUME NEW n \in Node, MidSplit(n) PROVE IInv'
    BY <2>9, StepMidSplit
  <2>10. ASSUME NEW n \in Node, FirstPage(n) PROVE IInv'
    BY <2>10, StepFirstPage
  <2>11. ASSUME NEW n \in Node, LastPage(n) PROVE IInv'
    BY <2>11, StepLastPage
  <2>12. ASSUME NEW n \in Node, OnlyPage(n) PROVE IInv'
    BY <2>12, StepOnlyPage
  <2>13. CASE Migrated
    BY <2>13, StepMigrated
  <2>14. CASE NewPrev
    BY <2>14, StepNewPrev
  <2>15. CASE OldPrev
    BY <2>15, StepOldPrev
  <2>16. CASE NewNext
    BY <2>16, StepNewNext
  <2>17. CASE OldNext
    BY <2>17, StepOldNext
  <2>18. ASSUME NEW n \in Node, CallRemove(n) PROVE IInv'
    BY <2>18, StepCallRemove
  <2>19. CASE FreeDone
    BY <2>19, StepCallFree
  <2> QED BY <1>3, <2>1, <2>2, <2>3, <2>4, <2>5, <2>6, <2>7, <2>8, <2>9, <2>10,
             <2>11, <2>12, <2>13, <2>14, <2>15, <2>16, <2>17, <2>18, <2>19 DEF Work
<1> QED BY <1>1, <1>2, <1>3 DEF Next

\* and so holds at every moment.
THEOREM SplayInvariant ==
  ASSUME Uses \subseteq {"regions", "faults"}
  PROVE  Spec => []IInv
<1>1. Init => IInv
  BY InitIInv
<1>2. IInv /\ [Next]_vars => IInv'
  BY NextIInv
<1> QED BY <1>1, <1>2, PTL DEF Spec

\* What the invariant says of the tree as it is seen: in the splayed part, and
\* in the part that a removal left aside
LEMMA ViewIs ==
  ASSUME IInv
  PROVE  /\ View.vm_start = heap.vm_start
         /\ pc = "splay" => \E D : Splaying(View, t, hook, key, Here, D)
         /\ pc # "splay" => View = heap /\ \E D : Whole(heap, Top, Here, D)
         /\ victim = Null => Aside = {}
         /\ victim # Null => \E E : /\ Tree(View, Aside, E)
                                    /\ heap.sp_r[victim] \in Aside \cup {Null}
                                    /\ Under(E, heap.sp_r[victim]) = Aside
         /\ Members = Here \cup Aside /\ Here \subseteq Node /\ Aside \subseteq Node
         /\ \A x \in Here : victim # Null => heap.vm_start[x] < heap.vm_start[victim]
         /\ \A x \in Aside : victim # Null /\ heap.vm_start[victim] < heap.vm_start[x]
         /\ \A x \in Members : heap.vm_start[x] \in Nat
<1>1. /\ Typed(heap) /\ Apart(heap) /\ MainTree /\ SideTree /\ Listed(heap, Members)
      /\ HeapDom(heap) /\ Members \subseteq Node /\ Members \subseteq LiveOf(heap)
      /\ Here \subseteq Members /\ Aside \subseteq Members
  BY MembersIn DEF IInv, Types, Ranges, Typed
<1>2. /\ victim = Null => Here = Members /\ Aside = {}
      /\ victim # Null =>
           /\ \A x \in Here : x \in Members /\ heap.vm_start[x] < heap.vm_start[victim]
           /\ \A x \in Aside : x \in Members /\ heap.vm_start[victim] < heap.vm_start[x]
           /\ \A x \in Members : /\ heap.vm_start[x] < heap.vm_start[victim] => x \in Here
                                 /\ heap.vm_start[victim] < heap.vm_start[x] => x \in Aside
  BY DEF Here, Aside, On
<1>3. \A x \in Members : victim # Null => /\ heap.vm_start[x] \in Nat
                                          /\ heap.vm_start[victim] \in Nat
                                          /\ heap.vm_start[x] # heap.vm_start[victim]
  <2> SUFFICES ASSUME victim # Null, NEW x \in Members
               PROVE  /\ heap.vm_start[x] \in Nat /\ heap.vm_start[victim] \in Nat
                      /\ heap.vm_start[x] # heap.vm_start[victim]
    OBVIOUS
  <2>1. victim \in LiveOf(heap)
    BY DEF IInv, Ops, AtNone, AtInsert, AtRemove, AtFind, AtMod, First, AtMigrate,
           AtJoin, AtMerge
  <2>2. x \in LiveOf(heap) /\ x # victim
    BY DEF Members
  <2> QED BY <1>1, <2>1, <2>2, LiveFacts
<1>4. Members = Here \cup Aside
  <2>1. ASSUME NEW x \in Members PROVE x \in Here \cup Aside
    BY <1>2, <1>3
  <2> QED BY <1>1, <2>1
<1>5. \A x \in Members : heap.vm_start[x] \in Nat
  BY <1>1 DEF Listed
<1>6. Here \cap Aside = {}
  <2> SUFFICES ASSUME NEW x \in Here, x \in Aside PROVE FALSE
    OBVIOUS
  <2>1. victim # Null
    BY <1>2
  <2> QED BY <1>2, <1>3, <2>1
<1>7. CASE pc = "splay"
  <2>1. View = Seen(heap, hook)
    BY <1>7 DEF View, Seen
  <2>2. PICK D : Splaying(View, t, hook, key, Here, D)
    BY <1>1, <1>7, <2>1 DEF MainTree
  <2>3. hook \in [Side -> Here \cup {Header}]
    BY <2>2 DEF Splaying
  <2>4. hook \in [Side -> Slot]
    BY <1>1, <2>3, Constants DEF Side
  <2>5. /\ \A f \in Field : f \notin Side => View[f] = heap[f]
        /\ \A w \in Side, n \in Slot :
             View[w][n] = IF n = hook[w] THEN Null ELSE heap[w][n]
    BY <1>1, <2>1, <2>4, SeenIs
  <2>6. View["vm_start"] = heap["vm_start"]
    BY <2>5, Constants DEF Data, Side
  <2>7. ASSUME victim # Null
        PROVE  \E E : /\ Tree(View, Aside, E)
                      /\ heap.sp_r[victim] \in Aside \cup {Null}
                      /\ Under(E, heap.sp_r[victim]) = Aside
    <3>1. PICK E : Whole(heap, heap.sp_r[victim], Aside, E)
      BY <1>1, <2>7 DEF SideTree
    <3>2. \A n \in Aside, w \in Side : View[w][n] = heap[w][n]
      <4> SUFFICES ASSUME NEW n \in Aside, NEW w \in Side PROVE View[w][n] = heap[w][n]
        OBVIOUS
      <4>1. n \in Node /\ n \in Slot /\ n # Header /\ n \notin Here
        BY <1>1, <1>6, Constants
      <4>2. hook[w] \in Here \cup {Header}
        BY <2>3
      <4> QED BY <2>5, <4>1, <4>2
    <3>3. /\ Null \notin Aside /\ Tree(heap, Aside, E)
          /\ \A n \in Aside : View.vm_start[n] \in Nat
          /\ \A m, n \in Aside : heap.vm_start[m] < heap.vm_start[n] =>
                                   View.vm_start[m] < View.vm_start[n]
      BY <1>1, <1>5, <2>6, <3>1, Constants DEF Whole
    <3>4. Tree(View, Aside, E)
      BY <3>2, <3>3, TreeSame
    <3> QED BY <3>1, <3>4 DEF Whole
  <2> QED BY <1>1, <1>2, <1>4, <1>5, <1>7, <2>2, <2>6, <2>7
<1>8. CASE pc # "splay"
  <2>1. View = heap
    BY <1>8 DEF View
  <2>2. \E D : Whole(heap, Top, Here, D)
    BY <1>1, <1>8 DEF MainTree
  <2>3. ASSUME victim # Null
        PROVE  \E E : /\ Tree(View, Aside, E)
                      /\ heap.sp_r[victim] \in Aside \cup {Null}
                      /\ Under(E, heap.sp_r[victim]) = Aside
    BY <1>1, <2>1, <2>3 DEF SideTree, Whole
  <2> QED BY <1>1, <1>2, <1>4, <1>5, <1>8, <2>1, <2>2, <2>3
<1> QED BY <1>7, <1>8

\* What the pointers reach of them
LEMMA NodesAre ==
  ASSUME IInv
  PROVE  Nodes = Members /\ Right = Aside
<1>1. /\ Members = Here \cup Aside /\ Here \subseteq Node /\ Aside \subseteq Node
      /\ victim = Null => Aside = {}
  BY ViewIs
<1>2. Right = Aside
  <2>1. CASE victim = Null
    BY <1>1, <2>1 DEF Right
  <2>2. CASE victim # Null
    <3>1. PICK E : /\ Tree(View, Aside, E)
                   /\ heap.sp_r[victim] \in Aside \cup {Null}
                   /\ Under(E, heap.sp_r[victim]) = Aside
      BY <2>2, ViewIs
    <3>2. Reach(View, heap.sp_r[victim]) = Aside
      BY <1>1, <3>1, ReachIs
    <3> QED BY <2>2, <3>2 DEF Right
  <2> QED BY <2>1, <2>2
<1>3. CASE pc = "splay"
  <2>1. PICK D : Splaying(View, t, hook, key, Here, D)
    BY <1>3, ViewIs
  <2>2. /\ Tree(View, Here, D) /\ t \in Here /\ t # Null
        /\ \A w \in Side : View[w][Header] \in Here \cup {Null}
        /\ \A x \in Here : x \in D[t] \/ \E w \in Side : x \in Cut(View, D, w)
    BY <1>1, <2>1, Constants DEF Splaying
  <2>3. Top = t
    BY <2>2 DEF Top
  <2>4. Reach(View, t) = D[t]
    <3>1. Reach(View, t) = Under(D, t)
      BY <1>1, <2>2, ReachIs
    <3> QED BY <2>2, <3>1 DEF Under
  <2>5. \A w \in Side : Reach(View, View[w][Header]) = Cut(View, D, w)
    <3> SUFFICES ASSUME NEW w \in Side
                 PROVE  Reach(View, View[w][Header]) = Cut(View, D, w)
      OBVIOUS
    <3>1. View[w][Header] \in Here \cup {Null}
      BY <2>2
    <3>2. Reach(View, View[w][Header]) = Under(D, View[w][Header])
      BY <1>1, <2>2, <3>1, ReachIs
    <3> QED BY <3>2 DEF Cut
  <2>6. Lower = Cut(View, D, "sp_r") /\ Higher = Cut(View, D, "sp_l")
    BY <2>5 DEF Lower, Higher, Side
  <2>7. Nodes = D[t] \cup Right \cup (Lower \cup Higher)
    BY <1>3, <2>3, <2>4 DEF Nodes
  <2>8. D[t] \subseteq Here /\ \A w \in Side : Cut(View, D, w) \subseteq Here
    BY <1>1, <2>1, SplayApart
  <2>9. Lower \cup Higher \subseteq Here
    BY <2>6, <2>8 DEF Side
  <2>10. \A x \in Here : x \in D[t] \cup (Lower \cup Higher)
    BY <2>2, <2>6 DEF Side
  <2>11. D[t] \cup (Lower \cup Higher) = Here
    BY <2>8, <2>9, <2>10
  <2> QED BY <1>1, <1>2, <2>7, <2>11
<1>4. CASE pc # "splay"
  <2>1. View = heap
    BY <1>4, ViewIs
  <2>2. PICK D : Whole(heap, Top, Here, D)
    BY <1>4, ViewIs
  <2>3. Reach(heap, Top) = Here
    <3>1. Tree(heap, Here, D) /\ Top \in Here \cup {Null} /\ Under(D, Top) = Here
      BY <2>2 DEF Whole
    <3> QED BY <1>1, <3>1, ReachIs
  <2>4. Nodes = Here \cup Right
    BY <1>4, <2>1, <2>3 DEF Nodes
  <2> QED BY <1>1, <1>2, <2>4
<1> QED BY <1>2, <1>3, <1>4

\* The tree under the node on top and the one aside
LEMMA ViewTree ==
  ASSUME IInv, NEW n \in Members, NEW w \in Side, NEW m \in Reach(View, View[w][n])
  PROVE  On(w, heap.vm_start[m], heap.vm_start[n])
<1>1. /\ Members = Here \cup Aside /\ Here \subseteq Node /\ Aside \subseteq Node
      /\ victim = Null => Aside = {}
      /\ View.vm_start = heap.vm_start
  BY ViewIs
<1>2. PICK S, D : Tree(View, S, D) /\ S \subseteq Node /\ n \in S
  <2>1. CASE n \in Here
    <3>1. \E D : Tree(View, Here, D)
      BY ViewIs DEF Splaying, Whole
    <3> QED BY <1>1, <2>1, <3>1
  <2>2. CASE n \in Aside
    <3>1. \E E : Tree(View, Aside, E)
      BY <1>1, <2>2, ViewIs
    <3> QED BY <1>1, <2>2, <3>1
  <2> QED BY <1>1, <2>1, <2>2
<1>3. View[w][n] \in S \cup {Null}
  BY <1>2 DEF Tree
<1>4. Reach(View, View[w][n]) = Under(D, View[w][n])
  BY <1>2, <1>3, ReachIs
<1>5. On(w, View.vm_start[m], View.vm_start[n])
  BY <1>2, <1>4 DEF Tree
<1> QED BY <1>1, <1>5

\* The invariant implies the properties:
LEMMA SearchTreeHolds ==
  ASSUME IInv
  PROVE  SearchTree
<1>1. Nodes = Members /\ Right = Aside
  BY NodesAre
<1>2. /\ View.vm_start = heap.vm_start /\ Members = Here \cup Aside
      /\ Here \subseteq Node /\ Aside \subseteq Node
      /\ \A x \in Here : victim # Null => heap.vm_start[x] < heap.vm_start[victim]
      /\ \A x \in Aside : victim # Null /\ heap.vm_start[victim] < heap.vm_start[x]
  BY ViewIs
<1>3. ASSUME NEW n \in Nodes
      PROVE  /\ \A m \in Reach(View, View.sp_l[n]) : Start(m) < Start(n)
             /\ \A m \in Reach(View, View.sp_r[n]) : Start(n) < Start(m)
  <2>1. "sp_l" \in Side /\ "sp_r" \in Side
    BY DEF Side
  <2>2. /\ \A m \in Reach(View, View["sp_l"][n]) :
             On("sp_l", heap.vm_start[m], heap.vm_start[n])
        /\ \A m \in Reach(View, View["sp_r"][n]) :
             On("sp_r", heap.vm_start[m], heap.vm_start[n])
    BY <1>1, <1>3, <2>1, ViewTree
  <2> QED BY <2>2 DEF On, Start
<1>4. ASSUME pc = "splay"
      PROVE  /\ \A m \in Lower :
                  Start(m) < key /\ \A n \in Reach(View, t) : Start(m) < Start(n)
             /\ \A m \in Higher :
                  key < Start(m) /\ \A n \in Reach(View, t) : Start(n) < Start(m)
  <2>1. PICK D : Splaying(View, t, hook, key, Here, D)
    BY <1>4, ViewIs
  <2>2. /\ Tree(View, Here, D) /\ t \in Here /\ t # Null
        /\ \A w \in Side : View[w][Header] \in Here \cup {Null}
        /\ \A w \in Side : \A m \in Cut(View, D, w) :
             /\ On(Other(w), View.vm_start[m], key)
             /\ \A x \in D[t] : On(Other(w), View.vm_start[m], View.vm_start[x])
    BY <1>2, <2>1, Constants DEF Splaying
  <2>3. Reach(View, t) = D[t]
    <3>1. Reach(View, t) = Under(D, t)
      BY <1>2, <2>2, ReachIs
    <3> QED BY <2>2, <3>1 DEF Under
  <2>4. ASSUME NEW w \in Side PROVE Reach(View, View[w][Header]) = Cut(View, D, w)
    <3>1. View[w][Header] \in Here \cup {Null}
      BY <2>2
    <3>2. Reach(View, View[w][Header]) = Under(D, View[w][Header])
      BY <1>2, <2>2, <3>1, ReachIs
    <3> QED BY <3>2 DEF Cut
  <2>5. Lower = Cut(View, D, "sp_r") /\ Higher = Cut(View, D, "sp_l")
    BY <2>4 DEF Lower, Higher, Side
  <2>6. /\ \A m \in Cut(View, D, "sp_r") :
             /\ On("sp_l", View.vm_start[m], key)
             /\ \A x \in D[t] : On("sp_l", View.vm_start[m], View.vm_start[x])
        /\ \A m \in Cut(View, D, "sp_l") :
             /\ On("sp_r", View.vm_start[m], key)
             /\ \A x \in D[t] : On("sp_r", View.vm_start[m], View.vm_start[x])
    BY <2>2 DEF Side, Other
  <2>7. View.vm_start = heap.vm_start
    BY <1>2
  <2>8. ASSUME NEW m \in Lower
        PROVE  Start(m) < key /\ \A n \in Reach(View, t) : Start(m) < Start(n)
    <3>1. /\ On("sp_l", View.vm_start[m], key)
          /\ \A x \in D[t] : On("sp_l", View.vm_start[m], View.vm_start[x])
      BY <2>5, <2>6, <2>8
    <3>2. /\ heap.vm_start[m] < key
          /\ \A x \in D[t] : heap.vm_start[m] < heap.vm_start[x]
      BY <2>7, <3>1 DEF On
    <3> QED BY <2>3, <3>2 DEF Start
  <2>9. ASSUME NEW m \in Higher
         PROVE  key < Start(m) /\ \A n \in Reach(View, t) : Start(n) < Start(m)
    <3>1. /\ On("sp_r", View.vm_start[m], key)
          /\ \A x \in D[t] : On("sp_r", View.vm_start[m], View.vm_start[x])
      BY <2>5, <2>6, <2>9
    <3>2. /\ key < heap.vm_start[m]
          /\ \A x \in D[t] : heap.vm_start[x] < heap.vm_start[m]
      BY <2>7, <3>1 DEF On
    <3> QED BY <2>3, <3>2 DEF Start
  <2> QED BY <2>8, <2>9
<1>5. ASSUME NEW m \in Right
      PROVE  /\ Start(victim) < Start(m)
             /\ \A n \in Nodes \ Right : Start(n) < Start(victim)
  <2>1. m \in Aside /\ victim # Null
    BY <1>1, <1>2, <1>5
  <2>2. \A n \in Nodes \ Right : n \in Here
    BY <1>1, <1>2
  <2> QED BY <1>2, <2>1, <2>2 DEF Start
<1> QED BY <1>3, <1>4, <1>5 DEF SearchTree

\* the parent of each node is in Tree and Parented,
LEMMA ParentsRightHolds ==
  ASSUME IInv
  PROVE  ParentsRight
<1> SUFFICES ASSUME pc = "idle", NEW n \in Nodes
             PROVE  IF n = root THEN heap.sp_p[n] = Null
                    ELSE /\ heap.sp_p[n] \in Nodes
                         /\ \E w \in Side : heap[w][heap.sp_p[n]] = n
  BY DEF ParentsRight
<1>1. /\ Nodes = LiveOf(heap) /\ Fine(heap, root, LiveOf(heap)) /\ Null \notin LiveOf(heap)
  BY IdleNodes, IdleFacts, MembersIn, Constants DEF LiveOf
<1>2. n \in LiveOf(heap) /\ root # Null /\ root \in LiveOf(heap)
  BY <1>1, FineFacts
<1>3. CASE n = root
  BY <1>1, <1>2, <1>3 DEF Fine
<1>4. CASE n # root
  <2>1. PICK D : Whole(heap, root, LiveOf(heap), D)
    BY <1>1 DEF Fine
  <2>2. /\ Tree(heap, LiveOf(heap), D) /\ Parented(heap, LiveOf(heap))
        /\ D[root] = LiveOf(heap)
    BY <1>2, <2>1 DEF Whole, Under
  <2>3. PICK a \in D[root], w \in Side : heap[w][a] = n
    BY <1>2, <1>4, <2>2 DEF Tree
  <2>4. heap.sp_p[n] = a
    BY <1>1, <1>2, <2>2, <2>3 DEF Parented
  <2> QED BY <1>1, <1>4, <2>2, <2>3, <2>4
<1> QED BY <1>3, <1>4

\* the neighbours on the list are in Listed,
LEMMA ListInOrderHolds ==
  ASSUME IInv
  PROVE  ListInOrder
<1>1. Nodes = Members /\ Listed(heap, Members) /\ Null \notin Members
  BY NodesAre, MembersIn DEF IInv
<1> SUFFICES ASSUME NEW n \in Members
             PROVE  LET below == {m \in Members : Start(m) < Start(n)}
                        above == {m \in Members : Start(n) < Start(m)}
                    IN  /\ IF below = {} THEN Prev(n) = Null
                           ELSE /\ Prev(n) \in below
                                /\ \A m \in below : Start(m) <= Start(Prev(n))
                        /\ IF above = {} THEN Succ(n) = Null
                           ELSE /\ Succ(n) \in above
                                /\ \A m \in above : Start(Succ(n)) <= Start(m)
  BY <1>1 DEF ListInOrder
<1> DEFINE below == {m \in Members : Start(m) < Start(n)}
           above == {m \in Members : Start(n) < Start(m)}
           p == heap.vm_prev[n]
           q == heap.vm_next[n]
<1>2. /\ p = Null => \A x \in Members : ~(heap.vm_start[x] < heap.vm_start[n])
      /\ p # Null => /\ p \in Members /\ heap.vm_start[p] < heap.vm_start[n]
                     /\ \A x \in Members : heap.vm_start[x] < heap.vm_start[n] =>
                          x = p \/ heap.vm_start[x] < heap.vm_start[p]
      /\ q = Null => \A x \in Members : ~(heap.vm_start[n] < heap.vm_start[x])
      /\ q # Null => /\ q \in Members /\ heap.vm_start[n] < heap.vm_start[q]
                     /\ \A x \in Members : heap.vm_start[n] < heap.vm_start[x] =>
                          x = q \/ heap.vm_start[q] < heap.vm_start[x]
  BY <1>1, Neighbour
<1>3. \A x \in Members : Start(x) \in Nat /\ Start(x) = heap.vm_start[x]
  BY <1>1 DEF Listed, Start
<1>4. Prev(n) = p /\ Succ(n) = q
  BY DEF Prev, Succ
<1> HIDE DEF p, q
<1>5. IF below = {} THEN p = Null
      ELSE p \in below /\ \A m \in below : Start(m) <= Start(p)
  <2>1. CASE p = Null
    BY <1>2, <1>3, <2>1
  <2>2. CASE p # Null
    <3>1. p \in below
      BY <1>2, <1>3, <2>2
    <3>2. \A m \in below : Start(m) <= Start(p)
      BY <1>2, <1>3, <2>2
    <3> QED BY <3>1, <3>2
  <2> QED BY <2>1, <2>2
<1>6. IF above = {} THEN q = Null
      ELSE q \in above /\ \A m \in above : Start(q) <= Start(m)
  <2>1. CASE q = Null
    BY <1>2, <1>3, <2>1
  <2>2. CASE q # Null
    <3>1. q \in above
      BY <1>2, <1>3, <2>2
    <3>2. \A m \in above : Start(q) <= Start(m)
      BY <1>2, <1>3, <2>2
    <3> QED BY <3>1, <3>2
  <2> QED BY <2>1, <2>2
<1> QED BY <1>4, <1>5, <1>6

\* between operations nothing is left out of the tree,
LEMMA NoneLostHolds ==
  ASSUME IInv
  PROVE  NoneLost
<1>1. Live = LiveOf(heap)
  BY DEF Live, LiveOf, Start, End
<1> QED BY <1>1, IdleNodes DEF NoneLost

\* The way the tree is used does not change.
LEMMA UseKept ==
  ASSUME [Next]_vars
  PROVE  use' = use
<1>1. CASE UNCHANGED vars
  BY <1>1 DEF vars
<1>2. CASE Call
  BY <1>2 DEF Call, CallInsert, CallRemove, CallFind, CallFindMod, CallFree, Enter
<1>3. CASE Work
  <2>1. CASE Iterate \/ Assemble \/ Insert \/ Remove \/ Join \/ Find
    BY <2>1 DEF Iterate, Assemble, Insert, Remove, Join, Find
  <2>2. CASE FirstNode \/ NewNode \/ Migrated
    BY <2>2 DEF FirstNode, NewNode, Migrated
  <2>3. ASSUME NEW n, MidSplit(n) \/ FirstPage(n) \/ LastPage(n) \/ OnlyPage(n)
        PROVE  use' = use
    BY <2>3 DEF MidSplit, FirstPage, LastPage, OnlyPage
  <2>4. CASE NewPrev \/ OldPrev \/ NewNext \/ OldNext
    BY <2>4 DEF NewPrev, OldPrev, MergePrev, NewNext, OldNext
  <2>5. CASE FreeDone \/ \E n \in Node : CallRemove(n)
    BY <2>5 DEF FreeDone, CallRemove, Enter
  <2> QED BY <1>3, <2>1, <2>2, <2>3, <2>4, <2>5 DEF Work
<1> QED BY <1>1, <1>2, <1>3 DEF Next

-----------------------------------------------------------------------------
(* The header of a splay, which is on its stack, is not pointed to after it. *)

\* No node's parent is the header.
Headless(h) == HeapDom(h) /\ \A n \in Node : h.sp_p[n] # Header

\* In the splay only the nodes it splays may have it as parent.
HInv ==
  /\ pc # "splay" => Headless(heap)
  /\ \A n \in Node \ Here : heap.sp_p[n] # Header

\* No other macro makes the header a parent: not the link to a child,
LEMMA HeadlessChild ==
  ASSUME NEW h, Headless(h), NEW a, a # Header, NEW w \in Side, NEW b
  PROVE  Headless(MakeChild(h, a, w, b))
<1> DEFINE k == MakeChild(h, a, w, b)
<1>1. w \in Field /\ "sp_p" \in Field /\ w # "sp_p"
  BY DEF Side, Field, Link
<1>2. HeapDom(h)
  BY DEF Headless
<1>3. HeapDom(k)
  BY <1>1, <1>2 DEF MakeChild, HeapDom
<1>4. \A n \in Slot : k.sp_p[n] = IF n = a /\ h.sp_p[n] = b THEN Null
                                  ELSE IF n = b THEN a ELSE h.sp_p[n]
  <2>1. \A n \in Slot : k.sp_p[n] = IF n = a /\ h.sp_p[a] = b THEN Null
                                    ELSE IF n = b THEN a ELSE h.sp_p[n]
    BY <1>1, <1>2 DEF MakeChild, HeapDom
  <2> QED BY <2>1
<1> HIDE DEF k
<1>5. \A n \in Node : k.sp_p[n] # Header
  BY <1>4, Constants DEF Headless
<1>6. Headless(k)
  BY <1>3, <1>5 DEF Headless
<1> QED BY <1>6 DEF k

\* not what sets another field of a node, or clears its parent,
LEMMA HeadlessSet ==
  ASSUME NEW h, Headless(h), NEW z, NEW e
  PROVE  /\ \A f \in Field \ {"sp_p"} : Headless([h EXCEPT ![f][z] = e])
         /\ Headless([h EXCEPT !.sp_p[z] = Null])
<1>1. HeapDom(h) /\ "sp_p" \in Field
  BY DEF Headless, Field, Link
<1>2. ASSUME NEW f \in Field \ {"sp_p"}
      PROVE  Headless([h EXCEPT ![f][z] = e])
  <2> DEFINE k == [h EXCEPT ![f][z] = e]
  <2>1. HeapDom(k)
    BY <1>1, <1>2 DEF HeapDom
  <2>2. k.sp_p = h.sp_p
    BY <1>1, <1>2 DEF HeapDom
  <2> HIDE DEF k
  <2>3. Headless(k)
    BY <2>1, <2>2 DEF Headless
  <2> QED BY <2>3 DEF k
<1>3. Headless([h EXCEPT !.sp_p[z] = Null])
  <2> DEFINE k == [h EXCEPT !.sp_p[z] = Null]
  <2>1. HeapDom(k)
    BY <1>1 DEF HeapDom
  <2>2. \A n \in Slot : k.sp_p[n] = IF n = z THEN Null ELSE h.sp_p[n]
    BY <1>1 DEF HeapDom
  <2> HIDE DEF k
  <2>3. Headless(k)
    BY <2>1, <2>2, Constants DEF Headless
  <2> QED BY <2>3 DEF k
<1> QED BY <1>2, <1>3

\* not what makes a node anew,
LEMMA HeadlessFresh ==
  ASSUME NEW h, Headless(h), NEW z
  PROVE  /\ Headless(Freed(h, z))
         /\ \A s, e, f : Headless(NodeInit(h, z, s, e, f))
<1> DEFINE k == Freed(h, z)
<1>1. HeapDom(h) /\ {"sp_p", "vm_start", "vm_end", "vm_flags"} \subseteq Field
      /\ "sp_p" \in Link
  BY DEF Headless, Field, Link, Data
<1>2. HeapDom(k)
  BY <1>1 DEF Freed, HeapDom
<1>3. \A n \in Slot : k.sp_p[n] = IF n = z THEN Null ELSE h.sp_p[n]
  BY <1>1 DEF Freed, HeapDom
<1>4. Headless(k)
  <2> HIDE DEF k
  <2> QED BY <1>2, <1>3, Constants DEF Headless
<1>5. ASSUME NEW s, NEW e, NEW f
      PROVE  Headless(NodeInit(h, z, s, e, f))
  <2> DEFINE g == NodeInit(h, z, s, e, f)
  <2>1. g = [k EXCEPT !.vm_start[z] = s, !.vm_end[z] = e, !.vm_flags[z] = f]
    BY DEF NodeInit
  <2> HIDE DEF k
  <2>2. HeapDom(g)
    BY <1>1, <1>2, <2>1 DEF HeapDom
  <2>3. g.sp_p = k.sp_p
    BY <1>1, <1>2, <2>1 DEF HeapDom
  <2> HIDE DEF g
  <2>4. Headless(g)
    BY <1>4, <2>2, <2>3 DEF Headless
  <2> QED BY <2>4 DEF g
<1> QED BY <1>4, <1>5

\* not the list's macros,
LEMMA HeadlessList ==
  ASSUME NEW h, Headless(h), NEW z
  PROVE  /\ \A b : \A w, o \in {"vm_prev", "vm_next"} : Headless(ListInsert(h, z, b, w, o))
         /\ Headless(ListRemove(h, z))
<1>1. {"vm_prev", "vm_next"} \subseteq Field \ {"sp_p"}
  BY DEF Field, Link
<1>2. ASSUME NEW b, NEW w \in {"vm_prev", "vm_next"}, NEW o \in {"vm_prev", "vm_next"}
      PROVE  Headless(ListInsert(h, z, b, w, o))
  <2> DEFINE c   == h[w][b]
             h1  == [h EXCEPT ![w][z] = c]
             h2  == [h1 EXCEPT ![o][z] = b]
             set == [h2 EXCEPT ![w][b] = z]
  <2>1. ListInsert(h, z, b, w, o) = IF c # Null THEN [set EXCEPT ![o][c] = z] ELSE set
    BY DEF ListInsert
  <2> HIDE DEF c
  <2>2. Headless(h1)
    BY <1>1, HeadlessSet
  <2> HIDE DEF h1
  <2>3. Headless(h2)
    BY <1>1, <2>2, HeadlessSet
  <2> HIDE DEF h2
  <2>4. Headless(set)
    BY <1>1, <2>3, HeadlessSet
  <2> HIDE DEF set
  <2>5. Headless([set EXCEPT ![o][c] = z])
    BY <1>1, <2>4, HeadlessSet
  <2> QED BY <2>1, <2>4, <2>5
<1>3. Headless(ListRemove(h, z))
  <2> DEFINE p == h.vm_prev[z]
             n == h.vm_next[z]
             skip == IF p # Null THEN [h EXCEPT !.vm_next[p] = n] ELSE h
  <2>1. ListRemove(h, z) = IF n # Null THEN [skip EXCEPT !.vm_prev[n] = p] ELSE skip
    BY DEF ListRemove
  <2> HIDE DEF p, n
  <2>2. Headless(skip)
    BY <1>1, HeadlessSet
  <2> HIDE DEF skip
  <2>3. Headless([skip EXCEPT !.vm_prev[n] = p])
    BY <1>1, <2>2, HeadlessSet
  <2> QED BY <2>1, <2>2, <2>3
<1> QED BY <1>2, <1>3

\* and not the insert helper.
LEMMA HeadlessHelper ==
  ASSUME NEW h, Headless(h), NEW r, NEW top, top # Header, NEW z, z # Header
  PROVE  Headless(InsertHelper(h, r, top, z))
<1>1. ASSUME NEW w \in Side, NEW o \in Side, NEW wl \in {"vm_prev", "vm_next"},
             NEW ol \in {"vm_prev", "vm_next"}
      PROVE  Headless(Beside(h, z, top, w, o, wl, ol))
  <2> DEFINE g == ListInsert(h, z, top, wl, ol)
             k == MakeChild(g, z, w, g[w][top])
             j == MakeChild(k, z, o, top)
  <2>1. Beside(h, z, top, w, o, wl, ol) = [j EXCEPT ![w][top] = Null]
    BY DEF Beside
  <2>2. Headless(g)
    BY HeadlessList
  <2> HIDE DEF g
  <2>3. Headless(k)
    BY <2>2, HeadlessChild
  <2> HIDE DEF k
  <2>4. Headless(j)
    BY <2>3, HeadlessChild
  <2> HIDE DEF j
  <2>5. w \in Field \ {"sp_p"}
    BY DEF Side, Field, Link
  <2>6. Headless([j EXCEPT ![w][top] = Null])
    BY <2>4, <2>5, HeadlessSet
  <2> QED BY <2>1, <2>6
<1>2. /\ Headless(Beside(h, z, top, "sp_l", "sp_r", "vm_prev", "vm_next"))
      /\ Headless(Beside(h, z, top, "sp_r", "sp_l", "vm_next", "vm_prev"))
  BY <1>1 DEF Side
<1> QED BY <1>2 DEF InsertHelper

\* In the splay nothing else is done.
LEMMA SplayOnly ==
  ASSUME [Next]_vars
  PROVE  pc # "splay" \/ UNCHANGED vars \/ Iterate \/ Assemble
<1>1. Call => pc # "splay"
  BY DEF Call, CallInsert, CallRemove, CallFind, CallFindMod, CallFree
<1>2. Work => pc # "splay" \/ Iterate \/ Assemble
  BY DEF Work, Insert, Remove, Join, Find, FirstNode, NewNode, MidSplit, FirstPage,
         LastPage, OnlyPage, AtTarget, Migrated, NewPrev, OldPrev, MergePrev, NewNext,
         OldNext, MergeNext, CallRemove, FreeDone
<1> QED BY <1>1, <1>2 DEF Next

\* Nor is it the parent of a node after the splay: each is in the tree of the
\* new root, or was not splayed.
LEMMA SplayHeadless ==
  ASSUME IInv, HInv, IInv', Iterate \/ Assemble
  PROVE  HInv'
<1>1. /\ pc = "splay" /\ UNCHANGED <<op, victim, cur>>
      /\ \/ Iterate /\ pc' = pc
         \/ Assemble /\ t' = t
  BY DEF Iterate, Assemble
<1>2. PICK D : Splaying(Seen(heap, hook), t, hook, key, Here, D)
  BY <1>1 DEF IInv, MainTree
<1>3. Typed(heap) /\ Here \subseteq Node /\ t \in Here
  BY <1>2, MembersIn DEF IInv, Types, Splaying
<1>4. heap' = heap \/ Reshaped(heap', heap, Here)
  <2>1. CASE Iterate
    BY <2>1, IterateIs
  <2>2. CASE Assemble
    BY <1>2, <1>3, <2>2, AssembledIs DEF Assemble
  <2> QED BY <2>1, <2>2
<1>5. Here' = Here
  BY <1>1, <1>4, HereSame
<1>6. \A n \in Node \ Here' : heap'.sp_p[n] # Header
  <2>1. \A n \in Node \ Here : n \in Slot \ (Here \cup {Header}) /\ "sp_p" \in Field
    BY Constants
  <2>2. \A n \in Node \ Here : heap'.sp_p[n] = heap.sp_p[n]
    BY <1>4, <2>1 DEF Reshaped, Same
  <2> QED BY <1>5, <2>2 DEF HInv
<1>7. ASSUME pc' # "splay"
      PROVE  Headless(heap')
  <2>1. t' = t /\ t' \in Here' /\ t' # Null /\ HeapDom(heap')
    BY <1>1, <1>3, <1>5, <1>7, Constants DEF IInv, Types, Typed
  <2>2. Top' = t' /\ heap'.sp_p[t'] = Null
    BY <1>7, <2>1 DEF IInv, MainTree, Top
  <2>3. PICK E : Whole(heap', t', Here', E)
    BY <1>7, <2>2 DEF IInv, MainTree
  <2>4. ASSUME NEW n \in Here', n # t'
        PROVE  heap'.sp_p[n] # Header
    <3>1. Tree(heap', Here', E) /\ Parented(heap', Here') /\ E[t'] = Here'
      BY <2>1, <2>3 DEF Whole, Under
    <3>2. PICK a \in E[t'], w \in Side : heap'[w][a] = n
      BY <2>1, <2>4, <3>1 DEF Tree
    <3>3. a \in Node /\ n # Null
      BY <1>3, <1>5, <2>4, <3>1, <3>2, Constants
    <3>4. heap'.sp_p[n] = a
      BY <3>1, <3>2, <3>3 DEF Parented
    <3> QED BY <3>3, <3>4, Constants
  <2> QED BY <1>6, <2>1, <2>2, <2>4, Constants DEF Headless
<1> QED BY <1>6, <1>7 DEF HInv

\* The other steps write no header.
LEMMA StepHeadless ==
  ASSUME IInv, HInv, IInv', [Next]_vars, pc # "splay"
  PROVE  HInv'
<1>1. Headless(heap)
  BY DEF HInv
<1>2. /\ t \in Node \cup {Null} /\ root \in Node \cup {Null} /\ cur \in Node \cup {Null}
      /\ cur' \in Node \cup {Null} /\ found' \in Node \cup {Null}
      /\ Header \notin Node \cup {Null}
  BY Constants DEF IInv, Types
<1>3. "vm_start" \in Field \ {"sp_p"} /\ "vm_end" \in Field \ {"sp_p"}
  BY DEF Field, Data
<1>4. SUFFICES Headless(heap')
  BY DEF HInv, Headless
<1>5. CASE UNCHANGED heap
  BY <1>1, <1>5
<1>6. ASSUME NEW n, NEW what, NEW m, RemoveHelper(n, what, m)
      PROVE  Headless(heap')
  BY <1>1, <1>6, HeadlessList DEF RemoveHelper
<1>7. ASSUME NEW h, Headless(h), SplitOff(h)
      PROVE  Headless(heap')
  <2> DEFINE z == Fresh({})
             k(f) == NodeInit(h, z, vm_addr, vm_addr + 1, f)
  <2>1. PICK f \in Flag : \/ UNCHANGED heap
                          \/ heap' = InsertHelper(k(f), root, root, z) /\ found' = z
    BY <1>7 DEF SplitOff, Abort, ReturnNode
  <2>2. Headless(k(f))
    BY <1>7, HeadlessFresh
  <2> HIDE DEF z, k
  <2> QED BY <1>1, <1>2, <2>1, <2>2, HeadlessHelper
<1>8. CASE Call \/ \E n \in Node : CallRemove(n)
  <2>1. ASSUME NEW z \in Node, CallInsert(z) PROVE Headless(heap')
    BY <1>1, <2>1, HeadlessFresh DEF CallInsert
  <2>2. UNCHANGED heap \/ \E z \in Node : CallInsert(z)
    BY <1>8 DEF Call, CallRemove, CallFind, CallFindMod, CallFree
  <2> QED BY <1>5, <2>1, <2>2
<1>9. CASE Insert
  BY <1>1, <1>2, <1>9, HeadlessHelper DEF Insert, Abort
<1>10. CASE Remove
  BY <1>5, <1>6, <1>10 DEF Remove, Abort
<1>11. CASE Join
  <2> DEFINE j == [heap EXCEPT !.sp_p[t] = Null]
             g == Freed(Joined, victim)
  <2>1. Headless(j) /\ Headless([heap EXCEPT !.sp_p[heap.sp_r[victim]] = Null])
    BY <1>1, HeadlessSet
  <2>2. Joined = IF t # Null THEN MakeChild(j, t, "sp_r", heap.sp_r[victim])
                 ELSE IF heap.sp_r[victim] # Null
                        THEN [heap EXCEPT !.sp_p[heap.sp_r[victim]] = Null] ELSE heap
    BY DEF Joined
  <2> HIDE DEF j
  <2>3. Headless(MakeChild(j, t, "sp_r", heap.sp_r[victim]))
    BY <1>2, <2>1, HeadlessChild DEF Side
  <2>4. Headless(Joined)
    BY <1>1, <2>1, <2>2, <2>3
  <2>5. Headless(g)
    BY <2>4, HeadlessFresh
  <2>6. \/ heap' = g
        \/ heap' = [g EXCEPT !.vm_end[cur] = End(victim)]
        \/ heap' = [g EXCEPT !.vm_start[cur] = Start(victim)]
    BY <1>11 DEF Join
  <2> HIDE DEF g
  <2>7. /\ Headless([g EXCEPT !.vm_end[cur] = End(victim)])
        /\ Headless([g EXCEPT !.vm_start[cur] = Start(victim)])
    BY <1>3, <2>5, HeadlessSet
  <2> QED BY <2>5, <2>6, <2>7
<1>12. CASE Find \/ Migrated \/ FreeDone
  BY <1>5, <1>12 DEF Find, Migrated, FreeDone, Abort
<1>13. CASE FirstNode
  BY <1>1, <1>13, HeadlessFresh DEF FirstNode
<1>14. CASE NewNode
  <2> DEFINE z == Fresh({})
             h == NodeInit(heap, z, vm_addr, vm_addr + 1, READ)
  <2>1. \/ UNCHANGED heap
        \/ heap' = InsertHelper(h, root, t, z) /\ cur' = z
    BY <1>14 DEF NewNode, Abort, Continue
  <2>2. Headless(h)
    BY <1>1, HeadlessFresh
  <2> HIDE DEF z, h
  <2> QED BY <1>1, <1>2, <2>1, <2>2, HeadlessHelper
<1>15. ASSUME NEW n \in Node, MidSplit(n)
       PROVE  Headless(heap')
  <2> DEFINE z   == Fresh({})
             y   == Fresh({z})
             h1  == NodeInit(heap, z, vm_addr, vm_addr + 1, Promote(Flags(n)))
             h2  == NodeInit(h1, y, vm_addr + 1, End(n), Flags(n))
             h3  == [h2 EXCEPT !.vm_end[n] = vm_addr]
             h4  == InsertHelper(h3, root, root, y)
  <2>1. /\ AtTarget(n, FALSE, FALSE)
        /\ UNCHANGED heap \/ heap' = InsertHelper(h4, y, y, z)
    BY <1>15 DEF MidSplit, Abort
  <2>2. z \in Node /\ y \in Node
    BY <2>1, FreshTwo
  <2>3. Headless(h1)
    BY <1>1, HeadlessFresh
  <2> HIDE DEF z, h1
  <2>4. Headless(h2)
    BY <2>3, HeadlessFresh
  <2> HIDE DEF y, h2
  <2>5. Headless(h3)
    BY <1>3, <2>4, HeadlessSet
  <2> HIDE DEF h3
  <2>6. Headless(h4)
    BY <1>2, <2>2, <2>5, HeadlessHelper
  <2> HIDE DEF h4
  <2> QED BY <1>1, <1>2, <2>1, <2>2, <2>6, HeadlessHelper
<1>16. ASSUME NEW n \in Node, FirstPage(n) \/ LastPage(n) \/ OnlyPage(n)
       PROVE  Headless(heap')
  <2>1. /\ Headless([heap EXCEPT !.vm_start[n] = vm_addr + 1])
        /\ Headless([heap EXCEPT !.vm_end[n] = vm_addr])
    BY <1>1, <1>3, HeadlessSet
  <2>2. Headless(GiveToPrev(n)) /\ Headless(GiveToNext(n))
    <3>1. /\ Headless([[heap EXCEPT !.vm_start[n] = vm_addr + 1]
                         EXCEPT !.vm_end[Prev(n)] = vm_addr + 1])
          /\ Headless([[heap EXCEPT !.vm_end[n] = vm_addr]
                         EXCEPT !.vm_start[Succ(n)] = vm_addr])
      BY <1>3, <2>1, HeadlessSet
    <3> QED BY <3>1 DEF GiveToPrev, GiveToNext
  <2>3. CASE FirstPage(n)
    BY <1>7, <2>1, <2>2, <2>3 DEF FirstPage, Migrate
  <2>4. CASE LastPage(n)
    BY <1>7, <2>1, <2>2, <2>4 DEF LastPage, Migrate
  <2>5. CASE OnlyPage(n)
    BY <1>5, <2>5 DEF OnlyPage
  <2> QED BY <1>16, <2>3, <2>4, <2>5
<1>17. CASE NewPrev \/ OldPrev
  BY <1>5, <1>6, <1>17 DEF NewPrev, OldPrev, MergePrev
<1>18. CASE NewNext \/ OldNext
  BY <1>5, <1>6, <1>18 DEF NewNext, OldNext, MergeNext, Abort
<1>19. ~Iterate /\ ~Assemble
  BY DEF Iterate, Assemble
<1>20. CASE UNCHANGED vars
  BY <1>5, <1>20 DEF vars
<1>21. CASE Work
  BY <1>8, <1>9, <1>10, <1>11, <1>12, <1>13, <1>14, <1>15, <1>16, <1>17, <1>18, <1>19,
     <1>21 DEF Work
<1> QED BY <1>8, <1>20, <1>21 DEF Next

\* So nothing but the splay's loop ever sees its header.
LEMMA HeadlessAlways ==
  ASSUME Uses \subseteq {"regions", "faults"}
  PROVE  Spec => []HInv
<1>1. Init => HInv
  <2> SUFFICES ASSUME Init PROVE HInv
    OBVIOUS
  <2>1. IInv
    BY InitIInv
  <2>2. HeapDom(heap)
    BY <2>1 DEF IInv, Types, Typed
  <2>3. \A n \in Node : heap.sp_p[n] = Null
    BY Constants DEF Init, Slot
  <2> QED BY <2>2, <2>3, Constants DEF HInv, Headless
<1>2. IInv /\ HInv /\ [Next]_vars /\ IInv' => HInv'
  <2> SUFFICES ASSUME IInv, HInv, [Next]_vars, IInv' PROVE HInv'
    OBVIOUS
  <2>1. CASE pc # "splay"
    BY <2>1, StepHeadless
  <2>2. CASE pc = "splay" /\ UNCHANGED vars
    BY <2>2 DEF HInv, Headless, Here, Members, LiveOf, vars, locals
  <2>3. CASE Iterate \/ Assemble
    BY <2>3, SplayHeadless
  <2>4. pc # "splay" \/ UNCHANGED vars \/ Iterate \/ Assemble
    BY SplayOnly
  <2> QED BY <2>1, <2>2, <2>3, <2>4
<1> QED BY <1>1, <1>2, SplayInvariant, PTL DEF Spec

\* What is on the stack is given by what each operation knows.
LEMMA TypeOKHolds ==
  ASSUME IInv, HInv, use \in Uses
  PROVE  TypeOK
<1>1. /\ Typed(heap) /\ MainTree /\ Ops
      /\ vm_addr \in Address \cup {Null} /\ key \in Address \cup {Null}
      /\ root \in Node \cup {Null} /\ {t, victim, cur, found} \subseteq Node \cup {Null}
      /\ {draining, aborted} \subseteq BOOLEAN
  BY DEF IInv, Types
<1>2. DOMAIN heap = Link \cup {"vm_start", "vm_end", "vm_flags"}
  BY <1>1 DEF Typed, HeapDom, Field, Data
<1>3. /\ \A n \in Node \cup {Header} :
           /\ \A f \in Link \ {"sp_p"} : heap[f][n] \in Node \cup {Null}
           /\ Start(n) \in Nat /\ End(n) \in Nat /\ Flags(n) \in Flag
      /\ \A n \in Node : heap.sp_p[n] \in Node \cup {Null} \cup HeaderInUse
  <2>1. \A n \in Node \cup {Header} :
          /\ \A f \in Link \ {"sp_p"} : heap[f][n] \in Node \cup {Null}
          /\ Start(n) \in Nat /\ End(n) \in Nat /\ Flags(n) \in Flag
    BY <1>1 DEF Typed, Slot, Link, Start, End, Flags
  <2>2. \A n \in Node : heap.sp_p[n] \in Node \cup {Null} \cup HeaderInUse
    BY <1>1 DEF Typed, Slot, HInv, Headless, HeaderInUse
  <2> QED BY <2>1, <2>2
<1>4. /\ hook \in [Side -> Node \cup {Header}]
      /\ pc # "splay" => \A w \in Side : hook[w] = Header /\ heap[w][Header] = Null
  <2>1. CASE pc = "splay"
    <3>1. PICK D : Splaying(Seen(heap, hook), t, hook, key, Here, D)
      BY <1>1, <2>1 DEF MainTree
    <3>2. hook \in [Side -> Here \cup {Header}] /\ Here \subseteq Node
      BY <3>1, MembersIn DEF Splaying
    <3> QED BY <2>1, <3>2 DEF Side
  <2>2. CASE pc # "splay"
    BY <1>1, <2>2 DEF MainTree, HeaderHooks
  <2> QED BY <2>1, <2>2
<1>5. /\ pc \in {"idle", "splay", "run"}
      /\ op \in {"none", "insert", "remove", "join", "find", "mod", "migrate",
                 "new_prev", "new_next", "old_prev", "old_next"}
  BY <1>1 DEF Ops, Merges
<1>6. after \in {"none", "removed", "new_next", "old_next", "found"}
  <2>1. CASE op = "join"
    BY <1>1, <2>1 DEF Ops, AtJoin
  <2>2. CASE op # "join"
    <3>1. after = "none"
      BY <1>1, <2>2 DEF Ops, AtNone, AtInsert, AtRemove, AtFind, AtMod, First,
                        AtMigrate, AtMerge
    <3> QED BY <3>1
  <2> QED BY <2>1, <2>2
<1> QED BY <1>1, <1>2, <1>3, <1>4, <1>5, <1>6 DEF TypeOK

\* Every pointer is to a node or NULL, but for the header of a splay, which only
\* the splay's loop points to (sp_tree.c:139), and what an operation has on its
\* stack is of its type: TypeOK, for any number of nodes.
THEOREM TypeOKAlways ==
  ASSUME Uses \subseteq {"regions", "faults"}
  PROVE  Spec => []TypeOK
<1>1. Init => use \in Uses
  BY DEF Init
<1>2. use \in Uses /\ [Next]_vars => (use \in Uses)'
  BY UseKept
<1>3. Spec => [](use \in Uses)
  BY <1>1, <1>2, PTL DEF Spec
<1>4. IInv /\ HInv /\ use \in Uses => TypeOK
  BY TypeOKHolds
<1> QED BY <1>3, <1>4, SplayInvariant, HeadlessAlways, PTL

\* Every part of the tree is a search tree at every moment of a splay (sp_tree.c:
\* 137-196), and so is what a removal puts aside.
THEOREM SearchTreeAlways ==
  ASSUME Uses \subseteq {"regions", "faults"}
  PROVE  Spec => []SearchTree
<1>1. IInv => SearchTree
  BY SearchTreeHolds
<1> QED BY <1>1, SplayInvariant, PTL

\* Between operations sp_p is the parent in the tree (sp_tree.c:92-95).
THEOREM ParentsRightAlways ==
  ASSUME Uses \subseteq {"regions", "faults"}
  PROVE  Spec => []ParentsRight
<1>1. IInv => ParentsRight
  BY ParentsRightHolds
<1> QED BY <1>1, SplayInvariant, PTL

\* The list has the nodes of the tree in the order of their addresses, at every
\* moment (sp_tree.c:76-90).
THEOREM ListInOrderAlways ==
  ASSUME Uses \subseteq {"regions", "faults"}
  PROVE  Spec => []ListInOrder
<1>1. IInv => ListInOrder
  BY ListInOrderHolds
<1> QED BY <1>1, SplayInvariant, PTL

\* No assertion of sp_tree.c fails, and no vm_prev that is NULL is followed
\* (sp_tree.c:217,322,357,363-364,642).
THEOREM NoAbortAlways ==
  ASSUME Uses \subseteq {"regions", "faults"}
  PROVE  Spec => []NoAbort
<1>1. IInv => NoAbort
  BY DEF IInv, Types, NoAbort
<1> QED BY <1>1, SplayInvariant, PTL

\* Between operations every vm_area that was not given back is in the tree.
THEOREM NoneLostAlways ==
  ASSUME Uses \subseteq {"regions", "faults"}
  PROVE  Spec => []NoneLost
<1>1. IInv => NoneLost
  BY NoneLostHolds
<1> QED BY <1>1, SplayInvariant, PTL

-----------------------------------------------------------------------------
(* Where a binary search for the key of a splay ends *)

\* An iteration takes the search for key one or two nodes down, and leaves the
\* pointers as they are below the node it comes to.
LEMMA IterateSearch ==
  ASSUME IInv, Iterate
  PROVE  SearchEnd(t, key) = SearchEnd(t, key)'
<1> DEFINE v == Seen(heap, hook)
           u == Seen(heap', hook')
           E(h, n) == Ending(h, n, key)
<1>1. PICK w \in Side : Beyond(w, t) /\ heap[w][t] # Null /\ Descend(w)
  BY DEF Iterate
<1>2. /\ pc = "splay" /\ pc' = "splay" /\ key' = key
  BY DEF Iterate
<1>3. PICK D : Splaying(v, t, hook, key, Here, D)
  BY <1>2 DEF IInv, MainTree
<1>4. Typed(heap) /\ HeapDom(heap) /\ Here \subseteq Node /\ Null \notin Here
  BY MembersIn, Constants DEF IInv, Types, Typed
<1>5. /\ t \in Here /\ hook \in [Side -> Slot] /\ key \in Nat /\ t \in D[t]
      /\ \A z \in Side, x \in D[t] : heap[z][x] # Null => heap[z][x] \in D[t]
  BY <1>3, <1>4, TopFields
<1>6. /\ \A z \in Side : hook[z] \notin D[t]
      /\ D[t] \subseteq Here
  BY <1>3, <1>4, SplayApart
<1>7. /\ Tree(v, Here, D)
      /\ \A x \in D[t] : D[x] \subseteq D[t] /\ v.vm_start[x] \in Nat
  <2>1. Tree(v, Here, D)
    BY <1>3 DEF Splaying
  <2> QED BY <1>5, <1>6, <2>1 DEF Tree
<1>8. \A x \in D[t] : /\ x \in Slot /\ v.vm_start[x] = heap.vm_start[x]
                      /\ \A z \in Side : v[z][x] = heap[z][x]
  <2>1. "vm_start" \in Field /\ "vm_start" \notin Side
    BY DEF Field, Data, Side
  <2>2. \A x \in D[t] : x \in Slot
    BY <1>4, <1>6, Constants
  <2> QED BY <1>4, <1>5, <1>6, <2>1, <2>2, SeenIs
<1>9. /\ SearchEnd(t, key) = E(v, t)
      /\ SearchEnd(t, key)' = E(u, t')
  BY <1>2 DEF SearchEnd, View, Seen, Ending
<1>10. /\ Typed(heap') /\ hook' \in [Side -> Slot]
  <2>1. IInv'
    BY StepIterate
  <2>2. Typed(heap')
    BY <2>1 DEF IInv, Types
  <2>4. Here' \subseteq Node
    BY DEF Here, Members, LiveOf
  <2>3. PICK C : Splaying(u, t', hook', key', Here', C)
    BY <1>2, <2>1 DEF IInv, MainTree
  <2> QED BY <2>2, <2>3, <2>4, TopFields
<1>11. \A x \in Slot :
         /\ u.vm_start[x] = heap'.vm_start[x]
         /\ \A z \in Side : u[z][x] = IF x = hook'[z] THEN Null ELSE heap'[z][x]
  <2>1. "vm_start" \in Field /\ "vm_start" \notin Side
    BY DEF Field, Data, Side
  <2>2. HeapDom(heap')
    BY <1>10 DEF Typed
  <2> QED BY <1>10, <2>1, <2>2, SeenIs
<1> HIDE DEF v, u
<1>12. On(w, key, heap.vm_start[t])
  BY <1>1 DEF Beyond, On, Start
\* A search does not tell the two heaps apart where they are the same below c.
<1>13. ASSUME NEW c \in D[t], \A x \in D[c] : /\ u.vm_start[x] = heap.vm_start[x]
                                            /\ \A z \in Side : u[z][x] = heap[z][x]
       PROVE  E(u, c) = E(v, c)
  <2>1. c \in Here /\ D[c] \subseteq D[t]
    BY <1>6, <1>7
  <2>2. \A x \in D[c] : /\ u.vm_start[x] = v.vm_start[x]
                         /\ \A z \in Side : u[z][x] = v[z][x]
    BY <1>8, <1>13, <2>1
  <2>3. key \in Nat /\ Tree(v, Here, D) /\ Null \notin Here /\ c \in Here
    BY <1>4, <1>5, <1>7, <2>1
  <2> QED BY <2>2, <2>3, SearchSame
<1>14. ASSUME NEW n \in D[t], On(w, key, heap.vm_start[n]), heap[w][n] # Null
       PROVE  E(v, n) = E(v, heap[w][n])
  <2> DEFINE c == heap[w][n]
  <2>1. n \in Here /\ On(w, key, v.vm_start[n]) /\ c = v[w][n] /\ c # Null
    BY <1>6, <1>8, <1>14
  <2> HIDE DEF c
  <2>2. key \in Nat /\ Tree(v, Here, D) /\ Here \subseteq Node
    BY <1>4, <1>5, <1>7
  <2>3. E(v, n) = E(v, c)
    BY <2>1, <2>2, SearchDown
  <2> QED BY <2>3 DEF c
<1>15. ASSUME NEW h, Typed(h), NEW m \in D[t], h[w][m] = heap[w][m], heap[w][m] # Null,
              LinkTo(h, w, m), h.vm_start = heap.vm_start,
              \A x \in D[heap[w][m]], z \in Side : h[z][x] = heap[z][x]
       PROVE  E(u, t') = E(v, heap[w][m])
  <2> DEFINE c == heap[w][m]
             k == MakeChild(h, hook[w], w, m)
  <2>1. heap' = k /\ hook' = [hook EXCEPT ![w] = m] /\ t' = k[w][m]
    BY <1>15 DEF LinkTo
  <2>2. Linked(k, h, hook[w], w, m)
    BY <1>5, <1>15, MakeChildLinked DEF Typed
  <2> HIDE DEF k
  <2>3. /\ k.vm_start = h.vm_start
        /\ \A z \in Side, x \in Slot : k[z][x] = IF x = hook[w] /\ z = w THEN m ELSE h[z][x]
    BY <1>5, <2>2, LinkedTree
  <2>4. m \in Slot /\ m # hook[w]
    BY <1>6, <1>8
  <2>5. t' = c
    BY <1>15, <2>1, <2>3, <2>4
  <2>6. c \in D[t] /\ D[c] \subseteq D[t]
    BY <1>5, <1>7, <1>15
  <2>7. m \notin D[c]
    <3>1. m \in Here /\ v[w][m] = c
      BY <1>6, <1>8
    <3>2. m \notin Under(D, c)
      BY <1>4, <1>7, <3>1, TreeFacts
    <3> QED BY <1>15, <3>2 DEF Under
  <2>8. ASSUME NEW x \in D[c]
        PROVE  /\ u.vm_start[x] = heap.vm_start[x]
               /\ \A z \in Side : u[z][x] = heap[z][x]
    <3>1. x \in D[t] /\ x \in Slot /\ x # m /\ \A z \in Side : x # hook[z]
      BY <1>6, <1>8, <2>6, <2>7
    <3>2. \A z \in Side : x # hook'[z]
      BY <1>5, <2>1, <3>1
    <3>3. \A z \in Side : k[z][x] = h[z][x] /\ h[z][x] = heap[z][x]
      BY <1>15, <2>3, <3>1
    <3> QED BY <1>11, <1>15, <2>1, <2>3, <3>1, <3>2, <3>3
  <2>9. E(u, c) = E(v, c)
    BY <1>13, <2>6, <2>8
  <2> QED BY <2>5, <2>9
<1> DEFINE y == heap[w][t]
<1>16. CASE ~Far(w)
  <2>1. LinkTo(heap, w, t)
    BY <1>1, <1>16 DEF Descend
  <2>2. E(u, t') = E(v, y)
    BY <1>1, <1>4, <1>5, <1>15, <2>1
  <2>3. E(v, t) = E(v, y)
    BY <1>1, <1>5, <1>12, <1>14
  <2> QED BY <1>9, <2>2, <2>3
<1>17. CASE Far(w)
  <2> DEFINE o == Other(w)
             h1 == MakeChild(heap, t, w, heap[o][y])
             h == MakeChild(h1, y, o, t)
             d == heap[w][y]
  <2>1. y \in D[t] /\ y \in Slot /\ t \in Slot /\ y # t /\ o \in Side /\ o # w
    <3>1. t \notin Under(D, v[w][t]) /\ v[w][t] = y
      BY <1>4, <1>5, <1>7, <1>8, TreeFacts
    <3>2. y \in D[t] /\ y \in Slot /\ t \in Slot
      BY <1>1, <1>5, <1>8
    <3>3. y \in D[y]
      BY <1>4, <1>6, <1>7, <3>2, TreeFacts
    <3> QED BY <1>1, <3>1, <3>2, <3>3, OnOrder DEF Under
  <2>2. On(w, key, heap.vm_start[y])
    BY <1>17 DEF Far, Beyond, On, Start
  <2>3. Rotate(w) = h
    BY DEF Rotate
  <2>4. E(v, t) = E(v, y)
    BY <1>1, <1>5, <1>12, <1>14
  <2> HIDE DEF y, h1
  <2>5. Linked(h1, heap, t, w, heap[o][y])
    BY <1>4, <2>1, MakeChildLinked DEF h1
  <2> HIDE DEF h
  <2>6. Linked(h, h1, y, o, t)
    BY <2>1, <2>5, MakeChildLinked DEF Linked, h
  <2>7. /\ h.vm_start = heap.vm_start
        /\ \A x \in Slot, z \in Side : x # t /\ x # y => h[z][x] = heap[z][x]
        /\ h[w][y] = d
    <3>1. /\ h1.vm_start = heap.vm_start
          /\ \A x \in Slot, z \in Side : x # t \/ z # w => h1[z][x] = heap[z][x]
      BY <2>1, <2>5, LinkedTree
    <3>2. /\ h.vm_start = h1.vm_start
          /\ \A x \in Slot, z \in Side : x # y \/ z # o => h[z][x] = h1[z][x]
      BY <2>1, <2>6, LinkedTree
    <3> HIDE DEF o
    <3> QED BY <2>1, <3>1, <3>2
  <2>8. CASE d = Null
    <3>1. heap' = h /\ hook' = hook /\ t' = y
      BY <1>1, <1>17, <2>3, <2>7, <2>8 DEF Descend, y
    <3>2. v.vm_start[y] = heap.vm_start[y] /\ v[w][y] = Null /\ v.vm_start[y] \in Nat
      BY <1>7, <1>8, <2>1, <2>8
    <3>3. Toward(v, key, y) = y
      BY <1>5, <2>2, <3>2, TowardIs
    <3>4. u.vm_start[y] = heap.vm_start[y] /\ u[w][y] = Null
      BY <1>11, <2>1, <2>7, <2>8, <3>1
    <3>5. Toward(u, key, y) = y
      BY <1>5, <2>2, <3>2, <3>4, TowardIs
    <3>6. E(v, y) = y /\ E(u, y) = y
      BY <3>3, <3>5, SearchStays
    <3> QED BY <1>9, <2>4, <3>1, <3>6
  <2>9. CASE d # Null
    <3>1. LinkTo(h, w, y)
      BY <1>1, <1>17, <2>3, <2>7, <2>9 DEF Descend, y
    <3>2. Typed(h)
      <4>1. Typed(Rotate(w))
        BY <1>1, <1>3, <1>4, RotateKeeps DEF Reshaped, v
      <4> QED BY <2>3, <4>1
    <3>3. \A x \in D[d], z \in Side : h[z][x] = heap[z][x]
      <4>1. d \in D[y] /\ y \notin D[d] /\ t \notin D[y]
        <5>1. v[w][y] = d /\ y \in Here /\ v[w][t] = y /\ y # Null
          BY <1>1, <1>6, <1>8, <1>5, <2>1 DEF y
        <5>2. /\ y \notin Under(D, d) /\ t \notin Under(D, y)
              /\ d \in D[y]
          BY <1>4, <1>5, <1>7, <2>9, <5>1, TreeFacts
        <5> QED BY <2>9, <5>1, <5>2 DEF Under
      <4>3. D[d] \subseteq D[y]
        <5>1. y \in Here
          BY <1>6, <2>1
        <5> QED BY <1>7, <4>1, <5>1 DEF Tree
      <4>2. D[y] \subseteq D[t]
        BY <1>7, <2>1
      <4> QED BY <1>8, <2>7, <4>1, <4>2, <4>3
    <3>4. E(u, t') = E(v, d)
      BY <1>15, <2>1, <2>7, <2>9, <3>1, <3>2, <3>3
    <3>5. E(v, y) = E(v, d)
      BY <1>14, <2>1, <2>2, <2>9
    <3> QED BY <1>9, <2>4, <3>4, <3>5
  <2> QED BY <2>8, <2>9
<1> QED BY <1>16, <1>17

\* Where the loop ends the search does: t has no child on the side of key.
LEMMA AssembleSearch ==
  ASSUME IInv, Assemble
  PROVE  SearchEnd(t, key) = t
<1>1. pc = "splay" /\ \A w \in Side : Beyond(w, t) => heap[w][t] = Null
  BY DEF Assemble
<1>2. PICK D : Splaying(Seen(heap, hook), t, hook, key, Here, D)
  BY <1>1 DEF IInv, MainTree
<1>3. Typed(heap) /\ HeapDom(heap) /\ Here \subseteq Node
  BY MembersIn DEF IInv, Types, Typed
<1>4. t \in Slot /\ t \in Here /\ hook \in [Side -> Slot] /\ key \in Nat
  BY <1>2, <1>3, TopFields, Constants
<1>5. View = Seen(heap, hook)
  BY <1>1 DEF View, Seen
<1>6. /\ View.vm_start[t] = heap.vm_start[t]
      /\ \A w \in Side : View[w][t] \in {Null, heap[w][t]}
  <2>1. "vm_start" \in Field /\ "vm_start" \notin Side
    BY DEF Field, Data, Side
  <2> QED BY <1>3, <1>4, <1>5, <2>1, SeenIs
<1>7. View.vm_start[t] \in Nat
  BY <1>3, <1>4, <1>6 DEF Typed
<1>8. Toward(View, key, t) = t
  <2>1. CASE \E w \in Side : On(w, key, View.vm_start[t])
    <3>1. PICK w \in Side : On(w, key, View.vm_start[t])
      BY <2>1
    <3>2. Beyond(w, t)
      BY <1>6, <3>1 DEF Beyond, On, Start
    <3>3. View[w][t] = Null
      BY <1>1, <1>6, <3>2
    <3> QED BY <1>4, <1>7, <3>1, <3>3, TowardIs
  <2>2. CASE \A w \in Side : ~On(w, key, View.vm_start[t])
    BY <1>4, <1>7, <2>2, TowardStops
  <2> QED BY <2>1, <2>2
<1>9. Ending(View, t, key) = t
  BY <1>8, SearchStays
<1> QED BY <1>9 DEF Ending, SearchEnd

\* Within a splay nothing happens but the loop.
LEMMA InSplay ==
  ASSUME Next, pc = "splay"
  PROVE  Iterate \/ Assemble
<1>1. ~Call
  BY DEF Call, CallInsert, CallRemove, CallFind, CallFindMod, CallFree
<1>2. ~Insert /\ ~Remove /\ ~Join /\ ~Find /\ ~FirstNode /\ ~NewNode /\ ~Migrated
  BY DEF Insert, Remove, Join, Find, FirstNode, NewNode, Migrated
<1>3. \A n \in Node : ~MidSplit(n) /\ ~FirstPage(n) /\ ~LastPage(n) /\ ~OnlyPage(n)
  BY DEF MidSplit, FirstPage, LastPage, OnlyPage, AtTarget
<1>4. ~NewPrev /\ ~OldPrev /\ ~NewNext /\ ~OldNext
  BY DEF NewPrev, OldPrev, MergePrev, NewNext, OldNext
<1>5. ~FreeDone /\ \A n \in Node : ~CallRemove(n)
  BY DEF FreeDone, CallRemove
<1> QED BY <1>1, <1>2, <1>3, <1>4, <1>5 DEF Next, Work

\* "If it isn't there, then the node put at the root is the last one before NULL
\* that would have been reached in a normal binary search for i."
\* (sp_tree.c:48-50)
THEOREM SplaysLastReachedAlways ==
  ASSUME Uses \subseteq {"regions", "faults"}
  PROVE  Spec => SplaysLastReached
<1>1. ASSUME IInv, [Next]_vars
      PROVE  [pc = "splay" =>
               SearchEnd(t, key) = IF pc' = "run" THEN t' ELSE SearchEnd(t, key)']_vars
  <2>1. CASE UNCHANGED vars
    BY <2>1
  <2>2. CASE Next /\ pc = "splay"
    <3>1. Iterate \/ Assemble
      BY <2>2, InSplay
    <3>2. CASE Iterate
      <4>1. pc' # "run"
        BY <3>2 DEF Iterate
      <4> QED BY <1>1, <3>2, <4>1, IterateSearch
    <3>3. CASE Assemble
      <4>1. pc' = "run" /\ t' = t
        BY <3>3 DEF Assemble
      <4> QED BY <1>1, <3>3, <4>1, AssembleSearch
    <3> QED BY <3>1, <3>2, <3>3
  <2>3. CASE pc # "splay"
    BY <2>3
  <2> QED BY <1>1, <2>1, <2>2, <2>3
<1> QED BY <1>1, SplayInvariant, PTL DEF Spec, SplaysLastReached

=============================================================================
