------------------------------ MODULE SplayTree ------------------------------
(***************************************************************************)
(* The page table of src/src/sp_tree.c with its pointers: a top-down splay *)
(* tree of vm_areas, which are also on a doubly linked list in the order   *)
(* of their addresses.  Every operation runs under the tree's lock, so one *)
(* runs at a time; a step is one iteration of the splay's loop, or what an *)
(* operation does up to its next splay.                                    *)
(***************************************************************************)
EXTENDS Integers, FiniteSets

CONSTANTS
  Node,     \* the vm_areas, by number
  Region,   \* Region[n]: start and end of the region the program inserts as n
  Page,     \* the page-aligned addresses given to sp_tree_find_mod_and_lock,
            \* in units of OOC_PAGE_SIZE
  Header,   \* the local node n of the splay, to which it ties what it cuts off
  Null,
  Uses      \* the ways the tree may be used, of those below

\* "regions": regions of the program are inserted, removed and searched for.
\* "faults":  sp_tree_find_mod_and_lock of a page in no region yet, or in the
\*            region of the root where the splay leaves that in its place; also
\*            removals and searches.
\* "pages":   the same with sp_tree_find_mod_and_lock of any page.
AllUses == {"regions", "faults", "pages"}

ASSUME NodeAssumption ==
  /\ Node \subseteq Nat /\ IsFiniteSet(Node)
  /\ Page \subseteq Node

ASSUME RegionsApart ==
  \A m, n \in Node :
    /\ Region[n].start \in Nat /\ Region[n].end \in Nat
    /\ Region[n].start < Region[n].end
    /\ m < n => Region[m].end <= Region[n].start

ASSUME NotNodes == Header \notin Nat /\ Null \notin Nat /\ Header # Null

ASSUME UsesAssumption == Uses \subseteq AllUses

VARIABLES
  use,      \* how the tree is used
  heap,     \* the fields of every vm_area: sp_l, sp_r, sp_p, vm_prev, vm_next,
            \* vm_start, vm_end and vm_flags
  root,     \* sp->root
  pc,       \* "idle", in the "splay", or to "run" on after it
  op,       \* the operation, or the part of one, that runs
  vm_addr,  \* the operation's argument
  key,      \* the splay's argument vm_addr
  t,        \* the splay's t, and then its result
  hook,     \* hook.sp_r is the splay's l, hook.sp_l its r: the field is the
            \* one that gets the next subtree cut off
  victim,   \* the node being removed, during the splay that needs
  cur,      \* the node at hand (n or z) of sp_tree_find_mod_and_lock
  after,    \* what follows the removal
  found,    \* the result of the last search, until the next operation
  draining, \* whether sp_tree_free runs
  aborted   \* whether an assertion has failed or NULL was followed

\* What an operation has on its stack
locals == <<pc, op, vm_addr, key, t, hook, victim, cur, after>>
vars == <<use, heap, root, locals, found, draining, aborted>>

Side == {"sp_l", "sp_r"}
Other(w) == IF w = "sp_l" THEN "sp_r" ELSE "sp_l"

Link == Side \cup {"sp_p", "vm_prev", "vm_next"}

READ == 1                                                \* VM_PROT_READ

\* Mutant: the bits are added, not joined.
PromoteAdd(f) ==
  LET low == f % 4 IN f - low + 2 * low + 1

\* VM_PROT_PROMOTE(prot), of flags that have no other bits: the two low bits
\* move up by one and the lowest is set; what was above them stays.
Promote(f) ==
  LET low  == f % 4
      high == f - low
      up   == 2 * low + 1
  IN  IF up >= 4 /\ (high \div 4) % 2 = 1 THEN high + up - 4 ELSE high + up

\* The flags that occur: none, VM_PROT_READ, VM_PROT_WRITE, and what becomes of
\* the last when it is promoted.
Flag == {0, READ, Promote(READ), Promote(Promote(READ))}

Address == Page \cup UNION {Region[n].start .. Region[n].end - 1 : n \in Node}

Start(n) == heap.vm_start[n]
End(n) == heap.vm_end[n]
Prev(n) == heap.vm_prev[n]
Succ(n) == heap.vm_next[n]
Flags(n) == heap.vm_flags[n]

-----------------------------------------------------------------------------
(* The macros on pointers, on a heap h.                                    *)

\* Mutant: the child is not told its parent.
MakeChildNoParent(h, a, w, b) ==
  [h EXCEPT ![w][a] = b, !.sp_p[a] = IF @ = b THEN Null ELSE @]

\* MAKE_CHILD(a, w, b)
MakeChild(h, a, w, b) ==
  [h EXCEPT ![w][a] = b,
            !.sp_p = [n \in DOMAIN @ |-> IF n = a /\ @[a] = b THEN Null
                                         ELSE IF n = b THEN a ELSE @[n]]]

\* Mutant: the node on the other side of z is not told of z.
ListInsertHalf(h, z, b, w, o) ==
  [h EXCEPT ![w][z] = h[w][b], ![o][z] = b, ![w][b] = z]

\* FIX_LISTLT(z, b) for w = "vm_prev" and o = "vm_next", FIX_LISTGT(z, b) for
\* the converse: z comes next to b in the direction w.
ListInsert(h, z, b, w, o) ==
  LET c   == h[w][b]
      set == [h EXCEPT ![w][z] = c, ![o][z] = b, ![w][b] = z]
  IN  IF c # Null THEN [set EXCEPT ![o][c] = z] ELSE set

\* FIX_LISTRM(z)
ListRemove(h, z) ==
  LET p == h.vm_prev[z]
      n == h.vm_next[z]
      skip == IF p # Null THEN [h EXCEPT !.vm_next[p] = n] ELSE h
  IN  IF n # Null THEN [skip EXCEPT !.vm_prev[n] = p] ELSE skip

\* S_sp_node_free(z): the fields of z mean nothing any more.
Freed(h, z) ==
  [f \in DOMAIN h |-> [h[f] EXCEPT ![z] = IF f \in Link THEN Null ELSE 0]]

\* A node with its range and flags, after S_sp_node_init(z)
NodeInit(h, z, s, e, f) ==
  [Freed(h, z) EXCEPT !.vm_start[z] = s, !.vm_end[z] = e, !.vm_flags[z] = f]

\* Mutant: the subtree of top on z's side is not handed to z.
BesideDrop(h, z, top, w, o, wl, ol) ==
  LET k == MakeChild(ListInsert(h, z, top, wl, ol), z, o, top)
  IN  [k EXCEPT ![w][top] = Null]

\* One side of S_sp_tree_insert_helper: z above top, which it follows (wl =
\* "vm_next") or precedes on the list.
Beside(h, z, top, w, o, wl, ol) ==
  LET g == ListInsert(h, z, top, wl, ol)
      k == MakeChild(MakeChild(g, z, w, g[w][top]), z, o, top)
  IN  [k EXCEPT ![w][top] = Null]

\* S_sp_tree_insert_helper(sp, top, z) where sp->root is r; z is then the root.
InsertHelper(h, r, top, z) ==
  IF r = Null THEN h
  ELSE IF h.vm_start[z] < h.vm_start[top]
         THEN Beside(h, z, top, "sp_l", "sp_r", "vm_prev", "vm_next")
         ELSE Beside(h, z, top, "sp_r", "sp_l", "vm_next", "vm_prev")

\* Its assertion fails.
InsertFails(h, r, top, z) == r # Null /\ h.vm_start[z] = h.vm_start[top]

-----------------------------------------------------------------------------
(* The splay (S_sp_tree_splay).                                            *)

Init ==
  /\ use \in Uses
  /\ heap = [f \in Link \cup {"vm_start", "vm_end", "vm_flags"} |->
               [n \in Node \cup {Header} |-> IF f \in Link THEN Null ELSE 0]]
  /\ root = Null
  /\ pc = "idle"
  /\ op = "none"
  /\ vm_addr = Null
  /\ key = Null
  /\ t = Null
  /\ hook = [w \in Side |-> Header]
  /\ victim = Null
  /\ cur = Null
  /\ after = "none"
  /\ found = Null
  /\ draining = FALSE
  /\ aborted = FALSE

\* The call S_sp_tree_splay(a, n) in part o: it returns at once when n is NULL;
\* else l = r = &n.
Splay(o, a, n) ==
  /\ pc' = IF n = Null THEN "run" ELSE "splay"
  /\ op' = o
  /\ key' = a
  /\ t' = n
  /\ hook' = [w \in Side |-> Header]

\* An operation begins with a splay of its argument.
Enter(o, a) ==
  /\ Splay(o, a, root)
  /\ vm_addr' = a
  /\ found' = Null
  /\ UNCHANGED <<use, root, victim, after, aborted>>

\* The operation goes on with part o, n at hand, the locals of its splay gone.
Continue(o, n) ==
  /\ op' = o
  /\ key' = Null
  /\ t' = Null
  /\ hook' = [w \in Side |-> Header]
  /\ victim' = Null
  /\ cur' = n
  /\ after' = "none"

\* The operation returns to its caller.
Return ==
  /\ pc' = "idle"
  /\ Continue("none", Null)
  /\ vm_addr' = Null

\* The operation returns with node n.
ReturnNode(n) == found' = n /\ Return

\* The program ends within the operation.
Abort ==
  /\ aborted' = TRUE
  /\ UNCHANGED <<heap, root, locals, found>>

\* The argument of the splay is on side w of node n.
Beyond(w, n) == IF w = "sp_l" THEN key < Start(n) ELSE Start(n) < key

\* Mutant: the subtree between the two nodes is dropped.
RotateDrop(w) ==
  LET y == heap[w][t]
  IN  MakeChild(MakeChild(heap, t, w, Null), y, Other(w), t)

\* "rotate right" (w = "sp_l") and "rotate left": t's child y takes its place.
Rotate(w) ==
  LET y == heap[w][t]
  IN  MakeChild(MakeChild(heap, t, w, heap[Other(w)][y]), y, Other(w), t)

\* Mutant: t is rotated without a look at its child.
FarAlways(w) == TRUE

\* t's child on side w too has key beyond it.
Far(w) == Beyond(w, heap[w][t])

\* Mutant: the loop does not descend after it linked.
LinkStay(h, w, m) ==
  /\ heap' = MakeChild(h, hook[w], w, m)
  /\ hook' = [hook EXCEPT ![w] = m]
  /\ t' = m

\* Mutant: the node is tied to the wrong end.
LinkSwapped(h, w, m) ==
  LET o == Other(w)
      k == MakeChild(h, hook[o], o, m)
  IN  /\ heap' = k
      /\ hook' = [hook EXCEPT ![o] = m]
      /\ t' = k[w][m]

\* "link right", "link left": m goes to what was cut off on the other side of
\* key, and the loop goes on with m's child.
LinkTo(h, w, m) ==
  LET k == MakeChild(h, hook[w], w, m)
  IN  /\ heap' = k
      /\ hook' = [hook EXCEPT ![w] = m]
      /\ t' = k[w][m]

\* Go down on side w, after a rotation if the child too is too far.  A rotation
\* may leave no child: then the loop ends, as it does in Assemble.
Descend(w) ==
  LET h == IF Far(w) THEN Rotate(w) ELSE heap
      m == IF Far(w) THEN heap[w][t] ELSE t
  IN  IF h[w][m] = Null
        THEN t' = m /\ heap' = h /\ UNCHANGED hook
        ELSE LinkTo(h, w, m)

Iterate ==
  /\ pc = "splay"
  /\ \E w \in Side :
       /\ Beyond(w, t)
       /\ heap[w][t] # Null
       /\ Descend(w)
  /\ UNCHANGED <<use, root, pc, op, vm_addr, key, victim, cur, after, found,
                 draining, aborted>>

\* The end of the splay: t's subtrees go to the ends of the two trees cut off,
\* these become t's subtrees, and t has no parent.
Assembled ==
  LET h1 == MakeChild(heap, hook.sp_r, "sp_r", heap.sp_l[t])
      h2 == MakeChild(h1, hook.sp_l, "sp_l", h1.sp_r[t])
      h3 == MakeChild(h2, t, "sp_l", h2.sp_r[Header])
      h4 == MakeChild(h3, t, "sp_r", h3.sp_l[Header])
  IN  Freed([h4 EXCEPT !.sp_p[t] = Null], Header)

Assemble ==
  /\ pc = "splay"
  /\ \A w \in Side : Beyond(w, t) => heap[w][t] = Null
  /\ heap' = Assembled
  /\ pc' = "run"
  /\ hook' = [w \in Side |-> Header]
  /\ UNCHANGED <<use, root, op, vm_addr, key, t, victim, cur, after, found,
                 draining, aborted>>

-----------------------------------------------------------------------------
(* The nodes in the tree, by its pointers.  In the loop the tree is in     *)
(* three parts: under t, and what was cut off on either side, of which the *)
(* last node's pointer to where t was is stale.                            *)

View ==
  IF pc = "splay"
    THEN [heap EXCEPT !.sp_l[hook.sp_l] = Null, !.sp_r[hook.sp_r] = Null]
    ELSE heap

\* The nodes of M and their children
Spread(h, M) == M \cup ({h[w][m] : w \in Side, m \in M} \ {Null})

\* The nodes reached from node n by i pointers of h or fewer, for i up to last
Within(h, n, last) ==
  LET within[i \in 0 .. last] ==
        IF i = 0 THEN {n} ELSE Spread(h, within[i - 1])
  IN  within

\* The nodes reached from n by the pointers of h.
Reach(h, n) ==
  LET last == Cardinality(Node)
  IN  IF n = Null THEN {} ELSE Within(h, n, last)[last]

Lower  == LET h == View IN Reach(h, h.sp_r[Header])
Higher == LET h == View IN Reach(h, h.sp_l[Header])

\* What a removal leaves aside during its splay.
Right == IF victim = Null THEN {} ELSE Reach(View, heap.sp_r[victim])

\* The node on top: what the splay works on or returned, until the operation
\* has made it the root.
Top == IF t = Null /\ victim = Null THEN root ELSE t

\* The nodes in the tree.
Nodes ==
  LET h == View
  IN  Reach(h, Top) \cup Right
        \cup IF pc = "splay" THEN Lower \cup Higher ELSE {}

\* Where a binary search for a goes on from node m: to a child, or it stays.
Toward(h, a, m) ==
  LET far(w) == IF w = "sp_l" THEN a < h.vm_start[m] ELSE h.vm_start[m] < a
  IN  IF \E w \in Side : far(w) /\ h[w][m] # Null
        THEN h[IF far("sp_l") THEN "sp_l" ELSE "sp_r"][m]
        ELSE m

\* Where a binary search for a in h is i nodes below node n, for i up to last
Searched(h, n, a, last) ==
  LET reached[i \in 0 .. last] ==
        IF i = 0 THEN n ELSE Toward(h, a, reached[i - 1])
  IN  reached

\* The last node a binary search for a reaches from node n.
SearchEnd(n, a) ==
  LET last == Cardinality(Node) IN Searched(View, n, a, last)[last]

\* Address a is in the range of node n.
Holds(n, a) == Start(n) <= a /\ a < End(n)

\* The vm_areas that are not given back: they have a range.
Live == {n \in Node : Start(n) < End(n)}

\* A vm_area from vma_alloc, other than those of M; of no account which one.
Fresh(M) ==
  LET free == Node \ (Live \cup M)
  IN  IF vm_addr \in free THEN vm_addr ELSE CHOOSE n \in free : TRUE

-----------------------------------------------------------------------------
(* sp_tree_insert, sp_tree_remove, sp_tree_find_and_lock, sp_tree_free.    *)

\* A call of sp_tree_insert(sp, z), up to its splay.
CallInsert(z) ==
  /\ pc = "idle"
  /\ use = "regions"
  /\ ~draining
  /\ z \notin Live
  /\ Enter("insert", Region[z].start)
  /\ cur' = z
  /\ heap' = NodeInit(heap, z, Region[z].start, Region[z].end, 0)
  /\ UNCHANGED draining

Insert ==
  /\ pc = "run"
  /\ op = "insert"
  /\ IF InsertFails(heap, root, t, cur) THEN Abort
     ELSE /\ heap' = InsertHelper(heap, root, t, cur)
          /\ root' = cur
          /\ Return
          /\ UNCHANGED <<found, aborted>>
  /\ UNCHANGED <<use, draining>>

\* The start of S_sp_tree_remove_helper(sp, n), up to the splay for n's
\* predecessor; then what follows the removal, with node m at hand.
RemoveHelper(n, what, m) ==
  /\ heap' = ListRemove(heap, n)
  /\ Splay("join", Start(n), heap.sp_l[n])
  /\ victim' = n
  /\ cur' = m
  /\ after' = what
  /\ UNCHANGED <<root, vm_addr, found, aborted>>

\* A call of sp_tree_remove(sp, n->vm_start), up to its splay.
CallRemove(n) ==
  /\ pc = "idle"
  /\ IF draining THEN n = root ELSE n \in Nodes
  /\ Enter("remove", Start(n))
  /\ UNCHANGED <<heap, cur, draining>>

Remove ==
  /\ pc = "run"
  /\ op = "remove"
  /\ IF Start(t) # vm_addr THEN Abort ELSE RemoveHelper(t, "removed", Null)
  /\ UNCHANGED <<use, draining>>

\* Mutant: the removed node's right subtree is forgotten.
JoinedLeft ==
  IF t = Null THEN heap ELSE [heap EXCEPT !.sp_p[t] = Null]

\* The removed node's right subtree comes under the last node of the left one,
\* or in its own place if there is no left one.
Joined ==
  LET r == heap.sp_r[victim]
  IN  IF t # Null
        THEN MakeChild([heap EXCEPT !.sp_p[t] = Null], t, "sp_r", r)
        ELSE IF r # Null THEN [heap EXCEPT !.sp_p[r] = Null] ELSE heap

\* The end of S_sp_tree_remove_helper and S_sp_node_free.  In a merge the node
\* at hand then gets the range of the one removed.
Join ==
  /\ pc = "run"
  /\ op = "join"
  /\ root' = IF t # Null THEN t ELSE heap.sp_r[victim]
  /\ LET h == Freed(Joined, victim)
     IN  \/ /\ after = "removed"
            /\ heap' = h
            /\ Return
            /\ UNCHANGED found
         \/ /\ after \in {"new_next", "old_next"}
            /\ heap' = [h EXCEPT !.vm_end[cur] = End(victim)]
            /\ pc' = "run"
            /\ Continue(after, cur)
            /\ UNCHANGED <<vm_addr, found>>
         \/ /\ after = "found"
            /\ heap' = [h EXCEPT !.vm_start[cur] = Start(victim)]
            /\ ReturnNode(cur)
  /\ UNCHANGED <<use, draining, aborted>>

\* A call of sp_tree_find_and_lock(sp, a), a in a region, up to its splay.
CallFind ==
  /\ pc = "idle"
  /\ ~draining
  /\ \E n \in Nodes : \E a \in Start(n) .. End(n) - 1 : Enter("find", a)
  /\ UNCHANGED <<heap, cur, draining>>

\* Mutant: the root is taken although it starts above the address.
HitRoot == t

\* The node of the root or its predecessor that is to hold the address
Hit == IF Start(t) <= vm_addr THEN t ELSE Prev(t)

\* sp_tree_find_and_lock after its splay.  The assertions also stand for the
\* vm_prev that is followed without a test for NULL.
Find ==
  /\ pc = "run"
  /\ op = "find"
  /\ IF Hit # Null /\ Holds(Hit, vm_addr)
       THEN /\ root' = t
            /\ ReturnNode(Hit)
            /\ UNCHANGED <<heap, aborted>>
       ELSE Abort
  /\ UNCHANGED <<use, draining>>

\* sp_tree_free, which removes the root until there is none.
CallFree ==
  /\ pc = "idle"
  /\ ~draining
  /\ draining' = TRUE
  /\ found' = Null
  /\ UNCHANGED <<use, heap, root, locals, aborted>>

FreeDone ==
  /\ pc = "idle"
  /\ draining
  /\ root = Null
  /\ draining' = FALSE
  /\ UNCHANGED <<use, heap, root, locals, found, aborted>>

-----------------------------------------------------------------------------
(* sp_tree_find_mod_and_lock of the page at vm_addr.  With z, a vm_area of *)
(* its own for the page, it splits the region that holds the page, or      *)
(* gives the page to a neighbour of the right flags.                       *)

\* Nodes p and n exist and p ends where n starts.
Touch(p, n) == p # Null /\ n # Null /\ End(p) = Start(n)

\* The pages for which the function works: see AllUses.
GoodFault(a) ==
  (\E n \in Nodes : Holds(n, a)) =>
    /\ Holds(root, a)
    /\ SearchEnd(root, a) = root
    /\ Start(root) + 1 = End(root) => ~Touch(root, Succ(root))

CallFindMod(a) ==
  /\ pc = "idle"
  /\ use \in {"faults", "pages"}
  /\ ~draining
  /\ use = "faults" => GoodFault(a)
  /\ Enter("mod", a)
  /\ UNCHANGED <<heap, cur, draining>>

\* The node that holds the page: the splayed one or its predecessor
Target ==
  IF t # Null /\ Holds(t, vm_addr) THEN t
  ELSE IF t # Null /\ Prev(t) # Null /\ Holds(Prev(t), vm_addr) THEN Prev(t)
  ELSE Null

\* n is at hand after the splay; the page is (is not) the first, the last of it.
AtTarget(n, first, last) ==
  /\ pc = "run"
  /\ op = "mod"
  /\ n = Target
  /\ n # Null
  /\ first = (Start(n) = vm_addr)
  /\ last = (End(n) = vm_addr + 1)

\* In an empty tree the page gets a region, the root, with no neighbours.
FirstNode ==
  /\ pc = "run"
  /\ op = "mod"
  /\ root = Null
  /\ LET z == Fresh({})
     IN  /\ heap' = NodeInit(heap, z, vm_addr, vm_addr + 1, READ)
         /\ root' = z
         /\ ReturnNode(z)
  /\ UNCHANGED <<use, draining, aborted>>

\* The page is in no region: it gets one, to be merged with its neighbours.
NewNode ==
  /\ pc = "run"
  /\ op = "mod"
  /\ root # Null
  /\ Target = Null
  /\ LET z == Fresh({})
         h == NodeInit(heap, z, vm_addr, vm_addr + 1, READ)
     IN  IF InsertFails(h, root, t, z) THEN Abort
         ELSE /\ heap' = InsertHelper(h, root, t, z)
              /\ root' = z
              /\ pc' = "run"
              /\ Continue("new_prev", z)
              /\ UNCHANGED <<vm_addr, found, aborted>>
  /\ UNCHANGED <<use, draining>>

\* The region becomes three: what is before the page, the page, what is after.
MidSplit(n) ==
  /\ AtTarget(n, FALSE, FALSE)
  /\ LET z   == Fresh({})
         sfx == Fresh({z})
         h1  == NodeInit(heap, z, vm_addr, vm_addr + 1, Promote(Flags(n)))
         h2  == NodeInit(h1, sfx, vm_addr + 1, End(n), Flags(n))
         h3  == [h2 EXCEPT !.vm_end[n] = vm_addr]
         h4  == InsertHelper(h3, root, root, sfx)
     IN  IF InsertFails(h3, root, root, sfx) \/ InsertFails(h4, sfx, sfx, z)
           THEN Abort
           ELSE /\ heap' = InsertHelper(h4, sfx, sfx, z)
                /\ root' = z
                /\ ReturnNode(z)
                /\ UNCHANGED aborted
  /\ UNCHANGED <<use, draining>>

\* The page goes from n to its neighbour m, which is then splayed to the root.
\* (n is left with a page: the removal of n in this place is not reached.)
Migrate(m, h) ==
  /\ heap' = h
  /\ Splay("migrate", h.vm_start[m], t)
  /\ UNCHANGED <<root, vm_addr, victim, cur, after, found, aborted>>

\* Mutant: n keeps the page too.
GiveToPrevTwice(n) ==
  [heap EXCEPT !.vm_end[Prev(n)] = vm_addr + 1]

\* The first page of n becomes the last of the region before.
GiveToPrev(n) ==
  [heap EXCEPT !.vm_start[n] = vm_addr + 1, !.vm_end[Prev(n)] = vm_addr + 1]

\* The last page of n becomes the first of the region after.
GiveToNext(n) ==
  [heap EXCEPT !.vm_end[n] = vm_addr, !.vm_start[Succ(n)] = vm_addr]

\* The page becomes a region of its own next to the rest of n, of which h has
\* the new range.  Nothing sets its flags: they are what the memory held.
SplitOff(h) ==
  \E f \in Flag :
    LET z == Fresh({})
        k == NodeInit(h, z, vm_addr, vm_addr + 1, f)
    IN  IF InsertFails(k, root, root, z) THEN Abort
        ELSE /\ heap' = InsertHelper(k, root, root, z)
             /\ root' = z
             /\ ReturnNode(z)
             /\ UNCHANGED aborted

FirstPage(n) ==
  /\ AtTarget(n, TRUE, FALSE)
  /\ IF Touch(Prev(n), n) /\ Flags(Prev(n)) = Promote(Flags(n))
       THEN Migrate(Prev(n), GiveToPrev(n))
       ELSE SplitOff([heap EXCEPT !.vm_start[n] = vm_addr + 1])
  /\ UNCHANGED <<use, draining>>

LastPage(n) ==
  /\ AtTarget(n, FALSE, TRUE)
  /\ IF Touch(n, Succ(n)) /\ Flags(Succ(n)) = Promote(Flags(n))
       THEN Migrate(Succ(n), GiveToNext(n))
       ELSE SplitOff([heap EXCEPT !.vm_end[n] = vm_addr])
  /\ UNCHANGED <<use, draining>>

Migrated ==
  /\ pc = "run"
  /\ op = "migrate"
  /\ root' = t
  /\ ReturnNode(t)
  /\ UNCHANGED <<use, heap, draining, aborted>>

\* The page is a region: it may be merged with its neighbours.
OnlyPage(n) ==
  /\ AtTarget(n, TRUE, TRUE)
  /\ pc' = "run"
  /\ Continue("old_prev", n)
  /\ UNCHANGED <<use, heap, root, vm_addr, found, draining, aborted>>

\* The node at hand is merged with the one before it, of flags f, if it touches
\* that; part o of the operation, next the part that follows.
MergePrev(o, next, f) ==
  /\ pc = "run"
  /\ op = o
  /\ IF Touch(Prev(cur), cur) /\ Flags(Prev(cur)) = f
       THEN RemoveHelper(cur, next, Prev(cur))
       ELSE /\ pc' = "run"
            /\ Continue(next, cur)
            /\ UNCHANGED <<heap, root, vm_addr, found, aborted>>
  /\ UNCHANGED <<use, draining>>

NewPrev == MergePrev("new_prev", "new_next", Flags(cur))
OldPrev == MergePrev("old_prev", "old_next", Promote(Flags(cur)))

\* The same with the node after it, if ok
MergeNext(ok) ==
  IF ok THEN RemoveHelper(cur, "found", Succ(cur))
  ELSE ReturnNode(cur) /\ UNCHANGED <<heap, root, aborted>>

NewNext ==
  /\ pc = "run"
  /\ op = "new_next"
  /\ MergeNext(Touch(cur, Succ(cur)) /\ Flags(Succ(cur)) = Flags(cur))
  /\ UNCHANGED <<use, draining>>

\* For a page that was a region the flags looked at are those of vm_prev.
OldNext ==
  /\ pc = "run"
  /\ op = "old_next"
  /\ IF Touch(cur, Succ(cur)) /\ Prev(cur) = Null THEN Abort
     ELSE MergeNext(/\ Touch(cur, Succ(cur))
                    /\ Flags(Prev(cur)) = Promote(Flags(cur)))
  /\ UNCHANGED <<use, draining>>

-----------------------------------------------------------------------------
Call ==
  \/ \E z \in Node : CallInsert(z)
  \/ ~draining /\ \E n \in Node : CallRemove(n)
  \/ CallFind
  \/ \E a \in Page : CallFindMod(a)
  \/ CallFree

\* What goes on by itself once called.
Work ==
  \/ Iterate
  \/ Assemble
  \/ Insert
  \/ Remove
  \/ Join
  \/ Find
  \/ FirstNode
  \/ NewNode
  \/ \E n \in Node : MidSplit(n) \/ FirstPage(n) \/ LastPage(n) \/ OnlyPage(n)
  \/ Migrated
  \/ NewPrev
  \/ OldPrev
  \/ NewNext
  \/ OldNext
  \/ draining /\ \E n \in Node : CallRemove(n)
  \/ FreeDone

\* After a failed assertion the locals stay as they are, and no step is enabled
\* but the one that failed.
Next == Call \/ Work

Spec == Init /\ [][Next]_vars

\* An operation runs.
Busy == (pc # "idle" \/ draining) /\ ~aborted

\* A thread within an operation goes on: WF_vars(Work), with Busy in place of
\* ENABLED <<Work>>_vars, which it equals.
FairSpec == Spec /\ ([]<>~Busy \/ []<><<Work>>_vars)

-----------------------------------------------------------------------------
(* What is to hold.                                                        *)

HeaderInUse == IF pc = "splay" THEN {Header} ELSE {}

\* Every pointer is to a node or NULL: the splay's header, which lives on its
\* stack (sp_tree.c:139), is pointed to by nothing but the hooks and the sp_p of
\* what they hang, and by those, and with children of its own, only in the
\* splay. Ranges are numbers. Flags are those the code makes, with WRITE
\* promoted once more among them (sp_tree.c:101), and no further.
TypeOK ==
  /\ use \in Uses
  /\ DOMAIN heap = Link \cup {"vm_start", "vm_end", "vm_flags"}
  /\ \A n \in Node \cup {Header} :
       /\ \A f \in Link \ {"sp_p"} : heap[f][n] \in Node \cup {Null}
       /\ Start(n) \in Nat /\ End(n) \in Nat /\ Flags(n) \in Flag
  /\ \A n \in Node : heap.sp_p[n] \in Node \cup {Null} \cup HeaderInUse
  /\ hook \in [Side -> Node \cup {Header}]
  /\ pc # "splay" => \A w \in Side : hook[w] = Header /\ heap[w][Header] = Null
  /\ root \in Node \cup {Null}
  /\ pc \in {"idle", "splay", "run"}
  /\ op \in {"none", "insert", "remove", "join", "find", "mod", "migrate",
             "new_prev", "new_next", "old_prev", "old_next"}
  /\ vm_addr \in Address \cup {Null}
  /\ key \in Address \cup {Null}
  /\ {t, victim, cur, found} \subseteq Node \cup {Null}
  /\ after \in {"none", "removed", "new_next", "old_next", "found"}
  /\ {draining, aborted} \subseteq BOOLEAN

\* Every part of the tree is a search tree, at every moment; in the loop what
\* was cut off is below vm_addr and below t's part on one side and above both
\* on the other, and in a removal the right subtree left aside is above all.
\* (sp_tree.c:137-196: the order is what every later search relies on, and it
\* is changed by three assignments at a time.)
SearchTree ==
  LET h      == View
      nodes  == Nodes
      middle == Reach(h, t)
      right  == Right
  IN  /\ \A n \in nodes :
           /\ \A m \in Reach(h, h.sp_l[n]) : Start(m) < Start(n)
           /\ \A m \in Reach(h, h.sp_r[n]) : Start(n) < Start(m)
      /\ pc = "splay" =>
           /\ \A m \in Lower :
                Start(m) < key /\ \A n \in middle : Start(m) < Start(n)
           /\ \A m \in Higher :
                key < Start(m) /\ \A n \in middle : Start(n) < Start(m)
      /\ \A m \in right :
           /\ Start(victim) < Start(m)
           /\ \A n \in nodes \ right : Start(n) < Start(victim)

\* Between operations sp_p is the parent in the tree, NULL for the root, and
\* never the header, which was on the splay's stack (sp_tree.c:92-95,189-193).
ParentsRight ==
  pc = "idle" =>
    \A n \in Nodes :
      IF n = root THEN heap.sp_p[n] = Null
      ELSE LET up == heap.sp_p[n]
           IN  up \in Nodes /\ \E w \in Side : heap[w][up] = n

\* The list has exactly the nodes of the tree, in the order of their addresses
\* (sp_tree.c:76-90): a search that ends above its address goes to vm_prev.
ListInOrder ==
  LET nodes == Nodes IN
  \A n \in nodes :
    LET below == {m \in nodes : Start(m) < Start(n)}
        above == {m \in nodes : Start(n) < Start(m)}
    IN  /\ IF below = {} THEN Prev(n) = Null
           ELSE Prev(n) \in below /\ \A m \in below : Start(m) <= Start(Prev(n))
        /\ IF above = {} THEN Succ(n) = Null
           ELSE Succ(n) \in above /\ \A m \in above : Start(Succ(n)) <= Start(m)

\* No assertion fails and no null pointer is followed: the node to be removed
\* is the root after the splay, the root or its predecessor holds the address
\* that was searched for, and a new node has an address of its own
\* (sp_tree.c:217,322,357,363-364,642).
NoAbort == ~aborted

\* Between operations every vm_area that was inserted or allocated and not given
\* back is in the tree: no split, merge, removal or insertion cuts nodes off, to
\* be found by no later search (sp_tree.c:199-247,424,558-559).
NoneLost == pc = "idle" => Live = Nodes

\* "If it isn't there, then the node put at the root is the last one before
\* NULL that would have been reached in a normal binary search for i."
\* (sp_tree.c:48-50): no iteration of the splay changes where that search
\* ends, and where it ends is what the splay returns.
SplaysLastReached ==
  [][pc = "splay" =>
       SearchEnd(t, key) = IF pc' = "run" THEN t' ELSE SearchEnd(t, key)']_vars

\* The region of a node
Extent(n) == [start |-> Start(n), end |-> End(n), flags |-> Flags(n)]

\* The regions are those of the tree's nodes.  A node that is merged with a
\* neighbour keeps its region until the neighbour has it.
Extents ==
  {Extent(n) : n \in Nodes \cup (IF op = "join" /\ after # "removed"
                                  THEN {victim} ELSE {})}

\* The tree is the set of regions the rest of the library takes it for: no
\* rotation, insertion or removal loses a node or brings one back, a search
\* finds the region that holds the address, and splits and merges change the
\* flags of no page but the one asked for (sp_tree.c:136-672).
Table ==
  INSTANCE PageTable WITH
    regions <- Extents,
    asked <- vm_addr,
    found <- IF found = Null THEN Null ELSE Extent(found)
TableSpec == Table!Spec

\* The loop of every splay ends, and sp_tree_free removes every node
\* (sp_tree.c:148,270).
CallsReturn == pc # "idle" \/ draining ~> pc = "idle" /\ ~draining
=============================================================================
