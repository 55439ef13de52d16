------------------------------ MODULE PageTable ------------------------------
(***************************************************************************)
(* What the splay tree of src/src/sp_tree.c promises its callers: a set of *)
(* regions that do not overlap, in which the one that holds an address can *)
(* be found, and in which the access to a single page can be changed       *)
(* without a change to that of any other page.  OutOfCore uses the tree as *)
(* this set.                                                               *)
(***************************************************************************)
EXTENDS Integers

CONSTANTS
  Address,     \* what can be asked for
  Flag,        \* the values of vm_flags
  READ,        \* VM_PROT_READ
  Null         \* none

VARIABLES
  regions,     \* the regions: from start up to end, with their flags
  asked,       \* the address the operation in progress is about
  found        \* the result of the last search, until the next operation

Holds(r, a) == r.start <= a /\ a < r.end

Disjoint(R) == \A q, r \in R : q = r \/ q.end <= r.start \/ r.end <= q.start

\* The flags of the region that holds a.
Flags(R, a) ==
  IF \E r \in R : Holds(r, a) THEN (CHOOSE r \in R : Holds(r, a)).flags ELSE Null

Init ==
  /\ regions = {}
  /\ asked = Null
  /\ found = Null

\* An operation begins, or ends.
Call(a) ==
  /\ asked' = a
  /\ found' = Null
  /\ UNCHANGED regions

Return == asked' \in {asked, Null}

\* "Insert node with specified data into the tree, it MUST NOT exist."
\* (common.h:117)
Insert(r) ==
  /\ r.start = asked
  /\ regions' = regions \cup {r}
  /\ Disjoint(regions')
  /\ UNCHANGED found

\* "Remove node with specified datum in the tree, if MUST exist."
\* (common.h:131)
Remove(r) ==
  /\ r.start = asked
  /\ regions' = regions \ {r}
  /\ UNCHANGED found

\* "Find and lock node containing vm_addr in the tree, it MUST exist."
\* (common.h:121,125)
Find ==
  /\ found' \in regions'
  /\ Holds(found', asked)
  /\ Disjoint(regions')

\* The page asked for gets new flags, a page in no region those for reading;
\* regions are split and merged, and every other page keeps its flags.
Modify ==
  LET old == regions
      new == regions'
      f   == Flags(old, asked)
  IN  /\ \A a \in Address \ {asked} : Flags(new, a) = Flags(old, a)
      /\ Flags(new, asked) \in (IF f = Null THEN {READ} ELSE Flag)
      /\ Disjoint(new)

Next ==
  \/ \E a \in Address \cup {Null} : Call(a)
  \/ /\ Return
     /\ \/ UNCHANGED <<regions, found>>
        \/ \E r \in regions' \ regions : Insert(r)
        \/ \E r \in regions \ regions' : Remove(r)
        \/ Find /\ (UNCHANGED regions \/ Modify)
        \/ asked # Null /\ UNCHANGED found /\ Modify

Spec == Init /\ [][Next]_<<regions, asked, found>>
=============================================================================
