------------------------------ MODULE VmaSupply ------------------------------
(***************************************************************************)
(* What the vma allocator (src/src/vma_alloc.c) promises its callers: a    *)
(* vm_area is handed to one caller at a time, out of memory obtained from  *)
(* the system, and memory goes back to the system only when nothing in it  *)
(* is handed out.                                                          *)
(***************************************************************************)
CONSTANTS
  Superblock,  \* the units in which memory comes from the system
  Vma,         \* the vm_areas
  Home         \* Home[v]: the superblock that holds v

VARIABLES
  supply,      \* superblocks obtained from the system
  out          \* the vm_areas handed out and not yet freed

Init ==
  /\ supply = {}
  /\ out = {}

\* "Get next available vm_area struct." (common.h:137)
Take(v) ==
  /\ Home[v] \in supply
  /\ v \notin out
  /\ out' = out \cup {v}
  /\ UNCHANGED supply

\* "Return a vm_area struct to the system." (common.h:141)
Give(v) ==
  /\ v \in out
  /\ out' = out \ {v}
  /\ UNCHANGED supply

Grow(s) ==
  /\ s \notin supply
  /\ supply' = supply \cup {s}
  /\ UNCHANGED out

\* "Free a superblock with no used blocks." (vma_alloc.c:330)
Shrink(s) ==
  /\ s \in supply
  /\ \A v \in out : Home[v] # s
  /\ supply' = supply \ {s}
  /\ UNCHANGED out

Next ==
  \/ \E v \in Vma : Take(v) \/ Give(v)
  \/ \E s \in Superblock : Grow(s) \/ Shrink(s)

Spec == Init /\ [][Next]_<<supply, out>>
=============================================================================
