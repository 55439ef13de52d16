----------------------------- MODULE MCSplayTree -----------------------------
(***************************************************************************)
(* Instances of SplayTree for TLC.  With six nodes every shape of a search *)
(* tree of up to six nodes occurs, paths of six nodes among them, so that  *)
(* a splay goes through up to three iterations with two rotations, and a   *)
(* removal through two splays.  With pages, every division of them into    *)
(* regions and gaps occurs that faults lead to.                            *)
(***************************************************************************)
EXTENDS SplayTree

\* Six regions of two addresses, some of which touch.
SixNodes == 0 .. 5
SixRegions ==
  [n \in SixNodes |-> LET s == <<0, 2, 5, 7, 9, 12>>[n + 1]
                      IN  [start |-> s, end |-> s + 2]]
ThreePages == 0 .. 2
=============================================================================
