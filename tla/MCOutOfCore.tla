----------------------------- MODULE MCOutOfCore -----------------------------
(***************************************************************************)
(* Instances of OutOfCore for TLC: two units of memory to a page, a        *)
(* vm_area that fits in one page.                                          *)
(***************************************************************************)
EXTENDS OutOfCore, TLC

CONSTANTS t1, t2, t3

TwoThreads == {t1, t2}
ThreeThreads == {t1, t2, t3}
Symmetry == Permutations(ThreeThreads)
NoThread == {}
OneStray == {t1}

\* A size within a page, one of a page and a half, and nothing.
OneSize == {1}
TwoSizes == {1, 3}
WithZero == {0, 1}
=============================================================================
