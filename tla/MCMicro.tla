------------------------------- MODULE MCMicro -------------------------------
(***************************************************************************)
(* An instance of Micro for TLC: every build, with every shuffle.          *)
(***************************************************************************)
EXTENDS Micro
=============================================================================
