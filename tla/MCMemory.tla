------------------------------ MODULE MCMemory ------------------------------
(***************************************************************************)
(* Memory for TLC: roll tasks differ in nothing but their identity.        *)
(***************************************************************************)
EXTENDS Memory, TLC

TaskSymmetry == Permutations(Tasks)
=============================================================================
