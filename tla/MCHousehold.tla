---------------------------- MODULE MCHousehold ----------------------------
(* The group chat of two members and the direct chat of one, two calls, and a *)
(* process that is killed once, with a store that files where it is told to.  *)
EXTENDS Capture, TLC
\* The calls are interchangeable, and the run checks safety properties only.
Symmetry == Permutations(Calls)
=============================================================================
