----------------------------- MODULE MCBudget -----------------------------
(* Three calls of a member without a shared space, over two turns: enough for *)
(* the question of a first turn to fail in a second one that is charged twice. *)
EXTENDS Capture, TLC
\* The calls are interchangeable, and the run checks a safety property only.
Symmetry == Permutations(Calls)
=============================================================================
