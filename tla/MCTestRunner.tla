----------------------------- MODULE MCTestRunner -----------------------------
(* Bounds: two batches, so that one can live inside a case of the other,   *)
(* and two calls on each: a case that fails, and what comes after it.      *)
EXTENDS TestRunner, TLC

Symmetry == Permutations(Batch)
=============================================================================
