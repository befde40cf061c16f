------------------------------- MODULE Powers -------------------------------
(* The powers of two, as a recursive function, which can be reasoned about.  *)
EXTENDS Naturals

pow2[n \in Nat] == IF n = 0 THEN 1 ELSE 2 * pow2[n - 1]
=============================================================================
