------------------------------ MODULE MCDbgTrace ------------------------------
(* Bounds: three statements and scopes within each other, one level more   *)
(* than indent[] has room for.                                             *)
EXTENDS DbgTrace, TLC

Symmetry == Permutations(Stmt)

\* What the latest step printed has no effect on later ones.  TLC checks action properties
\* of every step, also of those to a state it has seen.
StateView == <<Outs, outbuf, made, dumping, Tracing, frames, mode, switched>>
=============================================================================
