----------------------------- MODULE MClockers -----------------------------
(* Bounds: three cells and two clients, so that a freed cell can be taken  *)
(* by the other client while the first one still remembers its key.        *)
EXTENDS lockers, TLC

Symmetry == Permutations(Client) \cup Permutations(Cargo)
=============================================================================
