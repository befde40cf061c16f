------------------------------ MODULE MCVectors ------------------------------
(* Vectors that are written and read only: the operands are fixed.           *)
EXTENDS Vectors

SomeTokens == {[bracket_open |-> <<"(">>, separator |-> <<",", " ">>, bracket_close |-> <<")">>]}

VectorsSpec == VectorsInit /\ [][VectorsNext]_vectorsVars
=============================================================================
