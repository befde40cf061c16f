----------------------------- MODULE MCModelClock -----------------------------
(* Bounds: a significand of 4 bits, times of quarter chronons up to 8.0,   *)
(* so that four increases of the ulp and every kind of tie happen.         *)
EXTENDS ModelClock
=============================================================================
