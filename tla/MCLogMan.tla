------------------------------ MODULE MCLogMan ------------------------------
(* Bounds: a level on each side of `notice', and two threads that make two *)
(* calls each, so that every pair of calls races with and without an       *)
(* initialization before it.                                               *)
EXTENDS LogMan
=============================================================================
