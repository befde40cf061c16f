------------------------------ MODULE MCDbgLog ------------------------------
(* Bounds: the default file and one other, two threads that execute two    *)
(* statements each.                                                        *)
EXTENDS DbgLog
=============================================================================
