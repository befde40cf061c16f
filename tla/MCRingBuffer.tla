---------------------------- MODULE MCRingBuffer ----------------------------
(* Bounds: three slots, so that a middle slot exists between the two where *)
(* an index wraps, and two values, so that order and staleness show.       *)
EXTENDS RingBuffer_Static_Int
=============================================================================
