---------------------------- MODULE MCRingBuffer ----------------------------
(* Small instances of RingBuffer for TLC; the sizes are given in the cfgs. *)
EXTENDS RingBuffer
=============================================================================
