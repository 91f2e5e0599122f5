---------------------------- MODULE MCSatipTuner ----------------------------
(* Small instances of SatipTuner for TLC.                                  *)
EXTENDS SatipTuner
CONSTANTS s1, s2, t1, t2, p1, p2
=============================================================================
