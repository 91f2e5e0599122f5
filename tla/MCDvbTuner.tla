----------------------------- MODULE MCDvbTuner -----------------------------
(* Small instances of DvbTuner for TLC: one transponder in each band.      *)
EXTENDS DvbTuner, TLC
CONSTANTS t1, t2, t3, c1, c2, low, high
MCBand == (c1 :> low) @@ (c2 :> high) @@ (NoTransponder :> low)
MCSymmetry == Permutations(Tuners)
=============================================================================
