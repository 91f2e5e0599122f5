---------------------------- MODULE MCStateLock -----------------------------
(* Small instances of StateLock for TLC.                                   *)
EXTENDS StateLock, TLC
CONSTANTS t1, t2, k1, k2, k3
MCOwner == (k1 :> t1) @@ (k2 :> t1) @@ (k3 :> t2)
=============================================================================
