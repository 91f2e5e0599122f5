---------------------------- MODULE MCReceivers -----------------------------
(* Small instances of Receivers for TLC: two receivers share a PID, the    *)
(* third is scrambled.                                                     *)
EXTENDS Receivers, TLC
CONSTANTS r1, r2, r3, p1, p2, p3, u1
MCPidsOf == (r1 :> <<p1>>) @@ (r2 :> <<p1, p2>>) @@ (r3 :> <<p3>>)
=============================================================================
