---------------------------- MODULE MCTableScan ----------------------------
(* Small instances of TableScan for TLC: two transponders that announce a  *)
(* third between them and use the same service ids.                        *)
EXTENDS TableScan, TLC
CONSTANTS m1, m2, m3, s1, s2, s3
MCTid == (m1 :> 1) @@ (m2 :> 2) @@ (m3 :> 3)
MCPat == (m1 :> <<{s1, s2, s3}>>) @@ (m2 :> <<{}, {s1, s2}>>) @@ (m3 :> <<{}>>)
MCSdt == (m1 :> <<{s1}, {s2}, {s3}>>) @@ (m2 :> <<{s2}, {s1}>>) @@ (m3 :> <<>>)
MCNit == (m1 :> <<{m1, m3}, {m2}>>) @@ (m2 :> <<{m2}>>) @@ (m3 :> <<>>)
MCPmtPid == [m \in Muxes |-> (s1 :> 1) @@ (s2 :> 2) @@ (s3 :> 3)]
MCAV == (m1 :> {s1, s3}) @@ (m2 :> {s1, s2}) @@ (m3 :> {})
=============================================================================
