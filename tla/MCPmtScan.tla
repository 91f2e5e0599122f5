------------------------------ MODULE MCPmtScan ------------------------------
(* Small instances of PmtScan for TLC: three services, of which two may be *)
(* active, and one filter of VDR's section handler.                        *)
EXTENDS PmtScan, TLC
CONSTANTS o, p1, p2, p3, p4
OwnPids    == 1 :> p1 @@ 2 :> p2 @@ 3 :> p3 @@ o :> p4
SharedPids == 1 :> p1 @@ 2 :> p2 @@ 3 :> p3 @@ o :> p1
=============================================================================
