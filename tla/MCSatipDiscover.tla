-------------------------- MODULE MCSatipDiscover ---------------------------
(* Small instances of SatipDiscover for TLC, with ticks of a second.       *)
(* FetchTime is rounded up, and SleepTime to two ticks, so that a probe    *)
(* comes late as it does in the code: a sleep ends with the interval or    *)
(* begins one tick before its end.  The interval is a third of the code's, *)
(* and the time-out longer than two of it by the four seconds of the code. *)
EXTENDS SatipDiscover, TLC
CONSTANTS s1
=============================================================================
