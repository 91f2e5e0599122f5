------------------------------- MODULE MCScan -------------------------------
(* Small instances of Scan for TLC: transponders are frequencies, those    *)
(* that differ by one at most are alike, which is not transitive.          *)
EXTENDS Scan, Integers
Freqs     == 1 .. 4
SameFreq  == {<<t, t>> : t \in Freqs}
AlikeFreq == {p \in Freqs \X Freqs : p[1] - p[2] \in -1 .. 1}
TwinFreq  == {<<1, 4>>, <<4, 1>>}
FreqList  == <<1, 3, 1>>
=============================================================================
