---------------------------- MODULE MCAudioGroup ----------------------------
(***************************************************************************)
(* Instances of AudioGroup for TLC: two threads, groups and streams.       *)
(***************************************************************************)
EXTENDS AudioGroup, TLC

CONSTANTS t1, t2, a, b, g, h, c, d

TwoThreads == {t1, t2}
TwoStreams == {a, b}
TwoGroups  == {g, h}
TwoConfigs == {c, d}
OneStream  == {a}

Alike == Permutations(TwoThreads) \cup Permutations(TwoStreams)
         \cup Permutations(TwoGroups) \cup Permutations(TwoConfigs)
=============================================================================
