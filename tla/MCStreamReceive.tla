--------------------------- MODULE MCStreamReceive ---------------------------
(***************************************************************************)
(* Instances of StreamReceive for TLC: one source without a jitter buffer, *)
(* over two and a half rounds of sequence numbers and gaps up to a fresh   *)
(* start; and two sources that take turns, without and with one.           *)
(***************************************************************************)
EXTENDS StreamReceive

CONSTANTS s1, s2

TwoSources == {s1, s2}

AllSettings ==
    {[sources |-> {s1}, minJbuf |-> 0, maxGap |-> 12, maxPlace |-> 40],
     [sources |-> TwoSources, minJbuf |-> 0, maxGap |-> 3, maxPlace |-> 8],
     [sources |-> TwoSources, minJbuf |-> 2, maxGap |-> 3, maxPlace |-> 8]}
=============================================================================
