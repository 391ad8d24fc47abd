------------------------------- MODULE MCMetric -------------------------------
(***************************************************************************)
(* Instances of Metric for TLC.  The counters wrap at 13, and a packet has *)
(* 1 or 4 bytes: they wrap between two readings, and so does the product.  *)
(***************************************************************************)
EXTENDS Metric

SmallSizes == {1, 4}

AllSettings ==
    [adders : {{}, {"tx"}}, back : {FALSE}]
    \cup {[adders |-> {}, back |-> TRUE]}
=============================================================================
