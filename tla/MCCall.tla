------------------------------- MODULE MCCall -------------------------------
(***************************************************************************)
(* Call.tla and its properties, for TLC.                                   *)
(***************************************************************************)
EXTENDS CallProperties, TLC

CONSTANTS c1, c2, n1, n2

TwoCalls     == {c1, c2}
OneNotifier  == {n1}
TwoNotifiers == {n1, n2}

AllFailures == Failures

HoldAndTransfer == {"hold", "transfer"}

Symmetric ==
    Permutations(Calls) \cup Permutations(Notifiers)
=============================================================================
