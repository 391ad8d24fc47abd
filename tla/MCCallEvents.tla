----------------------------- MODULE MCCallEvents -----------------------------
(***************************************************************************)
(* Instances of CallEvents for TLC: four clients, three of them at a time, *)
(* and two calls.                                                          *)
(***************************************************************************)
EXTENDS CallEvents, TLC

CONSTANTS c1, c2, c3, c4, a, b

FourClients == {c1, c2, c3, c4}
TwoCalls    == {a, b}

Symmetric == Permutations(Clients) \cup Permutations(Calls)
=============================================================================
