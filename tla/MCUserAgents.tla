---------------------------- MODULE MCUserAgents ----------------------------
(***************************************************************************)
(* Instances of UserAgents for TLC: three user agents, of which one        *)
(* registers through two outbound proxies, and one at its registrar; and   *)
(* two variables of the application.                                       *)
(***************************************************************************)
EXTENDS UserAgents, TLC

CONSTANTS u1, u2, u3, p, q

ThreeUas == {u1, u2, u3}
FlowsOf  == (u1 :> 2) @@ (u2 :> 1) @@ (u3 :> 0)
TwoVars  == {p, q}

AllSettings == {Failures, {"register"}}
=============================================================================
