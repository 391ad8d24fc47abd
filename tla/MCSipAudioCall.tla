--------------------------- MODULE MCSipAudioCall ---------------------------
(***************************************************************************)
(* Instances of SipAudioCall for TLC: a session, and one that a transfer   *)
(* makes.                                                                  *)
(***************************************************************************)
EXTENDS SipAudioCallProperties, TLC

CONSTANTS s1, s2

TwoSessions == {s1, s2}

\* A call with all but a transfer; one with a peer that accepts every change,
\* and maybe transfers the call to one that is not busy; a user who waits, with
\* holds that the peer accepts, or without.
Single ==
    [transfers |-> FALSE, refusals |-> {"busy", "failed", "change"},
     changes |-> {"hold", "reinvite"}, rash |-> TRUE]
Accepts     == [Single EXCEPT !.refusals = {"failed"}]
MayTransfer == [Accepts EXCEPT !.transfers = TRUE]
Waits == [Single EXCEPT !.rash = FALSE]
Holds == [Waits EXCEPT !.refusals = {"busy", "failed"}, !.changes = {"hold"}]
Plain == [Waits EXCEPT !.changes = {}]

AllSettings == {Single, Accepts, MayTransfer, Waits, Holds, Plain}

Alike == Permutations(TwoSessions)
=============================================================================
