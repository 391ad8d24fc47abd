------------------------ MODULE SipAudioCallProperties ------------------------
(***************************************************************************)
(* What must hold of SipAudioCall.tla.                                     *)
(***************************************************************************)
EXTENDS SipAudioCall

\* No report is under way or being handled.
Quiet == reports = <<>> /\ todo = <<>>

\* onCallBusy closes a call that is transferred to a busy peer as one that was
\* never established: it leaves the stream as it is.
BusyTransfer == cfg.transfers /\ "busy" \in cfg.refusals

(***************************************************************************)
(* The microphone is connected and the Wi-Fi lock held only while the call *)
(* is established, whatever order the user's calls and the reports of the  *)
(* SIP service come in, but for a transfer to a busy peer.                 *)
(***************************************************************************)
AudioInCall == ~BusyTransfer /\ (call.stream = "joined" \/ call.wifi) => call.inCall

(***************************************************************************)
(* A joined group is in the mode that hold and mute ask for: no thread     *)
(* changes a setting without the group (setAudioGroupMode).                *)
(***************************************************************************)
ModeRight == ~BusyTransfer /\ call.stream = "joined" => call.mode = Mode(call)

(***************************************************************************)
(* When the session that carries the call has ended and its report was     *)
(* handled, the call is closed: its audio does not go on by itself.  A     *)
(* call that was transferred in vain does go on: mTransferringSession is   *)
(* left set when onError reports it, and onCallEnded then ignores the end. *)
(***************************************************************************)
EndCloses ==
    Quiet /\ call.session # Null /\ ~cfg.transfers
        => sess[call.session].state # "ended"

(***************************************************************************)
(* Both sides are connected in a call that is established, on hold neither *)
(* for the user nor in a change, whose peer last sent a description that   *)
(* can be used: re-INVITEs, transfers, holds and descriptions that could   *)
(* not be used may have stopped the audio before, and mInCall stays set    *)
(* when starting it fails.  Where a change may be refused it is not so:    *)
(* continueCall clears mHold, and onCallChangeFailed starts nothing.       *)
(***************************************************************************)
HeardWhenUp ==
    Quiet /\ call.inCall /\ ~call.hold /\ call.peerSd = "good"
          /\ call.session # Null /\ sess[call.session].state = "incall"
          /\ (cfg.changes = {} \/ "change" \notin cfg.refusals)
        => call.stream = "joined"

(***************************************************************************)
(* "This object is not usable after being closed" (close): audio does not  *)
(* start, and the call is not established, after that, unless a report was *)
(* under way when it was closed, or a transfer: onCallEstablished starts   *)
(* the audio of a closed call.                                             *)
(***************************************************************************)
ClosedStaysClosed ==
    closed /\ ~cfg.rash /\ ~cfg.transfers => ~call.inCall /\ call.stream = "none"

(***************************************************************************)
(* "Checks if the call is on hold" (isOnHold): when no change is under     *)
(* way, the answer is what the two sides have agreed.  A hold that the     *)
(* peer refuses is not taken back, nor one that is asked for while another *)
(* change, of either side, is under way.                                   *)
(***************************************************************************)
HoldAgreed ==
    Quiet /\ call.session # Null /\ sess[call.session].state = "incall"
          /\ ~cfg.transfers /\ ~cfg.rash
          /\ "change" \notin cfg.refusals /\ "reinvite" \notin cfg.changes
        => call.hold = sess[call.session].held

(***************************************************************************)
(* The voice is muted "depending on whether the button is pressed"         *)
(* (MainActivity.onTouch): released, nothing is heard of the user, whether *)
(* the button was pressed before the call was established, after it, or    *)
(* while the binder thread handled that.  The activity toggles whenever a  *)
(* session is established, so it takes a call that is established once,    *)
(* and a user who does not let go of the button before that: a release     *)
(* that mutes first makes the toggle of onCallEstablished unmute.          *)
(***************************************************************************)
PushToTalk ==
    Quiet /\ Idle /\ call.stream = "joined" /\ ~touch.pressed
          /\ cfg.changes = {} /\ ~cfg.transfers /\ ~cfg.rash
        => call.mode # "normal"
=============================================================================
