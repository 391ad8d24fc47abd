----------------------------- MODULE SipAudioCall -----------------------------
(***************************************************************************)
(* A call of the Java layer (SipAudioCall.java) as the activity uses it    *)
(* (MainActivity.java), between two threads: the UI thread, on which the   *)
(* user makes, holds, mutes and ends the call, and the binder thread on    *)
(* which the SIP service reports what became of the sessions.  A report    *)
(* that was sent is delivered, though the call may be closed by then.  A   *)
(* synchronized method is one action; onCallEstablished and onTouch of the *)
(* activity call two of them one after the other, and the other thread may *)
(* come in between.                                                        *)
(***************************************************************************)
EXTENDS Naturals, Sequences

CONSTANTS
    Sessions,   \* the SIP sessions (SipSession of the platform)
    Null,       \* no session
    Settings,   \* the settings of a call that are looked at: see Setting
    MaxReports  \* bound: reports that are on their way

\* What may happen to a call: that the peer transfers it; how its session, or
\* a change of it, is refused; holds, and re-INVITEs of the peer; and that the
\* user is rash, closing or holding the call while a change or a report is
\* under way, or letting go of the talk button before the call is established.
Setting == [transfers : BOOLEAN, refusals : SUBSET {"busy", "failed", "change"},
            changes : SUBSET {"hold", "reinvite"}, rash : BOOLEAN]

ASSUME SipAudioCallAssumption ==
    /\ Null \notin Sessions
    /\ Settings \subseteq Setting
    /\ MaxReports \in Nat

VARIABLES
    cfg,     \* the setting of this call, which nothing changes
    call,    \* the fields of the call object
    sess,    \* the sessions, as the SIP service has them
    reports, \* the calls of the session listener under way, in order
    todo,    \* what onCallEstablished of the activity has yet to call
    touch,   \* whether the user presses the talk button, and whether onTouch
             \* has found that it is to call toggleMute
    closed   \* TRUE once the activity has called close()

vars == <<cfg, call, sess, reports, todo, touch, closed>>

Descriptions == {"none", "good", "bad"}   \* "bad": no codec, or unknown host
Modes        == {"hold", "muted", "normal"}
States       == {"free", "ringing", "calling", "incall", "changing", "ended"}
Events       == {"established", "ended", "busy", "failed", "changeFailed",
                 "lost", "ringing", "transferring"}

TypeOK ==
    /\ cfg \in Settings
    /\ call \in [session : Sessions \cup {Null}, transferring : Sessions \cup {Null},
                 stream : {"none", "new", "ready", "joined"}, mode : Modes,
                 inCall : BOOLEAN, muted : BOOLEAN, hold : BOOLEAN,
                 wifi : BOOLEAN, peerSd : Descriptions]
    /\ sess \in [Sessions -> [state : States, listens : BOOLEAN,
                          held : BOOLEAN, asks : BOOLEAN]]
    /\ reports \in Seq([event : Events, of : Sessions, sd : Descriptions])
    /\ todo \in Seq({"startAudio", "toggleMute"})
    /\ touch \in [pressed : BOOLEAN, toggles : BOOLEAN] /\ closed \in BOOLEAN

Init ==
    /\ cfg \in Settings
    /\ call = [session |-> Null, transferring |-> Null, stream |-> "none",
               mode |-> "hold", inCall |-> FALSE, muted |-> FALSE,
               hold |-> FALSE, wifi |-> FALSE, peerSd |-> "none"]
    /\ sess = [s \in Sessions |-> [state |-> "free", listens |-> FALSE,
                                  held |-> FALSE, asks |-> FALSE]]
    /\ reports = <<>> /\ todo = <<>>
    /\ touch = [pressed |-> FALSE, toggles |-> FALSE] /\ closed = FALSE
-----------------------------------------------------------------------------
(***************************************************************************)
(* The methods of the call as functions of its fields.                     *)
(***************************************************************************)
Mode(c) == IF c.hold THEN "hold" ELSE IF c.muted THEN "muted" ELSE "normal"

\* Mutant: the mode is taken from the fields only when the audio starts.
SetAudioGroupMode_Never(c) == c

\* setAudioGroupMode: the group exists while the stream is joined to it.
SetAudioGroupMode(c) == IF c.stream = "joined" THEN [c EXCEPT !.mode = Mode(c)] ELSE c

StopCall(c, release) ==
    [c EXCEPT !.wifi = FALSE,
              !.stream = IF release \/ @ = "none" THEN "none"
                         ELSE IF @ = "joined" THEN "ready" ELSE @]

\* Mutant: close leaves the audio to endCall.
Close_KeepsAudio(c, closeRtp) ==
    [c EXCEPT !.inCall = FALSE, !.hold = FALSE, !.session = Null]

Close(c, closeRtp) ==
    [(IF closeRtp THEN StopCall(c, TRUE) ELSE c)
        EXCEPT !.inCall = FALSE, !.hold = FALSE, !.session = Null]

\* onError: only a call that is not established, or has lost the network, closes.
OnError(c, lost) == IF lost \/ ~c.inCall THEN Close(c, TRUE) ELSE c

\* startAudio.  mInCall is set before anything can fail.
StartAudio(c) ==
    IF c.peerSd = "none" THEN OnError(c, FALSE)
    ELSE LET d == [StopCall(c, FALSE) EXCEPT !.inCall = TRUE]
         IN  IF d.stream = "none" \/ d.peerSd = "bad" THEN OnError(d, FALSE)
             ELSE LET joins == [d EXCEPT !.wifi = TRUE,
                                         !.stream = IF d.hold THEN "ready" ELSE "joined"]
                  IN  SetAudioGroupMode(joins)

\* transferToNewSession, for the call that now has session s.
Transferred(c, s) ==
    StartAudio([c EXCEPT !.session = s, !.transferring = Null,
                         !.stream = IF @ = "joined" THEN "ready"
                                    ELSE IF @ = "none" THEN "new" ELSE @])
-----------------------------------------------------------------------------
(***************************************************************************)
(* The SIP service.                                                        *)
(***************************************************************************)
\* The SIP service reports event for session s, which then is in some state,
\* unless the session has no listener any more.
Reports(s, event, sd, session) ==
    /\ Len(reports) < MaxReports
    /\ sess' = [sess EXCEPT ![s] = session]
    /\ reports' = IF sess[s].listens
                  THEN Append(reports, [event |-> event, of |-> s, sd |-> sd])
                  ELSE reports
    /\ UNCHANGED <<cfg, call, todo, touch, closed>>

SessionAnswered(s) ==
    /\ sess[s].state \in {"calling", "changing"}
    /\ \E sd \in {"good", "bad"} :
          Reports(s, "established", sd,
                  [sess[s] EXCEPT !.state = "incall", !.held = sess[s].asks])

\* Busy or failed at first; a change that fails leaves the session as it was.
SessionRefused(s) ==
    \/ /\ sess[s].state = "calling"
       /\ \E event \in cfg.refusals \ {"change"} :
             Reports(s, event, "none", [sess[s] EXCEPT !.state = "ended"])
    \/ /\ sess[s].state = "changing" /\ "change" \in cfg.refusals
       /\ Reports(s, "changeFailed", "none",
                  [sess[s] EXCEPT !.state = "incall", !.asks = sess[s].held])

SessionEnds(s) ==
    /\ sess[s].state \in {"ringing", "calling", "incall", "changing"}
    /\ \E event \in {"ended", "lost"} :
          Reports(s, event, "none", [sess[s] EXCEPT !.state = "ended"])

\* A re-INVITE of the peer.
PeerReinvites(s) ==
    /\ "reinvite" \in cfg.changes
    /\ sess[s].state = "incall"
    /\ \E sd \in {"good", "bad"} : Reports(s, "ringing", sd, sess[s])

\* A REFER of the peer, for which the service makes session t.
PeerRefers(s, t) ==
    /\ cfg.transfers
    /\ sess[s].state = "incall" /\ sess[t].state = "free"
    /\ sess[s].listens
    /\ Len(reports) < MaxReports
    /\ sess' = [sess EXCEPT ![t].state = "ringing", ![t].listens = TRUE]
    /\ reports' = Append(reports, [event |-> "transferring", of |-> t, sd |-> "none"])
    /\ UNCHANGED <<cfg, call, todo, touch, closed>>

Set(s, state) == [sess EXCEPT ![s].state = state]

\* A call that has closed has taken its listener from its session.
Silenced == IF call.session # Null /\ call'.session = Null
            THEN sess' = [sess EXCEPT ![call.session].listens = FALSE]
            ELSE UNCHANGED sess

\* endCall of a session: the service reports the end.
Ends(s) ==
    /\ sess' = [sess EXCEPT ![s].state = "ended"]
    /\ reports' = IF sess[s].state = "ended" THEN Tail(reports)
                  ELSE Append(Tail(reports), [event |-> "ended", of |-> s, sd |-> "none"])
-----------------------------------------------------------------------------
(***************************************************************************)
(* The UI thread.                                                          *)
(***************************************************************************)
\* No change or report is under way, or the user does not care.
Settled ==
    \/ cfg.rash
    \/ reports = <<>> /\ todo = <<>> /\ \A s \in Sessions : sess[s].state # "changing"

\* The UI thread is not within onTouch.
Idle == ~touch.toggles

\* No session was established so far, or the activity still handles that.
Awaited ==
    \/ \A s \in Sessions : sess[s].state = "free"
    \/ \E s \in Sessions : sess[s].state \in {"ringing", "calling"}
    \/ \E i \in 1..Len(reports) : reports[i].event = "established"
    \/ todo # <<>>

\* SipAudioManager.makeAudioCall; a call that fails at once is thrown away.
MakeCall(s) ==
    /\ \A t \in Sessions : sess[t].state = "free"
    /\ ~closed
    /\ call' = [call EXCEPT !.session = s, !.stream = "new"]
    /\ sess' = [sess EXCEPT ![s].state = "calling", ![s].listens = TRUE]
    /\ UNCHANGED <<cfg, reports, todo, touch, closed>>

AttachCall(s) ==
    /\ \A t \in Sessions : sess[t].state = "free"
    /\ ~closed
    /\ \E sd \in {"good", "bad"} :
          call' = [call EXCEPT !.session = s, !.peerSd = sd]
    /\ sess' = [sess EXCEPT ![s].state = "ringing", ![s].listens = TRUE]
    /\ UNCHANGED <<cfg, reports, todo, touch, closed>>

\* answerCall: a description without a codec is refused by an exception.
AnswerCall ==
    /\ Idle
    /\ call.session # Null
    /\ sess[call.session].state = "ringing" /\ call.stream = "none"
    /\ call' = [call EXCEPT !.stream = "new"]
    /\ sess' = IF call.peerSd = "good" THEN Set(call.session, "calling") ELSE sess
    /\ UNCHANGED <<cfg, reports, todo, touch, closed>>

\* Mutant: the audio goes on until the service reports the end.
EndCall_KeepsAudio ==
    /\ Idle
    /\ call' = [call EXCEPT !.inCall = FALSE]
    /\ Len(reports) < MaxReports
    /\ IF call.session = Null THEN UNCHANGED <<sess, reports>>
       ELSE /\ sess' = Set(call.session, "ended")
            /\ reports' = IF sess[call.session].state = "ended" THEN reports
                          ELSE Append(reports, [event |-> "ended", of |-> call.session,
                                                sd |-> "none"])
    /\ UNCHANGED <<cfg, todo, touch, closed>>

EndCall ==
    /\ Idle
    /\ call' = [StopCall(call, TRUE) EXCEPT !.inCall = FALSE]
    /\ Len(reports) < MaxReports
    /\ IF call.session = Null THEN UNCHANGED <<sess, reports>>
       ELSE /\ sess' = Set(call.session, "ended")
            /\ reports' = IF sess[call.session].state = "ended" THEN reports
                          ELSE Append(reports, [event |-> "ended", of |-> call.session,
                                                sd |-> "none"])
    /\ UNCHANGED <<cfg, todo, touch, closed>>

\* close() of the activity.  It does not end the session.
CloseCall ==
    /\ Idle /\ Settled
    /\ call' = Close(call, TRUE)
    /\ Silenced
    /\ closed' = TRUE
    /\ UNCHANGED <<cfg, reports, todo, touch>>

\* Mutant: continueCall sends the offer of holdCall.
ChangeCall_AlwaysHold(hold) ==
    /\ Idle /\ "hold" \in cfg.changes /\ Settled
    /\ call.hold # hold
    /\ call.session # Null /\ call.stream \in {"ready", "joined"}
    /\ sess' = IF sess[call.session].state # "incall" THEN sess
               ELSE [sess EXCEPT ![call.session].state = "changing",
                                 ![call.session].asks = TRUE]
    /\ call' = SetAudioGroupMode([call EXCEPT !.hold = hold])
    /\ UNCHANGED <<cfg, reports, todo, touch, closed>>

\* holdCall, continueCall: the offer needs the codec of the stream.  A session
\* that is changing already does not take it.
ChangeCall(hold) ==
    /\ Idle /\ "hold" \in cfg.changes /\ Settled
    /\ call.hold # hold
    /\ call.session # Null /\ call.stream \in {"ready", "joined"}
    /\ sess' = IF sess[call.session].state # "incall" THEN sess
               ELSE [sess EXCEPT ![call.session].state = "changing",
                                 ![call.session].asks = hold]
    /\ call' = SetAudioGroupMode([call EXCEPT !.hold = hold])
    /\ UNCHANGED <<cfg, reports, todo, touch, closed>>

ToggleMute(c) == SetAudioGroupMode([c EXCEPT !.muted = ~@])

\* Mutant: the button mutes when it is pressed.
OnTouch_Swapped(down) ==
    /\ Idle /\ \E s \in Sessions : sess[s].state # "free"
    /\ down \/ cfg.rash \/ ~Awaited
    /\ touch.pressed = ~down
    /\ touch' = [pressed |-> down, toggles |-> call.muted # down]
    /\ UNCHANGED <<cfg, call, sess, reports, todo, closed>>

\* onTouch, as far as isMuted: pressed, the button unmutes; released, it mutes.
OnTouch(down) ==
    /\ Idle /\ \E s \in Sessions : sess[s].state # "free"
    /\ down \/ cfg.rash \/ ~Awaited
    /\ touch.pressed = ~down
    /\ touch' = [pressed |-> down, toggles |-> call.muted = down]
    /\ UNCHANGED <<cfg, call, sess, reports, todo, closed>>

\* The end of onTouch, whatever happened to the call since.
TouchToggles ==
    /\ touch.toggles
    /\ touch' = [touch EXCEPT !.toggles = FALSE]
    /\ call' = ToggleMute(call)
    /\ UNCHANGED <<cfg, sess, reports, todo, closed>>
-----------------------------------------------------------------------------
(***************************************************************************)
(* The binder thread: the session listener, and the listener of the        *)
(* activity that it calls.                                                 *)
(***************************************************************************)
Handles(event) == todo = <<>> /\ reports # <<>> /\ Head(reports).event = event

Handled == reports' = Tail(reports) /\ UNCHANGED <<cfg, touch, closed>>

\* Mutant: the activity is told once, when the call was not established before.
OnCallEstablished_Once ==
    /\ Handles("established")
    /\ LET s == Head(reports).of
           c == [call EXCEPT !.peerSd = Head(reports).sd]
       IN  IF s = call.transferring
           THEN /\ call' = Transferred(c, s)
                /\ IF call.session = Null
                   THEN reports' = Tail(reports) /\ UNCHANGED sess
                   ELSE Ends(call.session)
                /\ UNCHANGED <<cfg, todo, touch, closed>>
           ELSE /\ call' = c
                /\ todo' = IF c.hold \/ c.inCall THEN <<>>
                           ELSE <<"startAudio", "toggleMute">>
                /\ Handled /\ UNCHANGED sess

\* onCallEstablished: the session of a transfer takes the place of the old one.
OnCallEstablished ==
    /\ Handles("established")
    /\ LET s == Head(reports).of
           c == [call EXCEPT !.peerSd = Head(reports).sd]
       IN  IF s = call.transferring
           THEN /\ call' = Transferred(c, s)
                /\ IF call.session = Null
                   THEN reports' = Tail(reports) /\ UNCHANGED sess
                   ELSE Ends(call.session)
                /\ UNCHANGED <<cfg, todo, touch, closed>>
           ELSE /\ call' = c
                /\ todo' = IF c.hold THEN <<>> ELSE <<"startAudio", "toggleMute">>
                /\ Handled /\ UNCHANGED sess

\* What the activity does then, one synchronized method after the other.
ActivityEstablished ==
    /\ todo # <<>>
    /\ call' = IF Head(todo) = "startAudio" THEN StartAudio(call) ELSE ToggleMute(call)
    /\ todo' = Tail(todo)
    /\ Silenced
    /\ UNCHANGED <<cfg, reports, touch, closed>>

\* Mutant: the end of a session that was established is left to the user.
OnCallEnded_Ignored ==
    /\ Handles("ended")
    /\ LET s == Head(reports).of
       IN  call' = IF s = call.transferring THEN [call EXCEPT !.transferring = Null]
                   ELSE IF call.transferring # Null \/ s # call.session \/ call.inCall
                   THEN call ELSE Close(call, TRUE)
    /\ Silenced /\ Handled /\ UNCHANGED todo

OnCallEnded ==
    /\ Handles("ended")
    /\ LET s == Head(reports).of
       IN  call' = IF s = call.transferring THEN [call EXCEPT !.transferring = Null]
                   ELSE IF call.transferring # Null \/ s # call.session THEN call
                   ELSE Close(call, TRUE)
    /\ Silenced /\ Handled /\ UNCHANGED todo

\* onCallBusy: whatever session is busy, and without stopping the audio.
OnCallBusy ==
    /\ Handles("busy")
    /\ call' = Close(call, FALSE)
    /\ Silenced /\ Handled /\ UNCHANGED todo

\* onError, onCallChangeFailed: the latter only tells the listener.
OnFailure ==
    /\ \/ Handles("failed")       /\ call' = OnError(call, FALSE)
       \/ Handles("lost")         /\ call' = OnError(call, TRUE)
       \/ Handles("changeFailed") /\ UNCHANGED call
    /\ Silenced /\ Handled /\ UNCHANGED todo

\* onRinging: a re-INVITE is answered, or the session ended.
OnRinging ==
    /\ Handles("ringing")
    /\ LET s == Head(reports).of
       IN  IF call.session # s \/ ~call.inCall \/ call.stream = "none"
              \/ Head(reports).sd = "bad"
           THEN Ends(s)
           ELSE /\ sess' = IF sess[s].state = "incall" THEN Set(s, "changing") ELSE sess
                /\ reports' = Tail(reports)
    /\ UNCHANGED <<cfg, call, todo, touch, closed>>

\* onCallTransferring: the offer needs the port of the stream.
OnCallTransferring ==
    /\ Handles("transferring")
    /\ LET t == Head(reports).of
       IN  /\ call' = [call EXCEPT !.transferring = t]
           /\ IF call.stream = "none" THEN Ends(t)
              ELSE /\ sess' = IF sess[t].state = "ringing" THEN Set(t, "calling") ELSE sess
                   /\ reports' = Tail(reports)
    /\ UNCHANGED <<cfg, todo, touch, closed>>
-----------------------------------------------------------------------------
Next ==
    \/ \E s \in Sessions :
          \/ SessionAnswered(s) \/ SessionRefused(s) \/ SessionEnds(s)
          \/ PeerReinvites(s) \/ \E t \in Sessions : PeerRefers(s, t)
          \/ MakeCall(s) \/ AttachCall(s)
    \/ AnswerCall \/ EndCall \/ CloseCall \/ TouchToggles
    \/ \E b \in BOOLEAN : ChangeCall(b) \/ OnTouch(b)
    \/ OnCallEstablished \/ ActivityEstablished
    \/ OnCallEnded \/ OnCallBusy \/ OnFailure
    \/ OnRinging \/ OnCallTransferring

Spec == Init /\ [][Next]_vars
=============================================================================
