-------------------------------- MODULE Call --------------------------------
(***************************************************************************)
(* Call control of one SIP user agent: call.c together with the call event *)
(* handler, the incoming-session handler and the call operations of ua.c.  *)
(*                                                                         *)
(* Everything runs in the single thread of the re main loop, so a handler, *)
(* with every callback it makes before it returns, is one action.  What    *)
(* surrounds the code is external: the SIP sessions and event              *)
(* subscriptions of libre, the media-NAT module, the file player and the   *)
(* application that listens to the events of the user agent.               *)
(***************************************************************************)
EXTENDS Naturals, Sequences, FiniteSets, SequencesExt

CONSTANTS
    Calls,       \* the call objects that memory has room for
    Notifiers,   \* the notifier objects (struct sipnot) memory has room for
    Null,        \* the NULL pointer
    MaxCalls,    \* MAX_CALLS
    AnswerMode,  \* the answer mode of the account
    UseMnat,     \* TRUE if the account has a media-NAT module
    EarlyRefer,  \* TRUE if a peer may send REFER before the call is answered
    CanFail,     \* the library calls that may fail: see Failures
    AppUses      \* what the application uses beyond connect, answer, hangup

Failures == {"codec", "progress", "answer", "invite", "mnat", "refer", "media"}

ASSUME CallAssumption ==
    /\ IsFiniteSet(Calls) /\ Null \notin Calls \cup Notifiers
    /\ MaxCalls \in Nat \ {0}
    /\ AnswerMode \in {"MANUAL", "EARLY", "AUTO"}
    /\ UseMnat \in BOOLEAN /\ EarlyRefer \in BOOLEAN
    /\ CanFail \subseteq Failures
    /\ AppUses \subseteq {"hold", "transfer"}

VARIABLES
    call,    \* the call objects (struct call)
    list,    \* the list of active calls of the user agent (ua->calls)
    tmrInv,  \* the calls whose timer tmr_inv is running
    sess,    \* the SIP session that each call owns (call->sess)
    mnat,    \* the calls with a media-NAT session (call->mnats)
    subscr,  \* the calls with a subscription to a REFER they sent (call->sub)
    subs,    \* the notifier objects: references, handler argument, last NOTIFY
    play,    \* the tone the user agent is playing (ua->play)
    view,    \* what the events told the application of each call
    stale    \* TRUE once a handler was called with a freed call: see StaleClose

vars == <<call, list, tmrInv, sess, mnat, subscr, subs, play, view, stale>>

States  == {"FREE", "INCOMING", "OUTGOING", "RINGING", "EARLY", "ESTABLISHED"}
Session == {"none", "inviting", "ringing", "answered", "up"}
Tones   == {"none", "ring", "ringback", "short"}

CallObject == [state : States, media : {"off", "on"}, mnatWait : BOOLEAN,
               not : Notifiers \cup {Null}, hold : BOOLEAN]
Notifier   == [refs : Nat, owner : Calls \cup {Null},
               told : {"idle", "trying", "ok", "failed", "ended"}]

Typed ==
    /\ call \in [Calls -> CallObject]
    /\ list \in Seq(Calls)
    /\ tmrInv \subseteq Calls
    /\ sess \in [Calls -> Session]
    /\ mnat \subseteq Calls
    /\ subscr \subseteq Calls
    /\ subs \in [Notifiers -> Notifier]
    /\ play \in Tones
    /\ view \in [Calls -> {"idle", "alerted", "up"}]

TypeOK == stale \in BOOLEAN /\ (~stale => Typed)

Live == {c \in Calls : call[c].state # "FREE"}

FreeCall == [state |-> "FREE", media |-> "off", mnatWait |-> FALSE,
             not |-> Null, hold |-> FALSE]

\* call_alloc: the fields of a new call that takes over the notifier n.
NewCall(state, n) == [FreeCall EXCEPT !.state = state, !.mnatWait = TRUE,
                                      !.not = n]

Init ==
    /\ call = [c \in Calls |-> FreeCall]
    /\ list = <<>>
    /\ tmrInv = {}
    /\ sess = [c \in Calls |-> "none"]
    /\ mnat = {}
    /\ subscr = {}
    /\ subs = [n \in Notifiers |-> [refs |-> 0, owner |-> Null, told |-> "idle"]]
    /\ play = "none"
    /\ view = [c \in Calls |-> "idle"]
    /\ stale = FALSE
-----------------------------------------------------------------------------
(***************************************************************************)
(* Notifier objects, as functions of their state sb.  libre refuses a      *)
(* NOTIFY on a subscription that is over, and ends one that is freed.      *)
(***************************************************************************)
Notify(sb, n, outcome) ==
    IF n # Null /\ sb[n].told = "trying"
    THEN [sb EXCEPT ![n].told = outcome] ELSE sb

Deref(sb, n) ==
    IF n = Null THEN sb
    ELSE IF sb[n].refs > 1 THEN [sb EXCEPT ![n].refs = @ - 1]
    ELSE [Notify(sb, n, "ended") EXCEPT ![n].refs = @ - 1, ![n].owner = Null]

\* Mutant: the new call copies the pointer without mem_ref.
Ref_Forgotten(sb, n) == sb

\* The new call inherits the notifier: mem_ref(xcall->not).
Ref(sb, n) == [sb EXCEPT ![n].refs = @ + 1]

\* call_destructor does not take the call c back from the notifiers that have
\* it as their handler argument: one that the call made for the transfer still
\* holds is left with freed memory, here the owner Null (see StaleClose).
Dangle(sb, c) ==
    [n \in Notifiers |-> IF sb[n].owner = c THEN [sb[n] EXCEPT !.owner = Null]
                                            ELSE sb[n]]

Unlink(s, c) ==
    IF \E i \in DOMAIN s : s[i] = c
    THEN RemoveAt(s, CHOOSE i \in DOMAIN s : s[i] = c) ELSE s
-----------------------------------------------------------------------------
\* update_media: a codec that is new to a stream starts it.
UpdateMedia(c) ==
    \E m \in {call[c].media, "on"} : call' = [call EXCEPT ![c].media = m]

\* Mutant: call_stream_stop does not cancel tmr_inv.
Destructor_KeepsTimer(c, sb) ==
    /\ call' = [call EXCEPT ![c] = FreeCall]
    /\ list' = Unlink(list, c)
    /\ sess' = [sess EXCEPT ![c] = "none"]
    /\ mnat' = mnat \ {c}
    /\ subscr' = subscr \ {c}
    /\ subs' = Dangle(Deref(sb, call[c].not), c)
    /\ view' = [view EXCEPT ![c] = "idle"]
    /\ UNCHANGED tmrInv

\* call_destructor: everything that could call back with this call is dropped.
Destructor(c, sb) ==
    /\ call' = [call EXCEPT ![c] = FreeCall]
    /\ list' = Unlink(list, c)
    /\ tmrInv' = tmrInv \ {c}
    /\ sess' = [sess EXCEPT ![c] = "none"]
    /\ mnat' = mnat \ {c}
    /\ subscr' = subscr \ {c}
    /\ subs' = Dangle(Deref(sb, call[c].not), c)
    /\ view' = [view EXCEPT ![c] = "idle"]

\* CALL_EVENT_CLOSED: stop the tone, tell the application, free the call.
ClosedEvent(c, sb) == Destructor(c, sb) /\ play' = "none"

\* CALL_EVENT_INCOMING for a call with fields r, running timers t, session s.
AlertUser(c, r, t, s) ==
    /\ AnswerMode = "MANUAL"
    /\ call' = [call EXCEPT ![c] = r]
    /\ tmrInv' = t
    /\ sess' = [sess EXCEPT ![c] = s]
    /\ play' = IF Len(list') > 1 THEN "short" ELSE "ring"
    /\ view' = [view EXCEPT ![c] = "alerted"]

\* call_progress: the timer goes first, whatever sipsess_progress returns.
CallProgress(c, r, t, s) ==
    /\ AnswerMode = "EARLY"
    /\ \/ /\ s = "ringing"
          /\ \E m \in {r.media, "on"} :
                call' = [call EXCEPT ![c] = [r EXCEPT !.media = m]]
       \/ /\ "progress" \in CanFail \/ s # "ringing"
          /\ call' = [call EXCEPT ![c] = r]
    /\ tmrInv' = t \ {c}
    /\ sess' = [sess EXCEPT ![c] = s]
    /\ play' = "none"
    /\ UNCHANGED view

\* ANSWERMODE_AUTO: call_answer, and its error is ignored.
AutoAnswer(c, r, t, s) ==
    /\ AnswerMode = "AUTO"
    /\ \E m \in {r.media, "on"} : call' = [call EXCEPT ![c] = [r EXCEPT !.media = m]]
    /\ tmrInv' = t
    /\ \/ s = "ringing" /\ sess' = [sess EXCEPT ![c] = "answered"]
       \/ /\ "answer" \in CanFail \/ s # "ringing"
          /\ sess' = [sess EXCEPT ![c] = s]
    /\ play' = "none"
    /\ UNCHANGED view

IncomingEvent(c, r, t, s) ==
    \/ AlertUser(c, r, t, s)
    \/ CallProgress(c, r, t, s)
    \/ AutoAnswer(c, r, t, s)
-----------------------------------------------------------------------------
(***************************************************************************)
(* Incoming calls.  The replies 404, 486, 420 and 500 leave no trace.      *)
(***************************************************************************)
\* "handle multiple calls": the limit counts every call of the user agent.
Admits == Len(list) + 1 <= MaxCalls

\* call_accept: the INVITE becomes a call with a session that rings.
AcceptCall(c) ==
    /\ list' = Append(list, c)
    /\ LET r == NewCall("INCOMING", Null)
           t == tmrInv \cup {c}
       IN  \/ /\ UseMnat
              /\ call' = [call EXCEPT ![c] = r]
              /\ tmrInv' = t
              /\ sess' = [sess EXCEPT ![c] = "ringing"]
              /\ mnat' = mnat \cup {c}
              /\ UNCHANGED <<play, view>>
           \/ ~UseMnat /\ IncomingEvent(c, r, t, "ringing") /\ UNCHANGED mnat
    /\ UNCHANGED <<subscr, subs>>

\* The offer has no common audio codec: 488, and CLOSED frees the new call.
RejectCodec ==
    /\ "codec" \in CanFail
    /\ play' = "none"
    /\ UNCHANGED <<call, list, tmrInv, sess, mnat, subscr, subs, view>>

\* sipsess_conn_handler: a call is allocated for the INVITE and accepts it.
IncomingCall(c) ==
    /\ c \notin Live
    /\ Admits
    /\ AcceptCall(c) \/ RejectCodec

\* invite_timeout: nobody answered within LOCAL_TIMEOUT.
InviteTimeout(c) == c \in tmrInv /\ ClosedEvent(c, subs)

\* Mutant: the timer is cancelled with the 200, before the ACK.
UaAnswer_CancelsTimer(c) ==
    /\ call[c].state = "INCOMING" /\ sess[c] = "ringing"
    /\ sess' = [sess EXCEPT ![c] = "answered"]
    /\ tmrInv' = tmrInv \ {c}
    /\ play' = "none"
    /\ UNCHANGED <<call, list, mnat, subscr, subs, view>>

\* ua_answer, call_answer: only an INCOMING call is answered.  Its media is
\* updated before libre is asked whether the session can be answered.
UaAnswer(c) ==
    /\ c \in Live
    /\ play' = "none"
    /\ IF call[c].state = "INCOMING" THEN UpdateMedia(c) ELSE UNCHANGED call
    /\ \/ /\ call[c].state = "INCOMING" /\ sess[c] = "ringing"
          /\ sess' = [sess EXCEPT ![c] = "answered"]
       \/ /\ \/ call[c].state # "INCOMING"
             \/ sess[c] # "ringing"
             \/ "answer" \in CanFail
          /\ UNCHANGED sess
    /\ UNCHANGED <<list, tmrInv, mnat, subscr, subs, view>>
-----------------------------------------------------------------------------
(***************************************************************************)
(* Outgoing calls.  A connect that fails at once frees the new call again. *)
(***************************************************************************)
\* ua_connect, call_connect: with a media-NAT module the INVITE has to wait.
UaConnect(c) ==
    /\ c \notin Live
    /\ call' = [call EXCEPT ![c] = NewCall("OUTGOING", Null)]
    /\ list' = Append(list, c)
    /\ IF UseMnat THEN mnat' = mnat \cup {c} /\ UNCHANGED sess
                  ELSE sess' = [sess EXCEPT ![c] = "inviting"] /\ UNCHANGED mnat
    /\ UNCHANGED <<tmrInv, subscr, subs, play, view>>

\* mnat_handler: the media-NAT session of a waiting call is ready.
MnatReady(c) ==
    /\ c \in mnat
    /\ call[c].mnatWait
    /\ LET r == [call[c] EXCEPT !.mnatWait = FALSE]
       IN  \/ /\ call[c].state = "OUTGOING"
              /\ call' = [call EXCEPT ![c] = r]
              /\ \/ sess' = [sess EXCEPT ![c] = "inviting"]
                 \/ "invite" \in CanFail /\ UNCHANGED sess
              /\ UNCHANGED <<list, tmrInv, play, view>>
           \/ /\ call[c].state = "INCOMING"
              /\ UNCHANGED list
              /\ IncomingEvent(c, r, tmrInv, sess[c])
           \/ /\ call[c].state \notin {"OUTGOING", "INCOMING"}
              /\ call' = [call EXCEPT ![c] = r]
              /\ UNCHANGED <<list, tmrInv, sess, play, view>>
    /\ UNCHANGED <<mnat, subscr, subs>>

\* mnat_handler with an error: the call is closed.
MnatFailed(c) ==
    /\ "mnat" \in CanFail
    /\ c \in mnat
    /\ ClosedEvent(c, subs)

\* Mutant: the streams of an earlier 183 are not stopped.
Progress_KeepsMedia(c, scode, media) ==
    /\ sess[c] = "inviting"
    /\ call' = [call EXCEPT ![c].state = IF scode = 180 THEN "RINGING" ELSE "EARLY",
                            ![c].media = IF media THEN "on" ELSE @]
    /\ play' = IF media THEN "none" ELSE "ringback"
    /\ view' = [view EXCEPT ![c] = "alerted"]
    /\ UNCHANGED <<list, tmrInv, sess, mnat, subscr, subs>>

\* sipsess_progr_handler: a provisional response, with or without media.
Progress(c, scode, media) ==
    /\ sess[c] = "inviting"
    /\ LET st == CASE scode = 180 -> "RINGING"
                   [] scode = 183 -> "EARLY"
                   [] OTHER       -> call[c].state
       IN  \E m \in {"off"} \cup (IF media THEN {"on"} ELSE {}) :
             call' = [call EXCEPT ![c].state = st, ![c].media = m]
    /\ tmrInv' = tmrInv \ {c}
    /\ play' = IF media THEN "none" ELSE "ringback"
    /\ view' = [view EXCEPT ![c] = "alerted"]
    /\ UNCHANGED <<list, sess, mnat, subscr, subs>>
-----------------------------------------------------------------------------
(***************************************************************************)
(* Established calls and the end of a call.                                *)
(***************************************************************************)
\* Mutant: no early return for a session that is up already.
Established_Again(c) ==
    /\ sess[c] \in {"inviting", "answered", "up"}
    /\ call' = [call EXCEPT ![c].state = "ESTABLISHED", ![c].not = Null]
    /\ sess' = [sess EXCEPT ![c] = "up"]
    /\ tmrInv' = tmrInv \ {c}
    /\ subs' = Deref(Notify(subs, call[c].not, "ok"), call[c].not)
    /\ play' = "none"
    /\ view' = [view EXCEPT ![c] = "up"]
    /\ UNCHANGED <<list, mnat, subscr>>

\* sipsess_estab_handler: the 2xx (caller) or the ACK (callee) has arrived.
\* libre may report it again for a session that is up: the handler returns.
Established(c) ==
    /\ sess[c] \in {"inviting", "answered", "up"}
    /\ call[c].state # "ESTABLISHED"
    /\ \E m \in {call[c].media, "on"} :
         call' = [call EXCEPT ![c].state = "ESTABLISHED", ![c].media = m,
                              ![c].not = Null]
    /\ sess' = [sess EXCEPT ![c] = "up"]
    /\ tmrInv' = tmrInv \ {c}
    /\ subs' = Deref(Notify(subs, call[c].not, "ok"), call[c].not)
    /\ play' = "none"
    /\ view' = [view EXCEPT ![c] = "up"]
    /\ UNCHANGED <<list, mnat, subscr>>

\* Mutant: the end of a session that was never established is not reported.
SessionClosed_Silent(c) ==
    /\ sess[c] # "none"
    /\ IF call[c].state = "ESTABLISHED" THEN ClosedEvent(c, subs)
       ELSE /\ sess' = [sess EXCEPT ![c] = "none"]
            /\ play' = "none"
            /\ UNCHANGED <<call, list, tmrInv, mnat, subscr, subs, view>>

\* sipsess_close_handler: an error, a final response, or neither of the two.
SessionClosed(c) ==
    /\ sess[c] # "none"
    /\ \/ /\ Destructor(c, Notify(subs, call[c].not, "failed"))
          /\ play' \in {"none", "short"}
       \/ ClosedEvent(c, subs)

\* audio_error_handler, and menc_error_handler, which comes in any state.
MediaError(c) ==
    /\ "media" \in CanFail
    /\ c \in Live
    /\ ClosedEvent(c, subs)

\* ua_hangup, call_hangup: STATE_TERMINATED lasts until the call is freed.
UaHangup(c) ==
    /\ c \in Live
    /\ Destructor(c, subs)
    /\ play' = "none"

\* call_hold: the direction of the streams changes, then a re-INVITE.
CallHold(c, hold) ==
    /\ "hold" \in AppUses
    /\ sess[c] # "none"
    /\ call[c].hold # hold
    /\ call' = [call EXCEPT ![c].hold = hold]
    /\ UNCHANGED <<list, tmrInv, sess, mnat, subscr, subs, play, view>>

\* A re-INVITE of the peer (sipsess_offer_handler), or the answer to one of ours
\* (sipsess_answer_handler), which call_modify and mnat_handler send.
Renegotiate(c) ==
    /\ sess[c] = "up"
    /\ UpdateMedia(c)
    /\ UNCHANGED <<list, tmrInv, sess, mnat, subscr, subs, play, view>>

\* list_flush(&ua->calls) in ua_destructor, which also drops the tone.
UaDestructor ==
    /\ list # <<>>
    /\ call' = [c \in Calls |-> FreeCall]
    /\ list' = <<>>
    /\ tmrInv' = {}
    /\ sess' = [c \in Calls |-> "none"]
    /\ mnat' = {}
    /\ subscr' = {}
    /\ subs' = [n \in Notifiers |-> [refs |-> 0, owner |-> Null,
                 told |-> IF subs[n].told = "trying" THEN "ended"
                                                     ELSE subs[n].told]]
    /\ play' = "none"
    /\ view' = [c \in Calls |-> "idle"]

\* A tone that does not repeat ends by itself.
PlayEnds ==
    /\ play = "short"
    /\ play' = "none"
    /\ UNCHANGED <<call, list, tmrInv, sess, mnat, subscr, subs, view>>
-----------------------------------------------------------------------------
(***************************************************************************)
(* Call transfer.                                                          *)
(***************************************************************************)
CanRefer(c) == sess[c] = "up" \/ (EarlyRefer /\ sess[c] # "none")

\* sipsess_refer_handler drops the old notifier; sipevent_accept then fails.
ReferRefused(c) ==
    /\ "refer" \in CanFail
    /\ CanRefer(c)
    /\ call[c].not # Null
    /\ call' = [call EXCEPT ![c].not = Null]
    /\ subs' = Deref(subs, call[c].not)
    /\ UNCHANGED <<list, tmrInv, sess, mnat, subscr, play, view>>

\* Mutant: the notifier of an earlier REFER is overwritten, not released.
Accepted_KeepsOld(c, n) ==
    [subs EXCEPT ![n] = [refs |-> 1, owner |-> c, told |-> "trying"]]

\* The notifiers once n is accepted for a REFER on call c and told "100 Trying".
Accepted(c, n) ==
    [Deref(subs, call[c].not) EXCEPT
        ![n] = [refs |-> 1, owner |-> c, told |-> "trying"]]

\* CALL_EVENT_TRANSFER, and the new call d inherits the notifier.
ReferConnects(c, n, d) ==
    /\ CanRefer(c)
    /\ Deref(subs, call[c].not)[n].refs = 0
    /\ d \notin Live
    /\ call' = [call EXCEPT ![c].not = n, ![d] = NewCall("OUTGOING", n)]
    /\ list' = Append(list, d)
    /\ IF UseMnat THEN mnat' = mnat \cup {d} /\ UNCHANGED sess
                  ELSE sess' = [sess EXCEPT ![d] = "inviting"] /\ UNCHANGED mnat
    /\ subs' = Ref(Accepted(c, n), n)
    /\ play' = "none"
    /\ UNCHANGED <<tmrInv, subscr, view>>

\* The new call cannot be allocated or connected: "500" ends the request.
ReferFails(c, n) ==
    /\ CanRefer(c)
    /\ Deref(subs, call[c].not)[n].refs = 0
    /\ Live = Calls \/ "invite" \in CanFail
    /\ call' = [call EXCEPT ![c].not = Null]
    /\ subs' = Deref(Notify(Accepted(c, n), n, "failed"), n)
    /\ play' = "none"
    /\ UNCHANGED <<list, tmrInv, sess, mnat, subscr, view>>

\* sipnot_close_handler: the subscription n expires or its peer gives it up.
\* The handler clears the notifier of the call that accepted n, if it is there.
NotifierClosed(n) ==
    /\ subs[n].told = "trying"
    /\ subs[n].owner # Null
    /\ LET c == subs[n].owner
       IN  /\ subs' = Deref(Notify(subs, n, "ended"), call[c].not)
           /\ call' = [call EXCEPT ![c].not = Null]
    /\ UNCHANGED <<list, tmrInv, sess, mnat, subscr, play, view>>

\* The same handler with a freed call as its argument: undefined.  What it reads
\* as call->not is a pointer that was left there, or that of a call which has
\* been allocated in the same memory since.
StaleClose(n) ==
    /\ subs[n].told = "trying" /\ subs[n].owner = Null
    /\ \/ \E m \in {Null} \cup {k \in Notifiers : subs[k].refs > 0} :
             subs' = Deref(Notify(subs, n, "ended"), m) /\ UNCHANGED call
       \/ \E c \in Live :
             /\ call[c].not # n
             /\ subs' = Deref(Notify(subs, n, "ended"), call[c].not)
             /\ call' = [call EXCEPT ![c].not = Null]
    /\ stale' = TRUE
    /\ UNCHANGED <<list, tmrInv, sess, mnat, subscr, play, view>>

\* call_transfer: REFER to the peer; an older subscription is dropped first.
CallTransfer(c) ==
    /\ "transfer" \in AppUses
    /\ sess[c] # "none"
    /\ \/ subscr' = subscr \cup {c}
       \/ "refer" \in CanFail /\ subscr' = subscr \ {c}
    /\ UNCHANGED <<call, list, tmrInv, sess, mnat, subs, play, view>>

\* sipsub_notify_handler with a 2xx: the call was transferred.
TransferDone(c) == c \in subscr /\ ClosedEvent(c, subs)

\* sipsub_close_handler.
TransferClosed(c) ==
    /\ c \in subscr
    /\ subscr' = subscr \ {c}
    /\ UNCHANGED <<call, list, tmrInv, sess, mnat, subs, play, view>>
-----------------------------------------------------------------------------
Handler ==
    \/ \E c \in Calls :
          \/ IncomingCall(c) \/ InviteTimeout(c) \/ UaAnswer(c)
          \/ UaConnect(c) \/ MnatReady(c) \/ MnatFailed(c)
          \/ \E scode \in {180, 182, 183}, media \in BOOLEAN :
                Progress(c, scode, media)
          \/ Established(c) \/ SessionClosed(c) \/ MediaError(c) \/ UaHangup(c)
          \/ \E hold \in BOOLEAN : CallHold(c, hold)
          \/ Renegotiate(c) \/ ReferRefused(c)
          \/ \E n \in Notifiers, d \in Calls : ReferConnects(c, n, d)
          \/ \E n \in Notifiers : ReferFails(c, n)
          \/ CallTransfer(c) \/ TransferDone(c) \/ TransferClosed(c)
    \/ \E n \in Notifiers : NotifierClosed(n)
    \/ UaDestructor
    \/ PlayEnds

Next ==
    \/ Handler /\ UNCHANGED stale
    \/ \E n \in Notifiers : StaleClose(n)

Spec == Init /\ [][Next]_vars

\* The main loop runs a timer that has expired.
FairSpec == Spec /\ \A c \in Calls : WF_vars(InviteTimeout(c) /\ UNCHANGED stale)
=============================================================================
