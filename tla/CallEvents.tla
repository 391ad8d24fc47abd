------------------------------ MODULE CallEvents ------------------------------
(***************************************************************************)
(* The events of calls: what a handler of call.c does before the event and *)
(* what it goes on to do with the call after the event, with the walk of   *)
(* UaEvents in between.  Any client of the walk may hang up calls, also    *)
(* that of the event: the rest of the walk and the rest of the handler     *)
(* still hold a pointer to it.                                             *)
(*                                                                         *)
(* Calls are never used twice, so that a pointer to a freed call cannot be *)
(* mistaken for one to its successor.                                      *)
(***************************************************************************)
EXTENDS UaEvents

CONSTANT Calls      \* the calls that are made

Kinds  == {"INCOMING", "PROGRESS", "RINGING", "ESTABLISHED", "CLOSED"}
Phases == {"unused", "waiting", "incoming", "outgoing", "established", "freed"}
Event  == [kind : Kinds, call : Calls]

ASSUME CallEventsAssumption == Null \notin Calls \cup Event

VARIABLES
    eager,    \* TRUE if clients hang up the call of an event whatever it is, and
              \* whoever comes after them
    phase,    \* the state of each call
    about,    \* the event that is being sent: its kind and its call, or Null
    streams,  \* the calls whose streams run
    tmrInv,   \* the calls whose timer tmr_inv runs
    tmrDtmf,  \* the calls whose timer tmr_dtmf runs
    gone,     \* TRUE if a client has hung up the call of the event
    flush,    \* TRUE while ua_destructor sends its event
    hung,     \* the calls that the application has ended
    stale     \* TRUE once a freed call was given to a client or used by a handler

callVars == <<eager, phase, about, streams, tmrInv, tmrDtmf, gone, flush, hung, stale>>
walkVars == <<leaves, ehl, at, told, loyal, freed>>
allVars  == <<walkVars, callVars>>

CallTypeOK ==
    /\ eager \in BOOLEAN
    /\ phase \in [Calls -> Phases]
    /\ about \in Event \cup {Null}
    /\ streams \cup tmrInv \cup tmrDtmf \cup hung \subseteq Calls
    /\ gone \in BOOLEAN /\ flush \in BOOLEAN /\ stale \in BOOLEAN

Live == {c \in Calls : phase[c] \notin {"unused", "freed"}}

CallInit ==
    /\ Init
    /\ eager \in BOOLEAN
    /\ phase = [c \in Calls |-> "unused"]
    /\ about = Null
    /\ streams = {} /\ tmrInv = {} /\ tmrDtmf = {}
    /\ gone = FALSE /\ flush = FALSE
    /\ hung = {}
    /\ stale = FALSE
-----------------------------------------------------------------------------
\* Mutant: the timer of the last digit is left running.
Destructor_KeepsDtmf(c) ==
    /\ phase' = [phase EXCEPT ![c] = "freed"]
    /\ streams' = streams \ {c}
    /\ tmrInv' = tmrInv \ {c}
    /\ UNCHANGED tmrDtmf

\* call_destructor.
Destructor(c) ==
    /\ phase' = [phase EXCEPT ![c] = "freed"]
    /\ streams' = streams \ {c}
    /\ tmrInv' = tmrInv \ {c}
    /\ tmrDtmf' = tmrDtmf \ {c}

\* What the handler still does with c when the event of kind k is over, with the
\* phases p, streams s and timers t.  Early media were stopped before they start,
\* which leaves no trace.
Rest(k, c, p, s, t) ==
    /\ phase'   = IF k = "CLOSED" THEN [p EXCEPT ![c] = "freed"] ELSE p
    /\ streams' \in CASE k = "INCOMING"               -> {s}
                      [] k \in {"RINGING", "CLOSED"}  -> {s \ {c}}
                      [] OTHER                        -> {s, s \cup {c}}
    /\ tmrInv'  = IF k = "INCOMING" THEN t ELSE t \ {c}
    /\ tmrDtmf' = IF k = "CLOSED" THEN tmrDtmf \ {c} ELSE tmrDtmf

\* An event of kind k about call c begins, with phases p, streams s and timers t.
\* If no client is there to be called, the handler goes on at once.
Sends(k, c, p, s, t) ==
    /\ EventBegins
    /\ IF at' = Null
       THEN Rest(k, c, p, s, t) /\ UNCHANGED about
       ELSE /\ about' = [kind |-> k, call |-> c]
            /\ phase' = p /\ streams' = s /\ tmrInv' = t
            /\ UNCHANGED tmrDtmf
    /\ UNCHANGED <<eager, gone, flush, hung, stale>>

\* call_accept, without a media NAT.
CallAccept(c) ==
    /\ phase[c] = "unused"
    /\ Sends("INCOMING", c, [phase EXCEPT ![c] = "incoming"], streams, tmrInv \cup {c})

\* call_accept, with a media NAT: the event has to wait.
CallAcceptWaits(c) ==
    /\ at = Null
    /\ phase[c] = "unused"
    /\ phase' = [phase EXCEPT ![c] = "waiting"]
    /\ tmrInv' = tmrInv \cup {c}
    /\ UNCHANGED <<walkVars, eager, about, streams, tmrDtmf, gone, flush, hung, stale>>

\* call_accept, without a common audio codec.
CallAcceptFails(c) ==
    /\ phase[c] = "unused"
    /\ Sends("CLOSED", c, [phase EXCEPT ![c] = "incoming"], streams, tmrInv)

\* mnat_handler, for an incoming call.
MnatReady(c) ==
    /\ phase[c] = "waiting"
    /\ Sends("INCOMING", c, [phase EXCEPT ![c] = "incoming"], streams, tmrInv)

\* sipsess_progr_handler.
Progress(c, media) ==
    /\ phase[c] = "outgoing"
    /\ Sends(IF media THEN "PROGRESS" ELSE "RINGING", c, phase, streams, tmrInv)

\* sipsess_estab_handler.
Established(c) ==
    /\ c \in Live /\ phase[c] # "established"
    /\ Sends("ESTABLISHED", c, [phase EXCEPT ![c] = "established"], streams, tmrInv)

\* Mutant: the call is freed before the application is told.
Closed_FreesFirst(c) ==
    /\ c \in Live
    /\ Sends("CLOSED", c, [phase EXCEPT ![c] = "freed"], streams \ {c}, tmrInv \ {c})

\* sipsess_close_handler, audio_error_handler, menc_error_handler: the streams
\* stop first.
Closed(c) ==
    /\ c \in Live
    /\ Sends("CLOSED", c, phase, streams \ {c}, tmrInv \ {c})

\* mnat_handler with an error, sipsub_notify_handler: the streams still run.
ClosedRunning(c) ==
    /\ c \in Live
    /\ Sends("CLOSED", c, phase, streams, tmrInv)

\* Mutant: the timer frees the call and tells nobody.
InviteTimeout_Silent(c) ==
    /\ c \in tmrInv /\ at = Null
    /\ Destructor(c)
    /\ UNCHANGED <<walkVars, eager, about, gone, flush, hung, stale>>

\* invite_timeout: the timer has fired.
InviteTimeout(c) ==
    /\ c \in tmrInv
    /\ Sends("CLOSED", c, phase, streams, tmrInv \ {c})
-----------------------------------------------------------------------------
\* An event that is about no call.
OtherEvent == EventBegins /\ UNCHANGED callVars

\* list_flush(&ua->calls): the calls of a user agent that is freed.
FreeAll ==
    /\ phase' = [c \in Calls |-> IF c \in Live THEN "freed" ELSE phase[c]]
    /\ streams' = {} /\ tmrInv' = {} /\ tmrDtmf' = {}
    /\ hung' = hung \cup Live

\* ua_destructor: its event comes first, and is about no call.
UaDestructor ==
    /\ EventBegins
    /\ IF at' = Null
       THEN FreeAll /\ UNCHANGED flush
       ELSE flush' = TRUE /\ UNCHANGED <<phase, streams, tmrInv, tmrDtmf, hung>>
    /\ UNCHANGED <<eager, about, gone, stale>>

\* The call of the event is freed, and a client or the handler still gets it: all
\* but the handler of an incoming call go on with it (call_accept, mnat_handler).
UsesFreed ==
    /\ about # Null /\ about.call \notin Live
    /\ at' # Null \/ about.kind # "INCOMING"

\* The handler of a client returns; from the last one, ua_event returns to the
\* handler that sent the event.
Returns ==
    /\ HandlerReturns
    /\ IF at' # Null
       THEN UNCHANGED <<phase, about, streams, tmrInv, tmrDtmf, gone, flush, hung>>
       ELSE /\ about' = Null /\ gone' = FALSE /\ flush' = FALSE
            /\ \/ flush /\ FreeAll
               \/ /\ about # Null /\ UNCHANGED hung
                  /\ Rest(about.kind, about.call, phase, streams, tmrInv)
               \/ /\ ~flush /\ about = Null
                  /\ UNCHANGED <<phase, streams, tmrInv, tmrDtmf, hung>>
    /\ stale' = (stale \/ UsesFreed)
    /\ UNCHANGED eager

\* uag_event_register, uag_event_unregister.
ClientJoins(c)  == (gone => eager) /\ Register(c) /\ UNCHANGED callVars
ClientLeaves(c) == (gone => eager) /\ Unregister(c) /\ UNCHANGED callVars

\* A client of the walk hangs up the call of the event.  One that is not eager
\* does so in the event of an incoming call only, where it is the last client, and
\* as the last thing its handler does.
HangsUp ==
    /\ at # Null
    /\ about # Null /\ about.call \in Live
    /\ eager \/ (about.kind = "INCOMING" /\ ~freed /\ After(at) = Null)
    /\ Destructor(about.call)
    /\ gone' = TRUE
    /\ hung' = hung \cup {about.call}
    /\ UNCHANGED <<walkVars, eager, about, flush, stale>>

\* ua_hangup of any other call, from a client or between two events.
UaHangup(c) ==
    /\ c \in Live
    /\ about # Null => about.call # c
    /\ Destructor(c)
    /\ hung' = hung \cup {c}
    /\ UNCHANGED <<walkVars, eager, about, gone, flush, stale>>

\* ua_connect, from a client or between two events.
UaConnect(c) ==
    /\ phase[c] = "unused"
    /\ phase' = [phase EXCEPT ![c] = "outgoing"]
    /\ UNCHANGED <<walkVars, eager, about, streams, tmrInv, tmrDtmf>>
    /\ UNCHANGED <<gone, flush, hung, stale>>

\* sipsess_info_handler: the timer is started before the application is told of
\* the digit, when it may hang up.
Info(c) ==
    /\ at = Null
    /\ phase[c] = "established"
    /\ \/ /\ tmrDtmf' = tmrDtmf \cup {c}
          /\ UNCHANGED <<phase, streams, tmrInv, hung>>
       \/ Destructor(c) /\ hung' = hung \cup {c}
    /\ UNCHANGED <<walkVars, eager, about, gone, flush, stale>>

\* dtmfend_handler: the end of the digit, when the application may hang up.
DtmfEnd(c) ==
    /\ at = Null
    /\ c \in tmrDtmf
    /\ \/ /\ tmrDtmf' = tmrDtmf \ {c}
          /\ UNCHANGED <<phase, streams, tmrInv, hung>>
       \/ Destructor(c) /\ hung' = hung \cup {c}
    /\ UNCHANGED <<walkVars, eager, about, gone, flush, stale>>
-----------------------------------------------------------------------------
CallNext ==
    \/ \E c \in Calls :
          \/ CallAccept(c) \/ CallAcceptWaits(c) \/ CallAcceptFails(c)
          \/ MnatReady(c) \/ Established(c)
          \/ Closed(c) \/ ClosedRunning(c) \/ InviteTimeout(c)
          \/ \E media \in BOOLEAN : Progress(c, media)
          \/ UaConnect(c) \/ UaHangup(c) \/ Info(c) \/ DtmfEnd(c)
    \/ \E c \in Clients : ClientJoins(c) \/ ClientLeaves(c)
    \/ OtherEvent \/ UaDestructor \/ Returns \/ HangsUp

CallSpec == CallInit /\ [][CallNext]_allVars
-----------------------------------------------------------------------------
(***************************************************************************)
(* No client is given a freed call and no handler of call.c goes on with   *)
(* one, however events, hangups of other calls, timers and the end of the  *)
(* user agent come together, unless the call is hung up by a client that   *)
(* others come after, or in an event after which the handler goes on.      *)
(* Nothing in ua.c keeps a client from that: ua_event and call.c hold no   *)
(* reference to the call while they send.                                  *)
(***************************************************************************)
UsesLiveCall == stale => eager

(***************************************************************************)
(* What can call back with a call, its streams and its two timers, is gone *)
(* when the call is, wherever the call was freed from (until a freed call  *)
(* is used: what a program does from then on is undefined).                *)
(***************************************************************************)
RunsOnlyLive == ~stale => streams \cup tmrInv \cup tmrDtmf \subseteq Live

(***************************************************************************)
(* A call that the application has not ended, by ua_hangup or with the     *)
(* user agent, ends after an event that has told so every client that was  *)
(* there: no call vanishes under a client that still shows it.             *)
(***************************************************************************)
EndTold ==
    [][\A c \in Live \ Live' :
         \/ stale' \/ c \in hung' \/ ehl = <<>>
         \/ /\ about # Null /\ about.kind = "CLOSED" /\ about.call = c
            /\ leaves \/ loyal \subseteq told]_allVars
=============================================================================
