---------------------------- MODULE CallProperties ----------------------------
(***************************************************************************)
(* What must hold of Call.tla.                                             *)
(***************************************************************************)
EXTENDS Call

(***************************************************************************)
(* Each property is stated of the program until a handler is called with a *)
(* freed call (stale): what it does from then on is undefined.             *)
(*                                                                         *)
(* Memory.  The timer, the session, the media-NAT session and the REFER    *)
(* subscription of a call, all of which can call back with it, are gone    *)
(* with it, and each live call is in the list exactly once.  It is what    *)
(* call_destructor and the CLOSED event must get right on every path that  *)
(* ends a call.  They do not get it right for the notifier of a transfer:  *)
(* its close handler can come with a freed call, as long as a call that    *)
(* was made for the transfer holds the notifier (and no longer than that). *)
(***************************************************************************)
Listed ==
    /\ {list[i] : i \in DOMAIN list} = Live
    /\ \A i, j \in DOMAIN list : list[i] = list[j] => i = j

HandlersGone ==
    /\ Listed
    /\ tmrInv \cup mnat \cup subscr \cup {c \in Calls : sess[c] # "none"}
         \subseteq Live

NotifierKept ==
    \A n \in Notifiers :
        subs[n].told = "trying" => \E d \in Live : call[d].not = n

HandlersLive == ~stale => HandlersGone /\ NotifierKept

(***************************************************************************)
(* Every notifier has exactly as many references as calls that point to    *)
(* it, through call_alloc (which inherits it), the replies to REFER, final *)
(* NOTIFYs, the close handler and the destructor: it is neither freed      *)
(* while a call still points to it nor leaked, unless the close handler    *)
(* comes with a freed call and releases one of them a second time.         *)
(***************************************************************************)
Counted ==
    \A n \in Notifiers :
        subs[n].refs = Cardinality({c \in Calls : call[c].not = n})

RefsMatch == ~stale => Counted

(***************************************************************************)
(* A call that waits to be answered has its 120 s timer running, unless    *)
(* the account answers with early media (call_progress cancels it).        *)
(***************************************************************************)
Timed ==
    \A c \in Calls :
        call[c].state = "INCOMING" /\ c \notin tmrInv => AnswerMode = "EARLY"

IncomingTimed == ~stale => Timed

(***************************************************************************)
(* A tone that repeats for ever has a call behind it: the ring tone a call *)
(* that waits for an answer, the ringback tone a call whose INVITE is      *)
(* unanswered and that plays no early media ("start media-stream if        *)
(* application/sdp, play local ringback tone if not", call.c).  Every      *)
(* event of every call shares the one player of the user agent.            *)
(***************************************************************************)
ToneOfCall ==
    /\ play = "ring" => \E c \in Calls : call[c].state = "INCOMING"
    /\ play = "ringback" =>
          \E c \in Calls : sess[c] = "inviting" /\ call[c].media = "off"

ToneHasCall == ~stale => ToneOfCall

(***************************************************************************)
(* No call is stranded: a live call has a session that can end it, or a    *)
(* media NAT that it waits for, whatever failed, was answered early or was *)
(* transferred meanwhile.  The exception is an outgoing call whose media   *)
(* NAT is ready and whose INVITE could not be sent: the error of           *)
(* send_invite is dropped (mnat_handler), and nothing ends the call but    *)
(* the application.                                                        *)
(***************************************************************************)
Unsent(c) ==
    "invite" \in CanFail /\ call[c].state = "OUTGOING" /\ ~call[c].mnatWait

Attended ==
    \A c \in Live :
        sess[c] # "none" \/ (c \in mnat /\ call[c].mnatWait) \/ Unsent(c)

NoneStranded == ~stale => Attended

(***************************************************************************)
(* The events and NOTIFYs are those of the service of CallService.tla:     *)
(* nothing but the end is reported after ESTABLISHED, which is reported    *)
(* once, and a transfer is reported a success only when the call that was  *)
(* made for it is established.  This takes a peer that asks for a transfer *)
(* in an established call only: a call that is asked before it is answered *)
(* reports the success itself when it is answered.                         *)
(***************************************************************************)
Service == INSTANCE CallService WITH
    request <- [n \in Notifiers |->
                  [outcome |-> subs[n].told,
                   by |-> IF subs[n].told = "trying" THEN subs[n].owner ELSE Null]]

ServicePromise ==
    Service!Init /\ [][stale' \/ Service!Next]_(Service!vars)

(***************************************************************************)
(* An incoming call is established or ends: a call that nobody answers     *)
(* does not stay for ever ("Incoming call timeout in [seconds]", call.c).  *)
(* Not so where the account answers with early media: call_progress stops  *)
(* the timer, and starts no other.                                         *)
(***************************************************************************)
IncomingSettles ==
    \A c \in Calls :
        call[c].state = "INCOMING" ~> stale \/ call[c].state # "INCOMING"
=============================================================================
