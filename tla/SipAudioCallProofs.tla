-------------------------- MODULE SipAudioCallProofs --------------------------
(***************************************************************************)
(* Proofs about SipAudioCall.tla: what SipAudioCallProperties.tla states,  *)
(* for any number of sessions, any reports under way and any settings.     *)
(***************************************************************************)
EXTENDS SipAudioCallProperties, TLAPS

\* The fields of a call, and a report.
Calls  == [session : Sessions \cup {Null}, transferring : Sessions \cup {Null},
           stream : {"none", "new", "ready", "joined"}, mode : Modes,
           inCall : BOOLEAN, muted : BOOLEAN, hold : BOOLEAN,
           wifi : BOOLEAN, peerSd : Descriptions]
Report == [event : Events, of : Sessions, sd : Descriptions]
SessionRecord == [state : States, listens : BOOLEAN, held : BOOLEAN, asks : BOOLEAN]
-----------------------------------------------------------------------------
(* The reports under way.                                                  *)

\* The reports of q, and whether one of the events is among them.
Members(q)       == {q[i] : i \in 1..Len(q)}
Underway(events) == \E r \in Members(reports) : r.event \in events

LEMMA MembersAppend ==
    ASSUME NEW q \in Seq(Report), NEW x \in Report
    PROVE  /\ Append(q, x) \in Seq(Report)
           /\ Members(Append(q, x)) = Members(q) \cup {x}
<1>1. /\ Append(q, x) \in Seq(Report) /\ Len(Append(q, x)) = Len(q) + 1
      /\ \A i \in 1..Len(q) : Append(q, x)[i] = q[i]
      /\ Append(q, x)[Len(q) + 1] = x
  OBVIOUS
<1> QED
  BY <1>1 DEF Members

LEMMA MembersTail ==
    ASSUME NEW q \in Seq(Report), q # <<>>
    PROVE  /\ Tail(q) \in Seq(Report) /\ Head(q) \in Report
           /\ Members(q) = Members(Tail(q)) \cup {Head(q)}
<1>1. /\ Tail(q) \in Seq(Report) /\ Head(q) \in Report /\ Head(q) = q[1]
      /\ Len(q) \in Nat /\ Len(q) > 0 /\ Len(Tail(q)) = Len(q) - 1
      /\ \A i \in 1..Len(Tail(q)) : Tail(q)[i] = q[i + 1]
  OBVIOUS
<1> DEFINE t == Tail(q)
<1>2. ASSUME NEW i \in 1..Len(q), i # 1 PROVE q[i] \in Members(t)
  <2>1. i - 1 \in 1..Len(t) /\ t[i - 1] = q[i]
    BY <1>1, <1>2
  <2> QED
    BY <2>1 DEF Members
<1>3. ASSUME NEW i \in 1..Len(t) PROVE t[i] \in Members(q)
  BY <1>1 DEF Members
<1>4. q[1] \in Members(q)
  BY <1>1 DEF Members
<1> HIDE DEF t
<1>5. Members(q) \subseteq Members(t) \cup {Head(q)}
  BY <1>1, <1>2 DEF Members
<1>6. Members(t) \subseteq Members(q)
  BY <1>3 DEF Members
<1> QED
  BY <1>1, <1>4, <1>5, <1>6 DEF t

LEMMA MembersEmpty ==
    ASSUME NEW q \in Seq(Report)
    PROVE  /\ Members(q) \subseteq Report
           /\ q = <<>> <=> Members(q) = {}
<1>1. Members(q) \subseteq Report
  BY DEF Members
<1>2. ASSUME q # <<>> PROVE Members(q) # {}
  BY <1>2, MembersTail
<1>3. ASSUME q = <<>> PROVE Members(q) = {}
  BY <1>3 DEF Members
<1> QED
  BY <1>1, <1>2, <1>3
-----------------------------------------------------------------------------
(* The methods of the call.                                                *)

AudioIn(c)  == c.stream = "joined" \/ c.wifi => c.inCall
ModeFits(c) == c.stream = "joined" => c.mode = Mode(c)

LEMMA SetModeFacts ==
    ASSUME NEW c \in Calls
    PROVE  LET d == SetAudioGroupMode(c)
           IN  /\ d \in Calls /\ ModeFits(d)
               /\ d.session = c.session /\ d.transferring = c.transferring
               /\ d.stream = c.stream /\ d.inCall = c.inCall /\ d.muted = c.muted
               /\ d.hold = c.hold /\ d.wifi = c.wifi /\ d.peerSd = c.peerSd
<1>1. Mode(c) \in Modes
  BY DEF Mode, Modes
<1> QED
  BY <1>1 DEF SetAudioGroupMode, ModeFits, Mode, Calls

LEMMA StopCallFacts ==
    ASSUME NEW c \in Calls, NEW release \in BOOLEAN
    PROVE  LET d == StopCall(c, release)
           IN  /\ d \in Calls /\ ~d.wifi /\ d.stream # "joined"
               /\ d.session = c.session /\ d.transferring = c.transferring
               /\ d.mode = c.mode /\ d.inCall = c.inCall /\ d.muted = c.muted
               /\ d.hold = c.hold /\ d.peerSd = c.peerSd
               /\ release \/ c.stream = "none" => d.stream = "none"
               /\ ~release /\ c.stream # "none" => d.stream # "none"
               /\ ~release /\ c.stream = "new" => d.stream = "new"
  BY DEF StopCall, Calls

LEMMA CloseFacts ==
    ASSUME NEW c \in Calls, NEW closeRtp \in BOOLEAN
    PROVE  LET d == Close(c, closeRtp)
           IN  /\ d \in Calls /\ ~d.inCall /\ ~d.hold /\ d.session = Null
               /\ d.transferring = c.transferring /\ d.muted = c.muted
               /\ d.mode = c.mode /\ d.peerSd = c.peerSd
               /\ closeRtp => d.stream = "none" /\ ~d.wifi
               /\ ~closeRtp => d.stream = c.stream /\ d.wifi = c.wifi
<1>1. CASE closeRtp
  <2> DEFINE e == StopCall(c, TRUE)
  <2>1. /\ e \in Calls /\ e.stream = "none" /\ ~e.wifi
        /\ e.transferring = c.transferring /\ e.muted = c.muted
        /\ e.mode = c.mode /\ e.peerSd = c.peerSd
    BY StopCallFacts DEF Calls
  <2>2. Close(c, closeRtp) = [e EXCEPT !.inCall = FALSE, !.hold = FALSE, !.session = Null]
    BY <1>1 DEF Close
  <2> HIDE DEF e
  <2> QED
    BY <1>1, <2>1, <2>2 DEF Calls
<1>2. CASE ~closeRtp
  <2>1. Close(c, closeRtp) = [c EXCEPT !.inCall = FALSE, !.hold = FALSE, !.session = Null]
    BY <1>2 DEF Close
  <2> QED
    BY <1>2, <2>1 DEF Calls
<1> QED
  BY <1>1, <1>2

\* Closes(c, d): the call c is closed, with its stream.
Closed(c, d) ==
    /\ d.session = Null /\ d.stream = "none"
    /\ ~d.inCall /\ ~d.hold /\ ~d.wifi

LEMMA OnErrorFacts ==
    ASSUME NEW c \in Calls, NEW lost \in BOOLEAN
    PROVE  LET d == OnError(c, lost)
           IN  /\ d \in Calls
               /\ d.transferring = c.transferring /\ d.muted = c.muted
               /\ d.mode = c.mode /\ d.peerSd = c.peerSd
               /\ lost \/ ~c.inCall => Closed(c, d)
               /\ ~(lost \/ ~c.inCall) => d = c
  BY CloseFacts DEF OnError, Closed
\* What startAudio does, as far as the invariants go.
LEMMA StartAudioFacts ==
    ASSUME NEW c \in Calls
    PROVE  LET d == StartAudio(c)
           IN  /\ d \in Calls
               /\ d.transferring = c.transferring /\ d.muted = c.muted
               /\ \/ d.session = c.session /\ d.hold = c.hold
                  \/ Closed(c, d)
               /\ c.stream = "none" => d.stream = "none"
               /\ d.stream = "none" => c.stream = "none" \/ Closed(c, d)
               /\ AudioIn(c) => AudioIn(d)
               /\ ModeFits(c) => ModeFits(d)
<1> DEFINE e == [StopCall(c, FALSE) EXCEPT !.inCall = TRUE]
           f == [e EXCEPT !.wifi = TRUE, !.stream = IF e.hold THEN "ready" ELSE "joined"]
<1>1. /\ e \in Calls /\ e.inCall /\ ~e.wifi /\ e.stream # "joined"
      /\ e.session = c.session /\ e.hold = c.hold /\ e.muted = c.muted
      /\ e.transferring = c.transferring /\ e.peerSd = c.peerSd
      /\ e.stream = "none" <=> c.stream = "none"
  <2> DEFINE g == StopCall(c, FALSE)
  <2>1. /\ g \in Calls /\ ~g.wifi /\ g.stream # "joined"
        /\ g.session = c.session /\ g.hold = c.hold /\ g.muted = c.muted
        /\ g.transferring = c.transferring /\ g.peerSd = c.peerSd
        /\ g.stream = "none" <=> c.stream = "none"
    BY StopCallFacts DEF Calls
  <2>2. e = [g EXCEPT !.inCall = TRUE]
    OBVIOUS
  <2> HIDE DEF g, e
  <2> QED
    BY <2>1, <2>2 DEF Calls
<1>2. CASE c.peerSd = "none"
  <2> DEFINE d == OnError(c, FALSE)
  <2>1. StartAudio(c) = d
    BY <1>2 DEF StartAudio
  <2>2. /\ d \in Calls /\ d.transferring = c.transferring /\ d.muted = c.muted
        /\ Closed(c, d) \/ d = c
    BY OnErrorFacts
  <2> HIDE DEF d, e
  <2>3. /\ (d.session = c.session /\ d.hold = c.hold) \/ Closed(c, d)
        /\ c.stream = "none" => d.stream = "none"
        /\ d.stream = "none" => c.stream = "none" \/ Closed(c, d)
    BY <2>2 DEF Closed
  <2>4. (AudioIn(c) => AudioIn(d)) /\ (ModeFits(c) => ModeFits(d))
    BY <2>2 DEF AudioIn, ModeFits, Closed
  <2> QED
    BY <2>1, <2>2, <2>3, <2>4
<1>3. CASE c.peerSd # "none" /\ (e.stream = "none" \/ e.peerSd = "bad")
  <2>1. StartAudio(c) = OnError(e, FALSE)
    BY <1>3 DEF StartAudio
  <2> HIDE DEF e
  <2>2. StartAudio(c) = e
    BY <2>1, <1>1, OnErrorFacts
  <2> QED
    BY <2>2, <1>1 DEF AudioIn, ModeFits
<1>4. CASE c.peerSd # "none" /\ ~(e.stream = "none" \/ e.peerSd = "bad")
  <2>1. StartAudio(c) = SetAudioGroupMode(f)
    BY <1>4 DEF StartAudio
  <2> HIDE DEF e
  <2>2. /\ f \in Calls /\ f.inCall /\ f.session = c.session /\ f.hold = c.hold
        /\ f.muted = c.muted /\ f.transferring = c.transferring
        /\ f.stream \in {"ready", "joined"}
    BY <1>1 DEF Calls
  <2> HIDE DEF f
  <2>3. LET d == SetAudioGroupMode(f)
        IN  /\ d \in Calls /\ d.inCall /\ d.session = c.session /\ d.hold = c.hold
            /\ d.muted = c.muted /\ d.transferring = c.transferring
            /\ d.stream \in {"ready", "joined"} /\ ModeFits(d)
    BY <2>2, SetModeFacts DEF Calls
  <2> QED
    BY <1>1, <1>4, <2>1, <2>3 DEF AudioIn
<1> QED
  BY <1>2, <1>3, <1>4

LEMMA TransferredFacts ==
    ASSUME NEW c \in Calls, NEW s \in Sessions
    PROVE  LET d == Transferred(c, s)
           IN  /\ d \in Calls
               /\ \/ d.session = s /\ d.hold = c.hold
                  \/ Closed(c, d)
               /\ d.stream = "none" => Closed(c, d)
               /\ AudioIn(c) => AudioIn(d)
               /\ ModeFits(d)
<1> DEFINE e == [c EXCEPT !.session = s, !.transferring = Null,
                         !.stream = IF @ = "joined" THEN "ready"
                                    ELSE IF @ = "none" THEN "new" ELSE @]
<1>1. /\ e \in Calls /\ e.session = s /\ e.hold = c.hold
      /\ e.stream \in {"new", "ready"}
      /\ AudioIn(c) => AudioIn(e)
  BY DEF Calls, AudioIn
<1>2. Transferred(c, s) = StartAudio(e)
  BY DEF Transferred
<1> HIDE DEF e
<1> QED
  BY <1>1, <1>2, StartAudioFacts DEF ModeFits, Closed
-----------------------------------------------------------------------------
(* The inductive invariant.                                                *)

Alone   == ~cfg.transfers
AllFree == \A s \in Sessions : sess[s].state = "free"
Session == sess[call.session].state

\* The reports of a session that has ended.
Ended == {"ended", "busy", "failed", "lost"}

\* The call was not established so far, nor is a report that it is.
Young ==
    /\ ~Underway({"established"}) /\ todo = <<>>
    /\ ~call.inCall /\ ~call.wifi /\ call.stream \in {"none", "new"}

\* No session is going to be established any more.
Finished ==
    /\ ~AllFree
    /\ \A s \in Sessions : sess[s].state \notin {"ringing", "calling", "changing"}

(***************************************************************************)
(* What is true of every call: a session that is reported, or that the     *)
(* call has, is not a free one; the peer does what the setting allows; and *)
(* what the activity has yet to do is the end of onCallEstablished.        *)
(***************************************************************************)
CommonInv ==
    /\ \A r \in Members(reports) : sess[r.of].state # "free"
    /\ "busy" \notin cfg.refusals => ~Underway({"busy"})
    /\ "reinvite" \notin cfg.changes => ~Underway({"ringing"})
    /\ call.session # Null => Session # "free"
    /\ call.session = Null => ~call.hold
    /\ \A s \in Sessions : sess[s].state = "free" => ~sess[s].asks /\ ~sess[s].held
    /\ todo \in {<<>>, <<"startAudio", "toggleMute">>, <<"toggleMute">>}

(***************************************************************************)
(* The audio.  A call that lost its session has no stream, or one that is  *)
(* never going to be joined: it was busy before it was established.        *)
(***************************************************************************)
AudioInv ==
    ~BusyTransfer =>
        /\ AudioIn(call) /\ ModeFits(call)
        /\ call.session = Null /\ call.stream # "none" => Alone /\ Young /\ Finished

(***************************************************************************)
(* A call that is not transferred has one session in its life, and listens *)
(* to it while it has it: so it hears of the end of the session, and an    *)
(* error or a busy peer comes before the session is established, or never. *)
(***************************************************************************)
AloneInv ==
    Alone =>
        /\ \A s, t \in Sessions :
              sess[s].state # "free" /\ sess[t].state # "free" => s = t
        /\ \A s \in Sessions : sess[s].listens <=> s = call.session
        /\ call.transferring = Null /\ ~Underway({"transferring"})
        /\ AllFree \/ (\E s \in Sessions : sess[s].state \in {"ringing", "calling"})
              => Young
        /\ Underway({"busy", "failed"}) => Young /\ Finished
        /\ call.session # Null /\ Session = "ended" => Underway(Ended)

(***************************************************************************)
(* A call that was closed with no report under way gets none any more.     *)
(***************************************************************************)
ClosedInv ==
    Alone /\ ~cfg.rash /\ closed =>
        /\ call.session = Null /\ call.stream = "none" /\ ~call.inCall
        /\ reports = <<>> /\ todo = <<>>

(***************************************************************************)
(* The hold of the call is what its session asks for in a change, and what *)
(* is agreed otherwise.                                                    *)
(***************************************************************************)
HoldInv ==
    /\ Alone /\ ~cfg.rash /\ call.session # Null
    /\ "change" \notin cfg.refusals /\ "reinvite" \notin cfg.changes
    => LET s == sess[call.session]
       IN  /\ s.state \in {"ringing", "calling"} => ~call.hold /\ ~s.asks /\ ~s.held
           /\ s.state = "incall"   => call.hold = s.held /\ s.asks = s.held
           /\ s.state = "changing" => call.hold = s.asks

(***************************************************************************)
(* A call without changes is established once.  The user is heard until    *)
(* then, and after that while the button is pressed.                       *)
(***************************************************************************)
EstablishedOnce(q) ==
    \A i, j \in 1..Len(q) :
        q[i].event = "established" /\ q[j].event = "established" => i = j

TalkInv ==
    Alone /\ ~cfg.rash /\ cfg.changes = {} =>
        /\ ~call.hold
        /\ \A s \in Sessions : sess[s].state # "changing"
        /\ EstablishedOnce(reports)
        /\ \/ Underway({"established"}) \/ AllFree
           \/ \E s \in Sessions : sess[s].state \in {"ringing", "calling"}
           => ~call.muted /\ ~touch.toggles /\ ~call.inCall /\ todo = <<>>
        /\ todo # <<>> => ~call.muted /\ ~touch.toggles
        /\ todo = <<>> /\ call.inCall =>
              /\ touch.toggles  => call.muted = touch.pressed
              /\ ~touch.toggles => call.muted \/ touch.pressed

Inv == TypeOK /\ CommonInv /\ AudioInv /\ AloneInv /\ ClosedInv /\ HoldInv /\ TalkInv
-----------------------------------------------------------------------------
(* The steps of the SIP service.                                           *)

LEMMA OnceAppend ==
    ASSUME NEW q \in Seq(Report), NEW x \in Report, EstablishedOnce(q),
           x.event = "established" => \A r \in Members(q) : r.event # "established"
    PROVE  EstablishedOnce(Append(q, x))
<1>1. /\ Len(Append(q, x)) = Len(q) + 1 /\ Append(q, x)[Len(q) + 1] = x
      /\ \A i \in 1..Len(q) : Append(q, x)[i] = q[i] /\ q[i] \in Members(q)
  BY DEF Members
<1> QED
  BY <1>1 DEF EstablishedOnce

LEMMA OnceTail ==
    ASSUME NEW q \in Seq(Report), q # <<>>, EstablishedOnce(q)
    PROVE  /\ EstablishedOnce(Tail(q))
           /\ Head(q).event = "established" =>
                 \A r \in Members(Tail(q)) : r.event # "established"
<1>1. /\ Len(q) \in Nat /\ Len(q) > 0 /\ Len(Tail(q)) = Len(q) - 1 /\ Head(q) = q[1]
      /\ \A i \in 1..Len(Tail(q)) : Tail(q)[i] = q[i + 1] /\ i + 1 \in 1..Len(q)
  OBVIOUS
<1> QED
  BY <1>1 DEF EstablishedOnce, Members

LEMMA InitInv == Init => Inv
<1> SUFFICES ASSUME Init PROVE Inv
  OBVIOUS
<1> USE SipAudioCallAssumption
<1>1. reports \in Seq(Report) /\ Len(reports) = 0
  BY DEF Init
<1>2. Members(reports) = {}
  BY <1>1 DEF Members
<1>3. TypeOK
  <2>1. todo \in Seq({"startAudio", "toggleMute"})
    BY DEF Init
  <2>2. call \in Calls /\ sess \in [Sessions -> SessionRecord]
    BY DEF Init, Calls, SessionRecord, Modes, States, Descriptions
  <2> QED
    BY <1>1, <2>1, <2>2 DEF Init, TypeOK, Calls, SessionRecord, Report
<1>4. ~Underway(Ended) /\ ~Underway({"established"}) /\ ~Underway({"busy", "failed"})
      /\ ~Underway({"busy"}) /\ ~Underway({"ringing"}) /\ ~Underway({"transferring"})
  BY <1>2 DEF Underway
<1>5. CommonInv /\ AudioInv
  BY <1>2, <1>4 DEF Init, CommonInv, AudioInv, AudioIn, ModeFits
<1>6. AloneInv /\ ClosedInv /\ HoldInv
  BY <1>4 DEF Init, AloneInv, ClosedInv, HoldInv, Young
<1>7. TalkInv
  BY <1>1, <1>4 DEF Init, TalkInv, EstablishedOnce
<1> QED
  BY <1>3, <1>5, <1>6, <1>7 DEF Inv

LEMMA ReportsFacts ==
    ASSUME TypeOK, NEW s \in Sessions, NEW event \in Events, NEW sd \in Descriptions,
           NEW r \in SessionRecord, Reports(s, event, sd, r)
    PROVE  /\ TypeOK'
           /\ sess'[s] = r /\ \A t \in Sessions \ {s} : sess'[t] = sess[t]
           /\ \A x \in Members(reports)' \ Members(reports) :
                 x = [event |-> event, of |-> s, sd |-> sd]
           /\ Members(reports) \subseteq Members(reports)'
           /\ sess[s].listens => [event |-> event, of |-> s, sd |-> sd] \in Members(reports)'
           /\ ~sess[s].listens => reports' = reports
           /\ EstablishedOnce(reports) /\ (event = "established" => ~Underway({event}))
                 => EstablishedOnce(reports)'
           /\ UNCHANGED <<cfg, call, todo, touch, closed>>
<1> DEFINE x == [event |-> event, of |-> s, sd |-> sd]
<1>1. x \in Report /\ reports \in Seq(Report)
  BY DEF TypeOK, Report
<1>2. CASE sess[s].listens
  <2>1. reports' = Append(reports, x)
    BY <1>2 DEF Reports
  <2>2. reports' \in Seq(Report) /\ Members(reports)' = Members(reports) \cup {x}
    BY <1>1, <2>1, MembersAppend
  <2>3. EstablishedOnce(reports) /\ (event = "established" => ~Underway({event}))
                 => EstablishedOnce(reports)'
    BY <1>1, <2>1, OnceAppend DEF Underway
  <2>4. TypeOK'
    BY <2>2 DEF Reports, TypeOK, Report, SessionRecord
  <2> QED
    BY <1>2, <2>2, <2>3, <2>4 DEF Reports, TypeOK
<1>3. CASE ~sess[s].listens
  <2>1. reports' = reports
    BY <1>3 DEF Reports
  <2>2. Members(reports)' = Members(reports) /\ EstablishedOnce(reports)' = EstablishedOnce(reports)
    BY <2>1
  <2>3. TypeOK'
    BY <2>1 DEF Reports, TypeOK, SessionRecord
  <2> QED
    BY <1>3, <2>1, <2>2, <2>3 DEF Reports, TypeOK
<1> QED
  BY <1>2, <1>3

\* What the SIP service may report of s, which then is r.
Reportable(s, event, r) ==
    /\ sess[s].state # "free"
    /\ r.listens = sess[s].listens
    /\ event = "busy" => "busy" \in cfg.refusals
    /\ event = "ringing" => "reinvite" \in cfg.changes
    /\ event \in {"busy", "failed"} => sess[s].state = "calling"
    /\ \/ event \in Ended /\ r.state = "ended"
       \/ event = "ringing" /\ r = sess[s] /\ r.state = "incall"
       \/ event = "established" /\ sess[s].state \in {"calling", "changing"}
          /\ r.state = "incall" /\ r.asks = sess[s].asks /\ r.held = sess[s].asks
       \/ event = "changeFailed" /\ sess[s].state = "changing"
          /\ r.state = "incall" /\ "change" \in cfg.refusals

LEMMA ReportStep ==
    ASSUME Inv, NEW s \in Sessions, NEW event \in Events, NEW sd \in Descriptions,
           NEW r \in SessionRecord, Reports(s, event, sd, r), Reportable(s, event, r)
    PROVE  Inv'
<1> USE SipAudioCallAssumption
<1> DEFINE x == [event |-> event, of |-> s, sd |-> sd]
<1>1. /\ TypeOK /\ TypeOK' /\ sess'[s] = r /\ \A t \in Sessions \ {s} : sess'[t] = sess[t]
      /\ cfg' = cfg /\ call' = call /\ todo' = todo /\ touch' = touch /\ closed' = closed
  BY ReportsFacts DEF Inv
<1>13. call.session \in Sessions \cup {Null}
  BY DEF Inv, TypeOK
<1>12. /\ \A y \in Members(reports)' \ Members(reports) : y = x
       /\ Members(reports) \subseteq Members(reports)'
       /\ sess[s].listens => x \in Members(reports)'
       /\ ~sess[s].listens => reports' = reports
       /\ EstablishedOnce(reports) /\ (event = "established" => ~Underway({event}))
             => EstablishedOnce(reports)'
  BY ReportsFacts DEF Inv
<1>2. /\ r.state \notin {"free", "ringing", "calling", "changing"} /\ sess[s].state # "free"
      /\ r.listens = sess[s].listens
  BY DEF Reportable
<1>3. ASSUME NEW E, Underway(E)' PROVE Underway(E) \/ event \in E
  BY <1>12, <1>3 DEF Underway
<1>4. ASSUME NEW E, Underway(E) \/ (event \in E /\ sess[s].listens) PROVE Underway(E)'
  BY <1>12, <1>4 DEF Underway
<1>5. CommonInv'
  <2>1. \A y \in Members(reports)' : sess'[y.of].state # "free"
    <3> SUFFICES ASSUME NEW y \in Members(reports)' PROVE sess'[y.of].state # "free"
      OBVIOUS
    <3>1. CASE y = x
      BY <3>1, <1>1, <1>2
    <3>2. CASE y \in Members(reports)
      <4>1. y.of \in Sessions
        BY <3>2, MembersEmpty DEF Inv, TypeOK, Report
      <4> QED
        BY <3>2, <4>1, <1>1, <1>2 DEF Inv, CommonInv
    <3> QED
      BY <3>1, <3>2, <1>12
  <2>2. /\ "busy" \notin cfg.refusals => ~Underway({"busy"})'
        /\ "reinvite" \notin cfg.changes => ~Underway({"ringing"})'
    BY <1>3 DEF Inv, CommonInv, Reportable
  <2>3. /\ call.session # Null => sess'[call.session].state # "free"
        /\ \A t \in Sessions : sess'[t].state = "free" => ~sess'[t].asks /\ ~sess'[t].held
    BY <1>1, <1>13, <1>2 DEF Inv, CommonInv, Session
  <2> QED
    BY <1>1, <2>1, <2>2, <2>3 DEF Inv, CommonInv, Session
<1>6. /\ ~AllFree /\ ~AllFree' /\ (Finished => Finished')
      /\ event # "established" => (Young => Young')
  BY <1>1, <1>2, <1>3 DEF AllFree, Finished, Young
<1>7. AudioInv'
  <2>1. CASE event # "established"
    BY <1>1, <1>6, <2>1 DEF Inv, AudioInv, AudioIn, ModeFits, Mode, Alone, BusyTransfer
  <2>2. CASE event = "established"
    <3>1. sess[s].state \in {"calling", "changing"}
      BY <2>2 DEF Reportable, Ended
    <3> QED
      BY <1>1, <3>1 DEF Inv, AudioInv, AudioIn, ModeFits, Mode, Finished, BusyTransfer
  <2> QED
    BY <2>1, <2>2
<1>8. AloneInv'
  <2> SUFFICES ASSUME Alone PROVE AloneInv'
    BY <1>1 DEF AloneInv, Alone
  <2>1. /\ \A t, u \in Sessions :
              sess'[t].state # "free" /\ sess'[u].state # "free" => t = u
        /\ \A t \in Sessions : sess'[t].listens <=> t = call.session
        /\ \A t \in Sessions : sess'[t].state \notin {"ringing", "calling", "changing"}
        /\ call.session # Null => call.session = s /\ sess[s].listens
    BY <1>1, <1>13, <1>2 DEF Inv, AloneInv, CommonInv, Session
  <2>2. call.transferring = Null /\ ~Underway({"transferring"})'
    BY <1>3 DEF Inv, AloneInv, Reportable, Ended
  <2>3. Finished'
    BY <2>1, <1>6 DEF Finished
  <2>4. Underway({"busy", "failed"})' => Young'
    <3>1. CASE event \in {"busy", "failed"}
      BY <3>1, <1>6 DEF Inv, AloneInv, Reportable
    <3>2. CASE event = "established"
      BY <3>2, <1>3 DEF Inv, AloneInv, Reportable, Ended, Finished
    <3>3. CASE event \notin {"busy", "failed", "established"}
      BY <3>3, <1>3, <1>6 DEF Inv, AloneInv
    <3> QED
      BY <3>1, <3>2, <3>3
  <2>5. call.session # Null /\ r.state = "ended" => Underway(Ended)'
    BY <2>1, <1>4 DEF Reportable
  <2> QED
    BY <1>1, <1>6, <2>1, <2>2, <2>3, <2>4, <2>5, <1>13 DEF AloneInv, AllFree, Session
<1>9. ClosedInv'
  BY <1>1, <1>12 DEF Inv, AloneInv, ClosedInv, Alone
<1>10. HoldInv'
  <2> SUFFICES ASSUME Alone, ~cfg.rash, call.session # Null,
                      "change" \notin cfg.refusals, "reinvite" \notin cfg.changes
               PROVE  HoldInv'
    BY <1>1 DEF HoldInv, Alone
  <2>1. s = call.session
    BY <1>13, <1>2 DEF Inv, AloneInv, CommonInv, Session
  <2>2. \/ r.state = "ended"
        \/ r.asks = sess[s].asks /\ r.held = sess[s].asks /\ sess[s].state \in {"calling", "changing"}
    BY DEF Reportable
  <2>3. CASE r.state = "ended"
    BY <2>1, <2>3, <1>1 DEF HoldInv
  <2>4. CASE r.state # "ended"
    <3>1. call.hold \in BOOLEAN /\ sess[s].asks \in BOOLEAN
      BY DEF Inv, TypeOK
    <3>2. sess[s].asks = call.hold
      BY <2>1, <2>2, <2>4, <3>1 DEF Inv, HoldInv
    <3> QED
      BY <2>1, <2>2, <2>4, <3>2, <1>1, <1>2 DEF HoldInv
  <2> QED
    BY <2>3, <2>4
<1>11. TalkInv'
  <2> SUFFICES ASSUME Alone, ~cfg.rash, cfg.changes = {} PROVE TalkInv'
    BY <1>1 DEF TalkInv, Alone
  <2>1. CASE event = "established"
    <3>1. sess[s].state = "calling"
      BY <2>1 DEF Reportable, Ended, Inv, TalkInv
    <3>2. ~Underway({"established"}) /\ todo = <<>>
      BY <3>1 DEF Inv, AloneInv, Young
    <3> QED
      BY <1>1, <1>12, <1>2, <3>1, <3>2, <2>1 DEF Inv, TalkInv
  <2>2. CASE event # "established"
    BY <1>1, <1>12, <1>2, <1>3, <1>6, <2>2 DEF Inv, TalkInv
  <2> QED
    BY <2>1, <2>2
<1> QED
  BY <1>1, <1>5, <1>7, <1>8, <1>9, <1>10, <1>11 DEF Inv

LEMMA ServiceStep ==
    ASSUME Inv, NEW s \in Sessions,
           \/ SessionAnswered(s) \/ SessionRefused(s) \/ SessionEnds(s) \/ PeerReinvites(s)
    PROVE  Inv'
<1> DEFINE r(state) == [sess[s] EXCEPT !.state = state]
<1>1. /\ sess[s] \in SessionRecord
      /\ r("ended") \in SessionRecord /\ r("ended").state = "ended"
      /\ r("ended").listens = sess[s].listens
  BY DEF Inv, TypeOK, SessionRecord, States
<1>2. CASE SessionAnswered(s)
  <2> PICK sd \in {"good", "bad"} :
          Reports(s, "established", sd, [r("incall") EXCEPT !.held = sess[s].asks])
    BY <1>2 DEF SessionAnswered
  <2> DEFINE a == [r("incall") EXCEPT !.held = sess[s].asks]
  <2>1. /\ a \in SessionRecord /\ a.state = "incall" /\ a.listens = sess[s].listens
        /\ a.asks = sess[s].asks /\ a.held = sess[s].asks
    BY <1>1 DEF SessionRecord, States
  <2>2. Reports(s, "established", sd, a)
    OBVIOUS
  <2> HIDE DEF a
  <2>3. Reportable(s, "established", a)
    BY <1>2, <2>1 DEF Reportable, SessionAnswered
  <2> QED
    BY <2>1, <2>2, <2>3, ReportStep DEF Descriptions, Events
<1>3. CASE SessionRefused(s)
  <2>1. CASE /\ sess[s].state = "calling"
             /\ \E event \in cfg.refusals \ {"change"} : Reports(s, event, "none", r("ended"))
    <3> PICK event \in cfg.refusals \ {"change"} : Reports(s, event, "none", r("ended"))
      BY <2>1
    <3>1. event \in {"busy", "failed"}
      BY SipAudioCallAssumption DEF Inv, TypeOK, Setting
    <3> HIDE DEF r
    <3>2. Reportable(s, event, r("ended"))
      BY <1>1, <2>1, <3>1 DEF Reportable, Ended
    <3> QED
      BY <1>1, <3>1, <3>2, ReportStep DEF Descriptions, Events
  <2>2. CASE /\ sess[s].state = "changing" /\ "change" \in cfg.refusals
             /\ Reports(s, "changeFailed", "none", [r("incall") EXCEPT !.asks = sess[s].held])
    <3> DEFINE a == [r("incall") EXCEPT !.asks = sess[s].held]
    <3>1. a \in SessionRecord /\ a.state = "incall" /\ a.listens = sess[s].listens
      BY <1>1 DEF SessionRecord, States
    <3>2. Reports(s, "changeFailed", "none", a)
      BY <2>2
    <3> HIDE DEF a
    <3>3. Reportable(s, "changeFailed", a)
      BY <2>2, <3>1 DEF Reportable
    <3> QED
      BY <3>1, <3>2, <3>3, ReportStep DEF Descriptions, Events
  <2> QED
    BY <1>3, <2>1, <2>2 DEF SessionRefused
<1>4. CASE SessionEnds(s)
  <2> PICK event \in {"ended", "lost"} : Reports(s, event, "none", r("ended"))
    BY <1>4 DEF SessionEnds
  <2> HIDE DEF r
  <2>1. Reportable(s, event, r("ended"))
    BY <1>1, <1>4 DEF Reportable, Ended, SessionEnds
  <2> QED
    BY <1>1, <2>1, ReportStep DEF Descriptions, Events
<1>5. CASE PeerReinvites(s)
  <2> PICK sd \in {"good", "bad"} : Reports(s, "ringing", sd, sess[s])
    BY <1>5 DEF PeerReinvites
  <2>1. Reportable(s, "ringing", sess[s])
    BY <1>5 DEF Reportable, PeerReinvites
  <2> QED
    BY <1>1, <2>1, ReportStep DEF Descriptions, Events
<1> QED
  BY <1>2, <1>3, <1>4, <1>5

LEMMA RefersStep ==
    ASSUME Inv, NEW s \in Sessions, NEW t \in Sessions, PeerRefers(s, t)
    PROVE  Inv'
<1> USE SipAudioCallAssumption
<1> DEFINE x == [event |-> "transferring", of |-> t, sd |-> "none"]
<1>1. /\ cfg' = cfg /\ call' = call /\ todo' = todo /\ touch' = touch /\ closed' = closed
      /\ cfg.transfers /\ sess[t].state = "free" /\ reports' = Append(reports, x)
  BY DEF PeerRefers
<1>2. x \in Report /\ reports \in Seq(Report) /\ call.session \in Sessions \cup {Null}
  BY DEF Inv, TypeOK, Report, Events, Descriptions
<1>3. reports' \in Seq(Report) /\ Members(reports)' = Members(reports) \cup {x}
  BY <1>1, <1>2, MembersAppend
<1>4. /\ sess' \in [Sessions -> SessionRecord] /\ sess'[t].state = "ringing"
      /\ \A u \in Sessions \ {t} : sess'[u] = sess[u]
  <2>1. sess \in [Sessions -> SessionRecord]
    BY DEF Inv, TypeOK, SessionRecord
  <2>2. sess' = [sess EXCEPT ![t].state = "ringing", ![t].listens = TRUE]
    BY DEF PeerRefers
  <2> QED
    BY <2>1, <2>2 DEF SessionRecord, States
<1>5. TypeOK'
  BY <1>1, <1>3, <1>4 DEF Inv, TypeOK, Report, SessionRecord
<1>6. CommonInv'
  <2>1. Members(reports) \subseteq Report
    BY <1>2, MembersEmpty
  <2>2. \A y \in Members(reports)' : sess'[y.of].state # "free"
    BY <1>3, <1>4, <2>1 DEF Inv, CommonInv, Report
  <2>3. /\ "busy" \notin cfg.refusals => ~Underway({"busy"})'
        /\ "reinvite" \notin cfg.changes => ~Underway({"ringing"})'
    BY <1>3 DEF Inv, CommonInv, Underway
  <2>4. /\ call.session # Null => sess'[call.session].state # "free"
        /\ \A u \in Sessions : sess'[u].state = "free" => ~sess'[u].asks /\ ~sess'[u].held
    BY <1>2, <1>4 DEF Inv, CommonInv, Session
  <2> QED
    BY <1>1, <2>2, <2>3, <2>4 DEF Inv, CommonInv, Session
<1>7. AudioInv'
  BY <1>1 DEF Inv, AudioInv, Alone, AudioIn, ModeFits, Mode, BusyTransfer
<1>8. AloneInv' /\ ClosedInv' /\ HoldInv' /\ TalkInv'
  BY <1>1 DEF AloneInv, ClosedInv, HoldInv, TalkInv, Alone
<1> QED
  BY <1>5, <1>6, <1>7, <1>8 DEF Inv
-----------------------------------------------------------------------------
(* The steps of the user.                                                  *)

LEMMA SameReports ==
    ASSUME reports' = reports
    PROVE  /\ Members(reports)' = Members(reports)
           /\ EstablishedOnce(reports)' = EstablishedOnce(reports)
           /\ \A E : Underway(E)' <=> Underway(E)
  BY DEF Members, EstablishedOnce, Underway

LEMMA StartStep ==
    ASSUME Inv, NEW s \in Sessions, MakeCall(s) \/ AttachCall(s)
    PROVE  Inv'
<1> USE SipAudioCallAssumption
<1>1. /\ cfg' = cfg /\ todo' = todo /\ touch' = touch /\ closed' = closed
      /\ reports' = reports /\ AllFree /\ ~closed
  BY DEF MakeCall, AttachCall, AllFree
<1>2. /\ call \in Calls /\ call' \in Calls /\ call'.session = s
      /\ call'.transferring = call.transferring /\ call'.inCall = call.inCall
      /\ call'.muted = call.muted /\ call'.hold = call.hold /\ call'.wifi = call.wifi
      /\ call'.mode = call.mode
      /\ call'.stream = call.stream \/ call'.stream = "new"
  <2>1. call \in Calls
    BY DEF Inv, TypeOK, Calls
  <2>2. \/ call' = [call EXCEPT !.session = s, !.stream = "new"]
        \/ \E sd \in Descriptions : call' = [call EXCEPT !.session = s, !.peerSd = sd]
    BY DEF MakeCall, AttachCall, Descriptions
  <2> QED
    BY <2>1, <2>2 DEF Calls
<1>3. /\ sess' \in [Sessions -> SessionRecord] /\ sess'[s].state \in {"ringing", "calling"}
      /\ sess'[s].listens /\ sess'[s].held = sess[s].held /\ sess'[s].asks = sess[s].asks
      /\ \A t \in Sessions \ {s} : sess'[t] = sess[t]
  <2>1. sess \in [Sessions -> SessionRecord]
    BY DEF Inv, TypeOK, SessionRecord
  <2>2. PICK state \in {"ringing", "calling"} :
           sess' = [sess EXCEPT ![s].state = state, ![s].listens = TRUE]
    BY DEF MakeCall, AttachCall
  <2>3. /\ sess[s] \in SessionRecord /\ state \in States
        /\ sess'[s] = [sess[s] EXCEPT !.state = state, !.listens = TRUE]
        /\ \A t \in Sessions \ {s} : sess'[t] = sess[t]
    BY <2>1, <2>2 DEF States
  <2>4. /\ sess'[s] \in SessionRecord /\ sess'[s].state = state /\ sess'[s].listens
        /\ sess'[s].held = sess[s].held /\ sess'[s].asks = sess[s].asks
    BY <2>3 DEF SessionRecord
  <2>5. sess' \in [Sessions -> SessionRecord]
    BY <2>1, <2>2, <2>3, <2>4
  <2> QED
    BY <2>3, <2>4, <2>5
<1>4. /\ call.session = Null /\ ~call.hold /\ ~sess[s].held /\ ~sess[s].asks
  BY <1>1, <1>2 DEF Inv, CommonInv, Session, AllFree, Calls
<1>5. Members(reports) = {} /\ \A E : ~Underway(E)
  <2>1. Members(reports) \subseteq Report
    BY MembersEmpty DEF Inv, TypeOK, Report
  <2>2. Members(reports) = {}
    BY <1>1, <2>1 DEF Inv, CommonInv, AllFree, Report
  <2> QED
    BY <2>2 DEF Underway
<1>6. Members(reports)' = {} /\ \A E : ~Underway(E)'
  BY <1>1, <1>5, SameReports
<1>7. TypeOK'
  BY <1>1, <1>2, <1>3 DEF Inv, TypeOK, Calls, SessionRecord
<1>8. CommonInv'
  BY <1>1, <1>2, <1>3, <1>4, <1>6 DEF Inv, CommonInv, Session
<1>9. ~BusyTransfer /\ ~Alone => call.stream = "none"
  BY <1>4 DEF Inv, AudioInv
<1>10. Alone => Young /\ Young'
  BY <1>1, <1>2, <1>6 DEF Inv, AloneInv, Young
<1>11. AudioInv'
  BY <1>1, <1>2, <1>9, <1>10 DEF Inv, AudioInv, AudioIn, ModeFits, Mode, Alone, BusyTransfer, Young
<1>12. AloneInv'
  BY <1>1, <1>2, <1>3, <1>4, <1>6, <1>10 DEF Inv, AloneInv, Alone, AllFree, Session
<1>13. ClosedInv' /\ HoldInv'
  BY <1>1, <1>2, <1>3, <1>4 DEF ClosedInv, HoldInv
<1>14. TalkInv'
  BY <1>1, <1>2, <1>3, <1>4, <1>6, SameReports DEF Inv, TalkInv, Alone
<1> QED
  BY <1>7, <1>8, <1>11, <1>12, <1>13, <1>14 DEF Inv

LEMMA AnswerStep ==
    ASSUME Inv, AnswerCall
    PROVE  Inv'
<1> USE SipAudioCallAssumption
<1> DEFINE s == call.session
<1>1. /\ cfg' = cfg /\ todo' = todo /\ touch' = touch /\ closed' = closed
      /\ reports' = reports /\ s \in Sessions /\ sess[s].state = "ringing"
      /\ call.stream = "none"
  BY DEF AnswerCall, Inv, TypeOK
<1>2. /\ call \in Calls /\ call' \in Calls /\ call'.session = s
      /\ call'.transferring = call.transferring /\ call'.inCall = call.inCall
      /\ call'.muted = call.muted /\ call'.hold = call.hold /\ call'.wifi = call.wifi
      /\ call'.stream = "new"
  BY DEF AnswerCall, Inv, TypeOK, Calls
<1>3. /\ sess' \in [Sessions -> SessionRecord] /\ sess'[s].state \in {"ringing", "calling"}
      /\ sess'[s].listens = sess[s].listens
      /\ sess'[s].held = sess[s].held /\ sess'[s].asks = sess[s].asks
      /\ \A t \in Sessions \ {s} : sess'[t] = sess[t]
  BY <1>1 DEF AnswerCall, Set, Inv, TypeOK, SessionRecord, States
<1> HIDE DEF s
<1>4. /\ Members(reports)' = Members(reports) /\ EstablishedOnce(reports)' = EstablishedOnce(reports)
      /\ \A E : Underway(E)' <=> Underway(E)
  BY <1>1, SameReports
<1>5. TypeOK'
  BY <1>1, <1>2, <1>3 DEF Inv, TypeOK, Calls, SessionRecord
<1>6. CommonInv'
  <2>1. Members(reports) \subseteq Report
    BY MembersEmpty DEF Inv, TypeOK, Report
  <2>2. \A y \in Members(reports)' : sess'[y.of].state # "free"
    BY <1>1, <1>3, <1>4, <2>1 DEF Inv, CommonInv, Report
  <2> QED
    BY <1>1, <1>2, <1>3, <1>4, <2>2 DEF Inv, CommonInv, Session, s
<1>7. Young => Young'
  BY <1>1, <1>2, <1>4 DEF Young
<1>8. AudioInv'
  BY <1>1, <1>2 DEF Inv, AudioInv, AudioIn, ModeFits, Mode, BusyTransfer
<1>9. AloneInv'
  BY <1>1, <1>2, <1>3, <1>4, <1>7 DEF Inv, AloneInv, Alone, AllFree, Finished, Session, s
<1>10. ClosedInv' /\ HoldInv'
  BY <1>1, <1>2, <1>3 DEF Inv, ClosedInv, HoldInv, Alone, s
<1>11. TalkInv'
  BY <1>1, <1>2, <1>3, <1>4 DEF Inv, TalkInv, Alone, AllFree
<1> QED
  BY <1>5, <1>6, <1>8, <1>9, <1>10, <1>11 DEF Inv

\* What the steps have in common that start no session and end none: at most
\* they take the listener from the session of the call, which then has none.
SameSessions ==
    /\ Silenced /\ cfg' = cfg /\ touch' = touch
    /\ \/ call'.session = call.session /\ call'.hold = call.hold
       \/ call'.session = Null /\ ~call'.hold

LEMMA SameSessionsFacts ==
    ASSUME Inv, SameSessions, call' \in Calls, closed' \in BOOLEAN,
           reports' \in Seq(Report), Members(reports)' \subseteq Members(reports),
           todo' \in {<<>>, <<"startAudio", "toggleMute">>, <<"toggleMute">>},
           Young => Young',
           Alone => call'.transferring = Null,
           Alone /\ call'.session # Null /\ Session = "ended" => Underway(Ended)'
    PROVE  /\ TypeOK' /\ CommonInv' /\ AloneInv' /\ HoldInv'
           /\ \A t \in Sessions : sess'[t].state = sess[t].state
           /\ AllFree' = AllFree /\ Finished' = Finished
           /\ \A E : Underway(E)' => Underway(E)
<1> USE SipAudioCallAssumption
<1>1. cfg' = cfg /\ touch' = touch /\ call.session \in Sessions \cup {Null}
      /\ call'.session \in Sessions \cup {Null}
  BY DEF SameSessions, Inv, TypeOK, Calls
<1>2. /\ sess' \in [Sessions -> SessionRecord]
      /\ \A t \in Sessions :
            /\ sess'[t].state = sess[t].state
            /\ sess'[t].held = sess[t].held /\ sess'[t].asks = sess[t].asks
            /\ sess'[t].listens <=>
                  sess[t].listens /\ ~(t = call.session /\ call'.session = Null)
  <2>1. CASE call.session # Null /\ call'.session = Null
    <3>1. sess' = [sess EXCEPT ![call.session].listens = FALSE]
      BY <2>1 DEF SameSessions, Silenced
    <3>2. sess \in [Sessions -> SessionRecord] /\ call.session \in Sessions
      BY <1>1, <2>1 DEF Inv, TypeOK, SessionRecord
    <3>3. sess' \in [Sessions -> SessionRecord] /\ ~sess'[call.session].listens
      BY <3>1, <3>2 DEF SessionRecord
    <3>4. \A t \in Sessions :
            /\ sess'[t].state = sess[t].state
            /\ sess'[t].held = sess[t].held /\ sess'[t].asks = sess[t].asks
            /\ t # call.session => sess'[t].listens = sess[t].listens
      BY <3>1, <3>2 DEF SessionRecord
    <3> QED
      BY <2>1, <3>3, <3>4
  <2>2. CASE ~(call.session # Null /\ call'.session = Null)
    <3>1. sess' = sess
      BY <2>2 DEF SameSessions, Silenced
    <3>2. sess \in [Sessions -> SessionRecord]
      BY DEF Inv, TypeOK, SessionRecord
    <3> QED
      BY <1>1, <2>2, <3>1, <3>2
  <2> QED
    BY <2>1, <2>2
<1>3. AllFree' = AllFree /\ Finished' = Finished
  BY <1>2 DEF AllFree, Finished
<1>4. \A E : Underway(E)' => Underway(E)
  BY DEF Underway
<1>5. TypeOK'
  <2> DEFINE calls == {"startAudio", "toggleMute"}
  <2>1. <<>> \in Seq(calls) /\ <<"startAudio", "toggleMute">> \in Seq(calls)
        /\ <<"toggleMute">> \in Seq(calls)
    OBVIOUS
  <2>2. todo' \in Seq(calls)
    BY <2>1
  <2> QED
    BY <1>1, <1>2, <2>2 DEF Inv, TypeOK, Calls, SessionRecord, Report
<1>6. CommonInv'
  <2>1. Members(reports) \subseteq Report
    BY MembersEmpty DEF Inv, TypeOK, Report
  <2>2. \A y \in Members(reports)' : sess'[y.of].state # "free"
    BY <1>2, <2>1 DEF Inv, CommonInv, Report
  <2> QED
    BY <1>1, <1>2, <1>4, <2>2 DEF Inv, CommonInv, Session, SameSessions
<1>7. AloneInv'
  <2> SUFFICES ASSUME Alone PROVE AloneInv'
    BY <1>1 DEF AloneInv, Alone
  <2>1. \A t \in Sessions : sess'[t].listens <=> t = call'.session
    BY <1>1, <1>2 DEF Inv, AloneInv, SameSessions
  <2> QED
    BY <1>1, <1>2, <1>3, <1>4, <2>1 DEF Inv, AloneInv, Session, SameSessions
<1>8. HoldInv'
  BY <1>1, <1>2 DEF Inv, HoldInv, Alone, SameSessions
<1> QED
  BY <1>2, <1>3, <1>4, <1>5, <1>6, <1>7, <1>8

LEMMA CloseStep ==
    ASSUME Inv, CloseCall
    PROVE  Inv'
<1> USE SipAudioCallAssumption
<1>1. /\ cfg' = cfg /\ todo' = todo /\ touch' = touch /\ closed'
      /\ reports' = reports /\ Silenced /\ Settled
      /\ call' = Close(call, TRUE)
  BY DEF CloseCall
<1>2. /\ call \in Calls /\ call' \in Calls /\ Closed(call, call')
      /\ call'.transferring = call.transferring /\ call'.muted = call.muted
  BY <1>1, CloseFacts DEF Inv, TypeOK, Calls, Closed
<1>3. /\ Members(reports)' = Members(reports) /\ EstablishedOnce(reports)' = EstablishedOnce(reports)
      /\ \A E : Underway(E)' <=> Underway(E)
  BY <1>1, SameReports
<1>4. Young => Young'
  BY <1>1, <1>2, <1>3 DEF Young, Closed
<1>5. /\ TypeOK' /\ CommonInv' /\ AloneInv' /\ HoldInv'
      /\ \A t \in Sessions : sess'[t].state = sess[t].state
      /\ AllFree' = AllFree /\ Finished' = Finished
  <2>1. SameSessions /\ reports' \in Seq(Report) /\ Members(reports)' \subseteq Members(reports)
    BY <1>1, <1>2, <1>3 DEF SameSessions, Closed, Inv, TypeOK, Report
  <2>2. todo' \in {<<>>, <<"startAudio", "toggleMute">>, <<"toggleMute">>}
    BY <1>1 DEF Inv, CommonInv
  <2>3. Alone => call'.transferring = Null
    BY <1>2 DEF Inv, AloneInv
  <2>4. call'.session = Null
    BY <1>2 DEF Closed
  <2> QED
    BY <1>1, <1>2, <1>4, <2>1, <2>2, <2>3, <2>4, SameSessionsFacts
<1>6. AudioInv'
  BY <1>2 DEF AudioInv, AudioIn, ModeFits, Closed
<1>7. ClosedInv'
  BY <1>1, <1>2 DEF ClosedInv, Closed, Settled
<1>8. TalkInv'
  BY <1>1, <1>2, <1>3, <1>5 DEF Inv, TalkInv, Alone, Closed
<1> QED
  BY <1>5, <1>6, <1>7, <1>8 DEF Inv

LEMMA EndStep ==
    ASSUME Inv, EndCall
    PROVE  Inv'
<1> USE SipAudioCallAssumption
<1> DEFINE s == call.session
           x == [event |-> "ended", of |-> s, sd |-> "none"]
<1>1. /\ cfg' = cfg /\ todo' = todo /\ touch' = touch /\ closed' = closed
      /\ call' = [StopCall(call, TRUE) EXCEPT !.inCall = FALSE]
  BY DEF EndCall
<1>2. /\ call \in Calls /\ call' \in Calls /\ call'.session = s
      /\ call'.transferring = call.transferring /\ ~call'.inCall
      /\ call'.muted = call.muted /\ call'.hold = call.hold /\ ~call'.wifi
      /\ call'.stream = "none"
  <2> DEFINE e == StopCall(call, TRUE)
  <2>1. call \in Calls
    BY DEF Inv, TypeOK, Calls
  <2>2. /\ e \in Calls /\ ~e.wifi /\ e.stream = "none" /\ e.session = s /\ e.hold = call.hold
        /\ e.transferring = call.transferring /\ e.muted = call.muted
    BY <2>1, StopCallFacts
  <2> HIDE DEF e
  <2>3. call' = [e EXCEPT !.inCall = FALSE]
    BY <1>1 DEF e
  <2> QED
    BY <2>1, <2>2, <2>3 DEF Calls
<1>3. s \in Sessions \cup {Null} /\ reports \in Seq(Report)
  BY <1>2 DEF Calls, Inv, TypeOK, Report
<1>4. AudioInv'
  BY <1>2 DEF AudioInv, AudioIn, ModeFits
<1>5. CASE s = Null
  <2>1. reports' = reports /\ sess' = sess
    BY <1>5 DEF EndCall
  <2>2. /\ Members(reports)' = Members(reports) /\ EstablishedOnce(reports)' = EstablishedOnce(reports)
        /\ \A E : Underway(E)' <=> Underway(E)
    BY <2>1, SameReports
  <2>3. TypeOK'
    BY <1>1, <1>2, <2>1 DEF Inv, TypeOK, Calls
  <2>4. CommonInv'
    BY <1>1, <1>2, <1>5, <2>1, <2>2 DEF Inv, CommonInv
  <2>5. Young => Young'
    BY <1>1, <1>2, <2>2 DEF Young
  <2>6. AloneInv'
    BY <1>1, <1>2, <1>5, <2>1, <2>2, <2>5 DEF Inv, AloneInv, Alone, AllFree, Finished
  <2>7. ClosedInv' /\ HoldInv'
    BY <1>1, <1>2, <1>5, <2>1 DEF Inv, ClosedInv, HoldInv, Alone
  <2>8. TalkInv'
    BY <1>1, <1>2, <2>1, <2>2 DEF Inv, TalkInv, Alone, AllFree
  <2> QED
    BY <1>4, <2>3, <2>4, <2>6, <2>7, <2>8 DEF Inv
<1>6. CASE s # Null
  <2>1. s \in Sessions /\ sess[s].state # "free"
    BY <1>3, <1>6 DEF Inv, CommonInv, Session
  <2>2. x \in Report /\ x.event = "ended" /\ x.of = s
    BY <2>1 DEF Report, Events, Descriptions
  <2>3. /\ sess' \in [Sessions -> SessionRecord] /\ sess'[s].state = "ended"
        /\ sess'[s].listens = sess[s].listens
        /\ \A t \in Sessions \ {s} : sess'[t] = sess[t]
    <3>1. sess' = [sess EXCEPT ![s].state = "ended"]
      BY <1>6 DEF EndCall, Set
    <3>2. sess \in [Sessions -> SessionRecord] /\ "ended" \in States
      BY DEF Inv, TypeOK, SessionRecord, States
    <3> HIDE DEF s
    <3> QED
      BY <2>1, <3>1, <3>2 DEF SessionRecord
  <2>4. /\ reports' \in Seq(Report)
        /\ Members(reports)' \subseteq Members(reports) \cup {x}
        /\ Members(reports) \subseteq Members(reports)'
        /\ sess[s].state = "ended" \/ x \in Members(reports)'
        /\ EstablishedOnce(reports) => EstablishedOnce(reports)'
    <3>1. CASE sess[s].state = "ended"
      <4>1. reports' = reports
        BY <1>6, <3>1 DEF EndCall
      <4> QED
        BY <1>3, <3>1, <4>1, SameReports
    <3>2. CASE sess[s].state # "ended"
      <4>1. reports' = Append(reports, x)
        BY <1>6, <3>2 DEF EndCall
      <4> HIDE DEF x
      <4> QED
        BY <1>3, <2>2, <4>1, MembersAppend, OnceAppend
    <3> QED
      BY <3>1, <3>2
  <2> HIDE DEF s, x
  <2>5. ASSUME NEW E, Underway(E)' PROVE Underway(E) \/ "ended" \in E
    BY <2>2, <2>4, <2>5 DEF Underway
  <2>6. TypeOK'
    BY <1>1, <1>2, <2>3, <2>4 DEF Inv, TypeOK, Calls, SessionRecord, Report
  <2>7. CommonInv'
    <3>1. Members(reports) \subseteq Report
      BY <1>3, MembersEmpty
    <3>2. \A y \in Members(reports)' : sess'[y.of].state # "free"
      BY <2>2, <2>3, <2>4, <3>1 DEF Inv, CommonInv, Report
    <3> QED
      BY <1>1, <1>2, <1>6, <2>1, <2>3, <2>5, <3>2 DEF Inv, CommonInv, Session, s
  <2>8. /\ Young => Young'
        /\ ~AllFree /\ ~AllFree'
        /\ Finished => Finished'
    BY <1>1, <1>2, <2>1, <2>3, <2>5 DEF Young, AllFree, Finished
  <2>9. AloneInv'
    <3> SUFFICES ASSUME Alone PROVE AloneInv'
      BY <1>1 DEF AloneInv, Alone
    <3>1. Underway(Ended)'
      BY <1>6, <2>2, <2>4 DEF Inv, AloneInv, Session, Underway, Ended, s
    <3>2. /\ \A t, u \in Sessions :
                sess'[t].state # "free" /\ sess'[u].state # "free" => t = u
          /\ \A t \in Sessions : sess'[t].listens <=> t = call'.session
          /\ \A t \in Sessions : sess'[t].state \notin {"ringing", "calling"}
      BY <1>2, <2>1, <2>3 DEF Inv, AloneInv, s
    <3> QED
      BY <1>1, <1>2, <2>5, <2>8, <3>1, <3>2 DEF Inv, AloneInv
  <2>10. ClosedInv' /\ HoldInv'
    BY <1>1, <1>2, <1>6, <2>3 DEF Inv, ClosedInv, HoldInv, Alone, s
  <2>11. TalkInv'
    BY <1>1, <1>2, <2>3, <2>4, <2>5, <2>8 DEF Inv, TalkInv, Alone
  <2> QED
    BY <1>4, <2>6, <2>7, <2>9, <2>10, <2>11 DEF Inv
<1> QED
  BY <1>5, <1>6

LEMMA ChangeStep ==
    ASSUME Inv, NEW hold \in BOOLEAN, ChangeCall(hold)
    PROVE  Inv'
<1> USE SipAudioCallAssumption
<1> DEFINE s == call.session
           e == [call EXCEPT !.hold = hold]
<1>1. /\ cfg' = cfg /\ todo' = todo /\ touch' = touch /\ closed' = closed
      /\ reports' = reports /\ Settled /\ "hold" \in cfg.changes
      /\ s # Null /\ call.stream \in {"ready", "joined"}
      /\ call' = SetAudioGroupMode(e)
  BY DEF ChangeCall
<1>2. /\ call \in Calls /\ e \in Calls /\ s \in Sessions /\ sess \in [Sessions -> SessionRecord]
  BY <1>1 DEF Inv, TypeOK, Calls, SessionRecord
<1>3. /\ call' \in Calls /\ ModeFits(call') /\ call'.session = s
      /\ call'.transferring = call.transferring /\ call'.inCall = call.inCall
      /\ call'.muted = call.muted /\ call'.hold = hold /\ call'.wifi = call.wifi
      /\ call'.stream = call.stream
  <2>1. /\ e.session = s /\ e.transferring = call.transferring /\ e.inCall = call.inCall
        /\ e.muted = call.muted /\ e.hold = hold /\ e.wifi = call.wifi
        /\ e.stream = call.stream
    BY <1>2 DEF Calls
  <2> HIDE DEF e
  <2> QED
    BY <1>1, <1>2, <2>1, SetModeFacts
<1>4. sess[s].state # "free" /\ ~Young
  BY <1>1 DEF Inv, CommonInv, Session, Young
<1>5. /\ sess' \in [Sessions -> SessionRecord]
      /\ sess'[s].listens = sess[s].listens /\ sess'[s].held = sess[s].held
      /\ \/ sess[s].state = "incall" /\ sess'[s].state = "changing" /\ sess'[s].asks = hold
         \/ sess[s].state # "incall" /\ sess'[s] = sess[s]
      /\ \A t \in Sessions \ {s} : sess'[t] = sess[t]
  <2>1. CASE sess[s].state = "incall"
    <3>1. sess' = [sess EXCEPT ![s].state = "changing", ![s].asks = hold]
      BY <2>1 DEF ChangeCall
    <3> HIDE DEF s
    <3>2. /\ sess' \in [Sessions -> SessionRecord]
          /\ sess'[s].listens = sess[s].listens /\ sess'[s].held = sess[s].held
          /\ sess'[s].state = "changing" /\ sess'[s].asks = hold
          /\ \A t \in Sessions \ {s} : sess'[t] = sess[t]
      BY <1>2, <3>1 DEF SessionRecord, States
    <3> QED
      BY <2>1, <3>2
  <2>2. CASE sess[s].state # "incall"
    BY <1>2, <2>2 DEF ChangeCall
  <2> QED
    BY <2>1, <2>2
<1> HIDE DEF s, e
<1>6. /\ Members(reports)' = Members(reports) /\ EstablishedOnce(reports)' = EstablishedOnce(reports)
      /\ \A E : Underway(E)' <=> Underway(E)
  BY <1>1, SameReports
<1>7. TypeOK'
  BY <1>1, <1>3, <1>5 DEF Inv, TypeOK, Calls, SessionRecord
<1>8. CommonInv'
  <2>1. Members(reports) \subseteq Report
    BY MembersEmpty DEF Inv, TypeOK, Report
  <2>2. \A y \in Members(reports)' : sess'[y.of].state # "free"
    BY <1>4, <1>5, <1>6, <2>1 DEF Inv, CommonInv, Report
  <2>3. \A t \in Sessions : sess'[t].state = "free" => ~sess'[t].asks /\ ~sess'[t].held
    BY <1>4, <1>5 DEF Inv, CommonInv
  <2> QED
    BY <1>1, <1>2, <1>3, <1>4, <1>5, <1>6, <2>2, <2>3 DEF Inv, CommonInv, Session, s
<1>9. AudioInv'
  BY <1>1, <1>2, <1>3 DEF Inv, AudioInv, AudioIn, BusyTransfer, s
<1>10. AloneInv'
  <2> SUFFICES ASSUME Alone PROVE AloneInv'
    BY <1>1 DEF AloneInv, Alone
  <2>1. /\ \A t, u \in Sessions :
              sess'[t].state # "free" /\ sess'[u].state # "free" => t = u
        /\ \A t \in Sessions : sess'[t].listens <=> t = call'.session
        /\ \A t \in Sessions : sess'[t].state \notin {"ringing", "calling"}
        /\ ~AllFree'
    BY <1>2, <1>3, <1>4, <1>5 DEF Inv, AloneInv, s, AllFree
  <2>2. ~Underway({"busy", "failed"})'
    BY <1>4, <1>6 DEF Inv, AloneInv
  <2>3. sess'[s].state = "ended" => Underway(Ended)'
    BY <1>1, <1>5, <1>6 DEF Inv, AloneInv, Session, s
  <2> QED
    BY <1>3, <1>6, <2>1, <2>2, <2>3 DEF Inv, AloneInv, Session
<1>11. ClosedInv'
  BY <1>1 DEF Inv, ClosedInv, Alone, s
<1>12. HoldInv'
  <2> SUFFICES ASSUME Alone, ~cfg.rash, "change" \notin cfg.refusals,
                      "reinvite" \notin cfg.changes
               PROVE  HoldInv'
    BY <1>1 DEF HoldInv, Alone
  <2>1. \A t \in Sessions : sess[t].state # "changing"
    BY <1>1 DEF Settled
  <2>2. sess[s].state \notin {"ringing", "calling"}
    BY <1>2, <1>4 DEF Inv, AloneInv
  <2> QED
    BY <1>2, <1>3, <1>5, <2>1, <2>2 DEF HoldInv
<1>13. TalkInv'
  BY <1>1 DEF TalkInv
<1> QED
  BY <1>7, <1>8, <1>9, <1>10, <1>11, <1>12, <1>13 DEF Inv

LEMMA ToggleFacts ==
    ASSUME NEW c \in Calls
    PROVE  LET d == ToggleMute(c)
           IN  /\ d \in Calls /\ ModeFits(d) /\ d.muted = ~c.muted
               /\ d.session = c.session /\ d.transferring = c.transferring
               /\ d.stream = c.stream /\ d.inCall = c.inCall
               /\ d.hold = c.hold /\ d.wifi = c.wifi
<1> DEFINE e == [c EXCEPT !.muted = ~@]
<1>1. /\ e \in Calls /\ e.muted = ~c.muted
      /\ e.session = c.session /\ e.transferring = c.transferring
      /\ e.stream = c.stream /\ e.inCall = c.inCall
      /\ e.hold = c.hold /\ e.wifi = c.wifi
  BY DEF Calls
<1>2. ToggleMute(c) = SetAudioGroupMode(e)
  BY DEF ToggleMute
<1> HIDE DEF e
<1> QED
  BY <1>1, <1>2, SetModeFacts

\* What is left to show of a step of onTouch, which at most changes the mute.
LEMMA MuteFacts ==
    ASSUME Inv, UNCHANGED <<cfg, sess, reports, todo, closed>>,
           touch' \in [pressed : BOOLEAN, toggles : BOOLEAN],
           call' \in Calls, ModeFits(call) => ModeFits(call'),
           call'.session = call.session, call'.transferring = call.transferring,
           call'.stream = call.stream, call'.inCall = call.inCall,
           call'.hold = call.hold, call'.wifi = call.wifi
    PROVE  /\ TypeOK' /\ CommonInv' /\ AudioInv' /\ AloneInv' /\ ClosedInv' /\ HoldInv'
           /\ AllFree' = AllFree /\ EstablishedOnce(reports)' = EstablishedOnce(reports)
           /\ Underway({"established"})' <=> Underway({"established"})
<1> USE SipAudioCallAssumption
<1>1. /\ Members(reports)' = Members(reports) /\ EstablishedOnce(reports)' = EstablishedOnce(reports)
      /\ \A E : Underway(E)' <=> Underway(E)
  BY SameReports
<1>2. TypeOK'
  BY DEF Inv, TypeOK, Calls
<1>3. CommonInv'
  BY <1>1 DEF Inv, CommonInv, Session
<1>4. /\ Young' = Young /\ AllFree' = AllFree /\ Finished' = Finished
  BY <1>1 DEF Young, AllFree, Finished
<1>5. AudioInv'
  BY <1>4 DEF Inv, AudioInv, AudioIn, BusyTransfer, Alone
<1>6. AloneInv'
  BY <1>1, <1>4 DEF Inv, AloneInv, Alone, Session
<1>7. ClosedInv' /\ HoldInv'
  BY DEF Inv, ClosedInv, HoldInv, Alone
<1> QED
  BY <1>1, <1>2, <1>3, <1>4, <1>5, <1>6, <1>7

LEMMA TouchStep ==
    ASSUME Inv, NEW down \in BOOLEAN, OnTouch(down)
    PROVE  Inv'
<1>1. /\ UNCHANGED <<cfg, call, sess, reports, todo, closed>>
      /\ ~touch.toggles /\ touch.pressed = ~down
      /\ touch' = [pressed |-> down, toggles |-> call.muted = down]
      /\ down \/ cfg.rash \/ ~Awaited
  BY DEF OnTouch, Idle
<1>2. call \in Calls /\ reports \in Seq(Report) /\ call.muted \in BOOLEAN
  BY DEF Inv, TypeOK, Calls, Report
<1>3. touch' \in [pressed : BOOLEAN, toggles : BOOLEAN]
  BY <1>1
<1>4. ModeFits(call) => ModeFits(call')
  BY <1>1
<1>5. /\ TypeOK' /\ CommonInv' /\ AudioInv' /\ AloneInv' /\ ClosedInv' /\ HoldInv'
      /\ AllFree' = AllFree /\ EstablishedOnce(reports)' = EstablishedOnce(reports)
      /\ Underway({"established"})' <=> Underway({"established"})
  BY <1>1, <1>2, <1>3, <1>4, MuteFacts
<1>6. ASSUME ~cfg.rash, ~down
      PROVE  /\ ~Underway({"established"}) /\ ~AllFree /\ todo = <<>>
             /\ \A s \in Sessions : sess[s].state \notin {"ringing", "calling"}
  BY <1>1, <1>2, <1>6 DEF Awaited, Underway, Members, AllFree
<1>7. TalkInv'
  <2> SUFFICES ASSUME Alone, ~cfg.rash, cfg.changes = {} PROVE TalkInv'
    BY <1>1 DEF TalkInv, Alone
  <2>1. TalkInv
    BY DEF Inv
  <2>2. touch'.pressed = down /\ touch'.toggles = (call.muted = down)
    BY <1>1
  <2>3. CASE down
    <3>1. touch'.toggles = call.muted /\ touch'.pressed
      BY <1>2, <2>2, <2>3
    <3> QED
      BY <1>1, <1>2, <1>5, <2>1, <3>1 DEF TalkInv
  <2>4. CASE ~down
    <3>1. touch'.toggles = ~call.muted /\ ~touch'.pressed
      BY <1>2, <2>2, <2>4
    <3> QED
      BY <1>1, <1>2, <1>5, <1>6, <2>1, <2>4, <3>1 DEF TalkInv
  <2> QED
    BY <2>3, <2>4
<1> QED
  BY <1>5, <1>7 DEF Inv

LEMMA TogglesStep ==
    ASSUME Inv, TouchToggles
    PROVE  Inv'
<1>1. /\ UNCHANGED <<cfg, sess, reports, todo, closed>>
      /\ touch.toggles /\ touch' = [touch EXCEPT !.toggles = FALSE]
      /\ call' = ToggleMute(call)
  BY DEF TouchToggles
<1>2. call \in Calls /\ touch \in [pressed : BOOLEAN, toggles : BOOLEAN]
  BY DEF Inv, TypeOK, Calls
<1>3. /\ call' \in Calls /\ ModeFits(call') /\ call'.muted = ~call.muted
      /\ call'.session = call.session /\ call'.transferring = call.transferring
      /\ call'.stream = call.stream /\ call'.inCall = call.inCall
      /\ call'.hold = call.hold /\ call'.wifi = call.wifi
  BY <1>1, <1>2, ToggleFacts
<1>4. touch' \in [pressed : BOOLEAN, toggles : BOOLEAN] /\ ~touch'.toggles
      /\ touch'.pressed = touch.pressed
  BY <1>1, <1>2
<1>5. /\ TypeOK' /\ CommonInv' /\ AudioInv' /\ AloneInv' /\ ClosedInv' /\ HoldInv'
      /\ AllFree' = AllFree /\ EstablishedOnce(reports)' = EstablishedOnce(reports)
      /\ Underway({"established"})' <=> Underway({"established"})
  BY <1>1, <1>3, <1>4, MuteFacts
<1>6. TalkInv'
  <2> SUFFICES ASSUME Alone, ~cfg.rash, cfg.changes = {} PROVE TalkInv'
    BY <1>1 DEF TalkInv, Alone
  <2>1. /\ todo = <<>> /\ ~Underway({"established"}) /\ ~AllFree
        /\ \A s \in Sessions : sess[s].state \notin {"ringing", "calling"}
    BY <1>1 DEF Inv, TalkInv
  <2>2. call.inCall => call.muted = touch.pressed
    BY <1>1, <2>1 DEF Inv, TalkInv
  <2>3. call'.inCall => call'.muted \/ touch'.pressed
    BY <1>2, <1>3, <1>4, <2>2 DEF Calls
  <2>4. /\ ~call.hold /\ EstablishedOnce(reports)
        /\ \A s \in Sessions : sess[s].state # "changing"
    BY DEF Inv, TalkInv
  <2> QED
    BY <1>1, <1>3, <1>4, <1>5, <2>1, <2>3, <2>4 DEF TalkInv
<1> QED
  BY <1>5, <1>6 DEF Inv
-----------------------------------------------------------------------------
(* The steps of the binder thread and of the activity.                     *)

LEMMA HandledFacts ==
    ASSUME Inv, reports # <<>>, reports' = Tail(reports)
    PROVE  /\ reports' \in Seq(Report) /\ Head(reports) \in Report
           /\ Head(reports) \in Members(reports)
           /\ Members(reports)' \subseteq Members(reports)
           /\ sess[Head(reports).of].state # "free"
           /\ \A E : Underway(E)' => Underway(E)
           /\ \A E : Underway(E) => Underway(E)' \/ Head(reports).event \in E
           /\ EstablishedOnce(reports) =>
                 /\ EstablishedOnce(reports)'
                 /\ Head(reports).event = "established" => ~Underway({"established"})'
           /\ ~(Alone /\ ~cfg.rash /\ closed)
<1>1. reports \in Seq(Report)
  BY DEF Inv, TypeOK, Report
<1>2. /\ reports' \in Seq(Report) /\ Head(reports) \in Report
      /\ Members(reports) = Members(reports)' \cup {Head(reports)}
  BY <1>1, MembersTail
<1>3. EstablishedOnce(reports) =>
        /\ EstablishedOnce(reports)'
        /\ Head(reports).event = "established" => ~Underway({"established"})'
  BY <1>1, OnceTail DEF Underway
<1>4. sess[Head(reports).of].state # "free"
  BY <1>2 DEF Inv, CommonInv
<1>5. \A E : Underway(E)' => Underway(E)
  BY <1>2 DEF Underway
<1>6. \A E : Underway(E) => Underway(E)' \/ Head(reports).event \in E
  BY <1>2 DEF Underway
<1> QED
  BY <1>2, <1>3, <1>4, <1>5, <1>6 DEF Inv, ClosedInv

LEMMA ActivityStep ==
    ASSUME Inv, ActivityEstablished
    PROVE  Inv'
<1> USE SipAudioCallAssumption
<1>1. /\ cfg' = cfg /\ touch' = touch /\ closed' = closed /\ reports' = reports
      /\ Silenced /\ call \in Calls
  BY DEF ActivityEstablished, Inv, TypeOK, Calls
<1>2. /\ Members(reports)' = Members(reports) /\ EstablishedOnce(reports)' = EstablishedOnce(reports)
      /\ \A E : Underway(E)' <=> Underway(E)
  BY <1>1, SameReports
<1>3. \/ /\ todo = <<"startAudio", "toggleMute">> /\ todo' = <<"toggleMute">>
         /\ call' = StartAudio(call)
      \/ /\ todo = <<"toggleMute">> /\ todo' = <<>>
         /\ call' = ToggleMute(call)
  <2>1. CASE todo = <<"startAudio", "toggleMute">>
    <3>1. Head(todo) = "startAudio" /\ Tail(todo) = <<"toggleMute">>
      BY <2>1
    <3> QED
      BY <2>1, <3>1 DEF ActivityEstablished
  <2>2. CASE todo = <<"toggleMute">>
    <3>1. Head(todo) = "toggleMute" /\ Tail(todo) = <<>>
      BY <2>2
    <3> QED
      BY <2>2, <3>1 DEF ActivityEstablished
  <2> QED
    BY <2>1, <2>2 DEF Inv, CommonInv, ActivityEstablished
<1>4. /\ call' \in Calls /\ call'.transferring = call.transferring
      /\ \/ call'.session = call.session /\ call'.hold = call.hold
         \/ call'.session = Null /\ ~call'.hold
      /\ call'.session # call.session => call'.stream = "none"
      /\ call.stream = "none" => call'.stream = "none"
      /\ AudioIn(call) => AudioIn(call')
      /\ ModeFits(call) => ModeFits(call')
      /\ call'.muted = IF todo' = <<>> THEN ~call.muted ELSE call.muted
  <2>1. CASE call' = StartAudio(call) /\ todo' = <<"toggleMute">>
    <3>1. todo' # <<>>
      BY <2>1
    <3> QED
      BY <1>1, <2>1, <3>1, StartAudioFacts DEF Closed
  <2>2. CASE call' = ToggleMute(call) /\ todo' = <<>>
    BY <1>1, <2>2, ToggleFacts DEF AudioIn
  <2> QED
    BY <1>3, <2>1, <2>2
<1>5. todo # <<>> /\ ~Young
  BY <1>3 DEF Young
<1>6. /\ TypeOK' /\ CommonInv' /\ AloneInv' /\ HoldInv'
      /\ \A t \in Sessions : sess'[t].state = sess[t].state
      /\ AllFree' = AllFree /\ Finished' = Finished
  <2>1. /\ SameSessions /\ reports' \in Seq(Report) /\ closed' \in BOOLEAN
        /\ Members(reports)' \subseteq Members(reports)
    BY <1>1, <1>2, <1>4 DEF SameSessions, Inv, TypeOK, Report
  <2>2. Alone => call'.transferring = Null
    BY <1>4 DEF Inv, AloneInv
  <2>3. Alone /\ call'.session # Null /\ Session = "ended" => Underway(Ended)'
    BY <1>2, <1>4 DEF Inv, AloneInv
  <2>4. todo' \in {<<>>, <<"startAudio", "toggleMute">>, <<"toggleMute">>}
    BY <1>3
  <2> QED
    BY <1>4, <1>5, <2>1, <2>2, <2>3, <2>4, SameSessionsFacts
<1>7. AudioInv'
  BY <1>1, <1>4, <1>5 DEF Inv, AudioInv, BusyTransfer, AudioIn
<1>8. ClosedInv'
  BY <1>1, <1>5 DEF Inv, ClosedInv, Alone
<1>9. TalkInv'
  <2> SUFFICES ASSUME Alone, ~cfg.rash, cfg.changes = {} PROVE TalkInv'
    BY <1>1 DEF TalkInv, Alone
  <2>1. call.muted \in BOOLEAN /\ ~call.muted /\ ~touch.toggles
    BY <1>5 DEF Inv, TypeOK, TalkInv
  <2>2. ~call'.hold /\ \A t \in Sessions : sess'[t].state # "changing"
    BY <1>4, <1>6 DEF Inv, TalkInv
  <2>3. ~(\/ Underway({"established"})' \/ AllFree'
          \/ \E t \in Sessions : sess'[t].state \in {"ringing", "calling"})
    BY <1>2, <1>5, <1>6 DEF Inv, TalkInv
  <2> QED
    BY <1>1, <1>2, <1>4, <2>1, <2>2, <2>3 DEF Inv, TalkInv
<1> QED
  BY <1>6, <1>7, <1>8, <1>9 DEF Inv

LEMMA EndedStep ==
    ASSUME Inv, OnCallEnded
    PROVE  Inv'
<1> USE SipAudioCallAssumption
<1> DEFINE s == Head(reports).of
<1>1. /\ reports # <<>> /\ reports' = Tail(reports) /\ todo = <<>> /\ todo' = todo
      /\ cfg' = cfg /\ touch' = touch /\ closed' = closed /\ Silenced
      /\ Head(reports).event = "ended"
      /\ call \in Calls
  BY DEF OnCallEnded, Handles, Handled, Inv, TypeOK, Calls
<1>2. /\ reports' \in Seq(Report) /\ s \in Sessions /\ sess[s].state # "free"
      /\ Members(reports)' \subseteq Members(reports)
      /\ \A E : Underway(E)' => Underway(E)
      /\ EstablishedOnce(reports) => EstablishedOnce(reports)'
      /\ ~(Alone /\ ~cfg.rash /\ closed)
  BY <1>1, HandledFacts DEF Report
<1>3. \/ s = call.transferring /\ call' = [call EXCEPT !.transferring = Null]
      \/ /\ s # call.transferring /\ call' = call
         /\ call.transferring # Null \/ s # call.session
      \/ s # call.transferring /\ call' = Close(call, TRUE)
  BY DEF OnCallEnded
<1> HIDE DEF s
<1>4. /\ call' \in Calls
      /\ \/ /\ call'.session = call.session /\ call'.hold = call.hold
            /\ call'.stream = call.stream /\ call'.wifi = call.wifi
            /\ call'.inCall = call.inCall /\ call'.mode = call.mode
            /\ Alone => s # call.session
         \/ Closed(call, call')
      /\ call'.muted = call.muted
      /\ call'.transferring \in {call.transferring, Null}
  <2>1. CASE s = call.transferring /\ call' = [call EXCEPT !.transferring = Null]
    BY <1>1, <1>2, <2>1 DEF Calls, Inv, AloneInv
  <2>2. CASE /\ s # call.transferring /\ call' = call
             /\ call.transferring # Null \/ s # call.session
    BY <1>1, <2>2 DEF Inv, AloneInv
  <2>3. CASE call' = Close(call, TRUE)
    BY <1>1, <2>3, CloseFacts DEF Closed
  <2> QED
    BY <1>3, <2>1, <2>2, <2>3
<1>5. Young => Young'
  BY <1>1, <1>2, <1>4 DEF Young, Closed
<1>6. /\ TypeOK' /\ CommonInv' /\ AloneInv' /\ HoldInv'
      /\ \A t \in Sessions : sess'[t].state = sess[t].state
      /\ AllFree' = AllFree /\ Finished' = Finished
  <2>1. SameSessions /\ closed' \in BOOLEAN
    BY <1>1, <1>4 DEF SameSessions, Closed, Inv, TypeOK
  <2>2. Alone => call'.transferring = Null
    BY <1>4 DEF Inv, AloneInv
  <2>3. ~(Alone /\ call'.session # Null /\ Session = "ended")
    BY <1>1, <1>2, <1>4 DEF Inv, AloneInv, Session, Closed, Calls
  <2>4. todo' \in {<<>>, <<"startAudio", "toggleMute">>, <<"toggleMute">>}
    BY <1>1
  <2> QED
    BY <1>2, <1>4, <1>5, <2>1, <2>2, <2>3, <2>4, SameSessionsFacts
<1>7. AudioInv'
  BY <1>1, <1>4, <1>5, <1>6 DEF Inv, AudioInv, Alone, AudioIn, ModeFits, Mode, Closed, BusyTransfer
<1>8. ClosedInv'
  BY <1>1, <1>2 DEF ClosedInv, Alone
<1>9. TalkInv'
  BY <1>1, <1>2, <1>4, <1>6 DEF Inv, TalkInv, Alone, Closed
<1> QED
  BY <1>6, <1>7, <1>8, <1>9 DEF Inv

LEMMA BusyStep ==
    ASSUME Inv, OnCallBusy
    PROVE  Inv'
<1> USE SipAudioCallAssumption
<1>1. /\ reports # <<>> /\ reports' = Tail(reports) /\ todo = <<>> /\ todo' = todo
      /\ cfg' = cfg /\ touch' = touch /\ closed' = closed /\ Silenced
      /\ Head(reports).event = "busy" /\ call' = Close(call, FALSE)
      /\ call \in Calls
  BY DEF OnCallBusy, Handles, Handled, Inv, TypeOK, Calls
<1>2. /\ reports' \in Seq(Report) /\ Members(reports)' \subseteq Members(reports)
      /\ Head(reports) \in Members(reports)
      /\ \A E : Underway(E)' => Underway(E)
      /\ EstablishedOnce(reports) => EstablishedOnce(reports)'
      /\ ~(Alone /\ ~cfg.rash /\ closed)
  BY <1>1, HandledFacts
<1>3. /\ call' \in Calls /\ ~call'.inCall /\ ~call'.hold /\ call'.session = Null
      /\ call'.transferring = call.transferring /\ call'.muted = call.muted
      /\ call'.stream = call.stream /\ call'.wifi = call.wifi
  BY <1>1, CloseFacts
<1>4. Young => Young'
  BY <1>1, <1>2, <1>3 DEF Young
<1>5. "busy" \in cfg.refusals /\ (Alone => Young /\ Finished)
  BY <1>1, <1>2 DEF Inv, CommonInv, AloneInv, Underway
<1>6. /\ TypeOK' /\ CommonInv' /\ AloneInv' /\ HoldInv'
      /\ \A t \in Sessions : sess'[t].state = sess[t].state
      /\ AllFree' = AllFree /\ Finished' = Finished
  <2>1. SameSessions /\ closed' \in BOOLEAN
    BY <1>1, <1>3 DEF SameSessions, Inv, TypeOK
  <2>2. Alone => call'.transferring = Null
    BY <1>3 DEF Inv, AloneInv
  <2>3. todo' \in {<<>>, <<"startAudio", "toggleMute">>, <<"toggleMute">>}
    BY <1>1
  <2> QED
    BY <1>2, <1>3, <1>4, <2>1, <2>2, <2>3, SameSessionsFacts
<1>7. AudioInv'
  <2> SUFFICES ASSUME ~BusyTransfer PROVE AudioInv'
    BY <1>1 DEF AudioInv, BusyTransfer
  <2>1. Alone /\ Young' /\ Finished' /\ Alone'
    BY <1>1, <1>4, <1>5, <1>6 DEF BusyTransfer, Alone
  <2>2. AudioIn(call') /\ ModeFits(call')
    BY <2>1 DEF Young, AudioIn, ModeFits
  <2> QED
    BY <2>1, <2>2 DEF AudioInv
<1>8. ClosedInv'
  BY <1>1, <1>2 DEF ClosedInv, Alone
<1>9. TalkInv'
  BY <1>1, <1>2, <1>3, <1>6 DEF Inv, TalkInv, Alone
<1> QED
  BY <1>6, <1>7, <1>8, <1>9 DEF Inv

LEMMA FailureStep ==
    ASSUME Inv, OnFailure
    PROVE  Inv'
<1> USE SipAudioCallAssumption
<1>1. /\ reports # <<>> /\ reports' = Tail(reports) /\ todo = <<>> /\ todo' = todo
      /\ cfg' = cfg /\ touch' = touch /\ closed' = closed /\ Silenced
      /\ call \in Calls
      /\ \/ Head(reports).event = "failed" /\ call' = OnError(call, FALSE)
         \/ Head(reports).event = "lost" /\ call' = OnError(call, TRUE)
         \/ Head(reports).event = "changeFailed" /\ call' = call
  BY DEF OnFailure, Handles, Handled, Inv, TypeOK, Calls
<1>2. /\ reports' \in Seq(Report) /\ Members(reports)' \subseteq Members(reports)
      /\ Head(reports) \in Members(reports)
      /\ \A E : Underway(E)' => Underway(E)
      /\ \A E : Underway(E) => Underway(E)' \/ Head(reports).event \in E
      /\ EstablishedOnce(reports) => EstablishedOnce(reports)'
      /\ ~(Alone /\ ~cfg.rash /\ closed)
  BY <1>1, HandledFacts
<1>3. /\ call' \in Calls /\ call'.transferring = call.transferring /\ call'.muted = call.muted
      /\ call' = call \/ Closed(call, call')
      /\ Alone /\ call'.session # Null => Head(reports).event = "changeFailed"
  <2>1. CASE Head(reports).event = "failed" /\ call' = OnError(call, FALSE)
    <3>1. Alone => ~call.inCall
      BY <1>2, <2>1 DEF Inv, AloneInv, Underway, Young
    <3> QED
      BY <1>1, <2>1, <3>1, OnErrorFacts DEF Closed
  <2>2. CASE Head(reports).event = "lost" /\ call' = OnError(call, TRUE)
    BY <1>1, <2>2, OnErrorFacts DEF Closed
  <2>3. CASE Head(reports).event = "changeFailed" /\ call' = call
    BY <1>1, <2>3
  <2> QED
    BY <1>1, <2>1, <2>2, <2>3
<1>4. Young => Young'
  BY <1>1, <1>2, <1>3 DEF Young, Closed
<1>5. /\ TypeOK' /\ CommonInv' /\ AloneInv' /\ HoldInv'
      /\ \A t \in Sessions : sess'[t].state = sess[t].state
      /\ AllFree' = AllFree /\ Finished' = Finished
  <2>1. SameSessions /\ closed' \in BOOLEAN
    BY <1>1, <1>3 DEF SameSessions, Closed, Inv, TypeOK
  <2>2. Alone => call'.transferring = Null
    BY <1>3 DEF Inv, AloneInv
  <2>3. Alone /\ call'.session # Null /\ Session = "ended" => Underway(Ended)'
    BY <1>2, <1>3 DEF Inv, AloneInv, Closed, Ended
  <2>4. todo' \in {<<>>, <<"startAudio", "toggleMute">>, <<"toggleMute">>}
    BY <1>1
  <2> QED
    BY <1>2, <1>3, <1>4, <2>1, <2>2, <2>3, <2>4, SameSessionsFacts
<1>6. AudioInv'
  BY <1>1, <1>3, <1>4, <1>5 DEF Inv, AudioInv, Alone, AudioIn, ModeFits, Mode, Closed, BusyTransfer
<1>7. ClosedInv'
  BY <1>1, <1>2 DEF ClosedInv, Alone
<1>8. TalkInv'
  BY <1>1, <1>2, <1>3, <1>5 DEF Inv, TalkInv, Alone, Closed
<1> QED
  BY <1>5, <1>6, <1>7, <1>8 DEF Inv

\* endCall of a session that is not free, while a report is handled.
LEMMA EndsFacts ==
    ASSUME Inv, reports # <<>>, NEW s \in Sessions, sess[s].state # "free", Ends(s)
    PROVE  /\ sess' \in [Sessions -> SessionRecord] /\ sess'[s].state = "ended"
           /\ sess'[s].listens = sess[s].listens
           /\ \A t \in Sessions \ {s} : sess'[t] = sess[t]
           /\ reports' \in Seq(Report)
           /\ \A y \in Members(reports)' : sess'[y.of].state # "free"
           /\ \A E : Underway(E)' => Underway(E) \/ "ended" \in E
           /\ Head(reports).event \notin Ended =>
                 (sess[s].state = "ended" /\ ~Underway(Ended)) \/ Underway(Ended)'
<1> DEFINE x == [event |-> "ended", of |-> s, sd |-> "none"]
<1>1. reports \in Seq(Report) /\ x \in Report /\ x.event = "ended" /\ x.of = s
  BY DEF Inv, TypeOK, Report, Events, Descriptions
<1>2. /\ Tail(reports) \in Seq(Report) /\ Head(reports) \in Report
      /\ Members(reports) = Members(Tail(reports)) \cup {Head(reports)}
  BY <1>1, MembersTail
<1>3. /\ reports' \in Seq(Report)
      /\ Members(reports)' \subseteq Members(Tail(reports)) \cup {x}
      /\ Members(Tail(reports)) \subseteq Members(reports)'
      /\ sess[s].state = "ended" \/ x \in Members(reports)'
  <2>1. CASE sess[s].state = "ended"
    <3>1. reports' = Tail(reports)
      BY <2>1 DEF Ends
    <3>2. Members(reports)' = Members(Tail(reports))
      BY <3>1 DEF Members
    <3> HIDE DEF x
    <3> QED
      BY <1>2, <2>1, <3>1, <3>2
  <2>2. CASE sess[s].state # "ended"
    <3>1. reports' = Append(Tail(reports), x)
      BY <2>2 DEF Ends
    <3>2. Members(reports)' = Members(Append(Tail(reports), x))
      BY <3>1 DEF Members
    <3> HIDE DEF x
    <3>3. /\ Append(Tail(reports), x) \in Seq(Report)
          /\ Members(Append(Tail(reports), x)) = Members(Tail(reports)) \cup {x}
      BY <1>1, <1>2, MembersAppend
    <3> QED
      BY <3>1, <3>2, <3>3
  <2> QED
    BY <2>1, <2>2
<1>4. /\ sess' \in [Sessions -> SessionRecord] /\ sess'[s].state = "ended"
      /\ sess'[s].listens = sess[s].listens
      /\ \A t \in Sessions \ {s} : sess'[t] = sess[t]
  <2>1. sess' = [sess EXCEPT ![s].state = "ended"]
    BY DEF Ends
  <2>2. sess \in [Sessions -> SessionRecord] /\ "ended" \in States
    BY DEF Inv, TypeOK, SessionRecord, States
  <2> QED
    BY <2>1, <2>2 DEF SessionRecord
<1> HIDE DEF x
<1>5. \A y \in Members(reports)' : sess'[y.of].state # "free"
  <2>1. Members(reports) \subseteq Report
    BY <1>1, MembersEmpty
  <2> QED
    BY <1>1, <1>2, <1>3, <1>4, <2>1 DEF Inv, CommonInv, Report
<1>6. \A E : Underway(E)' => Underway(E) \/ "ended" \in E
  BY <1>1, <1>2, <1>3 DEF Underway
<1>7. ASSUME Head(reports).event \notin Ended, Underway(Ended) PROVE Underway(Ended)'
  BY <1>2, <1>3, <1>7 DEF Underway
<1>8. ASSUME sess[s].state # "ended" PROVE Underway(Ended)'
  BY <1>1, <1>3, <1>8 DEF Underway, Ended
<1> QED
  BY <1>3, <1>4, <1>5, <1>6, <1>7, <1>8

LEMMA RingingStep ==
    ASSUME Inv, OnRinging
    PROVE  Inv'
<1> USE SipAudioCallAssumption
<1> DEFINE s == Head(reports).of
           ends == call.session # s \/ ~call.inCall \/ call.stream = "none"
                   \/ Head(reports).sd = "bad"
<1>1. /\ reports # <<>> /\ Head(reports).event = "ringing"
      /\ cfg' = cfg /\ call' = call /\ todo' = todo /\ touch' = touch /\ closed' = closed
      /\ call.session \in Sessions \cup {Null}
  BY DEF OnRinging, Handles, Inv, TypeOK
<1>2. /\ s \in Sessions /\ sess[s].state # "free" /\ Head(reports) \in Members(reports)
      /\ Head(reports).event \notin Ended
      /\ ~(Alone /\ ~cfg.rash /\ closed)
  <2>1. PICK q \in Seq(Report) : q = Tail(reports)
    BY <1>1, MembersTail DEF Inv, TypeOK, Report
  <2>2. /\ reports \in Seq(Report) /\ Head(reports) \in Report
        /\ Head(reports) \in Members(reports)
    BY <1>1, MembersTail DEF Inv, TypeOK, Report
  <2> QED
    BY <1>1, <2>2 DEF Inv, CommonInv, ClosedInv, Report, Ended
<1>3. "reinvite" \in cfg.changes
  BY <1>1, <1>2 DEF Inv, CommonInv, Underway
<1>4. /\ sess' \in [Sessions -> SessionRecord] /\ sess'[s].state # "free"
      /\ sess'[s].listens = sess[s].listens
      /\ \A t \in Sessions \ {s} : sess'[t] = sess[t]
      /\ sess'[s].state \in {"ringing", "calling", "changing"} =>
            sess'[s].state = sess[s].state \/ (~ends /\ sess'[s].state = "changing")
      /\ sess'[s].state = "ended" => sess[s].state = "ended" \/ Underway(Ended)'
      /\ reports' \in Seq(Report)
      /\ \A y \in Members(reports)' : sess'[y.of].state # "free"
      /\ \A E : Underway(E)' => Underway(E) \/ "ended" \in E
      /\ Underway(Ended) => Underway(Ended)'
  <2>1. CASE ends
    <3>1. Ends(s)
      BY <2>1 DEF OnRinging
    <3> HIDE DEF s
    <3> QED
      BY <1>1, <1>2, <2>1, <3>1, EndsFacts
  <2>2. CASE ~ends
    <3>1. /\ sess' = IF sess[s].state = "incall" THEN [sess EXCEPT ![s].state = "changing"] ELSE sess
          /\ reports' = Tail(reports)
      BY <2>2 DEF OnRinging, Set
    <3>2. /\ reports' \in Seq(Report) /\ Members(reports)' \subseteq Members(reports)
          /\ \A E : Underway(E)' => Underway(E)
          /\ Underway(Ended) => Underway(Ended)'
      BY <1>1, <1>2, <3>1, HandledFacts
    <3> HIDE DEF s
    <3>3. sess \in [Sessions -> SessionRecord] /\ "changing" \in States
      BY DEF Inv, TypeOK, SessionRecord, States
    <3>4. /\ sess' \in [Sessions -> SessionRecord] /\ sess'[s].state \in {sess[s].state, "changing"}
          /\ sess'[s].listens = sess[s].listens
          /\ \A t \in Sessions \ {s} : sess'[t] = sess[t]
      BY <1>2, <3>1, <3>3 DEF SessionRecord
    <3>5. \A y \in Members(reports)' : sess'[y.of].state # "free"
      <4>1. Members(reports) \subseteq Report
        BY MembersEmpty DEF Inv, TypeOK, Report
      <4> QED
        BY <1>2, <3>2, <3>4, <4>1 DEF Inv, CommonInv, Report
    <3> HIDE DEF ends
    <3> QED
      BY <1>2, <2>2, <3>2, <3>4, <3>5
  <2> QED
    BY <2>1, <2>2
<1> HIDE DEF s
<1>5. TypeOK'
  BY <1>1, <1>4 DEF Inv, TypeOK, SessionRecord, Report
<1>6. CommonInv'
  <2>1. /\ "busy" \notin cfg.refusals => ~Underway({"busy"})'
    BY <1>4 DEF Inv, CommonInv
  <2>2. /\ call.session # Null => sess'[call.session].state # "free"
        /\ \A t \in Sessions : sess'[t].state = "free" => ~sess'[t].asks /\ ~sess'[t].held
    BY <1>1, <1>2, <1>4 DEF Inv, CommonInv, Session
  <2> QED
    BY <1>1, <1>3, <1>4, <2>1, <2>2 DEF Inv, CommonInv, Session
<1>7. /\ ~AllFree /\ ~AllFree'
      /\ Young => Young' /\ ends
      /\ ends /\ Finished => Finished'
  BY <1>1, <1>2, <1>4 DEF AllFree, Young, Finished
<1>8. AudioInv'
  BY <1>1, <1>7 DEF Inv, AudioInv, AudioIn, ModeFits, Mode, Alone, BusyTransfer
<1>9. AloneInv'
  <2> SUFFICES ASSUME Alone PROVE AloneInv'
    BY <1>1 DEF AloneInv, Alone
  <2>1. /\ \A t, u \in Sessions :
              sess'[t].state # "free" /\ sess'[u].state # "free" => t = u
        /\ \A t \in Sessions : sess'[t].listens <=> t = call.session
        /\ call.transferring = Null /\ ~Underway({"transferring"})'
    BY <1>2, <1>4 DEF Inv, AloneInv
  <2>2. (\E t \in Sessions : sess'[t].state \in {"ringing", "calling"}) => Young'
    <3> HIDE DEF ends
    <3> QED
      BY <1>2, <1>4, <1>7 DEF Inv, AloneInv
  <2>3. Underway({"busy", "failed"})' => Young' /\ Finished'
    <3> HIDE DEF ends
    <3> QED
      BY <1>4, <1>7 DEF Inv, AloneInv
  <2>4. call.session # Null /\ sess'[call.session].state = "ended" => Underway(Ended)'
    <3> SUFFICES ASSUME call.session # Null, sess'[call.session].state = "ended"
                 PROVE  Underway(Ended)'
      OBVIOUS
    <3>1. call.session = s
      BY <1>1, <1>2 DEF Inv, AloneInv, CommonInv, Session
    <3> HIDE DEF ends
    <3> QED
      BY <1>4, <3>1 DEF Inv, AloneInv, Session
  <2> QED
    BY <1>1, <1>7, <2>1, <2>2, <2>3, <2>4 DEF AloneInv, Session
<1>10. ClosedInv'
  BY <1>1, <1>2 DEF ClosedInv, Alone
<1>11. HoldInv' /\ TalkInv'
  BY <1>1, <1>3 DEF HoldInv, TalkInv
<1> QED
  BY <1>5, <1>6, <1>8, <1>9, <1>10, <1>11 DEF Inv

LEMMA TransferringStep ==
    ASSUME Inv, OnCallTransferring
    PROVE  Inv'
<1> USE SipAudioCallAssumption
<1> DEFINE t == Head(reports).of
<1>1. /\ reports # <<>> /\ Head(reports).event = "transferring"
      /\ cfg' = cfg /\ todo' = todo /\ touch' = touch /\ closed' = closed
      /\ call' = [call EXCEPT !.transferring = t]
      /\ call \in Calls
  BY DEF OnCallTransferring, Handles, Inv, TypeOK, Calls
<1>2. /\ reports \in Seq(Report) /\ Head(reports) \in Report
      /\ Head(reports) \in Members(reports)
  BY <1>1, MembersTail DEF Inv, TypeOK, Report
<1>3. t \in Sessions /\ sess[t].state # "free" /\ ~Alone
  BY <1>1, <1>2 DEF Inv, CommonInv, AloneInv, Underway, Report
<1>4. /\ sess' \in [Sessions -> SessionRecord] /\ sess'[t].state # "free"
      /\ \A u \in Sessions \ {t} : sess'[u] = sess[u]
      /\ reports' \in Seq(Report)
      /\ \A y \in Members(reports)' : sess'[y.of].state # "free"
      /\ \A E : Underway(E)' => Underway(E) \/ "ended" \in E
  <2>1. CASE call.stream = "none"
    <3>1. Ends(t)
      BY <2>1 DEF OnCallTransferring
    <3> HIDE DEF t
    <3> QED
      BY <1>1, <1>3, <3>1, EndsFacts
  <2>2. CASE call.stream # "none"
    <3>1. /\ sess' = IF sess[t].state = "ringing" THEN [sess EXCEPT ![t].state = "calling"] ELSE sess
          /\ reports' = Tail(reports)
      BY <2>2 DEF OnCallTransferring, Set
    <3>2. /\ reports' \in Seq(Report) /\ Members(reports)' \subseteq Members(reports)
          /\ \A E : Underway(E)' => Underway(E)
      BY <1>1, <3>1, HandledFacts
    <3> HIDE DEF t
    <3>3. sess \in [Sessions -> SessionRecord] /\ "calling" \in States
      BY DEF Inv, TypeOK, SessionRecord, States
    <3>4. /\ sess' \in [Sessions -> SessionRecord] /\ sess'[t].state \in {sess[t].state, "calling"}
          /\ \A u \in Sessions \ {t} : sess'[u] = sess[u]
      BY <1>3, <3>1, <3>3 DEF SessionRecord
    <3>5. \A y \in Members(reports)' : sess'[y.of].state # "free"
      <4>1. Members(reports) \subseteq Report
        BY <1>2, MembersEmpty
      <4> QED
        BY <1>3, <3>2, <3>4, <4>1 DEF Inv, CommonInv, Report
    <3> QED
      BY <1>3, <3>2, <3>4, <3>5
  <2> QED
    BY <2>1, <2>2
<1> HIDE DEF t
<1>5. /\ call' \in Calls /\ call'.session = call.session /\ call'.hold = call.hold
      /\ call'.stream = call.stream /\ call'.wifi = call.wifi
      /\ call'.inCall = call.inCall /\ call'.mode = call.mode /\ call'.muted = call.muted
  BY <1>1, <1>3 DEF Calls
<1>6. TypeOK'
  BY <1>1, <1>4, <1>5 DEF Inv, TypeOK, Calls, SessionRecord, Report
<1>7. CommonInv'
  <2>1. /\ "busy" \notin cfg.refusals => ~Underway({"busy"})'
        /\ "reinvite" \notin cfg.changes => ~Underway({"ringing"})'
    BY <1>4 DEF Inv, CommonInv
  <2>2. /\ call.session # Null => sess'[call.session].state # "free"
        /\ \A u \in Sessions : sess'[u].state = "free" => ~sess'[u].asks /\ ~sess'[u].held
    BY <1>1, <1>3, <1>4 DEF Inv, CommonInv, Session, Calls
  <2> QED
    BY <1>1, <1>4, <1>5, <2>1, <2>2 DEF Inv, CommonInv, Session
<1>8. AudioInv'
  BY <1>1, <1>3, <1>5 DEF Inv, AudioInv, AudioIn, ModeFits, Mode, BusyTransfer
<1>9. AloneInv' /\ ClosedInv' /\ HoldInv' /\ TalkInv'
  BY <1>1, <1>3 DEF AloneInv, ClosedInv, HoldInv, TalkInv, Alone
<1> QED
  BY <1>6, <1>7, <1>8, <1>9 DEF Inv

LEMMA EstablishedStep ==
    ASSUME Inv, OnCallEstablished
    PROVE  Inv'
<1> USE SipAudioCallAssumption
<1> DEFINE s == Head(reports).of
           c == [call EXCEPT !.peerSd = Head(reports).sd]
<1>1. /\ reports # <<>> /\ Head(reports).event = "established" /\ todo = <<>>
      /\ cfg' = cfg /\ touch' = touch /\ closed' = closed
      /\ call \in Calls
  BY DEF OnCallEstablished, Handles, Handled, Inv, TypeOK, Calls
<1>2. /\ reports \in Seq(Report) /\ Head(reports) \in Report
      /\ Head(reports) \in Members(reports)
  BY <1>1, MembersTail DEF Inv, TypeOK, Report
<1>3. s \in Sessions /\ sess[s].state # "free" /\ Underway({"established"}) /\ ~Young
  BY <1>1, <1>2 DEF Inv, CommonInv, Underway, Report, Young
<1>4. /\ c \in Calls /\ c.session = call.session /\ c.hold = call.hold
      /\ c.transferring = call.transferring /\ c.muted = call.muted
      /\ c.stream = call.stream /\ c.wifi = call.wifi
      /\ c.inCall = call.inCall /\ c.mode = call.mode
  BY <1>1, <1>2 DEF Calls, Report
<1>5. CASE s = call.transferring
  <2>1. call' = Transferred(c, s) /\ todo' = todo
    BY <1>5 DEF OnCallEstablished
  <2> HIDE DEF s, c
  <2>2. /\ call' \in Calls
        /\ \/ call'.session = s
           \/ call'.session = Null /\ ~call'.hold /\ call'.stream = "none"
        /\ AudioIn(c) => AudioIn(call')
        /\ ModeFits(call')
    BY <1>3, <1>4, <2>1, TransferredFacts DEF Closed
  <2>3. ~Alone /\ call.session \in Sessions \cup {Null}
    BY <1>1, <1>3, <1>5 DEF Inv, AloneInv, Calls
  <2>4. /\ sess' \in [Sessions -> SessionRecord]
        /\ \A t \in Sessions : sess[t].state # "free" => sess'[t].state # "free"
        /\ \A t \in Sessions : sess[t].state = "free" => sess'[t] = sess[t]
        /\ reports' \in Seq(Report)
        /\ \A y \in Members(reports)' : sess'[y.of].state # "free"
        /\ \A E : Underway(E)' => Underway(E) \/ "ended" \in E
    <3>1. CASE call.session = Null
      <4>1. reports' = Tail(reports) /\ sess' = sess
        BY <1>5, <3>1 DEF OnCallEstablished, s
      <4>2. /\ reports' \in Seq(Report) /\ Members(reports)' \subseteq Members(reports)
            /\ \A E : Underway(E)' => Underway(E)
        BY <1>1, <4>1, HandledFacts
      <4>3. \A y \in Members(reports)' : sess'[y.of].state # "free"
        BY <4>1, <4>2 DEF Inv, CommonInv
      <4> QED
        BY <4>1, <4>2, <4>3 DEF Inv, TypeOK, SessionRecord
    <3>2. CASE call.session # Null
      <4>1. Ends(call.session)
        BY <1>5, <3>2 DEF OnCallEstablished, s
      <4>2. call.session \in Sessions /\ sess[call.session].state # "free"
        BY <2>3, <3>2 DEF Inv, CommonInv, Session
      <4> QED
        BY <1>1, <4>1, <4>2, EndsFacts
    <3> QED
      BY <3>1, <3>2
  <2>5. TypeOK'
    BY <1>1, <2>1, <2>2, <2>4 DEF Inv, TypeOK, Calls, SessionRecord, Report
  <2>6. CommonInv'
    <3>1. /\ "busy" \notin cfg.refusals => ~Underway({"busy"})'
          /\ "reinvite" \notin cfg.changes => ~Underway({"ringing"})'
      BY <2>4 DEF Inv, CommonInv
    <3>2. /\ call'.session # Null => sess'[call'.session].state # "free"
          /\ call'.session = Null => ~call'.hold
      BY <1>3, <2>2, <2>4
    <3>3. \A t \in Sessions : sess'[t].state = "free" => ~sess'[t].asks /\ ~sess'[t].held
      BY <2>4 DEF Inv, CommonInv
    <3> QED
      BY <1>1, <2>1, <2>4, <3>1, <3>2, <3>3 DEF Inv, CommonInv, Session
  <2>7. AudioInv'
    BY <1>1, <1>3, <1>4, <2>2 DEF Inv, AudioInv, AudioIn, BusyTransfer
  <2>8. AloneInv' /\ ClosedInv' /\ HoldInv' /\ TalkInv'
    BY <1>1, <2>3 DEF AloneInv, ClosedInv, HoldInv, TalkInv, Alone
  <2> QED
    BY <2>5, <2>6, <2>7, <2>8 DEF Inv
<1>6. CASE s # call.transferring
  <2>1. /\ call' = c /\ reports' = Tail(reports) /\ sess' = sess
        /\ todo' = IF c.hold THEN <<>> ELSE <<"startAudio", "toggleMute">>
    BY <1>6 DEF OnCallEstablished, Handled
  <2> HIDE DEF s, c
  <2>2. /\ reports' \in Seq(Report) /\ Members(reports)' \subseteq Members(reports)
        /\ \A E : Underway(E)' => Underway(E)
        /\ \A E : Underway(E) => Underway(E)' \/ Head(reports).event \in E
        /\ EstablishedOnce(reports) => EstablishedOnce(reports)' /\ ~Underway({"established"})'
        /\ ~(Alone /\ ~cfg.rash /\ closed)
    BY <1>1, <2>1, HandledFacts
  <2>3. /\ TypeOK' /\ CommonInv' /\ AloneInv' /\ HoldInv'
        /\ AllFree' = AllFree
    <3>1. SameSessions /\ closed' \in BOOLEAN /\ call' \in Calls
      BY <1>1, <1>4, <2>1 DEF SameSessions, Silenced, Inv, TypeOK
    <3>2. Alone => call'.transferring = Null
      BY <1>4, <2>1 DEF Inv, AloneInv
    <3>3. Alone /\ call'.session # Null /\ Session = "ended" => Underway(Ended)'
      BY <1>1, <1>4, <2>1, <2>2 DEF Inv, AloneInv, Ended
    <3>4. todo' \in {<<>>, <<"startAudio", "toggleMute">>, <<"toggleMute">>}
      BY <2>1
    <3> QED
      BY <1>3, <2>2, <3>1, <3>2, <3>3, <3>4, SameSessionsFacts
  <2>4. AudioInv'
    BY <1>1, <1>3, <1>4, <2>1 DEF Inv, AudioInv, AudioIn, ModeFits, Mode, BusyTransfer
  <2>5. ClosedInv'
    BY <1>1, <2>2 DEF ClosedInv, Alone
  <2>6. TalkInv'
    <3> SUFFICES ASSUME Alone, ~cfg.rash, cfg.changes = {} PROVE TalkInv'
      BY <1>1 DEF TalkInv, Alone
    <3>1. /\ ~call.hold /\ ~call.muted /\ ~touch.toggles
          /\ \A t \in Sessions : sess[t].state # "changing"
      BY <1>3 DEF Inv, TalkInv
    <3>2. ~Underway({"established"})' /\ EstablishedOnce(reports)'
      BY <2>2 DEF Inv, TalkInv
    <3>3. ~AllFree /\ \A t \in Sessions : sess[t].state \notin {"ringing", "calling"}
      BY <1>3 DEF Inv, AloneInv
    <3>4. todo' # <<>>
      BY <1>4, <2>1, <3>1
    <3> QED
      BY <1>1, <1>4, <2>1, <2>3, <3>1, <3>2, <3>3, <3>4 DEF TalkInv
  <2> QED
    BY <2>3, <2>4, <2>5, <2>6 DEF Inv
<1> QED
  BY <1>5, <1>6
-----------------------------------------------------------------------------
\* Every step keeps the invariant.
LEMMA InvStep == Inv /\ [Next]_vars => Inv'
<1> SUFFICES ASSUME Inv, [Next]_vars PROVE Inv'
  OBVIOUS
<1>1. CASE UNCHANGED vars
  <2>1. /\ Members(reports)' = Members(reports) /\ EstablishedOnce(reports)' = EstablishedOnce(reports)
        /\ \A E : Underway(E)' <=> Underway(E)
    BY <1>1, SameReports DEF vars
  <2>2. TypeOK' /\ CommonInv'
    BY <1>1, <2>1 DEF vars, Inv, TypeOK, CommonInv, Session
  <2>3. Young' = Young /\ Finished' = Finished /\ AllFree' = AllFree
    BY <1>1, <2>1 DEF vars, Young, Finished, AllFree
  <2>4. AudioInv'
    BY <1>1, <2>3 DEF vars, Inv, AudioInv, AudioIn, ModeFits, Mode, Alone, BusyTransfer
  <2>5. AloneInv'
    BY <1>1, <2>1, <2>3 DEF vars, Inv, AloneInv, Alone, Session
  <2>6. ClosedInv' /\ HoldInv'
    BY <1>1 DEF vars, Inv, ClosedInv, HoldInv, Alone
  <2>7. TalkInv'
    BY <1>1, <2>1, <2>3 DEF vars, Inv, TalkInv, Alone
  <2> QED
    BY <2>2, <2>4, <2>5, <2>6, <2>7 DEF Inv
<1>2. ASSUME NEW s \in Sessions,
             \/ SessionAnswered(s) \/ SessionRefused(s) \/ SessionEnds(s)
             \/ PeerReinvites(s) \/ \E t \in Sessions : PeerRefers(s, t)
             \/ MakeCall(s) \/ AttachCall(s)
      PROVE  Inv'
  BY <1>2, ServiceStep, RefersStep, StartStep
<1>3. CASE AnswerCall \/ EndCall \/ CloseCall \/ TouchToggles
  BY <1>3, AnswerStep, EndStep, CloseStep, TogglesStep
<1>4. ASSUME NEW b \in BOOLEAN, ChangeCall(b) \/ OnTouch(b)
      PROVE  Inv'
  BY <1>4, ChangeStep, TouchStep
<1>5. CASE OnCallEstablished \/ ActivityEstablished \/ OnCallEnded \/ OnCallBusy
  BY <1>5, EstablishedStep, ActivityStep, EndedStep, BusyStep
<1>6. CASE OnFailure \/ OnRinging \/ OnCallTransferring
  BY <1>6, FailureStep, RingingStep, TransferringStep
<1> QED
  BY <1>1, <1>2, <1>3, <1>4, <1>5, <1>6 DEF Next

(***************************************************************************)
(* Every field of a call, and every report that the SIP service sends,     *)
(* keeps its type.                                                         *)
(***************************************************************************)
THEOREM CallTypes == Spec => []TypeOK
<1>1. Inv => TypeOK
  BY DEF Inv
<1> QED
  BY <1>1, InitInv, InvStep, PTL DEF Spec

(***************************************************************************)
(* AudioInCall and ModeRight: whatever order the UI thread and the binder  *)
(* thread come in, there is audio only in an established call, and in the  *)
(* mode that it asks for (startAudio, setAudioGroupMode, close).  Of a     *)
(* call that may be transferred to a busy peer they say nothing.           *)
(***************************************************************************)
THEOREM CallAudio == Spec => [](AudioInCall /\ ModeRight)
<1>1. Inv => AudioInCall /\ ModeRight
  BY DEF Inv, AudioInv, AudioIn, ModeFits, AudioInCall, ModeRight
<1> QED
  BY <1>1, InitInv, InvStep, PTL DEF Spec

(***************************************************************************)
(* EndCloses and ClosedStaysClosed: a call hears of the end of its session *)
(* and closes, and stays closed (onCallEnded, onError, close).             *)
(***************************************************************************)
THEOREM CallEnds == Spec => [](EndCloses /\ ClosedStaysClosed)
<1>1. Inv /\ Quiet => ~Underway(Ended)
  BY DEF Quiet, Underway, Members
<1>2. Inv => EndCloses /\ ClosedStaysClosed
  BY <1>1 DEF Inv, AloneInv, ClosedInv, Alone, Session, EndCloses, ClosedStaysClosed
<1> QED
  BY <1>2, InitInv, InvStep, PTL DEF Spec

(***************************************************************************)
(* HoldAgreed: with a peer that accepts every change, isOnHold tells what  *)
(* the two sides have agreed (holdCall, continueCall).                     *)
(***************************************************************************)
THEOREM CallHold == Spec => []HoldAgreed
<1>1. Inv => HoldAgreed
  BY DEF Inv, HoldInv, Alone, HoldAgreed
<1> QED
  BY <1>1, InitInv, InvStep, PTL DEF Spec

(***************************************************************************)
(* PushToTalk: with the button released nothing is heard of the user,      *)
(* however his touches and the reports of the SIP service interleave, if   *)
(* the first release comes after onCallEstablished has muted the call      *)
(* (MainActivity.onTouch, toggleMute).                                     *)
(***************************************************************************)
THEOREM CallTalk == Spec => []PushToTalk
<1>1. Inv => PushToTalk
  <2> SUFFICES ASSUME Inv, Quiet, Idle, call.stream = "joined", ~touch.pressed,
                      cfg.changes = {}, ~cfg.transfers, ~cfg.rash
               PROVE  call.mode # "normal"
    BY DEF PushToTalk
  <2>1. call.inCall /\ call.mode = Mode(call) /\ call.muted
    BY DEF Inv, AudioInv, AudioIn, ModeFits, BusyTransfer, TalkInv, Alone, Quiet, Idle
  <2> QED
    BY <2>1 DEF Mode
<1> QED
  BY <1>1, InitInv, InvStep, PTL DEF Spec
=============================================================================
