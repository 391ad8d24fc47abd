---------------------------- MODULE StreamReceive ----------------------------
(***************************************************************************)
(* The receiving half of a media stream (rtp_recv and lostcalc, stream.c). *)
(* A packet is the source that sent it and its place in the order of       *)
(* sending; the stream sees only its sequence number, the place modulo     *)
(* Modulus.  The network loses, repeats and reorders packets.              *)
(***************************************************************************)
EXTENDS Naturals, FiniteSets

CONSTANTS
    Sources,   \* the synchronisation sources; an SSRC of 0 is not among them
    Null,      \* no source yet (s->ssrc_rx == 0)
    NoSeq,     \* no sequence number yet (s->pseq == -1)
    Modulus,   \* sequence numbers are counted modulo this (2^16)
    Dropout,   \* a gap from which on the stream starts afresh (3000)
    Misorder,  \* a packet as late as that is merely late (100)
    MaxLate,   \* bound: no packet comes later than that many places
    Settings   \* the settings of a stream that are looked at: see Setting

\* The sources that send, the frames that the jitter buffer holds back (0: the
\* stream has none), and as bounds how many packets the network loses in a row
\* and how many a source sends.
Setting == [sources : SUBSET Sources, minJbuf : Nat,
            maxGap : Nat \ {0}, maxPlace : Nat \ {0}]

ASSUME ReceiveAssumption ==
    /\ Null \notin Sources /\ IsFiniteSet(Sources)
    /\ {Modulus, Dropout, Misorder, MaxLate} \subseteq Nat \ {0}
    /\ Settings \subseteq Setting
    /\ NoSeq \notin 0..(Modulus - 1)
    /\ Dropout + Misorder < Modulus

VARIABLES
    cfg,      \* the setting of this stream, which nothing changes
    ssrc,     \* s->ssrc_rx
    pseq,     \* s->pseq
    jbuf,     \* the packets in the jitter buffer
    given,    \* the place of the last packet the jitter buffer gave out
    started,  \* s->jbuf_started
    held,     \* TRUE while the local direction is sendonly (stream_hold)
    newest,   \* the latest place seen of the current source, and 0 for none
    lossy     \* the packet that was last passed on, and if a loss came before

vars == <<cfg, ssrc, pseq, jbuf, given, started, held, newest, lossy>>

Places == 1..cfg.maxPlace

TypeOK ==
    /\ cfg \in Settings
    /\ ssrc \in Sources \cup {Null}
    /\ pseq \in 0..(Modulus - 1) \cup {NoSeq}
    /\ jbuf \subseteq [ssrc : Sources, place : Places]
    /\ {given, newest} \subseteq 0..cfg.maxPlace
    /\ {started, held} \subseteq BOOLEAN
    /\ lossy \in [place : 0..cfg.maxPlace, gap : Nat, loss : BOOLEAN]

Init ==
    /\ cfg \in Settings
    /\ ssrc = Null /\ pseq = NoSeq
    /\ jbuf = {} /\ given = 0 /\ started = FALSE
    /\ held = FALSE
    /\ newest = 0
    /\ lossy = [place |-> 0, gap |-> 1, loss |-> FALSE]

SeqNo(place) == place % Modulus
-----------------------------------------------------------------------------
\* Mutant: a gap of one is a loss too.
LostCalc_OffByOne(seq) ==
    LET delta == (seq + Modulus - pseq) % Modulus
    IN  IF pseq = NoSeq THEN [lost |-> FALSE, pseq |-> seq]
        ELSE IF delta = 0 \/ delta >= Modulus - Misorder
        THEN [lost |-> FALSE, pseq |-> pseq]
        ELSE [lost |-> delta < Dropout, pseq |-> seq]

\* Mutant: a late packet sets the sequence number back.
LostCalc_Backwards(seq) ==
    LET delta == (seq + Modulus - pseq) % Modulus
    IN  IF pseq = NoSeq THEN [lost |-> FALSE, pseq |-> seq]
        ELSE IF delta = 0 THEN [lost |-> FALSE, pseq |-> pseq]
        ELSE [lost |-> delta \in 2..(Dropout - 1), pseq |-> seq]

\* lostcalc: whether packets were lost before seq, and the new s->pseq.
LostCalc(seq) ==
    LET delta == (seq + Modulus - pseq) % Modulus
    IN  IF pseq = NoSeq THEN [lost |-> FALSE, pseq |-> seq]
        ELSE IF delta = 0 \/ delta >= Modulus - Misorder
        THEN [lost |-> FALSE, pseq |-> pseq]
        ELSE [lost |-> delta \in 2..(Dropout - 1), pseq |-> seq]

\* The end of rtp_recv: the packet goes to audio, after a loss if there was one.
Pass(place, seq, base) ==
    LET calc == LostCalc(seq)
    IN  /\ pseq' = calc.pseq
        /\ lossy' = [place |-> place,
                     gap   |-> IF base = 0 \/ place < base THEN 1 ELSE place - base,
                     loss  |-> calc.lost]

Highest(a, b) == IF a > b THEN a ELSE b

\* The network delivers a packet, unless it was too unkind to the source.
Arrives(p) ==
    /\ p.place \in Places
    /\ ssrc = p.ssrc /\ newest # 0 =>
          p.place <= newest + cfg.maxGap /\ p.place + MaxLate >= newest

\* rtp_recv without a jitter buffer.
RtpRecv(p) ==
    /\ cfg.minJbuf = 0
    /\ ~held
    /\ Arrives(p)
    /\ ssrc' = p.ssrc
    /\ LET base == IF ssrc = p.ssrc THEN newest ELSE 0
       IN  /\ Pass(p.place, SeqNo(p.place), base)
           /\ newest' = Highest(base, p.place)
    /\ UNCHANGED <<cfg, jbuf, given, started, held>>

\* Mutant: the jitter buffer is not flushed for another source.
Kept_Always(p) == jbuf

\* What is left in the jitter buffer when p arrives.
Kept(p) == IF ssrc \in {Null, p.ssrc} THEN jbuf ELSE {}

\* jbuf_put: a packet that was given out, or is there, is refused.
Put(p, kept, from) ==
    IF p.place <= from \/ p \in kept THEN kept ELSE kept \cup {p}

\* rtp_recv with one.  An underflow passes on a header that is all zero.
RtpRecvJbuf(p) ==
    /\ cfg.minJbuf > 0
    /\ ~held
    /\ Arrives(p)
    /\ ssrc' = p.ssrc
    /\ LET same == ssrc = p.ssrc
           base == IF same THEN newest ELSE 0
           from == IF same THEN given ELSE 0
           full == Put(p, Kept(p), from)
           head == CHOOSE q \in full : \A r \in full : q.place <= r.place
       IN  /\ newest' = Highest(base, p.place)
           /\ IF Cardinality(full) > cfg.minJbuf
              THEN /\ jbuf' = full \ {head}
                   /\ given' = head.place
                   /\ started' = TRUE
                   /\ Pass(head.place, SeqNo(head.place), from)
              ELSE /\ jbuf' = full
                   /\ given' = from
                   /\ UNCHANGED started
                   /\ IF started THEN Pass(from, 0, from)
                                 ELSE UNCHANGED <<pseq, lossy>>
    /\ UNCHANGED <<cfg, held>>

StreamHold(hold) ==
    /\ held' = hold
    /\ UNCHANGED <<cfg, ssrc, pseq, jbuf, given, started, newest, lossy>>

\* stream_reset: the call is established.
StreamReset ==
    /\ jbuf' = {} /\ given' = 0
    /\ UNCHANGED <<cfg, ssrc, pseq, started, held, newest, lossy>>
-----------------------------------------------------------------------------
Packets == [ssrc : cfg.sources, place : Places]

Next ==
    \/ \E p \in Packets : RtpRecv(p) \/ RtpRecvJbuf(p)
    \/ \E hold \in BOOLEAN : StreamHold(hold)
    \/ StreamReset

Spec == Init /\ [][Next]_vars
-----------------------------------------------------------------------------
\* One source, and no jitter buffer that may run empty.
Plain == cfg.minJbuf = 0 /\ Cardinality(cfg.sources) = 1

(***************************************************************************)
(* The sequence number follows the newest packet of the source through     *)
(* wrap-around, loss, repetition and reordering.  It is plain sources that *)
(* this is true of: a jitter buffer that runs empty hands lostcalc a       *)
(* header that is all zero, so that pseq becomes 0 though no packet had    *)
(* that number, and a change of source does not reset pseq.                *)
(***************************************************************************)
FollowsNewest == Plain /\ newest # 0 => pseq = SeqNo(newest)

(***************************************************************************)
(* The decoder conceals a loss exactly when packets are missing between    *)
(* the packet and the newest before it, unless so many that the stream     *)
(* starts afresh.  A repeated or late packet is never taken for a loss.    *)
(***************************************************************************)
LossExact == Plain => (lossy.loss <=> lossy.gap \in 2..(Dropout - 1))

(***************************************************************************)
(* The jitter buffer never mixes the packets of two sources.               *)
(***************************************************************************)
OneSource == \A p \in jbuf : p.ssrc = ssrc
=============================================================================
