------------------------------ MODULE StreamSend ------------------------------
(***************************************************************************)
(* The sending half of a media stream (stream.c) and its RTP keepalive     *)
(* (rtpkeep.c).  The main loop negotiates the stream, replaces the         *)
(* keepalive when the call is established and runs its timer.  Several     *)
(* threads send through the stream, so a call of stream_send is two steps: *)
(* the packet, and the refresh of the keepalive.  Media.tla has the audio  *)
(* pipeline make these calls.                                              *)
(***************************************************************************)
EXTENDS Naturals

CONSTANTS
    Senders,   \* the threads that send RTP
    Keeps,     \* the keepalive objects (struct rtpkeep) memory has room for
    Null,      \* the NULL pointer
    SendSettings,  \* the settings of a stream that are looked at: see Setting
    MaxSilent  \* bound: a stream is not followed beyond so many silent periods

Methods  == {"zero", "stun", "dyna", "rtcp"}
Failures == {"alloc", "send", "keepalive"}

\* The keepalive method of the account, and the calls that may fail.
Setting == [method : Methods \cup {Null}, fails : SUBSET Failures]

VARIABLES
    scfg,     \* the setting of this stream, which nothing changes
    peer,    \* TRUE once the address of the peer is known
    held,    \* TRUE while the local direction is sendonly (stream_hold)
    takes,   \* TRUE while the peer sends and receives
    ptEnc,   \* TRUE while the encoder has a payload type (s->pt_enc >= 0)
    keep,    \* the keepalive of the stream (s->rtpkeep)
    flag,    \* the flag of each keepalive object; the freed ones are Null
    sending, \* the threads that are within stream_send
    holds,   \* the keepalive that each of them is about to refresh
    sent,    \* TRUE if RTP was transmitted since the timer last fired
    silent   \* how often in a row the timer left the binding unrefreshed

vars == <<scfg, peer, held, takes, ptEnc, keep, flag, sending, holds,
          sent, silent>>

TypeOK ==
    /\ scfg \in SendSettings
    /\ {peer, held, takes, ptEnc, sent} \subseteq BOOLEAN
    /\ keep \in Keeps \cup {Null}
    /\ sending \subseteq Senders /\ holds \in [Senders -> Keeps \cup {Null}]
    /\ flag \in [Keeps -> BOOLEAN \cup {Null}]
    /\ silent \in 0..MaxSilent

Init ==
    /\ scfg \in SendSettings
    /\ peer = FALSE /\ held = FALSE /\ takes = FALSE /\ ptEnc = FALSE /\ sent = FALSE
    /\ keep = Null /\ sending = {} /\ holds = [t \in Senders |-> Null]
    /\ flag = [k \in Keeps |-> Null]
    /\ silent = 0

\* sdp_media_dir(s->sdp) == SDP_SENDRECV
Active == takes /\ ~held
-----------------------------------------------------------------------------
(***************************************************************************)
(* The main loop.                                                          *)
(***************************************************************************)
\* stream_update, stream_update_encoder: an offer or answer was decoded, with a
\* format that both sides know or, if the peer rejects the media, without.
StreamUpdate(format, dir) ==
    /\ peer' = TRUE
    /\ ptEnc' = format
    /\ takes' = dir
    /\ UNCHANGED <<scfg, held, keep, flag, sending, holds, sent, silent>>

StreamHold(hold) ==
    /\ held' = hold
    /\ UNCHANGED <<scfg, peer, takes, ptEnc, keep, flag, sending, holds, sent, silent>>

\* stream_reset, stream_start_keepalive: the keepalive starts from nothing.
StreamReset ==
    /\ LET freed == [k \in Keeps |-> IF k = keep THEN Null ELSE flag[k]]
       IN  \/ /\ scfg.method # Null /\ ptEnc
              /\ \E k \in Keeps : /\ freed[k] = Null
                                  /\ flag' = [freed EXCEPT ![k] = FALSE]
                                  /\ keep' = k
           \/ /\ scfg.method = Null \/ ~ptEnc \/ "alloc" \in scfg.fails
              /\ flag' = freed
              /\ keep' = Null
    /\ UNCHANGED <<scfg, peer, held, takes, ptEnc, sending, holds, sent, silent>>

\* Mutant: the keepalive outlives the stream.
StreamDestroyed_Leaks ==
    /\ keep' = Null
    /\ UNCHANGED <<scfg, peer, held, takes, ptEnc, flag, sending, holds, sent, silent>>

\* stream_destructor.
StreamDestroyed ==
    /\ flag' = [k \in Keeps |-> IF k = keep THEN Null ELSE flag[k]]
    /\ keep' = Null
    /\ UNCHANGED <<scfg, peer, held, takes, ptEnc, sending, holds, sent, silent>>

\* send_keepalive: "rtcp" sends nothing, the others one packet.
Refreshes == scfg.method \in {"zero", "stun", "dyna"} /\ "keepalive" \notin scfg.fails

\* Mutant: the flag is not cleared.
Timeout_KeepsFlag ==
    /\ keep # Null
    /\ sent' = FALSE
    /\ silent' = IF sent \/ (~flag[keep] /\ Refreshes) THEN 0 ELSE silent + 1
    /\ silent' <= MaxSilent
    /\ UNCHANGED <<scfg, peer, held, takes, ptEnc, keep, flag, sending, holds>>

\* timeout: every 15 seconds, and 20 ms after the keepalive was allocated.
Timeout ==
    /\ keep # Null
    /\ flag' = [flag EXCEPT ![keep] = FALSE]
    /\ sent' = FALSE
    /\ silent' = IF sent \/ (~flag[keep] /\ Refreshes) THEN 0 ELSE silent + 1
    /\ silent' <= MaxSilent
    /\ UNCHANGED <<scfg, peer, held, takes, ptEnc, keep, sending, holds>>
-----------------------------------------------------------------------------
(***************************************************************************)
(* The threads that send.                                                  *)
(***************************************************************************)
\* stream_send up to rtp_send, with the pointer to the keepalive loaded.
StreamSend(t) ==
    /\ t \notin sending
    /\ peer /\ Active
    /\ sending' = sending \cup {t}
    /\ holds' = [holds EXCEPT ![t] = keep]
    /\ \/ /\ ptEnc
          /\ sent' = TRUE
       \/ /\ ~ptEnc \/ "send" \in scfg.fails
          /\ sent' = sent
    /\ UNCHANGED <<scfg, peer, held, takes, ptEnc, keep, flag, silent>>

\* rtpkeep_refresh.
Refresh(t) ==
    /\ t \in sending
    /\ flag' = [k \in Keeps |-> IF k = holds[t] /\ flag[k] # Null THEN TRUE ELSE flag[k]]
    /\ sending' = sending \ {t}
    /\ holds' = [holds EXCEPT ![t] = Null]
    /\ UNCHANGED <<scfg, peer, held, takes, ptEnc, keep, sent, silent>>
=============================================================================
