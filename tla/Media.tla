-------------------------------- MODULE Media --------------------------------
(***************************************************************************)
(* The audio pipeline of a call together with the stream that it sends     *)
(* through: what call.c asks of both, in the order in which it does.  Any  *)
(* of three threads may send: that of the audio source (telephone events,  *)
(* and in poll mode all audio), the transmit thread, and the main loop (in *)
(* timer mode), which also frees and replaces the keepalive of the stream. *)
(***************************************************************************)
EXTENDS Audio

CONSTANTS Keeps, SendSettings, MaxSilent    \* see StreamSend

VARIABLES
    scfg, peer, held, takes, ptEnc, keep, flag, sending, holds, sent, silent,
    up           \* TRUE once the call is established

Senders == {"source", "tx", "main"}

S == INSTANCE StreamSend

ASSUME MediaAssumption ==
    /\ Null \notin Keeps \cup BOOLEAN
    /\ SendSettings \subseteq S!Setting
    /\ MaxSilent \in Nat

streamVars == <<scfg, peer, held, takes, ptEnc, keep, flag, sending, holds, sent, silent>>
mediaVars  == <<vars, streamVars, up>>

MediaTypeOK == TypeOK /\ S!TypeOK /\ up \in BOOLEAN

MediaInit == Init /\ S!Init /\ up = FALSE
-----------------------------------------------------------------------------
(***************************************************************************)
(* The call layer.  A call of audio.c that does not reach the stream       *)
(* leaves it as it is, and the other way round.                            *)
(***************************************************************************)
AudioOnly  == UNCHANGED <<streamVars, up>>
StreamOnly == UNCHANGED <<vars, up>>

\* call_progress, sipsess_progr_handler: early media.
EarlyStart == ~up /\ StreamStart(FALSE) /\ AudioOnly

\* Mutant: a second answer establishes the call again.
Established_Again == StreamStart(TRUE) /\ up' = TRUE /\ UNCHANGED streamVars

\* sipsess_estab_handler returns at once if the call is already established.
Established ==
    /\ ~up
    /\ StreamStart(TRUE)
    /\ up' = TRUE
    /\ UNCHANGED streamVars

\* update_media: stream_update comes before the codecs are set.  Without a
\* common format the stream has no payload type to send with.
MediaUpdated(offer, dir) ==
    /\ UpdateMedia(offer)
    /\ S!StreamUpdate(offer # <<>>, dir)
    /\ UNCHANGED up

Hold(hold) == Idle /\ S!StreamHold(hold) /\ StreamOnly

Keepalive == Idle /\ S!Timeout /\ StreamOnly

Stop == AudioStop /\ AudioOnly

\* call_destructor frees the audio, which frees the stream last.
Destroy == AudioDestructor /\ AudioOnly
-----------------------------------------------------------------------------
(***************************************************************************)
(* The parts of those calls in which the stream has a part, and the        *)
(* threads.  A thread that is within stream_send goes nowhere else.        *)
(***************************************************************************)
Reset == StreamsReset /\ S!StreamReset /\ UNCHANGED up

Freed == Free /\ S!StreamDestroyed /\ UNCHANGED up

\* encode_rtp_send and check_telev: not every frame is sent at once.
MaySend(t) ==
    \/ t = "source" /\ srcThread \in {"encode", "telev"}
    \/ t = "tx"     /\ txThread = "encode"
    \/ t = "main"   /\ todo # <<>> /\ Head(todo) = Op("encode")

Sends(t) == MaySend(t) /\ S!StreamSend(t) /\ StreamOnly

Refreshes(t) == S!Refresh(t) /\ StreamOnly

MainLoop ==
    /\ \/ EncoderChange \/ EncoderSet \/ DecoderSet \/ AudioStart \/ FormatCycle
       \/ JoinTx \/ DropSource \/ DropPlayer
       \/ TimerSends /\ "main" \notin sending
    /\ AudioOnly

Threads ==
    /\ \/ SourceCalls
       \/ SourceRuns /\ "source" \notin sending
       \/ PlayerCalls \/ PlayerReturns
       \/ TxThread /\ "tx" \notin sending
    /\ AudioOnly
-----------------------------------------------------------------------------
MediaNext ==
    \/ EarlyStart \/ Established
    \/ \E offer \in cfg.offers, dir \in BOOLEAN : MediaUpdated(offer, dir)
    \/ \E hold \in BOOLEAN : Hold(hold)
    \/ \E ac \in Named : PayloadChanged(ac) /\ AudioOnly
    \/ EncoderCycle /\ AudioOnly
    \/ TimeoutTx /\ AudioOnly
    \/ Keepalive \/ Stop \/ Destroy
    \/ Reset \/ Freed
    \/ \E t \in Senders : Sends(t) \/ Refreshes(t)
    \/ MainLoop \/ Threads

MediaSpec == MediaInit /\ [][MediaNext]_mediaVars
-----------------------------------------------------------------------------
(***************************************************************************)
(* Memory.  The stream has one keepalive at most, no other is left, and    *)
(* none is left when the stream is gone.                                   *)
(***************************************************************************)
OneKeepalive ==
    /\ \A k \in Keeps : flag[k] # Null => k = keep
    /\ ~alive => \A k \in Keeps : flag[k] = Null

(***************************************************************************)
(* A handler "may be called from any thread" (audio.c): whichever thread   *)
(* is within stream_send, the stream is not freed under it, nor is the     *)
(* keepalive that it is about to refresh.  stream_reset does replace the   *)
(* keepalive without a lock: it is safe only because the call layer gets   *)
(* there once in the life of a call, when there is no keepalive yet.       *)
(***************************************************************************)
SendersLive ==
    /\ sending # {} => alive
    /\ \A t \in sending : holds[t] # Null => flag[holds[t]] # Null

(***************************************************************************)
(* The NAT binding of a stream that has a keepalive is refreshed, by RTP   *)
(* or by a keepalive, in one of any two periods of the timer: if no RTP    *)
(* was sent, "start transmitting RTP keepalives now and every 15 seconds   *)
(* after that" (rtpkeep.c).  With two threads apart from the main loop,    *)
(* each may be late with its refresh once.                                 *)
(* Not so where a keepalive fails or the method is "rtcp", which sends     *)
(* none; nor where rtp_send fails, or there is no format and nothing to    *)
(* send: stream_send sets the flag all the same, though it "is set for     *)
(* every transmitted RTP packet" (rtpkeep.c).                              *)
(***************************************************************************)
Transmits == scfg.method # "rtcp" /\ scfg.fails \subseteq {"alloc"}

BindingKept ==
    Transmits /\ <<>> \notin cfg.offers
    => silent <= IF cfg.txmode = "thread" THEN 2 ELSE 1
=============================================================================
