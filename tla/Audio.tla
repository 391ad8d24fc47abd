-------------------------------- MODULE Audio --------------------------------
(***************************************************************************)
(* The audio pipeline of one call (audio.c) and the threads that run       *)
(* through it: the re main loop, on which the call layer starts, changes   *)
(* and stops the pipeline; the threads of the audio source and the audio   *)
(* player (modules outside this repository, which call the read and write  *)
(* handlers); and, in thread mode, the transmit thread.                    *)
(*                                                                         *)
(* No lock protects the pipeline.  What orders the threads is that         *)
(* dropping a source or a player waits for its handler to return, and that *)
(* stop_tx joins the transmit thread.  A main-loop call is therefore split *)
(* where it waits, and where it replaces the encoder that the threads use, *)
(* and is one action otherwise.                                            *)
(***************************************************************************)
EXTENDS Naturals, Sequences

CONSTANTS
    Codecs,      \* the negotiated audio codecs, each with an encoder state
    Format,      \* sample rate and channels of each codec
    Events,      \* the format "telephone-event", which has no codec
    Null,        \* the NULL pointer
    Settings     \* the settings of a call that are looked at: see Setting

Failures == {"encoder", "decoder", "filter", "player", "source", "thread", "read"}
Formats  == {Format[ac] : ac \in Codecs}

\* The transmit mode ("thread" only with HAVE_PTHREAD), the lists of common
\* formats that an offer or answer leads to, whether an audio filter is
\* registered, and the calls that may fail.
Setting == [txmode : {"poll", "timer", "thread"},
            offers : SUBSET Seq(Codecs \cup {Events}),
            filters : BOOLEAN, fails : SUBSET Failures]

ASSUME AudioAssumption ==
    /\ Null \notin Codecs \cup Formats
    /\ Events \notin Codecs
    /\ Settings \subseteq Setting

VARIABLES
    cfg,         \* the setting of this call, which nothing changes
    fmts,        \* the formats that both sides know, the one to use first
    tx,          \* struct autx: codec, its state, source, buffer, filters, run
    rx,          \* struct aurx: codec, its state, player, buffer, filters, pt
    timer,       \* TRUE while the timer that sends RTP runs
    srcThread,   \* where the thread of the audio source is
    playThread,  \* where the thread of the audio player is
    txThread,    \* where the transmit thread is
    todo,        \* what the current call of the main loop has yet to do
    failed,      \* TRUE if a part of that call returned an error
    alive        \* FALSE once the audio object is freed

vars == <<cfg, fmts, tx, rx, timer, srcThread, playThread, txThread, todo,
          failed, alive>>

\* The codecs that offers, answers and RTP name.
Named == {ac \in Codecs : \E o \in cfg.offers : \E i \in DOMAIN o : o[i] = ac}

Operation == [op : {"encoder", "decoder"}, ac : Codecs]
             \cup [op : {"start", "reset", "cycle", "join", "source", "player", "free",
                         "filter", "encode"}]

TypeOK ==
    /\ cfg \in Settings
    /\ fmts \in Seq(Codecs \cup {Events})
    /\ tx \in [ac : Codecs \cup {Null}, enc : Codecs \cup {Null},
               src : Formats \cup {Null}, buf : BOOLEAN,
               filt : Formats \cup {Null}, run : BOOLEAN]
    /\ rx \in [ac : Codecs \cup {Null}, dec : Codecs \cup {Null},
               play : Formats \cup {Null}, buf : BOOLEAN,
               filt : Formats \cup {Null}, pt : Codecs \cup {Null}]
    /\ timer \in BOOLEAN /\ failed \in BOOLEAN /\ alive \in BOOLEAN
    /\ srcThread \in {"off", "idle", "write", "filter", "encode", "telev", "error"}
    /\ playThread \in {"off", "idle", "read"}
    /\ txThread \in {"off", "test", "filter", "encode"}
    /\ todo \in Seq(Operation)

\* audio_alloc: nothing runs before the call layer sets the codecs.
Init ==
    /\ cfg \in Settings
    /\ fmts = <<>>
    /\ tx = [ac |-> Null, enc |-> Null, src |-> Null, buf |-> FALSE,
             filt |-> Null, run |-> FALSE]
    /\ rx = [ac |-> Null, dec |-> Null, play |-> Null, buf |-> FALSE,
             filt |-> Null, pt |-> Null]
    /\ timer = FALSE /\ failed = FALSE /\ alive = TRUE
    /\ srcThread = "off" /\ playThread = "off" /\ txThread = "off"
    /\ todo = <<>>

SourceInHandler == srcThread \notin {"off", "idle"}
PlayerInHandler == playThread = "read"

\* !aucodec_equal(ac, old)
NewFormat(ac, old) == ~(old # Null /\ Format[ac] = Format[old])
-----------------------------------------------------------------------------
(***************************************************************************)
(* audio_start: the states in which it can leave the pipeline, given the   *)
(* codecs, devices and filters in t and r, each part failing or not.       *)
(***************************************************************************)
\* aufilt_setup waits for both codecs, and swallows the error of a filter.
FilterSetup(t, r) ==
    IF ~cfg.filters \/ Null \in {t.ac, r.ac} \/ t.filt # Null \/ r.filt # Null
    THEN {<<t, r>>}
    ELSE LET half == [t EXCEPT !.filt = Format[t.ac]]
         IN  {<<half, [r EXCEPT !.filt = Format[r.ac]]>>}
             \cup IF "filter" \in cfg.fails THEN {<<t, r>>, <<half, r>>} ELSE {}

StartPlayer(r) ==
    IF r.ac = Null \/ r.play # Null THEN {<<r, FALSE>>}
    ELSE LET ready == [r EXCEPT !.buf = TRUE]
         IN  {<<[ready EXCEPT !.play = Format[r.ac]], FALSE>>}
             \cup IF "player" \in cfg.fails THEN {<<ready, TRUE>>} ELSE {}

\* The transmit thread is created unless run says that there is one.
StartSource(t) ==
    IF t.ac = Null \/ t.src # Null THEN {<<t, FALSE, FALSE>>}
    ELSE LET ready  == [t EXCEPT !.buf = TRUE]
             opened == [ready EXCEPT !.src = Format[t.ac]]
             new    == cfg.txmode = "thread" /\ ~t.run
         IN  {<<[opened EXCEPT !.run = @ \/ new], FALSE, new>>}
             \cup (IF "source" \in cfg.fails THEN {<<ready, TRUE, FALSE>>} ELSE {})
             \cup (IF new /\ "thread" \in cfg.fails
                   THEN {<<[opened EXCEPT !.run = TRUE], TRUE, FALSE>>} ELSE {})

\* The pipeline is left in t and r, with the threads its devices then have.
Becomes(t, r, thread) ==
    /\ tx' = t /\ rx' = r
    /\ timer' = (timer \/ (cfg.txmode = "timer" /\ tx.src = Null /\ t.src # Null))
    /\ srcThread'  = IF t.src = Null THEN "off"
                     ELSE IF srcThread = "off" THEN "idle" ELSE srcThread
    /\ playThread' = IF r.play = Null THEN "off"
                     ELSE IF playThread = "off" THEN "idle" ELSE playThread
    /\ txThread'   = IF thread THEN "test" ELSE txThread

\* The filters, the source and the player, of which each may fail.
AudioStarts(t, r) ==
    \E f \in FilterSetup(t, r) :
        \E s \in StartSource(f[1]), p \in StartPlayer(f[2]) :
            /\ Becomes(s[1], p[1], s[3])
            /\ failed' = (failed \/ s[2] \/ p[2])
-----------------------------------------------------------------------------
(***************************************************************************)
(* The calls of the call layer, and of RTP, on the main loop.              *)
(***************************************************************************)
Idle == alive /\ todo = <<>>

Begin(ops) ==
    /\ Idle
    /\ todo' = ops
    /\ failed' = FALSE
    /\ UNCHANGED cfg

Encoder(ac) == [op |-> "encoder", ac |-> ac]
Decoder(ac) == [op |-> "decoder", ac |-> ac]
Op(name)    == [op |-> name]

\* The first common format (sdp_media_rformat) has a codec.
HasCodec(list) == list # <<>> /\ Head(list) # Events

\* call_stream_start: audio_start only if both codecs could be set.  When the
\* call is established (active) the streams are reset last.
StreamStart(active) ==
    /\ Begin((IF HasCodec(fmts)
              THEN <<Encoder(Head(fmts)), Decoder(Head(fmts)), Op("start")>> ELSE <<>>)
             \o IF active THEN <<Op("reset")>> ELSE <<>>)
    /\ UNCHANGED <<fmts, tx, rx, timer, srcThread, playThread, txThread, alive>>

\* update_media: an offer or an answer has been decoded.
UpdateMedia(offer) ==
    /\ fmts' = offer
    /\ Begin(IF HasCodec(offer)
             THEN <<Decoder(Head(offer)), Encoder(Head(offer))>> ELSE <<>>)
    /\ UNCHANGED <<tx, rx, timer, srcThread, playThread, txThread, alive>>

\* audio_encoder_cycle, if there is a common format at all.
EncoderCycle ==
    /\ fmts # <<>>
    /\ Begin(<<Op("cycle")>>)
    /\ UNCHANGED <<fmts, tx, rx, timer, srcThread, playThread, txThread, alive>>

\* timeout_tx starts its timer again and sends a frame.
TimeoutTx ==
    /\ timer
    /\ Begin(<<Op("filter"), Op("encode")>>)
    /\ UNCHANGED <<fmts, tx, rx, timer, srcThread, playThread, txThread, alive>>

\* stream_recv_handler, pt_handler: RTP with another payload type than before.
PayloadChanged(ac) ==
    /\ ac # rx.pt
    /\ Begin(<<Decoder(ac)>>)
    /\ rx' = [rx EXCEPT !.pt = ac]
    /\ UNCHANGED <<fmts, tx, timer, srcThread, playThread, txThread, alive>>

\* Mutant: stop_tx joins the transmit thread without clearing run.
StopTx_KeepsRun(ops) ==
    /\ Begin(<<Op("join"), Op("source"), Op("player")>> \o ops)
    /\ timer' = FALSE
    /\ UNCHANGED <<fmts, tx, rx, playThread, txThread, alive>>

\* The beginning of stop_tx; the waits and stop_rx follow.
StopTx(ops) ==
    /\ Begin(<<Op("join"), Op("source"), Op("player")>> \o ops)
    /\ tx' = [tx EXCEPT !.run = FALSE]
    /\ timer' = FALSE
    /\ UNCHANGED <<fmts, rx, playThread, txThread, alive>>

AudioStop == StopTx(<<>>) /\ UNCHANGED srcThread

AudioDestructor == StopTx(<<Op("free")>>) /\ UNCHANGED srcThread

\* ausrc_error_handler: the call layer ends the call, and with it the audio, in
\* the thread of the source itself.  The main loop is not followed any further.
SourceError ==
    /\ "read" \in cfg.fails
    /\ srcThread = "idle"
    /\ srcThread' = "error"
    /\ StopTx(<<Op("free")>>)
-----------------------------------------------------------------------------
(***************************************************************************)
(* The parts of those calls.                                               *)
(***************************************************************************)
Does(name) ==
    /\ todo # <<>>
    /\ Head(todo).op = name
    /\ todo' = Tail(todo)
    /\ UNCHANGED <<cfg, fmts, alive>>

\* Mutant: the encoder keeps the state of the codec before.
EncoderChange_KeepsState ==
    /\ todo # <<>> /\ Head(todo).op = "encoder"
    /\ LET ac    == Head(todo).ac
           reset == NewFormat(ac, tx.ac)
       IN  /\ ac # tx.ac
           /\ reset => ~SourceInHandler
           /\ Becomes([tx EXCEPT !.ac = ac, !.src = IF reset THEN Null ELSE @], rx, FALSE)
    /\ UNCHANGED <<cfg, fmts, todo, failed, alive>>

\* audio_encoder_set, until encupdh: with another codec the state of the former
\* one goes, and with a new format the source, which waits for its handler.
EncoderChange ==
    /\ todo # <<>> /\ Head(todo).op = "encoder"
    /\ LET ac    == Head(todo).ac
           reset == NewFormat(ac, tx.ac)
       IN  /\ ac # tx.ac
           /\ reset => ~SourceInHandler
           /\ Becomes([tx EXCEPT !.ac = ac, !.enc = Null,
                                 !.src = IF reset THEN Null ELSE @], rx, FALSE)
    /\ UNCHANGED <<cfg, fmts, todo, failed, alive>>

\* The rest of it: encupdh allocates a state unless there is one, and may fail.
EncoderSet ==
    /\ Does("encoder")
    /\ Head(todo).ac = tx.ac
    /\ LET full == [tx EXCEPT !.enc = IF @ = Null THEN tx.ac ELSE @]
       IN  \/ /\ "encoder" \in cfg.fails
              /\ Becomes(tx, rx, FALSE)
              /\ failed' = TRUE
           \/ /\ full.src = Null
              /\ AudioStarts(full, rx)
           \/ /\ full.src # Null
              /\ Becomes(full, rx, FALSE)
              /\ UNCHANGED failed

\* Mutant: the filters of the old format are kept.
DecoderSet_KeepsFilters ==
    /\ Does("decoder")
    /\ LET ac    == Head(todo).ac
           reset == NewFormat(ac, rx.ac)
           bare  == [rx EXCEPT !.ac = ac, !.pt = IF ac = rx.ac THEN @ ELSE ac,
                               !.dec = ac]
       IN  IF reset
           THEN ~PlayerInHandler /\ AudioStarts(tx, [bare EXCEPT !.play = Null])
           ELSE Becomes(tx, bare, FALSE) /\ UNCHANGED failed

\* audio_decoder_set.  With a new format the player and the filters restart.
DecoderSet ==
    /\ Does("decoder")
    /\ LET ac    == Head(todo).ac
           reset == NewFormat(ac, rx.ac)
           bare  == [rx EXCEPT !.ac = ac,
                               !.pt = IF ac = rx.ac THEN @ ELSE ac,
                               !.dec = IF ac = rx.ac THEN @ ELSE Null]
           full  == [bare EXCEPT !.dec = ac]
       IN  \/ /\ "decoder" \in cfg.fails
              /\ Becomes(tx, bare, FALSE)
              /\ failed' = TRUE
           \/ /\ reset /\ ~PlayerInHandler
              /\ AudioStarts(tx, [full EXCEPT !.play = Null, !.filt = Null])
           \/ /\ ~reset
              /\ Becomes(tx, full, FALSE)
              /\ UNCHANGED failed

\* The audio_start at the end of call_stream_start.
AudioStart ==
    /\ Does("start")
    /\ IF failed THEN Becomes(tx, rx, FALSE) /\ UNCHANGED failed
                 ELSE AudioStarts(tx, rx)

\* sdp_media_format_cycle: the first format goes to the end of the list, and
\* again while the next one is for telephone events.
FormatCycle ==
    /\ todo # <<>> /\ Head(todo) = Op("cycle")
    /\ fmts' = Append(Tail(fmts), Head(fmts))
    /\ todo' = IF HasCodec(fmts') THEN <<Encoder(Head(fmts'))>> ELSE todo
    /\ UNCHANGED <<cfg, tx, rx, timer, srcThread, playThread, txThread, failed, alive>>

\* stream_reset concerns the streams: see StreamSend and StreamReceive.
StreamsReset ==
    /\ Does("reset")
    /\ UNCHANGED <<tx, rx, timer, srcThread, playThread, txThread, failed>>

\* poll_aubuf_tx, on the main loop.
TimerSends ==
    /\ Does("filter") \/ Does("encode")
    /\ UNCHANGED <<tx, rx, timer, srcThread, playThread, txThread, failed>>

\* pthread_join in stop_tx.
JoinTx ==
    /\ Does("join")
    /\ txThread = "off"
    /\ UNCHANGED <<tx, rx, timer, srcThread, playThread, txThread, failed>>

\* Mutant: the buffer goes before the source.
DropSource_NoWait ==
    /\ Does("source")
    /\ Becomes([tx EXCEPT !.src = Null, !.buf = FALSE, !.filt = Null], rx, FALSE)
    /\ UNCHANGED failed

\* Mutant: the encode filters stay, so that aufilt_setup sees nothing to do.
DropSource_KeepsFilters ==
    /\ Does("source")
    /\ ~SourceInHandler
    /\ Becomes([tx EXCEPT !.src = Null, !.buf = FALSE], rx, FALSE)
    /\ UNCHANGED failed

\* "audio source must be stopped first", then its buffer and filters go.
DropSource ==
    /\ Does("source")
    /\ ~SourceInHandler
    /\ Becomes([tx EXCEPT !.src = Null, !.buf = FALSE, !.filt = Null], rx, FALSE)
    /\ UNCHANGED failed

\* stop_rx: "audio player must be stopped first".
DropPlayer ==
    /\ Does("player")
    /\ ~PlayerInHandler
    /\ Becomes(tx, [rx EXCEPT !.play = Null, !.buf = FALSE, !.filt = Null], FALSE)
    /\ UNCHANGED failed

\* The rest of audio_destructor.
Free ==
    /\ todo # <<>> /\ Head(todo).op = "free"
    /\ todo' = Tail(todo)
    /\ tx' = [tx EXCEPT !.enc = Null]
    /\ rx' = [rx EXCEPT !.dec = Null]
    /\ alive' = FALSE
    /\ UNCHANGED <<cfg, fmts, timer, srcThread, playThread, txThread, failed>>
-----------------------------------------------------------------------------
(***************************************************************************)
(* The other threads.  One frame of poll_aubuf_tx stands for the up to 16  *)
(* that the read handler sends in poll mode.                               *)
(***************************************************************************)
OnlyThreads == UNCHANGED <<cfg, fmts, tx, rx, timer, todo, failed, alive>>

\* ausrc_read_handler is called and writes to the buffer.
SourceCalls ==
    /\ srcThread = "idle"
    /\ srcThread' = "write"
    /\ OnlyThreads /\ UNCHANGED <<playThread, txThread>>

\* In poll mode it then sends what the buffer holds.  Last it sends telephone
\* events (check_telev).
SourceRuns ==
    /\ \/ srcThread = "write"  /\ srcThread' = "telev"
       \/ srcThread = "write"  /\ cfg.txmode = "poll" /\ srcThread' = "filter"
       \/ srcThread = "filter" /\ srcThread' = "encode"
       \/ srcThread = "encode" /\ srcThread' = "telev"
       \/ srcThread = "telev"  /\ srcThread' = "idle"
    /\ OnlyThreads /\ UNCHANGED <<playThread, txThread>>

PlayerCalls ==
    /\ playThread = "idle"
    /\ playThread' = "read"
    /\ OnlyThreads /\ UNCHANGED <<srcThread, txThread>>

\* auplay_write_handler.
PlayerReturns ==
    /\ playThread = "read"
    /\ playThread' = "idle"
    /\ OnlyThreads /\ UNCHANGED <<srcThread, txThread>>

\* tx_thread: poll_aubuf_tx for as long as run is set.
TxThread ==
    /\ \/ txThread = "test"   /\ txThread' = IF tx.run THEN "filter" ELSE "off"
       \/ txThread = "filter" /\ txThread' = "encode"
       \/ txThread = "encode" /\ txThread' = "test"
    /\ OnlyThreads /\ UNCHANGED <<srcThread, playThread>>
-----------------------------------------------------------------------------
Main ==
    \/ EncoderChange \/ EncoderSet \/ DecoderSet \/ AudioStart
    \/ FormatCycle \/ StreamsReset \/ TimerSends
    \/ JoinTx \/ DropSource \/ DropPlayer \/ Free

Next ==
    \/ \E active \in BOOLEAN : StreamStart(active)
    \/ \E offer \in cfg.offers : UpdateMedia(offer)
    \/ \E ac \in Named : PayloadChanged(ac)
    \/ EncoderCycle
    \/ AudioStop \/ AudioDestructor \/ SourceError
    \/ TimeoutTx
    \/ Main
    \/ SourceCalls \/ SourceRuns
    \/ PlayerCalls \/ PlayerReturns
    \/ TxThread

Spec == Init /\ [][Next]_vars

\* A handler and a thread run on, and so does the main loop: a device that it
\* drops is not called for ever, so its handler is out at some moment.
FairSpec ==
    /\ Spec
    /\ SF_vars(Main) /\ WF_vars(SourceRuns)
    /\ WF_vars(PlayerReturns) /\ WF_vars(TxThread)
=============================================================================
