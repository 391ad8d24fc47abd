--------------------------- MODULE AudioProperties ---------------------------
(***************************************************************************)
(* What must hold of Audio.tla.                                            *)
(***************************************************************************)
EXTENDS Audio

\* Some thread is at that place: the source, the sender, or a timer's handler.
At(place) ==
    place \in {srcThread, txThread} \/ (todo # <<>> /\ Head(todo) = Op(place))

Filtering == At("filter")
Encoding  == At("encode")

(***************************************************************************)
(* No step of the main loop frees the buffer, the filter or the encoder    *)
(* state that another thread is working with, and the audio object lives   *)
(* longer than its threads.  Only the order in which audio.c stops and     *)
(* drops things ensures it: there is no lock.                              *)
(***************************************************************************)
Untouched ==
    /\ SourceInHandler \/ Filtering => tx'.buf
    /\ Filtering /\ tx.filt # Null => tx'.filt = tx.filt
    /\ Encoding /\ tx.enc # Null => tx'.enc = tx.enc
    /\ PlayerInHandler => rx'.buf
    /\ ~alive' => {srcThread, playThread, txThread} = {"off"} /\ ~timer

NothingInUseIsFreed == [][Untouched]_vars

(***************************************************************************)
(* What is encoded is encoded with the state of the current encoder, by    *)
(* any thread that encodes, of the timer too.  When encupdh fails          *)
(* (audio.c) the former state is freed and nothing stops: then it is the   *)
(* current state or none, but never that of another codec.  It takes       *)
(* codecs that no thread encodes with while audio_encoder_set replaces     *)
(* them: between freeing a state and having the next it has none.  In poll *)
(* mode each codec must thus have a format of its own, with which the      *)
(* source is dropped, and in thread mode there must be one codec only.     *)
(***************************************************************************)
EncoderReady ==
    Encoding =>
        tx.enc \in {tx.ac} \cup IF "encoder" \in cfg.fails THEN {Null} ELSE {}

(***************************************************************************)
(* An open device runs in the format of the current codec, and the decode  *)
(* filter too, whatever order offers, answers and RTP change codecs in.    *)
(* Not so once decupdh failed: audio_decoder_set has set the codec, leaves *)
(* the player as it was, and does not see a new format the next time.      *)
(***************************************************************************)
FormatsAgree ==
    /\ tx.src # Null => tx.src = Format[tx.ac]
    /\ "decoder" \notin cfg.fails =>
          /\ rx.play # Null => rx.play = Format[rx.ac]
          /\ rx.filt # Null => rx.filt = Format[rx.ac]

(***************************************************************************)
(* A call of the main loop comes back: it never waits for ever for a       *)
(* thread that itself waits, or that nobody told to stop.  Not so where    *)
(* the source reports an error: its thread then ends the call, and with it *)
(* waits for itself; nor where telephone events are the only common        *)
(* format, in which audio_encoder_cycle looks for another one for ever.    *)
(***************************************************************************)
CallsReturn ==
    /\ todo # <<>>
    /\ "read" \notin cfg.fails /\ <<Events>> \notin cfg.offers
    ~> todo = <<>>

(***************************************************************************)
(* "Processing decoder pipeline" (audio.c): once a stream that has filters *)
(* is started, what the player plays has gone through them.  It takes a    *)
(* single format: audio_decoder_set flushes the filters of the decoding    *)
(* side only, and aufilt_setup sets up both sides or none.                 *)
(***************************************************************************)
SingleFormat == \A ac, bc \in Named : Format[ac] = Format[bc]

DecodePipeline ==
    /\ Idle /\ cfg.filters /\ "filter" \notin cfg.fails /\ SingleFormat
    /\ Null \notin {tx.src, rx.play}
    => rx.filt # Null
=============================================================================
