------------------------------- MODULE MCAudio -------------------------------
(***************************************************************************)
(* Instances of AudioProperties for TLC: two codecs that share a format,   *)
(* and one with its own.                                                   *)
(***************************************************************************)
EXTENDS AudioProperties, TLC

CONSTANTS gsm, ilbc, opus, telev

AllCodecs     == {gsm, ilbc, opus}
FormatOfCodec == (gsm :> "8k") @@ (ilbc :> "8k") @@ (opus :> "48k")

Devices == {"player", "source"}

AllOffers == {<<gsm, telev, opus>>, <<ilbc>>}

\* In poll mode the codecs have a format each (for those that share one see
\* Swap); in thread mode there is one codec, as the transmit thread is not
\* stopped while the encoder changes; in timer mode, all.
Polls ==
    [txmode |-> "poll", offers |-> {<<gsm, telev>>, <<opus>>}, filters |-> TRUE,
     fails |-> Devices \cup {"filter"}]
PollsFail == [Polls EXCEPT !.fails = @ \cup {"encoder", "decoder"}]
Times ==
    [txmode |-> "timer", offers |-> AllOffers, filters |-> FALSE,
     fails |-> Devices \cup {"encoder", "decoder", "read"}]
TimesFilters ==
    [txmode |-> "timer", offers |-> AllOffers, filters |-> TRUE,
     fails |-> {}]
Filters ==
    [txmode |-> "timer", offers |-> {<<telev, gsm>>, <<ilbc>>}, filters |-> TRUE,
     fails |-> Devices]
Thread ==
    [txmode |-> "thread", offers |-> {<<gsm>>}, filters |-> TRUE,
     fails |-> Devices \cup {"filter"}]
NoThread ==
    [txmode |-> "thread", offers |-> {<<gsm>>}, filters |-> FALSE,
     fails |-> {"thread"}]
Swap ==
    [txmode |-> "poll", offers |-> AllOffers, filters |-> FALSE,
     fails |-> {}]

Disabled ==
    [txmode |-> "poll", offers |-> {<<>>, <<telev>>, <<gsm>>}, filters |-> FALSE,
     fails |-> {}]

AllSettings == {Disabled, Polls, PollsFail, Times, TimesFilters, Filters, Thread, NoThread}
SwapSetting == {Swap}
=============================================================================
