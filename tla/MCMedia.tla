------------------------------- MODULE MCMedia -------------------------------
(***************************************************************************)
(* Instances of Media for TLC: a codec and telephone events in each        *)
(* transmit mode, and media that the peer may reject; two keepalives, so   *)
(* that a freed one may be allocated again at once, or not.                *)
(***************************************************************************)
EXTENDS Media, TLC

CONSTANTS gsm, telev, k1, k2

OneCodec      == {gsm}
FormatOfCodec == gsm :> "8k"
TwoKeeps      == {k1, k2}

Mode(txmode) ==
    [txmode |-> txmode, offers |-> {<<gsm, telev>>}, filters |-> FALSE,
     fails |-> {}]

AudioSettings ==
    {Mode(m) : m \in {"poll", "timer", "thread"}}
    \cup {[Mode("poll") EXCEPT !.offers = @ \cup {<<>>}]}

StreamSettings ==
    [method : {"zero", "rtcp"}, fails : {{"alloc"}, {"alloc", "send", "keepalive"}}]
    \cup {[method |-> "stun", fails |-> {}], [method |-> Null, fails |-> {}]}
=============================================================================
