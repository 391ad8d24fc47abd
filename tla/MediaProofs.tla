------------------------------ MODULE MediaProofs ------------------------------
(***************************************************************************)
(* Proofs about Audio.tla and Media.tla, for any codecs and formats, any   *)
(* offers, all three transmit modes and whatever fails.                    *)
(***************************************************************************)
EXTENDS Media, AudioProperties, SequenceTheorems, TLAPS

(***************************************************************************)
(* What a call of the main loop has yet to do.  No part comes twice, what  *)
(* sets a codec sets one that an offer names, the join comes first, the    *)
(* source before the player, and what frees the audio object or resets the *)
(* streams comes last.                                                     *)
(***************************************************************************)
OpsOf(s) == {s[i].op : i \in DOMAIN s}

Ops == OpsOf(todo)

InOrder(s) ==
    /\ \A i \in DOMAIN s :
          /\ s[i].op = "join" => i = 1
          /\ s[i].op \in {"free", "reset"} => i = Len(s)
          /\ s[i].op \in {"encoder", "decoder"} => s[i].ac \in Named
    /\ \A i, j \in DOMAIN s :
          /\ s[i].op = s[j].op => i = j
          /\ s[i].op = "source" /\ s[j].op = "player" => i < j

TodoInv ==
    /\ InOrder(todo)
    /\ "cycle" \in Ops => fmts # <<>>
    /\ \A i \in DOMAIN fmts : fmts[i] \in Named \cup {Events}

(***************************************************************************)
(* An open device has its codec, its format, its buffer and its thread,    *)
(* and what sends has the buffer that it sends from.                       *)
(***************************************************************************)
SourceInv ==
    /\ tx.ac \in Named \cup {Null}
    /\ srcThread = "off" <=> tx.src = Null
    /\ tx.src # Null => tx.buf /\ tx.ac # Null /\ tx.src = Format[tx.ac]
    /\ timer => tx.buf /\ cfg.txmode = "timer"
    /\ srcThread \in {"filter", "encode"} => cfg.txmode = "poll"
    /\ txThread # "off" =>
          /\ cfg.txmode = "thread" /\ tx.buf /\ tx.ac # Null
          /\ tx.run \/ "join" \in Ops
    /\ {"filter", "encode"} \cap Ops # {} => tx.buf

(***************************************************************************)
(* The encoder has its state, unless none could be allocated or the main   *)
(* loop is about to.                                                       *)
(***************************************************************************)
Changing == todo # <<>> /\ Head(todo).op = "encoder"

EncInv ==
    alive => \/ tx.enc = tx.ac
             \/ tx.enc = Null /\ ("encoder" \in cfg.fails \/ Changing)

PlayerInv ==
    /\ rx.ac \in Named \cup {Null}
    /\ playThread = "off" <=> rx.play = Null
    /\ rx.play # Null => rx.buf /\ rx.ac # Null
    /\ "decoder" \notin cfg.fails =>
          /\ rx.play # Null => rx.play = Format[rx.ac]
          /\ rx.filt # Null => rx.filt = Format[rx.ac]

(***************************************************************************)
(* While the audio is being stopped, and once it is freed, nothing starts, *)
(* and what has been stopped or dropped is away.                           *)
(***************************************************************************)
StopOps == {"join", "source", "player", "free"}

Quiet == Ops \cap StopOps # {} \/ ~alive

QuietInv ==
    /\ Quiet =>
          /\ Ops \subseteq StopOps
          /\ ~timer /\ ~tx.run
          /\ "join" \notin Ops => txThread = "off"
          /\ "source" \notin Ops => tx.src = Null /\ tx.filt = Null
          /\ "player" \notin Ops => rx.play = Null /\ rx.filt = Null
    /\ ~alive => todo = <<>>

(***************************************************************************)
(* Where filters work and all codecs have one format, both sides have      *)
(* filters or none has, unless the audio is being stopped, and a pipeline  *)
(* that runs in both directions has them.                                  *)
(***************************************************************************)
PipeInv ==
    cfg.filters /\ "filter" \notin cfg.fails /\ SingleFormat =>
        /\ (tx.filt = Null <=> rx.filt = Null) \/ "player" \in Ops
        /\ tx.filt # Null \/ rx.filt # Null => rx.ac # Null
        /\ tx.src # Null /\ rx.play # Null => rx.filt # Null

Inv == TypeOK /\ TodoInv /\ SourceInv /\ EncInv /\ PlayerInv /\ QuietInv /\ PipeInv
-----------------------------------------------------------------------------
(***************************************************************************)
(* What the calls of the call layer have to do, and what is left of it     *)
(* when a part is done.                                                    *)
(***************************************************************************)
LEMMA OperationFacts ==
    /\ \A ac \in Codecs : /\ Encoder(ac) \in Operation /\ Decoder(ac) \in Operation
                          /\ Encoder(ac).op = "encoder" /\ Encoder(ac).ac = ac
                          /\ Decoder(ac).op = "decoder" /\ Decoder(ac).ac = ac
    /\ \A name \in {"start", "reset", "cycle", "join", "source", "player", "free",
                    "filter", "encode"} : Op(name) \in Operation /\ Op(name).op = name
    /\ \A o \in Operation : o.op \in {"encoder", "decoder"} => o.ac \in Codecs
BY DEF Operation, Encoder, Decoder, Op

LEMMA NothingToDo == OpsOf(<<>>) = {} /\ <<>> \in Seq(Operation) /\ InOrder(<<>>)
BY DEF OpsOf, InOrder

LEMMA OneToDo ==
    ASSUME NEW a \in Operation,
           a.op \in {"encoder", "decoder"} => a.ac \in Named
    PROVE  <<a>> \in Seq(Operation) /\ InOrder(<<a>>) /\ OpsOf(<<a>>) = {a.op}
BY DEF OpsOf, InOrder

LEMMA TwoToDo ==
    ASSUME NEW a \in Operation, NEW b \in Operation, a.op # b.op,
           a.op \notin {"free", "reset", "player"}, b.op # "join",
           a.op \in {"encoder", "decoder"} => a.ac \in Named,
           b.op \in {"encoder", "decoder"} => b.ac \in Named
    PROVE  /\ <<a, b>> \in Seq(Operation) /\ InOrder(<<a, b>>)
           /\ OpsOf(<<a, b>>) = {a.op, b.op}
BY DEF OpsOf, InOrder

LEMMA ThreeToDo ==
    ASSUME NEW a \in Operation, NEW b \in Operation, NEW c \in Operation,
           a.op # b.op, a.op # c.op, b.op # c.op,
           a.op \notin {"free", "reset", "player"},
           b.op \notin {"join", "free", "reset", "player"},
           c.op # "join",
           a.op \in {"encoder", "decoder"} => a.ac \in Named,
           b.op \in {"encoder", "decoder"} => b.ac \in Named,
           c.op \in {"encoder", "decoder"} => c.ac \in Named
    PROVE  /\ <<a, b, c>> \in Seq(Operation) /\ InOrder(<<a, b, c>>)
           /\ OpsOf(<<a, b, c>>) = {a.op, b.op, c.op}
<1> DEFINE s == <<a, b, c>>
<1>1. /\ s \in Seq(Operation) /\ Len(s) = 3 /\ DOMAIN s = {1, 2, 3}
      /\ s[1] = a /\ s[2] = b /\ s[3] = c
  OBVIOUS
<1> HIDE DEF s
<1>2. InOrder(s)
  BY <1>1 DEF InOrder
<1>3. OpsOf(s) = {a.op, b.op, c.op}
  BY <1>1 DEF OpsOf
<1> QED
  BY <1>1, <1>2, <1>3 DEF s

\* One more part at the end.
LEMMA MoreToDo ==
    ASSUME NEW s \in Seq(Operation), InOrder(s), NEW a \in Operation,
           a.op \notin OpsOf(s) \cup {"join", "source", "encoder", "decoder"},
           OpsOf(s) \cap {"free", "reset"} = {}
    PROVE  /\ s \o <<a>> \in Seq(Operation) /\ InOrder(s \o <<a>>)
           /\ OpsOf(s \o <<a>>) = OpsOf(s) \cup {a.op}
<1> DEFINE r == s \o <<a>>
<1>1. /\ r \in Seq(Operation) /\ Len(r) = Len(s) + 1 /\ DOMAIN r = 1..(Len(s) + 1)
      /\ r[Len(s) + 1] = a
  OBVIOUS
<1>2. \A i \in DOMAIN s : r[i] = s[i] /\ i \in 1..Len(s) /\ s[i].op # a.op
  <2>1. \A i \in 1..Len(s) : r[i] = s[i]
    OBVIOUS
  <2>2. \A i \in DOMAIN s : s[i].op \in OpsOf(s)
    BY DEF OpsOf
  <2> QED
    BY <2>1, <2>2
<1>3. \A i \in DOMAIN r : i \in DOMAIN s \/ i = Len(s) + 1
  BY <1>1
<1>4. \A i \in DOMAIN s : i \in DOMAIN r /\ i # Len(s) + 1
  BY <1>1
<1> HIDE DEF r
<1>5. OpsOf(r) = OpsOf(s) \cup {a.op}
  <2>1. \A o \in OpsOf(r) : o \in OpsOf(s) \/ o = a.op
    BY <1>1, <1>2, <1>3 DEF OpsOf
  <2>2. \A o \in OpsOf(s) : o \in OpsOf(r)
    BY <1>2, <1>4 DEF OpsOf
  <2>3. a.op \in OpsOf(r)
    BY <1>1 DEF OpsOf
  <2> QED
    BY <2>1, <2>2, <2>3
<1>6. InOrder(r)
  <2>1. \A i \in DOMAIN s : s[i].op \notin {"free", "reset"}
    BY DEF OpsOf
  <2>2. ASSUME NEW i \in DOMAIN r, NEW j \in DOMAIN r
        PROVE  /\ r[i].op = r[j].op => i = j
               /\ r[i].op = "source" /\ r[j].op = "player" => i < j
    BY <1>1, <1>2, <1>3 DEF InOrder
  <2>3. ASSUME NEW i \in DOMAIN r
        PROVE  /\ r[i].op = "join" => i = 1
               /\ r[i].op \in {"free", "reset"} => i = Len(r)
               /\ r[i].op \in {"encoder", "decoder"} => r[i].ac \in Named
    BY <2>1, <1>1, <1>2, <1>3 DEF InOrder
  <2> QED
    BY <2>2, <2>3 DEF InOrder
<1> QED
  BY <1>1, <1>5, <1>6 DEF r

LEMMA LessToDo ==
    ASSUME NEW s \in Seq(Operation), InOrder(s), s # <<>>
    PROVE  /\ Head(s) \in Operation /\ 1 \in DOMAIN s /\ Head(s) = s[1]
           /\ Head(s).op \in {"encoder", "decoder"} => Head(s).ac \in Named
           /\ Tail(s) \in Seq(Operation) /\ InOrder(Tail(s))
           /\ Head(s).op \in OpsOf(s)
           /\ OpsOf(Tail(s)) = OpsOf(s) \ {Head(s).op}
           /\ Head(s).op \in {"free", "reset"} => Tail(s) = <<>>
           /\ "join" \notin OpsOf(Tail(s))
           /\ Head(s).op = "player" => "source" \notin OpsOf(s)
<1> DEFINE t == Tail(s)
<1>1. /\ t \in Seq(Operation) /\ Len(s) >= 1 /\ Len(t) = Len(s) - 1
      /\ DOMAIN s = 1..Len(s) /\ DOMAIN t = 1..(Len(s) - 1)
      /\ Head(s) = s[1] /\ Head(s) \in Operation /\ 1 \in DOMAIN s
  OBVIOUS
<1>2. \A i \in DOMAIN t : t[i] = s[i + 1] /\ i + 1 \in DOMAIN s /\ i + 1 # 1
  OBVIOUS
<1>3. \A j \in DOMAIN s : j = 1 \/ (j - 1 \in DOMAIN t /\ s[j] = t[j - 1])
  OBVIOUS
<1>4. Len(s) = 1 => t = <<>>
  BY <1>1
<1> HIDE DEF t
<1>5. OpsOf(t) = OpsOf(s) \ {s[1].op} /\ s[1].op \in OpsOf(s)
  <2>1. \A o \in OpsOf(t) : o \in OpsOf(s) /\ o # s[1].op
    BY <1>1, <1>2 DEF OpsOf, InOrder
  <2>2. \A o \in OpsOf(s) : o = s[1].op \/ o \in OpsOf(t)
    BY <1>3 DEF OpsOf
  <2> QED
    BY <1>1, <2>1, <2>2 DEF OpsOf
<1>6. InOrder(t)
  <2>1. ASSUME NEW i \in DOMAIN t, NEW j \in DOMAIN t
        PROVE  /\ t[i].op = t[j].op => i = j
               /\ t[i].op = "source" /\ t[j].op = "player" => i < j
    BY <1>1, <1>2 DEF InOrder
  <2>2. ASSUME NEW i \in DOMAIN t
        PROVE  /\ t[i].op = "join" => i = 1
               /\ t[i].op \in {"free", "reset"} => i = Len(t)
               /\ t[i].op \in {"encoder", "decoder"} => t[i].ac \in Named
    BY <1>1, <1>2 DEF InOrder
  <2> QED
    BY <2>1, <2>2 DEF InOrder
<1>7. "join" \notin OpsOf(t)
  BY <1>1, <1>2 DEF OpsOf, InOrder
<1>8. s[1].op \in {"free", "reset"} => t = <<>>
  BY <1>1, <1>4 DEF InOrder
<1>9. s[1].op = "player" => "source" \notin OpsOf(s)
  BY <1>1 DEF OpsOf, InOrder
<1> QED
  BY <1>1, <1>5, <1>6, <1>7, <1>8, <1>9 DEF t, InOrder
-----------------------------------------------------------------------------
(***************************************************************************)
(* What audio_start and its parts do to the two halves of the pipeline.    *)
(***************************************************************************)
TxType == [ac : Codecs \cup {Null}, enc : Codecs \cup {Null},
           src : Formats \cup {Null}, buf : BOOLEAN,
           filt : Formats \cup {Null}, run : BOOLEAN]

RxType == [ac : Codecs \cup {Null}, dec : Codecs \cup {Null},
           play : Formats \cup {Null}, buf : BOOLEAN,
           filt : Formats \cup {Null}, pt : Codecs \cup {Null}]

LEMMA FormatOf == \A ac \in Codecs : Format[ac] \in Formats /\ Format[ac] # Null /\ ac # Null
BY AudioAssumption DEF Formats

LEMMA SettingFacts ==
    ASSUME TypeOK
    PROVE  /\ cfg.txmode \in {"poll", "timer", "thread"} /\ cfg.filters \in BOOLEAN
           /\ cfg.offers \subseteq Seq(Codecs \cup {Events})
           /\ Named \subseteq Codecs /\ Events \notin Codecs
BY AudioAssumption DEF TypeOK, Setting, Named

\* Filters are set up on both sides, or on none unless one fails.
Filtered(t, r, tf, rf) ==
    \/ /\ tf = t.filt /\ rf = r.filt
       /\ \/ ~cfg.filters \/ "filter" \in cfg.fails
          \/ Null \in {t.ac, r.ac} \/ t.filt # Null \/ r.filt # Null
    \/ /\ t.ac # Null /\ r.ac # Null /\ t.filt = Null /\ r.filt = Null
       /\ tf = Format[t.ac]
       /\ rf = Format[r.ac] \/ (rf = Null /\ "filter" \in cfg.fails)

LEMMA FilterFacts ==
    ASSUME NEW t \in TxType, NEW r \in RxType, NEW f \in FilterSetup(t, r)
    PROVE  /\ f[1] \in TxType /\ f[2] \in RxType
           /\ f[1].ac = t.ac /\ f[1].enc = t.enc /\ f[1].src = t.src
           /\ f[1].buf = t.buf /\ f[1].run = t.run
           /\ f[2].ac = r.ac /\ f[2].dec = r.dec /\ f[2].play = r.play
           /\ f[2].buf = r.buf /\ f[2].pt = r.pt
           /\ Filtered(t, r, f[1].filt, f[2].filt)
<1>1. CASE ~cfg.filters \/ Null \in {t.ac, r.ac} \/ t.filt # Null \/ r.filt # Null
  <2>1. f = <<t, r>>
    BY <1>1 DEF FilterSetup
  <2> QED
    BY <2>1, <1>1 DEF Filtered
<1>2. CASE ~(~cfg.filters \/ Null \in {t.ac, r.ac} \/ t.filt # Null \/ r.filt # Null)
  <2> DEFINE half == [t EXCEPT !.filt = Format[t.ac]]
             all  == [r EXCEPT !.filt = Format[r.ac]]
  <2>1. t.ac \in Codecs /\ r.ac \in Codecs
    BY <1>2 DEF TxType, RxType
  <2>2. /\ half \in TxType /\ half.ac = t.ac /\ half.enc = t.enc /\ half.src = t.src
        /\ half.buf = t.buf /\ half.run = t.run /\ half.filt = Format[t.ac]
    BY <2>1, FormatOf DEF TxType
  <2>3. /\ all \in RxType /\ all.ac = r.ac /\ all.dec = r.dec /\ all.play = r.play
        /\ all.buf = r.buf /\ all.pt = r.pt /\ all.filt = Format[r.ac]
    BY <2>1, FormatOf DEF RxType
  <2>4. \/ f = <<half, all>>
        \/ "filter" \in cfg.fails /\ (f = <<t, r>> \/ f = <<half, r>>)
    BY <1>2 DEF FilterSetup
  <2> HIDE DEF half, all
  <2>5. CASE f = <<half, all>>
    BY <2>5, <2>2, <2>3, <1>2 DEF Filtered
  <2>6. CASE "filter" \in cfg.fails /\ f = <<t, r>>
    BY <2>6 DEF Filtered
  <2>7. CASE "filter" \in cfg.fails /\ f = <<half, r>>
    BY <2>7, <2>2, <1>2 DEF Filtered
  <2> QED
    BY <2>4, <2>5, <2>6, <2>7
<1> QED
  BY <1>1, <1>2

LEMMA PlayerFacts ==
    ASSUME NEW r \in RxType, NEW p \in StartPlayer(r)
    PROVE  /\ p[1] \in RxType /\ p[2] \in BOOLEAN
           /\ p[1].ac = r.ac /\ p[1].dec = r.dec /\ p[1].pt = r.pt /\ p[1].filt = r.filt
           /\ r.buf => p[1].buf
           /\ \/ p[1].play = r.play
              \/ /\ r.play = Null /\ r.ac # Null
                 /\ p[1].play = Format[r.ac] /\ p[1].buf
<1>1. CASE r.ac = Null \/ r.play # Null
  <2>1. p = <<r, FALSE>>
    BY <1>1 DEF StartPlayer
  <2> QED
    BY <2>1
<1>2. CASE ~(r.ac = Null \/ r.play # Null)
  <2> DEFINE ready == [r EXCEPT !.buf = TRUE]
             open  == [ready EXCEPT !.play = Format[r.ac]]
  <2>1. r.ac \in Codecs
    BY <1>2 DEF RxType
  <2>2. /\ ready \in RxType /\ ready.ac = r.ac /\ ready.dec = r.dec /\ ready.pt = r.pt
        /\ ready.filt = r.filt /\ ready.buf /\ ready.play = r.play
    BY DEF RxType
  <2>3. /\ open \in RxType /\ open.ac = r.ac /\ open.dec = r.dec /\ open.pt = r.pt
        /\ open.filt = r.filt /\ open.buf /\ open.play = Format[r.ac]
    BY <2>1, FormatOf DEF RxType
  <2>4. p = <<open, FALSE>> \/ p = <<ready, TRUE>>
    BY <1>2 DEF StartPlayer
  <2> HIDE DEF ready, open
  <2>5. CASE p = <<open, FALSE>>
    BY <2>5, <2>3, <1>2
  <2>6. CASE p = <<ready, TRUE>>
    BY <2>6, <2>2
  <2> QED
    BY <2>4, <2>5, <2>6
<1> QED
  BY <1>1, <1>2

LEMMA StartFacts ==
    ASSUME NEW t \in TxType, NEW s \in StartSource(t)
    PROVE  /\ s[1] \in TxType /\ s[2] \in BOOLEAN /\ s[3] \in BOOLEAN
           /\ s[1].ac = t.ac /\ s[1].enc = t.enc /\ s[1].filt = t.filt
           /\ t.buf => s[1].buf
           /\ \/ s[1].src = t.src
              \/ /\ t.src = Null /\ t.ac # Null
                 /\ s[1].src = Format[t.ac] /\ s[1].buf
           /\ s[3] => cfg.txmode = "thread" /\ t.ac # Null /\ s[1].buf /\ ~t.run /\ s[1].run
           /\ t.run => s[1].run
<1>1. CASE t.ac = Null \/ t.src # Null
  <2>1. s = <<t, FALSE, FALSE>>
    BY <1>1 DEF StartSource
  <2> QED
    BY <2>1
<1>2. CASE ~(t.ac = Null \/ t.src # Null)
  <2> DEFINE new    == cfg.txmode = "thread" /\ ~t.run
             ready  == [t EXCEPT !.buf = TRUE]
             opened == [ready EXCEPT !.src = Format[t.ac]]
             one    == [opened EXCEPT !.run = @ \/ new]
             two    == [opened EXCEPT !.run = TRUE]
  <2>1. t.ac \in Codecs
    BY <1>2 DEF TxType
  <2>2. /\ ready \in TxType /\ ready.ac = t.ac /\ ready.enc = t.enc
        /\ ready.filt = t.filt /\ ready.buf /\ ready.src = t.src /\ ready.run = t.run
    BY DEF TxType
  <2>3. /\ opened \in TxType /\ opened.ac = t.ac /\ opened.enc = t.enc
        /\ opened.filt = t.filt /\ opened.buf /\ opened.src = Format[t.ac]
        /\ opened.run = t.run
    BY <2>1, <2>2, FormatOf DEF TxType
  <2>4. new \in BOOLEAN /\ (opened.run \/ new) \in BOOLEAN
    OBVIOUS
  <2>5. \/ s = <<one, FALSE, new>>
        \/ s = <<ready, TRUE, FALSE>>
        \/ s = <<two, TRUE, FALSE>>
    BY <1>2 DEF StartSource
  <2>6. new => cfg.txmode = "thread" /\ ~t.run
    OBVIOUS
  <2> HIDE DEF new, ready, opened
  <2>7. /\ one \in TxType /\ one.ac = t.ac /\ one.enc = t.enc
        /\ one.filt = t.filt /\ one.buf /\ one.src = Format[t.ac]
        /\ one.run = (t.run \/ new)
    BY <2>3, <2>4 DEF TxType
  <2>8. /\ two \in TxType /\ two.ac = t.ac /\ two.enc = t.enc
        /\ two.filt = t.filt /\ two.buf /\ two.src = Format[t.ac] /\ two.run
    BY <2>3 DEF TxType
  <2> HIDE DEF one, two
  <2>9. CASE s = <<one, FALSE, new>>
    BY <2>9, <2>7, <2>6, <2>4, <1>2
  <2>10. CASE s = <<ready, TRUE, FALSE>>
    BY <2>10, <2>2
  <2>11. CASE s = <<two, TRUE, FALSE>>
    BY <2>11, <2>8, <1>2
  <2> QED
    BY <2>5, <2>9, <2>10, <2>11
<1> QED
  BY <1>1, <1>2

(***************************************************************************)
(* What a part of a call leaves, if it starts the pipeline from t and r or *)
(* just leaves it so: with a device comes its buffer and its thread.       *)
(***************************************************************************)
Leaves(t, r) ==
    /\ tx' \in TxType /\ rx' \in RxType /\ timer' \in BOOLEAN /\ failed' \in BOOLEAN
    /\ srcThread' \in {srcThread, "off", "idle"}
    /\ playThread' \in {playThread, "off", "idle"}
    /\ tx'.ac = t.ac /\ tx'.enc = t.enc /\ (t.buf => tx'.buf)
    /\ rx'.ac = r.ac /\ rx'.dec = r.dec /\ rx'.pt = r.pt /\ (r.buf => rx'.buf)
    /\ \/ tx'.src = t.src
       \/ t.src = Null /\ t.ac # Null /\ tx'.src = Format[t.ac] /\ tx'.buf
    /\ \/ rx'.play = r.play
       \/ r.play = Null /\ r.ac # Null /\ rx'.play = Format[r.ac] /\ rx'.buf
    /\ srcThread' = "off" <=> tx'.src = Null
    /\ playThread' = "off" <=> rx'.play = Null
    /\ timer' => timer \/ (cfg.txmode = "timer" /\ tx'.buf)
    /\ t.src # Null /\ srcThread # "off" => srcThread' = srcThread
    /\ \/ txThread' = txThread
       \/ /\ txThread' = "test" /\ cfg.txmode = "thread" /\ t.ac # Null
          /\ tx'.buf /\ tx'.run /\ ~t.run
    /\ t.run => tx'.run

LEMMA BecomesFacts ==
    ASSUME TypeOK, SourceInv, PlayerInv, NEW t \in TxType, NEW r \in RxType,
           Becomes(t, r, FALSE), failed' \in BOOLEAN, t.src \in {tx.src, Null}
    PROVE  Leaves(t, r) /\ tx'.filt = t.filt /\ rx'.filt = r.filt /\ tx' = t /\ rx' = r
<1>1. /\ tx' = t /\ rx' = r /\ txThread' = txThread
      /\ timer' = (timer \/ (cfg.txmode = "timer" /\ tx.src = Null /\ t.src # Null))
      /\ srcThread' = IF t.src = Null THEN "off"
                      ELSE IF srcThread = "off" THEN "idle" ELSE srcThread
      /\ playThread' = IF r.play = Null THEN "off"
                       ELSE IF playThread = "off" THEN "idle" ELSE playThread
  BY DEF Becomes
<1>2. timer \in BOOLEAN
  BY DEF TypeOK
<1>3. timer' = timer
  BY <1>1, <1>2
<1> QED
  BY <1>1, <1>2, <1>3 DEF Leaves

LEMMA StartsFacts ==
    ASSUME TypeOK, NEW t \in TxType, NEW r \in RxType,
           AudioStarts(t, r), t.src \in {tx.src, Null}
    PROVE  Leaves(t, r) /\ Filtered(t, r, tx'.filt, rx'.filt)
<1>1. PICK f \in FilterSetup(t, r) : \E s \in StartSource(f[1]), p \in StartPlayer(f[2]) :
          /\ Becomes(s[1], p[1], s[3])
          /\ failed' = (failed \/ s[2] \/ p[2])
  BY DEF AudioStarts
<1>2. PICK s \in StartSource(f[1]), p \in StartPlayer(f[2]) :
          /\ Becomes(s[1], p[1], s[3])
          /\ failed' = (failed \/ s[2] \/ p[2])
  BY <1>1
<1>3. /\ f[1] \in TxType /\ f[2] \in RxType
      /\ f[1].ac = t.ac /\ f[1].enc = t.enc /\ f[1].src = t.src
      /\ f[1].buf = t.buf /\ f[1].run = t.run
      /\ f[2].ac = r.ac /\ f[2].dec = r.dec /\ f[2].play = r.play
      /\ f[2].buf = r.buf /\ f[2].pt = r.pt
      /\ Filtered(t, r, f[1].filt, f[2].filt)
  BY FilterFacts
<1>4. /\ s[1] \in TxType /\ s[2] \in BOOLEAN /\ s[3] \in BOOLEAN
      /\ s[1].ac = t.ac /\ s[1].enc = t.enc /\ s[1].filt = f[1].filt
      /\ t.buf => s[1].buf
      /\ \/ s[1].src = t.src
         \/ t.src = Null /\ t.ac # Null /\ s[1].src = Format[t.ac] /\ s[1].buf
      /\ s[3] => cfg.txmode = "thread" /\ t.ac # Null /\ s[1].buf /\ ~t.run /\ s[1].run
      /\ t.run => s[1].run
  BY <1>3, StartFacts
<1>5. /\ p[1] \in RxType /\ p[2] \in BOOLEAN
      /\ p[1].ac = r.ac /\ p[1].dec = r.dec /\ p[1].pt = r.pt /\ p[1].filt = f[2].filt
      /\ r.buf => p[1].buf
      /\ \/ p[1].play = r.play
         \/ r.play = Null /\ r.ac # Null /\ p[1].play = Format[r.ac] /\ p[1].buf
  BY <1>3, PlayerFacts
<1>6. /\ tx' = s[1] /\ rx' = p[1] /\ txThread' = IF s[3] THEN "test" ELSE txThread
      /\ timer' = (timer \/ (cfg.txmode = "timer" /\ tx.src = Null /\ s[1].src # Null))
      /\ srcThread' = IF s[1].src = Null THEN "off"
                      ELSE IF srcThread = "off" THEN "idle" ELSE srcThread
      /\ playThread' = IF p[1].play = Null THEN "off"
                       ELSE IF playThread = "off" THEN "idle" ELSE playThread
  BY <1>2 DEF Becomes
<1>7. failed' \in BOOLEAN /\ timer' \in BOOLEAN
  BY <1>2, <1>4, <1>5, <1>6 DEF TypeOK
<1>8. timer' => timer \/ (cfg.txmode = "timer" /\ s[1].buf)
  BY <1>4, <1>6
<1>9. Filtered(t, r, tx'.filt, rx'.filt)
  BY <1>3, <1>4, <1>5, <1>6
<1>10. /\ srcThread' \in {srcThread, "off", "idle"} /\ playThread' \in {playThread, "off", "idle"}
       /\ srcThread' = "off" <=> tx'.src = Null
       /\ playThread' = "off" <=> rx'.play = Null
  BY <1>6
<1>11. /\ \/ txThread' = txThread
          \/ /\ txThread' = "test" /\ cfg.txmode = "thread" /\ t.ac # Null
             /\ tx'.buf /\ tx'.run /\ ~t.run
       /\ t.run => tx'.run
       /\ t.src # Null /\ srcThread # "off" => srcThread' = srcThread
  BY <1>4, <1>6
<1> QED
  BY <1>4, <1>5, <1>6, <1>7, <1>8, <1>9, <1>10, <1>11 DEF Leaves
-----------------------------------------------------------------------------
(***************************************************************************)
(* The invariant after the steps that leave the devices alone: what the    *)
(* call layer and RTP begin, and the parts that only take their turn.      *)
(***************************************************************************)
LEMMA NamedSame == cfg' = cfg => Named' = Named /\ SingleFormat' = SingleFormat
BY DEF Named, SingleFormat

LEMMA Types == TypeOK => tx \in TxType /\ rx \in RxType
BY DEF TypeOK, TxType, RxType

LEMMA Queue ==
    ASSUME TypeOK, TodoInv, todo # <<>>, todo' = Tail(todo), UNCHANGED <<cfg, fmts>>
    PROVE  /\ todo' \in Seq(Operation) /\ TodoInv'
           /\ Ops' = Ops \ {Head(todo).op} /\ Head(todo).op \in Ops
           /\ Head(todo).op \in {"free", "reset"} => todo' = <<>>
           /\ Head(todo).op \in {"encoder", "decoder"} => Head(todo).ac \in Named
           /\ "join" \notin Ops' /\ Head(todo) \in Operation
           /\ Head(todo).op = "player" => "source" \notin Ops
<1>1. todo \in Seq(Operation) /\ InOrder(todo)
  BY DEF TypeOK, TodoInv
<1>2. /\ Head(todo) \in Operation
      /\ Head(todo).op \in {"encoder", "decoder"} => Head(todo).ac \in Named
      /\ Tail(todo) \in Seq(Operation) /\ InOrder(Tail(todo))
      /\ Head(todo).op \in OpsOf(todo)
      /\ OpsOf(Tail(todo)) = OpsOf(todo) \ {Head(todo).op}
      /\ Head(todo).op \in {"free", "reset"} => Tail(todo) = <<>>
      /\ "join" \notin OpsOf(Tail(todo))
      /\ Head(todo).op = "player" => "source" \notin OpsOf(todo)
  BY <1>1, LessToDo
<1>3. Ops' = OpsOf(Tail(todo)) /\ Ops = OpsOf(todo)
  BY DEF Ops, OpsOf
<1>4. Named' = Named
  BY NamedSame
<1>5. InOrder(todo)'
  BY <1>2, <1>4 DEF InOrder
<1> QED
  BY <1>2, <1>3, <1>4, <1>5 DEF TodoInv

\* What is begun, when nothing is under way.
LEMMA Fresh ==
    ASSUME TypeOK, NEW s \in Seq(Operation), InOrder(s), todo' = s, cfg' = cfg
    PROVE  todo' \in Seq(Operation) /\ InOrder(todo)' /\ Ops' = OpsOf(s)
<1>1. Named' = Named
  BY NamedSame
<1> QED
  BY <1>1 DEF InOrder, Ops, OpsOf

LEMMA NothingUnderWay == todo = <<>> => Ops = {}
BY NothingToDo DEF Ops

\* Steps that leave the encoder alone, when it is not being changed.
LEMMA EncKept ==
    ASSUME EncInv, ~Changing \/ todo' = todo, UNCHANGED <<tx.ac, tx.enc>>,
           UNCHANGED <<cfg, alive>>
    PROVE  EncInv'
BY DEF EncInv, Changing

LEMMA BeginsKeeps ==
    ASSUME Inv, Idle, cfg' = cfg, NEW s \in Seq(Operation), InOrder(s), todo' = s,
           fmts' \in Seq(Codecs \cup {Events}), failed' \in BOOLEAN,
           \A i \in DOMAIN fmts' : fmts'[i] \in Named \cup {Events},
           "cycle" \in OpsOf(s) => fmts' # <<>>,
           OpsOf(s) \cap StopOps = {},
           {"filter", "encode"} \cap OpsOf(s) # {} => tx.buf,
           UNCHANGED <<tx, timer, srcThread, playThread, txThread, alive>>,
           rx' \in RxType,
           rx'.ac = rx.ac /\ rx'.play = rx.play /\ rx'.buf = rx.buf /\ rx'.filt = rx.filt
    PROVE  Inv' /\ Ops' = OpsOf(s)
<1> USE DEF Inv
<1>1. todo' \in Seq(Operation) /\ InOrder(todo)' /\ Ops' = OpsOf(s)
  BY Fresh
<1>2. Named' = Named /\ SingleFormat' = SingleFormat
  BY NamedSame
<1>3. TypeOK'
  BY <1>1 DEF TypeOK, RxType
<1>4. TodoInv'
  BY <1>1, <1>2 DEF TodoInv
<1>5. SourceInv'
  <2>1. Ops = {}
    BY NothingUnderWay DEF Idle
  <2> QED
    BY <2>1, <1>1, <1>2 DEF SourceInv
<1>6. PlayerInv'
  BY <1>1, <1>2 DEF PlayerInv
<1>7. alive /\ ~Quiet'
  BY <1>1 DEF Quiet, Idle
<1>8. QuietInv'
  BY <1>7 DEF QuietInv
<1>9. PipeInv'
  <2>1. Ops = {}
    BY NothingUnderWay DEF Idle
  <2> QED
    BY <2>1, <1>2 DEF PipeInv
<1>10. EncInv'
  BY EncKept DEF Idle, Changing
<1> QED
  BY <1>1, <1>3, <1>4, <1>5, <1>6, <1>8, <1>9, <1>10

LEMMA HasCodecFacts ==
    ASSUME NEW s \in Seq(Codecs \cup {Events}), NEW N \in SUBSET Codecs, HasCodec(s),
           \A i \in DOMAIN s : s[i] \in N \cup {Events}
    PROVE  Head(s) \in N
BY DEF HasCodec

LEMMA OfferFacts ==
    ASSUME TypeOK, NEW o \in cfg.offers
    PROVE  /\ o \in Seq(Codecs \cup {Events})
           /\ \A i \in DOMAIN o : o[i] \in Named \cup {Events}
<1>1. o \in Seq(Codecs \cup {Events})
  BY SettingFacts
<1>2. \A i \in DOMAIN o : o[i] \in Codecs \cup {Events}
  BY <1>1
<1> QED
  BY <1>1, <1>2 DEF Named

LEMMA StreamStartKeeps ==
    ASSUME Inv, NEW active \in BOOLEAN, StreamStart(active)
    PROVE  Inv' /\ (~active => "reset" \notin Ops')
<1> DEFINE r == IF HasCodec(fmts)
                THEN <<Encoder(Head(fmts)), Decoder(Head(fmts)), Op("start")>> ELSE <<>>
           s == r \o IF active THEN <<Op("reset")>> ELSE <<>>
<1>1. /\ r \in Seq(Operation) /\ InOrder(r)
      /\ OpsOf(r) \subseteq {"encoder", "decoder", "start"}
  <2>1. CASE HasCodec(fmts)
    <3>1. Head(fmts) \in Named /\ Head(fmts) \in Codecs
      BY <2>1, HasCodecFacts, SettingFacts DEF Inv, TypeOK, TodoInv
    <3>2. /\ Encoder(Head(fmts)) \in Operation /\ Encoder(Head(fmts)).op = "encoder"
          /\ Encoder(Head(fmts)).ac = Head(fmts)
          /\ Decoder(Head(fmts)) \in Operation /\ Decoder(Head(fmts)).op = "decoder"
          /\ Decoder(Head(fmts)).ac = Head(fmts)
          /\ Op("start") \in Operation /\ Op("start").op = "start"
      BY <3>1, OperationFacts
    <3>3. r = <<Encoder(Head(fmts)), Decoder(Head(fmts)), Op("start")>>
      BY <2>1
    <3> HIDE DEF r
    <3> QED
      BY <3>1, <3>2, <3>3, ThreeToDo
  <2>2. CASE ~HasCodec(fmts)
    BY <2>2, NothingToDo
  <2> QED
    BY <2>1, <2>2
<1> HIDE DEF r
<1>2. /\ s \in Seq(Operation) /\ InOrder(s)
      /\ OpsOf(s) \subseteq {"encoder", "decoder", "start"}
                       \cup IF active THEN {"reset"} ELSE {}
  <2>1. CASE active
    <3>1. Op("reset") \in Operation /\ Op("reset").op = "reset"
      BY OperationFacts
    <3>2. s = r \o <<Op("reset")>>
      BY <2>1
    <3> HIDE DEF s
    <3>3. "reset" \notin OpsOf(r) /\ OpsOf(r) \cap {"free", "reset"} = {}
      BY <1>1
    <3>4. /\ s \in Seq(Operation) /\ InOrder(s)
          /\ OpsOf(s) = OpsOf(r) \cup {"reset"}
      BY <1>1, <3>1, <3>2, <3>3, MoreToDo
    <3> QED
      BY <1>1, <2>1, <3>4
  <2>2. CASE ~active
    <3>1. s = r
      BY <1>1, <2>2
    <3> QED
      BY <1>1, <3>1
  <2> QED
    BY <2>1, <2>2
<1>3. todo' = s /\ failed' = FALSE /\ cfg' = cfg /\ Idle
  BY DEF StreamStart, Begin, r
<1>4. UNCHANGED <<fmts, tx, rx, timer, srcThread, playThread, txThread, alive>>
  BY DEF StreamStart
<1> HIDE DEF s
<1>5. /\ fmts' \in Seq(Codecs \cup {Events}) /\ rx' \in RxType
      /\ \A i \in DOMAIN fmts' : fmts'[i] \in Named \cup {Events}
  BY <1>4, Types DEF Inv, TypeOK, TodoInv
<1>6. /\ "cycle" \notin OpsOf(s) /\ OpsOf(s) \cap StopOps = {}
      /\ {"filter", "encode"} \cap OpsOf(s) = {}
  BY <1>2 DEF StopOps
<1>7. Inv' /\ Ops' = OpsOf(s)
  BY <1>2, <1>3, <1>4, <1>5, <1>6, BeginsKeeps
<1> QED
  BY <1>2, <1>7

LEMMA UpdateMediaKeeps ==
    ASSUME Inv, NEW offer \in cfg.offers, UpdateMedia(offer)
    PROVE  Inv' /\ "reset" \notin Ops'
<1> DEFINE s == IF HasCodec(offer)
                THEN <<Decoder(Head(offer)), Encoder(Head(offer))>> ELSE <<>>
<1>1. /\ offer \in Seq(Codecs \cup {Events})
      /\ \A i \in DOMAIN offer : offer[i] \in Named \cup {Events}
  BY OfferFacts DEF Inv
<1>2. /\ s \in Seq(Operation) /\ InOrder(s)
      /\ OpsOf(s) \subseteq {"encoder", "decoder"}
  <2>1. CASE HasCodec(offer)
    <3>1. Head(offer) \in Named /\ Head(offer) \in Codecs
      BY <2>1, <1>1, HasCodecFacts, SettingFacts DEF Inv
    <3>2. /\ Encoder(Head(offer)) \in Operation /\ Encoder(Head(offer)).op = "encoder"
          /\ Encoder(Head(offer)).ac = Head(offer)
          /\ Decoder(Head(offer)) \in Operation /\ Decoder(Head(offer)).op = "decoder"
          /\ Decoder(Head(offer)).ac = Head(offer)
      BY <3>1, OperationFacts
    <3>3. s = <<Decoder(Head(offer)), Encoder(Head(offer))>>
      BY <2>1
    <3> HIDE DEF s
    <3> QED
      BY <3>1, <3>2, <3>3, TwoToDo
  <2>2. CASE ~HasCodec(offer)
    BY <2>2, NothingToDo
  <2> QED
    BY <2>1, <2>2
<1>3. /\ todo' = s /\ failed' = FALSE /\ cfg' = cfg /\ Idle
      /\ fmts' = offer
  BY DEF UpdateMedia, Begin
<1>4. UNCHANGED <<tx, rx, timer, srcThread, playThread, txThread, alive>>
  BY DEF UpdateMedia
<1> HIDE DEF s
<1>5. rx' \in RxType
  BY <1>4, Types DEF Inv
<1>6. /\ "cycle" \notin OpsOf(s) /\ "reset" \notin OpsOf(s) /\ OpsOf(s) \cap StopOps = {}
      /\ {"filter", "encode"} \cap OpsOf(s) = {}
  BY <1>2 DEF StopOps
<1> QED
  BY <1>1, <1>2, <1>3, <1>4, <1>5, <1>6, BeginsKeeps

LEMMA EncoderCycleKeeps ==
    ASSUME Inv, EncoderCycle
    PROVE  Inv' /\ "reset" \notin Ops'
<1>1. Op("cycle") \in Operation /\ Op("cycle").op = "cycle"
  BY OperationFacts
<1>2. PICK s : s = <<Op("cycle")>>
  OBVIOUS
<1>3. s \in Seq(Operation) /\ InOrder(s) /\ OpsOf(s) = {"cycle"}
  BY <1>1, <1>2, OneToDo
<1>4. /\ todo' = s /\ failed' = FALSE /\ cfg' = cfg /\ Idle
      /\ fmts # <<>>
  BY <1>2 DEF EncoderCycle, Begin
<1>5. UNCHANGED <<fmts, tx, rx, timer, srcThread, playThread, txThread, alive>>
  BY DEF EncoderCycle
<1>6. /\ fmts' \in Seq(Codecs \cup {Events}) /\ rx' \in RxType
      /\ \A i \in DOMAIN fmts' : fmts'[i] \in Named \cup {Events}
  BY <1>5, Types DEF Inv, TypeOK, TodoInv
<1>7. OpsOf(s) \cap StopOps = {} /\ {"filter", "encode"} \cap OpsOf(s) = {}
  BY <1>3 DEF StopOps
<1>8. Inv' /\ Ops' = OpsOf(s)
  BY <1>3, <1>4, <1>5, <1>6, <1>7, BeginsKeeps
<1> QED
  BY <1>3, <1>8

LEMMA TimeoutTxKeeps ==
    ASSUME Inv, TimeoutTx
    PROVE  Inv' /\ "reset" \notin Ops'
<1>1. /\ Op("filter") \in Operation /\ Op("filter").op = "filter"
      /\ Op("encode") \in Operation /\ Op("encode").op = "encode"
  BY OperationFacts
<1>2. PICK s : s = <<Op("filter"), Op("encode")>>
  OBVIOUS
<1>3. s \in Seq(Operation) /\ InOrder(s) /\ OpsOf(s) = {"filter", "encode"}
  BY <1>1, <1>2, TwoToDo
<1>4. todo' = s /\ failed' = FALSE /\ cfg' = cfg /\ Idle /\ timer
  BY <1>2 DEF TimeoutTx, Begin
<1>5. UNCHANGED <<fmts, tx, rx, timer, srcThread, playThread, txThread, alive>>
  BY DEF TimeoutTx
<1>6. /\ fmts' \in Seq(Codecs \cup {Events}) /\ rx' \in RxType
      /\ \A i \in DOMAIN fmts' : fmts'[i] \in Named \cup {Events}
  BY <1>5, Types DEF Inv, TypeOK, TodoInv
<1>7. OpsOf(s) \cap StopOps = {} /\ "cycle" \notin OpsOf(s)
  BY <1>3 DEF StopOps
<1>8. tx.buf
  BY <1>4, <1>5 DEF Inv, SourceInv, QuietInv, Quiet
<1>9. Inv' /\ Ops' = OpsOf(s)
  BY <1>3, <1>4, <1>5, <1>6, <1>7, <1>8, BeginsKeeps
<1> QED
  BY <1>3, <1>9

LEMMA PayloadChangedKeeps ==
    ASSUME Inv, NEW ac \in Named, PayloadChanged(ac)
    PROVE  Inv' /\ "reset" \notin Ops'
<1>1. ac \in Codecs
  BY SettingFacts DEF Inv
<1>2. Decoder(ac) \in Operation /\ Decoder(ac).op = "decoder" /\ Decoder(ac).ac = ac
  BY <1>1, OperationFacts
<1>3. PICK s : s = <<Decoder(ac)>>
  OBVIOUS
<1>4. s \in Seq(Operation) /\ InOrder(s) /\ OpsOf(s) = {"decoder"}
  BY <1>2, <1>3, OneToDo
<1>5. todo' = s /\ failed' = FALSE /\ cfg' = cfg /\ Idle
  BY <1>3 DEF PayloadChanged, Begin
<1>6. UNCHANGED <<fmts, tx, timer, srcThread, playThread, txThread, alive>>
  BY DEF PayloadChanged
<1>7. /\ fmts' \in Seq(Codecs \cup {Events})
      /\ \A i \in DOMAIN fmts' : fmts'[i] \in Named \cup {Events}
  BY <1>6 DEF Inv, TypeOK, TodoInv
<1>8. /\ rx' \in RxType
      /\ rx'.ac = rx.ac /\ rx'.play = rx.play /\ rx'.buf = rx.buf /\ rx'.filt = rx.filt
  <2>1. rx \in RxType /\ rx' = [rx EXCEPT !.pt = ac]
    BY Types DEF Inv, PayloadChanged
  <2> QED
    BY <2>1, <1>1 DEF RxType
<1>9. /\ OpsOf(s) \cap StopOps = {} /\ {"filter", "encode"} \cap OpsOf(s) = {}
      /\ "cycle" \notin OpsOf(s)
  BY <1>4 DEF StopOps
<1>10. Inv' /\ Ops' = OpsOf(s)
  BY <1>4, <1>5, <1>6, <1>7, <1>8, <1>9, BeginsKeeps
<1> QED
  BY <1>4, <1>10

(***************************************************************************)
(* The stop, from the beginning, by which everything becomes quiet, to the *)
(* end, and the parts that leave the pipeline alone.                       *)
(***************************************************************************)
LEMMA StopTxKeeps ==
    ASSUME Inv, NEW ops \in {<<>>, <<Op("free")>>}, StopTx(ops),
           srcThread' = srcThread \/ (srcThread = "idle" /\ srcThread' = "error")
    PROVE  Inv' /\ "reset" \notin Ops'
<1> DEFINE r == <<Op("join"), Op("source"), Op("player")>>
           s == r \o ops
<1>1. /\ Op("join") \in Operation /\ Op("join").op = "join"
      /\ Op("source") \in Operation /\ Op("source").op = "source"
      /\ Op("player") \in Operation /\ Op("player").op = "player"
      /\ Op("free") \in Operation /\ Op("free").op = "free"
  BY OperationFacts
<1>2. r \in Seq(Operation) /\ InOrder(r) /\ OpsOf(r) = {"join", "source", "player"}
  BY <1>1, ThreeToDo
<1>3. todo' = s /\ failed' = FALSE /\ cfg' = cfg /\ Idle
  BY DEF StopTx, Begin
<1> HIDE DEF r
<1>4. /\ s \in Seq(Operation) /\ InOrder(s) /\ OpsOf(s) \subseteq StopOps
      /\ {"join", "source", "player"} \subseteq OpsOf(s)
  <2>1. CASE ops = <<>>
    <3>1. s = r
      BY <1>2, <2>1
    <3> QED
      BY <3>1, <1>2 DEF StopOps
  <2>2. CASE ops = <<Op("free")>>
    <3>1. s = r \o <<Op("free")>>
      BY <2>2
    <3> HIDE DEF s
    <3> QED
      BY <3>1, <1>1, <1>2, MoreToDo DEF StopOps
  <2> QED
    BY <2>1, <2>2
<1> HIDE DEF s
<1>5. /\ tx' = [tx EXCEPT !.run = FALSE] /\ timer' = FALSE
      /\ UNCHANGED <<fmts, rx, playThread, txThread, alive>>
  BY DEF StopTx
<1>6. tx \in TxType /\ rx \in RxType
  BY Types DEF Inv
<1>7. /\ tx' \in TxType /\ tx'.ac = tx.ac /\ tx'.enc = tx.enc /\ tx'.src = tx.src
      /\ tx'.buf = tx.buf /\ tx'.filt = tx.filt /\ ~tx'.run
  BY <1>5, <1>6 DEF TxType
<1>8. todo' \in Seq(Operation) /\ InOrder(todo)' /\ Ops' = OpsOf(s)
  BY <1>3, <1>4, Fresh DEF Inv
<1>9. Named' = Named /\ SingleFormat' = SingleFormat
  BY <1>3, NamedSame
<1>10. TypeOK'
  <2>1. srcThread' \in {"off", "idle", "write", "filter", "encode", "telev", "error"}
    BY DEF Inv, TypeOK
  <2>2. tx' \in [ac : Codecs \cup {Null}, enc : Codecs \cup {Null},
                 src : Formats \cup {Null}, buf : BOOLEAN,
                 filt : Formats \cup {Null}, run : BOOLEAN]
    BY <1>7 DEF TxType
  <2> QED
    BY <2>1, <2>2, <1>3, <1>5, <1>8 DEF Inv, TypeOK
<1>11. TodoInv'
  BY <1>4, <1>5, <1>8, <1>9 DEF Inv, TodoInv, StopOps
<1>12. SourceInv'
  BY <1>3, <1>4, <1>5, <1>7, <1>8, <1>9 DEF Inv, SourceInv, StopOps
<1>13. PlayerInv'
  BY <1>3, <1>5, <1>9 DEF Inv, PlayerInv
<1>14. QuietInv'
  BY <1>3, <1>4, <1>5, <1>7, <1>8 DEF QuietInv, Idle
<1>15. PipeInv'
  <2>1. Ops = {}
    BY <1>3, NothingUnderWay DEF Idle
  <2> QED
    BY <2>1, <1>3, <1>5, <1>7, <1>9 DEF Inv, PipeInv
<1>16. "reset" \notin Ops'
  BY <1>4, <1>8 DEF StopOps
<1>17. EncInv'
  BY <1>3, <1>5, <1>7, EncKept DEF Inv, Idle, Changing
<1> QED
  BY <1>16, <1>10, <1>11, <1>12, <1>13, <1>14, <1>15, <1>17 DEF Inv

\* Parts that leave the pipeline as it is.
LEMMA TurnKeeps ==
    ASSUME Inv, todo # <<>>, todo' = Tail(todo), Head(todo).op \notin {"player", "encoder"},
           Head(todo).op = "source" => tx.src = Null /\ tx.filt = Null,
           Head(todo).op = "join" => txThread = "off",
           UNCHANGED <<cfg, fmts, tx, rx, timer, srcThread, playThread, txThread,
                       failed, alive>>
    PROVE  Inv'
<1> USE DEF Inv
<1>1. /\ todo' \in Seq(Operation) /\ TodoInv'
      /\ Ops' = Ops \ {Head(todo).op} /\ Head(todo).op \in Ops
  BY Queue
<1>2. Named' = Named /\ SingleFormat' = SingleFormat
  BY NamedSame
<1>3. TypeOK'
  BY <1>1 DEF TypeOK
<1>4. SourceInv'
  BY <1>1, <1>2 DEF SourceInv
<1>5. PlayerInv'
  BY <1>1, <1>2 DEF PlayerInv
<1>6. QuietInv'
  <2>1. Quiet' => Quiet
    BY <1>1 DEF Quiet
  <2> QED
    BY <2>1, <1>1 DEF QuietInv
<1>7. PipeInv'
  BY <1>1, <1>2 DEF PipeInv
<1>8. EncInv'
  BY EncKept DEF Changing
<1> QED
  BY <1>1, <1>3, <1>4, <1>5, <1>6, <1>7, <1>8

LEMMA FormatCycleKeeps ==
    ASSUME Inv, FormatCycle
    PROVE  Inv' /\ ("reset" \in Ops' => "reset" \in Ops)
<1> USE DEF Inv
<1>1. /\ todo # <<>> /\ Head(todo) = Op("cycle")
      /\ fmts' = Append(Tail(fmts), Head(fmts))
      /\ todo' = IF HasCodec(fmts') THEN <<Encoder(Head(fmts'))>> ELSE todo
      /\ UNCHANGED <<cfg, tx, rx, timer, srcThread, playThread, txThread, failed,
                     alive>>
  BY DEF FormatCycle
<1>2. "cycle" \in Ops
  <2>1. todo \in Seq(Operation) /\ InOrder(todo)
    BY DEF TypeOK, TodoInv
  <2>2. Head(todo).op \in OpsOf(todo)
    BY <1>1, <2>1, LessToDo
  <2> QED
    BY <1>1, <2>2, OperationFacts DEF Ops
<1>3. Named' = Named /\ SingleFormat' = SingleFormat
  BY <1>1, NamedSame
<1>4. /\ fmts' \in Seq(Codecs \cup {Events}) /\ fmts' # <<>>
      /\ \A i \in DOMAIN fmts' : fmts'[i] \in Named \cup {Events}
  <2> DEFINE f == Append(Tail(fmts), Head(fmts))
  <2>1. fmts \in Seq(Codecs \cup {Events}) /\ fmts # <<>>
    BY <1>2 DEF TypeOK, TodoInv
  <2>2. /\ f \in Seq(Codecs \cup {Events}) /\ Len(f) = Len(fmts) /\ Len(fmts) > 0
        /\ f[Len(fmts)] = fmts[1]
        /\ \A i \in 1..(Len(fmts) - 1) : f[i] = fmts[i + 1]
    BY <2>1
  <2>3. \A i \in 1..Len(fmts) : fmts[i] \in Named \cup {Events}
    BY <2>1 DEF TodoInv
  <2> HIDE DEF f
  <2>4. \A i \in 1..Len(f) : f[i] \in Named \cup {Events}
    <3> SUFFICES ASSUME NEW i \in 1..Len(f) PROVE f[i] \in Named \cup {Events}
      OBVIOUS
    <3>1. i = Len(fmts) \/ (i \in 1..(Len(fmts) - 1) /\ i + 1 \in 1..Len(fmts))
      BY <2>1, <2>2
    <3>2. 1 \in 1..Len(fmts)
      BY <2>1, <2>2
    <3> QED
      BY <3>1, <3>2, <2>2, <2>3
  <2>5. f # <<>>
    BY <2>2
  <2>6. fmts' = f
    BY <1>1 DEF f
  <2> QED
    BY <2>2, <2>4, <2>5, <2>6
<1>5. ~Quiet
  BY <1>2 DEF QuietInv, StopOps
<1>6. /\ todo' \in Seq(Operation) /\ InOrder(todo)'
      /\ Ops' \subseteq {"encoder"} \/ Ops' = Ops
  <2>1. CASE HasCodec(fmts')
    <3>1. Head(fmts') \in Named /\ Head(fmts') \in Codecs
      BY <2>1, <1>4, HasCodecFacts, SettingFacts
    <3>2. /\ Encoder(Head(fmts')) \in Operation /\ Encoder(Head(fmts')).op = "encoder"
          /\ Encoder(Head(fmts')).ac = Head(fmts')
      BY <3>1, OperationFacts
    <3>3. PICK s : s = <<Encoder(Head(fmts'))>>
      OBVIOUS
    <3>4. s \in Seq(Operation) /\ InOrder(s) /\ OpsOf(s) = {"encoder"}
      BY <3>1, <3>2, <3>3, OneToDo
    <3>5. todo' = s /\ cfg' = cfg
      BY <1>1, <2>1, <3>3
    <3> QED
      BY <3>4, <3>5, Fresh
  <2>2. CASE ~HasCodec(fmts')
    <3>1. todo' = todo /\ todo \in Seq(Operation) /\ InOrder(todo)
      BY <1>1, <2>2 DEF TypeOK, TodoInv
    <3> QED
      BY <3>1, <1>1, Fresh DEF Ops
  <2> QED
    BY <2>1, <2>2
<1>7. ~Quiet'
  BY <1>1, <1>5, <1>6 DEF Quiet, StopOps
<1>8. TypeOK'
  BY <1>1, <1>4, <1>6 DEF TypeOK
<1>9. TodoInv'
  BY <1>3, <1>4, <1>6 DEF TodoInv
<1>10. SourceInv'
  <2>1. "join" \notin Ops
    BY <1>5 DEF Quiet, StopOps
  <2> QED
    BY <2>1, <1>1, <1>3, <1>6 DEF SourceInv
<1>11. PlayerInv'
  BY <1>1, <1>3 DEF PlayerInv
<1>12. QuietInv'
  BY <1>1, <1>7 DEF QuietInv, Quiet
<1>13. PipeInv'
  <2>1. "player" \notin Ops
    BY <1>5 DEF Quiet, StopOps
  <2> QED
    BY <2>1, <1>1, <1>3 DEF PipeInv
<1>14. EncInv'
  BY <1>1, EncKept, OperationFacts DEF Changing
<1> QED
  BY <1>6, <1>8, <1>9, <1>10, <1>11, <1>12, <1>13, <1>14
-----------------------------------------------------------------------------
(***************************************************************************)
(* The parts that set a codec or start the pipeline.  None is left to do   *)
(* while the audio is being stopped.                                       *)
(***************************************************************************)
LEMMA NotQuiet ==
    ASSUME Inv, todo # <<>>, Head(todo).op \notin StopOps, todo' \in {todo, Tail(todo)},
           UNCHANGED <<cfg, fmts, alive>>
    PROVE  /\ todo' \in Seq(Operation) /\ TodoInv' /\ Ops' \subseteq Ops
           /\ alive /\ "player" \notin Ops /\ "join" \notin Ops /\ QuietInv'
           /\ Head(todo).op \in {"encoder", "decoder"} => Head(todo).ac \in Named
<1>1. todo \in Seq(Operation) /\ InOrder(todo) /\ Ops = OpsOf(todo)
  BY DEF Inv, TypeOK, TodoInv, Ops
<1>2. /\ Head(todo).op \in Ops
      /\ Head(todo).op \in {"encoder", "decoder"} => Head(todo).ac \in Named
  BY <1>1, LessToDo
<1>3. todo' \in Seq(Operation) /\ TodoInv' /\ Ops' \subseteq Ops
  <2>1. CASE todo' = todo
    <3>1. Named' = Named
      BY NamedSame
    <3> QED
      BY <2>1, <3>1, <1>1 DEF Inv, TodoInv, InOrder, Ops, OpsOf
  <2>2. CASE todo' = Tail(todo)
    BY <2>2, Queue DEF Inv
  <2> QED
    BY <2>1, <2>2
<1>4. ~Quiet
  BY <1>2 DEF Inv, QuietInv
<1>5. ~Quiet' /\ alive /\ "player" \notin Ops /\ "join" \notin Ops
  BY <1>3, <1>4 DEF Quiet, StopOps
<1>6. QuietInv'
  BY <1>5 DEF QuietInv
<1> QED
  BY <1>2, <1>3, <1>5, <1>6

\* The halves of the pipeline that a part starts from, and what holds after it.
Fits(t, r) ==
    /\ t \in TxType /\ r \in RxType
    /\ t.ac \in Named \cup {Null} /\ t.src \in {tx.src, Null} /\ t.run = tx.run
    /\ t.src # Null => t.buf /\ t.ac # Null /\ t.src = Format[t.ac]
    /\ (tx.buf => t.buf) /\ (t.ac = Null => tx.ac = Null)
    /\ r.ac \in Named \cup {Null}
    /\ r.play # Null => r.buf /\ r.ac # Null
    /\ "decoder" \notin cfg.fails =>
          /\ r.play # Null => r.play = Format[r.ac]
          /\ r.filt # Null => r.filt = Format[r.ac]

FitsFilters(t, r) ==
    cfg.filters /\ "filter" \notin cfg.fails /\ SingleFormat =>
        /\ t.filt = Null <=> r.filt = Null
        /\ t.filt # Null \/ r.filt # Null => r.ac # Null

LEMMA DevicesLeft ==
    ASSUME Inv, NEW t, NEW r, Fits(t, r), Leaves(t, r), cfg' = cfg, Ops' \subseteq Ops,
           "join" \notin Ops,
           \/ rx'.filt = r.filt
           \/ r.ac # Null /\ (rx'.filt = Format[r.ac] \/ rx'.filt = Null)
    PROVE  SourceInv' /\ PlayerInv'
<1> USE DEF Inv
<1>1. Named' = Named /\ Named \subseteq Codecs
  BY NamedSame, SettingFacts
<1>2. t.ac # Null => Format[t.ac] # Null
  BY <1>1, FormatOf DEF Fits
<1>3. r.ac # Null => Format[r.ac] # Null
  BY <1>1, FormatOf DEF Fits
<1>4. SourceInv'
  <2>1. tx'.src # Null => tx'.buf /\ tx'.ac # Null /\ tx'.src = Format[tx'.ac]
    BY <1>2 DEF Fits, Leaves
  <2>2. (timer' => tx'.buf /\ cfg.txmode = "timer") /\ (tx.buf => tx'.buf)
    BY DEF Fits, Leaves, SourceInv
  <2>3. srcThread' \in {"filter", "encode"} => cfg.txmode = "poll"
    BY DEF Leaves, SourceInv
  <2>4. txThread' # "off" => cfg.txmode = "thread" /\ tx'.buf /\ tx'.ac # Null /\ tx'.run
    BY <2>2 DEF Fits, Leaves, SourceInv
  <2>5. {"filter", "encode"} \cap Ops' # {} => tx'.buf
    BY <2>2 DEF SourceInv
  <2>6. /\ tx'.ac \in Named' \cup {Null}
        /\ srcThread' = "off" <=> tx'.src = Null
    BY <1>1 DEF Fits, Leaves
  <2> QED
    BY <2>1, <2>2, <2>3, <2>4, <2>5, <2>6 DEF SourceInv
<1>5. PlayerInv'
  <2>1. rx'.play # Null => rx'.buf /\ rx'.ac # Null
    BY DEF Fits, Leaves
  <2>2. "decoder" \notin cfg.fails => (rx'.play # Null => rx'.play = Format[rx'.ac])
    BY DEF Fits, Leaves
  <2>3. "decoder" \notin cfg.fails => (rx'.filt # Null => rx'.filt = Format[rx'.ac])
    BY DEF Fits, Leaves
  <2>4. rx'.ac \in Named' \cup {Null} /\ (playThread' = "off" <=> rx'.play = Null)
    BY <1>1 DEF Fits, Leaves
  <2> QED
    BY <2>1, <2>2, <2>3, <2>4 DEF PlayerInv
<1> QED
  BY <1>4, <1>5

LEMMA FiltersLeft ==
    ASSUME Inv, NEW t, NEW r, Fits(t, r), FitsFilters(t, r), Leaves(t, r), cfg' = cfg,
           Filtered(t, r, tx'.filt, rx'.filt)
    PROVE  PipeInv'
<1>1. Named \subseteq Codecs /\ SingleFormat' = SingleFormat
  BY NamedSame, SettingFacts DEF Inv
<1>2. (t.ac # Null => Format[t.ac] # Null) /\ (r.ac # Null => Format[r.ac] # Null)
  BY <1>1, FormatOf DEF Fits
<1> SUFFICES ASSUME cfg.filters, "filter" \notin cfg.fails, SingleFormat
             PROVE  /\ tx'.filt = Null <=> rx'.filt = Null
                    /\ tx'.filt # Null \/ rx'.filt # Null => rx'.ac # Null
                    /\ tx'.src # Null /\ rx'.play # Null => rx'.filt # Null
  BY <1>1 DEF PipeInv
<1>3. /\ t.filt = Null <=> r.filt = Null
      /\ t.filt # Null \/ r.filt # Null => r.ac # Null
  BY DEF FitsFilters
<1>4. /\ tx'.src # Null => t.ac # Null
      /\ rx'.play # Null => r.ac # Null
      /\ rx'.ac = r.ac
  BY DEF Fits, Leaves
<1>5. CASE /\ tx'.filt = t.filt /\ rx'.filt = r.filt
           /\ Null \in {t.ac, r.ac} \/ t.filt # Null \/ r.filt # Null
  BY <1>3, <1>4, <1>5
<1>6. CASE /\ t.ac # Null /\ r.ac # Null
           /\ tx'.filt = Format[t.ac] /\ rx'.filt = Format[r.ac]
  BY <1>2, <1>4, <1>6
<1> QED
  BY <1>5, <1>6 DEF Filtered

\* A part that does not start the pipeline.
LEMMA FiltersKept ==
    ASSUME Inv, NEW t, NEW r, Leaves(t, r), cfg' = cfg, "player" \notin Ops,
           tx' = t, rx' = r, t.filt = tx.filt, r.filt = rx.filt,
           t.src \in {tx.src, Null}, r.play = rx.play, rx.ac # Null => r.ac # Null
    PROVE  PipeInv'
<1>1. SingleFormat' = SingleFormat
  BY NamedSame
<1> QED
  BY <1>1 DEF Inv, PipeInv, Leaves

\* No buffer and no encode filter that may be in use goes.
Used ==
    /\ tx.buf => tx'.buf
    /\ tx.filt # Null => tx'.filt = tx.filt
    /\ rx.buf => rx'.buf

\* A thread that is in a handler, or that sends, is not moved.
Stays ==
    /\ SourceInHandler => srcThread' = srcThread
    /\ txThread # "off" => txThread' = txThread

LEMMA UsedKept ==
    ASSUME NEW t, NEW r, Leaves(t, r), tx.buf => t.buf, rx.buf => r.buf,
           t.filt = tx.filt, tx'.filt = t.filt \/ Filtered(t, r, tx'.filt, rx'.filt)
    PROVE  Used
BY DEF Used, Leaves, Filtered

LEMMA StaysPut ==
    ASSUME Inv, NEW t, NEW r, Leaves(t, r), SourceInHandler => t.src = tx.src,
           t.run = tx.run, "join" \notin Ops
    PROVE  Stays
<1>1. SourceInHandler => tx.src # Null /\ srcThread # "off"
  BY DEF SourceInHandler, Inv, SourceInv
<1>2. txThread # "off" => tx.run
  BY DEF Inv, SourceInv
<1> QED
  BY <1>1, <1>2 DEF Stays, Leaves

LEMMA PartKeeps ==
    ASSUME Inv, NEW t, NEW r, Leaves(t, r), SourceInv', EncInv', PlayerInv', PipeInv',
           TodoInv',
           QuietInv', todo' \in Seq(Operation), UNCHANGED <<cfg, fmts, alive>>
    PROVE  Inv'
<1>1. /\ srcThread' \in {"off", "idle", "write", "filter", "encode", "telev", "error"}
      /\ playThread' \in {"off", "idle", "read"}
      /\ txThread' \in {"off", "test", "filter", "encode"}
  BY DEF Inv, TypeOK, Leaves
<1>2. tx' \in TxType /\ rx' \in RxType /\ timer' \in BOOLEAN /\ failed' \in BOOLEAN
  BY DEF Leaves
<1>3. TypeOK'
  BY <1>1, <1>2 DEF Inv, TypeOK, TxType, RxType
<1> QED
  BY <1>3 DEF Inv

LEMMA EncoderChangeKeeps ==
    ASSUME Inv, EncoderChange
    PROVE  /\ Inv' /\ Used /\ Stays /\ alive' = alive /\ alive
           /\ todo # <<>> /\ Head(todo).op = "encoder" /\ Head(todo).ac \in Named
           /\ Head(todo).ac # tx.ac /\ tx'.enc = Null /\ todo' = todo /\ Ops' = Ops
           /\ txThread' = txThread
           /\ NewFormat(Head(todo).ac, tx.ac) => ~SourceInHandler /\ srcThread' = "off"
<1> DEFINE ac    == Head(todo).ac
           reset == NewFormat(ac, tx.ac)
           bare  == [tx EXCEPT !.ac = ac, !.enc = Null,
                               !.src = IF reset THEN Null ELSE @]
<1>1. /\ todo # <<>> /\ Head(todo).op = "encoder" /\ ac # tx.ac
      /\ reset => ~SourceInHandler
      /\ Becomes(bare, rx, FALSE)
      /\ UNCHANGED <<cfg, fmts, todo, failed, alive>>
  BY DEF EncoderChange
<1>2. /\ todo' \in Seq(Operation) /\ TodoInv' /\ Ops' \subseteq Ops
      /\ alive /\ "player" \notin Ops /\ QuietInv' /\ ac \in Named
      /\ "join" \notin Ops
  <2>1. "encoder" \notin StopOps
    BY DEF StopOps
  <2> HIDE DEF StopOps
  <2> QED
    BY <2>1, <1>1, NotQuiet
<1>3. ac \in Codecs /\ Format[ac] # Null /\ ac # Null
  BY <1>2, SettingFacts, FormatOf DEF Inv
<1>4. tx \in TxType /\ rx \in RxType
  BY Types DEF Inv
<1>5. ~reset => tx.ac # Null /\ Format[ac] = Format[tx.ac]
  BY DEF NewFormat
<1>6. /\ bare \in TxType /\ bare.ac = ac /\ bare.src = (IF reset THEN Null ELSE tx.src)
      /\ bare.enc = Null /\ bare.buf = tx.buf /\ bare.filt = tx.filt /\ bare.run = tx.run
  BY <1>3, <1>4 DEF TxType
<1>7. txThread' = txThread /\ (bare.src = Null => srcThread' = "off") /\ Ops' = Ops
  BY <1>1 DEF Becomes, Ops, OpsOf
<1> SUFFICES Inv' /\ Used /\ Stays /\ tx'.enc = Null
  BY <1>1, <1>2, <1>6, <1>7
<1> HIDE DEF bare, reset, ac
<1>8. bare.src # Null => tx.buf /\ bare.src = Format[ac]
  BY <1>5, <1>6 DEF Inv, SourceInv
<1>9. bare.src \in {tx.src, Null} /\ (SourceInHandler => bare.src = tx.src)
  BY <1>1, <1>6
<1>10. /\ rx.ac \in Named \cup {Null}
       /\ rx.play # Null => rx.buf /\ rx.ac # Null
       /\ "decoder" \notin cfg.fails =>
             /\ rx.play # Null => rx.play = Format[rx.ac]
             /\ rx.filt # Null => rx.filt = Format[rx.ac]
  BY DEF Inv, PlayerInv
<1>11. Fits(bare, rx)
  BY <1>2, <1>3, <1>4, <1>6, <1>8, <1>9, <1>10 DEF Fits
<1>12. failed' \in BOOLEAN
  BY <1>1 DEF Inv, TypeOK
<1>13. Leaves(bare, rx) /\ rx'.filt = rx.filt /\ tx' = bare /\ rx' = rx
  BY <1>1, <1>4, <1>6, <1>9, <1>12, BecomesFacts DEF Inv
<1>14. SourceInv' /\ PlayerInv'
  BY <1>1, <1>2, <1>11, <1>13, DevicesLeft
<1>15. PipeInv'
  BY <1>1, <1>2, <1>6, <1>9, <1>13, FiltersKept
<1>16. EncInv'
  BY <1>1, <1>6, <1>13 DEF EncInv, Changing
<1>17. Inv'
  BY <1>1, <1>2, <1>13, <1>14, <1>15, <1>16, PartKeeps
<1>18. Used
  BY <1>6, <1>13, UsedKept
<1>19. Stays
  BY <1>2, <1>6, <1>9, <1>13, StaysPut
<1> QED
  BY <1>6, <1>13, <1>17, <1>18, <1>19

LEMMA EncoderSetKeeps ==
    ASSUME Inv, EncoderSet
    PROVE  /\ Inv' /\ Used /\ Stays /\ alive' = alive /\ alive
           /\ tx.enc # Null => tx'.enc = tx.enc
           /\ "encoder" \notin cfg.fails => tx'.enc = tx'.ac
<1> DEFINE full == [tx EXCEPT !.enc = IF @ = Null THEN tx.ac ELSE @]
<1>1. /\ todo # <<>> /\ Head(todo).op = "encoder" /\ Head(todo).ac = tx.ac
      /\ todo' = Tail(todo) /\ UNCHANGED <<cfg, fmts, alive>>
  BY DEF EncoderSet, Does
<1>2. /\ todo' \in Seq(Operation) /\ TodoInv' /\ Ops' \subseteq Ops
      /\ alive /\ "player" \notin Ops /\ QuietInv' /\ tx.ac \in Named
      /\ "join" \notin Ops
  <2>1. "encoder" \notin StopOps
    BY DEF StopOps
  <2> HIDE DEF StopOps
  <2> QED
    BY <2>1, <1>1, NotQuiet
<1>3. tx.ac \in Codecs /\ tx.ac # Null
  BY <1>2, SettingFacts, FormatOf DEF Inv
<1>4. tx \in TxType /\ rx \in RxType
  BY Types DEF Inv
<1>5. \/ "encoder" \in cfg.fails /\ Becomes(tx, rx, FALSE) /\ failed' = TRUE
      \/ full.src = Null /\ AudioStarts(full, rx)
      \/ full.src # Null /\ Becomes(full, rx, FALSE) /\ failed' = failed
  BY DEF EncoderSet
<1>6. tx.enc = tx.ac \/ tx.enc = Null
  BY <1>2 DEF Inv, EncInv
<1>7. /\ full \in TxType /\ full.ac = tx.ac /\ full.src = tx.src /\ full.enc = tx.ac
      /\ full.buf = tx.buf /\ full.filt = tx.filt /\ full.run = tx.run
  BY <1>3, <1>4, <1>6 DEF TxType
<1> HIDE DEF full
<1>8. /\ rx.ac \in Named \cup {Null}
      /\ rx.play # Null => rx.buf /\ rx.ac # Null
      /\ "decoder" \notin cfg.fails =>
            /\ rx.play # Null => rx.play = Format[rx.ac]
            /\ rx.filt # Null => rx.filt = Format[rx.ac]
  BY DEF Inv, PlayerInv
<1>9. tx.src # Null => tx.buf /\ tx.src = Format[tx.ac]
  BY DEF Inv, SourceInv
<1>10. Fits(full, rx) /\ Fits(tx, rx)
  BY <1>2, <1>3, <1>4, <1>7, <1>8, <1>9 DEF Fits
<1>11. FitsFilters(full, rx)
  BY <1>2, <1>7 DEF Inv, PipeInv, FitsFilters
<1>12. CASE "encoder" \in cfg.fails /\ Becomes(tx, rx, FALSE) /\ failed' = TRUE
  <2>1. Leaves(tx, rx) /\ rx'.filt = rx.filt /\ tx' = tx /\ rx' = rx
    BY <1>4, <1>12, BecomesFacts DEF Inv
  <2>2. SourceInv' /\ PlayerInv'
    BY <2>1, <1>1, <1>2, <1>10, DevicesLeft
  <2>3. PipeInv'
    BY <2>1, <1>1, <1>2, FiltersKept
  <2>4. EncInv'
    BY <2>1, <1>1, <1>6, <1>12 DEF EncInv
  <2>5. Inv'
    BY <2>1, <2>2, <2>3, <2>4, <1>1, <1>2, PartKeeps
  <2>6. Used /\ Stays
    BY <2>1, <1>2, UsedKept, StaysPut
  <2> QED
    BY <2>1, <2>5, <2>6, <1>1, <1>2, <1>12
<1>13. CASE full.src = Null /\ AudioStarts(full, rx)
  <2>1. Leaves(full, rx) /\ Filtered(full, rx, tx'.filt, rx'.filt)
    BY <1>4, <1>7, <1>13, StartsFacts DEF Inv
  <2>2. SourceInv' /\ PlayerInv'
    BY <2>1, <1>1, <1>2, <1>10, DevicesLeft DEF Filtered
  <2>3. PipeInv'
    BY <2>1, <1>1, <1>10, <1>11, FiltersLeft
  <2>4. tx'.enc = tx.ac /\ tx'.ac = tx.ac
    BY <2>1, <1>7 DEF Leaves
  <2>5. EncInv'
    BY <2>4 DEF EncInv
  <2>6. Inv'
    BY <2>1, <2>2, <2>3, <2>5, <1>1, <1>2, PartKeeps
  <2>7. Used
    BY <2>1, <1>7, UsedKept
  <2>8. Stays
    BY <2>1, <1>2, <1>7, StaysPut
  <2> QED
    BY <2>4, <2>6, <2>7, <2>8, <1>1, <1>2, <1>6
<1>14. CASE full.src # Null /\ Becomes(full, rx, FALSE) /\ failed' = failed
  <2>1. failed' \in BOOLEAN
    BY <1>14 DEF Inv, TypeOK
  <2>2. Leaves(full, rx) /\ rx'.filt = rx.filt /\ tx' = full /\ rx' = rx
    BY <2>1, <1>4, <1>7, <1>14, BecomesFacts DEF Inv
  <2>3. SourceInv' /\ PlayerInv'
    BY <2>2, <1>1, <1>2, <1>10, DevicesLeft
  <2>4. PipeInv'
    BY <2>2, <1>1, <1>2, <1>7, FiltersKept
  <2>5. EncInv'
    BY <2>2, <1>7 DEF EncInv
  <2>6. Inv'
    BY <2>2, <2>3, <2>4, <2>5, <1>1, <1>2, PartKeeps
  <2>7. Used
    BY <2>2, <1>7, UsedKept
  <2>8. Stays
    BY <2>2, <1>2, <1>7, StaysPut
  <2> QED
    BY <2>2, <2>6, <2>7, <2>8, <1>1, <1>2, <1>6, <1>7
<1> QED
  BY <1>5, <1>12, <1>13, <1>14

\* What the transmit half is like when it is not touched.
LEMMA SourceFits ==
    ASSUME Inv, alive
    PROVE  /\ tx \in TxType /\ tx.ac \in Named \cup {Null} /\ tx.src \in {tx.src, Null}
           /\ tx.src # Null => tx.buf /\ tx.ac # Null /\ tx.src = Format[tx.ac]
BY Types DEF Inv, SourceInv

LEMMA DecoderSetKeeps ==
    ASSUME Inv, DecoderSet
    PROVE  Inv' /\ Used /\ Stays /\ tx'.enc = tx.enc /\ tx'.ac = tx.ac /\ alive' = alive
<1> DEFINE ac    == Head(todo).ac
           reset == NewFormat(ac, rx.ac)
           bare  == [rx EXCEPT !.ac = ac,
                               !.pt = IF ac = rx.ac THEN @ ELSE ac,
                               !.dec = IF ac = rx.ac THEN @ ELSE Null]
           full  == [bare EXCEPT !.dec = ac]
           new   == [full EXCEPT !.play = Null, !.filt = Null]
<1>1. /\ todo # <<>> /\ Head(todo).op = "decoder" /\ todo' = Tail(todo)
      /\ UNCHANGED <<cfg, fmts, alive>>
  BY DEF DecoderSet, Does
<1>2. /\ UNCHANGED <<cfg, fmts, alive>>
      /\ todo' \in Seq(Operation) /\ TodoInv' /\ Ops' \subseteq Ops
      /\ alive /\ "player" \notin Ops /\ QuietInv' /\ ac \in Named
      /\ "join" \notin Ops
  <2>1. "decoder" \notin StopOps
    BY DEF StopOps
  <2> HIDE DEF StopOps
  <2> QED
    BY <2>1, <1>1, NotQuiet
<1>3. ac \in Codecs /\ Format[ac] # Null /\ ac # Null
  BY <1>2, SettingFacts, FormatOf DEF Inv
<1>4. tx \in TxType /\ rx \in RxType
  BY Types DEF Inv
<1>5. /\ ~reset => rx.ac # Null /\ Format[ac] = Format[rx.ac]
      /\ reset /\ SingleFormat => rx.ac = Null
  BY <1>2 DEF NewFormat, SingleFormat, Inv, PlayerInv
<1>6. \/ "decoder" \in cfg.fails /\ Becomes(tx, bare, FALSE) /\ failed' = TRUE
      \/ reset /\ AudioStarts(tx, new)
      \/ ~reset /\ Becomes(tx, full, FALSE) /\ failed' = failed
  BY DEF DecoderSet
<1>7. /\ bare \in RxType /\ bare.ac = ac /\ bare.play = rx.play
      /\ bare.buf = rx.buf /\ bare.filt = rx.filt
  BY <1>3, <1>4 DEF RxType
<1>8. /\ full \in RxType /\ full.ac = ac /\ full.play = rx.play
      /\ full.buf = rx.buf /\ full.filt = rx.filt
  <2> HIDE DEF ac, reset, bare
  <2> QED
    BY <1>3, <1>7 DEF RxType
<1>9. /\ new \in RxType /\ new.ac = ac /\ new.play = Null /\ new.filt = Null
      /\ new.buf = rx.buf
  BY <1>8 DEF RxType
<1> HIDE DEF bare, full, new, reset, ac
<1>10. /\ tx.ac \in Named \cup {Null} /\ tx.src \in {tx.src, Null}
       /\ tx.src # Null => tx.buf /\ tx.ac # Null /\ tx.src = Format[tx.ac]
  BY <1>2, SourceFits
<1>11. /\ rx.play # Null => rx.buf /\ rx.ac # Null
       /\ "decoder" \notin cfg.fails =>
             /\ rx.play # Null => rx.play = Format[rx.ac]
             /\ rx.filt # Null => rx.filt = Format[rx.ac]
  BY DEF Inv, PlayerInv
<1>12. EncInv'
  <2>1. ~Changing
    BY <1>1 DEF Changing
  <2>2. tx'.enc = tx.enc /\ tx'.ac = tx.ac
    <3>1. CASE Becomes(tx, bare, FALSE) \/ Becomes(tx, full, FALSE)
      BY <3>1 DEF Becomes
    <3>2. CASE AudioStarts(tx, new)
      BY <3>2, <1>4, <1>9, StartsFacts DEF Inv, Leaves
    <3> QED
      BY <3>1, <3>2, <1>6
  <2> QED
    BY <2>1, <2>2, <1>2, EncKept DEF Inv
<1>13. CASE "decoder" \in cfg.fails /\ Becomes(tx, bare, FALSE) /\ failed' = TRUE
  <2>1. Fits(tx, bare)
    BY <1>2, <1>3, <1>4, <1>7, <1>10, <1>11, <1>13 DEF Fits
  <2>2. Leaves(tx, bare) /\ rx'.filt = bare.filt /\ tx' = tx /\ rx' = bare
    BY <1>4, <1>7, <1>13, BecomesFacts DEF Inv
  <2>3. SourceInv' /\ PlayerInv'
    BY <2>1, <2>2, <1>2, DevicesLeft
  <2>4. PipeInv'
    BY <2>2, <1>2, <1>3, <1>7, FiltersKept
  <2>5. Inv'
    BY <2>2, <2>3, <2>4, <1>2, <1>12, PartKeeps
  <2>6. Used /\ Stays
    BY <2>2, <1>2, <1>7, UsedKept, StaysPut
  <2> QED
    BY <2>2, <2>5, <2>6, <1>2
<1>14. CASE reset /\ AudioStarts(tx, new)
  <2>1. Fits(tx, new)
    BY <1>2, <1>4, <1>9, <1>10 DEF Fits
  <2>2. FitsFilters(tx, new)
    BY <1>2, <1>5, <1>9, <1>14 DEF Inv, PipeInv, FitsFilters
  <2>3. Leaves(tx, new) /\ Filtered(tx, new, tx'.filt, rx'.filt)
    BY <1>4, <1>9, <1>14, StartsFacts DEF Inv
  <2>4. SourceInv' /\ PlayerInv'
    BY <2>1, <2>3, <1>2, DevicesLeft DEF Filtered
  <2>5. PipeInv'
    BY <2>1, <2>2, <2>3, <1>2, FiltersLeft
  <2>6. Inv'
    BY <2>3, <2>4, <2>5, <1>2, <1>12, PartKeeps
  <2>7. Used /\ Stays
    BY <2>3, <1>2, <1>9, UsedKept, StaysPut
  <2>8. tx'.enc = tx.enc /\ tx'.ac = tx.ac
    BY <2>3 DEF Leaves
  <2> QED
    BY <2>6, <2>7, <2>8, <1>2
<1>15. CASE ~reset /\ Becomes(tx, full, FALSE) /\ failed' = failed
  <2>1. Fits(tx, full)
    BY <1>2, <1>3, <1>4, <1>5, <1>8, <1>10, <1>11, <1>15 DEF Fits
  <2>2. failed' \in BOOLEAN
    BY <1>15 DEF Inv, TypeOK
  <2>3. Leaves(tx, full) /\ rx'.filt = full.filt /\ tx' = tx /\ rx' = full
    BY <2>2, <1>4, <1>8, <1>15, BecomesFacts DEF Inv
  <2>4. SourceInv' /\ PlayerInv'
    BY <2>1, <2>3, <1>2, DevicesLeft
  <2>5. PipeInv'
    BY <2>3, <1>2, <1>3, <1>8, FiltersKept
  <2>6. Inv'
    BY <2>3, <2>4, <2>5, <1>2, <1>12, PartKeeps
  <2>7. Used /\ Stays
    BY <2>3, <1>2, <1>8, UsedKept, StaysPut
  <2> QED
    BY <2>3, <2>6, <2>7, <1>2
<1> QED
  BY <1>6, <1>13, <1>14, <1>15

LEMMA AudioStartKeeps ==
    ASSUME Inv, AudioStart
    PROVE  Inv' /\ Used /\ Stays /\ tx'.enc = tx.enc /\ tx'.ac = tx.ac /\ alive' = alive
<1>1. Does("start") /\ (\/ Becomes(tx, rx, FALSE) /\ failed' = failed
                        \/ AudioStarts(tx, rx))
  BY DEF AudioStart
<1>2. /\ todo # <<>> /\ Head(todo).op = "start" /\ todo' = Tail(todo)
      /\ UNCHANGED <<cfg, fmts, alive>>
  BY <1>1 DEF Does
<1>3. /\ todo' \in Seq(Operation) /\ TodoInv' /\ Ops' \subseteq Ops
      /\ alive /\ "player" \notin Ops /\ "join" \notin Ops /\ QuietInv'
  <2>1. "start" \notin StopOps
    BY DEF StopOps
  <2> HIDE DEF StopOps
  <2> QED
    BY <2>1, <1>2, NotQuiet
<1>4. tx \in TxType /\ rx \in RxType
  BY Types DEF Inv
<1>5. Fits(tx, rx)
  <2>1. /\ rx.ac \in Named \cup {Null}
        /\ rx.play # Null => rx.buf /\ rx.ac # Null
        /\ "decoder" \notin cfg.fails =>
              /\ rx.play # Null => rx.play = Format[rx.ac]
              /\ rx.filt # Null => rx.filt = Format[rx.ac]
    BY DEF Inv, PlayerInv
  <2> QED
    BY <2>1, <1>2, <1>3, <1>4, SourceFits DEF Fits
<1>6. FitsFilters(tx, rx)
  BY <1>2, <1>3 DEF Inv, PipeInv, FitsFilters
<1>7. EncInv'
  <2>1. ~Changing
    BY <1>2 DEF Changing
  <2>2. tx'.enc = tx.enc /\ tx'.ac = tx.ac
    <3>1. CASE Becomes(tx, rx, FALSE)
      BY <3>1 DEF Becomes
    <3>2. CASE AudioStarts(tx, rx)
      BY <3>2, <1>4, StartsFacts DEF Inv, Leaves
    <3> QED
      BY <3>1, <3>2, <1>1
  <2> QED
    BY <2>1, <2>2, <1>2, EncKept DEF Inv
<1>8. CASE Becomes(tx, rx, FALSE) /\ failed' = failed
  <2>1. failed' \in BOOLEAN
    BY <1>8 DEF Inv, TypeOK
  <2>2. Leaves(tx, rx) /\ rx'.filt = rx.filt /\ tx' = tx /\ rx' = rx
    BY <2>1, <1>4, <1>8, BecomesFacts DEF Inv
  <2>3. SourceInv' /\ PlayerInv'
    BY <2>2, <1>2, <1>3, <1>5, DevicesLeft
  <2>4. PipeInv'
    BY <2>2, <1>2, <1>3, FiltersKept
  <2>5. Inv'
    BY <2>2, <2>3, <2>4, <1>2, <1>3, <1>7, PartKeeps
  <2>6. Used /\ Stays
    BY <2>2, <1>2, <1>3, UsedKept, StaysPut
  <2> QED
    BY <2>2, <2>5, <2>6, <1>2, <1>3
<1>9. CASE AudioStarts(tx, rx)
  <2>1. Leaves(tx, rx) /\ Filtered(tx, rx, tx'.filt, rx'.filt)
    BY <1>4, <1>9, StartsFacts DEF Inv
  <2>2. SourceInv' /\ PlayerInv'
    BY <2>1, <1>2, <1>3, <1>5, DevicesLeft DEF Filtered
  <2>3. PipeInv'
    BY <2>1, <1>2, <1>3, <1>5, <1>6, FiltersLeft
  <2>4. Inv'
    BY <2>1, <2>2, <2>3, <1>2, <1>3, <1>7, PartKeeps
  <2>5. Used /\ Stays
    BY <2>1, <1>2, <1>3, UsedKept, StaysPut
  <2>6. tx'.enc = tx.enc /\ tx'.ac = tx.ac
    BY <2>1 DEF Leaves
  <2> QED
    BY <2>4, <2>5, <2>6, <1>2, <1>3
<1> QED
  BY <1>1, <1>8, <1>9
-----------------------------------------------------------------------------
(***************************************************************************)
(* The drops of the source and the player, the end, and the other threads. *)
(***************************************************************************)
LEMMA DropSourceKeeps ==
    ASSUME Inv, DropSource
    PROVE  Inv'
<1> USE DEF Inv
<1> DEFINE t == [tx EXCEPT !.src = Null, !.buf = FALSE, !.filt = Null]
<1>1. /\ todo # <<>> /\ Head(todo).op = "source" /\ todo' = Tail(todo)
      /\ UNCHANGED <<cfg, fmts, alive, failed>>
      /\ ~SourceInHandler /\ Becomes(t, rx, FALSE)
  BY DEF DropSource, Does
<1>2. tx \in TxType /\ rx \in RxType
  BY Types
<1>3. /\ t \in TxType /\ t.ac = tx.ac /\ t.enc = tx.enc /\ t.src = Null
      /\ ~t.buf /\ t.filt = Null /\ t.run = tx.run
  BY <1>2 DEF TxType
<1> HIDE DEF t
<1>4. Leaves(t, rx) /\ rx' = rx /\ tx' = t
  <2>1. failed' \in BOOLEAN
    BY <1>1 DEF TypeOK
  <2> QED
    BY <2>1, <1>1, <1>2, <1>3, BecomesFacts
<1>5. /\ todo' \in Seq(Operation) /\ TodoInv'
      /\ Ops' = Ops \ {"source"} /\ "source" \in Ops /\ "join" \notin Ops'
  BY <1>1, Queue
<1>6. Named' = Named /\ SingleFormat' = SingleFormat
  BY <1>1, NamedSame
<1>7. Quiet
  BY <1>5 DEF Quiet, StopOps
<1>8. /\ ~timer /\ ~tx.run /\ txThread = "off" /\ Ops \subseteq StopOps
      /\ "player" \notin Ops => rx.play = Null /\ rx.filt = Null
  BY <1>5, <1>7 DEF QuietInv
<1>9. /\ timer' = timer /\ txThread' = txThread /\ srcThread' = "off"
      /\ playThread' = playThread
  BY <1>1, <1>3 DEF Becomes, TypeOK, PlayerInv
<1>10. SourceInv'
  BY <1>1, <1>3, <1>4, <1>5, <1>6, <1>8, <1>9 DEF SourceInv, StopOps
<1>11. PlayerInv'
  BY <1>1, <1>4, <1>6, <1>9 DEF PlayerInv
<1>12. QuietInv'
  BY <1>1, <1>3, <1>4, <1>5, <1>8, <1>9 DEF QuietInv
<1>13. PipeInv'
  BY <1>1, <1>3, <1>4, <1>5, <1>6, <1>8 DEF PipeInv
<1>14. EncInv'
  BY <1>1, <1>3, <1>4, EncKept DEF Changing
<1> QED
  BY <1>1, <1>4, <1>5, <1>10, <1>11, <1>12, <1>13, <1>14, PartKeeps

LEMMA DropPlayerKeeps ==
    ASSUME Inv, DropPlayer
    PROVE  Inv' /\ srcThread' = srcThread /\ txThread' = txThread
<1> USE DEF Inv
<1> DEFINE r == [rx EXCEPT !.play = Null, !.buf = FALSE, !.filt = Null]
<1>1. /\ todo # <<>> /\ Head(todo).op = "player" /\ todo' = Tail(todo)
      /\ UNCHANGED <<cfg, fmts, alive, failed>>
      /\ ~PlayerInHandler /\ Becomes(tx, r, FALSE)
  BY DEF DropPlayer, Does
<1>2. tx \in TxType /\ rx \in RxType
  BY Types
<1>3. /\ r \in RxType /\ r.ac = rx.ac /\ r.play = Null
      /\ ~r.buf /\ r.filt = Null
  BY <1>2 DEF RxType
<1> HIDE DEF r
<1>4. Leaves(tx, r) /\ rx' = r /\ tx' = tx
  <2>1. failed' \in BOOLEAN
    BY <1>1 DEF TypeOK
  <2> QED
    BY <2>1, <1>1, <1>2, <1>3, BecomesFacts
<1>5. /\ todo' \in Seq(Operation) /\ TodoInv'
      /\ Ops' = Ops \ {"player"} /\ "player" \in Ops /\ "join" \notin Ops'
      /\ "source" \notin Ops
  BY <1>1, Queue
<1>6. Named' = Named /\ SingleFormat' = SingleFormat
  BY <1>1, NamedSame
<1>7. Quiet
  BY <1>5 DEF Quiet, StopOps
<1>8. /\ timer' = timer /\ txThread' = txThread /\ srcThread' = srcThread
      /\ playThread' = "off"
  BY <1>1, <1>3 DEF Becomes, TypeOK, SourceInv
<1>9. SourceInv'
  BY <1>1, <1>4, <1>5, <1>6, <1>8 DEF SourceInv
<1>10. PlayerInv'
  BY <1>1, <1>3, <1>4, <1>6, <1>8 DEF PlayerInv
<1>11. QuietInv'
  <2>1. /\ Ops \subseteq StopOps /\ ~timer /\ ~tx.run
        /\ "join" \notin Ops => txThread = "off"
        /\ "source" \notin Ops => tx.src = Null /\ tx.filt = Null
    BY <1>7 DEF QuietInv
  <2>2. "join" \notin Ops
    BY <1>5
  <2> QED
    BY <2>1, <2>2, <1>1, <1>3, <1>4, <1>5, <1>8 DEF QuietInv
<1>12. PipeInv'
  <2>1. tx.filt = Null /\ tx.src = Null
    BY <1>5, <1>7 DEF QuietInv
  <2> QED
    BY <2>1, <1>1, <1>3, <1>4, <1>6 DEF PipeInv
<1>13. EncInv'
  BY <1>1, <1>4, EncKept DEF Changing
<1>14. Inv'
  BY <1>1, <1>4, <1>5, <1>9, <1>10, <1>11, <1>12, <1>13, PartKeeps
<1> QED
  BY <1>8, <1>14

LEMMA FreeKeeps ==
    ASSUME Inv, Free
    PROVE  Inv' /\ {srcThread, playThread, txThread} = {"off"} /\ ~timer
<1> USE DEF Inv
<1>1. /\ todo # <<>> /\ Head(todo).op = "free" /\ todo' = Tail(todo) /\ alive' = FALSE
      /\ tx' = [tx EXCEPT !.enc = Null] /\ rx' = [rx EXCEPT !.dec = Null]
      /\ UNCHANGED <<cfg, fmts, timer, srcThread, playThread, txThread, failed>>
  BY DEF Free
<1>2. /\ todo' \in Seq(Operation) /\ TodoInv' /\ todo' = <<>>
      /\ Ops' = Ops \ {"free"} /\ "free" \in Ops
  BY <1>1, Queue
<1>3. Ops' = {}
  BY <1>2, NothingToDo DEF Ops
<1>4. /\ ~timer /\ ~tx.run /\ txThread = "off"
      /\ tx.src = Null /\ tx.filt = Null /\ rx.play = Null /\ rx.filt = Null
  BY <1>2, <1>3 DEF QuietInv, Quiet, StopOps
<1>5. srcThread = "off" /\ playThread = "off"
  BY <1>4 DEF SourceInv, PlayerInv
<1>6. tx \in TxType /\ rx \in RxType
  BY Types
<1>7. /\ tx' \in TxType /\ tx'.ac = tx.ac /\ tx'.src = tx.src /\ tx'.buf = tx.buf
      /\ tx'.filt = tx.filt /\ tx'.run = tx.run
  BY <1>1, <1>6 DEF TxType
<1>8. /\ rx' \in RxType /\ rx'.ac = rx.ac /\ rx'.play = rx.play /\ rx'.buf = rx.buf
      /\ rx'.filt = rx.filt
  BY <1>1, <1>6 DEF RxType
<1>9. Named' = Named /\ SingleFormat' = SingleFormat
  BY <1>1, NamedSame
<1>10. TypeOK'
  <2>1. /\ tx' \in [ac : Codecs \cup {Null}, enc : Codecs \cup {Null},
                    src : Formats \cup {Null}, buf : BOOLEAN,
                    filt : Formats \cup {Null}, run : BOOLEAN]
        /\ rx' \in [ac : Codecs \cup {Null}, dec : Codecs \cup {Null},
                    play : Formats \cup {Null}, buf : BOOLEAN,
                    filt : Formats \cup {Null}, pt : Codecs \cup {Null}]
    BY <1>7, <1>8 DEF TxType, RxType
  <2> QED
    BY <2>1, <1>1, <1>2 DEF TypeOK
<1>11. SourceInv'
  BY <1>1, <1>3, <1>4, <1>5, <1>7, <1>9 DEF SourceInv
<1>12. PlayerInv'
  BY <1>1, <1>4, <1>5, <1>8, <1>9 DEF PlayerInv
<1>13. QuietInv'
  BY <1>1, <1>2, <1>3, <1>4, <1>7, <1>8 DEF QuietInv
<1>14. PipeInv'
  BY <1>1, <1>4, <1>7, <1>8, <1>9 DEF PipeInv
<1>15. EncInv'
  BY <1>1 DEF EncInv
<1> QED
  BY <1>2, <1>4, <1>5, <1>10, <1>11, <1>12, <1>13, <1>14, <1>15

\* The steps of the other threads: which of them moves, and where to.
ThreadStep == SourceCalls \/ SourceRuns \/ PlayerCalls \/ PlayerReturns \/ TxThread

LEMMA ThreadFacts ==
    ASSUME Inv, ThreadStep
    PROVE  /\ UNCHANGED <<cfg, fmts, tx, rx, timer, todo, failed, alive>>
           /\ srcThread' \in {"off", "idle", "write", "filter", "encode", "telev", "error"}
           /\ playThread' \in {"off", "idle", "read"}
           /\ txThread' \in {"off", "test", "filter", "encode"}
           /\ srcThread' = "off" <=> srcThread = "off"
           /\ playThread' = "off" <=> playThread = "off"
           /\ txThread' # "off" => txThread # "off"
           /\ srcThread' \in {"filter", "encode"} => cfg.txmode = "poll"
<1>1. /\ srcThread \in {"off", "idle", "write", "filter", "encode", "telev", "error"}
      /\ playThread \in {"off", "idle", "read"}
      /\ txThread \in {"off", "test", "filter", "encode"}
      /\ srcThread \in {"filter", "encode"} => cfg.txmode = "poll"
  BY DEF Inv, TypeOK, SourceInv
<1>2. CASE SourceCalls
  BY <1>1, <1>2 DEF SourceCalls, OnlyThreads
<1>3. CASE SourceRuns
  BY <1>1, <1>3 DEF SourceRuns, OnlyThreads
<1>4. CASE PlayerCalls
  BY <1>1, <1>4 DEF PlayerCalls, OnlyThreads
<1>5. CASE PlayerReturns
  BY <1>1, <1>5 DEF PlayerReturns, OnlyThreads
<1>6. CASE TxThread
  BY <1>1, <1>6 DEF TxThread, OnlyThreads
<1> QED
  BY <1>2, <1>3, <1>4, <1>5, <1>6 DEF ThreadStep

LEMMA ThreadsKeep ==
    ASSUME Inv, ThreadStep
    PROVE  Inv'
<1> USE DEF Inv
<1>1. /\ UNCHANGED <<cfg, fmts, tx, rx, timer, todo, failed, alive>>
      /\ srcThread' \in {"off", "idle", "write", "filter", "encode", "telev", "error"}
      /\ playThread' \in {"off", "idle", "read"}
      /\ txThread' \in {"off", "test", "filter", "encode"}
      /\ srcThread' = "off" <=> srcThread = "off"
      /\ playThread' = "off" <=> playThread = "off"
      /\ txThread' # "off" => txThread # "off"
      /\ srcThread' \in {"filter", "encode"} => cfg.txmode = "poll"
  BY ThreadFacts
<1>2. Named' = Named /\ SingleFormat' = SingleFormat /\ Ops' = Ops
  BY <1>1, NamedSame DEF Ops, OpsOf
<1>3. TypeOK'
  BY <1>1 DEF TypeOK
<1>4. TodoInv'
  BY <1>1, <1>2 DEF TodoInv, InOrder
<1>5. SourceInv'
  BY <1>1, <1>2 DEF SourceInv
<1>6. PlayerInv'
  BY <1>1, <1>2 DEF PlayerInv
<1>7. QuietInv'
  BY <1>1, <1>2 DEF QuietInv, Quiet
<1>8. PipeInv'
  BY <1>1, <1>2 DEF PipeInv
<1>9. EncInv'
  BY <1>1, EncKept
<1> QED
  BY <1>3, <1>4, <1>5, <1>6, <1>7, <1>8, <1>9

LEMMA StutterKeeps ==
    ASSUME Inv, UNCHANGED vars
    PROVE  Inv'
<1> USE DEF Inv
<1>1. UNCHANGED <<cfg, fmts, tx, rx, timer, srcThread, playThread, txThread, todo,
                  failed, alive>>
  BY DEF vars
<1>2. Named' = Named /\ SingleFormat' = SingleFormat /\ Ops' = Ops /\ Quiet' = Quiet
  BY <1>1, NamedSame DEF Ops, OpsOf, Quiet
<1>3. TypeOK'
  BY <1>1 DEF TypeOK
<1>4. TodoInv'
  BY <1>1, <1>2 DEF TodoInv, InOrder
<1>5. SourceInv' /\ PlayerInv'
  BY <1>1, <1>2 DEF SourceInv, PlayerInv
<1>6. QuietInv' /\ PipeInv'
  BY <1>1, <1>2 DEF QuietInv, PipeInv
<1>7. EncInv'
  BY <1>1, EncKept
<1> QED
  BY <1>3, <1>4, <1>5, <1>6, <1>7

LEMMA InitInv == Init => Inv
<1> SUFFICES ASSUME Init PROVE Inv
  OBVIOUS
<1> USE DEF Init
<1>1. Ops = {} /\ InOrder(todo) /\ todo \in Seq(Operation)
  BY NothingToDo DEF Ops
<1>2. TypeOK
  <2>1. fmts \in Seq(Codecs \cup {Events})
    OBVIOUS
  <2>2. tx \in [ac : Codecs \cup {Null}, enc : Codecs \cup {Null},
               src : Formats \cup {Null}, buf : BOOLEAN,
               filt : Formats \cup {Null}, run : BOOLEAN]
    OBVIOUS
  <2>3. rx \in [ac : Codecs \cup {Null}, dec : Codecs \cup {Null},
               play : Formats \cup {Null}, buf : BOOLEAN,
               filt : Formats \cup {Null}, pt : Codecs \cup {Null}]
    OBVIOUS
  <2>4. /\ cfg \in Settings /\ timer = FALSE /\ failed = FALSE
        /\ alive = TRUE /\ srcThread = "off" /\ playThread = "off" /\ txThread = "off"
    OBVIOUS
  <2> QED
    BY <1>1, <2>1, <2>2, <2>3, <2>4 DEF TypeOK
<1>3. TodoInv
  BY <1>1 DEF TodoInv
<1>4. SourceInv /\ EncInv /\ PlayerInv
  BY <1>1 DEF SourceInv, EncInv, PlayerInv
<1>5. QuietInv /\ PipeInv
  BY <1>1 DEF QuietInv, Quiet, PipeInv
<1> QED
  BY <1>2, <1>3, <1>4, <1>5 DEF Inv

LEMMA MainKeeps ==
    ASSUME Inv, Main
    PROVE  Inv'
<1>1. CASE StreamsReset \/ TimerSends \/ JoinTx
  <2>1. /\ todo # <<>> /\ todo' = Tail(todo)
        /\ Head(todo).op \in {"reset", "filter", "encode", "join"}
        /\ Head(todo).op = "join" => txThread = "off"
        /\ UNCHANGED <<cfg, fmts, tx, rx, timer, srcThread, playThread, txThread,
                       failed, alive>>
    BY <1>1 DEF StreamsReset, TimerSends, JoinTx, Does
  <2> QED
    BY <2>1, TurnKeeps
<1> QED
  BY <1>1, EncoderChangeKeeps, EncoderSetKeeps, DecoderSetKeeps, AudioStartKeeps, FormatCycleKeeps,
     DropSourceKeeps, DropPlayerKeeps, FreeKeeps DEF Main

LEMMA NextKeeps ==
    ASSUME Inv, [Next]_vars
    PROVE  Inv'
<1>1. CASE AudioStop \/ AudioDestructor \/ SourceError
  BY <1>1, StopTxKeeps DEF AudioStop, AudioDestructor, SourceError
<1>2. CASE SourceCalls \/ SourceRuns \/ PlayerCalls \/ PlayerReturns \/ TxThread
  BY <1>2, ThreadsKeep DEF ThreadStep
<1> QED
  BY <1>1, <1>2, StreamStartKeeps, UpdateMediaKeeps, PayloadChangedKeeps,
     EncoderCycleKeeps, TimeoutTxKeeps, MainKeeps, StutterKeeps DEF Next

LEMMA Invariance == Spec => []Inv
BY InitInv, NextKeeps, PTL DEF Spec
-----------------------------------------------------------------------------
(***************************************************************************)
(* The pipeline of a call has the types of its model: a device that is     *)
(* open has a format, and what the main loop has yet to do is well formed. *)
(***************************************************************************)
THEOREM AudioTypes == Spec => []TypeOK
<1>1. Inv => TypeOK
  BY DEF Inv
<1> QED
  BY <1>1, Invariance, PTL

(***************************************************************************)
(* The devices and the decode filter have the format of the current codec, *)
(* in whatever order offers, answers and RTP change the codecs, whatever   *)
(* else fails; where decupdh may fail, only the source does.               *)
(***************************************************************************)
THEOREM AudioFormats == Spec => []FormatsAgree
<1>1. Inv => FormatsAgree
  BY DEF Inv, SourceInv, PlayerInv, FormatsAgree
<1> QED
  BY <1>1, Invariance, PTL

(***************************************************************************)
(* What the player plays has gone through the filters (aufilt_setup), for  *)
(* any codecs of one format, and whatever devices fail.                    *)
(***************************************************************************)
THEOREM AudioFiltered == Spec => []DecodePipeline
<1>1. Inv => DecodePipeline
  BY DEF Inv, PipeInv, DecodePipeline
<1> QED
  BY <1>1, Invariance, PTL
-----------------------------------------------------------------------------
(***************************************************************************)
(* What a thread works with is not freed, where the encoder is exclusive   *)
(* to the thread that sets it: the main loop encodes, or the codecs that   *)
(* are negotiated differ in format, so that the source is dropped before   *)
(* the encoder changes, or there is one codec only.                        *)
(***************************************************************************)
Exclusive ==
    \/ cfg.txmode = "timer"
    \/ cfg.txmode = "poll" /\ \A ac, bc \in Named : Format[ac] = Format[bc] => ac = bc
    \/ \A ac, bc \in Named : ac = bc

LEMMA ConfigKept ==
    ASSUME [Next]_vars
    PROVE  cfg' = cfg
BY DEF Next, Main, vars, StreamStart, UpdateMedia, EncoderCycle, TimeoutTx, PayloadChanged,
       AudioStop, AudioDestructor, SourceError, StopTx, Begin,
       EncoderChange, EncoderSet, DecoderSet, AudioStart, FormatCycle, StreamsReset, TimerSends,
       JoinTx, DropSource, DropPlayer, Free, Does,
       SourceCalls, SourceRuns, PlayerCalls, PlayerReturns, TxThread, OnlyThreads

LEMMA InUse ==
    ASSUME Inv
    PROVE  /\ SourceInHandler \/ Filtering => tx.buf
           /\ PlayerInHandler => rx.buf
           /\ ~alive => {srcThread, playThread, txThread} = {"off"} /\ ~timer
<1>1. todo # <<>> => Head(todo).op \in Ops
  <2>1. todo \in Seq(Operation) /\ InOrder(todo)
    BY DEF Inv, TypeOK, TodoInv
  <2> QED
    BY <2>1, LessToDo DEF Ops
<1>2. SourceInHandler => tx.buf
  BY DEF SourceInHandler, Inv, SourceInv
<1>3. Filtering => tx.buf
  <2>1. CASE srcThread = "filter"
    BY <2>1, <1>2 DEF SourceInHandler
  <2>2. CASE txThread = "filter"
    BY <2>2 DEF Inv, SourceInv
  <2>3. CASE todo # <<>> /\ Head(todo) = Op("filter")
    <3>1. "filter" \in Ops
      BY <2>3, <1>1, OperationFacts
    <3> QED
      BY <3>1 DEF Inv, SourceInv
  <2> QED
    BY <2>1, <2>2, <2>3 DEF Filtering, At
<1>4. PlayerInHandler => rx.buf
  BY DEF PlayerInHandler, Inv, PlayerInv
<1>5. ASSUME ~alive
      PROVE  {srcThread, playThread, txThread} = {"off"} /\ ~timer
  <2>1. Ops = {} /\ Quiet
    BY <1>5, NothingUnderWay DEF Inv, QuietInv, Quiet
  <2>2. txThread = "off" /\ tx.src = Null /\ rx.play = Null /\ ~timer
    BY <2>1 DEF Inv, QuietInv
  <2>3. srcThread = "off" /\ playThread = "off"
    BY <2>2 DEF Inv, SourceInv, PlayerInv
  <2> QED
    BY <2>2, <2>3
<1> QED
  BY <1>2, <1>3, <1>4, <1>5

\* Steps that free nothing.
LEMMA UsedUntouched ==
    ASSUME Inv, Used, tx'.enc = tx.enc, alive' = alive
    PROVE  Untouched
BY InUse DEF Untouched, Used

\* The state of an encoder goes only when no thread encodes with it.
LEMMA EncoderChangeUntouched ==
    ASSUME Inv, Exclusive, EncoderChange
    PROVE  Untouched
<1> DEFINE ac == Head(todo).ac
<1>1. /\ Used /\ alive' = alive /\ alive
      /\ todo # <<>> /\ Head(todo).op = "encoder" /\ ac \in Named /\ ac # tx.ac
      /\ NewFormat(ac, tx.ac) => ~SourceInHandler
  BY EncoderChangeKeeps
<1> HIDE DEF ac
<1>2. ASSUME Encoding, tx.enc # Null
      PROVE  FALSE
  <2>1. tx.ac # Null /\ tx.ac \in Named
    BY <1>1, <1>2 DEF Inv, SourceInv, EncInv
  <2>2. \/ srcThread = "encode" /\ cfg.txmode = "poll"
        \/ txThread = "encode" /\ cfg.txmode = "thread"
    <3>1. Head(todo) # Op("encode")
      BY <1>1, OperationFacts
    <3> QED
      BY <3>1, <1>2 DEF Encoding, At, Inv, SourceInv
  <2>3. srcThread = "encode" => Format[ac] = Format[tx.ac]
    BY <1>1, <2>1 DEF SourceInHandler, NewFormat
  <2>4. ac = tx.ac
    BY <2>1, <2>2, <2>3, <1>1 DEF Exclusive
  <2> QED
    BY <2>4, <1>1
<1> QED
  BY <1>1, <1>2, InUse DEF Untouched, Used

LEMMA EncoderSetUntouched ==
    ASSUME Inv, EncoderSet
    PROVE  Untouched
BY EncoderSetKeeps, InUse DEF Untouched, Used

LEMMA DropSourceUntouched ==
    ASSUME Inv, DropSource
    PROVE  Untouched
<1>1. /\ todo # <<>> /\ Head(todo).op = "source" /\ todo' = Tail(todo)
      /\ ~SourceInHandler /\ UNCHANGED <<cfg, fmts, alive>>
      /\ tx' = [tx EXCEPT !.src = Null, !.buf = FALSE, !.filt = Null] /\ rx' = rx
  BY DEF DropSource, Does, Becomes
<1>2. "source" \in Ops /\ "join" \notin Ops
  BY <1>1, Queue DEF Inv
<1>3. txThread = "off"
  BY <1>2 DEF Inv, QuietInv, Quiet, StopOps
<1>4. ~Filtering
  BY <1>1, <1>3, OperationFacts DEF Filtering, At, SourceInHandler
<1>5. tx'.enc = tx.enc
  BY <1>1, Types DEF Inv, TxType
<1> QED
  BY <1>1, <1>4, <1>5, InUse DEF Untouched

LEMMA FreeUntouched ==
    ASSUME Inv, Free
    PROVE  Untouched
<1>1. {srcThread, playThread, txThread} = {"off"} /\ ~timer
  BY FreeKeeps
<1>2. todo # <<>> /\ Head(todo).op = "free"
  BY DEF Free
<1>3. ~Filtering /\ ~Encoding /\ ~SourceInHandler /\ ~PlayerInHandler
  <2>1. srcThread = "off" /\ playThread = "off" /\ txThread = "off"
    BY <1>1
  <2> QED
    BY <2>1, <1>2, OperationFacts
       DEF Filtering, Encoding, At, SourceInHandler, PlayerInHandler
<1> QED
  BY <1>1, <1>3 DEF Untouched

LEMMA NextUntouched ==
    ASSUME Inv, Exclusive, Next
    PROVE  Untouched
<1>1. tx \in TxType /\ rx \in RxType
  BY Types DEF Inv
<1>2. CASE \/ \E active \in BOOLEAN : StreamStart(active)
           \/ \E offer \in cfg.offers : UpdateMedia(offer)
           \/ EncoderCycle \/ TimeoutTx
           \/ FormatCycle \/ StreamsReset \/ TimerSends \/ JoinTx \/ ThreadStep
  <2>1. tx' = tx /\ rx' = rx /\ alive' = alive
    BY <1>2, ThreadFacts DEF StreamStart, UpdateMedia, EncoderCycle, TimeoutTx, Begin,
       FormatCycle, StreamsReset, TimerSends, JoinTx, Does
  <2> QED
    BY <2>1, UsedUntouched DEF Used
<1>3. CASE \E ac \in Named : PayloadChanged(ac)
  <2>1. PICK ac \in Named : rx' = [rx EXCEPT !.pt = ac] /\ tx' = tx /\ alive' = alive
    BY <1>3 DEF PayloadChanged
  <2>2. rx'.buf = rx.buf
    BY <2>1, <1>1 DEF RxType
  <2> QED
    BY <2>1, <2>2, UsedUntouched DEF Used
<1>4. CASE AudioStop \/ AudioDestructor \/ SourceError
  <2>1. tx' = [tx EXCEPT !.run = FALSE] /\ rx' = rx /\ alive' = alive
    BY <1>4 DEF AudioStop, AudioDestructor, SourceError, StopTx
  <2>2. tx'.buf = tx.buf /\ tx'.filt = tx.filt /\ tx'.enc = tx.enc
    BY <2>1, <1>1 DEF TxType
  <2> QED
    BY <2>1, <2>2, UsedUntouched DEF Used
<1>5. CASE DecoderSet \/ AudioStart
  BY <1>5, DecoderSetKeeps, AudioStartKeeps, UsedUntouched
<1>6. CASE DropPlayer
  <2>1. tx' = tx /\ alive' = alive /\ ~PlayerInHandler
    BY <1>6 DEF DropPlayer, Does, Becomes
  <2> QED
    BY <2>1, InUse DEF Untouched
<1> QED
  BY <1>2, <1>3, <1>4, <1>5, <1>6, EncoderChangeUntouched, EncoderSetUntouched,
     DropSourceUntouched,
     FreeUntouched DEF Next, Main, ThreadStep

LEMMA ExclusiveKept == Exclusive /\ [Next]_vars => Exclusive'
<1> SUFFICES ASSUME Exclusive, [Next]_vars PROVE Exclusive'
  OBVIOUS
<1>1. cfg' = cfg
  BY ConfigKept
<1> QED
  BY <1>1, NamedSame DEF Exclusive

(***************************************************************************)
(* For any codecs and formats, and whatever fails: no step frees a buffer, *)
(* filter or encoder that another thread is working with (audio.c), where  *)
(* the encoder is exclusive.                                               *)
(***************************************************************************)
THEOREM AudioSafe == Exclusive /\ Spec => NothingInUseIsFreed
<1>1. Inv /\ Exclusive /\ [Next]_vars => [Untouched]_vars
  BY NextUntouched
<1> QED
  BY <1>1, ExclusiveKept, Invariance, PTL DEF Spec, NothingInUseIsFreed
-----------------------------------------------------------------------------
(***************************************************************************)
(* While the encoder has no state, between the two halves of               *)
(* audio_encoder_set, no thread encodes: the source was dropped with the   *)
(* old format, and the transmit thread has not been started yet.           *)
(***************************************************************************)
BareInv ==
    alive /\ "encoder" \notin cfg.fails /\ tx.enc # tx.ac =>
        /\ cfg.txmode = "poll" => srcThread = "off"
        /\ txThread = "off"

LEMMA EncoderChangeBare ==
    ASSUME Inv, Exclusive, EncoderChange
    PROVE  BareInv'
<1> DEFINE ac == Head(todo).ac
<1>1. /\ ac \in Named /\ ac # tx.ac /\ txThread' = txThread
      /\ NewFormat(ac, tx.ac) => srcThread' = "off"
  BY EncoderChangeKeeps
<1> HIDE DEF ac
<1>2. cfg' = cfg
  BY ConfigKept DEF Next, Main
<1>3. tx.ac \in Named \cup {Null}
  BY DEF Inv, SourceInv
<1>4. cfg.txmode = "poll" => srcThread' = "off"
  <2>1. cfg.txmode = "poll" => NewFormat(ac, tx.ac)
    BY <1>1, <1>3 DEF Exclusive, NewFormat
  <2> QED
    BY <2>1, <1>1
<1>5. txThread' = "off"
  <2> SUFFICES ASSUME txThread # "off" PROVE FALSE
    BY <1>1
  <2>1. cfg.txmode = "thread" /\ tx.ac # Null
    BY DEF Inv, SourceInv
  <2> QED
    BY <2>1, <1>1, <1>3 DEF Exclusive
<1> QED
  BY <1>2, <1>4, <1>5 DEF BareInv

\* Steps that leave an encoder with its state alone.
LEMMA BareKept ==
    ASSUME Inv, ~Changing, cfg' = cfg, alive' = alive, tx'.enc = tx.enc, tx'.ac = tx.ac
    PROVE  BareInv'
BY DEF Inv, EncInv, BareInv

LEMMA NextBare ==
    ASSUME Inv, Exclusive, BareInv, [Next]_vars
    PROVE  BareInv'
<1>1. cfg' = cfg
  BY ConfigKept
<1>2. CASE EncoderChange
  BY <1>2, EncoderChangeBare
<1>3. CASE EncoderSet
  BY <1>1, <1>3, EncoderSetKeeps DEF BareInv
<1>4. CASE ThreadStep
  <2>1. /\ UNCHANGED <<tx, alive>>
        /\ srcThread' = "off" <=> srcThread = "off"
        /\ txThread' # "off" => txThread # "off"
    BY <1>4, ThreadFacts
  <2> QED
    BY <2>1, <1>1 DEF BareInv
<1>5. CASE UNCHANGED vars
  BY <1>5 DEF vars, BareInv
<1>6. CASE \/ \E active \in BOOLEAN : StreamStart(active)
           \/ \E offer \in cfg.offers : UpdateMedia(offer)
           \/ \E ac \in Named : PayloadChanged(ac)
           \/ EncoderCycle \/ TimeoutTx
  <2>1. todo = <<>> /\ tx' = tx /\ alive' = alive
    BY <1>6 DEF StreamStart, UpdateMedia, PayloadChanged, EncoderCycle, TimeoutTx, Begin, Idle
  <2> QED
    BY <2>1, <1>1, BareKept DEF Changing
<1>7. CASE AudioStop \/ AudioDestructor \/ SourceError
  <2>1. todo = <<>> /\ alive' = alive /\ tx' = [tx EXCEPT !.run = FALSE]
    BY <1>7 DEF AudioStop, AudioDestructor, SourceError, StopTx, Begin, Idle
  <2>2. tx'.enc = tx.enc /\ tx'.ac = tx.ac
    BY <2>1, Types DEF Inv, TxType
  <2> QED
    BY <2>1, <2>2, <1>1, BareKept DEF Changing
<1>8. CASE FormatCycle \/ StreamsReset \/ TimerSends \/ JoinTx \/ DropPlayer
  <2>1. todo # <<>> /\ Head(todo).op # "encoder" /\ tx' = tx /\ alive' = alive
    BY <1>8, OperationFacts
       DEF FormatCycle, StreamsReset, TimerSends, JoinTx, DropPlayer, Does, Becomes
  <2> QED
    BY <2>1, <1>1, BareKept DEF Changing
<1>9. CASE DecoderSet \/ AudioStart
  <2>1. todo # <<>> /\ Head(todo).op # "encoder"
    BY <1>9 DEF DecoderSet, AudioStart, Does
  <2> QED
    BY <2>1, <1>1, <1>9, DecoderSetKeeps, AudioStartKeeps, BareKept DEF Changing
<1>10. CASE DropSource
  <2>1. /\ todo # <<>> /\ Head(todo).op # "encoder" /\ alive' = alive
        /\ tx' = [tx EXCEPT !.src = Null, !.buf = FALSE, !.filt = Null]
    BY <1>10 DEF DropSource, Does, Becomes
  <2>2. tx'.enc = tx.enc /\ tx'.ac = tx.ac
    BY <2>1, Types DEF Inv, TxType
  <2> QED
    BY <2>1, <2>2, <1>1, BareKept DEF Changing
<1>11. CASE Free
  BY <1>11 DEF Free, BareInv
<1> QED
  BY <1>2, <1>3, <1>4, <1>5, <1>6, <1>7, <1>8, <1>9, <1>10, <1>11 DEF Next, Main, ThreadStep

(***************************************************************************)
(* What is encoded is encoded with the state of the current encoder        *)
(* (audio_encoder_set, encode_rtp_send), whichever thread encodes, where   *)
(* the encoder is exclusive to the thread that sets it.                    *)
(***************************************************************************)
THEOREM AudioEncodes == Exclusive /\ Spec => []EncoderReady
<1>1. Inv /\ BareInv => EncoderReady
  <2> SUFFICES ASSUME Inv, BareInv, Encoding
               PROVE  tx.enc \in {tx.ac} \cup IF "encoder" \in cfg.fails THEN {Null} ELSE {}
    BY DEF EncoderReady
  <2>1. alive
    <3> SUFFICES ASSUME ~alive PROVE FALSE
      OBVIOUS
    <3>1. todo = <<>> /\ Ops = {}
      BY NothingUnderWay DEF Inv, QuietInv
    <3>2. txThread = "off" /\ tx.src = Null
      BY <3>1 DEF Inv, QuietInv, Quiet
    <3>3. srcThread = "off"
      BY <3>2 DEF Inv, SourceInv
    <3> QED
      BY <3>1, <3>2, <3>3 DEF Encoding, At
  <2>2. tx.enc # tx.ac => tx.enc = Null /\ ("encoder" \in cfg.fails \/ Changing)
    BY <2>1 DEF Inv, EncInv
  <2>3. Changing => srcThread = "encode" \/ txThread = "encode"
    BY OperationFacts DEF Changing, Encoding, At
  <2>4. srcThread = "encode" => cfg.txmode = "poll"
    BY DEF Inv, SourceInv
  <2>5. Changing /\ "encoder" \notin cfg.fails => tx.enc = tx.ac
    BY <2>1, <2>3, <2>4 DEF BareInv
  <2> QED
    BY <2>2, <2>5
<1>2. Init => BareInv
  BY DEF Init, BareInv
<1>3. Inv /\ Exclusive /\ BareInv /\ [Next]_vars => BareInv'
  BY NextBare
<1> QED
  BY <1>1, <1>2, <1>3, ExclusiveKept, Invariance, PTL DEF Spec
-----------------------------------------------------------------------------
(***************************************************************************)
(* The composition, of which the steps are steps or stutters of Audio.  A  *)
(* keepalive that exists is the one of the stream, and stream_reset comes  *)
(* once, before there is one.                                              *)
(***************************************************************************)
KeepInv ==
    /\ OneKeepalive
    /\ keep # Null => flag[keep] # Null /\ scfg.method # Null
    /\ ~up => keep = Null /\ "reset" \notin Ops
    /\ "reset" \in Ops => keep = Null

(***************************************************************************)
(* A thread that is within stream_send stays where it sends, and has the   *)
(* keepalive in hand that the stream still has, or none.                   *)
(***************************************************************************)
SendInv ==
    /\ "source" \in sending => srcThread \in {"encode", "telev"}
    /\ "tx" \in sending => txThread = "encode"
    /\ "main" \in sending => todo # <<>> /\ Head(todo) = Op("encode")
    /\ \A t \in sending : holds[t] # Null => flag[holds[t]] # Null

(***************************************************************************)
(* While no RTP was sent since the last period, each thread that is still  *)
(* within stream_send can set the flag once more, and so can spoil one     *)
(* more period; the flag, if it is set, spoils one.                        *)
(***************************************************************************)
Periods == IF cfg.txmode = "thread" THEN 2 ELSE 1

Count(b) == IF b THEN 1 ELSE 0

Spoiled == Count(keep # Null /\ flag[keep] = TRUE)
           + Count("source" \in sending) + Count("tx" \in sending)

BindInv ==
    Transmits /\ <<>> \notin cfg.offers =>
        /\ peer => ptEnc
        /\ "main" \in sending => sent
        /\ silent <= Periods
        /\ ~sent => silent + Spoiled <= Periods

MediaInv == Inv /\ S!TypeOK /\ up \in BOOLEAN /\ KeepInv /\ SendInv /\ BindInv

LEMMA MediaSteps ==
    ASSUME [MediaNext]_mediaVars
    PROVE  [Next]_vars
<1>1. CASE UNCHANGED mediaVars
  BY <1>1 DEF mediaVars
<1>2. CASE EarlyStart \/ Established
  BY <1>2 DEF EarlyStart, Established, Next
<1>3. CASE \E offer \in cfg.offers, dir \in BOOLEAN : MediaUpdated(offer, dir)
  BY <1>3 DEF MediaUpdated, Next
<1>4. CASE \/ \E hold \in BOOLEAN : Hold(hold)
           \/ Keepalive \/ \E t \in Senders : Sends(t) \/ Refreshes(t)
  BY <1>4 DEF Hold, Keepalive, Sends, Refreshes, StreamOnly
<1>5. CASE \/ \E ac \in Named : PayloadChanged(ac) /\ AudioOnly
           \/ EncoderCycle /\ AudioOnly
           \/ TimeoutTx /\ AudioOnly
           \/ Stop \/ Destroy
  BY <1>5 DEF Stop, Destroy, Next
<1>6. CASE Reset \/ Freed \/ MainLoop
  BY <1>6 DEF Reset, Freed, MainLoop, Main, Next
<1>7. CASE Threads
  BY <1>7 DEF Threads, Next
<1> QED
  BY <1>1, <1>2, <1>3, <1>4, <1>5, <1>6, <1>7 DEF MediaNext
-----------------------------------------------------------------------------
(***************************************************************************)
(* Steps of the audio pipeline alone: no thread that is within stream_send *)
(* is moved, and no reset of the streams is begun.                         *)
(***************************************************************************)
Unmoved ==
    /\ "source" \in sending => srcThread' \in {"encode", "telev"}
    /\ "tx" \in sending => txThread' = "encode"
    /\ "main" \in sending => todo' # <<>> /\ Head(todo') = Op("encode")

LEMMA BegunUnmoved ==
    ASSUME SendInv, todo = <<>>, UNCHANGED <<srcThread, txThread>>
    PROVE  Unmoved
BY DEF SendInv, Unmoved

LEMMA HeadSends ==
    ASSUME SendInv, todo # <<>>, Head(todo).op # "encode"
    PROVE  "main" \notin sending
BY OperationFacts DEF SendInv

LEMMA MainUnmoved ==
    ASSUME MediaInv, MainLoop
    PROVE  Unmoved /\ alive' = alive /\ ("reset" \in Ops' => "reset" \in Ops)
<1>1. Inv /\ SendInv
  BY DEF MediaInv
<1>2. CASE JoinTx \/ StreamsReset \/ (TimerSends /\ "main" \notin sending)
  <2>1. /\ UNCHANGED <<srcThread, txThread, alive, cfg, fmts>>
        /\ todo # <<>> /\ todo' = Tail(todo)
        /\ Head(todo).op # "encode" \/ "main" \notin sending
    BY <1>2 DEF JoinTx, StreamsReset, TimerSends, Does
  <2>2. Ops' \subseteq Ops
    BY <2>1, <1>1, Queue DEF Inv
  <2>3. "main" \notin sending
    BY <2>1, <1>1, HeadSends
  <2> QED
    BY <2>1, <2>2, <2>3, <1>1 DEF Unmoved, SendInv
<1>3. CASE FormatCycle
  <2>1. /\ UNCHANGED <<srcThread, txThread, alive>>
        /\ todo # <<>> /\ Head(todo) = Op("cycle")
    BY <1>3 DEF FormatCycle
  <2>2. "main" \notin sending
    BY <2>1, <1>1, HeadSends, OperationFacts
  <2>3. "reset" \in Ops' => "reset" \in Ops
    BY <1>1, <1>3, FormatCycleKeeps
  <2> QED
    BY <2>1, <2>2, <2>3, <1>1 DEF Unmoved, SendInv
<1>4. CASE EncoderChange
  <2>1. todo # <<>> /\ Head(todo).op # "encode" /\ Ops' = Ops /\ alive' = alive /\ Stays
    BY <1>1, <1>4, EncoderChangeKeeps
  <2>2. "main" \notin sending
    BY <2>1, <1>1, HeadSends
  <2> QED
    BY <2>1, <2>2, <1>1 DEF Unmoved, SendInv, Stays, SourceInHandler
<1>5. CASE EncoderSet \/ DecoderSet \/ AudioStart
  <2>1. /\ todo # <<>> /\ todo' = Tail(todo) /\ UNCHANGED <<cfg, fmts, alive>>
        /\ Head(todo).op # "encode"
    BY <1>5 DEF EncoderSet, DecoderSet, AudioStart, Does
  <2>2. Ops' \subseteq Ops
    BY <2>1, <1>1, Queue DEF Inv
  <2>3. Stays
    BY <1>1, <1>5, EncoderSetKeeps, DecoderSetKeeps, AudioStartKeeps
  <2>4. "main" \notin sending
    BY <2>1, <1>1, HeadSends
  <2> QED
    BY <2>1, <2>2, <2>3, <2>4, <1>1 DEF Unmoved, SendInv, Stays, SourceInHandler
<1>6. CASE DropSource
  <2>1. /\ todo # <<>> /\ todo' = Tail(todo) /\ UNCHANGED <<cfg, fmts, alive>>
        /\ Head(todo).op # "encode" /\ ~SourceInHandler /\ txThread' = txThread
    BY <1>6 DEF DropSource, Does, Becomes
  <2>2. Ops' \subseteq Ops
    BY <2>1, <1>1, Queue DEF Inv
  <2>3. "main" \notin sending
    BY <2>1, <1>1, HeadSends
  <2> QED
    BY <2>1, <2>2, <2>3, <1>1 DEF Unmoved, SendInv, SourceInHandler
<1>7. CASE DropPlayer
  <2>1. /\ todo # <<>> /\ todo' = Tail(todo) /\ UNCHANGED <<cfg, fmts, alive>>
        /\ Head(todo).op # "encode"
    BY <1>7 DEF DropPlayer, Does
  <2>2. Ops' \subseteq Ops
    BY <2>1, <1>1, Queue DEF Inv
  <2>3. srcThread' = srcThread /\ txThread' = txThread
    BY <1>1, <1>7, DropPlayerKeeps
  <2>4. "main" \notin sending
    BY <2>1, <1>1, HeadSends
  <2> QED
    BY <2>1, <2>2, <2>3, <2>4, <1>1 DEF Unmoved, SendInv
<1> QED
  BY <1>2, <1>3, <1>5, <1>6, <1>7, <1>4 DEF MainLoop

AudioStep ==
    \/ EarlyStart
    \/ \E ac \in Named : PayloadChanged(ac) /\ AudioOnly
    \/ EncoderCycle /\ AudioOnly
    \/ TimeoutTx /\ AudioOnly
    \/ Stop \/ Destroy
    \/ MainLoop \/ Threads

LEMMA AudioMoves ==
    ASSUME MediaInv, AudioStep
    PROVE  /\ UNCHANGED <<streamVars, up>> /\ alive' = alive
           /\ Unmoved /\ ("reset" \in Ops' => "reset" \in Ops)
<1>1. Inv /\ SendInv
  BY DEF MediaInv
<1>2. CASE EarlyStart
  <2>1. StreamStart(FALSE) /\ AudioOnly
    BY <1>2 DEF EarlyStart
  <2>2. todo = <<>> /\ UNCHANGED <<srcThread, txThread, alive>>
    BY <2>1 DEF StreamStart, Begin, Idle
  <2>3. "reset" \notin Ops'
    BY <1>1, <2>1, StreamStartKeeps
  <2> QED
    BY <2>1, <2>2, <2>3, <1>1, BegunUnmoved DEF AudioOnly
<1>3. CASE \E ac \in Named : PayloadChanged(ac) /\ AudioOnly
  <2>1. PICK ac \in Named : PayloadChanged(ac) /\ AudioOnly
    BY <1>3
  <2>2. todo = <<>> /\ UNCHANGED <<srcThread, txThread, alive>>
    BY <2>1 DEF PayloadChanged, Begin, Idle
  <2>3. "reset" \notin Ops'
    BY <1>1, <2>1, PayloadChangedKeeps
  <2> QED
    BY <2>1, <2>2, <2>3, <1>1, BegunUnmoved DEF AudioOnly
<1>4. CASE (EncoderCycle \/ TimeoutTx) /\ AudioOnly
  <2>1. todo = <<>> /\ UNCHANGED <<srcThread, txThread, alive>>
    BY <1>4 DEF EncoderCycle, TimeoutTx, Begin, Idle
  <2>2. "reset" \notin Ops'
    BY <1>1, <1>4, EncoderCycleKeeps, TimeoutTxKeeps
  <2> QED
    BY <2>1, <2>2, <1>1, <1>4, BegunUnmoved DEF AudioOnly
<1>5. CASE Stop \/ Destroy
  <2>1. /\ StopTx(<<>>) \/ StopTx(<<Op("free")>>)
        /\ srcThread' = srcThread /\ AudioOnly
    BY <1>5 DEF Stop, Destroy, AudioStop, AudioDestructor
  <2>2. todo = <<>> /\ UNCHANGED <<srcThread, txThread, alive>>
    BY <2>1 DEF StopTx, Begin, Idle
  <2>3. "reset" \notin Ops'
    BY <1>1, <2>1, StopTxKeeps
  <2> QED
    BY <2>1, <2>2, <2>3, <1>1, BegunUnmoved DEF AudioOnly
<1>6. CASE MainLoop
  BY <1>6, MainUnmoved DEF MainLoop, AudioOnly
<1>7. CASE Threads
  <2>1. UNCHANGED <<streamVars, up, todo, alive>>
    BY <1>7 DEF Threads, AudioOnly, SourceCalls, SourceRuns, PlayerCalls, PlayerReturns,
       TxThread, OnlyThreads
  <2>2. "source" \in sending => srcThread' = srcThread
    BY <1>1, <1>7 DEF Threads, SourceCalls, SourceRuns, PlayerCalls, PlayerReturns,
       TxThread, SendInv
  <2>3. "tx" \in sending => txThread' = txThread
    BY <1>7 DEF Threads, SourceCalls, SourceRuns, PlayerCalls, PlayerReturns, TxThread
  <2> QED
    BY <2>1, <2>2, <2>3, <1>1 DEF Unmoved, SendInv, Ops, OpsOf
<1> QED
  BY <1>2, <1>3, <1>4, <1>5, <1>6, <1>7 DEF AudioStep
-----------------------------------------------------------------------------
(***************************************************************************)
(* The invariant of the composition, step by step.                         *)
(***************************************************************************)
LEMMA StreamTypes ==
    ASSUME MediaInv
    PROVE  /\ keep \in Keeps \cup {Null} /\ Null \notin Keeps
           /\ flag \in [Keeps -> BOOLEAN \cup {Null}] /\ Null \notin BOOLEAN
           /\ sending \subseteq Senders /\ holds \in [Senders -> Keeps \cup {Null}]
           /\ silent \in Nat /\ silent \in 0..MaxSilent /\ MaxSilent \in Nat
           /\ peer \in BOOLEAN /\ held \in BOOLEAN /\ takes \in BOOLEAN
           /\ ptEnc \in BOOLEAN /\ sent \in BOOLEAN
           /\ scfg \in SendSettings /\ scfg.method \in S!Methods \cup {Null}
BY MediaAssumption DEF MediaInv, S!TypeOK, S!Setting

\* Steps that leave the stream as it is.
LEMMA SameStream ==
    ASSUME MediaInv, Inv', cfg' = cfg, UNCHANGED streamVars, alive' = alive, up' \in BOOLEAN,
           Unmoved, ~up' => keep = Null /\ "reset" \notin Ops',
           "reset" \in Ops' => keep = Null
    PROVE  MediaInv'
<1>1. UNCHANGED <<scfg, peer, held, takes, ptEnc, keep, flag, sending, holds, sent, silent>>
  BY DEF streamVars
<1>2. S!TypeOK'
  BY <1>1, StreamTypes DEF S!TypeOK
<1>3. KeepInv'
  BY <1>1 DEF MediaInv, KeepInv, OneKeepalive
<1>4. SendInv'
  BY <1>1 DEF MediaInv, SendInv, Unmoved
<1>5. BindInv'
  <2>1. Spoiled' = Spoiled /\ Periods' = Periods /\ Transmits' = Transmits
    BY <1>1 DEF Spoiled, Count, Periods, Transmits
  <2> QED
    BY <1>1, <2>1 DEF MediaInv, BindInv
<1> QED
  BY <1>2, <1>3, <1>4, <1>5 DEF MediaInv

LEMMA AudioStepKeeps ==
    ASSUME MediaInv, Inv', cfg' = cfg, AudioStep
    PROVE  MediaInv'
<1>1. /\ UNCHANGED <<streamVars, up>> /\ alive' = alive
      /\ Unmoved /\ ("reset" \in Ops' => "reset" \in Ops)
  BY AudioMoves
<1> QED
  BY <1>1, SameStream DEF MediaInv, KeepInv

LEMMA EstablishedKeeps ==
    ASSUME MediaInv, Inv', cfg' = cfg, Established
    PROVE  MediaInv'
<1>1. /\ ~up /\ up' = TRUE /\ UNCHANGED streamVars
      /\ todo = <<>> /\ UNCHANGED <<srcThread, txThread, alive>>
  BY DEF Established, StreamStart, Begin, Idle
<1>2. Unmoved
  BY <1>1, BegunUnmoved DEF MediaInv
<1> QED
  BY <1>1, <1>2, SameStream DEF MediaInv, KeepInv

LEMMA MediaUpdatedKeeps ==
    ASSUME MediaInv, Inv', cfg' = cfg, NEW offer \in cfg.offers, NEW dir \in BOOLEAN,
           MediaUpdated(offer, dir)
    PROVE  MediaInv'
<1>1. /\ UpdateMedia(offer) /\ up' = up
      /\ peer' = TRUE /\ ptEnc' = (offer # <<>>) /\ takes' = dir
      /\ UNCHANGED <<scfg, held, keep, flag, sending, holds, sent, silent>>
  BY DEF MediaUpdated, S!StreamUpdate
<1>2. todo = <<>> /\ UNCHANGED <<srcThread, txThread, alive>>
  BY <1>1 DEF UpdateMedia, Begin, Idle
<1>3. "reset" \notin Ops'
  BY <1>1, UpdateMediaKeeps DEF MediaInv
<1>4. S!TypeOK'
  BY <1>1, StreamTypes DEF S!TypeOK
<1>5. KeepInv'
  BY <1>1, <1>2, <1>3 DEF MediaInv, KeepInv, OneKeepalive
<1>6. SendInv'
  BY <1>1, <1>2 DEF MediaInv, SendInv
<1>7. BindInv'
  <2>1. Spoiled' = Spoiled /\ Periods' = Periods /\ Transmits' = Transmits
    BY <1>1 DEF Spoiled, Count, Periods, Transmits
  <2>2. <<>> \notin cfg.offers => ptEnc'
    BY <1>1
  <2> QED
    BY <1>1, <2>1, <2>2 DEF MediaInv, BindInv
<1> QED
  BY <1>1, <1>4, <1>5, <1>6, <1>7 DEF MediaInv

LEMMA HoldKeeps ==
    ASSUME MediaInv, Inv', cfg' = cfg, NEW hold \in BOOLEAN, Hold(hold)
    PROVE  MediaInv'
<1>1. /\ UNCHANGED vars /\ up' = up /\ held' = hold
      /\ UNCHANGED <<scfg, peer, takes, ptEnc, keep, flag, sending, holds, sent, silent>>
  BY DEF Hold, StreamOnly, S!StreamHold
<1>2. UNCHANGED <<todo, srcThread, txThread, alive>> /\ Ops' = Ops
  BY <1>1 DEF vars, Ops, OpsOf
<1>3. S!TypeOK'
  BY <1>1, StreamTypes DEF S!TypeOK
<1>4. KeepInv'
  BY <1>1, <1>2 DEF MediaInv, KeepInv, OneKeepalive
<1>5. SendInv'
  BY <1>1, <1>2 DEF MediaInv, SendInv
<1>6. BindInv'
  <2>1. Spoiled' = Spoiled /\ Periods' = Periods /\ Transmits' = Transmits
    BY <1>1 DEF Spoiled, Count, Periods, Transmits
  <2> QED
    BY <1>1, <2>1 DEF MediaInv, BindInv
<1> QED
  BY <1>1, <1>3, <1>4, <1>5, <1>6 DEF MediaInv

LEMMA KeepaliveKeeps ==
    ASSUME MediaInv, Inv', cfg' = cfg, Keepalive
    PROVE  MediaInv'
<1>1. /\ alive /\ todo = <<>> /\ UNCHANGED vars /\ up' = up
      /\ keep # Null
      /\ flag' = [flag EXCEPT ![keep] = FALSE]
      /\ sent' = FALSE
      /\ silent' = IF sent \/ (~flag[keep] /\ S!Refreshes) THEN 0 ELSE silent + 1
      /\ silent' <= MaxSilent
      /\ UNCHANGED <<scfg, peer, held, takes, ptEnc, keep, sending, holds>>
  BY DEF Keepalive, Idle, StreamOnly, S!Timeout
<1>2. UNCHANGED <<todo, srcThread, txThread, alive>> /\ Ops' = Ops
  BY <1>1 DEF vars, Ops, OpsOf
<1>3. /\ keep \in Keeps /\ flag \in [Keeps -> BOOLEAN \cup {Null}] /\ FALSE # Null
      /\ silent \in Nat /\ MaxSilent \in Nat
  BY <1>1, StreamTypes
<1>4. \A k \in Keeps : flag'[k] = IF k = keep THEN FALSE ELSE flag[k]
  BY <1>1, <1>3
<1>5. S!TypeOK'
  <2>1. silent' \in 0..MaxSilent
    BY <1>1, <1>3
  <2>2. flag' \in [Keeps -> BOOLEAN \cup {Null}]
    BY <1>1, <1>3
  <2> QED
    BY <2>1, <2>2, <1>1, StreamTypes DEF S!TypeOK
<1>6. KeepInv'
  BY <1>1, <1>2, <1>3, <1>4 DEF MediaInv, KeepInv, OneKeepalive
<1>7. SendInv'
  <2>1. ASSUME NEW t \in sending
        PROVE  holds[t] # Null => flag'[holds[t]] # Null
    <3>1. holds[t] \in Keeps \cup {Null}
      BY StreamTypes
    <3> QED
      BY <3>1, <1>3, <1>4 DEF MediaInv, SendInv
  <2> QED
    BY <2>1, <1>1, <1>2 DEF MediaInv, SendInv
<1>8. BindInv'
  <2> SUFFICES ASSUME Transmits, <<>> \notin cfg.offers
               PROVE  BindInv'
    BY <1>1 DEF BindInv, Transmits
  <2>1. S!Refreshes
    BY <1>1, StreamTypes DEF MediaInv, KeepInv, Transmits, S!Refreshes, S!Methods
  <2>2. "main" \notin sending
    BY <1>1 DEF MediaInv, SendInv
  <2>3. Spoiled' = Count("source" \in sending) + Count("tx" \in sending)
    BY <1>1, <1>3, <1>4 DEF Spoiled, Count
  <2>4. PICK n \in Nat : n = Count("source" \in sending) + Count("tx" \in sending)
    BY DEF Count
  <2>5. PICK p \in Nat : p = Periods /\ p = Periods'
    BY DEF Periods
  <2>6. n <= p
    <3>1. "tx" \in sending => cfg.txmode = "thread"
      BY DEF MediaInv, SendInv, Inv, SourceInv
    <3> QED
      BY <2>4, <2>5, <3>1 DEF Count, Periods
  <2>7. silent' \in Nat /\ silent' <= p /\ silent' + n <= p
    <3>1. CASE sent \/ ~flag[keep]
      <4>1. silent' = 0
        BY <1>1, <2>1, <3>1
      <4> QED
        BY <4>1, <2>6
    <3>2. CASE ~sent /\ flag[keep]
      <4>1. silent' = silent + 1
        BY <1>1, <3>2
      <4>2. flag[keep] = TRUE
        BY <1>3, <3>2 DEF MediaInv, KeepInv
      <4>3. Spoiled = 1 + n
        BY <1>1, <2>4, <4>2 DEF Spoiled, Count
      <4>4. silent + (1 + n) <= p
        BY <3>2, <4>3, <2>5 DEF MediaInv, BindInv
      <4> QED
        BY <4>1, <4>4, <1>3
    <3> QED
      BY <3>1, <3>2
  <2>8. silent' <= Periods' /\ silent' + Spoiled' <= Periods'
    <3>1. n = Spoiled'
      BY <2>3, <2>4
    <3> QED
      BY <2>5, <2>7, <3>1, Zenon
  <2>9. (peer => ptEnc)' /\ ("main" \in sending => sent)'
    BY <1>1, <2>2 DEF MediaInv, BindInv
  <2> QED
    BY <2>8, <2>9 DEF BindInv
<1> QED
  BY <1>1, <1>5, <1>6, <1>7, <1>8 DEF MediaInv

LEMMA ResetKeeps ==
    ASSUME MediaInv, Inv', cfg' = cfg, Reset
    PROVE  MediaInv'
<1>1. /\ todo # <<>> /\ Head(todo).op = "reset" /\ todo' = Tail(todo) /\ up' = up
      /\ UNCHANGED <<cfg, fmts, alive, srcThread, txThread>>
      /\ UNCHANGED <<scfg, peer, held, takes, ptEnc, sending, holds, sent, silent>>
  BY DEF Reset, StreamsReset, Does, S!StreamReset
<1>2. "reset" \in Ops /\ "reset" \notin Ops' /\ alive
  BY <1>1, Queue DEF MediaInv, Inv, QuietInv
<1>3. keep = Null /\ up /\ \A k \in Keeps : flag[k] = Null
  BY <1>2, StreamTypes DEF MediaInv, KeepInv, OneKeepalive
<1>4. /\ flag' \in [Keeps -> BOOLEAN \cup {Null}]
      /\ \/ keep' = Null /\ \A k \in Keeps : flag'[k] = Null
         \/ /\ keep' \in Keeps /\ scfg.method # Null
            /\ \A k \in Keeps : flag'[k] = IF k = keep' THEN FALSE ELSE Null
  <2> DEFINE freed == [k \in Keeps |-> IF k = keep THEN Null ELSE flag[k]]
  <2>1. freed = [k \in Keeps |-> Null]
    BY <1>3
  <2>2. \/ /\ scfg.method # Null
           /\ \E k \in Keeps : flag' = [freed EXCEPT ![k] = FALSE] /\ keep' = k
        \/ flag' = freed /\ keep' = Null
    BY DEF Reset, S!StreamReset
  <2> HIDE DEF freed
  <2>3. CASE flag' = freed /\ keep' = Null
    BY <2>1, <2>3
  <2>4. CASE \E k \in Keeps : flag' = [freed EXCEPT ![k] = FALSE] /\ keep' = k
    <3>1. keep' \in Keeps /\ flag' = [freed EXCEPT ![keep'] = FALSE]
      BY <2>4
    <3>2. scfg.method # Null
      BY <2>2, <3>1, StreamTypes
    <3> QED
      BY <2>1, <3>1, <3>2
  <2> QED
    BY <2>2, <2>3, <2>4
<1>5. "main" \notin sending
  BY <1>1, HeadSends DEF MediaInv
<1>6. S!TypeOK'
  BY <1>1, <1>4, StreamTypes DEF S!TypeOK
<1>7. KeepInv'
  <2>1. keep' # Null => flag'[keep'] # Null /\ scfg.method # Null
    BY <1>4, StreamTypes
  <2>2. \A k \in Keeps : flag'[k] # Null => k = keep'
    BY <1>4
  <2> QED
    BY <2>1, <2>2, <1>1, <1>2, <1>3 DEF KeepInv, OneKeepalive
<1>8. SendInv'
  <2>1. \A t \in sending : holds[t] = Null
    BY <1>3, StreamTypes DEF MediaInv, SendInv
  <2> QED
    BY <2>1, <1>1, <1>5 DEF MediaInv, SendInv
<1>9. BindInv'
  <2>1. Spoiled' = Spoiled
    <3>1. ~(keep' # Null /\ flag'[keep'] = TRUE)
      BY <1>4
    <3> QED
      BY <3>1, <1>1, <1>3 DEF Spoiled, Count
  <2>2. Periods' = Periods /\ Transmits' = Transmits
    BY <1>1 DEF Periods, Transmits
  <2> QED
    BY <2>1, <2>2, <1>1 DEF MediaInv, BindInv
<1> QED
  BY <1>1, <1>6, <1>7, <1>8, <1>9 DEF MediaInv

LEMMA FreedKeeps ==
    ASSUME MediaInv, Inv', cfg' = cfg, Freed
    PROVE  MediaInv'
<1>1. /\ todo # <<>> /\ Head(todo).op = "free" /\ todo' = Tail(todo) /\ up' = up
      /\ UNCHANGED <<cfg, fmts>> /\ Free
      /\ flag' = [k \in Keeps |-> IF k = keep THEN Null ELSE flag[k]]
      /\ keep' = Null
      /\ UNCHANGED <<scfg, peer, held, takes, ptEnc, sending, holds, sent, silent>>
  BY DEF Freed, Free, S!StreamDestroyed
<1>2. "reset" \notin Ops'
  <2>1. todo' = <<>>
    BY <1>1, Queue DEF MediaInv, Inv
  <2> QED
    BY <2>1, NothingToDo DEF Ops
<1>3. sending = {}
  <2>1. srcThread = "off" /\ txThread = "off"
    BY <1>1, FreeKeeps DEF MediaInv
  <2>2. "main" \notin sending
    BY <1>1, HeadSends DEF MediaInv
  <2> QED
    BY <2>1, <2>2, StreamTypes DEF MediaInv, SendInv, Senders
<1>4. flag' = [k \in Keeps |-> Null]
  BY <1>1, StreamTypes DEF MediaInv, KeepInv, OneKeepalive
<1>5. S!TypeOK'
  BY <1>1, <1>4, StreamTypes DEF S!TypeOK
<1>6. KeepInv'
  BY <1>1, <1>2, <1>4 DEF KeepInv, OneKeepalive
<1>7. SendInv'
  BY <1>1, <1>3 DEF SendInv
<1>8. BindInv'
  <2> SUFFICES ASSUME Transmits, <<>> \notin cfg.offers
               PROVE  BindInv'
    BY <1>1 DEF BindInv, Transmits
  <2>1. Spoiled' = 0
    BY <1>1, <1>3 DEF Spoiled, Count
  <2>2. silent <= Periods /\ silent \in Nat
    BY StreamTypes DEF MediaInv, BindInv
  <2>3. PICK p \in Nat : p = Periods /\ p = Periods'
    BY <1>1 DEF Periods
  <2>4. silent <= p /\ silent + 0 <= p
    BY <2>2, <2>3
  <2>5. silent' <= Periods' /\ silent' + Spoiled' <= Periods'
    BY <1>1, <2>1, <2>3, <2>4, Zenon
  <2> QED
    BY <2>5, <1>1, <1>3 DEF MediaInv, BindInv
<1> QED
  BY <1>1, <1>5, <1>6, <1>7, <1>8 DEF MediaInv

LEMMA SendsKeep ==
    ASSUME MediaInv, Inv', cfg' = cfg, NEW t \in Senders, Sends(t)
    PROVE  MediaInv'
<1>1. /\ UNCHANGED vars /\ up' = up /\ MaySend(t) /\ peer
      /\ sending' = sending \cup {t}
      /\ holds' = [holds EXCEPT ![t] = keep]
      /\ \/ ptEnc /\ sent' = TRUE
         \/ (~ptEnc \/ "send" \in scfg.fails) /\ sent' = sent
      /\ UNCHANGED <<scfg, peer, held, takes, ptEnc, keep, flag, silent>>
  BY DEF Sends, StreamOnly, S!StreamSend
<1>2. UNCHANGED <<todo, srcThread, txThread, alive>> /\ Ops' = Ops
  BY <1>1 DEF vars, Ops, OpsOf
<1>3. S!TypeOK'
  <2>1. sent' \in BOOLEAN
    BY <1>1, StreamTypes
  <2>2. holds' \in [Senders -> Keeps \cup {Null}]
    BY <1>1, StreamTypes
  <2> QED
    BY <2>1, <2>2, <1>1, StreamTypes DEF S!TypeOK
<1>4. KeepInv'
  BY <1>1, <1>2 DEF MediaInv, KeepInv, OneKeepalive
<1>5. SendInv'
  <2>1. ASSUME NEW u \in sending', holds'[u] # Null
        PROVE  flag[holds'[u]] # Null
    <3>1. CASE u = t
      BY <1>1, <2>1, <3>1, StreamTypes DEF MediaInv, KeepInv
    <3>2. CASE u # t
      BY <1>1, <2>1, <3>2, StreamTypes DEF MediaInv, SendInv
    <3> QED
      BY <3>1, <3>2
  <2>2. /\ "source" \in sending' => srcThread \in {"encode", "telev"}
        /\ "tx" \in sending' => txThread = "encode"
        /\ "main" \in sending' => todo # <<>> /\ Head(todo) = Op("encode")
    BY <1>1 DEF MaySend, MediaInv, SendInv
  <2> QED
    BY <2>1, <2>2, <1>1, <1>2 DEF SendInv
<1>6. BindInv'
  <2> SUFFICES ASSUME Transmits, <<>> \notin cfg.offers
               PROVE  BindInv'
    BY <1>1 DEF BindInv, Transmits
  <2>1. peer => ptEnc
    BY DEF MediaInv, BindInv
  <2>2. sent' = TRUE
    BY <2>1, <1>1 DEF Transmits
  <2>3. silent <= Periods /\ Periods' = Periods
    BY DEF MediaInv, BindInv, Periods
  <2>4. silent' <= Periods'
    BY <1>1, <2>3
  <2> QED
    BY <2>1, <2>2, <2>4, <1>1 DEF BindInv
<1> QED
  BY <1>1, <1>3, <1>4, <1>5, <1>6 DEF MediaInv

LEMMA RefreshesKeep ==
    ASSUME MediaInv, Inv', cfg' = cfg, NEW t \in Senders, Refreshes(t)
    PROVE  MediaInv'
<1>1. /\ UNCHANGED vars /\ up' = up /\ t \in sending
      /\ flag' = [k \in Keeps |->
                    IF k = holds[t] /\ flag[k] # Null THEN TRUE ELSE flag[k]]
      /\ sending' = sending \ {t}
      /\ holds' = [holds EXCEPT ![t] = Null]
      /\ UNCHANGED <<scfg, peer, held, takes, ptEnc, keep, sent, silent>>
  BY DEF Refreshes, StreamOnly, S!Refresh
<1>2. UNCHANGED <<todo, srcThread, txThread, alive>> /\ Ops' = Ops
  BY <1>1 DEF vars, Ops, OpsOf
<1>3. /\ flag' \in [Keeps -> BOOLEAN \cup {Null}]
      /\ \A k \in Keeps : flag'[k] # Null <=> flag[k] # Null
  BY <1>1, StreamTypes
<1>4. S!TypeOK'
  <2>1. holds' \in [Senders -> Keeps \cup {Null}]
    BY <1>1, StreamTypes
  <2> QED
    BY <2>1, <1>1, <1>3, StreamTypes DEF S!TypeOK
<1>5. KeepInv'
  BY <1>1, <1>2, <1>3, StreamTypes DEF MediaInv, KeepInv, OneKeepalive
<1>6. SendInv'
  <2>1. ASSUME NEW u \in sending', holds'[u] # Null
        PROVE  flag'[holds'[u]] # Null
    <3>1. u \in sending /\ holds'[u] = holds[u] /\ holds[u] \in Keeps
      BY <1>1, <2>1, StreamTypes
    <3> QED
      BY <3>1, <2>1, <1>3 DEF MediaInv, SendInv
  <2> QED
    BY <2>1, <1>1, <1>2 DEF MediaInv, SendInv
<1>7. BindInv'
  <2> SUFFICES ASSUME Transmits, <<>> \notin cfg.offers
               PROVE  BindInv'
    BY <1>1 DEF BindInv, Transmits
  <2>1. /\ peer => ptEnc
        /\ "main" \in sending => sent
        /\ silent <= Periods
        /\ ~sent => silent + Spoiled <= Periods
    BY DEF MediaInv, BindInv
  <2>2. PICK p \in Nat : p = Periods /\ p = Periods'
    BY <1>1 DEF Periods
  <2>3. PICK n \in Nat : n = Spoiled
    BY DEF Spoiled, Count
  <2>4. PICK m \in Nat : m = Spoiled'
    BY DEF Spoiled, Count
  <2>5. ~sent => m <= n
    <3> SUFFICES ASSUME ~sent PROVE m <= n
      OBVIOUS
    <3>1. t \in {"source", "tx"}
      BY <1>1, <2>1 DEF Senders
    <3>2. Count("source" \in sending) + Count("tx" \in sending)
            = 1 + Count("source" \in sending') + Count("tx" \in sending')
      BY <1>1, <3>1 DEF Count
    <3>3. PICK a \in {0, 1} : a = Count(keep # Null /\ flag[keep] = TRUE)
      BY DEF Count
    <3>4. PICK b \in {0, 1} : b = Count(keep' # Null /\ flag'[keep'] = TRUE)
      BY DEF Count
    <3>5. PICK c \in Nat : c = Count("source" \in sending') + Count("tx" \in sending')
      BY DEF Count
    <3>6. n = a + (1 + c)
      BY <2>3, <3>2, <3>3, <3>5 DEF Spoiled, Count
    <3>7. m = b + c
      BY <2>4, <3>4, <3>5 DEF Spoiled, Count
    <3> QED
      BY <3>6, <3>7
  <2>6. silent <= p /\ (~sent => silent + m <= p)
    <3>1. silent <= p /\ (~sent => silent + n <= p)
      BY <2>1, <2>2, <2>3
    <3> QED
      BY <3>1, <2>5, StreamTypes
  <2>7. silent' <= Periods' /\ (~sent' => silent' + Spoiled' <= Periods')
    BY <1>1, <2>2, <2>4, <2>6, Zenon
  <2> QED
    BY <2>1, <2>7, <1>1 DEF BindInv
<1> QED
  BY <1>1, <1>4, <1>5, <1>6, <1>7 DEF MediaInv

LEMMA MediaStutterKeeps ==
    ASSUME MediaInv, Inv', cfg' = cfg, UNCHANGED mediaVars
    PROVE  MediaInv'
<1>1. UNCHANGED <<vars, streamVars, up>>
  BY DEF mediaVars
<1>2. UNCHANGED <<todo, srcThread, txThread, alive>> /\ Ops' = Ops
  BY <1>1 DEF vars, Ops, OpsOf
<1>3. Unmoved
  BY <1>2 DEF MediaInv, SendInv, Unmoved
<1> QED
  BY <1>1, <1>2, <1>3, SameStream DEF MediaInv, KeepInv

LEMMA MediaInitInv ==
    ASSUME MediaInit
    PROVE  MediaInv
<1>1. Init /\ S!Init /\ up = FALSE
  BY DEF MediaInit
<1>2. Inv
  BY <1>1, InitInv
<1>3. Ops = {} /\ Null \notin Keeps
  BY <1>1, NothingToDo, MediaAssumption DEF Init, Ops
<1>4. S!TypeOK
  <2>1. /\ scfg \in SendSettings /\ keep = Null /\ sending = {}
        /\ {peer, held, takes, ptEnc, sent} \subseteq BOOLEAN
    BY <1>1 DEF S!Init
  <2>2. /\ holds \in [Senders -> Keeps \cup {Null}]
        /\ flag \in [Keeps -> BOOLEAN \cup {Null}]
    BY <1>1 DEF S!Init
  <2>3. silent \in 0..MaxSilent
    BY <1>1, MediaAssumption DEF S!Init
  <2> QED
    BY <2>1, <2>2, <2>3 DEF S!TypeOK
<1>5. KeepInv
  BY <1>1, <1>3 DEF S!Init, KeepInv, OneKeepalive
<1>6. SendInv
  BY <1>1 DEF S!Init, SendInv
<1>7. BindInv
  <2>1. keep = Null /\ sending = {} /\ silent = 0 /\ peer = FALSE
    BY <1>1 DEF S!Init
  <2>2. Spoiled = 0
    BY <2>1 DEF Spoiled, Count
  <2>3. PICK p \in Nat : p = Periods
    BY DEF Periods
  <2>4. 0 <= p /\ 0 + 0 <= p
    BY <2>3
  <2>5. silent <= Periods /\ silent + Spoiled <= Periods
    BY <2>1, <2>2, <2>3, <2>4, Zenon
  <2> QED
    BY <2>1, <2>5 DEF BindInv
<1> QED
  BY <1>1, <1>2, <1>4, <1>5, <1>6, <1>7 DEF MediaInv

LEMMA MediaNextKeeps ==
    ASSUME MediaInv, [MediaNext]_mediaVars
    PROVE  MediaInv'
<1>1. Inv' /\ cfg' = cfg
  BY MediaSteps, NextKeeps, ConfigKept DEF MediaInv
<1>2. CASE UNCHANGED mediaVars
  BY <1>1, <1>2, MediaStutterKeeps
<1>3. CASE AudioStep
  BY <1>1, <1>3, AudioStepKeeps
<1>4. CASE Established \/ Keepalive \/ Reset \/ Freed
  BY <1>1, <1>4, EstablishedKeeps, KeepaliveKeeps, ResetKeeps, FreedKeeps
<1>5. CASE \E offer \in cfg.offers, dir \in BOOLEAN : MediaUpdated(offer, dir)
  BY <1>1, <1>5, MediaUpdatedKeeps
<1>6. CASE \E hold \in BOOLEAN : Hold(hold)
  BY <1>1, <1>6, HoldKeeps
<1>7. CASE \E t \in Senders : Sends(t) \/ Refreshes(t)
  BY <1>1, <1>7, SendsKeep, RefreshesKeep
<1> QED
  BY <1>2, <1>3, <1>4, <1>5, <1>6, <1>7 DEF MediaNext, AudioStep

LEMMA MediaInvariance == MediaSpec => []MediaInv
BY MediaInitInv, MediaNextKeeps, PTL DEF MediaSpec

(***************************************************************************)
(* The values of the stream and of the audio pipeline (stream.c, audio.c)  *)
(* keep their types.                                                       *)
(***************************************************************************)
THEOREM MediaTypes == MediaSpec => []MediaTypeOK
<1>1. MediaInv => MediaTypeOK
  BY DEF MediaInv, Inv, MediaTypeOK
<1> QED
  BY <1>1, MediaInvariance, PTL

(***************************************************************************)
(* stream_start_keepalive replaces no keepalive that is still allocated    *)
(* elsewhere, and call_destructor leaves none (stream.c, rtpkeep.c), for   *)
(* any number of keepalives that memory has room for.                      *)
(***************************************************************************)
THEOREM MediaKeeps == MediaSpec => []OneKeepalive
<1>1. MediaInv => OneKeepalive
  BY DEF MediaInv, KeepInv
<1> QED
  BY <1>1, MediaInvariance, PTL

(***************************************************************************)
(* Whichever thread is within stream_send, neither the stream nor the      *)
(* keepalive that it holds is freed under it.                              *)
(***************************************************************************)
THEOREM MediaSends == MediaSpec => []SendersLive
<1>1. ASSUME MediaInv PROVE SendersLive
  <2>1. sending # {} => alive
    <3> SUFFICES ASSUME ~alive PROVE sending = {}
      OBVIOUS
    <3>1. todo = <<>> /\ srcThread = "off" /\ txThread = "off"
      BY <1>1, InUse DEF MediaInv, Inv, QuietInv
    <3> QED
      BY <3>1, <1>1, StreamTypes DEF MediaInv, SendInv, Senders
  <2> QED
    BY <2>1, <1>1 DEF SendersLive, MediaInv, SendInv
<1> QED
  BY <1>1, MediaInvariance, PTL

(***************************************************************************)
(* The NAT binding is refreshed in one of any two periods of the timer, or *)
(* in one of any three with the transmit thread, for any bound MaxSilent.  *)
(***************************************************************************)
THEOREM MediaBinding == MediaSpec => []BindingKept
<1>1. MediaInv => BindingKept
  BY DEF MediaInv, BindInv, BindingKept, Periods
<1> QED
  BY <1>1, MediaInvariance, PTL
=============================================================================
