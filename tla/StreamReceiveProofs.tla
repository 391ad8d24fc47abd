-------------------------- MODULE StreamReceiveProofs --------------------------
(***************************************************************************)
(* Proofs about StreamReceive.tla, for any width of sequence numbers, any  *)
(* thresholds, sources and settings.  That sequence numbers say where a    *)
(* packet belongs takes a network that is orderly enough for them.         *)
(***************************************************************************)
EXTENDS Integers, StreamReceive, FiniteSetTheorems, WellFoundedInduction, TLAPS

(* Counters that wrap. *)

\* A quotient and a remainder that fit are the ones.
LEMMA ModUnique ==
    ASSUME NEW m \in Nat \ {0}, NEW q \in Int, NEW r \in 0..(m - 1)
    PROVE  (m * q + r) % m = r
  OBVIOUS

\* What \div and % of a natural number are.
LEMMA DivMod ==
    ASSUME NEW d \in Nat \ {0}, NEW a \in Nat
    PROVE  \E q \in Nat, r \in 0..(d - 1) : a = d * q + r /\ a % d = r
<1> WITNESS a \div d \in Nat, a % d \in 0..(d - 1)
<1> QED
  OBVIOUS
-----------------------------------------------------------------------------
(***************************************************************************)
(* No packet comes later than lostcalc takes for merely late, and no gap   *)
(* is so long that the packet after it looks late.                         *)
(***************************************************************************)
Orderly ==
    /\ MaxLate <= Misorder
    /\ \A c \in Settings : c.maxGap + Misorder < Modulus

\* The jitter buffer is empty where there is none.
Buffered ==
    /\ IsFiniteSet(jbuf)
    /\ OneSource
    /\ cfg.minJbuf = 0 => jbuf = {}

\* What lostcalc knows of a single source without a jitter buffer.
PlainInv ==
    Plain =>
        \/ newest = 0 /\ pseq = NoSeq /\ ssrc = Null
        \/ newest # 0 /\ pseq = SeqNo(newest) /\ ssrc \in cfg.sources

IInv == TypeOK /\ Buffered /\ (Orderly => PlainInv /\ LossExact)

-----------------------------------------------------------------------------
(* Sequence numbers that wrap.                                             *)

LEMMA ModType == Modulus \in Nat \ {0}
  BY ReceiveAssumption

LEMMA SeqNoType ==
    ASSUME NEW n \in Nat
    PROVE  SeqNo(n) \in 0..(Modulus - 1) /\ SeqNo(n) # NoSeq
<1>1. n % Modulus \in 0..(Modulus - 1)
  BY ModType
<1> QED
  BY <1>1, ReceiveAssumption DEF SeqNo

\* The number of a packet d places ahead.
LEMMA SeqNoAhead ==
    ASSUME NEW n \in Nat, NEW d \in 0..(Modulus - 1)
    PROVE  \/ SeqNo(n + d) = SeqNo(n) + d
           \/ SeqNo(n + d) = SeqNo(n) + d - Modulus
<1>1. PICK q \in Nat, r \in 0..(Modulus - 1) : n = Modulus * q + r /\ n % Modulus = r
  BY ModType, DivMod
<1>2. CASE r + d < Modulus
  <2>1. r + d \in 0..(Modulus - 1) /\ q \in Int
    BY <1>2, ModType
  <2>2. (Modulus * q + (r + d)) % Modulus = r + d
    BY <2>1, ModType, ModUnique
  <2>3. n + d = Modulus * q + (r + d)
    BY <1>1, ModType
  <2> QED
    BY <2>2, <2>3, <1>1 DEF SeqNo
<1>3. CASE r + d >= Modulus
  <2>1. r + d - Modulus \in 0..(Modulus - 1) /\ q + 1 \in Int
    BY <1>3, ModType
  <2>2. (Modulus * (q + 1) + (r + d - Modulus)) % Modulus = r + d - Modulus
    BY <2>1, ModType, ModUnique
  <2>3. Modulus * (q + 1) = Modulus * q + Modulus
    BY ModType
  <2>4. n + d = Modulus * (q + 1) + (r + d - Modulus)
    BY <2>3, <1>1, ModType
  <2> QED
    BY <2>2, <2>4, <1>1 DEF SeqNo
<1> QED
  BY <1>2, <1>3, ModType

\* The delta of lostcalc is the distance, or Modulus less the delay.
LEMMA DeltaAhead ==
    ASSUME NEW n \in Nat, NEW d \in 0..(Modulus - 1)
    PROVE  (SeqNo(n + d) + Modulus - SeqNo(n)) % Modulus = d
<1>1. SeqNo(n) \in 0..(Modulus - 1)
  BY SeqNoType
<1>2. (Modulus * 1 + d) % Modulus = d /\ (Modulus * 0 + d) % Modulus = d
  BY ModType, ModUnique
<1>3. Modulus * 1 + d = Modulus + d /\ Modulus * 0 + d = d
  BY ModType
<1>4. CASE SeqNo(n + d) = SeqNo(n) + d
  <2>1. SeqNo(n + d) + Modulus - SeqNo(n) = Modulus + d
    BY <1>1, <1>4, ModType
  <2> QED
    BY <2>1, <1>2, <1>3
<1>5. CASE SeqNo(n + d) = SeqNo(n) + d - Modulus
  <2>1. SeqNo(n + d) + Modulus - SeqNo(n) = d
    BY <1>1, <1>5, ModType
  <2> QED
    BY <2>1, <1>2, <1>3
<1> QED
  BY <1>4, <1>5, SeqNoAhead

LEMMA DeltaBehind ==
    ASSUME NEW n \in Nat, NEW d \in 1..(Modulus - 1)
    PROVE  (SeqNo(n) + Modulus - SeqNo(n + d)) % Modulus = Modulus - d
<1> DEFINE e == Modulus - d
<1>1. SeqNo(n) \in 0..(Modulus - 1) /\ e \in 0..(Modulus - 1)
  BY SeqNoType, ModType
<1>2. (Modulus * 1 + e) % Modulus = e /\ (Modulus * 0 + e) % Modulus = e
  BY <1>1, ModType, ModUnique
<1>3. Modulus * 1 + e = Modulus + e /\ Modulus * 0 + e = e
  BY ModType
<1>4. CASE SeqNo(n + d) = SeqNo(n) + d
  <2>1. SeqNo(n) + Modulus - SeqNo(n + d) = e
    BY <1>1, <1>4, ModType
  <2> QED
    BY <2>1, <1>2, <1>3
<1>5. CASE SeqNo(n + d) = SeqNo(n) + d - Modulus
  <2>1. SeqNo(n) + Modulus - SeqNo(n + d) = Modulus + e
    BY <1>1, <1>5, ModType
  <2> QED
    BY <2>1, <1>2, <1>3
<1>6. d \in 0..(Modulus - 1)
  OBVIOUS
<1> QED
  BY <1>4, <1>5, <1>6, SeqNoAhead

(***************************************************************************)
(* What lostcalc makes of a packet at place k when the newest is at n.     *)
(***************************************************************************)
LEMMA LostCalcAhead ==
    ASSUME NEW n \in Nat, NEW k \in Nat, k > n, k - n + Misorder < Modulus,
           pseq = SeqNo(n)
    PROVE  /\ LostCalc(SeqNo(k)).lost = (k - n \in 2..(Dropout - 1))
           /\ LostCalc(SeqNo(k)).pseq = SeqNo(k)
<1>1. k - n \in 1..(Modulus - 1) /\ n + (k - n) = k /\ Misorder \in Nat
  BY ModType, ReceiveAssumption
<1>2. (SeqNo(k) + Modulus - pseq) % Modulus = k - n
  BY <1>1, DeltaAhead
<1>3. ~(k - n = 0 \/ k - n >= Modulus - Misorder)
  BY <1>1, ModType
<1>4. pseq # NoSeq
  BY SeqNoType
<1> QED
  BY <1>2, <1>3, <1>4 DEF LostCalc

LEMMA LostCalcBehind ==
    ASSUME NEW n \in Nat, NEW k \in Nat, k <= n, n - k <= Misorder,
           pseq = SeqNo(n)
    PROVE  LostCalc(SeqNo(k)) = [lost |-> FALSE, pseq |-> pseq]
<1>1. Misorder \in Nat /\ Misorder < Modulus /\ pseq # NoSeq
  BY ReceiveAssumption, SeqNoType
<1>2. CASE k = n
  <2>1. (SeqNo(n) + Modulus - SeqNo(n)) % Modulus = 0
    <3>1. 0 \in 0..(Modulus - 1) /\ n + 0 = n
      BY ModType
    <3> QED
      BY <3>1, DeltaAhead
  <2> QED
    BY <2>1, <1>1, <1>2 DEF LostCalc
<1>3. CASE k < n
  <2>1. n - k \in 1..(Modulus - 1) /\ k + (n - k) = n
    BY <1>1, <1>3, ModType
  <2>2. (SeqNo(k) + Modulus - pseq) % Modulus = Modulus - (n - k)
    BY <2>1, DeltaBehind
  <2>3. Modulus - (n - k) >= Modulus - Misorder
    BY <2>1, <1>1, ModType
  <2> QED
    BY <2>2, <2>3, <1>1 DEF LostCalc
<1> QED
  BY <1>2, <1>3

-----------------------------------------------------------------------------
(* The inductive invariant.                                                *)

LEMMA SettingType ==
    ASSUME cfg \in Settings
    PROVE  /\ cfg.sources \subseteq Sources /\ cfg.minJbuf \in Nat
           /\ cfg.maxGap \in Nat \ {0} /\ cfg.maxPlace \in Nat \ {0}
<1>1. cfg \in Setting
  BY ReceiveAssumption
<1> QED
  BY <1>1 DEF Setting

LEMMA InitInv == Init => IInv
<1> SUFFICES ASSUME Init PROVE IInv
  OBVIOUS
<1>1. cfg.maxPlace \in Nat \ {0} /\ cfg \in Settings
  BY SettingType DEF Init
<1>2. TypeOK
  <2>1. 0 \in 0..cfg.maxPlace
    BY <1>1
  <2>2. lossy \in [place : 0..cfg.maxPlace, gap : Nat, loss : BOOLEAN]
    BY <2>1 DEF Init
  <2> QED
    BY <1>1, <2>1, <2>2 DEF Init, TypeOK
<1>3. Buffered
  BY FS_EmptySet DEF Init, Buffered, OneSource
<1>4. PlainInv
  BY DEF Init, PlainInv
<1>5. LossExact
  <2>1. 1 \notin 2..(Dropout - 1)
    BY ReceiveAssumption
  <2> QED
    BY <2>1 DEF Init, LossExact
<1> QED
  BY <1>2, <1>3, <1>4, <1>5 DEF IInv

\* What lostcalc answers, and what rtp_recv makes of it.
LEMMA LostCalcType ==
    ASSUME pseq \in 0..(Modulus - 1) \cup {NoSeq}, NEW seq \in 0..(Modulus - 1)
    PROVE  /\ LostCalc(seq).lost \in BOOLEAN
           /\ LostCalc(seq).pseq \in 0..(Modulus - 1) \cup {NoSeq}
<1> DEFINE delta == (seq + Modulus - pseq) % Modulus
           late  == delta = 0 \/ delta >= Modulus - Misorder
<1>1. LostCalc(seq) = IF pseq = NoSeq THEN [lost |-> FALSE, pseq |-> seq]
                      ELSE IF late THEN [lost |-> FALSE, pseq |-> pseq]
                      ELSE [lost |-> delta \in 2..(Dropout - 1), pseq |-> seq]
  BY DEF LostCalc
<1> HIDE DEF delta, late
<1>2. CASE pseq = NoSeq
  BY <1>1, <1>2
<1>3. CASE pseq # NoSeq /\ late
  BY <1>1, <1>3
<1>4. CASE pseq # NoSeq /\ ~late
  BY <1>1, <1>4
<1> QED
  BY <1>2, <1>3, <1>4

LEMMA PassType ==
    ASSUME TypeOK, NEW place \in 0..cfg.maxPlace, NEW seq \in 0..(Modulus - 1),
           NEW base \in 0..cfg.maxPlace, Pass(place, seq, base)
    PROVE  /\ pseq' \in 0..(Modulus - 1) \cup {NoSeq}
           /\ lossy' \in [place : 0..cfg.maxPlace, gap : Nat, loss : BOOLEAN]
<1>1. cfg.maxPlace \in Nat
  BY SettingType DEF TypeOK
<1>2. (IF base = 0 \/ place < base THEN 1 ELSE place - base) \in Nat
  BY <1>1
<1>3. /\ LostCalc(seq).lost \in BOOLEAN
      /\ LostCalc(seq).pseq \in 0..(Modulus - 1) \cup {NoSeq}
  BY LostCalcType DEF TypeOK
<1>4. /\ pseq' = LostCalc(seq).pseq
      /\ lossy' = [place |-> place,
                   gap   |-> IF base = 0 \/ place < base THEN 1 ELSE place - base,
                   loss  |-> LostCalc(seq).lost]
  BY DEF Pass
<1> QED
  BY <1>2, <1>3, <1>4

-----------------------------------------------------------------------------
LEMMA RtpRecvType ==
    ASSUME IInv, NEW p \in Packets, RtpRecv(p)
    PROVE  TypeOK' /\ Buffered'
<1>1. TypeOK /\ Buffered /\ cfg.maxPlace \in Nat /\ cfg.sources \subseteq Sources
  BY SettingType DEF IInv, TypeOK
<1>2. /\ cfg.minJbuf = 0 /\ ssrc' = p.ssrc
      /\ UNCHANGED <<cfg, jbuf, given, started, held>>
  BY DEF RtpRecv
<1>3. p.place \in 1..cfg.maxPlace /\ p.ssrc \in Sources
  BY <1>1 DEF Packets, Places
<1> DEFINE base == IF ssrc = p.ssrc THEN newest ELSE 0
<1>4. base \in 0..cfg.maxPlace
  BY <1>1 DEF TypeOK
<1>5. newest' = Highest(base, p.place) /\ Pass(p.place, SeqNo(p.place), base)
  BY DEF RtpRecv
<1> HIDE DEF base
<1>6. newest' \in 0..cfg.maxPlace
  BY <1>3, <1>4, <1>5 DEF Highest
<1>7. /\ pseq' \in 0..(Modulus - 1) \cup {NoSeq}
      /\ lossy' \in [place : 0..cfg.maxPlace, gap : Nat, loss : BOOLEAN]
  <2>1. p.place \in 0..cfg.maxPlace /\ SeqNo(p.place) \in 0..(Modulus - 1)
    BY <1>1, <1>3, SeqNoType
  <2> QED
    BY <2>1, <1>1, <1>4, <1>5, PassType
<1>8. TypeOK'
  BY <1>1, <1>2, <1>3, <1>6, <1>7 DEF TypeOK, Places
<1>9. Buffered'
  BY <1>1, <1>2 DEF Buffered, OneSource
<1> QED
  BY <1>8, <1>9

\* With one source, all packets come from it.
LEMMA OnlyOne ==
    ASSUME TypeOK, Plain, NEW a \in cfg.sources, NEW b \in cfg.sources
    PROVE  a = b
<1>1. IsFiniteSet(cfg.sources)
  <2>1. cfg.sources \subseteq Sources /\ IsFiniteSet(Sources)
    BY SettingType, ReceiveAssumption DEF TypeOK
  <2> QED
    BY <2>1, FS_Subset
<1>2. PICK s : cfg.sources = {s}
  BY <1>1, FS_Singleton DEF Plain
<1> QED
  BY <1>2

LEMMA RtpRecvPlain ==
    ASSUME IInv, Orderly, NEW p \in Packets, RtpRecv(p)
    PROVE  PlainInv' /\ LossExact'
<1> SUFFICES ASSUME Plain'
             PROVE  /\ newest' # 0 /\ pseq' = SeqNo(newest') /\ ssrc' \in cfg.sources'
                    /\ lossy'.loss <=> lossy'.gap \in 2..(Dropout - 1)
  BY DEF PlainInv, LossExact
<1>1. /\ cfg' = cfg /\ Plain /\ ssrc' = p.ssrc /\ Arrives(p)
      /\ p.ssrc \in cfg.sources
  BY DEF RtpRecv, Plain, Packets
<1>2. /\ TypeOK /\ PlainInv /\ newest \in Nat /\ p.place \in Nat \ {0}
      /\ {Modulus, Dropout, Misorder, MaxLate, cfg.maxGap} \subseteq Nat \ {0}
      /\ MaxLate <= Misorder /\ cfg.maxGap + Misorder < Modulus
  <2>1. TypeOK /\ PlainInv /\ cfg \in Settings
    BY DEF IInv, TypeOK
  <2>2. cfg.maxPlace \in Nat \ {0} /\ cfg.maxGap \in Nat \ {0}
    BY <2>1, SettingType
  <2>3. newest \in Nat /\ p.place \in Nat \ {0}
    BY <2>1, <2>2 DEF TypeOK, Packets, Places
  <2>4. {Modulus, Dropout, Misorder, MaxLate} \subseteq Nat \ {0}
    BY ReceiveAssumption
  <2> QED
    BY <2>1, <2>2, <2>3, <2>4 DEF Orderly
<1> DEFINE k == p.place
           calc == LostCalc(SeqNo(k))
<1>3. CASE newest = 0
  <2>1. pseq = NoSeq /\ ssrc = Null /\ Null \notin cfg.sources
    BY <1>1, <1>2, <1>3, SettingType, ReceiveAssumption DEF PlainInv, TypeOK
  <2>2. newest' = Highest(0, k) /\ Pass(k, SeqNo(k), 0)
    BY <2>1, <1>1 DEF RtpRecv
  <2>3. newest' = k
    BY <2>2, <1>2 DEF Highest
  <2>4. calc = [lost |-> FALSE, pseq |-> SeqNo(k)]
    BY <2>1 DEF LostCalc
  <2>5. pseq' = SeqNo(k) /\ lossy'.gap = 1 /\ lossy'.loss = FALSE
    BY <2>2, <2>4 DEF Pass
  <2>6. 1 \notin 2..(Dropout - 1)
    BY <1>2
  <2> QED
    BY <2>3, <2>5, <2>6, <1>1, <1>2
<1>4. CASE newest # 0
  <2>1. pseq = SeqNo(newest) /\ ssrc \in cfg.sources
    BY <1>1, <1>2, <1>4 DEF PlainInv
  <2>2. ssrc = p.ssrc
    BY <2>1, <1>1, <1>2, OnlyOne
  <2>3. k <= newest + cfg.maxGap /\ k + MaxLate >= newest
    BY <2>2, <1>1, <1>4 DEF Arrives
  <2>4. newest' = Highest(newest, k) /\ Pass(k, SeqNo(k), newest)
    BY <2>2 DEF RtpRecv
  <2>5. CASE k > newest
    <3>1. k - newest + Misorder < Modulus
      BY <2>3, <2>5, <1>2
    <3>2. calc.lost = (k - newest \in 2..(Dropout - 1)) /\ calc.pseq = SeqNo(k)
      BY <3>1, <2>1, <2>5, <1>2, LostCalcAhead
    <3>3. ~(newest = 0 \/ k < newest) /\ newest' = k
      BY <2>4, <2>5, <1>2, <1>4 DEF Highest
    <3>4. lossy'.gap = k - newest /\ lossy'.loss = calc.lost /\ pseq' = calc.pseq
      BY <2>4, <3>3 DEF Pass
    <3> QED
      BY <3>2, <3>3, <3>4, <1>1, <1>2
  <2>6. CASE k <= newest
    <3>1. newest - k <= Misorder
      BY <2>3, <2>6, <1>2
    <3>2. calc = [lost |-> FALSE, pseq |-> pseq]
      BY <3>1, <2>1, <2>6, <1>2, LostCalcBehind
    <3>3. newest' = newest
      BY <2>4, <2>6, <1>2 DEF Highest
    <3>4. pseq' = pseq /\ lossy'.loss = FALSE
      BY <2>4, <3>2 DEF Pass
    <3>5. lossy'.gap = IF newest = 0 \/ k < newest THEN 1 ELSE k - newest
      BY <2>4 DEF Pass
    <3>6. lossy'.gap \notin 2..(Dropout - 1)
      BY <3>5, <2>6, <1>2
    <3> QED
      BY <3>3, <3>4, <3>6, <2>1, <1>1, <1>4
  <2> QED
    BY <2>5, <2>6, <1>2
<1> QED
  BY <1>3, <1>4

-----------------------------------------------------------------------------
(* The jitter buffer.                                                      *)

\* A packet with the least place: what the jitter buffer gives out.
LEMMA Earliest ==
    ASSUME NEW full, full # {}, \A q \in full : q.place \in Nat
    PROVE  \E q \in full : \A r \in full : q.place <= r.place
<1> DEFINE T == {q.place : q \in full}
<1>1. T \subseteq Nat /\ T # {}
  OBVIOUS
<1> DEFINE R == {ss \in Nat \X Nat : ss[1] < ss[2]}
<1>2. IsWellFoundedOn(R, Nat)
  BY NatLessThanWellFounded DEF OpToRel
<1>3. PICK m \in T : \A n \in T : ~ (<<n, m>> \in R)
  <2> HIDE DEF T, R
  <2> QED
    BY <1>1, <1>2, WFMin
<1>4. ASSUME NEW n \in T PROVE m <= n
  <2>1. m \in Nat /\ n \in Nat /\ <<n, m>> \notin R
    BY <1>1, <1>3
  <2>2. n < m => <<n, m>> \in R
    BY <2>1
  <2> QED
    BY <2>1, <2>2
<1> QED
  BY <1>4

LEMMA PutFacts ==
    ASSUME TypeOK, Buffered, NEW p \in Packets, NEW from \in 0..cfg.maxPlace
    PROVE  LET full == Put(p, Kept(p), from)
           IN  /\ IsFiniteSet(full)
               /\ full \subseteq [ssrc : Sources, place : Places]
               /\ \A q \in full : q.ssrc = p.ssrc
<1>1. p \in [ssrc : Sources, place : Places] /\ p.ssrc \in Sources
  BY SettingType DEF TypeOK, Packets
<1>2. IsFiniteSet(jbuf) /\ jbuf \subseteq [ssrc : Sources, place : Places]
  BY DEF TypeOK, Buffered
<1>3. /\ IsFiniteSet(Kept(p))
      /\ Kept(p) \subseteq [ssrc : Sources, place : Places]
  BY <1>2, FS_EmptySet DEF Kept
<1>4. \A q \in Kept(p) : q.ssrc = p.ssrc
  <2> SUFFICES ASSUME NEW q \in Kept(p) PROVE q.ssrc = p.ssrc
    OBVIOUS
  <2>1. q \in jbuf /\ ssrc \in {Null, p.ssrc}
    BY DEF Kept
  <2>2. q.ssrc = ssrc /\ q.ssrc \in Sources
    BY <2>1, <1>2 DEF Buffered, OneSource
  <2> QED
    BY <2>1, <2>2, ReceiveAssumption
<1>5. IsFiniteSet(Kept(p) \cup {p})
  BY <1>3, FS_AddElement
<1>6. \/ Put(p, Kept(p), from) = Kept(p)
      \/ Put(p, Kept(p), from) = Kept(p) \cup {p}
  BY DEF Put
<1> QED
  BY <1>1, <1>3, <1>4, <1>5, <1>6

LEMMA RtpRecvJbufStep ==
    ASSUME IInv, NEW p \in Packets, RtpRecvJbuf(p)
    PROVE  IInv'
<1>1. /\ TypeOK /\ Buffered /\ cfg.maxPlace \in Nat \ {0} /\ cfg.minJbuf \in Nat
      /\ cfg.sources \subseteq Sources
  BY SettingType DEF IInv, TypeOK
<1>2. cfg.minJbuf > 0 /\ ssrc' = p.ssrc /\ UNCHANGED <<cfg, held>>
  BY DEF RtpRecvJbuf
<1>3. p.place \in 1..cfg.maxPlace /\ p.ssrc \in Sources
  BY <1>1 DEF Packets, Places
<1> DEFINE same == ssrc = p.ssrc
           base == IF same THEN newest ELSE 0
           from == IF same THEN given ELSE 0
           full == Put(p, Kept(p), from)
           head == CHOOSE q \in full : \A r \in full : q.place <= r.place
<1>4. base \in 0..cfg.maxPlace /\ from \in 0..cfg.maxPlace
  BY <1>1 DEF TypeOK
<1>5. /\ IsFiniteSet(full)
      /\ full \subseteq [ssrc : Sources, place : Places]
      /\ \A q \in full : q.ssrc = p.ssrc
  BY <1>1, <1>4, PutFacts
<1>6. /\ newest' = Highest(base, p.place)
      /\ \/ /\ Cardinality(full) > cfg.minJbuf
            /\ jbuf' = full \ {head} /\ given' = head.place /\ started' = TRUE
            /\ Pass(head.place, SeqNo(head.place), from)
         \/ /\ jbuf' = full /\ given' = from /\ UNCHANGED started
            /\ Pass(from, 0, from) \/ UNCHANGED <<pseq, lossy>>
  BY DEF RtpRecvJbuf
<1>7. full # {} => head \in full
  <2> SUFFICES ASSUME full # {} PROVE head \in full
    OBVIOUS
  <2>1. \A q \in full : q.place \in Nat
    BY <1>1, <1>5 DEF Places
  <2>2. \E q \in full : \A r \in full : q.place <= r.place
    BY <2>1, Earliest
  <2> QED
    BY <2>2
<1> HIDE DEF same, base, from, full, head
<1>8. newest' \in 0..cfg.maxPlace
  BY <1>3, <1>4, <1>6 DEF Highest
<1>9. /\ IsFiniteSet(jbuf')
      /\ jbuf' \subseteq full
  BY <1>5, <1>6, FS_Subset
<1>10. Buffered'
  BY <1>2, <1>5, <1>9 DEF Buffered, OneSource
<1>11. /\ pseq' \in 0..(Modulus - 1) \cup {NoSeq}
       /\ lossy' \in [place : 0..cfg.maxPlace, gap : Nat, loss : BOOLEAN]
       /\ given' \in 0..cfg.maxPlace /\ started' \in BOOLEAN
  <2>1. CASE /\ Cardinality(full) > cfg.minJbuf
             /\ given' = head.place /\ started' = TRUE
             /\ Pass(head.place, SeqNo(head.place), from)
    <3>1. full # {}
      BY <2>1, <1>1, FS_EmptySet
    <3>2. head.place \in 0..cfg.maxPlace /\ head.place \in Nat
      BY <3>1, <1>1, <1>5, <1>7 DEF Places
    <3>3. SeqNo(head.place) \in 0..(Modulus - 1)
      BY <3>2, SeqNoType
    <3> QED
      BY <2>1, <3>2, <3>3, <1>1, <1>4, PassType
  <2>2. CASE given' = from /\ UNCHANGED started /\ Pass(from, 0, from)
    <3>1. 0 \in 0..(Modulus - 1)
      BY ModType
    <3> QED
      BY <2>2, <3>1, <1>1, <1>4, PassType DEF TypeOK
  <2>3. CASE given' = from /\ UNCHANGED started /\ UNCHANGED <<pseq, lossy>>
    BY <2>3, <1>1, <1>4 DEF TypeOK
  <2> QED
    BY <2>1, <2>2, <2>3, <1>6
<1>12. TypeOK'
  BY <1>1, <1>2, <1>3, <1>5, <1>8, <1>9, <1>11 DEF TypeOK, Places
<1>13. ~Plain /\ Plain' = Plain
  BY <1>2 DEF Plain
<1>14. PlainInv' /\ LossExact'
  BY <1>2, <1>13 DEF PlainInv, LossExact, Plain
<1> QED
  BY <1>10, <1>12, <1>14 DEF IInv

LEMMA StepInv == IInv /\ [Next]_vars => IInv'
<1> SUFFICES ASSUME IInv, [Next]_vars PROVE IInv'
  OBVIOUS
<1>1. TypeOK /\ Buffered /\ (Orderly => PlainInv /\ LossExact)
  BY DEF IInv
<1>2. ASSUME UNCHANGED <<cfg, ssrc, pseq, newest, lossy, started>>,
             \/ UNCHANGED <<jbuf, given>>
             \/ jbuf' = {} /\ given' = 0,
             held' \in BOOLEAN
      PROVE  IInv'
  <2>1. 0 \in 0..cfg.maxPlace
    BY <1>1, SettingType DEF TypeOK
  <2>2. TypeOK'
    BY <2>1, <1>1, <1>2 DEF TypeOK, Places
  <2>3. Buffered'
    BY <1>1, <1>2, FS_EmptySet DEF Buffered, OneSource
  <2>4. Orderly => PlainInv' /\ LossExact'
    BY <1>1, <1>2 DEF PlainInv, LossExact, Plain
  <2> QED
    BY <2>2, <2>3, <2>4 DEF IInv
<1>3. CASE UNCHANGED vars
  BY <1>1, <1>2, <1>3 DEF vars, TypeOK
<1>4. ASSUME NEW p \in Packets, RtpRecv(p)
      PROVE  IInv'
  BY <1>4, RtpRecvType, RtpRecvPlain DEF IInv
<1>5. ASSUME NEW p \in Packets, RtpRecvJbuf(p)
      PROVE  IInv'
  BY <1>5, RtpRecvJbufStep
<1>6. ASSUME NEW hold \in BOOLEAN, StreamHold(hold)
      PROVE  IInv'
  BY <1>6, <1>2 DEF StreamHold
<1>7. CASE StreamReset
  BY <1>1, <1>2, <1>7 DEF StreamReset, TypeOK
<1> QED
  BY <1>3, <1>4, <1>5, <1>6, <1>7 DEF Next

LEMMA Invariance == Spec => []IInv
<1> QED
  BY InitInv, StepInv, PTL DEF Spec

-----------------------------------------------------------------------------
(***************************************************************************)
(* The variables keep their types, sequence numbers their width.           *)
(***************************************************************************)
THEOREM TypeCorrect == Spec => []TypeOK
<1>1. IInv => TypeOK
  BY DEF IInv
<1> QED
  BY <1>1, Invariance, PTL

(***************************************************************************)
(* The jitter buffer holds packets of the current source only.             *)
(***************************************************************************)
THEOREM OneSourceBuffered == Spec => []OneSource
<1>1. IInv => OneSource
  BY DEF IInv, Buffered
<1> QED
  BY <1>1, Invariance, PTL

LEMMA OrderlyInvariance == Orderly /\ Spec => [](Orderly /\ IInv)
<1> DEFINE TInv == Orderly /\ IInv
<1>1. Orderly /\ Init => TInv
  BY InitInv
<1>2. TInv /\ [Next]_vars => TInv'
  <2> SUFFICES ASSUME TInv, [Next]_vars PROVE TInv'
    OBVIOUS
  <2>1. IInv'
    BY StepInv
  <2>2. Orderly'
    BY DEF Orderly
  <2> QED
    BY <2>1, <2>2
<1>3. TInv => Orderly /\ IInv
  OBVIOUS
<1> HIDE DEF TInv
<1> QED
  BY <1>1, <1>2, <1>3, PTL DEF Spec

(***************************************************************************)
(* pseq is the number of the newest packet of a single source, however     *)
(* often the numbers wrap, in a network that is orderly.                   *)
(***************************************************************************)
THEOREM NewestFollowed == Orderly /\ Spec => []FollowsNewest
<1>1. Orderly /\ IInv => FollowsNewest
  BY DEF IInv, PlainInv, FollowsNewest
<1> QED
  BY <1>1, OrderlyInvariance, PTL

(***************************************************************************)
(* lostcalc reports a loss exactly when packets are missing, in a network  *)
(* that is orderly.                                                        *)
(***************************************************************************)
THEOREM LossIsExact == Orderly /\ Spec => []LossExact
<1>1. Orderly /\ IInv => LossExact
  BY DEF IInv
<1> QED
  BY <1>1, OrderlyInvariance, PTL
=============================================================================
