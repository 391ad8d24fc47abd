----------------------------- MODULE MetricProofs -----------------------------
(***************************************************************************)
(* The rates of Metric.tla are right for every width of the counters,      *)
(* every clock and every number of packets.  What is inductive is that     *)
(* n_bytes is the number of all bytes modulo the width, and n_bytes_last   *)
(* that of the bytes at some moment since the last reading.                *)
(***************************************************************************)
EXTENDS Metric, TLAPS

(* Counters that wrap. *)

\* A quotient and a remainder that fit are the ones.
LEMMA ModUnique ==
    ASSUME NEW m \in Nat \ {0}, NEW q \in Int, NEW r \in 0..(m - 1)
    PROVE  (m * q + r) % m = r
  OBVIOUS

\* What \div and % of a natural number are.
LEMMA DivMod ==
    ASSUME NEW d \in Nat \ {0}, NEW a \in Nat
    PROVE  \E q \in Nat, r \in 0..(d - 1) : a = d * q + r /\ a % d = r
<1> WITNESS a \div d \in Nat, a % d \in 0..(d - 1)
<1> QED
  OBVIOUS

\* A sum of 32 bits may be reduced at any time.
LEMMA ModAdd ==
    ASSUME NEW m \in Nat \ {0}, NEW a \in Nat, NEW n \in Nat
    PROVE  ((a % m) + n) % m = (a + n) % m
<1>1. PICK q \in Nat, r \in 0..(m - 1) : a = m * q + r /\ a % m = r
  BY DivMod
<1>. r + n \in Nat
  OBVIOUS
<1>2. PICK p \in Nat, s \in 0..(m - 1) : r + n = m * p + s /\ (r + n) % m = s
  BY DivMod
<1>3. m * (q + p) = m * q + m * p /\ q + p \in Int
  OBVIOUS
<1>4. a + n = m * (q + p) + s
  BY <1>1, <1>2, <1>3
<1>5. (m * (q + p) + s) % m = s
  BY <1>3, ModUnique
<1> QED
  BY <1>1, <1>2, <1>4, <1>5

\* The difference of two counters is right although one of them wrapped.
LEMMA ModDiff ==
    ASSUME NEW m \in Nat \ {0}, NEW a \in Nat, NEW b \in Nat, b <= a, a - b < m
    PROVE  ((a % m) - (b % m)) % m = a - b
<1>1. PICK q \in Nat, r \in 0..(m - 1) : b = m * q + r /\ b % m = r
  BY DivMod
<1>2. PICK d \in 0..(m - 1) : d = a - b
  OBVIOUS
<1>3. CASE r + d < m
  <2>1. a = m * q + (r + d) /\ r + d \in 0..(m - 1)
    BY <1>1, <1>2, <1>3
  <2>2. a % m = r + d
    BY <2>1, ModUnique
  <2>3. (m * 0 + d) % m = d
    BY ModUnique
  <2> QED
    BY <2>2, <2>3, <1>1, <1>2
<1>4. CASE r + d >= m
  <2>1. r + d - m \in 0..(m - 1)
    BY <1>4
  <2>2. m * (q + 1) = m * q + m
    OBVIOUS
  <2>3. a = m * (q + 1) + (r + d - m)
    BY <2>2, <1>1, <1>2
  <2>4. (m * (q + 1) + (r + d - m)) % m = r + d - m
    <3>1. q + 1 \in Int
      OBVIOUS
    <3> QED
      BY <3>1, <2>1, ModUnique
  <2>5. (m * (0 - 1) + d) % m = d
    BY ModUnique
  <2>6. m * (0 - 1) + d = d - m
    OBVIOUS
  <2> QED
    BY <2>3, <2>4, <2>5, <2>6, <1>1, <1>2
<1> QED
  BY <1>3, <1>4
-----------------------------------------------------------------------------
\* A product that does not overflow bounds its factor.
LEMMA Factor ==
    ASSUME NEW m \in Nat \ {0}, NEW s \in Nat \ {0}, NEW a \in Nat, s * a < m
    PROVE  a < m /\ s * a \in 0..(m - 1) /\ (s * a) % m = s * a
<1>1. s * a >= a
  OBVIOUS
<1>2. s * a \in Nat
  OBVIOUS
<1>3. (m * 0 + s * a) % m = s * a
  BY <1>2, ModUnique
<1> QED
  BY <1>1, <1>2, <1>3

\* Products grow with their factors.
LEMMA Grows ==
    ASSUME NEW s \in Nat, NEW a \in Nat, NEW b \in Nat, a <= b
    PROVE  s * a <= s * b
  OBVIOUS

LEMMA DivGrows ==
    ASSUME NEW d \in Nat \ {0}, NEW a \in Nat, NEW b \in Nat, a <= b
    PROVE  a \div d <= b \div d
  OBVIOUS

LEMMA DivType ==
    ASSUME NEW d \in Nat \ {0}, NEW m \in Nat, NEW a \in 0..m
    PROVE  a \div d \in 0..m
  OBVIOUS
-----------------------------------------------------------------------------
(***************************************************************************)
(* The inductive invariant.                                                *)
(***************************************************************************)
StartKept ==
    /\ tsStart = first
    /\ started <=> first # 0

BytesExact ==
    AtMostOne =>
        /\ nBytes = added % Mod
        /\ \A t \in cfg.adders : loaded[t] # -1 => loaded[t] = nBytes

LastWithin ==
    AtMostOne /\ reading = 0 =>
        \E last \in counted..added :
            /\ nBytesLast = last % Mod
            /\ cfg.adders = {} => last = counted

MainExact == cfg.adders = {} /\ reading # 0 => counted = added

Inv == TypeOK /\ StartKept /\ BytesExact /\ LastWithin /\ MainExact

LEMMA InitInv == Init => Inv
<1> SUFFICES ASSUME Init PROVE Inv
  OBVIOUS
<1>1. TypeOK
  <2>1. 0 \in Counters
    BY MetricAssumption DEF Counters
  <2>2. loaded \in [cfg.adders -> Counters \cup {-1}] /\ size \in [cfg.adders -> Nat]
    BY DEF Init
  <2>3. cfg \in Settings /\ started \in BOOLEAN
    BY DEF Init
  <2>4. now \in Nat \ {0}
    BY DEF Init
  <2>5. {due, tsStart, tsLast, reading, first} \subseteq Nat
    BY DEF Init
  <2>6. {nBytes, nBytesLast, curBitrate} \subseteq Counters
    BY <2>1 DEF Init
  <2>7. added \in Nat /\ counted \in 0..added
    BY DEF Init
  <2> QED
    BY <2>2, <2>3, <2>4, <2>5, <2>6, <2>7 DEF TypeOK
<1>2. StartKept /\ MainExact
  BY DEF Init, StartKept, MainExact
<1>3. BytesExact
  BY MetricAssumption DEF Init, BytesExact
<1>4. LastWithin
  <2>1. 0 \in counted..added /\ nBytesLast = 0 % Mod /\ counted = 0
    BY MetricAssumption DEF Init
  <2> QED
    BY <2>1 DEF LastWithin
<1> QED
  BY <1>1, <1>2, <1>3, <1>4 DEF Inv

\* What has to be shown again of a step that neither adds nor reads.
LEMMA SameCounters ==
    ASSUME Inv, TypeOK', StartKept',
           UNCHANGED <<cfg, nBytes, nBytesLast, reading, loaded, added, counted>>
    PROVE  Inv'
  BY DEF Inv, BytesExact, LastWithin, MainExact, AtMostOne

LEMMA StepInv == Inv /\ [Next]_vars => Inv'
<1> SUFFICES ASSUME Inv, [Next]_vars PROVE Inv'
  OBVIOUS
<1> USE MetricAssumption
<1>1. CASE Tick
  <2>1. TypeOK' /\ StartKept'
    BY <1>1 DEF Tick, Inv, TypeOK, StartKept
  <2> QED
    BY <1>1, <2>1, SameCounters DEF Tick
<1>2. CASE ClockSet
  <2>1. TypeOK' /\ StartKept'
    BY <1>2 DEF ClockSet, Inv, TypeOK, StartKept
  <2> QED
    BY <1>2, <2>1, SameCounters DEF ClockSet
<1>3. ASSUME NEW n \in Sizes, AddPacket(n) PROVE Inv'
  <2>1. n \in Nat /\ added \in Nat /\ counted \in 0..added
    BY DEF Inv, TypeOK
  <2>2. TypeOK'
    <3>1. (nBytes + n) % Mod \in Counters
      BY <2>1 DEF Inv, TypeOK, Counters
    <3> QED
      BY <1>3, <2>1, <3>1 DEF AddPacket, MetricStart, Inv, TypeOK
  <2>3. StartKept'
    BY <1>3 DEF AddPacket, MetricStart, Inv, TypeOK, StartKept
  <2>4. BytesExact'
    BY <1>3, <2>1, ModAdd DEF AddPacket, Inv, BytesExact, AtMostOne
  <2>5. LastWithin'
    BY <1>3, <2>1 DEF AddPacket, Inv, LastWithin, AtMostOne
  <2>6. MainExact'
    BY <1>3 DEF AddPacket, MainExact
  <2> QED
    BY <2>2, <2>3, <2>4, <2>5, <2>6 DEF Inv
<1>4. ASSUME NEW t \in cfg.adders, NEW n \in Sizes, AddBegins(t, n) PROVE Inv'
  <2>1. TypeOK'
    BY <1>4 DEF AddBegins, MetricStart, Inv, TypeOK
  <2>2. StartKept'
    BY <1>4 DEF AddBegins, MetricStart, Inv, TypeOK, StartKept
  <2>3. BytesExact'
    BY <1>4 DEF AddBegins, Inv, TypeOK, BytesExact, AtMostOne
  <2>4. LastWithin' /\ MainExact'
    BY <1>4 DEF AddBegins, Inv, LastWithin, MainExact, AtMostOne
  <2> QED
    BY <2>1, <2>2, <2>3, <2>4 DEF Inv
<1>5. ASSUME NEW t \in cfg.adders, AddEnds(t) PROVE Inv'
  <2>1. size[t] \in Nat /\ added \in Nat /\ counted \in 0..added /\ loaded[t] \in Counters
    BY <1>5 DEF AddEnds, Inv, TypeOK
  <2>2. TypeOK'
    <3>1. (loaded[t] + size[t]) % Mod \in Counters
      BY <2>1 DEF Counters
    <3> QED
      BY <1>5, <2>1, <3>1 DEF AddEnds, Inv, TypeOK
  <2>3. StartKept'
    BY <1>5 DEF AddEnds, Inv, StartKept
  <2>4. BytesExact'
    <3> SUFFICES ASSUME AtMostOne'
                 PROVE  /\ nBytes' = added' % Mod
                        /\ \A u \in cfg.adders : loaded'[u] # -1 => loaded'[u] = nBytes'
      BY <1>5 DEF AddEnds, BytesExact
    <3>1. AtMostOne
      BY <1>5 DEF AddEnds, AtMostOne
    <3>2. loaded[t] = added % Mod
      BY <1>5, <3>1 DEF AddEnds, Inv, BytesExact
    <3>3. nBytes' = added' % Mod
      <4>1. ((added % Mod) + size[t]) % Mod = (added + size[t]) % Mod
        BY <2>1, ModAdd
      <4> QED
        BY <1>5, <3>2, <4>1 DEF AddEnds
    <3>4. \A u \in cfg.adders : u = t
      BY <3>1 DEF AtMostOne
    <3>5. loaded'[t] = -1
      BY <1>5 DEF AddEnds, Inv, TypeOK
    <3> QED
      BY <3>3, <3>4, <3>5
  <2>5. LastWithin'
    <3>1. counted..added \subseteq counted..added'
      BY <1>5, <2>1 DEF AddEnds
    <3> QED
      BY <1>5, <3>1 DEF AddEnds, Inv, LastWithin, AtMostOne
  <2>6. MainExact'
    BY <1>5 DEF AddEnds, MainExact
  <2> QED
    BY <2>2, <2>3, <2>4, <2>5, <2>6 DEF Inv
<1>6. CASE TmrHandler
  <2>1. CASE now <= tsLast
    <3>1. TypeOK' /\ StartKept'
      BY <1>6, <2>1 DEF TmrHandler, Inv, TypeOK, StartKept
    <3> QED
      BY <1>6, <2>1, <3>1, SameCounters DEF TmrHandler
  <2>2. CASE ~(now <= tsLast)
    <3>1. curBitrate' \in Counters
      <4>1. CASE tsLast = 0
        BY <1>6, <2>2, <4>1 DEF TmrHandler, Inv, TypeOK
      <4>2. CASE tsLast # 0
        <5> DEFINE bytes == (nBytes - nBytesLast) % Mod
        <5>1. bytes \in Nat
          BY DEF Inv, TypeOK, Counters
        <5>2. (Scale * bytes) % Mod \in 0..(Mod - 1)
          <6>1. Scale * bytes \in Nat
            BY <5>1
          <6> HIDE DEF bytes
          <6> QED
            BY <6>1
        <5>3. now - tsLast \in Nat \ {0} /\ Mod - 1 \in Nat
          BY <2>2 DEF Inv, TypeOK
        <5>4. curBitrate' = ((Scale * bytes) % Mod) \div (now - tsLast)
          BY <1>6, <2>2, <4>2 DEF TmrHandler
        <5> HIDE DEF bytes
        <5> QED
          BY <5>2, <5>3, <5>4, DivType DEF Counters
      <4> QED
        BY <4>1, <4>2
    <3>2. TypeOK'
      BY <1>6, <2>2, <3>1 DEF TmrHandler, Inv, TypeOK
    <3>3. StartKept'
      BY <1>6 DEF TmrHandler, Inv, StartKept
    <3>4. BytesExact'
      BY <1>6 DEF TmrHandler, Inv, BytesExact, AtMostOne
    <3>5. LastWithin' /\ MainExact'
      BY <1>6, <2>2 DEF TmrHandler, Inv, TypeOK, LastWithin, MainExact
    <3> QED
      BY <3>2, <3>3, <3>4, <3>5 DEF Inv
  <2> QED
    BY <2>1, <2>2
<1>7. CASE UpdateCounters
  <2>1. TypeOK' /\ StartKept'
    BY <1>7 DEF UpdateCounters, Inv, TypeOK, StartKept
  <2>2. BytesExact' /\ MainExact'
    BY <1>7 DEF UpdateCounters, Inv, BytesExact, MainExact, AtMostOne
  <2>3. LastWithin'
    <3> SUFFICES ASSUME AtMostOne'
                 PROVE  \E last \in counted'..added' :
                            /\ nBytesLast' = last % Mod
                            /\ cfg'.adders = {} => last = counted'
      BY DEF LastWithin
    <3>1. nBytesLast' = added % Mod
      BY <1>7 DEF UpdateCounters, Inv, BytesExact, AtMostOne
    <3>2. cfg.adders = {} => counted = added
      BY <1>7 DEF UpdateCounters, Inv, MainExact
    <3>3. added \in counted..added
      BY DEF Inv, TypeOK
    <3> QED
      BY <1>7, <3>1, <3>2, <3>3 DEF UpdateCounters
  <2> QED
    BY <2>1, <2>2, <2>3 DEF Inv
<1>8. CASE UNCHANGED vars
  BY <1>8 DEF vars, Inv, TypeOK, StartKept, BytesExact, LastWithin, MainExact, AtMostOne
<1> QED
  BY <1>1, <1>2, <1>3, <1>4, <1>5, <1>6, <1>7, <1>8 DEF Next

LEMMA SpecInv == Spec => []Inv
  BY InitInv, StepInv, PTL DEF Spec
-----------------------------------------------------------------------------
(***************************************************************************)
(* The rate that the timer computes (tmr_handler) is exact where the main  *)
(* loop adds the packets, and not too high where one other thread does.    *)
(***************************************************************************)
LEMMA RateStep ==
    ASSUME Inv, [Next]_vars, Reads, Scale * (added - counted) < Mod
    PROVE  /\ cfg.adders = {} => curBitrate' = TrueRate
           /\ AtMostOne => curBitrate' <= TrueRate
<1> USE MetricAssumption
<1>1. TmrHandler /\ ~(now <= tsLast)
  BY DEF Reads, Next, vars, Tick, ClockSet, AddPacket, AddBegins, AddEnds, TmrHandler,
         UpdateCounters
<1>2. cfg.adders = {} => AtMostOne
  BY DEF AtMostOne
<1> SUFFICES ASSUME AtMostOne
             PROVE  /\ cfg.adders = {} => curBitrate' = TrueRate
                    /\ curBitrate' <= TrueRate
  BY <1>2
<1>3. PICK last \in counted..added :
          nBytesLast = last % Mod /\ (cfg.adders = {} => last = counted)
  BY DEF Inv, LastWithin, Reads
<1>4. /\ added \in Nat /\ counted \in 0..added
      /\ now - tsLast \in Nat \ {0}
  BY <1>1 DEF Inv, TypeOK
<1> DEFINE d == now - tsLast
           bytes == added - last
<1>5. bytes \in Nat /\ last \in Nat /\ last <= added /\ added - counted \in Nat
      /\ bytes <= added - counted
  BY <1>3, <1>4
<1>6. Scale * bytes <= Scale * (added - counted)
  BY <1>5, Grows
<1>7. Scale * bytes \in Nat /\ Scale * (added - counted) \in Nat
  BY <1>5
<1>8. Scale * bytes < Mod
  BY <1>6, <1>7
<1>9. bytes < Mod /\ (Scale * bytes) % Mod = Scale * bytes
  BY <1>5, <1>8, Factor
<1>10. (nBytes - nBytesLast) % Mod = bytes
  <2>1. nBytes = added % Mod
    BY DEF Inv, BytesExact
  <2> QED
    BY <2>1, <1>3, <1>4, <1>5, <1>9, ModDiff
<1>11. curBitrate' = (Scale * bytes) \div d
  BY <1>1, <1>9, <1>10 DEF TmrHandler, Reads
<1>12. (Scale * bytes) \div d <= (Scale * (added - counted)) \div d
  BY <1>4, <1>6, <1>7, DivGrows
<1> QED
  BY <1>3, <1>11, <1>12 DEF TrueRate

THEOREM Rates == Spec => RateExact
<1>1. Inv /\ [Next]_vars =>
        [Reads /\ Scale * (added - counted) < Mod =>
            /\ cfg.adders = {} => curBitrate' = TrueRate
            /\ AtMostOne => curBitrate' <= TrueRate]_vars
  BY RateStep
<1> QED
  BY <1>1, SpecInv, PTL DEF Spec, RateExact
-----------------------------------------------------------------------------
(***************************************************************************)
(* metric_avg_bitrate is the average so far, but for what its division     *)
(* loses, which is less than the rate of one byte per millisecond.         *)
(***************************************************************************)
LEMMA Truncated ==
    ASSUME NEW s \in Nat \ {0}, NEW a \in Nat, NEW d \in Nat \ {0}
    PROVE  /\ s * (a \div d) <= (s * a) \div d
           /\ (s * a) \div d < s * (a \div d) + s
<1>1. PICK q \in Nat, r \in 0..(d - 1) : a = d * q + r /\ a \div d = q
  <2> WITNESS a \div d \in Nat, a % d \in 0..(d - 1)
  <2> QED
    OBVIOUS
<1>2. s * a \in Nat /\ s * a = d * (s * q) + s * r
  BY <1>1
<1>3. PICK p \in Nat, t \in 0..(d - 1) : s * a = d * p + t /\ (s * a) \div d = p
  <2> WITNESS (s * a) \div d \in Nat, (s * a) % d \in 0..(d - 1)
  <2> QED
    BY <1>2
<1>4. s * q <= p
  <2>1. SUFFICES ASSUME p + 1 <= s * q PROVE FALSE
    BY <1>1
  <2>2. d * (p + 1) <= d * (s * q)
    BY <2>1, Grows
  <2> QED
    BY <2>2, <1>2, <1>3
<1>5. p < s * q + s
  <2>1. SUFFICES ASSUME s * q + s <= p PROVE FALSE
    BY <1>1
  <2>2. d * (s * q + s) <= d * p
    BY <2>1, Grows
  <2>3. d * (s * q + s) = d * (s * q) + s * d
    OBVIOUS
  <2>4. s * r <= s * (d - 1) /\ s * (d - 1) = s * d - s
    BY Grows
  <2> QED
    BY <2>2, <2>3, <2>4, <1>2, <1>3
<1> QED
  BY <1>1, <1>3, <1>4, <1>5

THEOREM AverageIsClose == Spec => []AverageClose
<1>1. Inv => AverageClose
  <2> SUFFICES ASSUME Inv, started, first < now, AtMostOne, Scale * added < Mod
               PROVE  LET average == (Scale * added) \div (now - first)
                      IN  AvgBitrate <= average /\ average < AvgBitrate + Scale
    BY DEF AverageClose
  <2> USE MetricAssumption
  <2>1. added \in Nat /\ now - first \in Nat \ {0}
    BY DEF Inv, TypeOK
  <2>2. added < Mod
    BY <2>1, Factor
  <2>3. nBytes = added
    BY <2>1, <2>2 DEF Inv, BytesExact
  <2> DEFINE k == added \div (now - first)
  <2>4. k \in Nat /\ Scale * k <= (Scale * added) \div (now - first)
        /\ (Scale * added) \div (now - first) < Scale * k + Scale
    <3>1. k \in Nat
      BY <2>1
    <3>2. Scale \in Nat \ {0}
      OBVIOUS
    <3>3. Scale * k <= (Scale * added) \div (now - first)
          /\ (Scale * added) \div (now - first) < Scale * k + Scale
      BY <2>1, <3>2, Truncated
    <3> QED
      BY <3>1, <3>3
  <2>5. (Scale * added) \div (now - first) <= Scale * added
    BY <2>1
  <2>6. Scale * k < Mod
    <3>1. Scale * added \in Nat /\ (Scale * added) \div (now - first) \in Nat
          /\ Scale * k \in Nat
      BY <2>1, <2>4
    <3> HIDE DEF k
    <3> QED
      BY <3>1, <2>4, <2>5
  <2>7. (Scale * k) % Mod = Scale * k
    BY <2>4, <2>6, Factor
  <2>8. AvgBitrate = Scale * k
    BY <2>3, <2>7 DEF AvgBitrate, Inv, StartKept
  <2> QED
    BY <2>4, <2>8
<1> QED
  BY <1>1, SpecInv, PTL
=============================================================================
