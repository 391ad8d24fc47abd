--------------------------- MODULE UserAgentsProofs ---------------------------
(***************************************************************************)
(* Proofs about UserAgents.tla, for any user agents, register clients,     *)
(* variables of the application, and settings.                             *)
(***************************************************************************)
EXTENDS UserAgents, SequenceTheorems, TLAPS

(* What list_unlink and list_append leave of a list in which nothing is twice. *)

\* How long the list is when the element at k is out.
LEMMA RemovedLength ==
    ASSUME NEW S, NEW s \in Seq(S), NEW k \in 1..Len(s)
    PROVE  RemoveAt(s, k) \in Seq(S) /\ Len(RemoveAt(s, k)) = Len(s) - 1
<1> DEFINE t == SubSeq(s, 1, k - 1)
           u == SubSeq(s, k + 1, Len(s))
<1>1. /\ t \in Seq(S) /\ Len(t) = k - 1
      /\ u \in Seq(S) /\ Len(u) = Len(s) - k
  OBVIOUS
<1>2. RemoveAt(s, k) = t \o u
  BY DEF RemoveAt
<1> HIDE DEF t, u
<1>3. t \o u \in Seq(S) /\ Len(t \o u) = Len(t) + Len(u)
  BY <1>1, ConcatProperties
<1> QED
  BY <1>1, <1>2, <1>3

LEMMA RemovedElement ==
    ASSUME NEW S, NEW s \in Seq(S), NEW k \in 1..Len(s), NEW i \in 1..(Len(s) - 1)
    PROVE  RemoveAt(s, k)[i] = IF i < k THEN s[i] ELSE s[i + 1]
<1> DEFINE t == SubSeq(s, 1, k - 1)
           u == SubSeq(s, k + 1, Len(s))
<1>1. RemoveAt(s, k) = t \o u
  BY DEF RemoveAt
<1>2. /\ t \in Seq(S) /\ Len(t) = k - 1
      /\ \A j \in 1..(k - 1) : t[j] = s[j]
  OBVIOUS
<1>3. /\ u \in Seq(S) /\ Len(u) = Len(s) - k
      /\ \A j \in 1..(Len(s) - k) : u[j] = s[k + j]
  OBVIOUS
<1> HIDE DEF t, u
<1>4. CASE i < k
  BY <1>1, <1>2, <1>3, <1>4, ConcatProperties
<1>5. CASE ~(i < k)
  <2>1. (t \o u)[i] = u[i - (k - 1)]
    BY <1>2, <1>3, <1>5, ConcatProperties
  <2>2. i - (k - 1) \in 1..(Len(s) - k) /\ k + (i - (k - 1)) = i + 1
    BY <1>5
  <2> QED
    BY <2>1, <2>2, <1>1, <1>3, <1>5
<1> QED
  BY <1>4, <1>5

LEMMA RemovedFacts ==
    ASSUME NEW S, NEW s \in Seq(S), NEW k \in 1..Len(s), IsInjective(s)
    PROVE  /\ IsInjective(RemoveAt(s, k))
           /\ ToSet(RemoveAt(s, k)) = ToSet(s) \ {s[k]}
<1> DEFINE r == RemoveAt(s, k)
<1>4. r \in Seq(S) /\ Len(r) = Len(s) - 1
  BY RemovedLength
<1>5. \A i \in 1..(Len(s) - 1) : r[i] = IF i < k THEN s[i] ELSE s[i + 1]
  BY RemovedElement
<1> HIDE DEF r
<1>6. IsInjective(r)
  <2> SUFFICES ASSUME NEW i \in 1..(Len(s) - 1), NEW j \in 1..(Len(s) - 1),
                      r[i] = r[j]
               PROVE  i = j
    BY <1>4 DEF IsInjective
  <2>1. /\ i \in DOMAIN s /\ j \in DOMAIN s
        /\ i + 1 \in DOMAIN s /\ j + 1 \in DOMAIN s
    OBVIOUS
  <2>2. (IF i < k THEN s[i] ELSE s[i + 1]) = IF j < k THEN s[j] ELSE s[j + 1]
    BY <1>5
  <2>3. (IF i < k THEN i ELSE i + 1) = IF j < k THEN j ELSE j + 1
    BY <2>1, <2>2 DEF IsInjective
  <2> QED
    BY <2>3
<1>7. ToSet(r) = ToSet(s) \ {s[k]}
  <2>1. ASSUME NEW x \in ToSet(r)
        PROVE  x \in ToSet(s) \ {s[k]}
    <3>1. PICK i \in 1..(Len(s) - 1) : x = r[i]
      BY <1>4 DEF ToSet
    <3>2. i \in DOMAIN s /\ i + 1 \in DOMAIN s /\ k \in DOMAIN s
      OBVIOUS
    <3>3. PICK j \in DOMAIN s : x = s[j] /\ j # k
      BY <3>1, <3>2, <1>5
    <3> QED
      BY <3>3, <3>2 DEF ToSet, IsInjective
  <2>2. ASSUME NEW x \in ToSet(s) \ {s[k]}
        PROVE  x \in ToSet(r)
    <3>1. PICK j \in DOMAIN s : x = s[j] /\ j # k
      BY DEF ToSet
    <3>2. CASE j < k
      <4>1. j \in 1..(Len(s) - 1)
        BY <3>2
      <4>2. r[j] = s[j]
        BY <4>1, <3>2, <1>5
      <4> QED
        BY <4>1, <4>2, <3>1, <1>4 DEF ToSet
    <3>3. CASE j > k
      <4>1. j - 1 \in 1..(Len(s) - 1) /\ (j - 1) + 1 = j /\ ~(j - 1 < k)
        BY <3>3
      <4>2. r[j - 1] = s[j]
        BY <4>1, <1>5
      <4> QED
        BY <4>1, <4>2, <3>1, <1>4 DEF ToSet
    <3> QED
      BY <3>1, <3>2, <3>3
  <2> QED
    BY <2>1, <2>2
<1> QED
  BY <1>6, <1>7 DEF r

\* list_append of an element that is not in the list.
LEMMA AppendedFacts ==
    ASSUME NEW S, NEW s \in Seq(S), NEW x \in S, x \notin ToSet(s), IsInjective(s)
    PROVE  /\ Append(s, x) \in Seq(S)
           /\ IsInjective(Append(s, x))
           /\ ToSet(Append(s, x)) = ToSet(s) \cup {x}
<1> DEFINE r == Append(s, x)
<1>1. /\ r \in Seq(S) /\ Len(r) = Len(s) + 1
      /\ r[Len(s) + 1] = x
  OBVIOUS
<1>2. \A i \in 1..Len(s) : r[i] = s[i]
  OBVIOUS
<1> HIDE DEF r
<1>3. IsInjective(r)
  <2> SUFFICES ASSUME NEW i \in 1..(Len(s) + 1), NEW j \in 1..(Len(s) + 1), r[i] = r[j]
               PROVE  i = j
    BY <1>1 DEF IsInjective
  <2>1. \A k \in 1..Len(s) : s[k] # x
    BY DEF ToSet
  <2>2. CASE i \in 1..Len(s) /\ j \in 1..Len(s)
    BY <1>2, <2>2 DEF IsInjective
  <2>3. CASE i = Len(s) + 1 \/ j = Len(s) + 1
    BY <1>1, <1>2, <2>1, <2>3
  <2> QED
    BY <2>2, <2>3
<1>4. ToSet(r) = ToSet(s) \cup {x}
  <2>1. ToSet(r) = {r[i] : i \in 1..(Len(s) + 1)} /\ ToSet(s) = {s[i] : i \in 1..Len(s)}
    BY <1>1 DEF ToSet
  <2>2. \A i \in 1..(Len(s) + 1) : i \in 1..Len(s) \/ i = Len(s) + 1
    OBVIOUS
  <2>3. 1..Len(s) \subseteq 1..(Len(s) + 1) /\ Len(s) + 1 \in 1..(Len(s) + 1)
    OBVIOUS
  <2> QED
    BY <2>1, <2>2, <2>3, <1>1, <1>2
<1> QED
  BY <1>1, <1>3, <1>4 DEF r

LEMMA AppendedRemoved ==
    ASSUME NEW S, NEW s \in Seq(S), NEW x \in S
    PROVE  RemoveAt(Append(s, x), Len(Append(s, x))) = s
<1> DEFINE r == Append(s, x)
<1>1. r \in Seq(S) /\ Len(r) = Len(s) + 1 /\ \A i \in 1..Len(s) : r[i] = s[i]
  OBVIOUS
<1> HIDE DEF r
<1>2. /\ RemoveAt(r, Len(r)) \in Seq(S)
      /\ Len(RemoveAt(r, Len(r))) = Len(s)
  BY <1>1, RemovedLength
<1>3. ASSUME NEW i \in 1..Len(s)
      PROVE  RemoveAt(r, Len(r))[i] = s[i]
  <2>1. i \in 1..(Len(r) - 1) /\ i < Len(r) /\ Len(r) \in 1..Len(r)
    BY <1>1
  <2>2. RemoveAt(r, Len(r))[i] = r[i]
    BY <2>1, <1>1, RemovedElement
  <2> QED
    BY <2>2, <1>1
<1>4. RemoveAt(r, Len(r)) = s
  BY <1>2, <1>3, SeqEqual
<1> QED
  BY <1>4 DEF r
-----------------------------------------------------------------------------
(***************************************************************************)
(* The list has every live user agent once, but for those that ua_init has *)
(* dropped, and a user agent that is dropped stays so: it is never freed.  *)
(***************************************************************************)
Listed ==
    /\ IsInjective(ual)
    /\ ToSet(ual) = live \ lost
    /\ lost \subseteq live

\* A user agent knows the variable that points to it.
PointsBack == \A p \in Pointers : app[p] # Null => app[p] \in live /\ uap[app[p]] = p

\* Every register client of a user agent has tried to register.
Tried == \A ua \in live : DOMAIN tried[ua] = 1..Flows[ua]

IInv ==
    /\ TypeOK
    /\ Listed
    /\ PointsBack
    /\ Tried /\ AllReregistered

Attempts == [from : Addresses, ok : BOOLEAN]

LEMMA EmptyList == ToSet(<<>>) = {} /\ IsInjective(<<>>)
  BY DEF ToSet, IsInjective

LEMMA InitInv == Init => IInv
<1> SUFFICES ASSUME Init PROVE IInv
  OBVIOUS
<1>1. MaxAddr \in Nat
  BY UserAgentsAssumption
<1>2. TypeOK
  <2>1. 0 \in 0..MaxAddr /\ ToSet(<<>>) = {}
    BY <1>1, EmptyList
  <2>2. tried \in [Uas -> Seq([from : Addresses, ok : BOOLEAN])]
    BY DEF Init
  <2>3. /\ uap \in [Uas -> Pointers \cup {Null}]
        /\ app \in [Pointers -> Uas \cup {Null}]
    BY DEF Init
  <2>4. ual \in Seq(Uas)
    BY DEF Init
  <2>5. addr \in 0..MaxAddr /\ laddr \in 0..MaxAddr
    BY <2>1 DEF Init
  <2>6. fails \in Settings /\ sip \in BOOLEAN /\ live \subseteq Uas /\ lost \subseteq Uas
        /\ cur \in Uas \cup {Null}
    BY DEF Init
  <2> QED
    BY <2>2, <2>3, <2>4, <2>5, <2>6 DEF TypeOK, Addresses
<1>3. Listed
  BY EmptyList DEF Init, Listed
<1>4. PointsBack /\ Tried
  BY DEF Init, PointsBack, Tried
<1>5. AllReregistered
  BY EmptyList DEF Init, AllReregistered
<1> QED
  BY <1>2, <1>3, <1>4, <1>5 DEF IInv

-----------------------------------------------------------------------------
(* What registration leaves of a user agent.                               *)

LEMMA Registered ==
    ASSUME NEW ua \in Uas, NEW from \in Addresses, NEW n \in {1, 2, 3},
           \/ n > Flows[ua]
           \/ /\ tried[ua] \in Seq(Attempts)
              /\ DOMAIN tried[ua] = 1..Flows[ua]
    PROVE  /\ UaRegister(ua, from, n) \in Seq(Attempts)
           /\ DOMAIN UaRegister(ua, from, n) = 1..Flows[ua]
           /\ \A i \in 1..Flows[ua] :
                 \/ UaRegister(ua, from, n)[i].from = from
                 \/ /\ n \in 1..(i - 1)
                    /\ UaRegister(ua, from, n)[n] = Attempt(from, FALSE)
<1> DEFINE r == UaRegister(ua, from, n)
<1>1. Flows[ua] \in 0..2
  BY UserAgentsAssumption
<1>2. \A i \in 1..Flows[ua] : r[i] = IF i > n THEN tried[ua][i] ELSE Attempt(from, i < n)
  BY DEF UaRegister
<1>3. DOMAIN r = 1..Flows[ua] /\ r = [i \in 1..Flows[ua] |-> r[i]]
  BY DEF UaRegister
<1>4. \A i \in 1..Flows[ua] : Attempt(from, i < n) \in Attempts
  BY DEF Attempt, Attempts
<1> HIDE DEF r
<1>5. ASSUME NEW i \in 1..Flows[ua] PROVE r[i] \in Attempts
  <2>1. CASE i > n
    <3>1. i \in DOMAIN tried[ua] /\ tried[ua] \in Seq(Attempts)
      BY <2>1, <1>1
    <3> QED
      BY <3>1, <2>1, <1>2
  <2>2. CASE ~(i > n)
    BY <2>2, <1>2, <1>4
  <2> QED
    BY <2>1, <2>2
<1>6. r \in Seq(Attempts)
  BY <1>1, <1>3, <1>5, SMTT(20)
<1>7. ASSUME NEW i \in 1..Flows[ua], i > n
      PROVE  n \in 1..(i - 1) /\ r[n] = Attempt(from, FALSE)
  <2>1. n \in 1..(i - 1) /\ n \in 1..Flows[ua] /\ ~(n > n) /\ (n < n) = FALSE
    BY <1>1, <1>7
  <2> QED
    BY <2>1, <1>2
<1>8. ASSUME NEW i \in 1..Flows[ua], ~(i > n)
      PROVE  r[i].from = from
  <2>1. \A ok \in BOOLEAN : Attempt(from, ok).from = from
    BY DEF Attempt
  <2>2. (i < n) \in BOOLEAN /\ r[i] = Attempt(from, i < n)
    BY <1>2, <1>8
  <2> QED
    BY <2>1, <2>2
<1> QED
  BY <1>3, <1>6, <1>7, <1>8 DEF r

-----------------------------------------------------------------------------
(* What ua_destructor leaves, whichever user agents it is called for.      *)

LEMMA FreedKeeps ==
    ASSUME IInv, NEW gone \in SUBSET Uas, Freed(gone)
    PROVE  /\ live' = live \ gone /\ fails' = fails /\ cur' \in Uas \cup {Null}
           /\ fails' \in Settings
           /\ live' \subseteq Uas
           /\ uap' \in [Uas -> Pointers \cup {Null}]
           /\ app' \in [Pointers -> Uas \cup {Null}]
           /\ tried' \in [Uas -> Seq(Attempts)]
           /\ \A ua \in Uas \ gone : tried'[ua] = tried[ua]
           /\ PointsBack' /\ Tried'
<1>1. TypeOK /\ PointsBack /\ Tried
  BY DEF IInv
<1>2. live' = live \ gone /\ fails' = fails /\ cur' \in Uas \cup {Null} /\ fails' \in Settings
  BY <1>1 DEF Freed, TypeOK
<1>3. live' \subseteq Uas
  BY <1>1, <1>2 DEF TypeOK
<1>4. uap' \in [Uas -> Pointers \cup {Null}]
  BY <1>1 DEF Freed, TypeOK
<1>5. app' \in [Pointers -> Uas \cup {Null}]
  BY <1>1 DEF Freed, TypeOK
<1>6. tried' \in [Uas -> Seq(Attempts)]
  <2>0. tried \in [Uas -> Seq(Attempts)]
    BY <1>1 DEF TypeOK, Attempts
  <2>1. <<>> \in Seq(Attempts)
    OBVIOUS
  <2>2. tried' = [ua \in Uas |-> IF ua \in gone THEN <<>> ELSE tried[ua]]
    BY DEF Freed
  <2>3. \A ua \in Uas : tried[ua] \in Seq(Attempts)
    BY <2>0
  <2>4. \A ua \in Uas : (IF ua \in gone THEN <<>> ELSE tried[ua]) \in Seq(Attempts)
    BY <2>1, <2>3
  <2> QED
    BY <2>2, <2>4
<1>7. \A ua \in Uas \ gone : tried'[ua] = tried[ua]
  BY DEF Freed
<1>8. PointsBack'
  <2> SUFFICES ASSUME NEW p \in Pointers, app'[p] # Null
               PROVE  app'[p] \in live' /\ uap'[app'[p]] = p
    BY DEF PointsBack
  <2>1. app'[p] = app[p] /\ ~ \E ua \in gone : uap[ua] = p
    BY DEF Freed
  <2>2. app[p] \in live /\ uap[app[p]] = p /\ app[p] \in Uas
    BY <2>1, <1>1 DEF PointsBack, TypeOK
  <2>3. app[p] \notin gone
    BY <2>1, <2>2
  <2> QED
    BY <2>1, <2>2, <2>3, <1>2 DEF Freed
<1>9. Tried'
  BY <1>1, <1>2, <1>3, <1>7 DEF Tried
<1> QED
  BY <1>2, <1>3, <1>4, <1>5, <1>6, <1>7, <1>8, <1>9

\* The list is flushed: every user agent in it is freed.
LEMMA Flushed ==
    ASSUME IInv, ual' = <<>>, Freed(ToSet(ual)), UNCHANGED lost
    PROVE  Listed' /\ AllReregistered' /\ PointsBack' /\ Tried'
<1>1. ToSet(ual) \in SUBSET Uas
  BY DEF IInv, TypeOK, Listed
<1>2. live' = live \ ToSet(ual) /\ fails' = fails /\ PointsBack' /\ Tried'
  BY <1>1, FreedKeeps
<1>3. ToSet(ual') = {} /\ IsInjective(ual')
  BY EmptyList
<1>4. Listed'
  BY <1>2, <1>3 DEF IInv, Listed
<1>5. AllReregistered'
  BY <1>3 DEF AllReregistered
<1> QED
  BY <1>2, <1>4, <1>5

LEMMA FlushedType ==
    ASSUME IInv, ual' = <<>>, Freed(ToSet(ual)),
           sip' \in BOOLEAN, UNCHANGED <<addr, laddr, lost>>
    PROVE  TypeOK'
<1>1. /\ ToSet(ual) \in SUBSET Uas /\ lost' \subseteq Uas
      /\ addr' \in Addresses /\ laddr' \in Addresses
  BY DEF IInv, TypeOK, Listed
<1>2. ual' \in Seq(Uas)
  OBVIOUS
<1>3. tried' \in [Uas -> Seq([from : Addresses, ok : BOOLEAN])]
  BY <1>1, FreedKeeps DEF Attempts
<1> QED
  BY <1>1, <1>2, <1>3, FreedKeeps DEF TypeOK, Addresses

LEMMA FlushStep ==
    ASSUME IInv, UaClose \/ UaStopAll
    PROVE  IInv'
<1>1. Freed(ToSet(ual)) /\ ual' = <<>> /\ UNCHANGED <<addr, laddr, lost>>
  BY DEF UaClose, UaStopAll
<1>2. sip' \in BOOLEAN
  BY DEF UaClose, UaStopAll, IInv, TypeOK
<1>3. TypeOK'
  BY <1>1, <1>2, FlushedType
<1> QED
  BY <1>1, <1>3, Flushed DEF IInv

LEMMA UaFreeStep ==
    ASSUME IInv, NEW p \in Pointers, UaFree(p)
    PROVE  IInv'
<1>1. TypeOK /\ Listed /\ AllReregistered
  BY DEF IInv
<1>2. PICK i \in DOMAIN ual : ual[i] = app[p] /\ ual' = RemoveAt(ual, i)
  BY DEF UaFree
<1>3. i \in 1..Len(ual) /\ ual \in Seq(Uas) /\ IsInjective(ual)
  BY <1>1, <1>2 DEF TypeOK, Listed
<1>4. ual' \in Seq(Uas)
  BY <1>2, <1>3, RemovedLength
<1>5. IsInjective(ual') /\ ToSet(ual') = ToSet(ual) \ {app[p]}
  BY <1>2, <1>3, RemovedFacts
<1>6. {app[p]} \in SUBSET Uas /\ Freed({app[p]}) /\ UNCHANGED <<sip, addr, laddr, lost>>
  BY <1>2, <1>3 DEF UaFree
<1>7. /\ live' = live \ {app[p]} /\ fails' = fails
      /\ \A ua \in Uas \ {app[p]} : tried'[ua] = tried[ua]
      /\ PointsBack' /\ Tried'
  BY <1>6, FreedKeeps
<1>8. TypeOK'
  <2>1. tried' \in [Uas -> Seq([from : Addresses, ok : BOOLEAN])]
    BY <1>6, FreedKeeps DEF Attempts
  <2>2. sip' \in BOOLEAN /\ addr' \in Addresses /\ laddr' \in Addresses /\ lost' \subseteq Uas
    BY <1>1, <1>6 DEF TypeOK
  <2> QED
    BY <1>4, <1>6, <2>1, <2>2, FreedKeeps DEF TypeOK
<1>9. Listed'
  <2>1. app[p] \in ToSet(ual) /\ app[p] \notin lost
    BY <1>1, <1>2 DEF Listed, ToSet
  <2> QED
    BY <2>1, <1>1, <1>5, <1>6, <1>7 DEF Listed
<1>10. AllReregistered'
  <2>1. \A ua \in ToSet(ual') : ua \in Uas \ {app[p]} /\ ua \in ToSet(ual)
    BY <1>1, <1>5 DEF Listed, TypeOK
  <2> QED
    BY <2>1, <1>1, <1>6, <1>7, ZenonT(40) DEF AllReregistered
<1> QED
  BY <1>7, <1>8, <1>9, <1>10 DEF IInv

-----------------------------------------------------------------------------
LEMMA UaInitStep ==
    ASSUME IInv, UaInit
    PROVE  IInv'
<1>1. TypeOK /\ Listed /\ PointsBack /\ Tried
  BY DEF IInv
<1>2. /\ ual' = <<>> /\ laddr' = addr /\ lost' = lost \cup ToSet(ual)
      /\ sip' \in BOOLEAN
      /\ UNCHANGED <<fails, live, uap, app, cur, addr, tried>>
  BY DEF UaInit
<1>3. ToSet(ual') = {} /\ IsInjective(ual') /\ ual' \in Seq(Uas)
  BY <1>2, EmptyList
<1>4. TypeOK'
  BY <1>1, <1>2, <1>3 DEF TypeOK, Listed
<1>5. Listed'
  BY <1>1, <1>2, <1>3 DEF Listed
<1>6. AllReregistered'
  BY <1>3 DEF AllReregistered
<1>7. PointsBack' /\ Tried'
  BY <1>1, <1>2 DEF PointsBack, Tried
<1> QED
  BY <1>4, <1>5, <1>6, <1>7 DEF IInv

LEMMA UaAllocStep ==
    ASSUME IInv, NEW ua \in Uas, NEW p \in Pointers, UaAlloc(ua, p)
    PROVE  IInv'
<1>1. TypeOK /\ Listed /\ PointsBack /\ Tried /\ AllReregistered
  BY DEF IInv
<1>2. ua \notin live /\ UNCHANGED <<fails, sip, addr, laddr, lost>>
  BY DEF UaAlloc
<1>3. cur' \in Uas \cup {Null}
  BY <1>1 DEF UaAlloc, TypeOK
<1>4. ual \in Seq(Uas) /\ RemoveAt(Append(ual, ua), Len(Append(ual, ua))) = ual
  BY <1>1, AppendedRemoved DEF TypeOK
<1>5. CASE UNCHANGED <<ual, live, uap, app, tried>>
  <2>1. TypeOK' /\ Listed'
    BY <1>1, <1>2, <1>3, <1>5 DEF TypeOK, Listed
  <2>2. PointsBack' /\ Tried' /\ AllReregistered'
    BY <1>1, <1>2, <1>5 DEF PointsBack, Tried, AllReregistered
  <2> QED
    BY <2>1, <2>2 DEF IInv
<1>6. CASE /\ ual' = Append(ual, ua)
           /\ live' = live \cup {ua}
           /\ uap' = [uap EXCEPT ![ua] = p]
           /\ app' = [app EXCEPT ![p] = ua]
           /\ tried' = [tried EXCEPT ![ua] = UaRegister(ua, laddr, AllSucceed)]
  <2>1. ual \in Seq(Uas) /\ IsInjective(ual) /\ ua \notin ToSet(ual)
    BY <1>1, <1>2 DEF TypeOK, Listed
  <2>2. ual' \in Seq(Uas) /\ IsInjective(ual') /\ ToSet(ual') = ToSet(ual) \cup {ua}
    BY <2>1, <1>6, AppendedFacts
  <2>3. Listed'
    BY <2>2, <1>1, <1>2, <1>6 DEF Listed
  <2>4. laddr \in Addresses /\ AllSucceed \in {1, 2, 3} /\ AllSucceed > Flows[ua]
    <3>1. Flows[ua] \in 0..2
      BY UserAgentsAssumption
    <3> QED
      BY <3>1, <1>1 DEF TypeOK, AllSucceed
  <2> DEFINE r == UaRegister(ua, laddr, AllSucceed)
  <2>5. /\ r \in Seq(Attempts) /\ DOMAIN r = 1..Flows[ua]
        /\ \A i \in 1..Flows[ua] : r[i].from = laddr \/ AllSucceed \in 1..(i - 1)
    BY <2>4, Registered
  <2>6. \A i \in 1..Flows[ua] : r[i].from = laddr
    BY <2>5, UserAgentsAssumption DEF AllSucceed
  <2> HIDE DEF r
  <2>7. tried \in [Uas -> Seq([from : Addresses, ok : BOOLEAN])]
    BY <1>1 DEF TypeOK
  <2>8. tried' \in [Uas -> Seq([from : Addresses, ok : BOOLEAN])]
    <3>1. tried \in [Uas -> Seq(Attempts)]
      BY <2>7 DEF Attempts
    <3> HIDE DEF Attempts
    <3>2. tried' \in [Uas -> Seq(Attempts)]
      BY <3>1, <2>5, <1>6 DEF r
    <3> QED
      BY <3>2 DEF Attempts
  <2>9. /\ uap' \in [Uas -> Pointers \cup {Null}]
        /\ app' \in [Pointers -> Uas \cup {Null}]
        /\ live' \subseteq Uas
    BY <1>1, <1>6 DEF TypeOK
  <2>10. TypeOK'
    BY <1>1, <1>2, <1>3, <2>2, <2>8, <2>9 DEF TypeOK
  <2>11. tried'[ua] = r /\ \A v \in Uas \ {ua} : tried'[v] = tried[v]
    BY <2>7, <1>6 DEF r
  <2>12. Tried'
    BY <2>5, <2>11, <1>1, <1>6 DEF Tried, TypeOK
  <2>13. AllReregistered'
    <3> SUFFICES ASSUME "transport" \notin fails, NEW v \in ToSet(ual'),
                        NEW i \in DOMAIN tried'[v]
                 PROVE  \/ tried'[v][i].from = laddr'
                        \/ \E j \in 1..(i - 1) : tried'[v][j] = Attempt(laddr', FALSE)
      BY <1>2 DEF AllReregistered
    <3>1. CASE v = ua
      BY <3>1, <2>5, <2>6, <2>11, <1>2
    <3>2. CASE v # ua
      <4>1. v \in ToSet(ual) /\ v \in Uas
        BY <3>2, <2>2, <1>1 DEF Listed, TypeOK
      <4>2. tried'[v] = tried[v] /\ laddr' = laddr
        BY <4>1, <3>2, <2>11, <1>2
      <4> QED
        BY <4>1, <4>2, <1>1 DEF AllReregistered
    <3> QED
      BY <3>1, <3>2
  <2>14. PointsBack'
    <3> SUFFICES ASSUME NEW q \in Pointers, app'[q] # Null
                 PROVE  app'[q] \in live' /\ uap'[app'[q]] = q
      BY DEF PointsBack
    <3>1. CASE q = p
      BY <3>1, <1>1, <1>6 DEF TypeOK
    <3>2. CASE q # p
      <4>1. app'[q] = app[q] /\ app[q] \in live /\ uap[app[q]] = q /\ app[q] # ua
        BY <3>2, <1>1, <1>2, <1>6 DEF PointsBack, TypeOK
      <4> QED
        BY <4>1, <1>1, <1>6 DEF TypeOK
    <3> QED
      BY <3>1, <3>2
  <2> QED
    BY <2>3, <2>10, <2>12, <2>13, <2>14 DEF IInv
<1> QED
  BY <1>4, <1>5, <1>6 DEF UaAlloc

LEMMA UagCurrentSetStep ==
    ASSUME IInv, NEW p \in Pointers, UagCurrentSet(p)
    PROVE  IInv'
<1>1. TypeOK /\ Listed /\ PointsBack /\ Tried /\ AllReregistered
  BY DEF IInv
<1>2. cur' = app[p] /\ app[p] \in Uas \cup {Null}
      /\ UNCHANGED <<fails, sip, ual, live, lost, uap, app, addr, laddr, tried>>
  BY <1>1 DEF UagCurrentSet, TypeOK
<1>3. TypeOK' /\ Listed'
  BY <1>1, <1>2 DEF TypeOK, Listed
<1>4. PointsBack' /\ Tried' /\ AllReregistered'
  BY <1>1, <1>2 DEF PointsBack, Tried, AllReregistered
<1> QED
  BY <1>3, <1>4 DEF IInv

LEMMA AddressChangesStep ==
    ASSUME IInv, AddressChanges
    PROVE  IInv'
<1>1. TypeOK /\ Listed /\ PointsBack /\ Tried /\ AllReregistered
  BY DEF IInv
<1>2. /\ addr' = addr + 1 /\ addr < MaxAddr
      /\ UNCHANGED <<fails, sip, ual, live, lost, uap, app, cur, laddr, tried>>
  BY DEF AddressChanges
<1>3. addr' \in Addresses
  BY <1>1, <1>2, UserAgentsAssumption DEF TypeOK, Addresses
<1>4. TypeOK' /\ Listed'
  BY <1>1, <1>2, <1>3 DEF TypeOK, Listed
<1>5. PointsBack' /\ Tried' /\ AllReregistered'
  BY <1>1, <1>2 DEF PointsBack, Tried, AllReregistered
<1> QED
  BY <1>4, <1>5 DEF IInv

LEMMA NetChangeStep ==
    ASSUME IInv, NetChange
    PROVE  IInv'
<1>1. TypeOK /\ Listed /\ PointsBack /\ Tried /\ AllReregistered
  BY DEF IInv
<1>2. laddr' = addr /\ UNCHANGED <<fails, sip, ual, live, lost, uap, app, cur, addr>>
  BY DEF NetChange
<1>3. addr \in Addresses
  BY <1>1 DEF TypeOK
<1>4. Listed' /\ PointsBack'
  BY <1>1, <1>2 DEF Listed, PointsBack
<1>5. tried \in [Uas -> Seq(Attempts)]
  BY <1>1 DEF TypeOK, Attempts
<1>6. CASE Reregister
  <2>1. PICK n \in [Uas -> FirstFailures] :
           tried' = [ua \in Uas |-> IF ua \in ToSet(ual)
                                    THEN UaRegister(ua, addr, n[ua]) ELSE tried[ua]]
    BY <1>6 DEF Reregister
  <2>2. \A ua \in Uas : n[ua] \in {1, 2, 3}
    BY DEF FirstFailures, AllSucceed
  <2>3. \A ua \in ToSet(ual) : ua \in Uas /\ ua \in live
    BY <1>1 DEF Listed, TypeOK
  <2>4. ASSUME NEW ua \in ToSet(ual)
        PROVE  /\ tried'[ua] \in Seq(Attempts)
               /\ DOMAIN tried'[ua] = 1..Flows[ua]
               /\ \A i \in 1..Flows[ua] :
                     \/ tried'[ua][i].from = addr
                     \/ \E j \in 1..(i - 1) : tried'[ua][j] = Attempt(addr, FALSE)
    <3>1. tried'[ua] = UaRegister(ua, addr, n[ua])
      BY <2>1, <2>3
    <3>2. /\ ua \in Uas /\ n[ua] \in {1, 2, 3}
          /\ tried[ua] \in Seq(Attempts) /\ DOMAIN tried[ua] = 1..Flows[ua]
      BY <2>2, <2>3, <1>1, <1>5 DEF Tried
    <3> DEFINE r == UaRegister(ua, addr, n[ua])
    <3>3. /\ r \in Seq(Attempts) /\ DOMAIN r = 1..Flows[ua]
          /\ \A i \in 1..Flows[ua] :
                \/ r[i].from = addr
                \/ n[ua] \in 1..(i - 1) /\ r[n[ua]] = Attempt(addr, FALSE)
      BY <3>2, <1>3, Registered
    <3> HIDE DEF r
    <3> QED
      BY <3>1, <3>3 DEF r
  <2>5. tried' \in [Uas -> Seq(Attempts)]
    <3> HIDE DEF Attempts
    <3>1. ASSUME NEW ua \in Uas
          PROVE  (IF ua \in ToSet(ual) THEN UaRegister(ua, addr, n[ua]) ELSE tried[ua])
                    \in Seq(Attempts)
      <4>1. CASE ua \in ToSet(ual)
        BY <4>1, <2>1, <2>4
      <4>2. CASE ua \notin ToSet(ual)
        BY <4>2, <1>5
      <4> QED
        BY <4>1, <4>2
    <3> QED
      BY <3>1, <2>1
  <2>6. \A ua \in Uas : ua \notin ToSet(ual) => tried'[ua] = tried[ua]
    BY <2>1
  <2>7. Tried'
    <3> SUFFICES ASSUME NEW ua \in live' PROVE DOMAIN tried'[ua] = 1..Flows[ua]
      BY DEF Tried
    <3>1. ua \in Uas /\ ua \in live
      BY <1>1, <1>2 DEF TypeOK
    <3> QED
      BY <3>1, <2>4, <2>6, <1>1 DEF Tried
  <2>8. AllReregistered'
    <3> SUFFICES ASSUME NEW ua \in ToSet(ual), NEW i \in DOMAIN tried'[ua]
                 PROVE  \/ tried'[ua][i].from = addr
                        \/ \E j \in 1..(i - 1) : tried'[ua][j] = Attempt(addr, FALSE)
      BY <1>2 DEF AllReregistered
    <3> QED
      BY <2>4
  <2>9. tried' \in [Uas -> Seq([from : Addresses, ok : BOOLEAN])]
    BY <2>5 DEF Attempts
  <2>10. TypeOK'
    BY <1>1, <1>2, <2>9 DEF TypeOK
  <2> QED
    BY <2>7, <2>8, <2>10, <1>4 DEF IInv
<1>7. CASE "transport" \in fails /\ UNCHANGED tried
  <2>1. TypeOK'
    BY <1>1, <1>2, <1>7 DEF TypeOK
  <2>2. Tried' /\ AllReregistered'
    BY <1>1, <1>2, <1>7 DEF Tried, AllReregistered
  <2> QED
    BY <2>1, <2>2, <1>4 DEF IInv
<1> QED
  BY <1>6, <1>7 DEF NetChange

LEMMA StepInv == IInv /\ [Next]_vars => IInv'
<1> SUFFICES ASSUME IInv, [Next]_vars PROVE IInv'
  OBVIOUS
<1>1. CASE UNCHANGED vars
  <2>1. TypeOK /\ Listed /\ PointsBack /\ Tried /\ AllReregistered
    BY DEF IInv
  <2>2. UNCHANGED <<fails, sip, ual, live, lost, uap, app, cur, addr, laddr, tried>>
    BY <1>1 DEF vars
  <2>3. TypeOK' /\ Listed'
    BY <2>1, <2>2 DEF TypeOK, Listed
  <2>4. PointsBack' /\ Tried' /\ AllReregistered'
    BY <2>1, <2>2 DEF PointsBack, Tried, AllReregistered
  <2> QED
    BY <2>3, <2>4 DEF IInv
<1>2. CASE UaInit \/ UaClose \/ UaStopAll
  BY <1>2, UaInitStep, FlushStep
<1>3. ASSUME NEW ua \in Uas, NEW p \in Pointers, UaAlloc(ua, p)
      PROVE  IInv'
  BY <1>3, UaAllocStep
<1>4. ASSUME NEW p \in Pointers, UaFree(p) \/ UagCurrentSet(p)
      PROVE  IInv'
  BY <1>4, UaFreeStep, UagCurrentSetStep
<1>5. CASE AddressChanges \/ NetChange
  BY <1>5, AddressChangesStep, NetChangeStep
<1> QED
  BY <1>1, <1>2, <1>3, <1>4, <1>5 DEF Next

LEMMA Invariance == Spec => []IInv
<1> QED
  BY InitInv, StepInv, PTL DEF Spec

-----------------------------------------------------------------------------
(***************************************************************************)
(* The variables keep their types.                                         *)
(***************************************************************************)
THEOREM TypeCorrect == Spec => []TypeOK
<1>1. IInv => TypeOK
  BY DEF IInv
<1> QED
  BY <1>1, Invariance, PTL

(***************************************************************************)
(* uag.ual holds every live user agent once, but for those that a ua_init  *)
(* has dropped, and nothing that was freed (ua_alloc, ua_destructor).      *)
(***************************************************************************)
THEOREM ListIsExact == Spec => []ListExact
<1>1. IInv => ListExact
  BY DEF IInv, Listed, ListExact
<1> QED
  BY <1>1, Invariance, PTL

(***************************************************************************)
(* No variable of the application points to a user agent that was freed.   *)
(***************************************************************************)
THEOREM NoneDangles == Spec => []PointersLive
<1>1. IInv => PointersLive
  BY DEF IInv, PointsBack, PointersLive
<1> QED
  BY <1>1, Invariance, PTL

(***************************************************************************)
(* After a change of the IP address every register client has tried from   *)
(* the new one, or one before it in the same user agent has failed to.     *)
(***************************************************************************)
THEOREM Reregistered == Spec => []AllReregistered
<1>1. IInv => AllReregistered
  BY DEF IInv
<1> QED
  BY <1>1, Invariance, PTL
=============================================================================
