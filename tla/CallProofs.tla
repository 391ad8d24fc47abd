------------------------------ MODULE CallProofs ------------------------------
(***************************************************************************)
(* Proofs about Call.tla, for any number of calls and notifiers.           *)
(***************************************************************************)
EXTENDS CallProperties, FiniteSetTheorems, SequenceTheorems, TLAPS

(***************************************************************************)
(* mem_deref, the NOTIFY of libre and the freeing of a call as functions   *)
(* of the notifiers: what they do to the types and to the references.      *)
(***************************************************************************)
SubsType == [Notifiers -> Notifier]

LEMMA NotifyFacts ==
    ASSUME NEW sb \in SubsType, NEW n \in Notifiers \cup {Null},
           NEW o \in {"ok", "failed", "ended"}
    PROVE  /\ Notify(sb, n, o) \in SubsType
           /\ \A m \in Notifiers : Notify(sb, n, o)[m].refs = sb[m].refs
BY CallAssumption DEF Notify, SubsType, Notifier

LEMMA DerefFacts ==
    ASSUME NEW sb \in SubsType, NEW n \in Notifiers \cup {Null},
           n # Null => sb[n].refs > 0
    PROVE  /\ Deref(sb, n) \in SubsType
           /\ \A m \in Notifiers :
                Deref(sb, n)[m].refs = IF m = n THEN sb[m].refs - 1 ELSE sb[m].refs
<1>1. CASE n = Null
  BY <1>1, CallAssumption DEF Deref
<1>2. CASE n # Null /\ sb[n].refs > 1
  BY <1>2 DEF Deref, SubsType, Notifier
<1>3. CASE n # Null /\ ~(sb[n].refs > 1)
  <2> DEFINE nb == Notify(sb, n, "ended")
  <2>1. nb \in SubsType /\ \A m \in Notifiers : nb[m].refs = sb[m].refs
    BY NotifyFacts
  <2>2. Deref(sb, n) = [nb EXCEPT ![n].refs = @ - 1, ![n].owner = Null]
    BY <1>3 DEF Deref
  <2>3. nb[n].refs \in Nat /\ nb[n].refs > 0
    BY <2>1, <1>3 DEF SubsType, Notifier
  <2> HIDE DEF nb
  <2> QED
    BY <2>1, <2>2, <2>3, <1>3 DEF SubsType, Notifier
<1> QED
  BY <1>1, <1>2, <1>3

LEMMA DangleFacts ==
    ASSUME NEW sb \in SubsType, NEW c \in Calls
    PROVE  /\ Dangle(sb, c) \in SubsType
           /\ \A m \in Notifiers : Dangle(sb, c)[m].refs = sb[m].refs
BY DEF Dangle, SubsType, Notifier

(***************************************************************************)
(* list_unlink removes the one occurrence of a call.                       *)
(***************************************************************************)
NoRepeat(s) == \A i, j \in DOMAIN s : s[i] = s[j] => i = j
Elements(s) == {s[i] : i \in DOMAIN s}

LEMMA UnlinkFacts ==
    ASSUME NEW s \in Seq(Calls), NEW c, NoRepeat(s)
    PROVE  /\ Unlink(s, c) \in Seq(Calls)
           /\ NoRepeat(Unlink(s, c))
           /\ Elements(Unlink(s, c)) = Elements(s) \ {c}
<1>1. CASE ~\E i \in DOMAIN s : s[i] = c
  BY <1>1 DEF Unlink, Elements
<1>2. CASE \E i \in DOMAIN s : s[i] = c
  <2> DEFINE k == CHOOSE i \in DOMAIN s : s[i] = c
             t == SubSeq(s, 1, k - 1)
             u == SubSeq(s, k + 1, Len(s))
  <2>1. k \in 1..Len(s) /\ s[k] = c
    BY <1>2
  <2>2. Unlink(s, c) = t \o u
    BY <1>2 DEF Unlink, RemoveAt
  <2> HIDE DEF k
  <2>3. /\ t \in Seq(Calls) /\ Len(t) = k - 1
        /\ \A i \in 1..(k - 1) : t[i] = s[i]
    BY <2>1
  <2>4. /\ u \in Seq(Calls) /\ Len(u) = Len(s) - k
        /\ \A i \in 1..(Len(s) - k) : u[i] = s[k + i]
    BY <2>1
  <2> HIDE DEF t, u
  <2>5. /\ t \o u \in Seq(Calls) /\ Len(t \o u) = Len(s) - 1
        /\ \A i \in 1..(Len(s) - 1) :
             (t \o u)[i] = IF i < k THEN s[i] ELSE s[i + 1]
    <3>1. t \o u \in Seq(Calls) /\ Len(t \o u) = Len(t) + Len(u)
      BY <2>3, <2>4, ConcatProperties
    <3>2. ASSUME NEW i \in 1..(Len(s) - 1)
          PROVE  (t \o u)[i] = IF i < k THEN s[i] ELSE s[i + 1]
      <4>1. CASE i < k
        BY <4>1, <2>1, <2>3, <2>4, ConcatProperties
      <4>2. CASE ~(i < k)
        <5>1. (t \o u)[i] = u[i - (k - 1)]
          BY <4>2, <2>1, <2>3, <2>4, ConcatProperties
        <5>2. i - (k - 1) \in 1..(Len(s) - k) /\ k + (i - (k - 1)) = i + 1
          BY <4>2, <2>1
        <5> QED
          BY <5>1, <5>2, <2>4, <4>2, <2>1
      <4> QED
        BY <4>1, <4>2
    <3>3. Len(t) + Len(u) = Len(s) - 1
      BY <2>1, <2>3, <2>4
    <3> QED
      BY <3>1, <3>2, <3>3
  <2> DEFINE w == t \o u
  <2>6. DOMAIN w = 1..(Len(s) - 1)
    BY <2>5
  <2> HIDE DEF w
  <2>a. \A i \in 1..(Len(s) - 1) : w[i] = IF i < k THEN s[i] ELSE s[i + 1]
    BY <2>5 DEF w
  <2>b. \A i, j \in 1..Len(s) : s[i] = s[j] => i = j
    BY DEF NoRepeat
  <2>7. NoRepeat(w)
    BY <2>1, <2>a, <2>b, <2>6 DEF NoRepeat
  <2>8. Elements(w) \subseteq Elements(s) \ {c}
    <3> SUFFICES ASSUME NEW i \in 1..(Len(s) - 1)
                 PROVE  w[i] \in Elements(s) \ {c}
      BY <2>6 DEF Elements
    <3>1. CASE i < k
      BY <3>1, <2>1, <2>a, <2>b DEF Elements
    <3>2. CASE i >= k
      <4>1. i + 1 \in 1..Len(s) /\ i + 1 # k /\ w[i] = s[i + 1]
        BY <3>2, <2>1, <2>a
      <4> QED
        BY <4>1, <2>1, <2>b DEF Elements
    <3> QED
      BY <3>1, <3>2, <2>1
  <2>9. Elements(s) \ {c} \subseteq Elements(w)
    <3> SUFFICES ASSUME NEW i \in 1..Len(s), s[i] # c
                 PROVE  \E j \in DOMAIN w : w[j] = s[i]
      BY DEF Elements
    <3>1. CASE i < k
      BY <3>1, <2>1, <2>a, <2>6
    <3>2. CASE i > k
      <4>1. i - 1 \in DOMAIN w /\ w[i - 1] = s[i]
        BY <3>2, <2>1, <2>a, <2>6
      <4> QED
        BY <4>1
    <3> QED
      BY <3>1, <3>2, <2>1
  <2> QED
    BY <2>2, <2>5, <2>7, <2>8, <2>9 DEF w
<1> QED
  BY <1>1, <1>2

LEMMA AppendFacts ==
    ASSUME NEW s \in Seq(Calls), NEW c \in Calls, NoRepeat(s), c \notin Elements(s)
    PROVE  /\ Append(s, c) \in Seq(Calls)
           /\ NoRepeat(Append(s, c))
           /\ Elements(Append(s, c)) = Elements(s) \cup {c}
<1> DEFINE w == Append(s, c)
<1>1. /\ w \in Seq(Calls) /\ DOMAIN w = 1..(Len(s) + 1)
      /\ w[Len(s) + 1] = c /\ \A i \in 1..Len(s) : w[i] = s[i]
  OBVIOUS
<1> HIDE DEF w
<1>2. NoRepeat(w)
  BY <1>1 DEF NoRepeat, Elements
<1>3. Elements(w) = Elements(s) \cup {c}
  BY <1>1 DEF Elements
<1> QED
  BY <1>1, <1>2, <1>3 DEF w

(***************************************************************************)
(* References.  A call that lets go of its notifier takes one reference    *)
(* away from it; a step that moves no pointer leaves the count right.      *)
(***************************************************************************)
Pointers(cl, n) == {c \in Calls : cl[c].not = n}

RefsOf(cl, sb) ==
    \A n \in Notifiers : sb[n].refs = Cardinality(Pointers(cl, n))

LEMMA PointersFinite ==
    ASSUME NEW cl, NEW n
    PROVE  IsFiniteSet(Pointers(cl, n))
BY CallAssumption, FS_Subset DEF Pointers

LEMMA HeldPositive ==
    ASSUME NEW cl \in [Calls -> CallObject], NEW sb \in SubsType, RefsOf(cl, sb),
           NEW c \in Calls, cl[c].not # Null
    PROVE  cl[c].not \in Notifiers /\ sb[cl[c].not].refs > 0
<1> DEFINE n == cl[c].not
<1>1. n \in Notifiers
  BY DEF CallObject
<1>2. c \in Pointers(cl, n)
  BY DEF Pointers
<1>3. Cardinality(Pointers(cl, n)) # 0
  BY <1>2, PointersFinite, FS_EmptySet
<1> HIDE DEF n
<1>4. sb[n].refs \in Nat /\ sb[n].refs = Cardinality(Pointers(cl, n))
  BY <1>1 DEF RefsOf, SubsType, Notifier
<1> QED
  BY <1>1, <1>3, <1>4 DEF n

LEMMA Release ==
    ASSUME NEW cl \in [Calls -> CallObject], NEW cl2 \in [Calls -> CallObject],
           NEW sb \in SubsType, RefsOf(cl, sb), NEW c \in Calls,
           cl2[c].not = Null, \A d \in Calls \ {c} : cl2[d].not = cl[d].not
    PROVE  Deref(sb, cl[c].not) \in SubsType /\ RefsOf(cl2, Deref(sb, cl[c].not))
<1> DEFINE m == cl[c].not
<1>1. m \in Notifiers \cup {Null} /\ (m # Null => sb[m].refs > 0)
  BY HeldPositive DEF CallObject
<1>2. /\ Deref(sb, m) \in SubsType
      /\ \A n \in Notifiers :
           Deref(sb, m)[n].refs = IF n = m THEN sb[n].refs - 1 ELSE sb[n].refs
  BY <1>1, DerefFacts
<1>3. ASSUME NEW n \in Notifiers
      PROVE  Deref(sb, m)[n].refs = Cardinality(Pointers(cl2, n))
  <2>1. n # Null
    BY CallAssumption
  <2>2. Pointers(cl2, n) = Pointers(cl, n) \ {c}
    BY <2>1 DEF Pointers
  <2>3. Cardinality(Pointers(cl2, n)) =
          IF c \in Pointers(cl, n) THEN Cardinality(Pointers(cl, n)) - 1
                                   ELSE Cardinality(Pointers(cl, n))
    BY <2>2, PointersFinite, FS_RemoveElement
  <2>4. c \in Pointers(cl, n) <=> n = m
    BY DEF Pointers
  <2>5. sb[n].refs = Cardinality(Pointers(cl, n))
    BY DEF RefsOf
  <2> QED
    BY <1>2, <2>3, <2>4, <2>5
<1> QED
  BY <1>2, <1>3 DEF RefsOf

LEMMA KeepRefs ==
    ASSUME NEW cl, NEW cl2, NEW sb, NEW sb2, RefsOf(cl, sb),
           \A c \in Calls : cl2[c].not = cl[c].not,
           \A n \in Notifiers : sb2[n].refs = sb[n].refs
    PROVE  RefsOf(cl2, sb2)
<1>1. \A n : Pointers(cl2, n) = Pointers(cl, n)
  BY DEF Pointers
<1> QED
  BY <1>1 DEF RefsOf

(***************************************************************************)
(* The inductive invariant.  To the properties it adds that a freed call   *)
(* holds no pointer, and how the state of a call follows its session.      *)
(***************************************************************************)
FreeClean == \A c \in Calls \ Live : call[c] = FreeCall

SessionState ==
    \A c \in Calls :
        /\ sess[c] = "inviting" =>
              call[c].state \in {"OUTGOING", "RINGING", "EARLY"}
        /\ sess[c] \in {"ringing", "answered"} => call[c].state = "INCOMING"
        /\ sess[c] = "up" => call[c].state = "ESTABLISHED"

IInv ==
    /\ Typed
    /\ HandlersGone
    /\ Counted
    /\ FreeClean
    /\ SessionState
    /\ Timed

LEMMA InitInv == Init => IInv
<1> SUFFICES ASSUME Init PROVE IInv
  OBVIOUS
<1> USE DEF Init
<1>1. Typed
  BY DEF Typed, FreeCall, CallObject, States, Session, Tones, Notifier
<1>2. Live = {}
  BY DEF Live, FreeCall
<1>3. HandlersGone
  BY <1>2 DEF HandlersGone, Listed
<1>4. Counted
  <2>1. \A n \in Notifiers : {c \in Calls : call[c].not = n} = {}
    BY CallAssumption DEF FreeCall
  <2> QED
    BY <2>1, FS_EmptySet DEF Counted
<1>5. FreeClean /\ SessionState /\ Timed
  BY DEF FreeClean, SessionState, Timed, FreeCall
<1> QED
  BY <1>1, <1>3, <1>4, <1>5 DEF IInv

(***************************************************************************)
(* A step that ends call c keeps the invariant, whatever it told the peer  *)
(* (sb) before: this is the CLOSED event, a hangup and a failed transfer.  *)
(***************************************************************************)
LEMMA DestructorStep ==
    ASSUME IInv, NEW c \in Live, NEW sb \in SubsType,
           \A n \in Notifiers : sb[n].refs = subs[n].refs,
           Destructor(c, sb), play' \in Tones
    PROVE  IInv'
<1> DEFINE n == call[c].not
<1>1. c \in Calls /\ call \in [Calls -> CallObject] /\ list \in Seq(Calls)
  BY DEF IInv, Typed, Live
<1>2. call' \in [Calls -> CallObject] /\ call'[c] = FreeCall
      /\ \A d \in Calls \ {c} : call'[d] = call[d]
  BY <1>1 DEF Destructor, FreeCall, CallObject, States
<1>3. Live' = Live \ {c}
  BY <1>1, <1>2 DEF Live, FreeCall
<1>4. Deref(sb, n) \in SubsType /\ RefsOf(call', Deref(sb, n))
  <2>1. RefsOf(call, sb)
    BY DEF IInv, Counted, RefsOf, Pointers
  <2> QED
    BY <1>1, <1>2, <2>1, Release DEF FreeCall
<1>5. subs' \in SubsType /\ RefsOf(call', subs')
  <2>1. subs' = Dangle(Deref(sb, n), c)
    BY DEF Destructor
  <2>2. /\ Dangle(Deref(sb, n), c) \in SubsType
        /\ \A m \in Notifiers : Dangle(Deref(sb, n), c)[m].refs = Deref(sb, n)[m].refs
    BY <1>1, <1>4, DangleFacts
  <2> HIDE DEF n
  <2> QED
    BY <1>4, <2>1, <2>2, KeepRefs
<1>6. list' \in Seq(Calls) /\ NoRepeat(list') /\ Elements(list') = Elements(list) \ {c}
  <2>1. NoRepeat(list)
    BY DEF IInv, HandlersGone, Listed, NoRepeat
  <2> QED
    BY <1>1, <2>1, UnlinkFacts DEF Destructor
<1>7. Typed'
  BY <1>1, <1>2, <1>5, <1>6 DEF IInv, Typed, Destructor, SubsType, Session
<1>8. HandlersGone'
  <2>1. Listed'
    BY <1>3, <1>6 DEF IInv, HandlersGone, Listed, NoRepeat, Elements
  <2>2. {d \in Calls : sess'[d] # "none"} = {d \in Calls : sess[d] # "none"} \ {c}
    BY <1>1 DEF IInv, Typed, Destructor
  <2>3. (tmrInv \cup mnat \cup subscr \cup {d \in Calls : sess[d] # "none"}) \subseteq Live
    BY DEF IInv, HandlersGone
  <2> QED
    BY <1>3, <2>1, <2>2, <2>3 DEF HandlersGone, Destructor
<1>9. Counted'
  BY <1>5 DEF Counted, RefsOf, Pointers
<1>10. FreeClean'
  BY <1>2, <1>3 DEF IInv, FreeClean
<1>11. SessionState'
  BY <1>1, <1>2 DEF IInv, Typed, SessionState, Destructor
<1>12. Timed'
  BY <1>1, <1>2 DEF IInv, Timed, Destructor, FreeCall
<1> QED
  BY <1>7, <1>8, <1>9, <1>10, <1>11, <1>12 DEF IInv

(***************************************************************************)
(* What the event CALL_EVENT_INCOMING may do, in every answer mode.        *)
(***************************************************************************)
LEMMA IncomingFacts ==
    ASSUME Typed, NEW c \in Calls, NEW r \in CallObject, NEW t \in SUBSET Calls,
           NEW s \in Session, IncomingEvent(c, r, t, s)
    PROVE  /\ call' \in [Calls -> CallObject]
           /\ call'[c].state = r.state /\ call'[c].not = r.not
           /\ \A d \in Calls \ {c} : call'[d] = call[d] /\ sess'[d] = sess[d]
           /\ tmrInv' \subseteq t
           /\ AnswerMode = "EARLY" \/ tmrInv' = t
           /\ sess' \in [Calls -> Session]
           /\ sess'[c] = s \/ (s = "ringing" /\ sess'[c] = "answered")
           /\ t \ {c} \subseteq tmrInv'
           /\ play' \in Tones
           /\ view' \in [Calls -> {"idle", "alerted", "up"}]
<1> USE DEF Typed, CallObject, Session, Tones
<1>1. CASE AlertUser(c, r, t, s)
  BY <1>1 DEF AlertUser
<1>2. CASE CallProgress(c, r, t, s)
  <2>1. \E m \in {"off", "on"} : call' = [call EXCEPT ![c] = [r EXCEPT !.media = m]]
    <3>1. r.media \in {"off", "on"} /\ r = [r EXCEPT !.media = r.media]
      OBVIOUS
    <3> QED
      BY <1>2, <3>1 DEF CallProgress
  <2>2. PICK m \in {"off", "on"} : call' = [call EXCEPT ![c] = [r EXCEPT !.media = m]]
    BY <2>1
  <2>3. [r EXCEPT !.media = m] \in CallObject
    OBVIOUS
  <2>4. /\ call' \in [Calls -> CallObject] /\ call'[c].state = r.state
        /\ call'[c].not = r.not /\ \A d \in Calls \ {c} : call'[d] = call[d]
    BY <2>2, <2>3
  <2>5. AnswerMode = "EARLY" /\ tmrInv' = t \ {c} /\ sess' = [sess EXCEPT ![c] = s]
        /\ play' = "none" /\ view' = view
    BY <1>2 DEF CallProgress
  <2> QED
    BY <2>4, <2>5
<1>3. CASE AutoAnswer(c, r, t, s)
  <2>1. PICK m \in {r.media, "on"} : call' = [call EXCEPT ![c] = [r EXCEPT !.media = m]]
    BY <1>3 DEF AutoAnswer
  <2>2. [r EXCEPT !.media = m] \in CallObject
    OBVIOUS
  <2>3. /\ call' \in [Calls -> CallObject] /\ call'[c].state = r.state
        /\ call'[c].not = r.not /\ \A d \in Calls \ {c} : call'[d] = call[d]
    BY <2>1, <2>2
  <2>4. tmrInv' = t /\ play' = "none" /\ view' = view
    BY <1>3 DEF AutoAnswer
  <2>5. \/ sess' = [sess EXCEPT ![c] = s]
        \/ s = "ringing" /\ sess' = [sess EXCEPT ![c] = "answered"]
    BY <1>3 DEF AutoAnswer
  <2>6. /\ sess' \in [Calls -> Session]
        /\ sess'[c] = s \/ (s = "ringing" /\ sess'[c] = "answered")
        /\ \A d \in Calls \ {c} : sess'[d] = sess[d]
    BY <2>5
  <2>7. /\ tmrInv' \subseteq t /\ t \ {c} \subseteq tmrInv' /\ play' \in Tones
        /\ view' \in [Calls -> {"idle", "alerted", "up"}]
    BY <2>4
  <2> QED
    BY <2>3, <2>4, <2>6, <2>7
<1> QED
  BY <1>1, <1>2, <1>3 DEF IncomingEvent

(***************************************************************************)
(* A new call is linked at the end of the list.                            *)
(***************************************************************************)
LEMMA LinkStep ==
    ASSUME Typed, Listed, NEW c \in Calls \ Live, list' = Append(list, c),
           call'[c].state # "FREE",
           \A d \in Calls \ {c} : call'[d].state = call[d].state
    PROVE  list' \in Seq(Calls) /\ Live' = Live \cup {c} /\ Listed'
<1>1. Live' = Live \cup {c}
  BY DEF Live
<1>2. NoRepeat(list) /\ c \notin Elements(list) /\ list \in Seq(Calls)
  BY DEF Listed, NoRepeat, Elements, Typed
<1>3. /\ list' \in Seq(Calls) /\ NoRepeat(list')
      /\ Elements(list') = Elements(list) \cup {c}
  BY <1>2, AppendFacts
<1> QED
  BY <1>1, <1>3 DEF Listed, NoRepeat, Elements

\* Steps that move no pointer and change no state of a call to or from FREE.
LEMMA QuietStep ==
    ASSUME IInv, call' \in [Calls -> CallObject],
           \A c \in Calls : /\ call'[c].not = call[c].not
                            /\ call'[c].state = "FREE" <=> call[c].state = "FREE"
                            /\ call'[c].state = "FREE" => call'[c] = call[c],
           UNCHANGED <<list, subs>>
    PROVE  Live' = Live /\ Listed' /\ Counted' /\ FreeClean'
<1>1. Live' = Live
  BY DEF Live
<1>2. Listed'
  BY <1>1 DEF IInv, HandlersGone, Listed
<1>3. Counted'
  BY KeepRefs DEF IInv, Counted, RefsOf, Pointers
<1>4. FreeClean'
  BY <1>1 DEF IInv, FreeClean, Live
<1> QED
  BY <1>1, <1>2, <1>3, <1>4

LEMMA IncomingCallStep ==
    ASSUME IInv, NEW c \in Calls, IncomingCall(c)
    PROVE  IInv'
<1>1. c \in Calls \ Live /\ call[c] = FreeCall
  BY DEF IncomingCall, IInv, FreeClean
<1>2. CASE RejectCodec
  BY <1>2 DEF RejectCodec, IInv, Typed, HandlersGone, Listed, Live, Counted,
              FreeClean, SessionState, Timed, Tones
<1>3. CASE AcceptCall(c)
  <2> DEFINE r == NewCall("INCOMING", Null)
             t == tmrInv \cup {c}
  <2>1. r \in CallObject /\ r.state = "INCOMING" /\ r.not = Null
    BY DEF NewCall, FreeCall, CallObject, States
  <2>2. Typed /\ t \subseteq Calls
    BY DEF IInv, Typed
  <2>3. /\ call' \in [Calls -> CallObject]
        /\ call'[c].state = "INCOMING" /\ call'[c].not = Null
        /\ \A d \in Calls \ {c} : call'[d] = call[d] /\ sess'[d] = sess[d]
        /\ tmrInv' \subseteq t /\ t \ {c} \subseteq tmrInv'
        /\ AnswerMode = "EARLY" \/ tmrInv' = t
        /\ sess' \in [Calls -> Session]
        /\ sess'[c] \in {"ringing", "answered"}
        /\ play' \in Tones
        /\ view' \in [Calls -> {"idle", "alerted", "up"}]
        /\ mnat' \subseteq mnat \cup {c}
    <3>1. CASE UseMnat
      <4>1. call' = [call EXCEPT ![c] = r] /\ tmrInv' = t
            /\ sess' = [sess EXCEPT ![c] = "ringing"]
            /\ mnat' = mnat \cup {c} /\ play' = play /\ view' = view
        BY <1>3, <3>1 DEF AcceptCall
      <4> HIDE DEF r, t
      <4> QED
        BY <2>1, <2>2, <4>1 DEF Typed, Session, t
    <3>2. CASE ~UseMnat
      <4>1. IncomingEvent(c, r, t, "ringing") /\ mnat' = mnat
        BY <1>3, <3>2 DEF AcceptCall
      <4> HIDE DEF r, t
      <4>2. "ringing" \in Session
        BY DEF Session
      <4> QED
        BY <2>1, <2>2, <4>1, <4>2, IncomingFacts
    <3> QED
      BY <3>1, <3>2
  <2>4. list' = Append(list, c) /\ UNCHANGED <<subscr, subs>>
    BY <1>3 DEF AcceptCall
  <2> HIDE DEF r
  <2>5. list' \in Seq(Calls) /\ Live' = Live \cup {c} /\ Listed'
    <3>1. Typed /\ Listed
      BY DEF IInv, HandlersGone
    <3> QED
      BY <1>1, <2>3, <2>4, <3>1, LinkStep
  <2>6. Typed'
    BY <2>2, <2>3, <2>4, <2>5 DEF Typed
  <2>7. HandlersGone'
    <3>1. {d \in Calls : sess'[d] # "none"} \subseteq
             {d \in Calls : sess[d] # "none"} \cup {c}
      BY <2>3
    <3> QED
      BY <2>3, <2>4, <2>5, <3>1 DEF IInv, HandlersGone
  <2>8. Counted'
    <3>1. \A d \in Calls : call'[d].not = call[d].not
      BY <1>1, <2>3 DEF FreeCall
    <3> QED
      BY <3>1, <2>4, KeepRefs, ZenonT(40) DEF IInv, Counted, RefsOf, Pointers
  <2>9. FreeClean'
    BY <2>3, <2>5 DEF IInv, FreeClean
  <2>10. SessionState'
    BY <2>3 DEF IInv, SessionState
  <2>11. Timed'
    BY <2>3 DEF IInv, Timed
  <2> QED
    BY <2>6, <2>7, <2>8, <2>9, <2>10, <2>11 DEF IInv
<1> QED
  BY <1>2, <1>3 DEF IncomingCall

LEMMA UaConnectStep ==
    ASSUME IInv, NEW c \in Calls, UaConnect(c)
    PROVE  IInv'
<1>1. c \in Calls \ Live /\ call[c] = FreeCall /\ Typed /\ Listed
  BY DEF UaConnect, IInv, FreeClean, HandlersGone
<1>2. /\ call' \in [Calls -> CallObject]
      /\ call'[c].state = "OUTGOING" /\ call'[c].not = Null
      /\ \A d \in Calls \ {c} : call'[d] = call[d]
  BY <1>1 DEF UaConnect, NewCall, FreeCall, CallObject, States, Typed
<1>3. list' \in Seq(Calls) /\ Live' = Live \cup {c} /\ Listed'
  <2>1. list' = Append(list, c)
    BY DEF UaConnect
  <2> QED
    BY <1>1, <1>2, <2>1, LinkStep
<1>4. /\ sess' \in [Calls -> Session] /\ sess'[c] \in {"inviting", sess[c]}
      /\ \A d \in Calls \ {c} : sess'[d] = sess[d]
      /\ mnat' \subseteq mnat \cup {c}
  BY <1>1 DEF UaConnect, Typed, Session
<1>5. UNCHANGED <<tmrInv, subscr, subs, play, view>>
  BY DEF UaConnect
<1>6. Typed'
  BY <1>1, <1>2, <1>3, <1>4, <1>5 DEF Typed
<1>7. HandlersGone'
  <2>1. {d \in Calls : sess'[d] # "none"} \subseteq
           {d \in Calls : sess[d] # "none"} \cup {c}
    BY <1>4
  <2> QED
    BY <1>3, <1>4, <1>5, <2>1 DEF IInv, HandlersGone
<1>8. Counted'
  <2>1. \A d \in Calls : call'[d].not = call[d].not
    BY <1>1, <1>2 DEF FreeCall
  <2> QED
    BY <2>1, <1>5, KeepRefs, ZenonT(40) DEF IInv, Counted, RefsOf, Pointers
<1>9. FreeClean'
  BY <1>2, <1>3 DEF IInv, FreeClean
<1>10. SessionState'
  <2>1. sess[c] = "none"
    BY <1>1 DEF IInv, HandlersGone
  <2> QED
    BY <1>2, <1>4, <2>1 DEF IInv, SessionState
<1>11. Timed'
  BY <1>2, <1>5 DEF IInv, Timed
<1> QED
  BY <1>6, <1>7, <1>8, <1>9, <1>10, <1>11 DEF IInv

\* The steps that end one call.
LEMMA CallEndsStep ==
    ASSUME IInv, NEW c \in Calls,
           \/ InviteTimeout(c) \/ MnatFailed(c) \/ SessionClosed(c)
           \/ MediaError(c) \/ UaHangup(c) \/ TransferDone(c)
    PROVE  IInv'
<1>1. subs \in SubsType /\ call[c].not \in Notifiers \cup {Null}
  BY DEF IInv, Typed, SubsType, CallObject
<1>2. c \in Live
  BY DEF IInv, HandlersGone, InviteTimeout, MnatFailed, SessionClosed,
         MediaError, UaHangup, TransferDone, Typed, Live, FreeClean, FreeCall
<1>3. CASE ClosedEvent(c, subs)
  BY <1>1, <1>2, <1>3, DestructorStep DEF ClosedEvent, Tones
<1>4. CASE /\ Destructor(c, Notify(subs, call[c].not, "failed"))
           /\ play' \in {"none", "short"}
  <2>1. /\ Notify(subs, call[c].not, "failed") \in SubsType
        /\ \A n \in Notifiers :
              Notify(subs, call[c].not, "failed")[n].refs = subs[n].refs
    BY <1>1, NotifyFacts
  <2> QED
    BY <1>2, <1>4, <2>1, DestructorStep DEF Tones
<1>5. CASE Destructor(c, subs) /\ play' = "none"
  BY <1>1, <1>2, <1>5, DestructorStep DEF Tones
<1> QED
  BY <1>3, <1>4, <1>5 DEF InviteTimeout, MnatFailed, SessionClosed, MediaError,
                          UaHangup, TransferDone

\* The steps that leave the calls alone.
LEMMA AloneStep ==
    ASSUME IInv, UNCHANGED <<call, list, subs>>,
           \/ \E c \in Calls : CallTransfer(c) \/ TransferClosed(c)
           \/ PlayEnds
    PROVE  IInv'
<1>1. Live' = Live /\ Listed' /\ Counted' /\ FreeClean' /\ Typed
  BY DEF IInv, HandlersGone, Listed, Live, Counted, FreeClean
<1>2. UNCHANGED <<tmrInv, sess, mnat, view>> /\ play' \in Tones
      /\ subscr' \subseteq Live
  BY <1>1 DEF CallTransfer, TransferClosed, PlayEnds, Typed, Tones, IInv, HandlersGone
<1>3. Typed'
  BY <1>1, <1>2 DEF Typed, Live
<1>4. HandlersGone'
  BY <1>1, <1>2 DEF IInv, HandlersGone
<1>5. SessionState' /\ Timed'
  BY <1>2 DEF IInv, SessionState, Timed
<1> QED
  BY <1>1, <1>3, <1>4, <1>5 DEF IInv

\* What update_media may do to a call.
LEMMA UpdateMediaFacts ==
    ASSUME Typed, NEW c \in Calls, UpdateMedia(c)
    PROVE  /\ call' \in [Calls -> CallObject]
           /\ \A d \in Calls : /\ call'[d].state = call[d].state
                               /\ call'[d].not = call[d].not
                               /\ call'[d].mnatWait = call[d].mnatWait
                               /\ d # c => call'[d] = call[d]
<1>1. PICK m \in {call[c].media, "on"} : call' = [call EXCEPT ![c].media = m]
  BY DEF UpdateMedia
<1>2. m \in {"off", "on"}
  BY <1>1 DEF Typed, CallObject
<1> QED
  BY <1>1, <1>2 DEF Typed, CallObject

LEMMA UaAnswerStep ==
    ASSUME IInv, NEW c \in Calls, UaAnswer(c)
    PROVE  IInv'
<1>1. c \in Live /\ UNCHANGED <<list, tmrInv, mnat, subscr, subs, view>> /\ play' = "none"
      /\ Typed
  BY DEF UaAnswer, IInv
<1>2. \/ sess' = sess
      \/ /\ call[c].state = "INCOMING" /\ sess[c] = "ringing"
         /\ sess' = [sess EXCEPT ![c] = "answered"]
  BY DEF UaAnswer
<1>3. /\ call' \in [Calls -> CallObject]
      /\ \A d \in Calls : /\ call'[d].state = call[d].state
                          /\ call'[d].not = call[d].not
                          /\ d # c => call'[d] = call[d]
  <2>1. UpdateMedia(c) \/ UNCHANGED call
    BY DEF UaAnswer
  <2> QED
    BY <1>1, <2>1, UpdateMediaFacts DEF Typed
<1>4. Live' = Live /\ Listed' /\ Counted' /\ FreeClean'
  BY <1>1, <1>3, QuietStep DEF Live
<1>5. Typed'
  BY <1>1, <1>2, <1>3 DEF Typed, Session, Tones
<1>6. HandlersGone'
  BY <1>1, <1>2, <1>4 DEF IInv, HandlersGone, Typed
<1>7. SessionState'
  BY <1>1, <1>2, <1>3 DEF IInv, SessionState, Typed
<1>8. Timed'
  BY <1>1, <1>3 DEF IInv, Timed
<1> QED
  BY <1>4, <1>5, <1>6, <1>7, <1>8 DEF IInv

LEMMA RenegotiateStep ==
    ASSUME IInv, NEW c \in Calls, Renegotiate(c)
    PROVE  IInv'
<1>1. /\ UpdateMedia(c)
      /\ UNCHANGED <<list, tmrInv, sess, mnat, subscr, subs, play, view>>
      /\ c \in Live /\ Typed
  BY DEF Renegotiate, IInv, HandlersGone
<1>2. /\ call' \in [Calls -> CallObject]
      /\ \A d \in Calls : /\ call'[d].state = call[d].state
                          /\ call'[d].not = call[d].not
                          /\ d # c => call'[d] = call[d]
  BY <1>1, UpdateMediaFacts
<1>3. Live' = Live /\ Listed' /\ Counted' /\ FreeClean'
  BY <1>1, <1>2, QuietStep DEF Live
<1> QED
  BY <1>1, <1>2, <1>3 DEF IInv, Typed, HandlersGone, SessionState, Timed

LEMMA CallHoldStep ==
    ASSUME IInv, NEW c \in Calls, NEW hold \in BOOLEAN, CallHold(c, hold)
    PROVE  IInv'
<1>1. /\ call' = [call EXCEPT ![c].hold = hold]
      /\ UNCHANGED <<list, tmrInv, sess, mnat, subscr, subs, play, view>>
      /\ c \in Live /\ Typed
  BY DEF CallHold, IInv, HandlersGone
<1>2. call' \in [Calls -> CallObject]
  BY <1>1 DEF Typed, CallObject
<1>3. \A d \in Calls : /\ call'[d].state = call[d].state
                       /\ call'[d].not = call[d].not
                       /\ d # c => call'[d] = call[d]
  BY <1>1 DEF Typed, CallObject
<1>4. Live' = Live /\ Listed' /\ Counted' /\ FreeClean'
  BY <1>1, <1>2, <1>3, QuietStep DEF Live
<1> QED
  BY <1>1, <1>2, <1>3, <1>4 DEF IInv, Typed, HandlersGone, SessionState, Timed

LEMMA ProgressStep ==
    ASSUME IInv, NEW c \in Calls, NEW scode, NEW media \in BOOLEAN,
           Progress(c, scode, media)
    PROVE  IInv'
<1> DEFINE st == CASE scode = 180 -> "RINGING"
                   [] scode = 183 -> "EARLY"
                   [] OTHER       -> call[c].state
<1>1. sess[c] = "inviting" /\ c \in Live /\ Typed
      /\ call[c].state \in {"OUTGOING", "RINGING", "EARLY"}
  BY DEF Progress, IInv, HandlersGone, SessionState
<1>2. PICK m \in {"off", "on"} : call' = [call EXCEPT ![c].state = st, ![c].media = m]
  BY DEF Progress
<1>3. st \in {"OUTGOING", "RINGING", "EARLY"}
  BY <1>1
<1> HIDE DEF st
<1>4. /\ call' \in [Calls -> CallObject]
      /\ call'[c].state \in {"OUTGOING", "RINGING", "EARLY"}
      /\ call'[c].not = call[c].not
      /\ \A d \in Calls \ {c} : call'[d] = call[d]
  BY <1>1, <1>2, <1>3 DEF Typed, CallObject, States
<1>5. /\ tmrInv' = tmrInv \ {c} /\ play' \in Tones
      /\ view' = [view EXCEPT ![c] = "alerted"]
      /\ UNCHANGED <<list, sess, mnat, subscr, subs>>
  BY DEF Progress, Tones
<1>6. Live' = Live /\ Listed' /\ Counted' /\ FreeClean'
  BY <1>1, <1>4, <1>5, QuietStep DEF Live
<1>7. Typed'
  BY <1>1, <1>4, <1>5 DEF Typed
<1>8. HandlersGone'
  BY <1>5, <1>6 DEF IInv, HandlersGone
<1>9. SessionState' /\ Timed'
  BY <1>1, <1>4, <1>5 DEF IInv, SessionState, Timed
<1> QED
  BY <1>6, <1>7, <1>8, <1>9 DEF IInv

LEMMA MnatReadyStep ==
    ASSUME IInv, NEW c \in Calls, MnatReady(c)
    PROVE  IInv'
<1> DEFINE r == [call[c] EXCEPT !.mnatWait = FALSE]
<1>1. c \in Live /\ Typed /\ call[c] \in CallObject
  BY DEF MnatReady, IInv, HandlersGone, Typed
<1>2. r \in CallObject /\ r.state = call[c].state /\ r.not = call[c].not
  BY <1>1 DEF CallObject
<1>3. UNCHANGED <<list, mnat, subscr, subs>>
  BY DEF MnatReady
<1>4. /\ call' \in [Calls -> CallObject]
      /\ call'[c].state = call[c].state /\ call'[c].not = call[c].not
      /\ \A d \in Calls \ {c} : call'[d] = call[d] /\ sess'[d] = sess[d]
      /\ tmrInv' \subseteq tmrInv /\ tmrInv \ {c} \subseteq tmrInv'
      /\ AnswerMode = "EARLY" \/ tmrInv' = tmrInv
      /\ sess' \in [Calls -> Session]
      /\ play' \in Tones
      /\ view' \in [Calls -> {"idle", "alerted", "up"}]
      /\ \/ sess'[c] = sess[c]
         \/ sess'[c] = "inviting" /\ call[c].state = "OUTGOING"
         \/ sess'[c] = "answered" /\ call[c].state = "INCOMING"
  <2>1. CASE call[c].state = "INCOMING"
    <3>1. IncomingEvent(c, r, tmrInv, sess[c])
      BY <2>1 DEF MnatReady
    <3>2. sess[c] \in Session /\ tmrInv \in SUBSET Calls
      BY <1>1 DEF Typed
    <3> HIDE DEF r
    <3>3. /\ call' \in [Calls -> CallObject]
          /\ call'[c].state = r.state /\ call'[c].not = r.not
          /\ \A d \in Calls \ {c} : call'[d] = call[d] /\ sess'[d] = sess[d]
          /\ tmrInv' \subseteq tmrInv /\ tmrInv \ {c} \subseteq tmrInv'
          /\ AnswerMode = "EARLY" \/ tmrInv' = tmrInv
          /\ sess' \in [Calls -> Session]
          /\ sess'[c] = sess[c] \/ sess'[c] = "answered"
          /\ play' \in Tones
          /\ view' \in [Calls -> {"idle", "alerted", "up"}]
      BY <1>1, <1>2, <3>1, <3>2, IncomingFacts
    <3> QED
      BY <1>2, <2>1, <3>3
  <2>2. CASE call[c].state # "INCOMING"
    <3>1. /\ call' = [call EXCEPT ![c] = r] /\ UNCHANGED <<tmrInv, play, view>>
          /\ \/ sess' = sess
             \/ /\ sess' = [sess EXCEPT ![c] = "inviting"]
                /\ call[c].state = "OUTGOING"
      BY <2>2 DEF MnatReady
    <3> HIDE DEF r
    <3>2. /\ call' \in [Calls -> CallObject]
          /\ call'[c] = r /\ \A d \in Calls \ {c} : call'[d] = call[d]
      BY <1>1, <1>2, <3>1 DEF Typed
    <3>3. /\ sess' \in [Calls -> Session]
          /\ \A d \in Calls \ {c} : sess'[d] = sess[d]
          /\ \/ sess'[c] = sess[c]
             \/ sess'[c] = "inviting" /\ call[c].state = "OUTGOING"
      BY <1>1, <3>1 DEF Typed, Session, Live
    <3>4. play' \in Tones /\ view' \in [Calls -> {"idle", "alerted", "up"}]
      BY <1>1, <3>1 DEF Typed
    <3> QED
      BY <1>2, <3>1, <3>2, <3>3, <3>4
  <2> QED
    BY <2>1, <2>2
<1> HIDE DEF r
<1>5. Live' = Live /\ Listed' /\ Counted' /\ FreeClean'
  BY <1>1, <1>3, <1>4, QuietStep DEF Live
<1>6. Typed'
  BY <1>1, <1>3, <1>4 DEF Typed
<1>7. HandlersGone'
  BY <1>1, <1>3, <1>4, <1>5 DEF IInv, HandlersGone
<1>8. SessionState' /\ Timed'
  BY <1>4 DEF IInv, SessionState, Timed
<1> QED
  BY <1>5, <1>6, <1>7, <1>8 DEF IInv

(***************************************************************************)
(* The steps in which a call lets go of its notifier.                      *)
(***************************************************************************)
LEMMA ReleaseStep ==
    ASSUME IInv, NEW c \in Calls, NEW sb \in SubsType,
           \A n \in Notifiers : sb[n].refs = subs[n].refs,
           call' \in [Calls -> CallObject], call'[c].not = Null,
           \A d \in Calls \ {c} : call'[d] = call[d],
           subs' = Deref(sb, call[c].not)
    PROVE  subs' \in SubsType /\ Counted'
<1>1. RefsOf(call, sb) /\ call \in [Calls -> CallObject]
  BY DEF IInv, Typed, Counted, RefsOf, Pointers
<1>2. subs' \in SubsType /\ RefsOf(call', subs')
  BY <1>1, Release
<1> QED
  BY <1>2 DEF Counted, RefsOf, Pointers

LEMMA EstablishedStep ==
    ASSUME IInv, NEW c \in Calls, Established(c)
    PROVE  IInv'
<1> DEFINE n  == call[c].not
           sb == Notify(subs, n, "ok")
<1>1. c \in Live /\ Typed
  BY DEF Established, IInv, HandlersGone
<1>2. PICK m \in {"off", "on"} :
        call' = [call EXCEPT ![c].state = "ESTABLISHED", ![c].media = m, ![c].not = Null]
  <2>1. call[c].media \in {"off", "on"}
    BY <1>1 DEF Typed, CallObject
  <2> QED
    BY <2>1 DEF Established
<1>3. /\ call' \in [Calls -> CallObject]
      /\ call'[c].state = "ESTABLISHED" /\ call'[c].not = Null
      /\ \A d \in Calls \ {c} : call'[d] = call[d]
  BY <1>1, <1>2, ZenonT(40) DEF Typed, CallObject, States
<1>4. /\ sess' = [sess EXCEPT ![c] = "up"] /\ tmrInv' = tmrInv \ {c}
      /\ play' = "none" /\ view' = [view EXCEPT ![c] = "up"]
      /\ subs' = Deref(sb, n) /\ UNCHANGED <<list, mnat, subscr>>
  BY DEF Established
<1>5. subs' \in SubsType /\ Counted'
  <2>1. subs \in SubsType /\ n \in Notifiers \cup {Null}
    BY <1>1 DEF Typed, SubsType, CallObject
  <2>2. sb \in SubsType /\ \A k \in Notifiers : sb[k].refs = subs[k].refs
    BY <2>1, NotifyFacts
  <2> HIDE DEF sb
  <2> QED
    BY <1>3, <1>4, <2>2, ReleaseStep
<1>6. Live' = Live
  BY <1>1, <1>3 DEF Live
<1>7. Typed'
  BY <1>1, <1>3, <1>4, <1>5 DEF Typed, SubsType, Session, Tones
<1>8. HandlersGone'
  <2>1. {d \in Calls : sess'[d] # "none"} \subseteq
           {d \in Calls : sess[d] # "none"} \cup {c}
    BY <1>1, <1>4 DEF Typed
  <2> QED
    BY <1>1, <1>4, <1>6, <2>1 DEF IInv, HandlersGone, Listed
<1>9. FreeClean' /\ SessionState' /\ Timed'
  BY <1>1, <1>3, <1>4, <1>6 DEF IInv, Typed, FreeClean, SessionState, Timed
<1> QED
  BY <1>5, <1>7, <1>8, <1>9 DEF IInv

\* Only the notifier that call c points to changes, and the pointer is cleared.
LEMMA ClearStep ==
    ASSUME IInv, NEW c \in Calls, call' = [call EXCEPT ![c].not = Null],
           subs' \in SubsType, Counted', play' \in Tones,
           UNCHANGED <<list, tmrInv, sess, mnat, subscr, view>>
    PROVE  IInv'
<1>1. Typed
  BY DEF IInv
<1>2. /\ call' \in [Calls -> CallObject]
      /\ \A d \in Calls : call'[d].state = call[d].state
      /\ \A d \in Calls \ Live : call'[d] = call[d]
  BY <1>1 DEF Typed, CallObject, IInv, FreeClean, FreeCall
<1>3. Live' = Live
  BY <1>2 DEF Live
<1>4. Typed'
  BY <1>1, <1>2 DEF Typed, SubsType
<1>5. HandlersGone'
  BY <1>3 DEF IInv, HandlersGone, Listed
<1>6. FreeClean' /\ SessionState' /\ Timed'
  BY <1>2, <1>3 DEF IInv, FreeClean, SessionState, Timed
<1> QED
  BY <1>4, <1>5, <1>6 DEF IInv

LEMMA ReferRefusedStep ==
    ASSUME IInv, NEW c \in Calls, ReferRefused(c)
    PROVE  IInv'
<1>1. /\ call' = [call EXCEPT ![c].not = Null] /\ subs' = Deref(subs, call[c].not)
      /\ UNCHANGED <<list, tmrInv, sess, mnat, subscr, play, view>>
  BY DEF ReferRefused
<1>2. /\ subs \in SubsType /\ play' \in Tones
      /\ call' \in [Calls -> CallObject] /\ call'[c].not = Null
      /\ \A d \in Calls \ {c} : call'[d] = call[d]
  BY <1>1 DEF IInv, Typed, SubsType, CallObject
<1>3. subs' \in SubsType /\ Counted'
  BY <1>1, <1>2, ReleaseStep
<1> QED
  BY <1>1, <1>2, <1>3, ClearStep

LEMMA NotifierClosedStep ==
    ASSUME IInv, NEW n \in Notifiers, NotifierClosed(n)
    PROVE  IInv'
<1> DEFINE c  == subs[n].owner
           sb == Notify(subs, n, "ended")
<1>1. c \in Calls /\ subs \in SubsType
  BY DEF NotifierClosed, IInv, Typed, SubsType, Notifier
<1>2. /\ call' = [call EXCEPT ![c].not = Null] /\ subs' = Deref(sb, call[c].not)
      /\ UNCHANGED <<list, tmrInv, sess, mnat, subscr, play, view>>
  BY DEF NotifierClosed
<1>3. sb \in SubsType /\ \A k \in Notifiers : sb[k].refs = subs[k].refs
  BY <1>1, NotifyFacts
<1> HIDE DEF c, sb
<1>4. /\ call' \in [Calls -> CallObject] /\ call'[c].not = Null
      /\ \A d \in Calls \ {c} : call'[d] = call[d] /\ play' \in Tones
  BY <1>1, <1>2 DEF IInv, Typed, CallObject
<1>5. subs' \in SubsType /\ Counted'
  BY <1>1, <1>2, <1>3, <1>4, ReleaseStep
<1>6. play' \in Tones
  BY <1>2 DEF IInv, Typed
<1> QED
  BY <1>1, <1>2, <1>5, <1>6, ClearStep

(***************************************************************************)
(* REFER: the old notifier is released before a free one is taken.         *)
(***************************************************************************)
LEMMA AcceptedFacts ==
    ASSUME IInv, NEW c \in Live, NEW n \in Notifiers
    PROVE  LET a   == Deref(subs, call[c].not)
               mid == [call EXCEPT ![c].not = Null]
           IN  /\ a \in SubsType /\ RefsOf(mid, a)
               /\ mid \in [Calls -> CallObject]
               /\ Accepted(c, n) \in SubsType
               /\ Accepted(c, n)[n].refs = 1
               /\ \A m \in Notifiers \ {n} : Accepted(c, n)[m].refs = a[m].refs
<1> DEFINE a   == Deref(subs, call[c].not)
           mid == [call EXCEPT ![c].not = Null]
<1>1. c \in Calls /\ call \in [Calls -> CallObject] /\ subs \in SubsType
  BY DEF IInv, Typed, SubsType, Live
<1>2. /\ mid \in [Calls -> CallObject] /\ mid[c].not = Null
      /\ \A d \in Calls \ {c} : mid[d].not = call[d].not
  BY <1>1 DEF CallObject
<1>3. RefsOf(call, subs)
  BY DEF IInv, Counted, RefsOf, Pointers
<1> HIDE DEF mid
<1>4. a \in SubsType /\ RefsOf(mid, a)
  BY <1>1, <1>2, <1>3, Release
<1>5. Accepted(c, n) = [a EXCEPT ![n] = [refs |-> 1, owner |-> c, told |-> "trying"]]
  BY DEF Accepted
<1> HIDE DEF a
<1>6. [refs |-> 1, owner |-> c, told |-> "trying"] \in Notifier
  BY <1>1 DEF Notifier
<1>7. /\ Accepted(c, n) \in SubsType /\ Accepted(c, n)[n].refs = 1
      /\ \A m \in Notifiers \ {n} : Accepted(c, n)[m].refs = a[m].refs
  BY <1>4, <1>5, <1>6 DEF SubsType
<1> QED
  BY <1>2, <1>4, <1>7 DEF a, mid

LEMMA ReferFailsStep ==
    ASSUME IInv, NEW c \in Calls, NEW n \in Notifiers, ReferFails(c, n)
    PROVE  IInv'
<1> DEFINE a  == Deref(subs, call[c].not)
           nb == Notify(Accepted(c, n), n, "failed")
<1>1. c \in Live /\ a[n].refs = 0
  BY DEF ReferFails, CanRefer, IInv, HandlersGone
<1>2. /\ call' = [call EXCEPT ![c].not = Null] /\ subs' = Deref(nb, n)
      /\ play' \in Tones /\ UNCHANGED <<list, tmrInv, sess, mnat, subscr, view>>
  BY DEF ReferFails, Tones
<1>3. /\ a \in SubsType /\ RefsOf(call', a)
      /\ Accepted(c, n) \in SubsType /\ Accepted(c, n)[n].refs = 1
      /\ \A m \in Notifiers \ {n} : Accepted(c, n)[m].refs = a[m].refs
  BY <1>1, <1>2, AcceptedFacts
<1>4. nb \in SubsType /\ \A m \in Notifiers : nb[m].refs = Accepted(c, n)[m].refs
  BY <1>3, NotifyFacts
<1>5. n # Null
  BY CallAssumption
<1> HIDE DEF a, nb
<1>6. /\ subs' \in SubsType
      /\ \A m \in Notifiers :
           subs'[m].refs = IF m = n THEN nb[m].refs - 1 ELSE nb[m].refs
  BY <1>2, <1>3, <1>4, <1>5, DerefFacts
<1>7. \A m \in Notifiers : subs'[m].refs = a[m].refs
  BY <1>1, <1>3, <1>4, <1>6
<1>8. Counted'
  BY <1>3, <1>7, KeepRefs DEF Counted, RefsOf, Pointers
<1> QED
  BY <1>2, <1>6, <1>8, ClearStep

LEMMA ReferConnectsStep ==
    ASSUME IInv, NEW c \in Calls, NEW n \in Notifiers, NEW d \in Calls,
           ReferConnects(c, n, d)
    PROVE  IInv'
<1> DEFINE a   == Deref(subs, call[c].not)
           mid == [call EXCEPT ![c].not = Null]
<1>1. /\ c \in Live /\ d \in Calls \ Live /\ call[d] = FreeCall /\ c # d
      /\ a[n].refs = 0 /\ n # Null /\ Typed /\ Listed
  BY CallAssumption DEF ReferConnects, CanRefer, IInv, HandlersGone, FreeClean
<1>2. /\ call' \in [Calls -> CallObject]
      /\ call'[c].state = call[c].state /\ call'[c].not = n
      /\ call'[d].state = "OUTGOING" /\ call'[d].not = n
      /\ \A e \in Calls \ {c, d} : call'[e] = call[e]
  <2>1. call' = [call EXCEPT ![c].not = n, ![d] = NewCall("OUTGOING", n)]
    BY DEF ReferConnects
  <2>2. /\ NewCall("OUTGOING", n) \in CallObject
        /\ NewCall("OUTGOING", n).state = "OUTGOING"
        /\ NewCall("OUTGOING", n).not = n
    BY DEF NewCall, FreeCall, CallObject, States
  <2> QED
    BY <1>1, <2>1, <2>2 DEF Typed, CallObject
<1>3. list' \in Seq(Calls) /\ Live' = Live \cup {d} /\ Listed'
  <2>1. list' = Append(list, d)
    BY DEF ReferConnects
  <2>2. \A e \in Calls \ {d} : call'[e].state = call[e].state
    BY <1>2
  <2> QED
    BY <1>1, <1>2, <2>1, <2>2, LinkStep
<1>4. /\ sess' \in [Calls -> Session] /\ sess'[d] \in {"inviting", sess[d]}
      /\ \A e \in Calls \ {d} : sess'[e] = sess[e]
      /\ mnat' \subseteq mnat \cup {d}
  BY <1>1 DEF ReferConnects, Typed, Session
<1>5. /\ subs' = Ref(Accepted(c, n), n) /\ play' \in Tones
      /\ UNCHANGED <<tmrInv, subscr, view>>
  BY DEF ReferConnects, Tones
<1>6. subs' \in SubsType /\ Counted'
  <2>1. /\ a \in SubsType /\ RefsOf(mid, a)
        /\ Accepted(c, n) \in SubsType /\ Accepted(c, n)[n].refs = 1
        /\ \A m \in Notifiers \ {n} : Accepted(c, n)[m].refs = a[m].refs
    BY <1>1, AcceptedFacts
  <2>2. /\ subs' \in SubsType /\ subs'[n].refs = 2
        /\ \A m \in Notifiers \ {n} : subs'[m].refs = a[m].refs
    <3> DEFINE acc == Accepted(c, n)
    <3>1. subs' = [acc EXCEPT ![n].refs = @ + 1]
      BY <1>5 DEF Ref
    <3> HIDE DEF acc, a
    <3>2. acc \in SubsType /\ acc[n].refs = 1
      BY <2>1 DEF acc
    <3>3. /\ subs' \in SubsType /\ subs'[n].refs = 2
          /\ \A m \in Notifiers \ {n} : subs'[m].refs = acc[m].refs
      BY <3>1, <3>2 DEF SubsType, Notifier
    <3> QED
      BY <2>1, <3>3 DEF acc
  <2>3. /\ mid[c].not = Null /\ mid[d].not = Null
        /\ \A e \in Calls \ {c} : mid[e].not = call[e].not
    <3>1. call \in [Calls -> CallObject] /\ mid[c] = [call[c] EXCEPT !.not = Null]
      BY <1>1 DEF Typed
    <3>2. \A e \in Calls \ {c} : mid[e] = call[e]
      BY <3>1
    <3>3. mid[c].not = Null
      BY <3>1 DEF CallObject
    <3>4. d \in Calls \ {c} /\ call[d].not = Null
      BY <1>1 DEF FreeCall
    <3> QED
      BY <3>2, <3>3, <3>4
  <2> HIDE DEF a, mid
  <2>4. Pointers(mid, n) = {}
    BY <1>1, <2>1, PointersFinite, FS_EmptySet DEF RefsOf
  <2>5. Pointers(call', n) = {c, d}
    <3>1. \A e \in Calls \ {c, d} : call'[e].not # n
      BY <1>2, <2>3, <2>4 DEF Pointers
    <3> QED
      BY <1>2, <3>1 DEF Pointers
  <2>6. Cardinality({c, d}) = 2
    <3>1. IsFiniteSet({c}) /\ Cardinality({c}) = 1
      BY FS_Singleton
    <3>2. {c, d} = {c} \cup {d} /\ d \notin {c}
      BY <1>1
    <3>3. Cardinality({c} \cup {d}) = Cardinality({c}) + 1
      BY <3>1, <3>2, FS_AddElement
    <3> QED
      BY <3>1, <3>2, <3>3
  <2>7. ASSUME NEW m \in Notifiers \ {n}
        PROVE  subs'[m].refs = Cardinality(Pointers(call', m))
    <3>1. m # Null
      BY CallAssumption
    <3>2. Pointers(call', m) = Pointers(mid, m)
      BY <1>2, <2>3, <3>1 DEF Pointers
    <3> QED
      BY <2>1, <2>2, <3>2 DEF RefsOf
  <2> QED
    BY <2>2, <2>5, <2>6, <2>7 DEF Counted, Pointers
<1> HIDE DEF a, mid
<1>7. Typed'
  BY <1>1, <1>2, <1>3, <1>4, <1>5, <1>6 DEF Typed, SubsType
<1>8. HandlersGone'
  <2>1. {e \in Calls : sess'[e] # "none"} \subseteq
           {e \in Calls : sess[e] # "none"} \cup {d}
    BY <1>4
  <2> QED
    BY <1>3, <1>4, <1>5, <2>1 DEF IInv, HandlersGone
<1>9. FreeClean'
  BY <1>1, <1>2, <1>3 DEF IInv, FreeClean
<1>10. SessionState'
  <2>1. sess[d] = "none"
    BY <1>1 DEF IInv, HandlersGone
  <2> QED
    BY <1>2, <1>4, <2>1 DEF IInv, SessionState
<1>11. Timed'
  BY <1>2, <1>5 DEF IInv, Timed
<1> QED
  BY <1>6, <1>7, <1>8, <1>9, <1>10, <1>11 DEF IInv

LEMMA UaDestructorStep == IInv /\ UaDestructor => IInv'
<1> SUFFICES ASSUME IInv, UaDestructor PROVE IInv'
  OBVIOUS
<1> USE DEF UaDestructor
<1>1. subs' \in SubsType /\ \A n \in Notifiers : subs'[n].refs = 0
  BY DEF IInv, Typed, SubsType, Notifier
<1>2. call' \in [Calls -> CallObject] /\ \A c \in Calls : call'[c] = FreeCall
  BY DEF FreeCall, CallObject, States
<1>3. Live' = {}
  BY DEF Live, FreeCall
<1>4. Typed'
  BY <1>1, <1>2 DEF Typed, SubsType, Session, Tones
<1>5. HandlersGone'
  BY <1>3 DEF HandlersGone, Listed
<1>6. Counted'
  <2>1. \A n \in Notifiers : {c \in Calls : call'[c].not = n} = {}
    BY <1>2, CallAssumption DEF FreeCall
  <2> QED
    BY <1>1, <2>1, FS_EmptySet DEF Counted
<1>7. FreeClean' /\ SessionState' /\ Timed'
  BY <1>2 DEF FreeClean, SessionState, Timed, FreeCall
<1> QED
  BY <1>4, <1>5, <1>6, <1>7 DEF IInv

(***************************************************************************)
(* Every step of call control keeps the invariant.                         *)
(***************************************************************************)
LEMMA NextInv == IInv /\ [Handler]_vars => IInv'
<1> SUFFICES ASSUME IInv, [Handler]_vars PROVE IInv'
  OBVIOUS
<1>1. ASSUME NEW c \in Calls, IncomingCall(c) PROVE IInv'
  BY <1>1, IncomingCallStep
<1>2. ASSUME NEW c \in Calls,
             \/ InviteTimeout(c) \/ MnatFailed(c) \/ SessionClosed(c)
             \/ MediaError(c) \/ UaHangup(c) \/ TransferDone(c)
      PROVE IInv'
  BY <1>2, CallEndsStep
<1>3. ASSUME NEW c \in Calls, CallTransfer(c) \/ TransferClosed(c)
      PROVE IInv'
  BY <1>3, AloneStep DEF CallTransfer, TransferClosed
<1>4. ASSUME NEW c \in Calls, UaConnect(c) PROVE IInv'
  BY <1>4, UaConnectStep
<1>5. ASSUME NEW c \in Calls, MnatReady(c) PROVE IInv'
  BY <1>5, MnatReadyStep
<1>6. ASSUME NEW c \in Calls, NEW scode \in {180, 182, 183}, NEW media \in BOOLEAN,
             Progress(c, scode, media)
      PROVE IInv'
  BY <1>6, ProgressStep
<1>7. ASSUME NEW c \in Calls, Established(c) PROVE IInv'
  BY <1>7, EstablishedStep
<1>8. ASSUME NEW c \in Calls, NEW hold \in BOOLEAN, CallHold(c, hold) PROVE IInv'
  BY <1>8, CallHoldStep
<1>9. ASSUME NEW c \in Calls, ReferRefused(c) PROVE IInv'
  BY <1>9, ReferRefusedStep
<1>10. ASSUME NEW c \in Calls, NEW n \in Notifiers, NEW d \in Calls,
              ReferConnects(c, n, d)
       PROVE IInv'
  BY <1>10, ReferConnectsStep
<1>11. ASSUME NEW c \in Calls, NEW n \in Notifiers, ReferFails(c, n) PROVE IInv'
  BY <1>11, ReferFailsStep
<1>12. ASSUME NEW n \in Notifiers, NotifierClosed(n) PROVE IInv'
  BY <1>12, NotifierClosedStep
<1>13. CASE UaDestructor
  BY <1>13, UaDestructorStep
<1>14. CASE PlayEnds
  BY <1>14, AloneStep DEF PlayEnds
<1>15. ASSUME NEW c \in Calls, UaAnswer(c) PROVE IInv'
  BY <1>15, UaAnswerStep
<1>16. ASSUME NEW c \in Calls, Renegotiate(c) PROVE IInv'
  BY <1>16, RenegotiateStep
<1>17. CASE UNCHANGED vars
  BY <1>17 DEF vars, IInv, Typed, HandlersGone, Listed, Live, Counted,
               FreeClean, SessionState, Timed
<1> QED
  BY <1>1, <1>2, <1>3, <1>4, <1>5, <1>6, <1>7, <1>8, <1>9, <1>10, <1>11, <1>12,
     <1>13, <1>14, <1>15, <1>16, <1>17 DEF Handler

(***************************************************************************)
(* What the tone and the session of a call say about it, and that call     *)
(* control implements the service of CallService.tla.                      *)
(***************************************************************************)

(***************************************************************************)
(* What the operations on notifiers do to their outcome and their owner.   *)
(***************************************************************************)
LEMMA NotifyEffect ==
    ASSUME NEW sb \in SubsType, NEW n \in Notifiers \cup {Null},
           NEW o \in {"ok", "failed", "ended"}, NEW m \in Notifiers
    PROVE  /\ Notify(sb, n, o)[m].told =
                IF m = n /\ sb[m].told = "trying" THEN o ELSE sb[m].told
           /\ Notify(sb, n, o)[m].owner = sb[m].owner
BY CallAssumption DEF Notify, SubsType, Notifier

LEMMA DerefEffect ==
    ASSUME NEW sb \in SubsType, NEW n \in Notifiers \cup {Null},
           n # Null => sb[n].refs > 0, NEW m \in Notifiers
    PROVE  /\ Deref(sb, n)[m].told =
                IF m = n /\ sb[m].refs = 1 /\ sb[m].told = "trying"
                THEN "ended" ELSE sb[m].told
           /\ Deref(sb, n)[m].owner =
                IF m = n /\ sb[m].refs = 1 THEN Null ELSE sb[m].owner
<1>1. CASE n = Null
  BY <1>1, CallAssumption DEF Deref
<1>2. CASE n # Null /\ sb[n].refs > 1
  BY <1>2 DEF Deref, SubsType, Notifier
<1>3. CASE n # Null /\ ~(sb[n].refs > 1)
  <2> DEFINE nb == Notify(sb, n, "ended")
  <2>1. nb \in SubsType
    BY NotifyFacts
  <2>2. /\ nb[m].told = IF m = n /\ sb[m].told = "trying" THEN "ended" ELSE sb[m].told
        /\ nb[m].owner = sb[m].owner
    BY NotifyEffect
  <2>3. Deref(sb, n) = [nb EXCEPT ![n].refs = @ - 1, ![n].owner = Null]
    BY <1>3 DEF Deref
  <2>4. sb[n].refs = 1
    BY <1>3 DEF SubsType, Notifier
  <2> HIDE DEF nb
  <2> QED
    BY <2>1, <2>2, <2>3, <2>4 DEF SubsType, Notifier
<1> QED
  BY <1>1, <1>2, <1>3

LEMMA DangleEffect ==
    ASSUME NEW sb \in SubsType, NEW c \in Calls, NEW m \in Notifiers
    PROVE  /\ Dangle(sb, c)[m].told = sb[m].told
           /\ Dangle(sb, c)[m].owner = IF sb[m].owner = c THEN Null ELSE sb[m].owner
BY DEF Dangle, SubsType, Notifier

(***************************************************************************)
(* What is added to the invariant: the application is told "established"   *)
(* of established calls only; a notifier nobody points to has told its     *)
(* outcome; and the call that received a pending request is established,   *)
(* where no peer sends REFER earlier.                                      *)
(***************************************************************************)
ViewState   == \A c \in Calls : view[c] = "up" => call[c].state = "ESTABLISHED"
PendingHeld == \A n \in Notifiers : subs[n].told = "trying" => subs[n].refs # 0
OwnerUp     == \A n \in Notifiers :
                  subs[n].told = "trying" /\ subs[n].owner # Null
                      => call[subs[n].owner].state = "ESTABLISHED"

SInv == IInv /\ ViewState /\ PendingHeld /\ (~EarlyRefer => OwnerUp)

\* The steps that neither the application nor a peer sees.
Unseen == UNCHANGED <<view, subs>>

LEMMA UnseenStep ==
    ASSUME SInv, Unseen, \A c \in Calls :
                \/ call'[c].state = call[c].state
                \/ call[c].state # "ESTABLISHED"
    PROVE  SInv /\ ViewState' /\ PendingHeld' /\ (~EarlyRefer => OwnerUp')
           /\ UNCHANGED Service!vars
<1>1. ViewState' /\ PendingHeld'
  BY DEF SInv, Unseen, ViewState, PendingHeld
<1>2. ASSUME ~EarlyRefer PROVE OwnerUp'
  <2>1. \A n \in Notifiers : subs[n].owner \in Calls \cup {Null}
    BY DEF SInv, IInv, Typed, Notifier
  <2> QED
    BY <1>2, <2>1 DEF SInv, Unseen, OwnerUp
<1>3. UNCHANGED Service!vars
  BY DEF Unseen, Service!vars
<1> QED
  BY <1>1, <1>2, <1>3

(***************************************************************************)
(* A step after which some calls are gone and some requests have ended.    *)
(***************************************************************************)
LEMMA GoneStep ==
    ASSUME SInv, NEW S \in SUBSET Calls, subs' \in SubsType,
           view' = [c \in Calls |-> IF c \in S THEN "idle" ELSE view[c]],
           \A n \in Notifiers :
               \/ subs'[n].told = subs[n].told
                  /\ (subs[n].told = "trying" => subs'[n].owner = subs[n].owner)
               \/ subs[n].told = "trying" /\ subs'[n].told \in {"failed", "ended"}
               \/ /\ subs[n].told = "trying" /\ subs'[n].told = "trying"
                  /\ subs[n].owner \in S /\ subs'[n].owner = Null
    PROVE  Service!Gone(S)
<1> DEFINE req == [n \in Notifiers |->
                     [outcome |-> subs[n].told,
                      by |-> IF subs[n].told = "trying" THEN subs[n].owner ELSE Null]]
<1>1. ASSUME NEW n \in Notifiers
      PROVE  /\ req'[n] \in {Service!Over("failed"), Service!Over("ended"),
                             Service!Pending(Null), req[n]}
             /\ \/ req'[n] = req[n]
                \/ /\ req[n].outcome = "trying"
                   /\ \/ req'[n].outcome \in {"failed", "ended"}
                      \/ req[n].by \in S /\ req'[n] = Service!Pending(Null)
  BY DEF Service!Over, Service!Pending
<1>2. req' \in [Notifiers -> {Service!Over("failed"), Service!Over("ended"),
                              Service!Pending(Null)} \cup {req[n] : n \in Notifiers}]
  BY <1>1
<1>3. \A n \in Notifiers :
          \/ req'[n] = req[n]
          \/ Service!IsPending(n) /\ \/ req'[n].outcome \in {"failed", "ended"}
                                     \/ req[n].by \in S /\ req'[n] = Service!Pending(Null)
  BY <1>1 DEF Service!IsPending
<1> QED
  BY <1>2, <1>3 DEF Service!Gone

\* The facts about the state that the lemmas below use.
LEMMA Facts ==
    ASSUME SInv, NEW c \in Calls
    PROVE  /\ Typed /\ subs \in SubsType /\ call \in [Calls -> CallObject]
           /\ call[c].not \in Notifiers \cup {Null}
           /\ call[c].not # Null => subs[call[c].not].refs > 0
           /\ Null \notin Calls \cup Notifiers
           /\ view \in [Calls -> {"idle", "alerted", "up"}]
<1>1. Typed /\ subs \in SubsType /\ call \in [Calls -> CallObject]
  BY DEF SInv, IInv, Typed, SubsType
<1>2. RefsOf(call, subs)
  BY DEF SInv, IInv, Counted, RefsOf, Pointers
<1>3. call[c].not # Null => subs[call[c].not].refs > 0
  BY <1>1, <1>2, HeldPositive
<1>4. call[c].not \in Notifiers \cup {Null}
  BY <1>1 DEF CallObject
<1> QED
  BY <1>1, <1>3, <1>4, CallAssumption DEF Typed

LEMMA DestructorPromise ==
    ASSUME SInv, NEW c \in Calls,
           NEW sb \in {subs, Notify(subs, call[c].not, "failed")},
           Destructor(c, sb)
    PROVE  Service!Gone({c}) /\ ViewState' /\ PendingHeld' /\ (~EarlyRefer => OwnerUp')
<1> DEFINE k == call[c].not
<1>1. /\ Typed /\ subs \in SubsType /\ call \in [Calls -> CallObject]
      /\ k \in Notifiers \cup {Null} /\ (k # Null => subs[k].refs > 0)
      /\ Null \notin Calls \cup Notifiers
      /\ view \in [Calls -> {"idle", "alerted", "up"}]
  BY Facts
<1>2. /\ call' = [call EXCEPT ![c] = FreeCall]
      /\ view' = [view EXCEPT ![c] = "idle"]
      /\ subs' = Dangle(Deref(sb, k), c)
  BY DEF Destructor
<1> HIDE DEF k
<1>3. /\ sb \in SubsType
      /\ \A n \in Notifiers :
            /\ sb[n].refs = subs[n].refs /\ sb[n].owner = subs[n].owner
            /\ \/ sb[n].told = subs[n].told
               \/ n = k /\ subs[n].told = "trying" /\ sb[n].told = "failed"
  <2>1. CASE sb = subs
    BY <2>1, <1>1
  <2>2. CASE sb = Notify(subs, k, "failed")
    <3>1. /\ Notify(subs, k, "failed") \in SubsType
          /\ \A n \in Notifiers : Notify(subs, k, "failed")[n].refs = subs[n].refs
      BY <1>1, NotifyFacts
    <3>2. ASSUME NEW n \in Notifiers
          PROVE  /\ sb[n].told =
                       IF n = k /\ subs[n].told = "trying" THEN "failed" ELSE subs[n].told
                 /\ sb[n].owner = subs[n].owner
      BY <2>2, <1>1, NotifyEffect
    <3> QED
      BY <2>2, <3>1, <3>2
  <2> QED
    BY <2>1, <2>2 DEF k
<1>4. ASSUME NEW n \in Notifiers
      PROVE  /\ subs'[n].told = IF n = k /\ sb[n].refs = 1 /\ sb[n].told = "trying"
                                THEN "ended" ELSE sb[n].told
             /\ subs'[n].owner = IF n = k /\ sb[n].refs = 1 THEN Null
                                 ELSE IF sb[n].owner = c THEN Null ELSE sb[n].owner
             /\ subs'[n].refs = IF n = k THEN sb[n].refs - 1 ELSE sb[n].refs
  <2> DEFINE db == Deref(sb, k)
  <2>1. k # Null => sb[k].refs > 0
    BY <1>1, <1>3
  <2>2. /\ db \in SubsType
        /\ db[n].refs = IF n = k THEN sb[n].refs - 1 ELSE sb[n].refs
    BY <1>1, <1>3, <2>1, DerefFacts
  <2>3. /\ db[n].told = IF n = k /\ sb[n].refs = 1 /\ sb[n].told = "trying"
                        THEN "ended" ELSE sb[n].told
        /\ db[n].owner = IF n = k /\ sb[n].refs = 1 THEN Null ELSE sb[n].owner
    BY <1>1, <1>3, <2>1, DerefEffect
  <2> HIDE DEF db
  <2>4. /\ Dangle(db, c)[n].told = db[n].told
        /\ Dangle(db, c)[n].owner = IF db[n].owner = c THEN Null ELSE db[n].owner
        /\ Dangle(db, c)[n].refs = db[n].refs
    BY <2>2, DangleEffect, DangleFacts
  <2>5. subs' = Dangle(db, c)
    BY <1>2 DEF db
  <2>6. Null # c
    BY <1>1
  <2>a. subs'[n].told = db[n].told /\ subs'[n].refs = db[n].refs
        /\ subs'[n].owner = IF db[n].owner = c THEN Null ELSE db[n].owner
    BY <2>4, <2>5
  <2>7. subs'[n].owner = IF n = k /\ sb[n].refs = 1 THEN Null
                         ELSE IF sb[n].owner = c THEN Null ELSE sb[n].owner
    BY <2>3, <2>6, <2>a
  <2> QED
    BY <2>2, <2>3, <2>7, <2>a
<1>5. subs' \in SubsType
  <2>1. k # Null => sb[k].refs > 0
    BY <1>1, <1>3
  <2>2. Deref(sb, k) \in SubsType
    BY <1>1, <1>3, <2>1, DerefFacts
  <2> QED
    BY <1>2, <2>2, DangleFacts
<1>6. view' = [d \in Calls |-> IF d \in {c} THEN "idle" ELSE view[d]]
  BY <1>1, <1>2
<1>7. Service!Gone({c})
  <2>1. ASSUME NEW n \in Notifiers
        PROVE  \/ subs'[n].told = subs[n].told
                  /\ (subs[n].told = "trying" => subs'[n].owner = subs[n].owner)
               \/ subs[n].told = "trying" /\ subs'[n].told \in {"failed", "ended"}
               \/ /\ subs[n].told = "trying" /\ subs'[n].told = "trying"
                  /\ subs[n].owner \in {c} /\ subs'[n].owner = Null
    BY <1>3, <1>4
  <2> QED
    BY <1>5, <1>6, <2>1, GoneStep
<1>8. ViewState'
  BY <1>1, <1>2 DEF SInv, ViewState
<1>9. PendingHeld'
  <2>1. ASSUME NEW n \in Notifiers, subs'[n].told = "trying" PROVE subs'[n].refs # 0
    <3>1. subs[n].told = "trying" /\ sb[n].told = "trying" /\ ~(n = k /\ sb[n].refs = 1)
      BY <1>3, <1>4, <2>1
    <3>2. subs[n].refs # 0 /\ sb[n].refs = subs[n].refs /\ sb[n].refs \in Nat
      BY <1>3, <3>1 DEF SInv, PendingHeld, SubsType, Notifier
    <3> QED
      BY <1>4, <3>1, <3>2
  <2> QED
    BY <2>1 DEF PendingHeld
<1>10. ASSUME ~EarlyRefer PROVE OwnerUp'
  <2>1. ASSUME NEW n \in Notifiers, subs'[n].told = "trying", subs'[n].owner # Null
        PROVE  call'[subs'[n].owner].state = "ESTABLISHED"
    <3>1. /\ subs[n].told = "trying" /\ subs'[n].owner = subs[n].owner
          /\ subs[n].owner # c
      BY <1>3, <1>4, <2>1
    <3>2. call[subs[n].owner].state = "ESTABLISHED"
      BY <1>10, <2>1, <3>1 DEF SInv, OwnerUp
    <3>3. subs[n].owner \in Calls
      BY <1>1, <2>1, <3>1 DEF SubsType, Notifier
    <3> QED
      BY <1>1, <1>2, <3>1, <3>2, <3>3
  <2> QED
    BY <2>1 DEF OwnerUp
<1> QED
  BY <1>7, <1>8, <1>9, <1>10

\* The steps in which requests end and nothing else is seen.
LEMMA OutcomesEnd ==
    ASSUME SInv, view' = view, subs' \in SubsType,
           \A d \in Calls : call'[d].state = call[d].state,
           \A n \in Notifiers :
               \/ /\ subs'[n].told = subs[n].told
                  /\ subs[n].told = "trying" =>
                        subs'[n].owner = subs[n].owner /\ subs'[n].refs # 0
               \/ subs[n].told = "trying" /\ subs'[n].told \in {"failed", "ended"}
    PROVE  Service!Gone({}) /\ ViewState' /\ PendingHeld' /\ (~EarlyRefer => OwnerUp')
<1>1. view' = [d \in Calls |-> IF d \in {} THEN "idle" ELSE view[d]]
  BY DEF SInv, IInv, Typed
<1>2. Service!Gone({})
  BY <1>1, GoneStep
<1>3. ViewState'
  BY DEF SInv, ViewState
<1>4. PendingHeld'
  BY DEF PendingHeld
<1>5. ASSUME ~EarlyRefer PROVE OwnerUp'
  <2>1. ASSUME NEW n \in Notifiers, subs'[n].told = "trying", subs'[n].owner # Null
        PROVE  call'[subs'[n].owner].state = "ESTABLISHED"
    <3>1. subs[n].told = "trying" /\ subs'[n].owner = subs[n].owner
      BY <2>1
    <3>2. subs[n].owner \in Calls
      BY <2>1, <3>1 DEF SInv, IInv, Typed, Notifier
    <3> QED
      BY <1>5, <2>1, <3>1, <3>2 DEF SInv, OwnerUp
  <2> QED
    BY <2>1 DEF OwnerUp
<1> QED
  BY <1>2, <1>3, <1>4, <1>5

\* Letting go of a notifier ends its request if nobody else holds it.
LEMMA DropEffect ==
    ASSUME SInv, NEW sb \in SubsType, NEW k \in Notifiers \cup {Null},
           k # Null => sb[k].refs > 0,
           \A m \in Notifiers : sb[m].told = "trying" => sb[m].refs # 0,
           NEW n \in Notifiers
    PROVE  \/ /\ Deref(sb, k)[n].told = sb[n].told
              /\ sb[n].told = "trying" => /\ Deref(sb, k)[n].owner = sb[n].owner
                                          /\ Deref(sb, k)[n].refs # 0
           \/ sb[n].told = "trying" /\ Deref(sb, k)[n].told = "ended"
<1>1. Deref(sb, k)[n].refs = IF n = k THEN sb[n].refs - 1 ELSE sb[n].refs
  BY DerefFacts
<1>2. /\ Deref(sb, k)[n].told = IF n = k /\ sb[n].refs = 1 /\ sb[n].told = "trying"
                                THEN "ended" ELSE sb[n].told
      /\ Deref(sb, k)[n].owner = IF n = k /\ sb[n].refs = 1 THEN Null ELSE sb[n].owner
  BY DerefEffect
<1>3. sb[n].refs \in Nat
  BY DEF SubsType, Notifier
<1> QED
  BY <1>1, <1>2, <1>3

LEMMA ReferRefusedPromise ==
    ASSUME SInv, NEW c \in Calls, ReferRefused(c)
    PROVE  Service!Gone({}) /\ ViewState' /\ PendingHeld' /\ (~EarlyRefer => OwnerUp')
<1> DEFINE k == call[c].not
<1>1. /\ Typed /\ subs \in SubsType /\ call \in [Calls -> CallObject]
      /\ k \in Notifiers \cup {Null} /\ (k # Null => subs[k].refs > 0)
  BY Facts
<1>2. call' = [call EXCEPT ![c].not = Null] /\ subs' = Deref(subs, k) /\ view' = view
  BY DEF ReferRefused
<1> HIDE DEF k
<1>3. subs' \in SubsType
  BY <1>1, <1>2, DerefFacts
<1>4. \A d \in Calls : call'[d].state = call[d].state
  BY <1>1, <1>2 DEF CallObject
<1>5. ASSUME NEW n \in Notifiers
      PROVE  \/ /\ subs'[n].told = subs[n].told
                /\ subs[n].told = "trying" =>
                      subs'[n].owner = subs[n].owner /\ subs'[n].refs # 0
             \/ subs[n].told = "trying" /\ subs'[n].told \in {"failed", "ended"}
  <2>1. \A m \in Notifiers : subs[m].told = "trying" => subs[m].refs # 0
    BY DEF SInv, PendingHeld
  <2> QED
    BY <1>1, <1>2, <2>1, DropEffect
<1> QED
  BY <1>2, <1>3, <1>4, <1>5, OutcomesEnd

LEMMA NotifierClosedPromise ==
    ASSUME SInv, NEW m \in Notifiers, NotifierClosed(m)
    PROVE  Service!Gone({}) /\ ViewState' /\ PendingHeld' /\ (~EarlyRefer => OwnerUp')
<1> DEFINE c  == subs[m].owner
           k  == call[c].not
           sb == Notify(subs, m, "ended")
<1>1. c \in Calls
  BY DEF NotifierClosed, SInv, IInv, Typed, Notifier
<1>2. call' = [call EXCEPT ![c].not = Null] /\ subs' = Deref(sb, k) /\ view' = view
  BY DEF NotifierClosed
<1> HIDE DEF c
<1>3. /\ Typed /\ subs \in SubsType /\ call \in [Calls -> CallObject]
      /\ k \in Notifiers \cup {Null} /\ (k # Null => subs[k].refs > 0)
  BY <1>1, Facts
<1> HIDE DEF k
<1>4. sb \in SubsType /\ \A n \in Notifiers : sb[n].refs = subs[n].refs
  BY <1>3, NotifyFacts
<1>5. ASSUME NEW n \in Notifiers
      PROVE  /\ sb[n].told = IF n = m /\ subs[n].told = "trying" THEN "ended"
                                                             ELSE subs[n].told
             /\ sb[n].owner = subs[n].owner
  BY <1>3, NotifyEffect
<1> HIDE DEF sb
<1>6. \A n \in Notifiers : sb[n].told = "trying" => sb[n].refs # 0
  BY <1>4, <1>5 DEF SInv, PendingHeld
<1>7. k # Null => sb[k].refs > 0
  BY <1>3, <1>4
<1>8. subs' \in SubsType
  BY <1>2, <1>3, <1>4, <1>7, DerefFacts
<1>9. \A d \in Calls : call'[d].state = call[d].state
  BY <1>2, <1>3 DEF CallObject
<1>10. ASSUME NEW n \in Notifiers
       PROVE  \/ /\ subs'[n].told = subs[n].told
                 /\ subs[n].told = "trying" =>
                       subs'[n].owner = subs[n].owner /\ subs'[n].refs # 0
              \/ subs[n].told = "trying" /\ subs'[n].told \in {"failed", "ended"}
  <2>1. \/ /\ subs'[n].told = sb[n].told
           /\ sb[n].told = "trying" => subs'[n].owner = sb[n].owner /\ subs'[n].refs # 0
        \/ sb[n].told = "trying" /\ subs'[n].told = "ended"
    BY <1>2, <1>3, <1>4, <1>6, <1>7, DropEffect
  <2> QED
    BY <1>5, <2>1
<1> QED
  BY <1>2, <1>8, <1>9, <1>10, OutcomesEnd

LEMMA UaDestructorPromise ==
    ASSUME SInv, UaDestructor
    PROVE  Service!Gone(Calls) /\ ViewState' /\ PendingHeld' /\ (~EarlyRefer => OwnerUp')
<1>1. /\ view' = [c \in Calls |-> "idle"]
      /\ subs' = [n \in Notifiers |-> [refs |-> 0, owner |-> Null,
                    told |-> IF subs[n].told = "trying" THEN "ended" ELSE subs[n].told]]
  BY DEF UaDestructor
<1>2. subs \in SubsType
  BY DEF SInv, IInv, Typed, SubsType
<1>3. \A n \in Notifiers :
         /\ subs'[n].told = IF subs[n].told = "trying" THEN "ended" ELSE subs[n].told
         /\ subs'[n].told # "trying"
  BY <1>1
<1>4. subs' \in SubsType
  BY <1>1, <1>2 DEF SubsType, Notifier
<1>5. view' = [c \in Calls |-> IF c \in Calls THEN "idle" ELSE view[c]]
  BY <1>1
<1>6. Service!Gone(Calls)
  BY <1>3, <1>4, <1>5, GoneStep
<1> QED
  BY <1>1, <1>3, <1>6 DEF ViewState, PendingHeld, OwnerUp

(***************************************************************************)
(* The steps that tell the application of a call.                          *)
(***************************************************************************)
\* Call c is reported to the application, and no request changes.
LEMMA AlertStep ==
    ASSUME SInv, NEW c \in Calls, call[c].state # "ESTABLISHED",
           view' = [view EXCEPT ![c] = "alerted"], subs' = subs,
           \A d \in Calls \ {c} : call'[d].state = call[d].state
    PROVE  Service!Alert(c) /\ ViewState' /\ PendingHeld' /\ (~EarlyRefer => OwnerUp')
<1>1. view[c] # "up" /\ view \in [Calls -> {"idle", "alerted", "up"}]
  BY DEF SInv, ViewState, IInv, Typed
<1>2. Service!Alert(c)
  BY <1>1 DEF Service!Alert
<1>3. ViewState' /\ PendingHeld'
  BY <1>1 DEF SInv, ViewState, PendingHeld
<1>4. ASSUME ~EarlyRefer PROVE OwnerUp'
  <2>1. \A n \in Notifiers : subs[n].owner \in Calls \cup {Null}
    BY DEF SInv, IInv, Typed, Notifier
  <2> QED
    BY <1>4, <2>1 DEF SInv, OwnerUp
<1> QED
  BY <1>2, <1>3, <1>4

\* CALL_EVENT_INCOMING, which is an alert only where the user is to answer.
LEMMA IncomingPromise ==
    ASSUME SInv, NEW c \in Calls, call[c].state # "ESTABLISHED",
           NEW r, NEW t, NEW s, IncomingEvent(c, r, t, s), subs' = subs
    PROVE  /\ ViewState' /\ PendingHeld' /\ (~EarlyRefer => OwnerUp')
           /\ Service!Alert(c) \/ UNCHANGED Service!vars
<1>1. Typed
  BY DEF SInv, IInv
<1>2. \A d \in Calls \ {c} : call'[d].state = call[d].state
  BY <1>1 DEF IncomingEvent, AlertUser, CallProgress, AutoAnswer, Typed
<1>3. CASE AlertUser(c, r, t, s)
  BY <1>2, <1>3, AlertStep DEF AlertUser
<1>4. CASE CallProgress(c, r, t, s) \/ AutoAnswer(c, r, t, s)
  <2>1. Unseen
    BY <1>4 DEF Unseen, CallProgress, AutoAnswer
  <2>2. \A d \in Calls : call'[d].state = call[d].state \/ call[d].state # "ESTABLISHED"
    BY <1>2
  <2> QED
    BY <2>1, <2>2, UnseenStep
<1> QED
  BY <1>3, <1>4 DEF IncomingEvent

LEMMA EstablishedPromise ==
    ASSUME SInv, NEW c \in Calls, Established(c)
    PROVE  /\ ViewState' /\ PendingHeld'
           /\ ~EarlyRefer => Service!Up(c) /\ OwnerUp'
<1> DEFINE k  == call[c].not
           sb == Notify(subs, k, "ok")
           req == [n \in Notifiers |->
                     [outcome |-> subs[n].told,
                      by |-> IF subs[n].told = "trying" THEN subs[n].owner ELSE Null]]
<1>1. /\ Typed /\ subs \in SubsType /\ call \in [Calls -> CallObject]
      /\ k \in Notifiers \cup {Null} /\ (k # Null => subs[k].refs > 0)
      /\ view \in [Calls -> {"idle", "alerted", "up"}]
  BY Facts
<1>2. /\ call[c].state # "ESTABLISHED" /\ view[c] # "up"
      /\ view' = [view EXCEPT ![c] = "up"] /\ subs' = Deref(sb, k)
  BY DEF Established, SInv, ViewState
<1>3. \A d \in Calls \ {c} : call'[d] = call[d]
  BY <1>1 DEF Established
<1>4. call'[c].state = "ESTABLISHED"
  BY <1>1 DEF Established, CallObject
<1> HIDE DEF k
<1>5. sb \in SubsType /\ \A n \in Notifiers : sb[n].refs = subs[n].refs
  BY <1>1, NotifyFacts
<1>6. ASSUME NEW n \in Notifiers
      PROVE  /\ sb[n].told = IF n = k /\ subs[n].told = "trying" THEN "ok"
                                                             ELSE subs[n].told
             /\ sb[n].owner = subs[n].owner
  BY <1>1, NotifyEffect
<1> HIDE DEF sb
<1>7. k # Null => sb[k].refs > 0
  BY <1>1, <1>5
<1>8. ASSUME NEW n \in Notifiers
      PROVE  /\ subs'[n].told = sb[n].told
             /\ sb[n].told = "trying" => /\ subs'[n].owner = subs[n].owner
                                         /\ subs'[n].refs # 0
  <2>1. \A m \in Notifiers : sb[m].told = "trying" => sb[m].refs # 0 /\ m # k
    BY <1>5, <1>6 DEF SInv, PendingHeld
  <2>2. subs'[n].told = sb[n].told
    <3>1. subs'[n].told = IF n = k /\ sb[n].refs = 1 /\ sb[n].told = "trying"
                          THEN "ended" ELSE sb[n].told
      BY <1>1, <1>2, <1>5, <1>7, DerefEffect
    <3> QED
      BY <2>1, <3>1
  <2>3. \/ /\ subs'[n].told = sb[n].told
           /\ sb[n].told = "trying" => subs'[n].owner = sb[n].owner /\ subs'[n].refs # 0
        \/ sb[n].told = "trying" /\ subs'[n].told = "ended"
    BY <1>1, <1>2, <1>5, <1>7, <2>1, DropEffect
  <2> QED
    BY <1>6, <2>2, <2>3
<1>9. ASSUME ~EarlyRefer PROVE Service!Up(c)
  <2>1. CASE k \in Notifiers /\ subs[k].told = "trying"
    <3>1. subs[k].owner # c
      BY <1>2, <1>9, <2>1, CallAssumption DEF SInv, OwnerUp
    <3>2. req' = [req EXCEPT ![k] = Service!Over("ok")]
      BY <1>6, <1>8, <2>1 DEF Service!Over
    <3>3. Service!IsPending(k) /\ req[k].by # c
      BY <2>1, <3>1 DEF Service!IsPending
    <3> QED
      BY <1>2, <2>1, <3>2, <3>3 DEF Service!Up
  <2>2. CASE ~(k \in Notifiers /\ subs[k].told = "trying")
    <3>1. \A n \in Notifiers : req'[n] = req[n]
      BY <1>6, <1>8, <2>2
    <3>2. req' = req
      BY <3>1
    <3> QED
      BY <1>2, <3>2 DEF Service!Up
  <2> QED
    BY <2>1, <2>2
<1>10. ViewState'
  BY <1>1, <1>2, <1>3, <1>4 DEF SInv, ViewState
<1>11. PendingHeld'
  BY <1>8 DEF PendingHeld
<1>12. ASSUME ~EarlyRefer PROVE OwnerUp'
  <2>1. ASSUME NEW n \in Notifiers, subs'[n].told = "trying", subs'[n].owner # Null
        PROVE  call'[subs'[n].owner].state = "ESTABLISHED"
    <3>1. subs[n].told = "trying" /\ subs'[n].owner = subs[n].owner
      BY <1>6, <1>8, <2>1
    <3>2. call[subs[n].owner].state = "ESTABLISHED" /\ subs[n].owner \in Calls
      BY <1>1, <1>12, <2>1, <3>1 DEF SInv, OwnerUp, SubsType, Notifier
    <3> QED
      BY <1>3, <1>4, <3>1, <3>2
  <2> QED
    BY <2>1 DEF OwnerUp
<1> QED
  BY <1>9, <1>10, <1>11, <1>12

(***************************************************************************)
(* REFER: request n reaches call c, whose older request may end with it.   *)
(***************************************************************************)
Answer(c) == {Service!Pending(c), Service!Over("failed")}

LEMMA AskStep ==
    ASSUME SInv, NEW c \in Calls, NEW n \in Notifiers, NEW o \in Answer(c),
           view' = view, Deref(subs, call[c].not)[n].refs = 0,
           [outcome |-> subs'[n].told,
            by |-> IF subs'[n].told = "trying" THEN subs'[n].owner ELSE Null] = o,
           \A m \in Notifiers \ {n} :
               /\ subs'[m].told = Deref(subs, call[c].not)[m].told
               /\ subs'[m].owner = Deref(subs, call[c].not)[m].owner
    PROVE  Service!Ask(c, n)
<1> DEFINE k == call[c].not
           req == [m \in Notifiers |->
                     [outcome |-> subs[m].told,
                      by |-> IF subs[m].told = "trying" THEN subs[m].owner ELSE Null]]
<1>1. /\ subs \in SubsType /\ k \in Notifiers \cup {Null}
      /\ (k # Null => subs[k].refs > 0) /\ Null \notin Calls \cup Notifiers
  BY Facts
<1>2. ASSUME NEW m \in Notifiers
      PROVE  /\ Deref(subs, k)[m].told =
                  IF m = k /\ subs[m].refs = 1 /\ subs[m].told = "trying"
                  THEN "ended" ELSE subs[m].told
             /\ Deref(subs, k)[m].owner =
                  IF m = k /\ subs[m].refs = 1 THEN Null ELSE subs[m].owner
             /\ Deref(subs, k)[m].refs = IF m = k THEN subs[m].refs - 1 ELSE subs[m].refs
  BY <1>1, DerefEffect, DerefFacts
<1>3. \A m \in Notifiers : subs[m].told = "trying" => subs[m].refs # 0
  BY DEF SInv, PendingHeld
<1>4. \A m \in Notifiers : subs[m].refs \in Nat
  BY <1>1 DEF SubsType, Notifier
<1> HIDE DEF k
<1>5. subs[n].told = "trying" => n = k
  BY <1>2, <1>3, <1>4 DEF k
<1>6. req'[n] = o /\ o \in {Service!Pending(c), Service!Over("failed")}
  BY DEF Answer
<1>7. ASSUME NEW m \in Notifiers \ {n}
      PROVE  req'[m] = IF m = k /\ subs[m].refs = 1 /\ subs[m].told = "trying"
                       THEN Service!Over("ended") ELSE req[m]
  BY <1>2 DEF Service!Over, k
<1>8. CASE k \in Notifiers /\ k # n /\ subs[k].refs = 1 /\ subs[k].told = "trying"
  <2>1. req' = [req EXCEPT ![k] = Service!Over("ended"), ![n] = o]
    BY <1>6, <1>7, <1>8
  <2>2. Service!IsPending(k) /\ ~Service!IsPending(n)
    BY <1>5, <1>8 DEF Service!IsPending
  <2> QED
    BY <1>6, <1>8, <2>1, <2>2 DEF Service!Ask
<1>9. CASE ~(k \in Notifiers /\ k # n /\ subs[k].refs = 1 /\ subs[k].told = "trying")
  <2>1. req' = [req EXCEPT ![n] = o]
    <3>1. \A m \in Notifiers \ {n} : req'[m] = req[m]
      BY <1>7, <1>9
    <3> QED
      BY <1>6, <3>1
  <2>2. CASE subs[n].told = "trying"
    <3>1. Service!IsPending(n)
      BY <2>2 DEF Service!IsPending
    <3>2. req' = [req EXCEPT ![n] = Service!Over("ended"), ![n] = o]
      BY <2>1
    <3> QED
      BY <1>6, <3>1, <3>2 DEF Service!Ask
  <2>3. CASE subs[n].told # "trying"
    <3>1. ~Service!IsPending(n)
      BY <2>3 DEF Service!IsPending
    <3> QED
      BY <1>6, <2>1, <3>1 DEF Service!Ask
  <2> QED
    BY <2>2, <2>3
<1> QED
  BY <1>8, <1>9

\* The notifiers after a REFER was accepted keep what is added to the invariant.
LEMMA AcceptedInv ==
    ASSUME SInv, NEW c \in Live, NEW n \in Notifiers
    PROVE  /\ Accepted(c, n)[n] = [refs |-> 1, owner |-> c, told |-> "trying"]
           /\ \A m \in Notifiers \ {n} :
                 /\ Accepted(c, n)[m] = Deref(subs, call[c].not)[m]
                 /\ Accepted(c, n)[m].told = "trying" =>
                       /\ subs[m].told = "trying"
                       /\ Accepted(c, n)[m].owner = subs[m].owner
                       /\ Accepted(c, n)[m].refs # 0
<1> DEFINE k == call[c].not
           a == Deref(subs, k)
<1>1. c \in Calls
  BY DEF Live
<1>2. /\ subs \in SubsType /\ k \in Notifiers \cup {Null}
      /\ (k # Null => subs[k].refs > 0)
  BY <1>1, Facts
<1>3. a \in SubsType
  BY <1>2, DerefFacts
<1>4. \A m \in Notifiers : subs[m].told = "trying" => subs[m].refs # 0
  BY DEF SInv, PendingHeld
<1>5. ASSUME NEW m \in Notifiers, a[m].told = "trying"
      PROVE  subs[m].told = "trying" /\ a[m].owner = subs[m].owner /\ a[m].refs # 0
  <2>1. \/ /\ a[m].told = subs[m].told
           /\ subs[m].told = "trying" => a[m].owner = subs[m].owner /\ a[m].refs # 0
        \/ subs[m].told = "trying" /\ a[m].told = "ended"
    BY <1>2, <1>4, DropEffect
  <2> QED
    BY <1>5, <2>1
<1>6. Accepted(c, n) = [a EXCEPT ![n] = [refs |-> 1, owner |-> c, told |-> "trying"]]
  BY DEF Accepted
<1> HIDE DEF a
<1>7. /\ Accepted(c, n)[n] = [refs |-> 1, owner |-> c, told |-> "trying"]
      /\ \A m \in Notifiers \ {n} : Accepted(c, n)[m] = a[m]
  BY <1>3, <1>6 DEF SubsType
<1> QED
  BY <1>5, <1>7 DEF a

LEMMA ReferFailsPromise ==
    ASSUME SInv, NEW c \in Calls, NEW n \in Notifiers, ReferFails(c, n)
    PROVE  /\ Service!Ask(c, n) /\ ViewState' /\ PendingHeld'
           /\ (~EarlyRefer => OwnerUp')
<1> DEFINE acc == Accepted(c, n)
           nb  == Notify(acc, n, "failed")
           a   == Deref(subs, call[c].not)
<1>1. c \in Live /\ a[n].refs = 0
  BY DEF ReferFails, CanRefer, SInv, IInv, HandlersGone
<1>2. call' = [call EXCEPT ![c].not = Null] /\ subs' = Deref(nb, n) /\ view' = view
  BY DEF ReferFails
<1>3. /\ Typed /\ call \in [Calls -> CallObject] /\ subs \in SubsType
      /\ Null \notin Calls \cup Notifiers
  BY Facts
<1>4. acc \in SubsType
  <2>1. IInv
    BY DEF SInv
  <2> QED
    BY <1>1, <2>1, AcceptedFacts
<1>5. /\ acc[n] = [refs |-> 1, owner |-> c, told |-> "trying"]
      /\ \A m \in Notifiers \ {n} :
            /\ acc[m] = a[m]
            /\ acc[m].told = "trying" => /\ subs[m].told = "trying"
                                         /\ acc[m].owner = subs[m].owner
                                         /\ acc[m].refs # 0
  BY <1>1, AcceptedInv
<1> HIDE DEF acc, a
<1>6. nb \in SubsType /\ \A m \in Notifiers : nb[m].refs = acc[m].refs
  BY <1>4, NotifyFacts
<1>7. ASSUME NEW m \in Notifiers
      PROVE  /\ nb[m].told = IF m = n /\ acc[m].told = "trying" THEN "failed" ELSE acc[m].told
             /\ nb[m].owner = acc[m].owner
  BY <1>4, NotifyEffect
<1> HIDE DEF nb
<1>8. n # Null => nb[n].refs > 0
  BY <1>5, <1>6
<1>9. ASSUME NEW m \in Notifiers
      PROVE  /\ subs'[m].told = IF m = n THEN "failed" ELSE acc[m].told
             /\ m # n => subs'[m].owner = acc[m].owner /\ subs'[m].refs = acc[m].refs
  <2>1. /\ subs'[m].told = IF m = n /\ nb[m].refs = 1 /\ nb[m].told = "trying"
                           THEN "ended" ELSE nb[m].told
        /\ subs'[m].owner = IF m = n /\ nb[m].refs = 1 THEN Null ELSE nb[m].owner
    BY <1>2, <1>6, <1>8, DerefEffect
  <2>2. subs'[m].refs = IF m = n THEN nb[m].refs - 1 ELSE nb[m].refs
    BY <1>2, <1>6, <1>8, DerefFacts
  <2> QED
    BY <1>5, <1>6, <1>7, <2>1, <2>2
<1>10. Service!Ask(c, n)
  <2>1. [outcome |-> subs'[n].told,
         by |-> IF subs'[n].told = "trying" THEN subs'[n].owner ELSE Null]
            = Service!Over("failed")
    BY <1>9 DEF Service!Over
  <2>2. \A m \in Notifiers \ {n} :
            subs'[m].told = a[m].told /\ subs'[m].owner = a[m].owner
    BY <1>5, <1>9
  <2> QED
    BY <1>1, <1>2, <2>1, <2>2, AskStep DEF Answer, a
<1>11. \A d \in Calls : call'[d].state = call[d].state
  BY <1>2, <1>3 DEF CallObject
<1>12. ViewState'
  BY <1>2, <1>11 DEF SInv, ViewState
<1>13. PendingHeld'
  BY <1>5, <1>9 DEF PendingHeld
<1>14. ASSUME ~EarlyRefer PROVE OwnerUp'
  <2>1. ASSUME NEW m \in Notifiers, subs'[m].told = "trying", subs'[m].owner # Null
        PROVE  call'[subs'[m].owner].state = "ESTABLISHED"
    <3>1. m # n /\ subs[m].told = "trying" /\ subs'[m].owner = subs[m].owner
      BY <1>5, <1>9, <2>1
    <3>2. call[subs[m].owner].state = "ESTABLISHED" /\ subs[m].owner \in Calls
      BY <1>3, <1>14, <2>1, <3>1 DEF SInv, OwnerUp, SubsType, Notifier
    <3> QED
      BY <1>11, <3>1, <3>2
  <2> QED
    BY <2>1 DEF OwnerUp
<1> QED
  BY <1>10, <1>12, <1>13, <1>14

LEMMA ReferConnectsPromise ==
    ASSUME SInv, NEW c \in Calls, NEW n \in Notifiers, NEW d \in Calls,
           ReferConnects(c, n, d)
    PROVE  /\ Service!Ask(c, n) /\ ViewState' /\ PendingHeld'
           /\ (~EarlyRefer => OwnerUp')
<1> DEFINE acc == Accepted(c, n)
           a   == Deref(subs, call[c].not)
<1>1. c \in Live /\ d \notin Live /\ a[n].refs = 0
  BY DEF ReferConnects, CanRefer, SInv, IInv, HandlersGone
<1>2. /\ subs' = [acc EXCEPT ![n].refs = @ + 1] /\ view' = view
      /\ call' = [call EXCEPT ![c].not = n, ![d] = NewCall("OUTGOING", n)]
  BY DEF ReferConnects, Ref
<1>3. /\ Typed /\ call \in [Calls -> CallObject] /\ subs \in SubsType
      /\ Null \notin Calls \cup Notifiers
  BY Facts
<1>4. acc \in SubsType
  <2>1. IInv
    BY DEF SInv
  <2> QED
    BY <1>1, <2>1, AcceptedFacts
<1>5. /\ acc[n] = [refs |-> 1, owner |-> c, told |-> "trying"]
      /\ \A m \in Notifiers \ {n} :
            /\ acc[m] = a[m]
            /\ acc[m].told = "trying" => /\ subs[m].told = "trying"
                                         /\ acc[m].owner = subs[m].owner
                                         /\ acc[m].refs # 0
  BY <1>1, AcceptedInv
<1> HIDE DEF acc, a
<1>6. subs'[n].told = "trying" /\ subs'[n].owner = c /\ subs'[n].refs # 0
  BY <1>2, <1>4, <1>5 DEF SubsType, Notifier
<1>7. \A m \in Notifiers \ {n} : subs'[m] = acc[m]
  BY <1>2, <1>4 DEF SubsType
<1>8. Service!Ask(c, n)
  <2>1. [outcome |-> subs'[n].told,
         by |-> IF subs'[n].told = "trying" THEN subs'[n].owner ELSE Null]
            = Service!Pending(c)
    BY <1>6 DEF Service!Pending
  <2>2. \A m \in Notifiers \ {n} :
            subs'[m].told = a[m].told /\ subs'[m].owner = a[m].owner
    BY <1>5, <1>7
  <2> QED
    BY <1>1, <1>2, <2>1, <2>2, AskStep DEF Answer, a
<1>9. c # d /\ \A e \in Calls \ {d} : call'[e].state = call[e].state
  <2>1. c # d
    BY <1>1
  <2>2. \A e \in Calls \ {c, d} : call'[e] = call[e]
    BY <1>2, <1>3
  <2>3. call'[c].state = call[c].state
    BY <1>2, <1>3, <2>1 DEF CallObject
  <2> QED
    BY <2>1, <2>2, <2>3
<1>10. call[d].state = "FREE"
  BY <1>1 DEF Live
<1>11. ViewState'
  BY <1>2, <1>9, <1>10 DEF SInv, ViewState
<1>12. PendingHeld'
  BY <1>5, <1>6, <1>7 DEF PendingHeld
<1>13. ASSUME ~EarlyRefer PROVE OwnerUp'
  <2>1. call[c].state = "ESTABLISHED"
    BY <1>13 DEF ReferConnects, CanRefer, SInv, IInv, SessionState
  <2>2. ASSUME NEW m \in Notifiers, subs'[m].told = "trying", subs'[m].owner # Null
        PROVE  call'[subs'[m].owner].state = "ESTABLISHED"
    <3>1. CASE m = n
      BY <1>6, <1>9, <2>1, <3>1
    <3>2. CASE m # n
      <4>1. subs[m].told = "trying" /\ subs'[m].owner = subs[m].owner
        BY <1>5, <1>7, <2>2, <3>2
      <4>2. call[subs[m].owner].state = "ESTABLISHED" /\ subs[m].owner \in Calls
        BY <1>3, <1>13, <2>2, <4>1 DEF SInv, OwnerUp, SubsType, Notifier
      <4> QED
        BY <1>9, <1>10, <4>1, <4>2
    <3> QED
      BY <3>1, <3>2
  <2> QED
    BY <2>2 DEF OwnerUp
<1> QED
  BY <1>8, <1>11, <1>12, <1>13

(***************************************************************************)
(* Every step is one of the service, or is not seen.                       *)
(***************************************************************************)
Kept == ViewState' /\ PendingHeld' /\ (~EarlyRefer => OwnerUp')

Promised == Kept /\ (~EarlyRefer => [Service!Next]_(Service!vars))

LEMMA PromiseStep ==
    ASSUME SInv, [Handler]_vars
    PROVE  Promised
<1> USE DEF Kept, Promised
<1>1. Typed /\ call \in [Calls -> CallObject]
  BY DEF SInv, IInv, Typed
<1>2. ASSUME Unseen, \A d \in Calls : \/ call'[d].state = call[d].state
                                      \/ call[d].state # "ESTABLISHED"
      PROVE  Kept /\ UNCHANGED Service!vars
  BY <1>2, UnseenStep
<1>3. ASSUME NEW c \in Calls, IncomingCall(c)
      PROVE  Promised
  <2>1. call[c].state # "ESTABLISHED"
    BY <1>3 DEF IncomingCall, Live
  <2>2. CASE RejectCodec
    <3>1. Unseen /\ call' = call
      BY <2>2 DEF RejectCodec, Unseen
    <3> QED
      BY <1>2, <3>1
  <2>3. CASE AcceptCall(c)
    <3>1. CASE UseMnat
      <4>1. Unseen /\ \A d \in Calls \ {c} : call'[d] = call[d]
        BY <1>1, <2>3, <3>1 DEF AcceptCall, Unseen
      <4> QED
        BY <1>2, <2>1, <4>1
    <3>2. CASE ~UseMnat
      <4>1. /\ subs' = subs
            /\ IncomingEvent(c, NewCall("INCOMING", Null), tmrInv \cup {c}, "ringing")
        BY <2>3, <3>2 DEF AcceptCall
      <4>2. Kept /\ (Service!Alert(c) \/ UNCHANGED Service!vars)
        BY <2>1, <4>1, IncomingPromise
      <4> QED
        BY <4>2 DEF Service!Next
    <3> QED
      BY <3>1, <3>2
  <2> QED
    BY <1>3, <2>2, <2>3 DEF IncomingCall
<1>4. ASSUME NEW c \in Calls,
             \/ InviteTimeout(c) \/ MnatFailed(c) \/ SessionClosed(c)
             \/ MediaError(c) \/ UaHangup(c) \/ TransferDone(c)
      PROVE  Promised
  <2>1. PICK sb \in {subs, Notify(subs, call[c].not, "failed")} : Destructor(c, sb)
    BY <1>4 DEF InviteTimeout, MnatFailed, SessionClosed, MediaError, UaHangup,
                TransferDone, ClosedEvent
  <2>2. Kept /\ Service!Gone({c})
    BY <2>1, DestructorPromise
  <2> QED
    BY <2>2 DEF Service!Next
<1>5. ASSUME NEW c \in Calls, CallTransfer(c) \/ TransferClosed(c)
      PROVE  Promised
  <2>1. Unseen /\ call' = call
    BY <1>5 DEF CallTransfer, TransferClosed, Unseen
  <2> QED
    BY <1>2, <2>1
<1>6. ASSUME NEW c \in Calls, UaConnect(c)
      PROVE  Promised
  <2>1. call[c].state # "ESTABLISHED"
    BY <1>6 DEF UaConnect, Live
  <2>2. Unseen /\ \A d \in Calls \ {c} : call'[d] = call[d]
    BY <1>1, <1>6 DEF UaConnect, Unseen
  <2> QED
    BY <1>2, <2>1, <2>2
<1>7. ASSUME NEW c \in Calls, MnatReady(c)
      PROVE  Promised
  <2> DEFINE r == [call[c] EXCEPT !.mnatWait = FALSE]
  <2>1. CASE call[c].state = "INCOMING"
    <3>1. IncomingEvent(c, r, tmrInv, sess[c]) /\ subs' = subs
      BY <1>7, <2>1 DEF MnatReady
    <3> HIDE DEF r
    <3>2. Kept /\ (Service!Alert(c) \/ UNCHANGED Service!vars)
      BY <2>1, <3>1, IncomingPromise
    <3> QED
      BY <3>2 DEF Service!Next
  <2>2. CASE call[c].state # "INCOMING"
    <3>1. Unseen /\ call' = [call EXCEPT ![c] = r]
      BY <1>7, <2>2 DEF MnatReady, Unseen
    <3>2. \A d \in Calls : call'[d].state = call[d].state
      BY <1>1, <3>1 DEF CallObject
    <3> QED
      BY <1>2, <3>1, <3>2
  <2> QED
    BY <2>1, <2>2
<1>8. ASSUME NEW c \in Calls, NEW scode \in {180, 182, 183}, NEW media \in BOOLEAN,
             Progress(c, scode, media)
      PROVE  Promised
  <2>1. call[c].state # "ESTABLISHED"
    BY <1>8 DEF Progress, SInv, IInv, SessionState
  <2>2. \A d \in Calls \ {c} : call'[d].state = call[d].state
    BY <1>1, <1>8 DEF Progress
  <2>3. view' = [view EXCEPT ![c] = "alerted"] /\ subs' = subs
    BY <1>8 DEF Progress
  <2>a. Service!Alert(c) /\ ViewState' /\ PendingHeld' /\ (~EarlyRefer => OwnerUp')
    <3> HIDE DEF Kept, Promised
    <3> QED
      BY <2>1, <2>2, <2>3, AlertStep
  <2>4. Kept /\ Service!Alert(c)
    BY <2>a
  <2> QED
    BY <2>4 DEF Service!Next
<1>9. ASSUME NEW c \in Calls, Established(c)
      PROVE  Promised
  <2>1. Kept /\ (~EarlyRefer => Service!Up(c))
    BY <1>9, EstablishedPromise
  <2> QED
    BY <2>1 DEF Service!Next
<1>10. ASSUME NEW c \in Calls, NEW hold \in BOOLEAN, CallHold(c, hold)
       PROVE  Promised
  <2>1. Unseen /\ call' = [call EXCEPT ![c].hold = hold]
    BY <1>10 DEF CallHold, Unseen
  <2>2. \A d \in Calls : call'[d].state = call[d].state
    BY <1>1, <2>1 DEF CallObject
  <2> QED
    BY <1>2, <2>1, <2>2
<1>11. ASSUME NEW c \in Calls, UaAnswer(c) \/ Renegotiate(c)
       PROVE  Promised
  <2>1. Unseen /\ (UpdateMedia(c) \/ UNCHANGED call)
    BY <1>11 DEF UaAnswer, Renegotiate, Unseen
  <2>2. \A d \in Calls : call'[d].state = call[d].state
    BY <1>1, <2>1, UpdateMediaFacts
  <2> QED
    BY <1>2, <2>1, <2>2
<1>12. ASSUME NEW c \in Calls, ReferRefused(c)
       PROVE  Promised
  <2>1. Kept /\ Service!Gone({})
    BY <1>12, ReferRefusedPromise
  <2> QED
    BY <2>1 DEF Service!Next
<1>13. ASSUME NEW c \in Calls, NEW n \in Notifiers, NEW d \in Calls,
              ReferConnects(c, n, d)
       PROVE  Promised
  <2>1. Kept /\ Service!Ask(c, n)
    BY <1>13, ReferConnectsPromise
  <2> QED
    BY <2>1 DEF Service!Next
<1>14. ASSUME NEW c \in Calls, NEW n \in Notifiers, ReferFails(c, n)
       PROVE  Promised
  <2>1. Kept /\ Service!Ask(c, n)
    BY <1>14, ReferFailsPromise
  <2> QED
    BY <2>1 DEF Service!Next
<1>15. ASSUME NEW n \in Notifiers, NotifierClosed(n)
       PROVE  Promised
  <2>1. Kept /\ Service!Gone({})
    BY <1>15, NotifierClosedPromise
  <2> QED
    BY <2>1 DEF Service!Next
<1>16. CASE UaDestructor
  <2>1. Kept /\ Service!Gone(Calls)
    BY <1>16, UaDestructorPromise
  <2> QED
    BY <2>1 DEF Service!Next
<1>17. CASE PlayEnds \/ UNCHANGED vars
  <2>1. Unseen /\ call' = call
    BY <1>17 DEF PlayEnds, vars, Unseen
  <2> QED
    BY <1>2, <2>1
<1> HIDE DEF Kept, Promised
<1>18. ASSUME NEW c \in Calls,
              \/ IncomingCall(c) \/ InviteTimeout(c) \/ UaAnswer(c)
              \/ UaConnect(c) \/ MnatReady(c) \/ MnatFailed(c)
              \/ \E scode \in {180, 182, 183}, media \in BOOLEAN :
                    Progress(c, scode, media)
              \/ Established(c) \/ SessionClosed(c) \/ MediaError(c) \/ UaHangup(c)
              \/ \E hold \in BOOLEAN : CallHold(c, hold)
              \/ Renegotiate(c) \/ ReferRefused(c)
              \/ \E n \in Notifiers, d \in Calls : ReferConnects(c, n, d)
              \/ \E n \in Notifiers : ReferFails(c, n)
              \/ CallTransfer(c) \/ TransferDone(c) \/ TransferClosed(c)
       PROVE  Promised
  BY <1>3, <1>4, <1>5, <1>6, <1>7, <1>8, <1>9, <1>10, <1>11, <1>12, <1>13,
     <1>14, <1>18
<1> QED
  BY <1>15, <1>16, <1>17, <1>18 DEF Handler

LEMMA PromiseInit ==
    ASSUME Init PROVE ~stale /\ SInv /\ Service!Init
<1>1. IInv
  BY InitInv
<1>2. ViewState /\ PendingHeld /\ OwnerUp
  BY DEF Init, ViewState, PendingHeld, OwnerUp
<1>3. Service!Init
  BY DEF Init, Service!Init, Service!Over
<1> QED
  BY <1>1, <1>2, <1>3 DEF SInv, Init

(***************************************************************************)
(* A step after which no freed call was used is one of the handlers above. *)
(***************************************************************************)
Sound == stale \in BOOLEAN /\ (~stale => SInv)

LEMMA SoundStep ==
    ASSUME Sound, [Next]_vars
    PROVE  /\ Sound'
           /\ ~stale' => ~stale /\ SInv /\ SInv' /\ [Handler]_vars
<1>1. stale' \in BOOLEAN
  BY DEF Sound, Next, StaleClose, vars
<1>2. ASSUME ~stale' PROVE ~stale /\ [Handler]_vars
  <2>1. CASE Handler /\ UNCHANGED stale
    BY <1>2, <2>1
  <2>2. CASE \E n \in Notifiers : StaleClose(n)
    BY <1>2, <2>2 DEF StaleClose
  <2>3. CASE UNCHANGED vars
    BY <1>2, <2>3 DEF vars
  <2> QED
    BY <2>1, <2>2, <2>3 DEF Next
<1>3. ASSUME ~stale' PROVE SInv /\ SInv'
  <2>1. SInv /\ [Handler]_vars
    BY <1>2, <1>3 DEF Sound
  <2>2. IInv'
    BY <2>1, NextInv DEF SInv
  <2>3. Kept
    BY <2>1, PromiseStep DEF Promised
  <2> QED
    BY <2>1, <2>2, <2>3 DEF SInv, Kept
<1> QED
  BY <1>1, <1>2, <1>3 DEF Sound

THEOREM Invariance == Spec => []Sound
<1>1. ASSUME Init PROVE Sound
  <2>1. stale = FALSE
    BY <1>1 DEF Init
  <2>2. SInv
    BY <1>1, PromiseInit
  <2> QED
    BY <2>1, <2>2 DEF Sound
<1>2. Sound /\ [Next]_vars => Sound'
  BY SoundStep
<1> QED
  BY <1>1, <1>2, PTL DEF Spec

(***************************************************************************)
(* No timer, session or subscription outlives its call, each live call is  *)
(* in the list of the user agent exactly once (the paths to                *)
(* call_destructor in call.c and ua.c), and every notifier whose close     *)
(* handler can still come is held by a live call: by the one it comes with *)
(* or, where that is gone, by one that was made for the transfer.          *)
(***************************************************************************)
THEOREM HandlersSafe == Spec => []HandlersLive
<1>1. ASSUME SInv PROVE NotifierKept
  <2>1. ASSUME NEW n \in Notifiers, subs[n].told = "trying"
        PROVE  \E d \in Live : call[d].not = n
    <3>1. subs[n].refs # 0
      BY <1>1, <2>1 DEF SInv, PendingHeld
    <3>2. subs[n].refs = Cardinality({d \in Calls : call[d].not = n})
      BY <1>1 DEF SInv, IInv, Counted
    <3>3. {d \in Calls : call[d].not = n} # {}
      BY <3>1, <3>2, FS_EmptySet
    <3>4. PICK d \in Calls : call[d].not = n
      BY <3>3
    <3>5. d \in Live
      BY <1>1, <3>4, CallAssumption DEF SInv, IInv, FreeClean, FreeCall
    <3> QED
      BY <3>4, <3>5
  <2> QED
    BY <2>1 DEF NotifierKept
<1>2. Sound => HandlersLive
  BY <1>1 DEF Sound, SInv, IInv, HandlersLive
<1> QED
  BY <1>2, Invariance, PTL

(***************************************************************************)
(* The state of call control is well typed, until a handler is called with *)
(* a freed call; above all, no reference count of a notifier drops below   *)
(* zero before.                                                            *)
(***************************************************************************)
THEOREM TypeCorrect == Spec => []TypeOK
<1>1. Sound => TypeOK
  BY DEF Sound, SInv, IInv, TypeOK
<1> QED
  BY <1>1, Invariance, PTL

(***************************************************************************)
(* The notifier of a REFER has one reference for each call that points to  *)
(* it, whatever transfers, failures and hangups come (call_alloc,          *)
(* call_notify_sipfrag, sipnot_close_handler, call_destructor), until its  *)
(* close handler comes with a freed call.                                  *)
(***************************************************************************)
THEOREM RefsCounted == Spec => []RefsMatch
<1>1. Sound => RefsMatch
  BY DEF Sound, SInv, IInv, RefsMatch
<1> QED
  BY <1>1, Invariance, PTL

(***************************************************************************)
(* Every call that waits for an answer has its 120 s timer, but for the    *)
(* accounts that answer with early media (call_accept, call_progress).     *)
(***************************************************************************)
THEOREM TimerRuns == Spec => []IncomingTimed
<1>1. Sound => IncomingTimed
  BY DEF Sound, SInv, IInv, IncomingTimed
<1> QED
  BY <1>1, Invariance, PTL

(***************************************************************************)
(* Call control implements its service, with any number of calls and of    *)
(* transfers, for peers that ask for a transfer in an established call:    *)
(* sipsess_refer_handler, sipsess_estab_handler, sipsess_close_handler,    *)
(* call_destructor and every other handler of call.c taken together.       *)
(***************************************************************************)
THEOREM ServiceImplemented == ~EarlyRefer /\ Spec => ServicePromise
<1> DEFINE TInv == Sound /\ ~EarlyRefer
<1>1. ~EarlyRefer /\ Init => TInv /\ Service!Init
  <2> SUFFICES ASSUME Init PROVE Sound /\ Service!Init
    OBVIOUS
  <2>1. stale = FALSE
    BY DEF Init
  <2> QED
    BY <2>1, PromiseInit DEF Sound
<1>2. TInv /\ [Next]_vars => TInv' /\ [stale' \/ Service!Next]_(Service!vars)
  <2> SUFFICES ASSUME TInv, [Next]_vars
               PROVE  TInv' /\ [stale' \/ Service!Next]_(Service!vars)
    OBVIOUS
  <2>1. Sound' /\ ~EarlyRefer'
    BY SoundStep
  <2>2. ASSUME ~stale' PROVE [Service!Next]_(Service!vars)
    <3>1. SInv /\ [Handler]_vars
      BY <2>2, SoundStep
    <3> QED
      BY <3>1, PromiseStep DEF Promised
  <2> QED
    BY <2>1, <2>2
<1> HIDE DEF TInv
<1> QED
  BY <1>1, <1>2, PTL DEF Spec, ServicePromise

(***************************************************************************)
(* A tone that repeats for ever has a call behind it.                      *)
(***************************************************************************)
\* The player goes on, and so does the call it plays for.
LEMMA ToneGoesOn ==
    ASSUME ToneOfCall, play' = play,
           \A c \in Calls :
              /\ call[c].state = "INCOMING" => call'[c].state = "INCOMING"
              /\ sess[c] = "inviting" /\ call[c].media = "off" =>
                    sess'[c] = "inviting" /\ call'[c].media = "off"
    PROVE  ToneOfCall'
BY DEF ToneOfCall

LEMMA ToneStep ==
    ASSUME IInv, ToneOfCall, [Handler]_vars PROVE ToneOfCall'
<1>1. /\ Typed /\ call \in [Calls -> CallObject] /\ sess \in [Calls -> Session]
      /\ \A c \in Calls \ Live : sess[c] = "none" /\ call[c].state = "FREE"
  BY DEF IInv, Typed, HandlersGone, Live
<1>2. ASSUME play' \in {"none", "short"} PROVE ToneOfCall'
  BY <1>2 DEF ToneOfCall
<1>3. ASSUME NEW c \in Calls, NEW r \in CallObject, r.state = "INCOMING",
             NEW t, NEW s, IncomingEvent(c, r, t, s)
      PROVE  ToneOfCall'
  <2>1. CASE AlertUser(c, r, t, s)
    <3>1. call'[c].state = "INCOMING" /\ play' \in {"short", "ring"}
      BY <1>1, <1>3, <2>1 DEF AlertUser
    <3> QED
      BY <3>1 DEF ToneOfCall
  <2>2. CASE CallProgress(c, r, t, s) \/ AutoAnswer(c, r, t, s)
    BY <1>2, <2>2 DEF CallProgress, AutoAnswer
  <2> QED
    BY <1>3, <2>1, <2>2 DEF IncomingEvent
<1>4. ASSUME NEW c \in Calls, IncomingCall(c) PROVE ToneOfCall'
  <2>1. CASE RejectCodec
    BY <1>2, <2>1 DEF RejectCodec
  <2>2. CASE AcceptCall(c) /\ UseMnat
    <3>1. /\ call' = [call EXCEPT ![c] = NewCall("INCOMING", Null)]
          /\ sess' = [sess EXCEPT ![c] = "ringing"] /\ play' = play
      BY <2>2 DEF AcceptCall
    <3>2. sess[c] = "none" /\ call[c].state = "FREE"
      BY <1>1, <1>4 DEF IncomingCall
    <3> QED
      BY <1>1, <3>1, <3>2, ToneGoesOn
  <2>3. CASE AcceptCall(c) /\ ~UseMnat
    <3>1. /\ NewCall("INCOMING", Null) \in CallObject
          /\ NewCall("INCOMING", Null).state = "INCOMING"
      BY DEF NewCall, FreeCall, CallObject, States
    <3>2. IncomingEvent(c, NewCall("INCOMING", Null), tmrInv \cup {c}, "ringing")
      BY <2>3 DEF AcceptCall
    <3> QED
      BY <1>3, <3>1, <3>2
  <2> QED
    BY <1>4, <2>1, <2>2, <2>3 DEF IncomingCall
<1>5. ASSUME NEW c \in Calls,
             \/ InviteTimeout(c) \/ MnatFailed(c) \/ SessionClosed(c)
             \/ MediaError(c) \/ UaHangup(c) \/ TransferDone(c)
             \/ UaAnswer(c) \/ Established(c)
      PROVE  ToneOfCall'
  <2>1. play' \in {"none", "short"}
    BY <1>5 DEF InviteTimeout, MnatFailed, SessionClosed, MediaError, UaHangup,
                TransferDone, ClosedEvent, UaAnswer, Established
  <2> QED
    BY <1>2, <2>1
<1>6. ASSUME \/ \E c \in Calls : CallTransfer(c) \/ TransferClosed(c)
             \/ UNCHANGED vars
      PROVE  ToneOfCall'
  BY <1>6, ToneGoesOn DEF CallTransfer, TransferClosed, vars
<1>7. ASSUME NEW c \in Calls, UaConnect(c) PROVE ToneOfCall'
  <2>1. sess[c] = "none" /\ call[c].state = "FREE"
    BY <1>1, <1>7 DEF UaConnect
  <2>2. play' = play /\ \A d \in Calls \ {c} : call'[d] = call[d] /\ sess'[d] = sess[d]
    BY <1>1, <1>7 DEF UaConnect
  <2> QED
    BY <2>1, <2>2, ToneGoesOn
<1>8. ASSUME NEW c \in Calls, MnatReady(c) PROVE ToneOfCall'
  <2> DEFINE r == [call[c] EXCEPT !.mnatWait = FALSE]
  <2>1. /\ r \in CallObject /\ r.state = call[c].state /\ r.media = call[c].media
    BY <1>1 DEF CallObject
  <2>2. CASE call[c].state = "INCOMING"
    <3>1. IncomingEvent(c, r, tmrInv, sess[c])
      BY <1>8, <2>2 DEF MnatReady
    <3> HIDE DEF r
    <3> QED
      BY <1>3, <2>1, <2>2, <3>1
  <2>3. CASE call[c].state # "INCOMING"
    <3>1. /\ call' = [call EXCEPT ![c] = r] /\ play' = play
          /\ sess' = sess \/ sess' = [sess EXCEPT ![c] = "inviting"]
      BY <1>8, <2>3 DEF MnatReady
    <3> HIDE DEF r
    <3>2. \A d \in Calls : call'[d].state = call[d].state /\ call'[d].media = call[d].media
      BY <1>1, <2>1, <3>1
    <3>3. \A d \in Calls : sess[d] = "inviting" => sess'[d] = "inviting"
      BY <1>1, <3>1
    <3> QED
      BY <3>1, <3>2, <3>3, ToneGoesOn
  <2> QED
    BY <2>2, <2>3
<1>9. ASSUME NEW c \in Calls, NEW scode \in {180, 182, 183}, NEW media \in BOOLEAN,
             Progress(c, scode, media)
      PROVE  ToneOfCall'
  <2>1. CASE media
    BY <1>2, <1>9, <2>1 DEF Progress
  <2>2. CASE ~media
    <3>1. play' = "ringback" /\ sess'[c] = "inviting"
      BY <1>9, <2>2 DEF Progress
    <3>2. call'[c].media = "off"
      <4> DEFINE st == CASE scode = 180 -> "RINGING"
                         [] scode = 183 -> "EARLY"
                         [] OTHER       -> call[c].state
      <4>1. call' = [call EXCEPT ![c].state = st, ![c].media = "off"]
        BY <1>9, <2>2 DEF Progress
      <4> HIDE DEF st
      <4> QED
        BY <1>1, <4>1 DEF CallObject
    <3> QED
      BY <3>1, <3>2 DEF ToneOfCall
  <2> QED
    BY <2>1, <2>2
<1>10. ASSUME NEW c \in Calls, NEW hold \in BOOLEAN, CallHold(c, hold)
       PROVE  ToneOfCall'
  <2>1. /\ sess' = sess /\ play' = play
        /\ call' = [call EXCEPT ![c].hold = hold]
    BY <1>10 DEF CallHold
  <2>2. \A d \in Calls : call'[d].state = call[d].state /\ call'[d].media = call[d].media
    BY <1>1, <2>1 DEF CallObject
  <2> QED
    BY <2>1, <2>2, ToneGoesOn
<1>11. ASSUME NEW c \in Calls, Renegotiate(c) PROVE ToneOfCall'
  <2>1. sess' = sess /\ play' = play /\ sess[c] = "up" /\ UpdateMedia(c)
    BY <1>11 DEF Renegotiate
  <2>2. \A d \in Calls : /\ call'[d].state = call[d].state
                         /\ d # c => call'[d] = call[d]
    BY <1>1, <2>1, UpdateMediaFacts
  <2> QED
    BY <2>1, <2>2, ToneGoesOn
<1>12. ASSUME NEW c \in Calls, ReferRefused(c) PROVE ToneOfCall'
  <2>1. call' = [call EXCEPT ![c].not = Null] /\ sess' = sess /\ play' = play
    BY <1>12 DEF ReferRefused
  <2>2. \A d \in Calls : call'[d].state = call[d].state /\ call'[d].media = call[d].media
    BY <1>1, <2>1 DEF CallObject
  <2> QED
    BY <2>1, <2>2, ToneGoesOn
<1>13. ASSUME NEW c \in Calls, NEW n \in Notifiers,
              ReferFails(c, n) \/ \E d \in Calls : ReferConnects(c, n, d)
       PROVE  ToneOfCall'
  BY <1>2, <1>13 DEF ReferFails, ReferConnects
<1>14. ASSUME NEW n \in Notifiers, NotifierClosed(n) PROVE ToneOfCall'
  <2>1. /\ call' = [call EXCEPT ![subs[n].owner].not = Null]
        /\ sess' = sess /\ play' = play
    BY <1>14 DEF NotifierClosed
  <2>2. \A d \in Calls : call'[d].state = call[d].state /\ call'[d].media = call[d].media
    BY <1>1, <2>1 DEF CallObject
  <2> QED
    BY <2>1, <2>2, ToneGoesOn
<1>15. CASE UaDestructor \/ PlayEnds
  BY <1>2, <1>15 DEF UaDestructor, PlayEnds
<1>16. ASSUME NEW c \in Calls,
              \/ IncomingCall(c) \/ InviteTimeout(c) \/ UaAnswer(c)
              \/ UaConnect(c) \/ MnatReady(c) \/ MnatFailed(c)
              \/ \E scode \in {180, 182, 183}, media \in BOOLEAN :
                    Progress(c, scode, media)
              \/ Established(c) \/ SessionClosed(c) \/ MediaError(c) \/ UaHangup(c)
              \/ \E hold \in BOOLEAN : CallHold(c, hold)
              \/ Renegotiate(c) \/ ReferRefused(c)
              \/ \E n \in Notifiers, d \in Calls : ReferConnects(c, n, d)
              \/ \E n \in Notifiers : ReferFails(c, n)
              \/ CallTransfer(c) \/ TransferDone(c) \/ TransferClosed(c)
       PROVE  ToneOfCall'
  BY <1>4, <1>5, <1>6, <1>7, <1>8, <1>9, <1>10, <1>11, <1>12, <1>13, <1>16
<1> QED
  BY <1>6, <1>14, <1>15, <1>16 DEF Handler

(***************************************************************************)
(* The ring tone and the ringback tone stop with the last call they could  *)
(* be for (play_file and every mem_deref(ua->play) of ua.c).               *)
(***************************************************************************)
THEOREM TonesEnd == Spec => []ToneHasCall
<1>1. Init => ToneHasCall
  BY DEF Init, ToneHasCall, ToneOfCall
<1>2. Sound /\ ToneHasCall /\ [Next]_vars => ToneHasCall'
  BY SoundStep, ToneStep DEF ToneHasCall, SInv
<1> QED
  BY <1>1, <1>2, Invariance, PTL DEF Spec
-----------------------------------------------------------------------------
(***************************************************************************)
(* No call is stranded.                                                    *)
(***************************************************************************)
\* A call without a session is an outgoing one, so an incoming one has a session
\* when its media NAT is ready.
Sessionless(c) ==
    /\ call[c].state = "OUTGOING"
    /\ IF call[c].mnatWait THEN c \in mnat ELSE "invite" \in CanFail

Linked == \A c \in Live : sess[c] # "none" \/ Sessionless(c)

\* Whatever happened to the call c, the others are as they were.
LEMMA LinkedGoesOn ==
    ASSUME Linked, NEW c \in Calls,
           call'[c].state # "FREE" =>
              \/ sess'[c] # "none"
              \/ /\ call'[c].state = "OUTGOING"
                 /\ IF call'[c].mnatWait THEN c \in mnat' ELSE "invite" \in CanFail,
           \A d \in Calls \ {c} :
              /\ call'[d].state = call[d].state /\ call'[d].mnatWait = call[d].mnatWait
              /\ sess[d] # "none" => sess'[d] # "none"
              /\ d \in mnat => d \in mnat'
    PROVE  Linked'
<1>1. ASSUME NEW d \in Calls, call'[d].state # "FREE" PROVE sess'[d] # "none" \/ Sessionless(d)'
  <2>1. CASE d = c
    BY <1>1, <2>1 DEF Sessionless
  <2>2. CASE d # c
    BY <1>1, <2>2 DEF Linked, Live, Sessionless
  <2> QED
    BY <2>1, <2>2
<1> QED
  BY <1>1 DEF Linked, Live

LEMMA LinkedStays ==
    ASSUME Linked,
           \A d \in Calls :
              /\ call'[d].state = call[d].state /\ call'[d].mnatWait = call[d].mnatWait
              /\ sess[d] # "none" => sess'[d] # "none"
              /\ d \in mnat => d \in mnat'
    PROVE  Linked'
BY DEF Linked, Live, Sessionless

LEMMA LinkedStep ==
    ASSUME IInv, Linked, [Handler]_vars PROVE Linked'
<1>1. /\ Typed /\ call \in [Calls -> CallObject] /\ sess \in [Calls -> Session]
      /\ \A c \in Calls \ Live : sess[c] = "none" /\ call[c].state = "FREE"
  BY DEF IInv, Typed, HandlersGone, Live
<1>2. ASSUME NEW c \in Calls, NEW sb, Destructor(c, sb) PROVE Linked'
  <2>1. /\ call' = [call EXCEPT ![c] = FreeCall] /\ sess' = [sess EXCEPT ![c] = "none"]
        /\ mnat' = mnat \ {c}
    BY <1>2 DEF Destructor
  <2>2. call'[c].state = "FREE"
    BY <1>1, <2>1 DEF FreeCall
  <2>3. \A d \in Calls \ {c} :
           call'[d] = call[d] /\ sess'[d] = sess[d] /\ (d \in mnat => d \in mnat')
    BY <1>1, <2>1
  <2> QED
    BY <2>2, <2>3, LinkedGoesOn
<1>3. ASSUME NEW c \in Calls, NEW r \in CallObject, NEW t, NEW s \in Session,
             s # "none", IncomingEvent(c, r, t, s)
      PROVE  /\ sess'[c] # "none" /\ call' \in [Calls -> CallObject]
             /\ \A d \in Calls \ {c} : call'[d] = call[d] /\ sess'[d] = sess[d]
  <2>1. CASE AlertUser(c, r, t, s)
    BY <1>1, <1>3, <2>1 DEF AlertUser
  <2>2. CASE CallProgress(c, r, t, s)
    <3>1. /\ \E m \in {r.media, "on"} : call' = [call EXCEPT ![c] = [r EXCEPT !.media = m]]
          /\ sess' = [sess EXCEPT ![c] = s]
      <4>1. [r EXCEPT !.media = r.media] = r
        BY <1>3 DEF CallObject
      <4> QED
        BY <2>2, <4>1 DEF CallProgress
    <3>2. PICK m \in {r.media, "on"} : call' = [call EXCEPT ![c] = [r EXCEPT !.media = m]]
      BY <3>1
    <3>3. [r EXCEPT !.media = m] \in CallObject
      BY <1>3, <3>2 DEF CallObject
    <3> QED
      BY <1>1, <1>3, <3>1, <3>2, <3>3
  <2>3. CASE AutoAnswer(c, r, t, s)
    <3>1. PICK m \in {r.media, "on"} : call' = [call EXCEPT ![c] = [r EXCEPT !.media = m]]
      BY <2>3 DEF AutoAnswer
    <3>2. [r EXCEPT !.media = m] \in CallObject
      BY <1>3, <3>1 DEF CallObject
    <3>3. sess' = [sess EXCEPT ![c] = "answered"] \/ sess' = [sess EXCEPT ![c] = s]
      BY <2>3 DEF AutoAnswer
    <3> QED
      BY <1>1, <1>3, <3>1, <3>2, <3>3
  <2> QED
    BY <1>3, <2>1, <2>2, <2>3 DEF IncomingEvent
<1>4. ASSUME NEW c \in Calls, IncomingCall(c) PROVE Linked'
  <2>1. CASE RejectCodec
    BY <2>1, LinkedStays DEF RejectCodec
  <2>2. CASE AcceptCall(c) /\ UseMnat
    <3>1. /\ call' = [call EXCEPT ![c] = NewCall("INCOMING", Null)]
          /\ sess' = [sess EXCEPT ![c] = "ringing"] /\ mnat' = mnat \cup {c}
      BY <2>2 DEF AcceptCall
    <3>2. sess'[c] # "none"
      BY <1>1, <3>1
    <3>3. \A d \in Calls \ {c} :
             call'[d] = call[d] /\ sess'[d] = sess[d] /\ (d \in mnat => d \in mnat')
      BY <1>1, <3>1
    <3> QED
      BY <3>2, <3>3, LinkedGoesOn
  <2>3. CASE AcceptCall(c) /\ ~UseMnat
    <3>1. NewCall("INCOMING", Null) \in CallObject
      BY DEF NewCall, FreeCall, CallObject, States
    <3>2. IncomingEvent(c, NewCall("INCOMING", Null), tmrInv \cup {c}, "ringing") /\ mnat' = mnat
      BY <2>3 DEF AcceptCall
    <3>3. "ringing" \in Session /\ "ringing" # "none"
      BY DEF Session
    <3>4. /\ sess'[c] # "none"
          /\ \A d \in Calls \ {c} : call'[d] = call[d] /\ sess'[d] = sess[d]
      BY <1>3, <3>1, <3>2, <3>3
    <3> QED
      BY <3>2, <3>4, LinkedGoesOn
  <2> QED
    BY <1>4, <2>1, <2>2, <2>3 DEF IncomingCall
<1>5. ASSUME NEW c \in Calls,
             \/ InviteTimeout(c) \/ MnatFailed(c) \/ SessionClosed(c)
             \/ MediaError(c) \/ UaHangup(c) \/ TransferDone(c)
      PROVE  Linked'
  <2>1. \E sb \in {subs, Notify(subs, call[c].not, "failed")} : Destructor(c, sb)
    BY <1>5 DEF InviteTimeout, MnatFailed, SessionClosed, MediaError, UaHangup,
                TransferDone, ClosedEvent
  <2> QED
    BY <1>2, <2>1
<1>6. ASSUME NEW c \in Calls, UaAnswer(c) PROVE Linked'
  <2>1. /\ \A d \in Calls : /\ call'[d].state = call[d].state
                            /\ call'[d].mnatWait = call[d].mnatWait
        /\ mnat' = mnat /\ sess' \in {sess, [sess EXCEPT ![c] = "answered"]}
    <3>1. mnat' = mnat /\ sess' \in {sess, [sess EXCEPT ![c] = "answered"]}
      BY <1>6 DEF UaAnswer
    <3>2. CASE call[c].state = "INCOMING"
      <4>1. UpdateMedia(c)
        BY <1>6, <3>2 DEF UaAnswer
      <4> QED
        BY <1>1, <3>1, <4>1, UpdateMediaFacts
    <3>3. CASE call[c].state # "INCOMING"
      BY <1>6, <3>1, <3>3 DEF UaAnswer
    <3> QED
      BY <3>2, <3>3
  <2>2. \A d \in Calls : sess[d] # "none" => sess'[d] # "none"
    BY <1>1, <2>1
  <2> QED
    BY <2>1, <2>2, LinkedStays
<1>7. ASSUME NEW c \in Calls, UaConnect(c) PROVE Linked'
  <2>1. /\ call' = [call EXCEPT ![c] = NewCall("OUTGOING", Null)]
        /\ IF UseMnat THEN mnat' = mnat \cup {c} /\ sess' = sess
                      ELSE sess' = [sess EXCEPT ![c] = "inviting"] /\ mnat' = mnat
    BY <1>7 DEF UaConnect
  <2>2. call'[c].mnatWait /\ \A d \in Calls \ {c} : call'[d] = call[d]
    BY <1>1, <2>1 DEF NewCall, FreeCall
  <2>3. /\ sess'[c] # "none" \/ c \in mnat'
        /\ \A d \in Calls \ {c} : sess'[d] = sess[d] /\ (d \in mnat => d \in mnat')
    BY <1>1, <2>1
  <2>4. call'[c].state = "OUTGOING"
    BY <1>1, <2>1 DEF NewCall, FreeCall
  <2>5. \A d \in Calls \ {c} :
           /\ call'[d].state = call[d].state /\ call'[d].mnatWait = call[d].mnatWait
           /\ sess[d] # "none" => sess'[d] # "none"
           /\ d \in mnat => d \in mnat'
    BY <2>2, <2>3
  <2> QED
    BY <2>2, <2>3, <2>4, <2>5, LinkedGoesOn
<1>8. ASSUME NEW c \in Calls, MnatReady(c) PROVE Linked'
  <2> DEFINE r == [call[c] EXCEPT !.mnatWait = FALSE]
  <2>1. /\ r \in CallObject /\ r.state = call[c].state /\ ~r.mnatWait
        /\ call[c].mnatWait /\ mnat' = mnat
    BY <1>1, <1>8 DEF CallObject, MnatReady
  <2>2. CASE call[c].state = "INCOMING"
    <3>1. IncomingEvent(c, r, tmrInv, sess[c])
      BY <1>8, <2>2 DEF MnatReady
    <3>2. sess[c] \in Session /\ sess[c] # "none"
      BY <1>1, <2>2 DEF Linked, Live, Sessionless
    <3> HIDE DEF r
    <3>3. /\ sess'[c] # "none"
          /\ \A d \in Calls \ {c} : call'[d] = call[d] /\ sess'[d] = sess[d]
      BY <1>3, <2>1, <3>1, <3>2
    <3> QED
      BY <2>1, <3>3, LinkedGoesOn
  <2>3. CASE call[c].state = "OUTGOING"
    <3>1. /\ call' = [call EXCEPT ![c] = r]
          /\ \/ sess' = [sess EXCEPT ![c] = "inviting"]
             \/ "invite" \in CanFail /\ sess' = sess
      BY <1>8, <2>3 DEF MnatReady
    <3> HIDE DEF r
    <3>2. /\ call'[c] = r /\ \A d \in Calls \ {c} : call'[d] = call[d] /\ sess'[d] = sess[d]
          /\ sess'[c] # "none" \/ "invite" \in CanFail
      BY <1>1, <3>1
    <3> QED
      BY <2>1, <2>3, <3>2, LinkedGoesOn
  <2>4. CASE call[c].state \notin {"OUTGOING", "INCOMING"}
    <3>1. call' = [call EXCEPT ![c] = r] /\ sess' = sess
      BY <1>8, <2>4 DEF MnatReady
    <3> HIDE DEF r
    <3>2. call'[c] = r /\ \A d \in Calls \ {c} : call'[d] = call[d]
      BY <1>1, <3>1
    <3>3. call'[c].state # "FREE" => sess'[c] # "none"
      BY <1>1, <2>1, <2>4, <3>1, <3>2 DEF Linked, Live, Sessionless
    <3>4. \A d \in Calls \ {c} :
             /\ call'[d].state = call[d].state /\ call'[d].mnatWait = call[d].mnatWait
             /\ sess[d] # "none" => sess'[d] # "none"
             /\ d \in mnat => d \in mnat'
      BY <2>1, <3>1, <3>2
    <3> QED
      BY <3>3, <3>4, LinkedGoesOn
  <2> QED
    BY <2>2, <2>3, <2>4
<1>9. ASSUME NEW c \in Calls,
             \/ \E scode \in {180, 182, 183}, media \in BOOLEAN : Progress(c, scode, media)
             \/ Established(c)
      PROVE  Linked'
  <2>1. \A d \in Calls \ {c} : call'[d] = call[d]
    <3>1. ASSUME NEW scode \in {180, 182, 183}, NEW media \in BOOLEAN, Progress(c, scode, media)
          PROVE  \A d \in Calls \ {c} : call'[d] = call[d]
      <4> DEFINE st == CASE scode = 180 -> "RINGING"
                         [] scode = 183 -> "EARLY"
                         [] OTHER       -> call[c].state
      <4>1. \E m \in {"off", "on"} : call' = [call EXCEPT ![c].state = st, ![c].media = m]
        BY <3>1 DEF Progress
      <4> HIDE DEF st
      <4> QED
        BY <1>1, <4>1
    <3>2. ASSUME Established(c) PROVE \A d \in Calls \ {c} : call'[d] = call[d]
      BY <1>1, <3>2 DEF Established
    <3> QED
      BY <1>9, <3>1, <3>2
  <2>2. sess[c] # "none" /\ sess' \in {sess, [sess EXCEPT ![c] = "up"]} /\ mnat' = mnat
    BY <1>9 DEF Progress, Established
  <2>3. sess'[c] # "none" /\ \A d \in Calls \ {c} : call'[d] = call[d] /\ sess'[d] = sess[d]
    BY <1>1, <2>1, <2>2
  <2> QED
    BY <2>2, <2>3, LinkedGoesOn
<1>10. ASSUME /\ sess' = sess /\ mnat' = mnat
              /\ \A d \in Calls : /\ call'[d].state = call[d].state
                                  /\ call'[d].mnatWait = call[d].mnatWait
       PROVE  Linked'
  BY <1>10, LinkedStays
<1>11. ASSUME NEW c \in Calls, NEW hold \in BOOLEAN, CallHold(c, hold)
       PROVE  Linked'
  <2>1. sess' = sess /\ mnat' = mnat /\ call' = [call EXCEPT ![c].hold = hold]
    BY <1>11 DEF CallHold
  <2> QED
    BY <1>1, <1>10, <2>1 DEF CallObject
<1>12. ASSUME NEW c \in Calls, Renegotiate(c) PROVE Linked'
  <2>1. sess' = sess /\ mnat' = mnat /\ UpdateMedia(c)
    BY <1>12 DEF Renegotiate
  <2> QED
    BY <1>1, <1>10, <2>1, UpdateMediaFacts
<1>13. ASSUME \/ \E c \in Calls : ReferRefused(c) \/ \E n \in Notifiers : ReferFails(c, n)
              \/ \E n \in Notifiers : NotifierClosed(n)
       PROVE  Linked'
  <2>1. sess' = sess /\ mnat' = mnat /\ \E c : call' = [call EXCEPT ![c].not = Null]
    BY <1>13 DEF ReferRefused, ReferFails, NotifierClosed
  <2>2. PICK c : call' = [call EXCEPT ![c].not = Null]
    BY <2>1
  <2> QED
    BY <1>1, <1>10, <2>1, <2>2 DEF CallObject
<1>14. ASSUME NEW c \in Calls, NEW n \in Notifiers, NEW d \in Calls, ReferConnects(c, n, d)
       PROVE  Linked'
  <2> DEFINE e == [call EXCEPT ![c].not = n]
  <2>1. /\ call' = [e EXCEPT ![d] = NewCall("OUTGOING", n)]
        /\ IF UseMnat THEN mnat' = mnat \cup {d} /\ sess' = sess
                      ELSE sess' = [sess EXCEPT ![d] = "inviting"] /\ mnat' = mnat
    BY <1>14 DEF ReferConnects
  <2>2. /\ e \in [Calls -> CallObject]
        /\ \A k \in Calls : e[k].state = call[k].state /\ e[k].mnatWait = call[k].mnatWait
    BY <1>1 DEF CallObject
  <2> HIDE DEF e
  <2>3. /\ call'[d] = NewCall("OUTGOING", n) /\ \A k \in Calls \ {d} : call'[k] = e[k]
        /\ sess'[d] # "none" \/ d \in mnat'
        /\ \A k \in Calls \ {d} : sess'[k] = sess[k] /\ (k \in mnat => k \in mnat')
    BY <1>1, <2>1, <2>2
  <2>4. call'[d].state = "OUTGOING" /\ call'[d].mnatWait
    BY <2>3 DEF NewCall, FreeCall
  <2>5. \A k \in Calls \ {d} :
           /\ call'[k].state = call[k].state /\ call'[k].mnatWait = call[k].mnatWait
           /\ sess[k] # "none" => sess'[k] # "none"
           /\ k \in mnat => k \in mnat'
    BY <2>2, <2>3
  <2> QED
    BY <2>3, <2>4, <2>5, LinkedGoesOn
<1>15. ASSUME \/ \E c \in Calls : CallTransfer(c) \/ TransferClosed(c)
              \/ PlayEnds \/ UNCHANGED vars
       PROVE  Linked'
  <2>1. UNCHANGED <<call, sess, mnat>>
    BY <1>15 DEF CallTransfer, TransferClosed, PlayEnds, vars
  <2> QED
    BY <1>10, <2>1
<1>16. CASE UaDestructor
  <2>1. \A c \in Calls : call'[c].state = "FREE"
    BY <1>16 DEF UaDestructor, FreeCall
  <2> QED
    BY <2>1 DEF Linked, Live
<1>17. ASSUME NEW c \in Calls,
              \/ IncomingCall(c) \/ InviteTimeout(c) \/ UaAnswer(c)
              \/ UaConnect(c) \/ MnatReady(c) \/ MnatFailed(c)
              \/ \E scode \in {180, 182, 183}, media \in BOOLEAN :
                    Progress(c, scode, media)
              \/ Established(c) \/ SessionClosed(c) \/ MediaError(c) \/ UaHangup(c)
              \/ \E hold \in BOOLEAN : CallHold(c, hold)
              \/ Renegotiate(c) \/ ReferRefused(c)
              \/ \E n \in Notifiers, d \in Calls : ReferConnects(c, n, d)
              \/ \E n \in Notifiers : ReferFails(c, n)
              \/ CallTransfer(c) \/ TransferDone(c) \/ TransferClosed(c)
       PROVE  Linked'
  BY <1>4, <1>5, <1>6, <1>7, <1>8, <1>9, <1>11, <1>12, <1>13, <1>14, <1>15, <1>17
<1> QED
  BY <1>13, <1>15, <1>16, <1>17 DEF Handler

(***************************************************************************)
(* No call is left that nothing but the application can end, except one    *)
(* whose INVITE could not be sent when its media NAT was ready (the        *)
(* handlers of call.c that free a call, send_invite, mnat_handler).        *)
(***************************************************************************)
THEOREM NeverStranded == Spec => []NoneStranded
<1> DEFINE LInv == ~stale => Linked
<1>1. Init => LInv
  BY DEF Init, Linked, Live, FreeCall
<1>2. Sound /\ LInv /\ [Next]_vars => LInv'
  BY SoundStep, LinkedStep DEF SInv
<1>3. LInv => NoneStranded
  BY DEF NoneStranded, Attended, Linked, Sessionless, Unsent
<1> HIDE DEF LInv
<1> QED
  BY <1>1, <1>2, <1>3, Invariance, PTL DEF Spec
=============================================================================
