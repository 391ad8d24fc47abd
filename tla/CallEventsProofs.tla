--------------------------- MODULE CallEventsProofs ---------------------------
(***************************************************************************)
(* Proofs about CallEvents.tla, for any number of clients and of calls.    *)
(***************************************************************************)
EXTENDS CallEvents, SequenceTheorems, TLAPS

(* What list_unlink leaves of a list in which nothing is twice. *)

\* How long the list is when the element at k is out.
LEMMA RemovedLength ==
    ASSUME NEW S, NEW s \in Seq(S), NEW k \in 1..Len(s)
    PROVE  RemoveAt(s, k) \in Seq(S) /\ Len(RemoveAt(s, k)) = Len(s) - 1
<1> DEFINE t == SubSeq(s, 1, k - 1)
           u == SubSeq(s, k + 1, Len(s))
<1>1. /\ t \in Seq(S) /\ Len(t) = k - 1
      /\ u \in Seq(S) /\ Len(u) = Len(s) - k
  OBVIOUS
<1>2. RemoveAt(s, k) = t \o u
  BY DEF RemoveAt
<1> HIDE DEF t, u
<1>3. t \o u \in Seq(S) /\ Len(t \o u) = Len(t) + Len(u)
  BY <1>1, ConcatProperties
<1> QED
  BY <1>1, <1>2, <1>3

LEMMA RemovedElement ==
    ASSUME NEW S, NEW s \in Seq(S), NEW k \in 1..Len(s), NEW i \in 1..(Len(s) - 1)
    PROVE  RemoveAt(s, k)[i] = IF i < k THEN s[i] ELSE s[i + 1]
<1> DEFINE t == SubSeq(s, 1, k - 1)
           u == SubSeq(s, k + 1, Len(s))
<1>1. RemoveAt(s, k) = t \o u
  BY DEF RemoveAt
<1>2. /\ t \in Seq(S) /\ Len(t) = k - 1
      /\ \A j \in 1..(k - 1) : t[j] = s[j]
  OBVIOUS
<1>3. /\ u \in Seq(S) /\ Len(u) = Len(s) - k
      /\ \A j \in 1..(Len(s) - k) : u[j] = s[k + j]
  OBVIOUS
<1> HIDE DEF t, u
<1>4. CASE i < k
  BY <1>1, <1>2, <1>3, <1>4, ConcatProperties
<1>5. CASE ~(i < k)
  <2>1. (t \o u)[i] = u[i - (k - 1)]
    BY <1>2, <1>3, <1>5, ConcatProperties
  <2>2. i - (k - 1) \in 1..(Len(s) - k) /\ k + (i - (k - 1)) = i + 1
    BY <1>5
  <2> QED
    BY <2>1, <2>2, <1>1, <1>3, <1>5
<1> QED
  BY <1>4, <1>5

LEMMA RemovedFacts ==
    ASSUME NEW S, NEW s \in Seq(S), NEW k \in 1..Len(s), IsInjective(s)
    PROVE  /\ IsInjective(RemoveAt(s, k))
           /\ ToSet(RemoveAt(s, k)) = ToSet(s) \ {s[k]}
<1> DEFINE r == RemoveAt(s, k)
<1>4. r \in Seq(S) /\ Len(r) = Len(s) - 1
  BY RemovedLength
<1>5. \A i \in 1..(Len(s) - 1) : r[i] = IF i < k THEN s[i] ELSE s[i + 1]
  BY RemovedElement
<1> HIDE DEF r
<1>6. IsInjective(r)
  <2> SUFFICES ASSUME NEW i \in 1..(Len(s) - 1), NEW j \in 1..(Len(s) - 1),
                      r[i] = r[j]
               PROVE  i = j
    BY <1>4 DEF IsInjective
  <2>1. /\ i \in DOMAIN s /\ j \in DOMAIN s
        /\ i + 1 \in DOMAIN s /\ j + 1 \in DOMAIN s
    OBVIOUS
  <2>2. (IF i < k THEN s[i] ELSE s[i + 1]) = IF j < k THEN s[j] ELSE s[j + 1]
    BY <1>5
  <2>3. (IF i < k THEN i ELSE i + 1) = IF j < k THEN j ELSE j + 1
    BY <2>1, <2>2 DEF IsInjective
  <2> QED
    BY <2>3
<1>7. ToSet(r) = ToSet(s) \ {s[k]}
  <2>1. ASSUME NEW x \in ToSet(r)
        PROVE  x \in ToSet(s) \ {s[k]}
    <3>1. PICK i \in 1..(Len(s) - 1) : x = r[i]
      BY <1>4 DEF ToSet
    <3>2. i \in DOMAIN s /\ i + 1 \in DOMAIN s /\ k \in DOMAIN s
      OBVIOUS
    <3>3. PICK j \in DOMAIN s : x = s[j] /\ j # k
      BY <3>1, <3>2, <1>5
    <3> QED
      BY <3>3, <3>2 DEF ToSet, IsInjective
  <2>2. ASSUME NEW x \in ToSet(s) \ {s[k]}
        PROVE  x \in ToSet(r)
    <3>1. PICK j \in DOMAIN s : x = s[j] /\ j # k
      BY DEF ToSet
    <3>2. CASE j < k
      <4>1. j \in 1..(Len(s) - 1)
        BY <3>2
      <4>2. r[j] = s[j]
        BY <4>1, <3>2, <1>5
      <4> QED
        BY <4>1, <4>2, <3>1, <1>4 DEF ToSet
    <3>3. CASE j > k
      <4>1. j - 1 \in 1..(Len(s) - 1) /\ (j - 1) + 1 = j /\ ~(j - 1 < k)
        BY <3>3
      <4>2. r[j - 1] = s[j]
        BY <4>1, <1>5
      <4> QED
        BY <4>1, <4>2, <3>1, <1>4 DEF ToSet
    <3> QED
      BY <3>1, <3>2, <3>3
  <2> QED
    BY <2>1, <2>2
<1> QED
  BY <1>6, <1>7 DEF r
-----------------------------------------------------------------------------
(* The walk of ua_event (UaEvents.tla).                                    *)

(***************************************************************************)
(* While an event is sent, the client that is called is in the list, and   *)
(* the clients up to it have been told, unless it has unregistered itself. *)
(***************************************************************************)
InOrder ==
    at # Null /\ ~freed =>
        \E n \in DOMAIN ehl :
            /\ ehl[n] = at
            /\ \A i \in 1..n : ehl[i] \in told

WalkInv ==
    /\ TypeOK
    /\ IsInjective(ehl)
    /\ InOrder
    /\ loyal \subseteq ToSet(ehl)
    /\ freed => leaves
    /\ AllClientsTold

LEMMA PlaceIs ==
    ASSUME IsInjective(ehl), NEW n \in DOMAIN ehl
    PROVE  Place(ehl[n]) = n
<1>1. Place(ehl[n]) \in DOMAIN ehl /\ ehl[Place(ehl[n])] = ehl[n]
  BY DEF Place
<1> QED
  BY <1>1 DEF IsInjective

LEMMA WalkInit == Init => WalkInv
<1> SUFFICES ASSUME Init PROVE WalkInv
  OBVIOUS
<1>1. ehl = <<>>
  BY DEF Init
<1>2. ehl \in Seq(Clients) /\ Len(ehl) = 0 /\ DOMAIN ehl = {}
  <2>1. ehl \in Seq(Clients) /\ Len(ehl) = 0
    BY <1>1, EmptySeq, Zenon
  <2> QED
    BY <2>1
<1>3. TypeOK
  <2>1. ehl \in Seq(Clients) /\ Len(ehl) <= MaxList
    BY <1>2, EventsAssumption
  <2> QED
    BY <2>1 DEF Init, TypeOK
<1>4. IsInjective(ehl)
  BY <1>2 DEF IsInjective
<1> QED
  BY <1>1, <1>3, <1>4 DEF Init, WalkInv, InOrder, AllClientsTold

LEMMA RegisterStep ==
    ASSUME WalkInv, NEW c \in Clients, Register(c)
    PROVE  WalkInv'
<1> USE EventsAssumption DEF WalkInv
<1>1. /\ ehl' \in Seq(Clients) /\ Len(ehl') = Len(ehl) + 1
      /\ \A i \in 1..Len(ehl) : ehl'[i] = ehl[i]
      /\ ehl'[Len(ehl) + 1] = c
      /\ Len(ehl) + 1 <= MaxList
  BY DEF Register, TypeOK
<1>2. \A i \in 1..Len(ehl) : ehl[i] # c
  BY DEF Register, ToSet, TypeOK
<1>3. TypeOK'
  BY <1>1 DEF Register, TypeOK
<1>4. IsInjective(ehl)'
  <2> SUFFICES ASSUME NEW i \in 1..(Len(ehl) + 1), NEW j \in 1..(Len(ehl) + 1),
                      ehl'[i] = ehl'[j]
               PROVE  i = j
    BY <1>1 DEF IsInjective
  <2>1. CASE i \in 1..Len(ehl) /\ j \in 1..Len(ehl)
    BY <2>1, <1>1 DEF IsInjective, TypeOK
  <2>2. CASE ~(i \in 1..Len(ehl) /\ j \in 1..Len(ehl))
    BY <2>2, <1>1, <1>2 DEF TypeOK
  <2> QED
    BY <2>1, <2>2
<1>5. InOrder'
  BY <1>1 DEF Register, InOrder, TypeOK
<1>6. ToSet(ehl) \cup {c} \subseteq ToSet(ehl')
  BY <1>1 DEF ToSet, TypeOK
<1>7. loyal' \subseteq ToSet(ehl')
  BY <1>6 DEF Register
<1>8. AllClientsTold' /\ (freed' => leaves')
  BY DEF Register, AllClientsTold
<1> QED
  BY <1>3, <1>4, <1>5, <1>7, <1>8

LEMMA UnregisterStep ==
    ASSUME WalkInv, NEW c \in Clients, Unregister(c)
    PROVE  WalkInv'
<1> USE EventsAssumption DEF WalkInv
<1> DEFINE k == Place(c)
<1>1. k \in 1..Len(ehl) /\ ehl[k] = c
  BY DEF Unregister, ToSet, Place, TypeOK
<1>2. ehl' = RemoveAt(ehl, k) /\ ehl \in Seq(Clients) /\ IsInjective(ehl)
  BY DEF Unregister, TypeOK
<1> HIDE DEF k
<1>3. /\ ehl' \in Seq(Clients) /\ Len(ehl') = Len(ehl) - 1
      /\ \A i \in 1..(Len(ehl) - 1) :
            ehl'[i] = IF i < k THEN ehl[i] ELSE ehl[i + 1]
      /\ IsInjective(ehl')
      /\ ToSet(ehl') = ToSet(ehl) \ {c}
  <2> HIDE DEF WalkInv
  <2>1. ehl' \in Seq(Clients) /\ Len(ehl') = Len(ehl) - 1
    BY <1>1, <1>2, RemovedLength
  <2>2. ASSUME NEW i \in 1..(Len(ehl) - 1)
        PROVE  ehl'[i] = IF i < k THEN ehl[i] ELSE ehl[i + 1]
    <3>1. RemoveAt(ehl, k)[i] = IF i < k THEN ehl[i] ELSE ehl[i + 1]
      BY <1>1, <1>2, RemovedElement
    <3> QED
      BY <3>1, <1>2
  <2>3. IsInjective(ehl') /\ ToSet(ehl') = ToSet(ehl) \ {c}
    <3>1. /\ IsInjective(RemoveAt(ehl, k))
          /\ ToSet(RemoveAt(ehl, k)) = ToSet(ehl) \ {ehl[k]}
      BY <1>1, <1>2, RemovedFacts
    <3> QED
      BY <3>1, <1>1, <1>2
  <2> QED
    BY <2>1, <2>2, <2>3
<1>4. TypeOK'
  BY <1>3 DEF Unregister, TypeOK
<1>5. InOrder'
  <2> SUFFICES ASSUME at' # Null, ~freed'
               PROVE  \E n \in DOMAIN ehl' :
                         ehl'[n] = at' /\ \A i \in 1..n : ehl'[i] \in told'
    BY DEF InOrder
  <2>1. at' = at /\ told' = told /\ ~freed /\ c # at
    BY DEF Unregister, TypeOK
  <2>2. PICK n \in DOMAIN ehl : ehl[n] = at /\ \A i \in 1..n : ehl[i] \in told
    BY <2>1 DEF InOrder
  <2>3. CASE n < k
    <3>1. n \in 1..(Len(ehl) - 1) /\ ehl'[n] = ehl[n]
      BY <2>3, <1>1, <1>3, <2>2 DEF TypeOK
    <3>2. \A i \in 1..n : ehl'[i] = ehl[i]
      BY <2>3, <1>1, <1>3, <3>1
    <3> QED
      BY <3>1, <3>2, <2>1, <2>2, <1>3 DEF TypeOK
  <2>4. CASE n > k
    <3>1. n - 1 \in 1..(Len(ehl) - 1) /\ ehl'[n - 1] = ehl[n]
      BY <2>4, <1>1, <1>3, <2>2 DEF TypeOK
    <3>2. ASSUME NEW i \in 1..(n - 1)
          PROVE  ehl'[i] \in told
      <4>1. i \in 1..(Len(ehl) - 1) /\ i \in 1..n /\ i + 1 \in 1..n
        BY <3>1, <2>2 DEF TypeOK
      <4> QED
        BY <4>1, <1>3, <2>2
    <3> QED
      BY <3>1, <3>2, <2>1, <2>2, <1>3 DEF TypeOK
  <2> QED
    BY <2>1, <2>2, <2>3, <2>4, <1>1 DEF TypeOK
<1>6. loyal' \subseteq ToSet(ehl')
  BY <1>3 DEF Unregister
<1>7. AllClientsTold' /\ (freed' => leaves')
  BY DEF Unregister, AllClientsTold
<1> QED
  BY <1>3, <1>4, <1>5, <1>6, <1>7

LEMMA BeginsStep ==
    ASSUME WalkInv, EventBegins
    PROVE  /\ WalkInv'
           /\ at = Null
           /\ at' = Null => ehl = <<>>
<1> USE EventsAssumption DEF WalkInv
<1>1. CASE ehl = <<>>
  <2>1. Len(ehl) = 0
    BY <1>1
  <2>2. ToSet(ehl) = {}
    BY <2>1 DEF ToSet, TypeOK
  <2>3. at' = Null /\ told' = {} /\ loyal' = {} /\ UNCHANGED <<leaves, ehl, freed>>
    BY <1>1, <2>2 DEF EventBegins
  <2> QED
    BY <1>1, <2>3 DEF EventBegins, TypeOK, InOrder, AllClientsTold, IsInjective
<1>2. CASE ehl # <<>>
  <2>1. /\ 1 \in DOMAIN ehl /\ ehl[1] = at' /\ at' \in Clients
        /\ told' = {ehl[1]}
    BY <1>2 DEF EventBegins, TypeOK
  <2>2. TypeOK'
    BY <2>1 DEF EventBegins, TypeOK, ToSet
  <2>3. InOrder'
    BY <2>1 DEF EventBegins, InOrder
  <2> QED
    BY <2>1, <2>2, <2>3 DEF EventBegins, AllClientsTold
<1> QED
  BY <1>1, <1>2

LEMMA ReturnsStep ==
    ASSUME WalkInv, HandlerReturns
    PROVE  WalkInv'
<1> USE EventsAssumption DEF WalkInv
<1>1. CASE freed
  BY <1>1 DEF HandlerReturns, TypeOK, InOrder, AllClientsTold
<1>2. CASE ~freed
  <2>1. PICK n \in 1..Len(ehl) :
           ehl[n] = at /\ \A i \in 1..n : ehl[i] \in told
    BY <1>2 DEF HandlerReturns, InOrder, TypeOK
  <2>2. Place(at) = n
    BY <2>1, PlaceIs DEF TypeOK
  <2>3. CASE n = Len(ehl)
    <3>1. at' = Null /\ told' = told /\ ~freed'
      BY <1>2, <2>2, <2>3 DEF HandlerReturns, After
    <3>2. ToSet(ehl) \subseteq told
      BY <2>1, <2>3 DEF ToSet, TypeOK
    <3> QED
      BY <3>1, <3>2 DEF HandlerReturns, TypeOK, InOrder, AllClientsTold
  <2>4. CASE n # Len(ehl)
    <3>1. n + 1 \in 1..Len(ehl) /\ ehl[n + 1] \in Clients
      BY <2>4 DEF TypeOK
    <3>2. at' = ehl[n + 1] /\ told' = told \cup {ehl[n + 1]} /\ ~freed'
      BY <3>1, <1>2, <2>2, <2>4 DEF HandlerReturns, After
    <3>3. \A i \in 1..(n + 1) : ehl[i] \in told'
      BY <3>2, <2>1
    <3>4. InOrder'
      BY <3>1, <3>2, <3>3 DEF InOrder, HandlerReturns, TypeOK
    <3> QED
      BY <3>1, <3>2, <3>4 DEF HandlerReturns, TypeOK, AllClientsTold
  <2> QED
    BY <2>3, <2>4
<1> QED
  BY <1>1, <1>2
-----------------------------------------------------------------------------
(* The calls.                                                              *)

Runs == streams \cup tmrInv \cup tmrDtmf \subseteq Live

(***************************************************************************)
(* An event has a call that lives, unless a client has just hung it up:    *)
(* then clients are eager, or it was the last client, in the event of an   *)
(* incoming call.                                                          *)
(***************************************************************************)
EventHasCall ==
    /\ about # Null => at # Null /\ (gone \/ about.call \in Live)
    /\ gone => about # Null
    /\ gone /\ ~eager => ~freed /\ After(at) = Null /\ about.kind = "INCOMING"

CallInv == CallTypeOK /\ Runs /\ EventHasCall

(***************************************************************************)
(* The inductive invariant: the walk is sound, whatever becomes of calls;  *)
(* the calls are as long as no freed one is used, which only eager clients *)
(* bring about.                                                            *)
(***************************************************************************)
Sound ==
    /\ WalkInv
    /\ stale \in BOOLEAN
    /\ stale => eager
    /\ ~stale => CallInv

LEMMA InitSound == CallInit => Sound
<1> SUFFICES ASSUME CallInit PROVE Sound
  OBVIOUS
<1>1. CallInv
  BY DEF Init, CallInit, CallInv, CallTypeOK, Runs, EventHasCall, Live, Phases
<1>2. WalkInv
  BY WalkInit DEF CallInit
<1> QED
  BY <1>1, <1>2 DEF Sound, CallInit

LEMMA WalkKept ==
    ASSUME WalkInv, UNCHANGED walkVars
    PROVE  WalkInv' /\ After(at)' = After(at)
<1>1. TypeOK' /\ InOrder' /\ AllClientsTold' /\ IsInjective(ehl)'
  BY DEF WalkInv, TypeOK, InOrder, AllClientsTold, IsInjective, walkVars
<1>2. After(at)' = After(at)
  BY DEF After, Place, walkVars
<1> QED
  BY <1>1, <1>2 DEF WalkInv, walkVars

LEMMA BetweenEvents == ASSUME CallInv, at = Null PROVE about = Null /\ gone = FALSE
BY DEF CallInv, EventHasCall, CallTypeOK

\* When the calls of the event and all that surrounds it stay as they are.
LEMMA EventKept ==
    ASSUME CallInv, UNCHANGED <<at, freed, ehl, about, gone, eager>>,
           about # Null => about.call \in Live' \/ about.call \notin Live
    PROVE  EventHasCall'
<1>1. After(at)' = After(at)
  BY DEF After, Place
<1> QED
  BY <1>1 DEF CallInv, EventHasCall

LEMMA DestructorFacts ==
    ASSUME CallInv, NEW c \in Calls, Destructor(c)
    PROVE  /\ Live' = Live \ {c}
           /\ phase' \in [Calls -> Phases]
           /\ streams' \cup tmrInv' \cup tmrDtmf' \subseteq Calls
           /\ Runs'
<1>1. phase' \in [Calls -> Phases] /\ Live' = Live \ {c}
  BY DEF Destructor, CallInv, CallTypeOK, Phases, Live
<1> QED
  BY <1>1 DEF Destructor, CallInv, CallTypeOK, Runs

LEMMA FreeAllFacts ==
    ASSUME CallInv, FreeAll
    PROVE  /\ Live' = {} /\ Live \subseteq hung'
           /\ phase' \in [Calls -> Phases]
           /\ streams' \cup tmrInv' \cup tmrDtmf' \cup hung' \subseteq Calls
           /\ Runs'
<1>1. phase' \in [Calls -> Phases] /\ Live' = {}
  BY DEF FreeAll, CallInv, CallTypeOK, Phases, Live
<1> QED
  BY <1>1 DEF FreeAll, CallInv, CallTypeOK, Runs, Live

LiveIn(p) == {c \in Calls : p[c] \notin {"unused", "freed"}}

\* What is left of the handler that sent an event keeps what runs to the calls that
\* live, and frees no call but one that is closed.
LEMMA RestFacts ==
    ASSUME NEW k \in Kinds, NEW c \in Calls, NEW p \in [Calls -> Phases],
           NEW s \in SUBSET LiveIn(p), NEW t \in SUBSET LiveIn(p),
           tmrDtmf \subseteq LiveIn(p), Rest(k, c, p, s, t),
           k = "INCOMING" \/ c \in LiveIn(p)
    PROVE  /\ phase' \in [Calls -> Phases]
           /\ streams' \cup tmrInv' \cup tmrDtmf' \subseteq Calls
           /\ Runs'
           /\ Live' = IF k = "CLOSED" THEN LiveIn(p) \ {c} ELSE LiveIn(p)
<1>1. CASE k = "INCOMING"
  <2>1. phase' = p /\ streams' = s /\ tmrInv' = t /\ tmrDtmf' = tmrDtmf
    BY <1>1 DEF Rest
  <2> QED
    BY <1>1, <2>1 DEF Runs, Live, LiveIn
<1>2. CASE k = "CLOSED"
  <2>1. /\ phase' = [p EXCEPT ![c] = "freed"] /\ streams' = s \ {c}
        /\ tmrInv' = t \ {c} /\ tmrDtmf' = tmrDtmf \ {c}
    BY <1>2 DEF Rest
  <2>2. phase' \in [Calls -> Phases] /\ Live' = LiveIn(p) \ {c}
    BY <2>1 DEF Phases, Live, LiveIn
  <2> QED
    BY <1>2, <2>1, <2>2 DEF Runs, LiveIn
<1>3. CASE k \notin {"INCOMING", "CLOSED"}
  <2>1. /\ phase' = p /\ streams' \subseteq s \cup {c}
        /\ tmrInv' \subseteq t /\ tmrDtmf' = tmrDtmf
    BY <1>3 DEF Rest, Kinds
  <2> QED
    BY <1>3, <2>1 DEF Runs, Live, LiveIn
<1> QED
  BY <1>1, <1>2, <1>3

\* An event begins that is about a call that lives.
LEMMA SendsStep ==
    ASSUME WalkInv, CallInv, NEW k \in Kinds, NEW c \in Calls,
           NEW p \in [Calls -> Phases], NEW s \in SUBSET streams,
           NEW t \in SUBSET (tmrInv \cup {c}), Sends(k, c, p, s, t),
           c \in LiveIn(p), \A d \in Calls \ {c} : p[d] = phase[d]
    PROVE  CallInv' /\ (Live \subseteq Live' \/ ehl = <<>>)
<1>1. /\ EventBegins /\ UNCHANGED <<eager, gone, flush, hung, stale>>
      /\ about = Null /\ gone = FALSE
      /\ at' = Null => ehl = <<>>
  BY BeginsStep, BetweenEvents DEF Sends
<1>2. Live \subseteq LiveIn(p)
  BY DEF Live, LiveIn
<1>3. CASE at' = Null
  <2>1. Rest(k, c, p, s, t) /\ about' = Null
    BY <1>1, <1>3 DEF Sends
  <2>2. s \subseteq LiveIn(p) /\ t \subseteq LiveIn(p) /\ tmrDtmf \subseteq LiveIn(p)
    BY <1>2 DEF CallInv, Runs
  <2>3. /\ phase' \in [Calls -> Phases]
        /\ streams' \cup tmrInv' \cup tmrDtmf' \subseteq Calls
        /\ Runs'
    BY <2>1, <2>2, RestFacts
  <2>4. CallTypeOK'
    BY <1>1, <2>1, <2>3 DEF CallInv, CallTypeOK
  <2>5. EventHasCall'
    BY <1>1, <2>1 DEF EventHasCall
  <2> QED
    BY <1>1, <1>3, <2>3, <2>4, <2>5 DEF CallInv
<1>4. CASE at' # Null
  <2>1. /\ about' = [kind |-> k, call |-> c] /\ phase' = p
        /\ streams' = s /\ tmrInv' = t /\ tmrDtmf' = tmrDtmf
    BY <1>4 DEF Sends
  <2>2. Live' = LiveIn(p)
    BY <2>1 DEF Live, LiveIn
  <2>3. about' \in Event /\ about'.call = c /\ about' # Null
    BY <2>1, CallEventsAssumption DEF Event
  <2>4. CallTypeOK'
    BY <1>1, <2>1, <2>3 DEF CallInv, CallTypeOK
  <2>5. Runs'
    BY <1>2, <2>1, <2>2 DEF CallInv, Runs
  <2>6. EventHasCall'
    BY <1>1, <1>4, <2>2, <2>3 DEF EventHasCall
  <2> QED
    BY <1>2, <2>2, <2>4, <2>5, <2>6 DEF CallInv
<1> QED
  BY <1>3, <1>4

\* The handlers of call.c that send an event.
Handler(c) ==
    \/ CallAccept(c) \/ CallAcceptFails(c) \/ MnatReady(c) \/ Established(c)
    \/ Closed(c) \/ ClosedRunning(c) \/ InviteTimeout(c)
    \/ \E media \in BOOLEAN : Progress(c, media)

LEMMA HandlerStep ==
    ASSUME WalkInv, CallInv, NEW c \in Calls, Handler(c)
    PROVE  CallInv' /\ (Live \subseteq Live' \/ ehl = <<>>)
<1> DEFINE in == [phase EXCEPT ![c] = "incoming"]
           es == [phase EXCEPT ![c] = "established"]
<1>1. /\ in \in [Calls -> Phases] /\ c \in LiveIn(in)
      /\ \A d \in Calls \ {c} : in[d] = phase[d]
  BY DEF CallInv, CallTypeOK, Phases, LiveIn
<1>2. /\ es \in [Calls -> Phases] /\ c \in LiveIn(es)
      /\ \A d \in Calls \ {c} : es[d] = phase[d]
  BY DEF CallInv, CallTypeOK, Phases, LiveIn
<1>3. phase \in [Calls -> Phases] /\ LiveIn(phase) = Live
  BY DEF CallInv, CallTypeOK, LiveIn, Live
<1>4. CASE CallAccept(c)
  <2>1. Sends("INCOMING", c, in, streams, tmrInv \cup {c})
    BY <1>4 DEF CallAccept
  <2> HIDE DEF in
  <2> QED
    BY <1>1, <2>1, SendsStep DEF Kinds
<1>5. CASE CallAcceptFails(c)
  <2>1. Sends("CLOSED", c, in, streams, tmrInv)
    BY <1>5 DEF CallAcceptFails
  <2> HIDE DEF in
  <2> QED
    BY <1>1, <2>1, SendsStep DEF Kinds
<1>6. CASE MnatReady(c)
  <2>1. Sends("INCOMING", c, in, streams, tmrInv)
    BY <1>6 DEF MnatReady
  <2> HIDE DEF in
  <2> QED
    BY <1>1, <2>1, SendsStep DEF Kinds
<1>7. CASE Established(c)
  <2>1. Sends("ESTABLISHED", c, es, streams, tmrInv)
    BY <1>7 DEF Established
  <2> HIDE DEF es
  <2> QED
    BY <1>2, <2>1, SendsStep DEF Kinds
<1>8. CASE Closed(c) \/ ClosedRunning(c) \/ InviteTimeout(c)
  <2>1. c \in Live
    BY <1>8 DEF Closed, ClosedRunning, InviteTimeout, CallInv, Runs
  <2>2. PICK s \in SUBSET streams, t \in SUBSET tmrInv : Sends("CLOSED", c, phase, s, t)
    BY <1>8 DEF Closed, ClosedRunning, InviteTimeout
  <2> QED
    BY <1>3, <2>1, <2>2, SendsStep DEF Kinds
<1>9. CASE \E media \in BOOLEAN : Progress(c, media)
  <2>1. c \in Live
    BY <1>9 DEF Progress, Live
  <2>2. PICK k \in Kinds : Sends(k, c, phase, streams, tmrInv)
    BY <1>9 DEF Progress, Kinds
  <2> QED
    BY <1>3, <2>1, <2>2, SendsStep
<1> HIDE DEF in, es
<1> QED
  BY <1>4, <1>5, <1>6, <1>7, <1>8, <1>9 DEF Handler

\* Events that are about no call.
LEMMA OtherEventStep ==
    ASSUME WalkInv, CallInv, OtherEvent
    PROVE  CallInv' /\ Live' = Live
<1>1. UNCHANGED callVars /\ Live' = Live
  BY DEF OtherEvent, callVars, Live
<1>2. about = Null /\ gone = FALSE
  BY BetweenEvents DEF OtherEvent, EventBegins
<1>3. CallTypeOK' /\ Runs'
  BY <1>1 DEF CallInv, CallTypeOK, Runs, callVars
<1>4. EventHasCall'
  BY <1>1, <1>2 DEF EventHasCall, callVars
<1> QED
  BY <1>1, <1>3, <1>4 DEF CallInv

LEMMA UaDestructorStep ==
    ASSUME WalkInv, CallInv, UaDestructor
    PROVE  CallInv' /\ (Live' = Live \/ Live \subseteq hung')
<1>1. /\ UNCHANGED <<eager, about, gone, stale>>
      /\ about = Null /\ gone = FALSE
  BY BetweenEvents DEF UaDestructor, EventBegins
<1>2. EventHasCall'
  BY <1>1 DEF EventHasCall
<1>3. CASE at' = Null
  <2>1. FreeAll /\ UNCHANGED flush
    BY <1>3 DEF UaDestructor
  <2>2. CallTypeOK'
    BY <1>1, <2>1, FreeAllFacts DEF CallInv, CallTypeOK
  <2> QED
    BY <1>2, <2>1, <2>2, FreeAllFacts DEF CallInv
<1>4. CASE at' # Null
  <2>1. flush' = TRUE /\ UNCHANGED <<phase, streams, tmrInv, tmrDtmf, hung>>
    BY <1>4 DEF UaDestructor
  <2>2. Live' = Live
    BY <2>1 DEF Live
  <2>3. CallTypeOK' /\ Runs'
    BY <1>1, <2>1, <2>2 DEF CallInv, CallTypeOK, Runs
  <2> QED
    BY <1>2, <2>2, <2>3 DEF CallInv
<1> QED
  BY <1>3, <1>4

\* What clients do to the list, and a step that changes nothing.
LEMMA ListStep ==
    ASSUME WalkInv, CallInv,
           \/ UNCHANGED allVars
           \/ \E c \in Clients : ClientJoins(c) \/ ClientLeaves(c)
    PROVE  CallInv' /\ Live' = Live
<1>1. UNCHANGED callVars /\ at' = at
  BY DEF ClientJoins, ClientLeaves, Register, Unregister, allVars, walkVars
<1>2. Live' = Live
  BY <1>1 DEF callVars, Live
<1>3. CallTypeOK' /\ Runs'
  BY <1>1, <1>2 DEF CallInv, CallTypeOK, Runs, callVars
<1>4. gone /\ ~eager => UNCHANGED walkVars
  BY DEF ClientJoins, ClientLeaves, allVars
<1>5. gone /\ ~eager => After(at)' = After(at) /\ freed' = freed
  BY <1>4, WalkKept DEF walkVars
<1>6. EventHasCall'
  BY <1>1, <1>2, <1>5 DEF CallInv, EventHasCall, callVars
<1> QED
  BY <1>2, <1>3, <1>6 DEF CallInv

\* A call that no client and no handler will use: nobody has one that is freed.
LEMMA ReturnsCalls ==
    ASSUME WalkInv, CallInv, Returns, ~UsesFreed
    PROVE  /\ CallInv'
           /\ \/ Live' = Live
              \/ Live \subseteq hung'
              \/ /\ at' = Null /\ about # Null /\ about.kind = "CLOSED"
                 /\ Live' = Live \ {about.call}
<1>1. /\ at # Null /\ UNCHANGED <<eager, ehl>> /\ freed' = FALSE
      /\ stale' = (stale \/ UsesFreed)
  BY DEF Returns, HandlerReturns
<1>2. stale' \in BOOLEAN
  BY <1>1
<1>3. CASE at' # Null
  <2>1. UNCHANGED <<phase, about, streams, tmrInv, tmrDtmf, gone, flush, hung>>
    BY <1>3 DEF Returns
  <2>2. Live' = Live
    BY <2>1 DEF Live
  <2>3. CallTypeOK' /\ Runs'
    BY <1>1, <1>2, <2>1, <2>2 DEF CallInv, CallTypeOK, Runs
  <2>4. gone => eager
    <3>1. ~freed => at' = After(at)
      BY DEF Returns, HandlerReturns
    <3> QED
      BY <1>3, <3>1 DEF CallInv, EventHasCall
  <2>5. EventHasCall'
    BY <1>1, <1>3, <2>1, <2>2, <2>4 DEF CallInv, EventHasCall
  <2> QED
    BY <2>2, <2>3, <2>5 DEF CallInv
<1>4. CASE at' = Null
  <2>1. about' = Null /\ gone' = FALSE /\ flush' = FALSE
    BY <1>4 DEF Returns
  <2>2. EventHasCall'
    BY <2>1 DEF EventHasCall
  <2>3. CASE FreeAll
    <3>1. CallTypeOK'
      BY <1>1, <1>2, <2>1, <2>3, FreeAllFacts DEF CallInv, CallTypeOK
    <3> QED
      BY <2>2, <2>3, <3>1, FreeAllFacts DEF CallInv
  <2>4. CASE about # Null /\ UNCHANGED hung
             /\ Rest(about.kind, about.call, phase, streams, tmrInv)
    <3>1. about.kind \in Kinds /\ about.call \in Calls
      BY <2>4 DEF CallInv, CallTypeOK, Event
    <3>2. about.kind = "INCOMING" \/ about.call \in Live
      BY <2>4 DEF UsesFreed
    <3>3. /\ phase \in [Calls -> Phases] /\ LiveIn(phase) = Live
          /\ streams \subseteq Live /\ tmrInv \subseteq Live /\ tmrDtmf \subseteq Live
      BY DEF CallInv, CallTypeOK, Runs, Live, LiveIn
    <3>4. /\ phase' \in [Calls -> Phases]
          /\ streams' \cup tmrInv' \cup tmrDtmf' \subseteq Calls
          /\ Runs'
          /\ Live' = IF about.kind = "CLOSED" THEN Live \ {about.call} ELSE Live
      BY <2>4, <3>1, <3>2, <3>3, RestFacts
    <3>5. CallTypeOK'
      BY <1>1, <1>2, <2>1, <2>4, <3>4 DEF CallInv, CallTypeOK
    <3> QED
      BY <1>4, <2>2, <2>4, <3>4, <3>5 DEF CallInv
  <2>5. CASE UNCHANGED <<phase, streams, tmrInv, tmrDtmf, hung>>
    <3>1. Live' = Live
      BY <2>5 DEF Live
    <3>2. CallTypeOK' /\ Runs'
      BY <1>1, <1>2, <2>1, <2>5, <3>1 DEF CallInv, CallTypeOK, Runs
    <3> QED
      BY <2>2, <3>1, <3>2 DEF CallInv
  <2> QED
    BY <1>4, <2>3, <2>4, <2>5 DEF Returns
<1> QED
  BY <1>3, <1>4

\* Clients that are not eager do not let a freed call be used.
LEMMA NoneUsed ==
    ASSUME CallInv, Returns, ~eager
    PROVE  ~UsesFreed
<1> SUFFICES ASSUME UsesFreed PROVE FALSE
  OBVIOUS
<1>1. /\ ~freed /\ After(at) = Null /\ about.kind = "INCOMING"
  BY DEF UsesFreed, CallInv, EventHasCall
<1>2. at' = Null
  BY <1>1 DEF Returns, HandlerReturns
<1> QED
  BY <1>1, <1>2 DEF UsesFreed

LEMMA HangsUpStep ==
    ASSUME WalkInv, CallInv, HangsUp
    PROVE  CallInv' /\ Live \ Live' \subseteq hung'
<1>1. /\ about # Null /\ about.call \in Calls /\ at # Null
      /\ Destructor(about.call) /\ gone' = TRUE /\ hung' = hung \cup {about.call}
      /\ eager \/ (about.kind = "INCOMING" /\ ~freed /\ After(at) = Null)
      /\ UNCHANGED walkVars /\ UNCHANGED <<eager, about, flush, stale>>
  BY DEF HangsUp, Live
<1>2. After(at)' = After(at)
  BY <1>1, WalkKept
<1>3. /\ phase' \in [Calls -> Phases] /\ Live' = Live \ {about.call}
      /\ streams' \cup tmrInv' \cup tmrDtmf' \subseteq Calls
      /\ Runs'
  BY <1>1, DestructorFacts
<1>4. CallTypeOK'
  BY <1>1, <1>3 DEF CallInv, CallTypeOK
<1>5. EventHasCall'
  BY <1>1, <1>2 DEF EventHasCall, walkVars
<1> QED
  BY <1>1, <1>3, <1>4, <1>5 DEF CallInv

\* What happens to a call that the event, if there is one, is not about.
LEMMA CallStep ==
    ASSUME WalkInv, CallInv, NEW c \in Calls,
           UaHangup(c) \/ UaConnect(c) \/ CallAcceptWaits(c) \/ Info(c) \/ DtmfEnd(c)
    PROVE  CallInv' /\ Live \ Live' \subseteq hung'
<1>1. UNCHANGED walkVars /\ UNCHANGED <<eager, about, gone, flush, stale>>
  BY DEF UaHangup, UaConnect, CallAcceptWaits, Info, DtmfEnd
<1>2. Info(c) \/ DtmfEnd(c) => about = Null
  BY BetweenEvents DEF Info, DtmfEnd
<1>3. ASSUME CallTypeOK', Runs', Live \ {c} \subseteq Live',
             about # Null => c \in Live' \/ c \notin Live \/ about.call # c
      PROVE  CallInv'
  BY <1>1, <1>3, EventKept DEF CallInv, walkVars
<1>4. CASE /\ Destructor(c) /\ hung' = hung \cup {c}
           /\ about # Null => about.call # c
  <2>1. /\ Live' = Live \ {c} /\ Runs'
        /\ phase' \in [Calls -> Phases]
        /\ streams' \cup tmrInv' \cup tmrDtmf' \subseteq Calls
    BY <1>4, DestructorFacts
  <2>2. CallTypeOK'
    BY <1>1, <1>4, <2>1 DEF CallInv, CallTypeOK
  <2> QED
    BY <1>3, <1>4, <2>1, <2>2
<1>5. CASE UaConnect(c)
  <2>1. /\ phase' = [phase EXCEPT ![c] = "outgoing"] /\ phase[c] = "unused"
        /\ UNCHANGED <<streams, tmrInv, tmrDtmf, hung>>
    BY <1>5 DEF UaConnect
  <2>2. phase' \in [Calls -> Phases] /\ Live' = Live \cup {c}
    BY <2>1 DEF CallInv, CallTypeOK, Phases, Live
  <2>3. CallTypeOK' /\ Runs'
    BY <1>1, <2>1, <2>2 DEF CallInv, CallTypeOK, Runs
  <2> QED
    BY <1>3, <2>2, <2>3
<1>6. CASE CallAcceptWaits(c)
  <2>1. /\ phase' = [phase EXCEPT ![c] = "waiting"] /\ phase[c] = "unused"
        /\ tmrInv' = tmrInv \cup {c}
        /\ UNCHANGED <<streams, tmrDtmf, hung>>
    BY <1>6 DEF CallAcceptWaits
  <2>2. phase' \in [Calls -> Phases] /\ Live' = Live \cup {c}
    BY <2>1 DEF CallInv, CallTypeOK, Phases, Live
  <2>3. CallTypeOK' /\ Runs'
    BY <1>1, <2>1, <2>2 DEF CallInv, CallTypeOK, Runs
  <2> QED
    BY <1>3, <2>2, <2>3
<1>7. CASE /\ UNCHANGED <<phase, streams, tmrInv, hung>>
           /\ \/ tmrDtmf' = tmrDtmf \cup {c} /\ phase[c] = "established"
              \/ tmrDtmf' = tmrDtmf \ {c}
  <2>1. Live' = Live
    BY <1>7 DEF Live
  <2>2. CallTypeOK' /\ Runs'
    BY <1>1, <1>7, <2>1 DEF CallInv, CallTypeOK, Runs, Live
  <2> QED
    BY <1>3, <2>1, <2>2
<1>8. CASE UaHangup(c)
  BY <1>4, <1>8 DEF UaHangup
<1>9. CASE Info(c)
  BY <1>2, <1>4, <1>7, <1>9 DEF Info
<1>10. CASE DtmfEnd(c)
  BY <1>2, <1>4, <1>7, <1>10 DEF DtmfEnd
<1> QED
  BY <1>5, <1>6, <1>8, <1>9, <1>10
-----------------------------------------------------------------------------
(* A step is one of these, and only a return makes use of a freed call.    *)
LEMMA StepCases ==
    ASSUME [CallNext]_allVars
    PROVE  \/ \E c \in Calls : Handler(c)
           \/ \E c \in Calls : UaHangup(c) \/ UaConnect(c) \/ CallAcceptWaits(c)
                               \/ Info(c) \/ DtmfEnd(c)
           \/ UNCHANGED allVars \/ \E c \in Clients : ClientJoins(c) \/ ClientLeaves(c)
           \/ OtherEvent \/ UaDestructor \/ Returns \/ HangsUp
BY DEF CallNext, Handler

LEMMA WalkStep == ASSUME WalkInv, [CallNext]_allVars PROVE WalkInv' /\ eager' = eager
<1>1. ASSUME NEW c \in Calls, Handler(c)
      PROVE  EventBegins /\ eager' = eager
  BY <1>1 DEF Handler, CallAccept, CallAcceptFails, MnatReady, Established, Closed,
              ClosedRunning, InviteTimeout, Progress, Sends
<1>2. ASSUME NEW c \in Calls,
             UaHangup(c) \/ UaConnect(c) \/ CallAcceptWaits(c) \/ Info(c) \/ DtmfEnd(c)
      PROVE  UNCHANGED walkVars /\ eager' = eager
  BY <1>2 DEF UaHangup, UaConnect, CallAcceptWaits, Info, DtmfEnd
<1>3. OtherEvent \/ UaDestructor => EventBegins /\ eager' = eager
  BY DEF OtherEvent, UaDestructor, callVars
<1>4. Returns => HandlerReturns /\ eager' = eager
  BY DEF Returns
<1>5. HangsUp \/ UNCHANGED allVars => UNCHANGED walkVars /\ eager' = eager
  BY DEF HangsUp, allVars, callVars
<1>6. ASSUME NEW c \in Clients, ClientJoins(c) \/ ClientLeaves(c)
      PROVE  (Register(c) \/ Unregister(c)) /\ eager' = eager
  BY <1>6 DEF ClientJoins, ClientLeaves, callVars
<1> QED
  BY <1>1, <1>2, <1>3, <1>4, <1>5, <1>6, StepCases, BeginsStep, ReturnsStep,
     RegisterStep, UnregisterStep, WalkKept

LEMMA StaleStep ==
    ASSUME [CallNext]_allVars
    PROVE  \/ UNCHANGED stale
           \/ Returns /\ stale' = (stale \/ UsesFreed)
BY StepCases
   DEF Handler, CallAccept, CallAcceptFails, MnatReady, Established, Closed,
       ClosedRunning, InviteTimeout, Progress, Sends, UaHangup, UaConnect,
       CallAcceptWaits, Info, DtmfEnd, OtherEvent, UaDestructor, Returns, HangsUp,
       ClientJoins, ClientLeaves, callVars, allVars

LEMMA StepSound == ASSUME Sound, [CallNext]_allVars PROVE Sound'
<1>1. WalkInv' /\ eager' = eager
  BY WalkStep DEF Sound
<1>2. stale' \in BOOLEAN /\ (stale => stale')
  BY StaleStep DEF Sound
<1>3. ASSUME stale' PROVE eager'
  <2>1. CASE stale
    BY <2>1, <1>1 DEF Sound
  <2>2. CASE ~stale
    <3>1. Returns /\ UsesFreed /\ CallInv
      BY <2>2, <1>3, StaleStep DEF Sound
    <3> QED
      BY <3>1, <1>1, NoneUsed
  <2> QED
    BY <2>1, <2>2
<1>4. ASSUME ~stale' PROVE CallInv'
  <2>1. WalkInv /\ CallInv /\ (Returns => ~UsesFreed)
    BY <1>2, <1>4 DEF Sound, Returns
  <2> QED
    BY <2>1, StepCases, HandlerStep, OtherEventStep, UaDestructorStep, ListStep,
       ReturnsCalls, HangsUpStep, CallStep
<1> QED
  BY <1>1, <1>2, <1>3, <1>4 DEF Sound

LEMMA Invariance == CallSpec => []Sound
BY InitSound, StepSound, PTL DEF CallSpec

(***************************************************************************)
(* An event reaches every client that is registered while it is sent       *)
(* (ua_event), for any clients and any list, whatever they register,       *)
(* unregister and hang up meanwhile, unless one may unregister itself.     *)
(***************************************************************************)
THEOREM AllTold == CallSpec => []AllClientsTold
<1>1. Sound => AllClientsTold
  BY DEF Sound, WalkInv
<1> QED
  BY <1>1, Invariance, PTL

(***************************************************************************)
(* For any number of calls and clients, neither the walk nor the handler   *)
(* that sent an event is left with a freed call, unless a client hangs up  *)
(* the call of an event with others to come after it, or in an event after *)
(* which the handler goes on (ua_event, the handlers of call.c).           *)
(***************************************************************************)
THEOREM LiveCallUsed == CallSpec => []UsesLiveCall
<1>1. Sound => UsesLiveCall
  BY DEF Sound, UsesLiveCall
<1> QED
  BY <1>1, Invariance, PTL

(***************************************************************************)
(* As long as no freed call is used, streams and timers run for calls that *)
(* live only (call_destructor), from wherever the call was freed.          *)
(***************************************************************************)
THEOREM NothingRunsFreed == CallSpec => []RunsOnlyLive
<1>1. Sound => RunsOnlyLive
  BY DEF Sound, CallInv, Runs, RunsOnlyLive
<1> QED
  BY <1>1, Invariance, PTL

(***************************************************************************)
(* A call ends by the application's doing, or after an event that has told *)
(* so every client that stayed (sipsess_close_handler, mnat_handler,       *)
(* audio_error_handler, invite_timeout), as long as no freed call is used. *)
(***************************************************************************)
THEOREM EndIsTold == CallSpec => EndTold
<1> DEFINE Ended(c) ==
             \/ stale' \/ c \in hung' \/ ehl = <<>>
             \/ /\ about # Null /\ about.kind = "CLOSED" /\ about.call = c
                /\ leaves \/ loyal \subseteq told
           Told == \A c \in Live \ Live' : Ended(c)
<1>1. ASSUME Sound, Sound', [CallNext]_allVars
      PROVE  [Told]_allVars
  <2> SUFFICES ASSUME ~stale', ehl # <<>>, NEW c \in Live \ Live'
               PROVE  Ended(c)
    OBVIOUS
  <2>1. WalkInv /\ CallInv /\ WalkInv' /\ (Returns => ~UsesFreed)
    BY <1>1, StaleStep DEF Sound, Returns
  <2>2. CASE Returns
    <3>1. CASE Live \subseteq hung'
      BY <3>1
    <3>2. CASE /\ at' = Null /\ about # Null /\ about.kind = "CLOSED"
               /\ Live' = Live \ {about.call}
      <4>1. UNCHANGED leaves /\ UNCHANGED loyal /\ told' = told
        BY <2>2, <3>2 DEF Returns, HandlerReturns
      <4>2. leaves \/ loyal \subseteq told
        BY <2>1, <3>2, <4>1 DEF WalkInv, AllClientsTold
      <4> QED
        BY <3>2, <4>2
    <3> QED
      BY <2>1, <2>2, <3>1, <3>2, ReturnsCalls
  <2>3. ASSUME ~Returns
        PROVE  c \in hung'
    BY <1>1, <2>1, <2>3, StepCases, HandlerStep, OtherEventStep, UaDestructorStep,
       ListStep, HangsUpStep, CallStep
  <2> QED
    BY <2>2, <2>3
<1> QED
  BY <1>1, Invariance, PTL DEF CallSpec, EndTold
=============================================================================
