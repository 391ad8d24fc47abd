--------------------------- MODULE AudioGroupProofs ---------------------------
(***************************************************************************)
(* For any number of threads, streams and groups, a stream is in one group *)
(* at most and the stream and the groups agree on which.                   *)
(***************************************************************************)
EXTENDS AudioGroup, TLAPS

InJoin == {"leave", "enter", "joined"}

\* Exactly the thread inside join of a stream holds the lock of the stream.
LockHeld ==
    /\ \A t \in Threads : pc[t].at \in InJoin =>
          pc[t].stream \in Streams /\ lock[pc[t].stream] = t
    /\ \A s \in Streams : lock[s] # Null =>
          pc[lock[s]].at \in InJoin /\ pc[lock[s]].stream = s

\* Where the groups have stream s, by the step at which join of s is.
Placed(s) ==
    /\ lock[s] = Null \/ pc[lock[s]].at = "leave" =>
          \A g \in Groups : s \in streams[g] <=> group[s] = g
    /\ lock[s] # Null /\ pc[lock[s]].at = "enter" =>
          group[s] = Null /\ \A g \in Groups : s \notin streams[g]
    /\ lock[s] # Null /\ pc[lock[s]].at = "joined" =>
          /\ pc[lock[s]].to \in Groups /\ group[s] = Null
          /\ \A g \in Groups : s \in streams[g] <=> pc[lock[s]].to = g

Mixed(s) == native[s] # Null <=> \E g \in Groups : s \in streams[g]

IInv == TypeOK /\ LockHeld /\ \A s \in Streams : Placed(s) /\ Mixed(s)

LEMMA TypeInit == Init => TypeOK
BY DEF Init, TypeOK, Idle

LEMMA InitInv == Init => IInv
BY TypeInit, AudioGroupAssumption DEF Init, IInv, LockHeld, Placed, Mixed, Idle, InJoin

\* Every action keeps the types: what is joined is a stream, by LockHeld.
LEMMA TypeNext == ASSUME TypeOK, LockHeld, [Next]_vars PROVE TypeOK'
<1> USE AudioGroupAssumption DEF TypeOK
<1>1. ASSUME NEW t \in Threads, NEW s \in Streams, NEW g \in Groups \cup {Null},
             NEW rest \in SUBSET Streams, Enter(t, s, g, rest)
      PROVE  TypeOK'
  BY <1>1 DEF Enter, Idle
<1>2. ASSUME NEW t \in Threads, NEW s \in Streams, NEW g \in Groups \cup {Null},
             Join(t, s, g)
      PROVE  TypeOK'
  BY <1>1, <1>2 DEF Join
<1>3. ASSUME NEW t \in Threads, NEW s \in Streams, NEW c \in Configs, SetBegins(t, s, c)
      PROVE  TypeOK'
  BY <1>3 DEF SetBegins, Idle
<1>4. ASSUME NEW t \in Threads, JoinLeaves(t) PROVE TypeOK'
  BY <1>4 DEF JoinLeaves
<1>5. ASSUME NEW t \in Threads, JoinEnters(t) PROVE TypeOK'
  <2>1. CASE pc[t].to = Null \/ config[pc[t].stream] = Null
    <3>1. pc' \in [Threads -> [at     : {"idle", "clear", "leave", "enter", "joined", "set"},
                               stream : Streams \cup {Null},
                               to     : Groups \cup {Null},
                               conf   : Configs \cup {Null},
                                rest   : SUBSET Streams]]
      <4>1. CASE pc' = [pc EXCEPT ![t] = Idle]
        BY <4>1 DEF Idle
      <4>2. CASE pc' = [pc EXCEPT ![t].at = "clear"]
        BY <4>2
      <4> QED BY <1>5, <2>1, <4>1, <4>2 DEF JoinEnters, Return
    <3>2. lock' \in [Streams -> Threads \cup {Null}]
      BY <1>5, <2>1 DEF JoinEnters
    <3>3. UNCHANGED <<group, streams, config, native>>
      BY <1>5, <2>1 DEF JoinEnters
    <3> QED BY <3>1, <3>2, <3>3
  <2>2. CASE pc[t].to # Null /\ config[pc[t].stream] # Null
    <3>1. pc[t].to \in Groups
      BY <2>2
    <3>2. /\ streams' = [streams EXCEPT ![pc[t].to] = @ \cup {pc[t].stream}]
          /\ native' = [native EXCEPT ![pc[t].stream] = config[pc[t].stream]]
          /\ pc' = [pc EXCEPT ![t].at = "joined"]
          /\ UNCHANGED <<group, config, lock>>
      BY <1>5, <2>2 DEF JoinEnters
    <3>3. pc[t].stream \in Streams
      BY <1>5 DEF JoinEnters, LockHeld, InJoin
    <3>4. streams' \in [Groups -> SUBSET Streams]
      BY <3>1, <3>2, <3>3
    <3> QED BY <3>2, <3>4
  <2> QED BY <2>1, <2>2
<1>6. ASSUME NEW t \in Threads, JoinReturns(t) PROVE TypeOK'
  BY <1>6, ZenonT(40) DEF JoinReturns, Return, Idle
<1>7. ASSUME NEW t \in Threads, NEW g \in Groups, Clear(t, g) PROVE TypeOK'
  <2>1. streams[g] \in SUBSET Streams
    OBVIOUS
  <2>2. pc' = [pc EXCEPT ![t] = [at |-> "clear", stream |-> Null, to |-> Null,
                                 conf |-> Null, rest |-> streams[g]]]
    BY <1>7 DEF Clear
  <2>3. UNCHANGED <<group, streams, config, native, lock>>
    BY <1>7 DEF Clear
  <2> QED BY <2>1, <2>2, <2>3
<1>8. ASSUME NEW t \in Threads, ClearNext(t) PROVE TypeOK'
  <2>1. PICK s \in pc[t].rest : Enter(t, s, Null, pc[t].rest \ {s})
    BY <1>8 DEF ClearNext
  <2>2. s \in Streams /\ pc[t].rest \ {s} \in SUBSET Streams
    OBVIOUS
  <2> QED BY <1>1, <2>1, <2>2
<1>9. ASSUME NEW t \in Threads, SetWrites(t) PROVE TypeOK'
  BY <1>9 DEF SetWrites, Idle
<1>10. CASE UNCHANGED vars
  BY <1>10 DEF vars
<1> QED BY <1>2, <1>3, <1>4, <1>5, <1>6, <1>7, <1>8, <1>9, <1>10 DEF Next

(***************************************************************************)
(* The steps.  Each is about one stream and one thread; what they say of   *)
(* the others does not change.                                             *)
(***************************************************************************)
Rest == LockHeld /\ \A s \in Streams : Placed(s) /\ Mixed(s)

LEMMA EnterInv ==
    ASSUME IInv, NEW t \in Threads, pc[t].at \in {"idle", "clear"},
           NEW s \in Streams, NEW g \in Groups \cup {Null},
           NEW rest \in SUBSET Streams, Enter(t, s, g, rest)
    PROVE  Rest'
<1> USE AudioGroupAssumption DEF IInv, Rest, InJoin
<1>1. LockHeld'
  BY DEF Enter, LockHeld, TypeOK, Idle
<1>2. \A r \in Streams : Placed(r)' /\ Mixed(r)'
  BY DEF Enter, LockHeld, Placed, Mixed, TypeOK, Idle
<1> QED BY <1>1, <1>2

LEMMA LeavesInv == ASSUME IInv, NEW t \in Threads, JoinLeaves(t) PROVE Rest'
<1> USE AudioGroupAssumption DEF IInv, Rest, InJoin
<1>1. LockHeld'
  BY DEF JoinLeaves, LockHeld, TypeOK
<1>2. ASSUME NEW r \in Streams PROVE Placed(r)' /\ Mixed(r)'
  <2> DEFINE s == pc[t].stream
  <2>1. s \in Streams /\ lock[s] = t /\ pc[t].at = "leave"
    BY DEF JoinLeaves, LockHeld
  <2>2. CASE r = s
    <3>1. \A g \in Groups : s \notin streams'[g]
      BY <2>1 DEF JoinLeaves, Placed, TypeOK
    <3>2. group'[s] = Null /\ native'[s] = Null /\ lock'[s] = t /\ pc'[t].at = "enter"
      BY <2>1 DEF JoinLeaves, TypeOK
    <3> QED BY <2>1, <2>2, <3>1, <3>2 DEF Placed, Mixed, TypeOK
  <2>3. CASE r # s
    <3>1. \A g \in Groups : r \in streams'[g] <=> r \in streams[g]
      BY <2>1, <2>3 DEF JoinLeaves, TypeOK
    <3>2. group'[r] = group[r] /\ native'[r] = native[r] /\ lock'[r] = lock[r]
      BY <2>1, <2>3 DEF JoinLeaves, TypeOK
    <3>3. lock[r] # t /\ (lock[r] # Null => pc'[lock[r]] = pc[lock[r]])
      BY <2>1, <2>3 DEF JoinLeaves, LockHeld, TypeOK
    <3> QED BY <3>1, <3>2, <3>3 DEF Placed, Mixed
  <2> QED BY <2>2, <2>3
<1> QED BY <1>1, <1>2

LEMMA EntersInv == ASSUME IInv, NEW t \in Threads, JoinEnters(t) PROVE Rest'
<1> USE AudioGroupAssumption DEF IInv, Rest, InJoin
<1>1. LockHeld'
  BY SMTT(20) DEF JoinEnters, LockHeld, TypeOK, Return, Idle
<1>2. ASSUME NEW r \in Streams PROVE Placed(r)' /\ Mixed(r)'
  <2> DEFINE s == pc[t].stream
             fails == pc[t].to = Null \/ config[s] = Null
  <2>1. /\ s \in Streams /\ lock[s] = t /\ pc[t].at = "enter"
        /\ group[s] = Null /\ \A g \in Groups : s \notin streams[g]
    BY DEF JoinEnters, LockHeld, Placed
  <2>2. group' = group
    BY DEF JoinEnters
  <2>3. CASE r = s /\ fails
    <3>1. lock'[s] = Null /\ UNCHANGED <<streams, native>>
      BY <2>1, <2>3 DEF JoinEnters, TypeOK
    <3> QED BY <2>1, <2>2, <2>3, <3>1 DEF Placed, Mixed
  <2>4. CASE r = s /\ ~fails
    <3>1. pc[t].to \in Groups /\ config[s] # Null
      BY <2>1, <2>4 DEF TypeOK
    <3>2. /\ \A g \in Groups : s \in streams'[g] <=> pc[t].to = g
          /\ native'[s] = config[s]
      BY <2>1, <2>4, <3>1 DEF JoinEnters, TypeOK
    <3>3. lock' = lock /\ pc'[t].at = "joined" /\ pc'[t].to = pc[t].to
      BY <2>1, <2>4 DEF JoinEnters, TypeOK
    <3> QED BY <2>1, <2>2, <2>4, <3>1, <3>2, <3>3 DEF Placed, Mixed
  <2>5. CASE r # s
    <3>1. \A g \in Groups : r \in streams'[g] <=> r \in streams[g]
      BY <2>1, <2>5 DEF JoinEnters, TypeOK
    <3>2. native'[r] = native[r] /\ lock'[r] = lock[r]
      BY <2>1, <2>5 DEF JoinEnters, TypeOK
    <3>3. lock[r] # t /\ (lock[r] # Null => pc'[lock[r]] = pc[lock[r]])
      BY <2>1, <2>5 DEF JoinEnters, LockHeld, TypeOK, Return
    <3> QED BY <2>2, <3>1, <3>2, <3>3 DEF Placed, Mixed
  <2> QED BY <2>3, <2>4, <2>5
<1> QED BY <1>1, <1>2

LEMMA ReturnsInv == ASSUME IInv, NEW t \in Threads, JoinReturns(t) PROVE Rest'
<1> USE AudioGroupAssumption DEF IInv, Rest, InJoin
<1>1. LockHeld'
  BY DEF JoinReturns, LockHeld, TypeOK, Return, Idle
<1>2. \A r \in Streams : Placed(r)' /\ Mixed(r)'
  BY DEF JoinReturns, LockHeld, Placed, Mixed, TypeOK, Return, Idle
<1> QED BY <1>1, <1>2

\* The steps that enter and leave no join.
LEMMA OutsideInv ==
    ASSUME IInv, NEW t \in Threads, pc[t].at \notin InJoin,
           pc'[t].at \notin InJoin, \A u \in Threads \ {t} : pc'[u] = pc[u],
           UNCHANGED <<group, streams, native, lock>>
    PROVE  Rest'
<1> USE AudioGroupAssumption DEF IInv, Rest, InJoin
<1>1. LockHeld'
  BY DEF LockHeld, TypeOK
<1>2. \A r \in Streams : Placed(r)' /\ Mixed(r)'
  BY DEF LockHeld, Placed, Mixed, TypeOK
<1> QED BY <1>1, <1>2

LEMMA NextInv == IInv /\ [Next]_vars => IInv'
<1> SUFFICES ASSUME IInv, [Next]_vars PROVE Rest'
  BY TypeNext DEF IInv, Rest
<1> USE AudioGroupAssumption
<1>1. ASSUME NEW t \in Threads, NEW s \in Streams, NEW g \in Groups \cup {Null},
             Join(t, s, g)
      PROVE  Rest'
  BY <1>1, EnterInv DEF Join
<1>2. ASSUME NEW t \in Threads, NEW s \in Streams, NEW c \in Configs, SetBegins(t, s, c)
      PROVE  Rest'
  BY <1>2, OutsideInv DEF SetBegins, Idle, IInv, TypeOK, InJoin
<1>3. ASSUME NEW t \in Threads, NEW g \in Groups, Clear(t, g) PROVE Rest'
  BY <1>3, OutsideInv DEF Clear, Idle, IInv, TypeOK, InJoin
<1>4. ASSUME NEW t \in Threads, ClearNext(t) PROVE Rest'
  <2>1. PICK s \in pc[t].rest : Enter(t, s, Null, pc[t].rest \ {s})
    BY <1>4 DEF ClearNext
  <2> QED BY <1>4, <2>1, EnterInv DEF ClearNext, IInv, TypeOK
<1>5. ASSUME NEW t \in Threads, SetWrites(t) PROVE Rest'
  BY <1>5, OutsideInv DEF SetWrites, Idle, IInv, TypeOK, InJoin
<1>6. CASE UNCHANGED vars
  BY <1>6 DEF vars, IInv, Rest, LockHeld, Placed, Mixed
<1> QED BY <1>1, <1>2, <1>3, <1>4, <1>5, <1>6, LeavesInv, EntersInv, ReturnsInv DEF Next

THEOREM Invariance == Spec => []IInv
BY InitInv, NextInv, PTL DEF Spec

(***************************************************************************)
(* AudioGroup is well typed for any threads, streams and groups.           *)
(***************************************************************************)
THEOREM TypeCorrect == Spec => []TypeOK
<1>1. IInv => TypeOK
  BY DEF IInv
<1> QED BY Invariance, <1>1, PTL

(***************************************************************************)
(* A stream is in one group at most, also in the middle of join, and the   *)
(* native code mixes the streams of the groups and no other.               *)
(***************************************************************************)
THEOREM OneGroupAtATime == Spec => []OneGroup
<1>1. IInv => OneGroup
  <2> SUFFICES ASSUME IInv PROVE OneGroup
    OBVIOUS
  <2>1. \A s \in Streams : lock[s] = Null \/ pc[lock[s]].at \in InJoin
    BY DEF IInv, LockHeld
  <2>2. \A s \in Streams, x, y \in Groups : s \in streams[x] /\ s \in streams[y] => x = y
    BY <2>1 DEF IInv, Placed, InJoin
  <2> QED BY <2>2 DEF IInv, TypeOK, Mixed, OneGroup
<1> QED BY Invariance, <1>1, PTL

(***************************************************************************)
(* Outside join, the stream and the groups agree on where the stream is.   *)
(***************************************************************************)
THEOREM MembersAgree == Spec => []MembershipAgrees
<1>1. IInv => MembershipAgrees
  BY DEF IInv, Placed, MembershipAgrees
<1> QED BY Invariance, <1>1, PTL
=============================================================================
