------------------------------ MODULE UserAgents ------------------------------
(***************************************************************************)
(* The user agents of the process (the static uag of ua.c): their list,    *)
(* the current one, the pointers that the application keeps to them, the   *)
(* SIP stack, and what a change of the IP address does to registrations.   *)
(* Calls are in Call.tla.  The SIP stack, the network module (net) and     *)
(* the register clients (reg) are not in this repository.                  *)
(***************************************************************************)
EXTENDS Naturals, Sequences, SequencesExt

CONSTANTS
    Uas,        \* the user agents memory has room for
    Flows,      \* how many register clients each has (ua->regl): one, or one
                \* for each outbound proxy, or none
    Pointers,   \* the variables in which the application keeps user agents
    Null,       \* the NULL pointer
    Settings,   \* which calls may fail in the processes that are looked at
    MaxAddr     \* bound: changes of the IP address

Failures == {"init", "transport", "register"}

ASSUME UserAgentsAssumption ==
    /\ Null \notin Uas \cup Pointers \cup Nat
    /\ Flows \in [Uas -> 0..2]
    /\ Settings \subseteq SUBSET Failures
    /\ MaxAddr \in Nat

VARIABLES
    fails,   \* the calls that may fail in this process, which nothing changes
    sip,     \* TRUE while uag.sip is set
    ual,     \* uag.ual
    live,    \* the user agents that are not freed
    lost,    \* those of them that ua_init has dropped from the list
    uap,     \* the variable of the application that each user agent knows of
    app,     \* what those variables point to
    cur,     \* uag.ua_cur
    addr,    \* the IP address of the device
    laddr,   \* the address that the network module knows
    tried    \* the last REGISTER of each register client of each user agent:
             \* the address that it came from, and whether it could be sent

vars == <<fails, sip, ual, live, lost, uap, app, cur, addr, laddr, tried>>

Addresses == 0..MaxAddr

TypeOK ==
    /\ fails \in Settings
    /\ sip \in BOOLEAN
    /\ ual \in Seq(Uas) /\ live \subseteq Uas /\ lost \subseteq Uas
    /\ uap \in [Uas -> Pointers \cup {Null}]
    /\ app \in [Pointers -> Uas \cup {Null}]
    /\ cur \in Uas \cup {Null}
    /\ addr \in Addresses /\ laddr \in Addresses
    /\ tried \in [Uas -> Seq([from : Addresses, ok : BOOLEAN])]

Init ==
    /\ fails \in Settings
    /\ sip = FALSE
    /\ ual = <<>> /\ live = {} /\ lost = {} /\ cur = Null
    /\ uap = [ua \in Uas |-> Null]
    /\ app = [p \in Pointers |-> Null]
    /\ addr = 0 /\ laddr = 0
    /\ tried = [ua \in Uas |-> <<>>]

May(call) == {TRUE} \cup IF call \in fails THEN {FALSE} ELSE {}

Attempt(from, ok) == [from |-> from, ok |-> ok]

\* ua_register, where the client n is the first that fails (none is, if n is
\* beyond the last): it ends the loop.
UaRegister(ua, from, n) ==
    [i \in 1..Flows[ua] |-> IF i > n THEN tried[ua][i] ELSE Attempt(from, i < n)]

AllSucceed == 3
FirstFailures == {AllSucceed} \cup IF "register" \in fails THEN {1, 2} ELSE {}
-----------------------------------------------------------------------------
\* Mutant: the variable of the application is not cleared.
Freed_KeepsPointer(gone) ==
    /\ live' = live \ gone
    /\ uap' = [ua \in Uas |-> IF ua \in gone THEN Null ELSE uap[ua]]
    /\ tried' = [ua \in Uas |-> IF ua \in gone THEN <<>> ELSE tried[ua]]
    /\ UNCHANGED <<fails, app, cur>>

\* ua_destructor of each of these user agents, but for the list.
Freed(gone) ==
    /\ live' = live \ gone
    /\ uap' = [ua \in Uas |-> IF ua \in gone THEN Null ELSE uap[ua]]
    /\ app' = [p \in Pointers |-> IF \E ua \in gone : uap[ua] = p THEN Null ELSE app[p]]
    /\ tried' = [ua \in Uas |-> IF ua \in gone THEN <<>> ELSE tried[ua]]
    /\ UNCHANGED <<fails, cur>>

\* ua_close: the SIP stack goes before the user agents.
UaClose ==
    /\ sip' = FALSE
    /\ ual' = <<>> /\ Freed(ToSet(ual))
    /\ UNCHANGED <<addr, laddr, lost>>

\* ua_init, also a second one.  The list is emptied, not flushed, before the stack
\* is allocated: the user agents that were in it, allocated before ua_init or
\* under the former stack, are lost.
UaInit ==
    /\ \/ sip' = TRUE
       \/ fails \cap {"init", "transport"} # {} /\ sip' = FALSE
    /\ ual' = <<>>
    /\ lost' = lost \cup ToSet(ual)
    /\ laddr' = addr
    /\ UNCHANGED <<fails, live, uap, app, cur, addr, tried>>

\* ua_stop_all without force, which flushes the list; with it, calls end only.
UaStopAll ==
    /\ ual' = <<>> /\ Freed(ToSet(ual))
    /\ UNCHANGED <<fails, sip, addr, laddr, lost>>

\* The application calls mem_deref on what a variable points to, but not on a user
\* agent that ua_init has dropped: list_unlink would write to the list all the same.
UaFree(p) ==
    /\ app[p] # Null
    /\ \E i \in DOMAIN ual :
          /\ ual[i] = app[p]
          /\ ual' = RemoveAt(ual, i)
    /\ Freed({app[p]})
    /\ UNCHANGED <<fails, sip, addr, laddr, lost>>

\* uag_current: NULL if there are no user agents.
UagCurrent(list, ua) == IF list = <<>> THEN Null ELSE ua

\* ua_register of a new user agent: no register client, no failure; no SIP stack,
\* no success.
RegisterWorks(ua) ==
    IF Flows[ua] = 0 THEN {TRUE} ELSE IF sip THEN May("register") ELSE {FALSE}

\* Mutant: a user agent that cannot register stays in the list.
UaAlloc_StaysListed(ua, p) ==
    /\ ua \notin live
    /\ LET list == Append(ual, ua)
       IN  /\ cur' = IF UagCurrent(list, cur) = Null THEN ua ELSE cur
           /\ ual' = list
    /\ \/ /\ TRUE \in RegisterWorks(ua)
          /\ live' = live \cup {ua}
          /\ uap' = [uap EXCEPT ![ua] = p]
          /\ app' = [app EXCEPT ![p] = ua]
          /\ tried' = [tried EXCEPT ![ua] = UaRegister(ua, laddr, AllSucceed)]
       \/ /\ FALSE \in RegisterWorks(ua)
          /\ UNCHANGED <<live, uap, app, tried>>
    /\ UNCHANGED <<fails, sip, addr, laddr, lost>>

\* ua_alloc.  What fails before the user agent is in the list leaves no trace.
\* Then it may be made current, also if it cannot register: it is freed all the
\* same, and ua_destructor, which knows no variable yet, takes it from the list.
UaAlloc(ua, p) ==
    /\ ua \notin live
    /\ LET list == Append(ual, ua)
       IN  /\ cur' = IF UagCurrent(list, cur) = Null THEN ua ELSE cur
           /\ \/ /\ TRUE \in RegisterWorks(ua)
                 /\ ual' = list
                 /\ live' = live \cup {ua}
                 /\ uap' = [uap EXCEPT ![ua] = p]
                 /\ app' = [app EXCEPT ![p] = ua]
                 /\ tried' = [tried EXCEPT ![ua] = UaRegister(ua, laddr, AllSucceed)]
              \/ /\ FALSE \in RegisterWorks(ua)
                 /\ ual' = RemoveAt(list, Len(list))
                 /\ UNCHANGED <<live, uap, app, tried>>
    /\ UNCHANGED <<fails, sip, addr, laddr, lost>>

UagCurrentSet(p) ==
    /\ cur' = app[p]
    /\ UNCHANGED <<fails, sip, ual, live, lost, uap, app, addr, laddr, tried>>
-----------------------------------------------------------------------------
\* The device gets another address.
AddressChanges ==
    /\ addr < MaxAddr
    /\ addr' = addr + 1
    /\ UNCHANGED <<fails, sip, ual, live, lost, uap, app, cur, laddr, tried>>

\* Mutant: the first user agent that fails to register ends the loop.
Reregister_StopsAtError ==
    \E n \in [Uas -> FirstFailures], last \in 0..Len(ual) :
        /\ last = Len(ual) \/ (last > 0 /\ n[ual[last]] <= Flows[ual[last]])
        /\ tried' = [ua \in Uas |-> IF \E i \in 1..last : ual[i] = ua
                                    THEN UaRegister(ua, addr, n[ua]) ELSE tried[ua]]

\* uag_reset_transp: errors are collected, the loop goes on.
Reregister ==
    \E n \in [Uas -> FirstFailures] :
        tried' = [ua \in Uas |-> IF ua \in ToSet(ual)
                                 THEN UaRegister(ua, addr, n[ua]) ELSE tried[ua]]

\* net_change_handler, every 60 s if the address changed.  Without transports
\* uag_reset_transp returns.
NetChange ==
    /\ sip
    /\ laddr # addr
    /\ laddr' = addr
    /\ \/ Reregister
       \/ "transport" \in fails /\ UNCHANGED tried
    /\ UNCHANGED <<fails, sip, ual, live, lost, uap, app, cur, addr>>
-----------------------------------------------------------------------------
Next ==
    \/ UaInit \/ UaClose \/ UaStopAll
    \/ \E ua \in Uas, p \in Pointers : UaAlloc(ua, p)
    \/ \E p \in Pointers : UaFree(p) \/ UagCurrentSet(p)
    \/ AddressChanges \/ NetChange

Spec == Init /\ [][Next]_vars
-----------------------------------------------------------------------------
(***************************************************************************)
(* The list holds every live user agent once, and none that is freed, but  *)
(* for those that a ua_init has dropped from it, however initialisation,   *)
(* allocation, registration that fails, stopping and closing follow each   *)
(* other: what is not listed neither closes nor registers again.           *)
(***************************************************************************)
ListExact == IsInjective(ual) /\ ToSet(ual) = live \ lost

(***************************************************************************)
(* What the application points to is never freed behind its back: the      *)
(* destructor clears the variable, also when the application has since     *)
(* stored another user agent there.                                        *)
(***************************************************************************)
PointersLive == \A p \in Pointers : app[p] # Null => app[p] \in live

(***************************************************************************)
(* "Re-REGISTER all User-Agents" (ua.c): every register client has tried   *)
(* to register from the address that the network module knows, but for     *)
(* those behind a client of the same user agent that failed, and stays     *)
(* registered at an address that is gone.  Where a transport cannot be     *)
(* added uag_reset_transp returns before that, the network module knows    *)
(* the new address by then, and nobody tries again.                        *)
(***************************************************************************)
AllReregistered ==
    "transport" \notin fails =>
        \A ua \in ToSet(ual) : \A i \in DOMAIN tried[ua] :
            \/ tried[ua][i].from = laddr
            \/ \E j \in 1..(i - 1) : tried[ua][j] = Attempt(laddr, FALSE)
=============================================================================
