----------------------------- MODULE CallService -----------------------------
(***************************************************************************)
(* What the call control of a user agent promises to those who watch it:   *)
(* the application, which sees the events of each call, and a peer that    *)
(* asked for a transfer with REFER, which sees the NOTIFY requests.        *)
(***************************************************************************)
CONSTANTS Calls, Notifiers, Null

VARIABLES
    view,    \* the last thing the application was told of each call
    request  \* the outcome reported for each transfer request, and the call
             \* that received the request while it is pending

vars == <<view, request>>

Pending(c)  == [outcome |-> "trying", by |-> c]
Over(o)     == [outcome |-> o, by |-> Null]
IsPending(n) == request[n].outcome = "trying"

Init ==
    /\ view = [c \in Calls |-> "idle"]
    /\ request = [n \in Notifiers |-> Over("idle")]

\* Ringing or progress: never after the call was reported established.
Alert(c) ==
    /\ view[c] # "up"
    /\ view' = [view EXCEPT ![c] = "alerted"]
    /\ UNCHANGED request

\* Established: at most once in the life of a call.  If the call serves a
\* transfer request that another call received, this is its success.
Up(c) ==
    /\ view[c] # "up"
    /\ view' = [view EXCEPT ![c] = "up"]
    /\ \/ UNCHANGED request
       \/ \E n \in Notifiers :
             /\ IsPending(n) /\ request[n].by # c
             /\ request' = [request EXCEPT ![n] = Over("ok")]

\* The calls in S are gone, and some pending requests end without success.  A
\* request outlives the call that received it.
Gone(S) ==
    /\ view' = [c \in Calls |-> IF c \in S THEN "idle" ELSE view[c]]
    /\ request' \in [Notifiers -> {Over("failed"), Over("ended"), Pending(Null)}
                                   \cup {request[n] : n \in Notifiers}]
    /\ \A n \in Notifiers :
          \/ request'[n] = request[n]
          \/ IsPending(n) /\ \/ request'[n].outcome \in {"failed", "ended"}
                             \/ request[n].by \in S /\ request'[n] = Pending(Null)

\* Call c receives request n, which replaces an older one and may fail at once.
Ask(c, n) ==
    /\ UNCHANGED view
    /\ \E m \in Notifiers, o \in {Pending(c), Over("failed")} :
          \/ /\ ~IsPending(n)
             /\ request' = [request EXCEPT ![n] = o]
          \/ /\ IsPending(m) /\ (m # n => ~IsPending(n))
             /\ request' = [request EXCEPT ![m] = Over("ended"), ![n] = o]

Next ==
    \/ \E c \in Calls : Alert(c) \/ Up(c)
    \/ \E S \in SUBSET Calls : Gone(S)
    \/ \E c \in Calls, n \in Notifiers : Ask(c, n)

Spec == Init /\ [][Next]_vars
=============================================================================
