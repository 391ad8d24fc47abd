------------------------------- MODULE UaEvents -------------------------------
(***************************************************************************)
(* How an event of a user agent reaches the clients (ua_event and          *)
(* uag_event_register, uag_event_unregister, ua.c).  ua_event walks the    *)
(* list of handlers and calls each; a handler may register others and      *)
(* unregister any of them while the walk stands at it.  CallEvents says     *)
(* when an event begins.                                                   *)
(***************************************************************************)
EXTENDS Naturals, Sequences, SequencesExt

CONSTANTS
    Clients,    \* the clients, each with a handler of its own
    Null,       \* the end of the list
    MaxList     \* bound: handlers in the list

ASSUME EventsAssumption ==
    /\ Null \notin Clients
    /\ MaxList \in Nat

VARIABLES
    leaves, \* TRUE if a handler may unregister itself while it runs
    ehl,    \* uag.ehl: the clients in the order of registration
    at,     \* the client whose handler runs, or Null between two events
    told,   \* the clients that the current event, or the last one, has reached
    loyal,  \* the clients registered when it began, and ever since
    freed   \* TRUE while the struct ua_eh of the running handler is freed

TypeOK ==
    /\ ehl \in Seq(Clients) /\ Len(ehl) <= MaxList
    /\ at \in Clients \cup {Null}
    /\ told \subseteq Clients /\ loyal \subseteq Clients
    /\ freed \in BOOLEAN /\ leaves \in BOOLEAN

Init ==
    /\ leaves \in BOOLEAN
    /\ ehl = <<>> /\ at = Null
    /\ told = {} /\ loyal = {}
    /\ freed = FALSE

\* Where the client is in the list, and the client after it.
Place(c) == CHOOSE i \in DOMAIN ehl : ehl[i] = c

After(c) == IF Place(c) = Len(ehl) THEN Null ELSE ehl[Place(c) + 1]

\* Mutant: a handler is put at the head, where the walk has already been.
Register_Prepends(c) ==
    /\ c \notin ToSet(ehl) /\ Len(ehl) < MaxList
    /\ ehl' = <<c>> \o ehl
    /\ loyal' = IF at = Null THEN loyal ELSE loyal \cup {c}
    /\ UNCHANGED <<leaves, at, told, freed>>

\* uag_event_register, at any time on the main loop.  A client that joins
\* during an event is told of it too: it is appended.
Register(c) ==
    /\ c \notin ToSet(ehl) /\ Len(ehl) < MaxList
    /\ ehl' = Append(ehl, c)
    /\ loyal' = IF at = Null THEN loyal ELSE loyal \cup {c}
    /\ UNCHANGED <<leaves, at, told, freed>>

\* uag_event_unregister: list_unlink and mem_deref.
Unregister(c) ==
    /\ c \in ToSet(ehl)
    /\ c = at => leaves
    /\ ehl' = RemoveAt(ehl, Place(c))
    /\ loyal' = loyal \ {c}
    /\ freed' = (freed \/ c = at)
    /\ UNCHANGED <<leaves, at, told>>

\* ua_event calls the first handler, or returns at once if there is none.
EventBegins ==
    /\ at = Null
    /\ at' = IF ehl = <<>> THEN Null ELSE Head(ehl)
    /\ told' = IF ehl = <<>> THEN {} ELSE {Head(ehl)}
    /\ loyal' = ToSet(ehl)
    /\ UNCHANGED <<leaves, ehl, freed>>

\* A handler returns and le->next is read.  If the handler unregistered itself,
\* le is in freed memory, where list_unlink had left NULL.
HandlerReturns ==
    /\ at # Null
    /\ LET next == IF freed THEN Null ELSE After(at)
       IN  /\ at' = next
           /\ told' = IF next = Null THEN told ELSE told \cup {next}
    /\ freed' = FALSE
    /\ UNCHANGED <<leaves, ehl, loyal>>
-----------------------------------------------------------------------------
(***************************************************************************)
(* "send event to all clients" (ua.c): when an event is over, it has       *)
(* reached every client that was registered from its beginning, or joined  *)
(* during it, and stayed.  A handler that unregisters itself cuts the walk *)
(* short: le->next is read from what it freed.                             *)
(***************************************************************************)
AllClientsTold == at = Null /\ ~leaves => loyal \subseteq told
=============================================================================
