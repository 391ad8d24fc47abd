------------------------------ MODULE AudioGroup ------------------------------
(***************************************************************************)
(* Audio streams that join and leave audio groups (AudioStream.java,       *)
(* AudioGroup.java, RtpStream.java), called by several threads.  join and  *)
(* release hold the lock of the stream, and the methods of a group its     *)
(* own; as those wait for nothing, each is one action.  The setters of a   *)
(* stream hold no lock.  The native half is not in this repository.        *)
(***************************************************************************)
EXTENDS Naturals, FiniteSets

CONSTANTS
    Threads,  \* the threads of the application
    Streams,  \* the audio streams
    Groups,   \* the audio groups
    Configs,  \* what the setters give a stream: codec, peer, DTMF type, mode
    Null      \* null

ASSUME AudioGroupAssumption == Null \notin Streams \cup Groups \cup Configs \cup Threads

VARIABLES
    group,    \* mGroup of each stream
    streams,  \* the streams in mStreams of each group
    config,   \* the configuration of each stream
    native,   \* the configuration with which the native code mixes a stream
    lock,     \* the thread that holds the lock of each stream
    pc        \* what each thread is doing, and with what

vars == <<group, streams, config, native, lock, pc>>

Idle == [at |-> "idle", stream |-> Null, to |-> Null, conf |-> Null, rest |-> {}]

TypeOK ==
    /\ group \in [Streams -> Groups \cup {Null}]
    /\ streams \in [Groups -> SUBSET Streams]
    /\ config \in [Streams -> Configs \cup {Null}]
    /\ native \in [Streams -> Configs \cup {Null}]
    /\ lock \in [Streams -> Threads \cup {Null}]
    /\ pc \in [Threads -> [at     : {"idle", "clear", "leave", "enter", "joined", "set"},
                           stream : Streams \cup {Null},
                           to     : Groups \cup {Null},
                           conf   : Configs \cup {Null},
                           rest   : SUBSET Streams]]

Init ==
    /\ group = [s \in Streams |-> Null]
    /\ streams = [g \in Groups |-> {}]
    /\ config = [s \in Streams |-> Null]
    /\ native = [s \in Streams |-> Null]
    /\ lock = [s \in Streams |-> Null]
    /\ pc = [t \in Threads |-> Idle]

\* After join a thread goes on with the streams that clear() has left.
Return(t) ==
    pc' = IF pc[t].rest = {} THEN [pc EXCEPT ![t] = Idle]
                             ELSE [pc EXCEPT ![t].at = "clear"]
-----------------------------------------------------------------------------
\* Thread t enters join(g) of stream s; if it has joined g already it returns.
Enter(t, s, g, rest) ==
    /\ lock[s] = Null
    /\ pc' = [pc EXCEPT ![t] =
                 IF group[s] # g
                 THEN [at |-> "leave", stream |-> s, to |-> g, conf |-> Null,
                       rest |-> rest]
                 ELSE IF rest = {} THEN Idle
                 ELSE [at |-> "clear", stream |-> Null, to |-> g, conf |-> Null,
                       rest |-> rest]]
    /\ lock' = [lock EXCEPT ![s] = IF group[s] # g THEN t ELSE Null]
    /\ UNCHANGED <<group, streams, config, native>>

Join(t, s, g) == pc[t].at = "idle" /\ Enter(t, s, g, {})

\* Mutant: a stream that changes groups stays in the old one.
JoinLeaves_Stays(t) ==
    /\ pc[t].at = "leave"
    /\ group' = [group EXCEPT ![pc[t].stream] = Null]
    /\ pc' = [pc EXCEPT ![t].at = "enter"]
    /\ UNCHANGED <<streams, config, native, lock>>

\* mGroup.remove(this); mGroup = null.
JoinLeaves(t) ==
    /\ pc[t].at = "leave"
    /\ LET s == pc[t].stream
       IN  /\ streams' = [g \in Groups |-> IF g = group[s] THEN streams[g] \ {s}
                                                           ELSE streams[g]]
           /\ native' = [native EXCEPT ![s] = Null]
           /\ group' = [group EXCEPT ![s] = Null]
    /\ pc' = [pc EXCEPT ![t].at = "enter"]
    /\ UNCHANGED <<config, lock>>

\* group.add(this), which throws if the stream is not configured.
JoinEnters(t) ==
    /\ pc[t].at = "enter"
    /\ LET s == pc[t].stream
           to == pc[t].to
       IN  IF to = Null \/ config[s] = Null
           THEN /\ Return(t)
                /\ lock' = [lock EXCEPT ![s] = Null]
                /\ UNCHANGED <<streams, native>>
           ELSE /\ streams' = [streams EXCEPT ![to] = @ \cup {s}]
                /\ native' = [native EXCEPT ![s] = config[s]]
                /\ pc' = [pc EXCEPT ![t].at = "joined"]
                /\ UNCHANGED lock
    /\ UNCHANGED <<group, config>>

\* mGroup = group, and out of the lock.
JoinReturns(t) ==
    /\ pc[t].at = "joined"
    /\ group' = [group EXCEPT ![pc[t].stream] = pc[t].to]
    /\ lock' = [lock EXCEPT ![pc[t].stream] = Null]
    /\ Return(t)
    /\ UNCHANGED <<streams, config, native>>

\* clear(): the streams are taken under the lock of the group, and told to
\* leave one by one without it.
Clear(t, g) ==
    /\ pc[t].at = "idle" /\ streams[g] # {}
    /\ pc' = [pc EXCEPT ![t] = [at |-> "clear", stream |-> Null, to |-> Null,
                                conf |-> Null, rest |-> streams[g]]]
    /\ UNCHANGED <<group, streams, config, native, lock>>

ClearNext(t) ==
    /\ pc[t].at = "clear"
    /\ \E s \in pc[t].rest : Enter(t, s, Null, pc[t].rest \ {s})

\* setCodec, setDtmfType, setMode, associate: refused if the stream is busy.
SetBegins(t, s, c) ==
    /\ pc[t].at = "idle"
    /\ group[s] = Null
    /\ pc' = [pc EXCEPT ![t] = [Idle EXCEPT !.at = "set", !.stream = s, !.conf = c]]
    /\ UNCHANGED <<group, streams, config, native, lock>>

SetWrites(t) ==
    /\ pc[t].at = "set"
    /\ config' = [config EXCEPT ![pc[t].stream] = pc[t].conf]
    /\ pc' = [pc EXCEPT ![t] = Idle]
    /\ UNCHANGED <<group, streams, native, lock>>
-----------------------------------------------------------------------------
Next ==
    \E t \in Threads :
        \/ \E s \in Streams :
              \/ \E g \in Groups \cup {Null} : Join(t, s, g)
              \/ \E c \in Configs : SetBegins(t, s, c)
        \/ JoinLeaves(t) \/ JoinEnters(t) \/ JoinReturns(t)
        \/ \E g \in Groups : Clear(t, g)
        \/ ClearNext(t) \/ SetWrites(t)

Spec == Init /\ [][Next]_vars
-----------------------------------------------------------------------------
(***************************************************************************)
(* "Each stream can join only one group at a time" (AudioStream.join), and *)
(* the native code mixes exactly the streams of the groups.                *)
(***************************************************************************)
OneGroup ==
    /\ \A x, y \in Groups : x # y => streams[x] \cap streams[y] = {}
    /\ \A s \in Streams : native[s] # Null <=> \E g \in Groups : s \in streams[g]

(***************************************************************************)
(* While nobody is inside join of a stream, the stream and the groups      *)
(* agree on where it is, whoever joined, cleared or failed before.         *)
(***************************************************************************)
MembershipAgrees ==
    \A s \in Streams : lock[s] = Null =>
        \A g \in Groups : s \in streams[g] <=> group[s] = g

(***************************************************************************)
(* "An AudioStream becomes busy when it joins an AudioGroup.  In this case *)
(* most of the setter methods are disabled" (AudioStream.java): what is    *)
(* mixed is what the stream says.                                          *)
(***************************************************************************)
BusyIsFixed == \A s \in Streams : native[s] # Null => native[s] = config[s]
=============================================================================
