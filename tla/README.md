# TLA+ models of the PCV call stack

PCV (`src/CallVoiceChanger`) is an Android application that makes SIP calls and
changes the caller's voice. It has two call stacks. The C stack in `jni/sip` is
a version of baresip that runs on libre and librem; it has its own user agents,
calls, audio pipeline and media streams. The Java stack in `src/com/smp/sip` and
`src/com/smp/rtp` is a version of Android's SIP and RTP classes, and the
activity `MainActivity` uses it. This directory holds TLA+ modules of the parts
of both stacks that keep state, the TLC runs that check them, and proofs that
TLAPS checks.

To check a run: `tlc -config CallManual.cfg MCCall`. To check the proofs:
`tlapm CallProofs.tla`, and the same for `MediaProofs`, `SipAudioCallProofs`,
`CallEventsProofs`, `UserAgentsProofs`, `StreamReceiveProofs`, `MetricProofs` and
`AudioGroupProofs`.


## 1. The system

### Components

| Component | Code | State it keeps | Operations | Module |
|---|---|---|---|---|
| Call control | `call.c`, calls of `ua.c` | per call: state, timer, SIP session, media-NAT session, REFER notifier and subscription, hold; per user agent: list of calls, tone | connect, accept, answer, progress, hang up, hold, offer again, transfer, and the handlers of sessions, timers, media NAT, NOTIFY | `Call` |
| User agents | `ua.c` (`uag`) | list, current one, SIP stack, local address | init, close, alloc, free, stop all, change of network | `UserAgents` |
| Events | `ua.c` (`ua_event`), the handlers of `call.c` | list of handlers; what the handler that sent an event has yet to do; the timer of a digit | register, unregister, deliver, hang up meanwhile, INFO | `UaEvents`, `CallEvents` |
| Audio pipeline | `audio.c` | codec, encoder/decoder state, devices, buffers, filters on either side; threads | set encoder/decoder, start, stop, the read and write handlers | `Audio` |
| Stream, sending | `stream.c`, `rtpkeep.c` | format, direction, hold, keepalive and its timer | update, hold, reset, send, refresh, timeout | `StreamSend`, with `Audio` in `Media` |
| Statistics | `metric.c` | counters, times of the readings, rate | add a packet, timer, average | `Metric` |
| Stream, receiving | `stream.c` | SSRC, sequence number, jitter buffer | receive, hold, reset | `StreamReceive` |
| Java call | `SipAudioCall.java`, `SipAudioManager.java`, `MainActivity.java` | session, session of a transfer, stream, group mode, hold, mute, in call | make, answer, end, close, hold, mute, and the session listener | `SipAudioCall` |
| Streams and groups | `AudioStream.java`, `AudioGroup.java`, `RtpStream.java` | group of a stream, streams of a group, configuration, native streams | join, clear, setters | `AudioGroup` |
| SDP | `sdp.c` | order of the common formats | cycle | `FormatCycle` in `Audio` |
| Driver lists, logging, real-time, demo client, JNI bridge, text formats in Java | see `PROJECT.json` | little or none | | not modelled |
| libre, librem, openssl, jrtplib, Android support | vendored | | | external |

### How they interact

* The application calls `ua_*` functions. They act on calls; calls tell the
  user agent of their changes through `call_event_h`, and the user agent tells
  the application through `ua_event`. All of it runs on the main loop of libre,
  in one thread, so that a handler with all its callbacks is atomic; what is not
  atomic is the order in which handlers of several calls, timers and peers come.
  The one break in a handler is its event: the clients that `ua_event` calls may
  call back, and the next clients, and then the handler, go on with what they left.
* A call starts, changes and stops its audio (`call_stream_start`,
  `update_media`, `call_stream_stop`). The audio pipeline has other threads: that
  of the audio source, that of the player, and in one mode a transmit thread.
  There is no lock. They share the pipeline and, through `stream_send`, the
  stream, its keepalive and its statistics.
* In Java the platform's SIP service reports on a binder thread, the user acts
  on the UI thread. `SipAudioCall` has one lock, which the listener of the
  session does not hold while it decides what to do. Streams and groups have a
  lock each, which the setters of a stream do not take.

### What is hard

Ordering and lifetime in call control: a REFER while another is under way, a
notifier that outlives the call it belongs to, a media-NAT answer after a
hangup. Interleaving without locks in the pipeline and the Java layer. Failure
in the middle: an encoder that cannot be set, a transport that cannot be added,
a group that cannot be joined. Things that must happen: a call that is not
answered ends, a call into the pipeline returns, a NAT binding is refreshed.
Sequence numbers that wrap. `PROJECT.json` lists the hazards, each at its line,
with the properties that are about it.


## 2. Modules

`Call` has one action for each handler or operation of `call.c` and for the
handlers of `ua.c` that call them. A call object is a record of the fields that
decide what happens (`state`, `not`, `mnat_wait`, whether media runs, `on_hold`);
timers, SIP sessions, media-NAT sessions and subscriptions are sets of the calls
they would call back with, since what matters is whether one exists when its
call does not. A notifier is its reference count, the call its handler was
given, and the last NOTIFY. The notifier of a transfer may outlive the call it belongs
to, and its close handler then runs with a freed call. That is an action of its own,
`StaleClose`: it does whatever the bytes it reads can make it do, and sets `stale`. `CLOSED`
is one operator (`ClosedEvent`), because every path that ends a call must do the same. `CallProperties` states what must
hold; `CallService` is the abstract specification: what the application sees of
each call and what a peer that asked for a transfer is told. `Service` in
`CallProperties` is its instance, with the refinement mapping: `view` is
itself, and a request is the notifier that was told last.

`Audio` splits a call of the main loop into the parts between which other
threads may run, kept in `todo`; each part is one action and corresponds to
the halves of `audio_encoder_set` (`EncoderChange` frees the former state, `EncoderSet` makes
the next), `audio_decoder_set`, `audio_start`, the halves of `stop_tx` and `stop_rx`. A device
that is dropped waits for its handler: the action is enabled only when the thread is out of it. `AudioStarts` is all that `audio_start` may
do to a pipeline that `audio_encoder_set` or `audio_decoder_set` has changed first, with
each part failing or not.

`StreamSend` splits `stream_send` at the point where the pointer to the keepalive
is loaded, for each thread that sends. It has no specification of its own: `Media`
is the composition of `Audio` and `StreamSend` (an instance), with the calls of
`call.c` that reach both. A thread of `Audio` that encodes, or sends telephone
events, may enter `stream_send`, and goes on when it is out. What is `Free` in
`Audio` is there also the destruction of the stream.

`StreamReceive` gives a packet a place in the order of sending; the
code sees only the place modulo `Modulus`, and the properties compare the two.

`Metric` has the fields of `struct metric` and splits two things: the addition to
`n_bytes` by another thread than the main loop, which is a load and a store, and
the timer's handler between its two reads of `n_bytes`. Time is `tmr_jiffies`,
which may go back where the device sets its clock.

`UserAgents` has the list `uag.ual` beside the set of user agents that are really
allocated, those of them that a later `ua_init` has dropped from the list (`lost`), the
pointers of the application (`uap`), and for each user agent and each of its register clients the address
of its last REGISTER and whether it could be sent.

`UaEvents` steps through the list of clients one handler at a time; handlers may
change the list between. `CallEvents` extends it with what the handlers of `call.c`
do before an event (`CallAccept`, with or without a media NAT or a codec, `MnatReady`,
`Progress`, `Established`, `Closed`, `ClosedRunning`, `InviteTimeout`) and after it
(`Rest`), with the end of a user agent (`UaDestructor`), which frees its calls after an
event that is about none of them, and lets clients, between and within
events, hang up calls, make new ones and receive digits. Where `eager` is set a client
hangs up the call of any event, whoever comes after it; the walk or the handler then
uses a freed call (`UsesFreed`), and `stale` is set. Calls are never used
twice there, so that a pointer to a freed call is not mistaken for one to its
successor.

In these modules some variables serve the properties only: `newest` and `lossy`
in `StreamReceive`, `sent` and `silent` in `StreamSend`, `first`, `added` and `counted`
in `Metric`, `told` and `loyal` in `UaEvents`, `hung` in `CallEvents`, `lost` in
`UserAgents`, `view` in `Call`, `closed` in `SipAudioCall`, and `stale` in `Call` and `CallEvents`.
From the moment a freed call was used (`stale`) the program's behaviour is undefined, and the
properties about calls say nothing any more; `UsesLiveCall` says when that can be.

`SipAudioCall` has the fields of the call, the sessions as the SIP service has
them, the queue of reports on their way, and what the listener of the activity
has yet to call. Methods that one thread runs under the lock are functions of
the fields (`StopCall`, `Close`, `StartAudio`, `OnError`), used by the actions of
both threads. The activity's `onTouch` reads the mute in one synchronized method and toggles it in
another (`OnTouch`, `TouchToggles`), and its `onCallEstablished` starts the audio in one and
toggles the mute in another; the other thread may come between. `AudioGroup` has a program
counter for each thread and the lock of each stream.

Everything outside the repository (libre's sessions, subscriptions and jitter
buffer, the audio drivers, Android's SIP service, the native half of the audio
streams) is modelled by how the code uses it, and the map says so.

### Settings

What the environment may do varies: which calls fail, which codecs are offered,
whether the peer transfers. Modules other than `Call` keep that choice in a
variable that `Init` takes from the constant `Settings` (in `UaEvents`,
`leaves`; in `CallEvents`, `eager`), so that one run covers several settings, and a property that the code
keeps only under a condition names the condition. Those conditions are not
conveniences: outside them the code breaks the property, and section 6 says how.
`Call` takes the choice from its constants.


## 3. Runs

| Run | Properties | What it shows |
|---|---|---|
| `call_manual` | `TypeOK`, `HandlersLive`, `RefsMatch`, `IncomingTimed`, `ToneHasCall` | Two calls, two notifiers, manual answering, every failure, transfers both ways, hold, later offers, REFERs before the answer. |
| `call_mnat` | `NoneStranded`, `IncomingSettles`, `ServicePromise` | Media NAT that is ready late, or fails; automatic answering that may fail; an INVITE that cannot be sent. No call is left without a session, refinement, liveness. |
| `audio_calls` | `EncoderReady`, `FormatsAgree`, `DecodePipeline`, `NothingInUseIsFreed`, `CallsReturn` | Eight settings over the three transmit modes, with offers of none to three formats. |
| `media` | `OneKeepalive`, `SendersLive`, `BindingKept` | Pipeline and stream together: four settings of the one, six of the other. |
| `metric` | `AverageClose`, `RateExact` | The main loop adds packets, or another thread does, or the clock goes back. |
| `receive` | `FollowsNewest`, `LossExact`, `OneSource` | One source over two and a half rounds of sequence numbers; two sources with and without a jitter buffer. |
| `ua_list` | `ListExact`, `PointersLive`, `AllReregistered` | Three user agents with two, one and no register clients, two variables of the application, two changes of address; allocation with and without a SIP stack, `ua_init` at any time. |
| `call_events` | `AllClientsTold`, `UsesLiveCall`, `RunsOnlyLive`, `EndTold` | Four clients, of which three are registered at a time, and two calls; the clients hang up between events and within them, eagerly or not, and the user agent may be freed. |
| `java_call` | `AudioInCall`, `ModeRight`, `EndCloses`, `HeardWhenUp`, `ClosedStaysClosed`, `HoldAgreed`, `PushToTalk` | Six settings of one call, with a second session where the peer transfers. |
| `group_join` | `OneGroup`, `MembershipAgrees` | Two threads, streams, groups and configurations. |
| `audio_swap` | violates `NothingInUseIsFreed` | Codecs of one format: the encoder state is freed under the source thread. |
| `group_busy` | violates `BusyIsFixed` | A setter writes after the stream was joined. |

Each property of a passing run has a mutant, a definition of the module changed
as a plausible bug in the code would change it (a timer that is not cancelled, a
reference not taken, filters not flushed), under which TLC finds it violated.

`TypeOK` is an invariant of `call_manual`; those of the other modules hold of the
same instances and are left out of the runs, where the properties about behaviour
have their place. `TypeOK` of `Call`, `AudioGroup`, `UaEvents`, `CallEvents`,
`UserAgents`, `StreamReceive` and `Metric` is part of what is proved.

### Bounds

* Calls and notifiers: two of each (one notifier in `call_mnat`). A reference
  is shared by a call and the call made for its transfer, so two calls can share
  one and each own one; two notifiers let a REFER come while another is under way. The limit of
  calls is 1 and 2 instead of 4 (`MAX_CALLS`): the second call is
  an outgoing one, or made by a transfer. The proofs (section 5) have no bound.
* Codecs: three, of which two share a format; a setting uses one, two or all.
  In poll mode a frame of `poll_aubuf_tx` stands for the up to 16 of one read.
* Sequence numbers are modulo 16, the stream starts afresh from a gap of 5 on and a
  packet is late by 3 at most, for 2^16, 3000 and 100; the assumption keeps the
  relation between the three.
  The places go up to 40, so numbers wrap twice, and gaps reach 12, past
  the point where the stream starts afresh: the last gap before a packet looks late.
  The proofs need no more than that of the network (`Orderly`).
* Two keepalives let a freed one be allocated again at once, or another one.
  `MaxSilent` = 3 stops a count that the property bounds by 2.
  `media` has one codec: what codecs do to the pipeline is in `audio_calls`, and
  the stream sees only whether there is a format.
* In `metric` counters wrap at 13, the factor is 2, the timer fires every 2 and
  packets have 1 or 4 bytes, for 2^32, 8000, 3000 ms and any size: the counter and
  the product wrap within an interval. Time ends at 6, after three readings, and
  no more than 16 bytes are added. The proofs have no bound.
* In `call_events` two calls let one be hung up in the event of the other, and four
  clients with three registered let a list lose its head, middle and end while a
  client joins.
* Register clients: a failure can be that of the first or the second of two.
* The six settings of `java_call`: a call with every refusal and change and a rash user; one whose
  changes all succeed; the same with a transfer; and three with a user who waits, with every
  refusal, with holds that are accepted, and with no change at all. A rash user closes or holds
  the call while a change or a report is under way, or lets go of the button before the call is
  established. The run has 3.4 million states.
* `MaxReports` = 2: one report may be on its way while another is handled. The
  two sessions are the one of the call and the one of a transfer.

`AudioCalls`, `AudioSwap` and `Media` switch the deadlock check off, as a destroyed
audio object does nothing any more, and so does `Metric`, whose time ends. All other
runs check for deadlock.


## 4. Fairness

`FairSpec` of `Call` asks that a timer that runs expires: `WF(InviteTimeout(c))`.
Each turn of libre's main loop runs the timers that are due, so an expired timer
cannot be passed over for ever. Nothing is asked of peers, users or media NAT.

`FairSpec` of `Audio` asks weak fairness of the three threads while they are in
a handler or loop (they are computations that return), and strong fairness of
`Main`, the parts of a call that the main loop has begun. Strong, because a
device's thread goes in and out of its handler, so that the drop of the device is
not enabled all the time: a driver's destructor first tells its thread to stop,
and no thread is called again after that. Beginning a call is not fair.


## 5. Proofs

`CallProofs` proves of `Spec` in `Call`, for any finite set of calls, any set of
notifiers, any limit and all answer modes and failures: `TypeCorrect`,
`HandlersSafe` (`HandlersLive`), `RefsCounted` (`RefsMatch`) and `TimerRuns`
(`IncomingTimed`). They cover what the
runs do not, such as accounts that answer with early media (`AnswerMode = "EARLY"`).
Each says what is so until a close handler runs with a freed call: `Sound` is the invariant, and
`SoundStep` shows that a step which leaves `stale` unset is one of the handlers.
The inductive invariant `IInv` of these consists of `Typed`, `HandlersGone`, `Counted`,
`Timed` (the properties without `stale`) and two facts that no run states: `FreeClean` (a call that was
freed holds no pointer) and `SessionState` (how the state of a call follows its
session). They need each other. That a reference count is a natural number, a
part of `TypeOK`, needs `RefsMatch`, as `Deref` subtracts; `RefsMatch` needs
`FreeClean`, or a call that is allocated again would count twice; and
`IncomingTimed` needs `SessionState`, to know that a session which rings or is
answered belongs to an incoming call. The references of a notifier
are the cardinality of a set of calls: `Release` and `KeepRefs` say what the
steps do to it, from the library's facts about cardinality. Other lemmas say what
`Notify`, `Deref`, `Dangle` and `Unlink` return. There is one lemma for each
action, and one for the destructor, on which every end of a call rests.

It also proves that `Call` implements `CallService`
(`ServiceImplemented`, the property `ServicePromise`), for any number of calls and notifiers
and all answer modes, on the condition that REFERs come to established
calls only (`~EarlyRefer`, see section 6); further `TonesEnd` (`ToneHasCall`) and
`NeverStranded` (`NoneStranded`), whose invariant `Linked` adds that a call without a
session is an outgoing one, so that an incoming one has its session when its media NAT is ready. The refinement needs an
invariant beyond `IInv`: `ViewState` (what the application has seen of a call
follows from its state), `PendingHeld` (a notifier whose last NOTIFY was not
final is held by a call), and `OwnerUp` (the call that a notifier belongs to is
established). Each action of `Call` is then shown to be one action of the service,
or a stutter, with a lemma for what `IncomingEvent` may do in each answer mode.

`MediaProofs` is about `Audio` and its composition with the stream. Of `Spec` in `Audio` it
proves, for any codecs, formats, offers and failures: `AudioTypes`, `AudioFormats` (`FormatsAgree`)
and `AudioFiltered` (`DecodePipeline`); and for settings in which the encoder is `Exclusive`,
`AudioSafe` (`NothingInUseIsFreed`) and `AudioEncodes` (`EncoderReady`). No lock orders the threads, so the invariant
`Inv` is about what the main loop has yet to do: `InOrder` (in `TodoInv`) says which parts of a
call may follow each other, and that a join comes first and a free or a reset last; `SourceInv` and
`PlayerInv` tie each device to its thread, buffer and format, and the transmit thread to its
`run` flag or the join that is to come; `QuietInv` says what is away already, part by part, while the audio is
being stopped, and that nothing starts afterwards; `PipeInv` is what flushing the filters
keeps. `FreeKeeps` and `InUse` then show that the audio object is freed, and buffers and filters are dropped, with no
thread in a handler. The encoder is the exception: `audio_encoder_set`
replaces its state, in two steps, while the source or the transmit thread may run. `Exclusive` names the
settings in which it cannot meet them (the main loop encodes, or the codecs that are
negotiated have a format each and the source thread encodes, or there is one codec);
section 6 says what happens elsewhere. `BareInv` says why nobody encodes between the two steps then.

The lemma `MediaSteps` says that each step of the composition is a step of
the pipeline or leaves it alone, as `Media` is built from the actions of `Audio`. So `Inv` can be a part
of the invariant of the composition, `MediaInv`, with no second proof. From it follow, for any keepalives, settings and bound on silent periods,
`MediaTypes`, `MediaKeeps` (`OneKeepalive`), `MediaSends` (`SendersLive`) and `MediaBinding`
(`BindingKept`). `KeepInv` states the reason why `stream_reset` needs no lock: before a call
is established there is no keepalive and no reset under way, and a reset finds
none. `SendInv` says that a thread within `stream_send` is still at the place where it
sends. `BindInv` counts: each thread that is within
`stream_send` since before the last period can set the flag once more and so spoil one more period, as can the flag
if it is set (`Spoiled`), and silent periods and those still to be spoiled together
are no more than the threads that send apart from the main loop (`Periods`).

`SipAudioCallProofs` proves of `Spec` in `SipAudioCall`, for any sessions, any number of reports
on their way and any settings: `CallTypes`, `CallAudio` (`AudioInCall`, `ModeRight`), `CallEnds` (`EndCloses`, `ClosedStaysClosed`), `CallHold` (`HoldAgreed`) and
`CallTalk` (`PushToTalk`). Each property is about a moment at which no report is
under way, so the invariant has to say what the reports under way will do. `CommonInv` relates
the fields of the call, its sessions and the reports there may be; `AudioInv` says that audio and mode
are right but where `BusyTransfer` breaks them; `AloneInv`, for calls that
are not transferred, that a session which has ended still has a
report to come (`Ended`) or the call is closed; `ClosedInv`, that a closed call hears nothing more that could
start it; `HoldInv`, that the two sides differ about the hold only while the report that
settles it is under way; `TalkInv`, that the report which establishes the call toggles the mute once, and
what an `onTouch` that has read the mute is about to do with it.

`CallEventsProofs` proves of `CallSpec` in `CallEvents`, for any clients, any length
of the list and any calls: `AllTold` (`AllClientsTold`),
`LiveCallUsed` (`UsesLiveCall`), `NothingRunsFreed` (`RunsOnlyLive`) and `EndIsTold`
(`EndTold`). The invariant has two halves. `WalkInv` says that the clients up to
the one that is called have been told (`InOrder`); it needs that the list has no client
twice, and lemmas about `RemoveAt` say that unregistering keeps the order of the
others. `CallInv`, which holds until a freed call is used, says that an event has a call that lives
unless a client has just hung it up (`EventHasCall`), and that what runs belongs to live calls.
A client that is not eager does that only where nobody uses the call any more, so `stale` takes
an eager one. `EndTold` is about steps and needs both halves: the call ends in the step in which the walk does.

`MetricProofs` proves of `Spec` in `Metric`, for every modulus, factor, interval and
size: `Rates` (`RateExact`) and `AverageIsClose` (`AverageClose`). The invariant ties
the counters, which are remainders, to all bytes that were added; what it says of
a thread that is within an addition is what makes the two reads of the timer safe
with one adder, and it fails with two.

`UserAgentsProofs` proves of `Spec` in `UserAgents`, for any user agents, register
clients, variables and settings: `TypeCorrect`, `ListIsExact` (`ListExact`), `NoneDangles`
(`PointersLive`) and `Reregistered` (`AllReregistered`). The invariant
adds that a user agent knows the variable that points to it (`PointsBack`), without
which the destructor could clear another; that what `ua_init` has dropped from the list and what it
holds are apart (in `Listed`); and that every register client has tried at least once (`Tried`).

`StreamReceiveProofs` proves of `Spec` in `StreamReceive`, for every modulus, threshold,
source and setting: `TypeCorrect` and `OneSourceBuffered` (`OneSource`), and for a network
in which no packet is later than `Misorder` and no gap reaches `Modulus - Misorder`
(`Orderly`) `NewestFollowed` (`FollowsNewest`) and `LossIsExact` (`LossExact`). The argument is
about numbers that wrap: `SeqNoAhead` says what the number of a packet some places
on is, `DeltaAhead` and `DeltaBehind` that the `delta` of `lostcalc` is the distance or
the modulus less the delay, and `LostCalcAhead` and `LostCalcBehind` what it answers
then. `PlainInv` is inductive because a single source never changes the SSRC. That the
jitter buffer gives out a packet it holds needs a least place, which exists since the
natural numbers are well-founded (`Earliest`).

`AudioGroupProofs` proves of `Spec` in `AudioGroup`, for any threads, streams,
groups and configurations: `TypeCorrect`, `OneGroupAtATime` (`OneGroup`) and
`MembersAgree` (`MembershipAgrees`). `MembershipAgrees` says nothing while a thread is
inside `join`, so it is not inductive. `IInv` adds `LockHeld` (the thread inside
`join` of a stream, and no other, has its lock) and `Placed` (for each step of
`join`, where the groups have the stream); `Mixed` says the same of the native
streams. The types need `LockHeld` too: that what `join` adds to a group is a stream and not
`Null` is known only from the step the thread is at.

Hypotheses. Properties name the settings in which they hold, so most theorems have none. Those that
do have one which some settings of the runs satisfy and the code does not enforce: `~EarlyRefer`
(`ServiceImplemented`), `Orderly` (`NewestFollowed`, `LossIsExact`) and
`Exclusive` (`AudioSafe`, `AudioEncodes`).

Only model-checked: liveness (`IncomingSettles`, `CallsReturn`), which is out of
the prover's reach under fairness, and `HeardWhenUp`. Every other safety property of the passing
runs is the statement of a theorem, or a part of one.


## 6. Where the code and its texts disagree

Two disagreements have a run that shows them, and are in `findings`:

* `audio_encoder_set` drops the source only if the format changes. Between codecs
  of one format the encoder state is freed while the source thread may be
  encoding with it (`audio.c:1153`; "Audio source must be stopped first"), and the thread may
  come between the free and `encupdh` (1162), where there is no state at all. The transmit
  thread is never stopped for it: in that mode any two codecs will do. Hence `Exclusive`,
  and settings of the runs in which `EncoderReady` can hold.
* The setters of `AudioStream` look at `isBusy` without the lock of `join`, so the
  stream may be mixed with another configuration than it has (`AudioStream.java:128`).

The others appear as conditions of properties, or outside the models. Those with a
property were seen as counterexamples of the property without its condition:

* The close handler of a notifier has the call that took the REFER as its argument, and nothing takes it
  back when that call is freed while the call made for the transfer holds the notifier: it then reads and
  writes a freed call (`call.c:1104`; taken at 547). `StaleClose`; `HandlersLive`, `RefsMatch` and the other
  properties of `Call` hold until then.
* An incoming call of an account that answers with early media never times out:
  `call_progress` stops the timer (`call.c:666`). `IncomingTimed`, `IncomingSettles`.
* When the INVITE cannot be sent once the media NAT is ready, the error is
  dropped and the call stays OUTGOING for ever (`call.c:256`). `NoneStranded` (`Unsent`).
* The current call is the last in the list, also if it is on hold
  (`ua.c:807`; its comment says "which is not on-hold").
* A call that received a REFER before it is answered reports the success of the
  transfer when it is itself answered. `ServicePromise`.
* `run` stays set when the transmit thread cannot be created (`audio.c:1046`), and the stop joins
  a thread that never was.
* The error handler of the source runs in the source's thread, which ends the call and
  so waits for itself (`audio.c:477`). `CallsReturn`.
* With telephone events as the only common format `sdp_media_format_cycle` never
  returns (`sdp.c:120`). `CallsReturn`.
* The source thread sends telephone events (`audio.c:396`) from `tx->mb`, the buffer that the timer or the
  transmit thread encodes to (`audio.c:302`).
* `stream_reset` replaces the keepalive without a lock (`stream.c:340`); only that it is called once, when
  a call is established, keeps it from a thread that sends. `SendersLive` shows it.
* Two threads that send (the transmit thread, and the source with telephone events) add to the same
  counter: the slower store takes `n_bytes` back behind `n_bytes_last`, and the rate is
  garbage (`metric.c:64`). `RateExact`, `AverageClose`.
* `metric_avg_bitrate` divides by zero in the millisecond of the first packet (`metric.c:78`). `AverageClose`.
* After the clock went back the rate stays what it was until the clock is past the last
  reading (`metric.c:20`).
* A client that hangs up the call of an event within its handler frees it under the clients that come after it,
  to which `ua_event` gives the same pointer, in any event (`ua.c:121`), and, but for an incoming call, under the
  handler that sent the event (`call.c:1002`, `call.c:1317`, `ua.c:285`). With `eager` clients TLC finds that
  freed calls are used; `UsesLiveCall` says that without them they are not. Only the last client, in
  `CALL_EVENT_INCOMING`, may hang up safely.
* `ua_destructor` frees the calls of the user agent and sends no event of them (`ua.c:403`), and `ua_hangup`
  none either: the clients but the one that asked for it are not told. `EndTold` (`hung`).
* `call_modify` frees `desc` also when `call_sdp_get` failed and left it uninitialised (`call.c:613`).
* Filters are set up after a device is opened, if codecs are set one by one
  ("must be called before auplay/ausrc-alloc", `audio.c:832`).
* After a change of format the decoder plays without its filters (`audio.c:1219`). `DecodePipeline`.
* After a failure of `decupdh` the player keeps the former format. `FormatsAgree`.
* RTP with another payload type starts audio that was stopped (`audio.c:502`): `PayloadChanged` comes at any time.
* A stream that cannot send keeps its keepalive silent (`stream.c:378`; "set for
  every transmitted RTP packet", `rtpkeep.c:100`). `BindingKept`.
* An empty jitter buffer passes on a header of zeros, which is counted as
  packet 0 (`stream.c:142`). `FollowsNewest`, `LossExact`.
* A register client that fails keeps those after it from registering (`ua.c:186`). `AllReregistered`.
* `ua_register` counts register clients, and takes the n-th entry of `outbound`, which may be a gap (`ua.c:183`).
* If a transport cannot be added after a change of network nobody registers again
  (`ua.c:1193`). `AllReregistered`.
* The current user agent may have been freed (`ua.c:1557`).
* `ua_init` empties the list of user agents. A second one, which each click in the activity can cause, also
  loses the first SIP stack; and a user agent that does not register can be allocated before the first, since
  `ua_alloc` does not look at `uag.sip`. What is lost is never closed nor registered again (`ua.c:1086`).
  `ListExact` (`lost`).
* A handler that unregisters itself ends the delivery of the event (`ua.c:121`). `AllClientsTold`.
* Transfer to a busy peer closes the call and leaves its audio running
  (`SipAudioCall.java:498`). `AudioInCall`, `ModeRight` (`BusyTransfer`).
* After a transfer that failed, the end of the call is ignored
  (`SipAudioCall.java:473`). `EndCloses`.
* A report on its way when the call is closed puts it in a call again
  (`SipAudioCall.java:439`, `:1023`). `ClosedStaysClosed`.
* A hold that is refused, or asked while a change is under way, is not taken back
  (`SipAudioCall.java:689`). `HoldAgreed`. Nor is the end of a hold: `onCallChangeFailed` starts no audio, and
  a call that is not on hold any more stays silent (`SipAudioCall.java:502`). `HeardWhenUp`.
* Each time a session is established the activity toggles the mute, so that a
  change of the session unmutes with the button released (`MainActivity.java:145`); and a button that is pressed
  and released before the call is established mutes it first, so that the toggle unmutes. `PushToTalk`.
* `clear()` of a group takes a stream out of another group that it joined
  meanwhile (`AudioGroup.java:200`).


## 7. Not modelled

* In call control: `call_reset_transp`, statistics, video. A client that makes another event happen
  within its handler (`ua_answer`, `ua_hangup` and `ua_connect` send none; `ua_register` and the end of a
  user agent do): the walks would be nested.
* In user agents: what the registrar answers (`reg` is not in this repository), OPTIONS, the
  lookup of a user agent for a request.
* In audio: mute, device names, SDP attributes, the samples themselves.
* In streams: RTCP, media encryption, the allocation of sockets. In `metric.c`: `metric_reset`, and the
  counters of packets and errors.
* In Java: speaker mode, DTMF, the mode of a group that calls share, release of a socket.
* The rest of `sdp.c` (text), `auplay.c`, `ausrc.c`, `aufilt.c` (lists of drivers),
  `log.c`, `alog.c`, `realtime.c`, the JNI bridge, `SimpleSessionDescription.java`,
  `AudioCodec.java`, and the demonstration client `sip_ua.c`: it is compiled, but nothing
  calls `make_call`, its only entry.
* All vendored code: the sources of jrtplib, which nothing in `jni/sip` calls, and the
  headers of openssl, libre and librem. They are most of the repository's lines of
  C, so the map can cover a small share of those only.


## 8. Order of the work, and what is left

Done, in this order: `Call` with `CallService` and `CallProofs`; `Audio`; the two
halves of the stream; `UserAgents` and `UaEvents`; `SipAudioCall`; `AudioGroup`
with its proofs; then `Media`, `Metric` with its proofs, the refinement proof of
`Call`, `CallEvents` with its proofs, the proofs of `UserAgents` and
`StreamReceive`, and those of `SipAudioCall`, `Audio` and `Media`.

Left:

1. Composition of `Call` with `Media`, so that the calls of the pipeline come in the
   order of the states of a call, and of `CallEvents` with nested walks.
2. Java: the mode of a group that two calls share, release.
3. Proofs: the safety half of `CallsReturn`, that whenever the main loop waits for a thread
   that thread can go on; a refinement for the pipeline, with the devices and threads hidden.
