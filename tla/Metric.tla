-------------------------------- MODULE Metric --------------------------------
(***************************************************************************)
(* The statistics of one direction of a stream (metric.c).  Packets of the *)
(* receiving half are added by the re main loop; those of the sending half *)
(* by whichever thread sends (see Media).  A timer of the main loop reads  *)
(* the counter every three seconds.  There is no lock: adding to the       *)
(* counter is a load and a store, and the timer reads the counter twice.   *)
(***************************************************************************)
EXTENDS Integers

CONSTANTS
    Mod,         \* the counters are uint32_t: 2^32
    Scale,       \* bits per second for one byte per millisecond: 8000
    Interval,    \* TMR_INTERVAL
    Sizes,       \* the sizes of packets
    Settings,    \* the settings of a metric that are looked at: see Setting
    MaxNow,      \* bound: the last moment that is looked at
    MaxAdded     \* bound: no more bytes are added

\* The threads other than the main loop that add packets (if there are none,
\* the main loop does), and whether tmr_jiffies may go back.
Setting == [adders : SUBSET {"source", "tx"}, back : BOOLEAN]

ASSUME MetricAssumption ==
    /\ Mod \in Nat \ {0} /\ Scale \in Nat \ {0} /\ Interval \in Nat \ {0}
    /\ Sizes \subseteq Nat
    /\ Settings \subseteq Setting
    /\ MaxNow \in Nat /\ MaxAdded \in Nat

VARIABLES
    cfg,         \* the setting of this metric, which nothing changes
    now,         \* tmr_jiffies
    started,     \* as in struct metric
    due,         \* when the timer fires, or 0 while it is not running
    tsStart, tsLast, nBytes, nBytesLast, curBitrate,    \* as in struct metric
    reading,     \* the local variable now of tmr_handler, or 0 outside of it
    loaded,      \* what each adder has read from nBytes, or -1
    size,        \* the packet that each adder adds
    first,       \* history: when the first packet was added, or 0
    added,       \* history: all bytes that were added
    counted      \* history: those before the last reading of the timer

vars == <<cfg, now, started, due, tsStart, tsLast, nBytes, nBytesLast, curBitrate,
          reading, loaded, size, first, added, counted>>

Counters == 0..(Mod - 1)

TypeOK ==
    /\ cfg \in Settings
    /\ now \in Nat \ {0} /\ {due, tsStart, tsLast, reading, first} \subseteq Nat
    /\ started \in BOOLEAN
    /\ {nBytes, nBytesLast, curBitrate} \subseteq Counters
    /\ loaded \in [cfg.adders -> Counters \cup {-1}]
    /\ size \in [cfg.adders -> Nat]
    /\ added \in Nat /\ counted \in 0..added

\* The clock has been running for a while.
Init ==
    /\ cfg \in Settings
    /\ now = 1
    /\ started = FALSE
    /\ due = 0 /\ tsStart = 0 /\ tsLast = 0 /\ reading = 0
    /\ nBytes = 0 /\ nBytesLast = 0 /\ curBitrate = 0
    /\ loaded = [t \in cfg.adders |-> -1]
    /\ size = [t \in cfg.adders |-> 0]
    /\ first = 0 /\ added = 0 /\ counted = 0
-----------------------------------------------------------------------------
Tick ==
    /\ now < MaxNow
    /\ now' = now + 1
    /\ UNCHANGED <<cfg, started, due, tsStart, tsLast, nBytes, nBytesLast, curBitrate,
                   reading, loaded, size, first, added, counted>>

\* The wall clock is set.
ClockSet ==
    /\ cfg.back
    /\ now' \in 1..(now - 1)
    /\ UNCHANGED <<cfg, started, due, tsStart, tsLast, nBytes, nBytesLast, curBitrate,
                   reading, loaded, size, first, added, counted>>

\* metric_start, unless it was called before.
MetricStart ==
    /\ started' = TRUE
    /\ tsStart' = IF started THEN tsStart ELSE now
    /\ due' = IF started THEN due ELSE now + 1

\* metric_add_packet in the main loop.
AddPacket(n) ==
    /\ cfg.adders = {}
    /\ reading = 0
    /\ added + n <= MaxAdded
    /\ MetricStart
    /\ first' = IF first = 0 THEN now ELSE first
    /\ nBytes' = (nBytes + n) % Mod
    /\ added' = added + n
    /\ UNCHANGED <<cfg, now, tsLast, nBytesLast, curBitrate, reading, loaded, size, counted>>

\* metric_add_packet in another thread, up to the load of n_bytes.
AddBegins(t, n) ==
    /\ loaded[t] = -1
    /\ added + n <= MaxAdded
    /\ MetricStart
    /\ first' = IF first = 0 THEN now ELSE first
    /\ loaded' = [loaded EXCEPT ![t] = nBytes]
    /\ size' = [size EXCEPT ![t] = n]
    /\ UNCHANGED <<cfg, now, tsLast, nBytes, nBytesLast, curBitrate, reading, added, counted>>

AddEnds(t) ==
    /\ loaded[t] # -1
    /\ nBytes' = (loaded[t] + size[t]) % Mod
    /\ added' = added + size[t]
    /\ loaded' = [loaded EXCEPT ![t] = -1]
    /\ UNCHANGED <<cfg, now, started, due, tsStart, tsLast, nBytesLast, curBitrate,
                   reading, size, first, counted>>

\* tmr_handler up to "Update counters".  Nothing is read, nor updated, while the
\* clock is behind the last reading.
TmrHandler ==
    /\ due # 0 /\ due <= now /\ reading = 0
    /\ due' = now + Interval
    /\ IF now <= tsLast
       THEN UNCHANGED <<reading, curBitrate, counted>>
       ELSE /\ reading' = now
            /\ curBitrate' =
                  IF tsLast = 0 THEN curBitrate
                  ELSE LET bytes == (nBytes - nBytesLast) % Mod
                       IN  ((Scale * bytes) % Mod) \div (now - tsLast)
            /\ counted' = added
    /\ UNCHANGED <<cfg, now, started, tsStart, tsLast, nBytes, nBytesLast, loaded, size,
                   first, added>>

\* Mutant: only the time of the reading is kept.
UpdateCounters_KeepsBytes ==
    /\ reading # 0
    /\ tsLast' = reading
    /\ reading' = 0
    /\ UNCHANGED <<cfg, now, started, due, tsStart, nBytes, nBytesLast, curBitrate,
                   loaded, size, first, added, counted>>

\* Mutant: the counter starts anew with every reading.
UpdateCounters_Clears ==
    /\ reading # 0
    /\ tsLast' = reading
    /\ nBytes' = 0 /\ nBytesLast' = 0
    /\ reading' = 0
    /\ UNCHANGED <<cfg, now, started, due, tsStart, curBitrate, loaded, size, first,
                   added, counted>>

\* "Update counters": n_bytes is read again.
UpdateCounters ==
    /\ reading # 0
    /\ tsLast' = reading
    /\ nBytesLast' = nBytes
    /\ reading' = 0
    /\ UNCHANGED <<cfg, now, started, due, tsStart, nBytes, curBitrate, loaded, size, first,
                   added, counted>>

Next ==
    \/ Tick \/ ClockSet
    \/ \E n \in Sizes : AddPacket(n)
    \/ \E t \in cfg.adders : (\E n \in Sizes : AddBegins(t, n)) \/ AddEnds(t)
    \/ TmrHandler \/ UpdateCounters

Spec == Init /\ [][Next]_vars

\* metric_avg_bitrate.  With diff = 0 it divides by zero: see AverageClose.
AvgBitrate == (Scale * (nBytes \div (now - tsStart))) % Mod
-----------------------------------------------------------------------------
(***************************************************************************)
(* cur_bitrate is the rate since the reading before: exactly, and whether  *)
(* or not n_bytes wrapped in between, where the main loop adds the         *)
(* packets; and never more than it where one other thread does, whose      *)
(* packets between the two reads of the timer are left out of every rate.  *)
(* Nothing can be said where two threads add: the store of the slower one  *)
(* takes n_bytes back behind n_bytes_last.  Nor for more than 2^32 / 8000  *)
(* bytes at a time, as the multiplication is one of 32 bits.               *)
(***************************************************************************)
AtMostOne == \A t, u \in cfg.adders : t = u

Reads == reading = 0 /\ reading' # 0 /\ tsLast # 0

TrueRate == (Scale * (added - counted)) \div (now - tsLast)

RateExact ==
    [][Reads /\ Scale * (added - counted) < Mod =>
          /\ cfg.adders = {} => curBitrate' = TrueRate
          /\ AtMostOne => curBitrate' <= TrueRate]_vars

(***************************************************************************)
(* metric_avg_bitrate, which divides before it multiplies, is less than    *)
(* the average of all that was added since the first packet, by less than  *)
(* one byte per millisecond.  In the very millisecond of the first packet  *)
(* it is a division by zero, and after the clock went back nothing.        *)
(***************************************************************************)
AverageClose ==
    /\ started /\ first < now /\ ~cfg.back
    /\ AtMostOne /\ Scale * added < Mod
    => LET average == (Scale * added) \div (now - first)
       IN  AvgBitrate <= average /\ average < AvgBitrate + Scale
=============================================================================
