----------------------------- MODULE PacketStats -----------------------------
(***************************************************************************)
(* PacketStore (storage/repositories.py) and the packet half of a sweep of *)
(* RetentionService (storage/retention.py).  A packet is recorded by two   *)
(* statements, each committed by itself: the raw row, and the aggregate of *)
(* its hour.  Several calls of log interleave, a crash may fall between    *)
(* the two statements, and the sweep deletes old raw rows batch by batch.  *)
(***************************************************************************)
EXTENDS Integers, FiniteSets, FiniteSetsExt

CONSTANTS Packets,     \* the packets that are received
          Snrs,        \* the SNRs a packet may come with
          NoSnr,       \* None in Python, NULL in the table
          HourLength,  \* seconds per hour
          Keep,        \* packet_retention_days, in seconds; 0 keeps everything
          Batch,       \* rows deleted by one statement
          MaxClock,    \* bound: the clock
          MaxFailures  \* bound: crashes and failed statements

ASSUME StatsAssumption ==
  /\ Snrs \subseteq Int /\ NoSnr \notin Snrs
  /\ HourLength \in Nat \ {0} /\ Batch \in Nat \ {0} /\ Keep \in Nat
  /\ MaxClock \in Nat /\ MaxFailures \in Nat

VARIABLES
  clock,
  packet,    \* its time and SNR, once it is received
  logging,   \* calls of log whose first statement is done and second is not
  raw,       \* rows of the table packets
  hourly,    \* rows of packet_stats_hourly; count = 0 stands for no row
  sweep,     \* "idle" or "pruning"
  cutoff,    \* of the last sweep
  failures,
  counted,   \* history: packets whose second statement is done
  cut        \* history: packets whose call ended after its first statement

statsVars == <<clock, packet, logging, raw, hourly, sweep, cutoff, failures, counted, cut>>

Unreceived == [ts |-> -1, snr |-> NoSnr]
Received == {p \in Packets : packet[p].ts >= 0}

BucketOf(ts) == ts - (ts % HourLength)
Buckets == {BucketOf(t) : t \in 0..MaxClock}
NoStats == [count |-> 0, sum |-> 0, min |-> NoSnr, max |-> NoSnr]

PacketStatsInit ==
  /\ clock = 0
  /\ packet = [p \in Packets |-> Unreceived]
  /\ logging = {} /\ raw = {} /\ counted = {} /\ cut = {}
  /\ hourly = [b \in Buckets |-> NoStats]
  /\ sweep = "idle" /\ cutoff = 0 /\ failures = 0

-----------------------------------------------------------------------------
(* PacketStore.log.                                                        *)

\* The row of the raw log.
LogsPacket(p, snr) ==
  /\ p \notin Received
  /\ packet' = [packet EXCEPT ![p] = [ts |-> clock, snr |-> snr]]
  /\ raw' = raw \union {p}
  /\ logging' = logging \union {p}
  /\ UNCHANGED <<clock, hourly, sweep, cutoff, failures, counted, cut>>

\* COALESCE(known, new), and the scalar MIN and MAX of SQLite: NULL if one is NULL.
Coalesce(known, new) == IF known = NoSnr THEN new ELSE known
ScalarMin(a, b) == IF NoSnr \in {a, b} THEN NoSnr ELSE Min({a, b})
ScalarMax(a, b) == IF NoSnr \in {a, b} THEN NoSnr ELSE Max({a, b})
OrZero(snr) == IF snr = NoSnr THEN 0 ELSE snr

\* Mutated form: the extremes are set by the first packet of the hour only.
FirstOnly(old, snr) ==
  [count |-> old.count + 1, sum |-> old.sum + OrZero(snr),
   min |-> Coalesce(old.min, snr), max |-> Coalesce(old.max, snr)]

\* INSERT ... ON CONFLICT DO UPDATE: one statement, so atomic.
Aggregated(old, snr) ==
  [count |-> old.count + 1, sum |-> old.sum + OrZero(snr),
   min |-> ScalarMin(Coalesce(old.min, snr), snr),
   max |-> ScalarMax(Coalesce(old.max, snr), snr)]

\* Mutated form: the hour in which the second statement is executed.
HourOfStatement(p) == BucketOf(clock)

HourOf(p) == BucketOf(packet[p].ts)

Aggregates(p) ==
  /\ p \in logging
  /\ hourly' = [hourly EXCEPT ![HourOf(p)] = Aggregated(@, packet[p].snr)]
  /\ logging' = logging \ {p}
  /\ counted' = counted \union {p}
  /\ UNCHANGED <<clock, packet, raw, sweep, cutoff, failures, cut>>

\* The second statement raises; the library's dispatcher drops the exception.
AggregateFails(p) ==
  /\ p \in logging /\ failures < MaxFailures
  /\ logging' = logging \ {p}
  /\ cut' = cut \union {p}
  /\ failures' = failures + 1
  /\ UNCHANGED <<clock, packet, raw, hourly, sweep, cutoff, counted>>

-----------------------------------------------------------------------------
(* _sweep and prune.                                                       *)

SweepStarts ==
  /\ sweep = "idle" /\ Keep > 0 /\ clock >= Keep
  /\ sweep' = "pruning" /\ cutoff' = clock - Keep
  /\ UNCHANGED <<clock, packet, logging, raw, hourly, failures, counted, cut>>

Old == {p \in raw : packet[p].ts < cutoff}

\* The rows that one DELETE takes: any Batch of the old ones.
Deletable == IF Cardinality(Old) <= Batch THEN {Old} ELSE kSubset(Batch, Old)

\* Mutated form: the loop ends with the first batch that is not too large.
Small(deleted) == Cardinality(deleted) <= Batch

\* Fewer rows than a batch were deleted.
Exhausted(deleted) == Cardinality(deleted) < Batch

PrunesBatch ==
  /\ sweep = "pruning"
  /\ \E deleted \in Deletable :
       /\ raw' = raw \ deleted
       /\ sweep' = IF Exhausted(deleted) THEN "idle" ELSE "pruning"
  /\ UNCHANGED <<clock, packet, logging, hourly, cutoff, failures, counted, cut>>

\* A failed statement ends the sweep until the next one; its cutoff is forgotten.
SweepFails ==
  /\ sweep = "pruning" /\ failures < MaxFailures
  /\ sweep' = "idle" /\ cutoff' = 0 /\ failures' = failures + 1
  /\ UNCHANGED <<clock, packet, logging, raw, hourly, counted, cut>>

CrashStats ==
  /\ failures < MaxFailures
  /\ cut' = cut \union logging
  /\ logging' = {} /\ failures' = failures + 1
  /\ sweep' = "idle" /\ cutoff' = IF sweep = "idle" THEN cutoff ELSE 0
  /\ UNCHANGED <<clock, packet, raw, hourly, counted>>

TickStats ==
  /\ clock < MaxClock
  /\ clock' = clock + 1
  /\ UNCHANGED <<packet, logging, raw, hourly, sweep, cutoff, failures, counted, cut>>

PacketStatsNext ==
  \/ \E p \in Packets : Aggregates(p) \/ AggregateFails(p)
                        \/ \E snr \in Snrs \union {NoSnr} : LogsPacket(p, snr)
  \/ SweepStarts \/ PrunesBatch \/ SweepFails
  \/ CrashStats \/ TickStats

PacketStatsSpec == PacketStatsInit /\ [][PacketStatsNext]_statsVars

-----------------------------------------------------------------------------
(* GetPacketStats.                                                         *)

DayLength == 2 * HourLength
DayOf(b) == b - (b % DayLength)

\* stats(bucket="day"): SUM(count) of the hours of each day.
DayCount(day) == MapThenSumSet(LAMBDA b : hourly[b].count, {b \in Buckets : DayOf(b) = day})

-----------------------------------------------------------------------------
(* Properties.                                                             *)

In(b, set) == {p \in set : BucketOf(packet[p].ts) = b}
SnrsIn(b) == {packet[p].snr : p \in In(b, counted)}

\* An hour counts every packet received in it, except those whose call of log is under
\* way or was cut between its two statements.
HoursCountAll ==
  \A b \in Buckets : hourly[b].count = Cardinality(In(b, Received \ (logging \union cut)))

\* "Aggregates ... kept forever, so statistics survive pruning": whatever the sweep
\* deletes and however calls of log, sweeps and crashes interleave, an hour counts its
\* packets and has the sum of their SNRs, a missing one as 0, and what stats
\* (GetPacketStats) adds up for a day is the count of its packets.
StatsSurvivePruning ==
  /\ HoursCountAll
  /\ \A b \in Buckets :
       hourly[b].sum = MapThenSumSet(LAMBDA p : OrZero(packet[p].snr), In(b, counted))
  /\ \A day \in {DayOf(b) : b \in Buckets} :
       DayCount(day) = Cardinality({p \in counted : DayOf(BucketOf(packet[p].ts)) = day})

\* The extremes of an hour are those of the packets it counts, in whatever order
\* they came, as long as none of them came without an SNR (the scalar MIN and MAX
\* of the upsert in log erase what they know when they meet NULL).
ExtremesExact ==
  \A b \in Buckets :
    In(b, counted) # {} /\ NoSnr \notin SnrsIn(b) =>
      hourly[b].min = Min(SnrsIn(b)) /\ hourly[b].max = Max(SnrsIn(b))

\* A sweep that ended by itself has left no raw row from before its cutoff, however
\* many batches that took and whatever was logged meanwhile (prune).
SweepClears == sweep = "idle" => Old = {}
=============================================================================
