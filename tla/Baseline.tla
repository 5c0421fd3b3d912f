------------------------------ MODULE Baseline ------------------------------
(***************************************************************************)
(* The adaptive baseline in memory,                                        *)
(* crates/kernelradar-detectors/src/baseline.rs: per (detector, comm) pair *)
(* an hour-of-day profile of events per minute.  record_and_score runs     *)
(* under one mutex and reads the wall clock with the mutex held, so a call *)
(* is one step; the wall clock may be set back between calls.              *)
(*                                                                         *)
(* The EWMA pair (sum, sumsq) of a bucket is abstracted to `mass`, the     *)
(* number of events that were observed into it since the process started,  *)
(* and the comparison of the z-score with the threshold to a free choice:  *)
(* the properties are about which events reach which bucket and when a     *)
(* score may be given at all.  first_seen, which only `baseline show`      *)
(* prints, is left out.                                                    *)
(***************************************************************************)
EXTENDS Integers, FiniteSets

CONSTANTS
  Pair,           \* "detector|comm" keys
  PairsMax,       \* BaselineConfig.pairs_max
  EvictAge,       \* BaselineConfig.evict_age_hours, in minutes
  LearningTime,   \* BaselineConfig.learning_secs, in minutes
  MinSamples,     \* BaselineConfig.min_samples_for_scoring
  DropDivisor,    \* one pass of the fall-through drops 1/DropDivisor
  HoursPerDay,    \* 24 in the code
  MinutesPerHour, \* 60 in the code
  LoadedSamples,  \* samples in the buckets of a baseline loaded from disk
  MaxClockMoves,  \* bound: how often the clock changes
  MaxPerMinute    \* bound: calls between two changes of the clock

Hour == 0 .. HoursPerDay - 1

ASSUME BaselineAssumption ==
  /\ PairsMax \in Nat /\ EvictAge \in Nat /\ LearningTime \in Nat
  /\ MinSamples \in Nat /\ LoadedSamples \in Nat /\ DropDivisor \in Nat \ {0}
  /\ HoursPerDay \in Nat \ {0} /\ MinutesPerHour \in Nat \ {0}
  /\ MaxClockMoves \in Nat /\ MaxPerMinute \in Nat
  /\ IsFiniteSet(Pair)

VARIABLES
  minute,     \* Utc::now() in whole minutes
  started,    \* Baseline.started
  pairs,      \* Baseline.pairs: a function from the known pairs
  curMinute,  \* Baseline.cur_minute: pair -> the minute being counted
  verdict,    \* the outcome of the last call of record_and_score
  clockMoves, \* changes of the clock so far (for the bound MaxClockMoves)
  calls,      \* calls since the clock changed (for the bound MaxPerMinute)
  seenAt,     \* history: events of a known pair by the hour they came in
  allowance,  \* history: the samples its profile may have by the clock: those
              \* it was loaded with, and one per change since it was made
  dropped     \* history: the pairs whose profile the last call dropped

vars == <<minute, started, pairs, curMinute, verdict, clockMoves, calls, seenAt,
          allowance, dropped>>

NoCounts == [h \in Hour |-> 0]

Stats == [samples : [Hour -> Nat], mass : [Hour -> Nat], lastSeen : Nat]

(* PairStats::default(), for a pair first seen at minute m.                *)
FreshStats(m) == [samples |-> NoCounts, mass |-> NoCounts, lastSeen |-> m]

(* The hour of day of a minute (the arithmetic of prev_hour; now.hour()    *)
(* agrees with it).                                                        *)
HourOf(m) ==
  ((m % (HoursPerDay * MinutesPerHour)) \div MinutesPerHour) % HoursPerDay

(* A file written by an earlier process may be loaded: any set of pairs,   *)
(* whatever the cap is now, some of them stale.  cur_minute is not saved.  *)
Loaded(P, seen) ==
  [p \in P |-> [samples  |-> [h \in Hour |-> LoadedSamples],
                mass     |-> NoCounts,
                lastSeen |-> seen[p]]]

Init ==
  /\ minute = EvictAge
  /\ started \in {0, minute}
  /\ \E P \in SUBSET Pair : \E seen \in [P -> {0, EvictAge}] :
       pairs = Loaded(P, seen)
  /\ curMinute = [p \in {} |-> 0]
  /\ verdict = "learning"
  /\ clockMoves = 0 /\ calls = 0
  /\ seenAt = [p \in DOMAIN pairs |-> NoCounts]
  /\ allowance = [p \in DOMAIN pairs |-> LoadedSamples]
  /\ dropped = {}

-----------------------------------------------------------------------------
(* Eviction, when the table is at its cap at the start of a call.          *)

Live == {p \in DOMAIN pairs : pairs[p].lastSeen > minute - EvictAge}

(* How many of n young pairs the fall-through drops.                       *)
DropCount(n) ==
  IF n = 0 THEN 0 ELSE IF n \div DropDivisor > 1 THEN n \div DropDivisor ELSE 1

(* Faulty variant: drops the most recently seen pairs.                     *)
Newest(S, d) ==
  {D \in SUBSET S : /\ Cardinality(D) = d
                    /\ \A v \in D, w \in S \ D :
                         pairs[v].lastSeen >= pairs[w].lastSeen}

(* The sets of d pairs of S that come first in an order by last_seen.      *)
Oldest(S, d) ==
  {D \in SUBSET S : /\ Cardinality(D) = d
                    /\ \A v \in D, w \in S \ D :
                         pairs[v].lastSeen <= pairs[w].lastSeen}

(* Faulty variant: only stale pairs are ever dropped.                      *)
KeptSoft ==
  IF Cardinality(DOMAIN pairs) < PairsMax THEN {DOMAIN pairs} ELSE {Live}

(* The sets of pairs that may be left for the rest of the call.            *)
Kept ==
  IF Cardinality(DOMAIN pairs) < PairsMax THEN {DOMAIN pairs}
  ELSE IF Cardinality(Live) < PairsMax THEN {Live}
  ELSE {Live \ D : D \in Oldest(Live, DropCount(Cardinality(Live)))}

-----------------------------------------------------------------------------
(* The rest of a call for pair p, once the pairs in kept are left.         *)

StatsBefore(p, kept) == IF p \in kept THEN pairs[p] ELSE FreshStats(minute)

(* Faulty variant: the minute counters of evicted pairs stay.              *)
MinutesNeverDropped(kept) == DOMAIN curMinute

MinutesKept(kept) == DOMAIN curMinute \cap kept

CounterBefore(p, kept) ==
  IF p \in MinutesKept(kept) THEN curMinute[p]
                             ELSE [minute |-> minute, count |-> 0]

(* Faulty variant: the finished minute is charged to the present hour.     *)
ObservedNow(stats, counter) ==
  LET h == HourOf(minute)
  IN  [stats EXCEPT !.samples = [stats.samples EXCEPT ![h] = @ + 1],
                    !.mass = [stats.mass EXCEPT ![h] = @ + counter.count]]

(* HourBucket::observe of a finished minute, into the hour of that minute. *)
Observed(stats, counter) ==
  LET h == HourOf(counter.minute)
  IN  [stats EXCEPT !.samples = [stats.samples EXCEPT ![h] = @ + 1],
                    !.mass = [stats.mass EXCEPT ![h] = @ + counter.count]]

(* Faulty variant: every event closes the minute.                          *)
ElapsedAlways(counter) == counter.count > 0

(* The minute is over once the clock shows another one, later or earlier.  *)
Elapsed(counter) == counter.minute # minute

StatsAfter(p, kept) ==
  LET st == [StatsBefore(p, kept) EXCEPT !.lastSeen = minute]
      c  == CounterBefore(p, kept)
  IN  IF Elapsed(c) THEN Observed(st, c) ELSE st

CounterAfter(p, kept) ==
  LET c == CounterBefore(p, kept)
  IN  [minute |-> minute, count |-> IF Elapsed(c) THEN 1 ELSE c.count + 1]

(* No score while learning, none from a bucket with too few samples.       *)
Verdicts(stats) ==
  IF minute < started + LearningTime THEN {"learning"}
  ELSE IF stats.samples[HourOf(minute)] < MinSamples THEN {"undersampled"}
  ELSE {"normal", "anomalous"}

(* Baseline::record_and_score for an event of pair p.                      *)
Record(p) ==
  /\ calls < MaxPerMinute
  /\ calls' = calls + 1
  /\ \E kept \in Kept :
       /\ pairs' = [q \in kept \cup {p} |->
                      IF q = p THEN StatsAfter(p, kept) ELSE pairs[q]]
       /\ curMinute' = [q \in MinutesKept(kept) \cup {p} |->
                          IF q = p THEN CounterAfter(p, kept) ELSE curMinute[q]]
       /\ verdict' \in Verdicts(StatsAfter(p, kept))
       /\ seenAt' = [q \in kept \cup {p} |->
                       LET before == IF q \in kept THEN seenAt[q] ELSE NoCounts
                       IN  IF q = p
                           THEN [before EXCEPT ![HourOf(minute)] = @ + 1]
                           ELSE before]
       /\ allowance' = [q \in kept \cup {p} |-> IF q \in kept THEN allowance[q] ELSE 0]
       /\ dropped' = DOMAIN pairs \ kept
  /\ UNCHANGED <<minute, started, clockMoves>>

(* Baseline::reset.                                                        *)
Reset ==
  /\ started' = minute
  /\ pairs' = [p \in {} |-> 0]
  /\ curMinute' = pairs'
  /\ seenAt' = pairs' /\ allowance' = pairs'
  /\ dropped' = {}
  /\ UNCHANGED <<minute, verdict, clockMoves, calls>>

(* The wall clock advances a minute, or is set back some.                  *)
ClockMove ==
  /\ clockMoves < MaxClockMoves
  /\ minute' \in 0 .. minute + 1
  /\ minute' # minute
  /\ clockMoves' = clockMoves + 1
  /\ calls' = 0
  /\ allowance' = [p \in DOMAIN pairs |-> allowance[p] + 1]
  /\ UNCHANGED <<started, pairs, curMinute, verdict, seenAt, dropped>>

Next == (\E p \in Pair : Record(p)) \/ Reset \/ ClockMove

Spec == Init /\ [][Next]_vars

-----------------------------------------------------------------------------
TypeOK ==
  /\ minute \in Nat /\ started \in Nat
  /\ clockMoves \in Nat /\ calls \in Nat
  /\ verdict \in {"learning", "undersampled", "normal", "anomalous"}
  /\ DOMAIN pairs \subseteq Pair
  /\ pairs \in [DOMAIN pairs -> Stats]
  /\ curMinute \in [DOMAIN curMinute -> [minute : Nat, count : Nat]]
  /\ seenAt \in [DOMAIN pairs -> [Hour -> Nat]]
  /\ allowance \in [DOMAIN pairs -> Nat]
  /\ dropped \subseteq Pair

(* Every minute being counted belongs to a pair that is still tracked      *)
(* (baseline.rs:180-181: "otherwise that map would be the new unbounded    *)
(* leak").                                                                 *)
NoOrphanMinutes == DOMAIN curMinute \subseteq DOMAIN pairs

(* Across minute rolls, evictions, re-insertions and clock changes, every  *)
(* event of a tracked pair is in exactly one place: in the bucket of the   *)
(* hour it arrived in, or in the minute still being counted.               *)
EventsLandInTheirHour ==
  \A p \in DOMAIN pairs : \A h \in Hour :
    seenAt[p][h] =
      pairs[p].mass[h]
        + (IF p \in DOMAIN curMinute /\ HourOf(curMinute[p].minute) = h
           THEN curMinute[p].count ELSE 0)

(* The table only grows while it stays within pairs_max (CHANGELOG.md:369- *)
(* 373), whatever it was loaded with.                                      *)
GrowsOnlyWithinCap ==
  [][Cardinality(DOMAIN pairs') > Cardinality(DOMAIN pairs)
       => Cardinality(DOMAIN pairs') <= (IF PairsMax = 0 THEN 1 ELSE PairsMax)]_vars

(* Eviction goes by age: no pair is dropped while one seen less recently   *)
(* keeps its profile.                                                      *)
OldestForgottenFirst ==
  [][(\E p \in Pair : Record(p)) =>
       \A v \in dropped', w \in DOMAIN pairs \ dropped' :
         pairs[v].lastSeen <= pairs[w].lastSeen]_vars

(* "Refuse to score against a bucket with too few observations"            *)
(* (baseline.rs:251): a score needs min_samples_for_scoring samples that   *)
(* the pair's present profile was loaded with or got by changes of the     *)
(* clock.  However many events arrive, a flood does not buy its way past   *)
(* the gate, nor does what an evicted or reset profile had count.          *)
FloodDoesNotTrain ==
  [][\A p \in Pair :
       Record(p) /\ verdict' \in {"normal", "anomalous"} => allowance'[p] >= MinSamples]_vars
=============================================================================
