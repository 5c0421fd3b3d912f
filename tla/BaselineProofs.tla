--------------------------- MODULE BaselineProofs ---------------------------
(***************************************************************************)
(* Proofs about the baseline, in memory (Baseline) and on disk             *)
(* (BaselineFile), for every choice of the constants.  In memory: the      *)
(* types, no orphaned minute counter, every event in the bucket of its     *)
(* hour, no score that the clock has not paid for, growth only within the  *)
(* cap, and eviction by age.  What FloodDoesNotTrain rests on is that no   *)
(* bucket has more samples than its allowance, where a minute that is over *)
(* but not yet observed is a sample that the next event will add, so it is *)
(* counted already (Pending).                                              *)
(***************************************************************************)
EXTENDS Baseline, BaselineFile, FiniteSetTheorems, TLAPS

Pending(p) ==
  IF p \in DOMAIN curMinute /\ curMinute[p].minute # minute THEN 1 ELSE 0

NotOvertrained ==
  \A p \in DOMAIN pairs : \A h \in Hour :
    pairs[p].samples[h] + Pending(p) <= allowance[p]

(* The inductive invariant.                                                *)
IInv ==
  /\ TypeOK
  /\ NoOrphanMinutes
  /\ EventsLandInTheirHour
  /\ NotOvertrained

Counter == [minute : Nat, count : Nat]

LEMMA HourOfType == ASSUME NEW m \in Nat PROVE HourOf(m) \in Hour
<1>1. HoursPerDay \in Nat \ {0} /\ MinutesPerHour \in Nat \ {0}
  BY BaselineAssumption DEF BaselineAssumption
<1>2. HoursPerDay * MinutesPerHour \in Nat \ {0}
  BY <1>1
<1>3. m % (HoursPerDay * MinutesPerHour) \in Nat
  <2> DEFINE d == HoursPerDay * MinutesPerHour
  <2>1. d \in Nat \ {0}
    BY <1>2
  <2> HIDE DEF d
  <2>2. m % d \in Nat
    BY <2>1
  <2>3. QED
    BY <2>2 DEF d
<1>4. (m % (HoursPerDay * MinutesPerHour)) \div MinutesPerHour \in Nat
  <2> DEFINE r == m % (HoursPerDay * MinutesPerHour)
  <2>1. r \in Nat
    BY <1>3
  <2> HIDE DEF r
  <2>2. r \div MinutesPerHour \in Nat
    BY <1>1, <2>1
  <2>3. QED
    BY <2>2 DEF r
<1>5. QED
  <2> DEFINE q == (m % (HoursPerDay * MinutesPerHour)) \div MinutesPerHour
  <2>1. q \in Nat
    BY <1>4
  <2> HIDE DEF q
  <2>2. q % HoursPerDay \in 0 .. HoursPerDay - 1
    BY <1>1, <2>1
  <2>3. QED
    BY <2>2 DEF q, HourOf, Hour

(* What HourBucket::observe does to a pair's profile.                      *)
LEMMA ObservedEffect ==
  ASSUME NEW stats \in Stats, NEW c \in Counter
  PROVE  LET f == Observed(stats, c)
             h == HourOf(c.minute)
         IN  /\ f \in Stats
             /\ f.lastSeen = stats.lastSeen
             /\ \A g \in Hour :
                  /\ f.samples[g] = stats.samples[g] + (IF g = h THEN 1 ELSE 0)
                  /\ f.mass[g] = stats.mass[g] + (IF g = h THEN c.count ELSE 0)
<1> DEFINE f == Observed(stats, c)
           h == HourOf(c.minute)
           s == [stats.samples EXCEPT ![h] = @ + 1]
           m == [stats.mass EXCEPT ![h] = @ + c.count]
<1>1. h \in Hour /\ c.count \in Nat
  BY HourOfType DEF Counter
<1>2. stats.samples \in [Hour -> Nat] /\ stats.mass \in [Hour -> Nat]
  BY DEF Stats
<1>3. f = [stats EXCEPT !.samples = s, !.mass = m]
  BY DEF Observed
<1> HIDE DEF f, h
<1>4. s \in [Hour -> Nat] /\ m \in [Hour -> Nat]
  BY <1>1, <1>2
<1>5. \A g \in Hour :
        /\ s[g] = stats.samples[g] + (IF g = h THEN 1 ELSE 0)
        /\ m[g] = stats.mass[g] + (IF g = h THEN c.count ELSE 0)
  BY <1>1, <1>2
<1> HIDE DEF s, m
<1>6. f \in Stats /\ f.samples = s /\ f.mass = m /\ f.lastSeen = stats.lastSeen
  BY <1>3, <1>4 DEF Stats
<1>7. QED
  BY <1>5, <1>6 DEF f, h

LEMMA InitIInv == Init => IInv
<1> SUFFICES ASSUME Init PROVE IInv
  OBVIOUS
<1> USE BaselineAssumption DEF BaselineAssumption
<1>1. EvictAge \in Nat /\ LoadedSamples \in Nat
  OBVIOUS
<1>2. PICK P \in SUBSET Pair : \E seen \in [P -> {0, EvictAge}] :
        pairs = Loaded(P, seen)
  BY DEF Init
<1>3. PICK seen \in [P -> {0, EvictAge}] : pairs = Loaded(P, seen)
  BY <1>2
<1>4. NoCounts \in [Hour -> Nat] /\ [h \in Hour |-> LoadedSamples] \in [Hour -> Nat]
  BY <1>1 DEF NoCounts
<1>5. DOMAIN curMinute = {} /\ DOMAIN pairs = P
  BY <1>3 DEF Init, Loaded
<1>6. TypeOK
  <2>1. pairs \in [DOMAIN pairs -> Stats]
    BY <1>1, <1>3, <1>4 DEF Stats, Loaded
  <2>2. curMinute \in [DOMAIN curMinute -> [minute : Nat, count : Nat]]
    BY DEF Init
  <2>3. seenAt \in [DOMAIN pairs -> [Hour -> Nat]]
    BY <1>4 DEF Init
  <2>4. allowance \in [DOMAIN pairs -> Nat]
    BY <1>1 DEF Init
  <2>5. QED
    BY <1>1, <1>5, <2>1, <2>2, <2>3, <2>4 DEF Init, TypeOK
<1>7. NoOrphanMinutes
  BY <1>5 DEF NoOrphanMinutes
<1>8. EventsLandInTheirHour
  <2>1. \A p \in DOMAIN pairs : \A h \in Hour : seenAt[p][h] = 0 /\ pairs[p].mass[h] = 0
    BY <1>3, <1>5 DEF Init, NoCounts, Loaded
  <2>2. QED
    BY <1>5, <2>1 DEF EventsLandInTheirHour
<1>9. NotOvertrained
  <2>1. \A p \in DOMAIN pairs : \A h \in Hour : pairs[p].samples[h] = LoadedSamples
    BY <1>3, <1>5 DEF Loaded
  <2>2. \A p \in DOMAIN pairs : Pending(p) = 0 /\ allowance[p] = LoadedSamples
    BY <1>5 DEF Init, Pending
  <2>3. QED
    BY <1>1, <2>1, <2>2 DEF NotOvertrained
<1>10. QED
  BY <1>6, <1>7, <1>8, <1>9 DEF IInv

(* The pairs left are tracked pairs.                                       *)
LEMMA KeptIsTracked ==
  ASSUME NEW kept \in Kept
  PROVE  kept \subseteq DOMAIN pairs
<1>1. Live \subseteq DOMAIN pairs
  BY DEF Live
<1>2. QED
  BY <1>1 DEF Kept

(* One pair under a call: before, after, and what became of its events.    *)
LEMMA PairEffect ==
  ASSUME IInv, NEW p \in Pair, NEW kept \in Kept
  PROVE  LET st == StatsAfter(p, kept)
             c  == CounterAfter(p, kept)
             before == IF p \in kept THEN seenAt[p] ELSE NoCounts
             allowed == IF p \in kept THEN allowance[p] ELSE 0
         IN  /\ st \in Stats /\ c \in Counter /\ c.minute = minute
             /\ before \in [Hour -> Nat]
             /\ \A h \in Hour :
                  /\ before[h] + (IF h = HourOf(minute) THEN 1 ELSE 0)
                       = st.mass[h] + (IF HourOf(minute) = h THEN c.count ELSE 0)
                  /\ st.samples[h] <= allowed
<1> DEFINE st0 == StatsBefore(p, kept)
           c0  == CounterBefore(p, kept)
           st1 == [st0 EXCEPT !.lastSeen = minute]
           before == IF p \in kept THEN seenAt[p] ELSE NoCounts
           due == IF Elapsed(c0) THEN 1 ELSE 0
           allowed == IF p \in kept THEN allowance[p] ELSE 0
<1>1. kept \subseteq DOMAIN pairs
  BY KeptIsTracked
<1>2. minute \in Nat /\ allowed \in Nat /\ HourOf(minute) \in Hour
  BY <1>1, HourOfType DEF IInv, TypeOK
<1>3. NoCounts \in [Hour -> Nat] /\ \A h \in Hour : NoCounts[h] = 0
  BY DEF NoCounts
<1>4. st0 \in Stats /\ before \in [Hour -> Nat]
  BY <1>1, <1>2, <1>3 DEF StatsBefore, FreshStats, Stats, IInv, TypeOK
<1>5. c0 \in Counter
  BY <1>1, <1>2 DEF CounterBefore, MinutesKept, Counter, IInv, TypeOK
<1>6. \A h \in Hour :
        before[h] = st0.mass[h] + (IF HourOf(c0.minute) = h THEN c0.count ELSE 0)
  <2>1. CASE p \in kept /\ p \in DOMAIN curMinute
    BY <1>1, <2>1
       DEF IInv, EventsLandInTheirHour, StatsBefore, CounterBefore, MinutesKept
  <2>2. CASE p \in kept /\ p \notin DOMAIN curMinute
    <3>1. c0.count = 0 /\ st0 = pairs[p] /\ before = seenAt[p]
      BY <2>2 DEF StatsBefore, CounterBefore, MinutesKept
    <3>2. \A h \in Hour : seenAt[p][h] = pairs[p].mass[h] + 0
      BY <1>1, <2>2 DEF IInv, EventsLandInTheirHour
    <3>3. QED
      BY <3>1, <3>2
  <2>3. CASE p \notin kept
    <3>1. c0.count = 0 /\ st0 = FreshStats(minute) /\ before = NoCounts
      BY <2>3 DEF StatsBefore, CounterBefore, MinutesKept
    <3>2. \A h \in Hour : st0.mass[h] = 0
      BY <1>3, <3>1 DEF FreshStats
    <3>3. QED
      BY <1>3, <3>1, <3>2
  <2>4. QED
    BY <2>1, <2>2, <2>3
<1>7. \A h \in Hour : st0.samples[h] + due <= allowed
  <2>1. CASE p \in kept
    <3>1. st0 = pairs[p] /\ p \in DOMAIN pairs /\ allowed = allowance[p]
      BY <1>1, <2>1 DEF StatsBefore
    <3>2. due = Pending(p)
      BY <2>1 DEF Pending, Elapsed, CounterBefore, MinutesKept
    <3>3. QED
      BY <3>1, <3>2 DEF IInv, NotOvertrained
  <2>2. CASE p \notin kept
    <3>1. due = 0 /\ st0 = FreshStats(minute) /\ allowed = 0
      BY <2>2 DEF Elapsed, CounterBefore, MinutesKept, StatsBefore
    <3>2. \A h \in Hour : st0.samples[h] = 0
      BY <1>3, <3>1 DEF FreshStats
    <3>3. QED
      BY <1>2, <3>1, <3>2
  <2>3. QED
    BY <2>1, <2>2
<1>8. StatsAfter(p, kept) = IF Elapsed(c0) THEN Observed(st1, c0) ELSE st1
  BY DEF StatsAfter
<1>9. /\ CounterAfter(p, kept)
           = [minute |-> minute, count |-> IF Elapsed(c0) THEN 1 ELSE c0.count + 1]
  BY DEF CounterAfter
<1> HIDE DEF st0, c0
<1>10. /\ st1 \in Stats /\ st1.samples = st0.samples /\ st1.mass = st0.mass
  BY <1>2, <1>4 DEF Stats
<1> HIDE DEF st1, before, allowed
<1>11. /\ st0.samples \in [Hour -> Nat] /\ st0.mass \in [Hour -> Nat]
       /\ c0.count \in Nat /\ c0.minute \in Nat
  BY <1>4, <1>5 DEF Stats, Counter
<1>12. CASE Elapsed(c0)
  <2>1. StatsAfter(p, kept) = Observed(st1, c0)
    BY <1>8, <1>12
  <2>2. CounterAfter(p, kept) = [minute |-> minute, count |-> 1]
    BY <1>9, <1>12
  <2>3. due = 1
    BY <1>12
  <2> HIDE DEF due
  <2>4. /\ Observed(st1, c0) \in Stats
        /\ \A g \in Hour :
             /\ Observed(st1, c0).samples[g]
                  = st1.samples[g] + (IF g = HourOf(c0.minute) THEN 1 ELSE 0)
             /\ Observed(st1, c0).mass[g]
                  = st1.mass[g] + (IF g = HourOf(c0.minute) THEN c0.count ELSE 0)
    BY <1>5, <1>10, ObservedEffect
  <2>5. \A h \in Hour :
          /\ before[h] + (IF h = HourOf(minute) THEN 1 ELSE 0)
               = Observed(st1, c0).mass[h] + (IF HourOf(minute) = h THEN 1 ELSE 0)
          /\ Observed(st1, c0).samples[h] <= allowed
    BY <1>2, <1>4, <1>6, <1>7, <1>10, <1>11, <2>3, <2>4
  <2>6. QED
    BY <1>2, <1>4, <2>1, <2>2, <2>4, <2>5 DEF Counter, before, allowed
<1>13. CASE ~Elapsed(c0)
  <2>1. StatsAfter(p, kept) = st1
    BY <1>8, <1>13
  <2>2. CounterAfter(p, kept) = [minute |-> minute, count |-> c0.count + 1]
    BY <1>9, <1>13
  <2>3. c0.minute = minute /\ due = 0
    BY <1>13 DEF Elapsed
  <2> HIDE DEF due
  <2>4. \A h \in Hour :
          /\ before[h] + (IF h = HourOf(minute) THEN 1 ELSE 0)
               = st1.mass[h] + (IF HourOf(minute) = h THEN c0.count + 1 ELSE 0)
          /\ st1.samples[h] <= allowed
    BY <1>2, <1>4, <1>6, <1>7, <1>10, <1>11, <2>3
  <2>5. QED
    BY <1>2, <1>4, <1>10, <1>11, <2>1, <2>2, <2>4 DEF Counter, before, allowed
<1>14. QED
  BY <1>12, <1>13

(* A call of record_and_score keeps the invariant.                         *)
LEMMA RecordIInv ==
  ASSUME IInv, NEW p \in Pair, Record(p)
  PROVE  IInv'
<1>1. PICK kept \in Kept :
        /\ pairs' = [q \in kept \cup {p} |->
                       IF q = p THEN StatsAfter(p, kept) ELSE pairs[q]]
        /\ curMinute' = [q \in MinutesKept(kept) \cup {p} |->
                           IF q = p THEN CounterAfter(p, kept) ELSE curMinute[q]]
        /\ verdict' \in Verdicts(StatsAfter(p, kept))
        /\ seenAt' = [q \in kept \cup {p} |->
                        LET before == IF q \in kept THEN seenAt[q] ELSE NoCounts
                        IN  IF q = p
                            THEN [before EXCEPT ![HourOf(minute)] = @ + 1]
                            ELSE before]
        /\ allowance' = [q \in kept \cup {p} |-> IF q \in kept THEN allowance[q] ELSE 0]
        /\ dropped' = DOMAIN pairs \ kept
  BY Zenon DEF Record
<1> DEFINE st == StatsAfter(p, kept)
           c  == CounterAfter(p, kept)
           before == IF p \in kept THEN seenAt[p] ELSE NoCounts
           after  == [before EXCEPT ![HourOf(minute)] = @ + 1]
           allowed == IF p \in kept THEN allowance[p] ELSE 0
<1>2. kept \subseteq DOMAIN pairs /\ MinutesKept(kept) = DOMAIN curMinute \cap kept
  BY KeptIsTracked DEF MinutesKept
<1>3. /\ st \in Stats /\ c \in Counter /\ c.minute = minute
      /\ before \in [Hour -> Nat]
      /\ \A h \in Hour :
           /\ before[h] + (IF h = HourOf(minute) THEN 1 ELSE 0)
                = st.mass[h] + (IF HourOf(minute) = h THEN c.count ELSE 0)
           /\ st.samples[h] <= allowed
  BY PairEffect
<1>4. pairs' = [q \in kept \cup {p} |-> IF q = p THEN st ELSE pairs[q]]
  BY <1>1
<1>5. curMinute' = [q \in MinutesKept(kept) \cup {p} |->
                      IF q = p THEN c ELSE curMinute[q]]
  BY <1>1
<1>6. seenAt' = [q \in kept \cup {p} |-> IF q = p THEN after ELSE seenAt[q]]
  BY <1>1
<1>7. /\ minute' = minute /\ started' = started /\ clockMoves' = clockMoves
      /\ \A q \in kept \cup {p} : allowance'[q] = IF q = p THEN allowed ELSE allowance[q]
      /\ calls' = calls + 1
      /\ minute \in Nat /\ HourOf(minute) \in Hour /\ calls \in Nat
  BY <1>1, HourOfType DEF Record, IInv, TypeOK
<1> HIDE DEF st, c
<1>8. after \in [Hour -> Nat]
      /\ \A h \in Hour : after[h] = before[h] + (IF h = HourOf(minute) THEN 1 ELSE 0)
  <2> HIDE DEF before
  <2> QED
    BY <1>3, <1>7
<1> HIDE DEF before, after, allowed
<1>9. DOMAIN pairs' = kept \cup {p} /\ DOMAIN curMinute' = (DOMAIN curMinute \cap kept) \cup {p}
  BY <1>2, <1>4, <1>5
<1>10. TypeOK'
  <2>1. pairs' \in [DOMAIN pairs' -> Stats]
    BY <1>2, <1>3, <1>4, <1>9 DEF IInv, TypeOK
  <2>2. curMinute' \in [DOMAIN curMinute' -> Counter]
    BY <1>2, <1>3, <1>5, <1>9 DEF IInv, TypeOK, Counter
  <2>3. seenAt' \in [DOMAIN pairs' -> [Hour -> Nat]]
    BY <1>2, <1>6, <1>8, <1>9 DEF IInv, TypeOK
  <2>4. verdict' \in {"learning", "undersampled", "normal", "anomalous"}
    BY <1>1 DEF Verdicts
  <2>5. DOMAIN pairs' \subseteq Pair /\ dropped' \subseteq Pair
    BY <1>1, <1>2, <1>9 DEF IInv, TypeOK
  <2>6. allowance' \in [DOMAIN pairs' -> Nat]
    BY <1>1, <1>2, <1>9 DEF IInv, TypeOK
  <2>7. QED
    BY <1>7, <2>1, <2>2, <2>3, <2>4, <2>5, <2>6 DEF IInv, TypeOK, Counter
<1>11. NoOrphanMinutes'
  BY <1>9 DEF NoOrphanMinutes
<1>12. EventsLandInTheirHour'
  <2> SUFFICES ASSUME NEW q \in DOMAIN pairs', NEW h \in Hour
               PROVE  seenAt'[q][h] =
                        pairs'[q].mass[h]
                          + (IF q \in DOMAIN curMinute' /\ HourOf(curMinute'[q].minute) = h
                             THEN curMinute'[q].count ELSE 0)
    BY DEF EventsLandInTheirHour, HourOf, Hour
  <2>1. CASE q = p
    <3>1. seenAt'[q] = after /\ pairs'[q] = st /\ curMinute'[q] = c /\ q \in DOMAIN curMinute'
      BY <1>4, <1>5, <1>6, <1>9, <2>1
    <3>2. after[h] = st.mass[h] + (IF HourOf(minute) = h THEN c.count ELSE 0)
      BY <1>3, <1>8
    <3>3. QED
      BY <1>3, <3>1, <3>2
  <2>2. CASE q # p
    <3>1. /\ seenAt'[q] = seenAt[q] /\ pairs'[q] = pairs[q] /\ q \in DOMAIN pairs
          /\ q \in DOMAIN curMinute' <=> q \in DOMAIN curMinute
          /\ q \in DOMAIN curMinute' => curMinute'[q] = curMinute[q]
      BY <1>2, <1>4, <1>5, <1>6, <1>9, <2>2
    <3>2. QED
      BY <3>1 DEF IInv, EventsLandInTheirHour
  <2>3. QED
    BY <2>1, <2>2
<1>13. NotOvertrained'
  <2> SUFFICES ASSUME NEW q \in DOMAIN pairs', NEW h \in Hour
               PROVE  pairs'[q].samples[h] + Pending(q)' <= allowance'[q]
    BY DEF NotOvertrained, Hour
  <2>1. CASE q = p
    <3>1. pairs'[q] = st /\ curMinute'[q] = c /\ allowance'[q] = allowed
      BY <1>4, <1>5, <1>7, <1>9, <2>1
    <3>2. Pending(q)' = 0
      BY <1>3, <1>7, <3>1 DEF Pending
    <3>3. st.samples[h] \in Nat
      BY <1>3 DEF Stats
    <3>4. QED
      BY <1>3, <1>7, <3>1, <3>2, <3>3
  <2>2. CASE q # p
    <3>1. /\ pairs'[q] = pairs[q] /\ q \in DOMAIN pairs /\ allowance'[q] = allowance[q]
          /\ q \in DOMAIN curMinute' <=> q \in DOMAIN curMinute
          /\ q \in DOMAIN curMinute' => curMinute'[q] = curMinute[q]
      BY <1>2, <1>4, <1>5, <1>7, <1>9, <2>2
    <3>2. Pending(q)' = Pending(q)
      BY <1>7, <3>1 DEF Pending
    <3>3. QED
      BY <1>7, <3>1, <3>2 DEF IInv, NotOvertrained
  <2>3. QED
    BY <2>1, <2>2
<1>14. QED
  BY <1>10, <1>11, <1>12, <1>13 DEF IInv

LEMMA ResetIInv ==
  ASSUME IInv, Reset
  PROVE  IInv'
<1>1. DOMAIN pairs' = {} /\ DOMAIN curMinute' = {} /\ DOMAIN seenAt' = {}
      /\ allowance' \in [DOMAIN pairs' -> Nat]
  BY DEF Reset
<1>2. TypeOK'
  BY <1>1 DEF Reset, IInv, TypeOK
<1>3. NoOrphanMinutes' /\ EventsLandInTheirHour' /\ NotOvertrained'
  BY <1>1 DEF NoOrphanMinutes, EventsLandInTheirHour, NotOvertrained
<1>4. QED
  BY <1>2, <1>3 DEF IInv

(* A change of the clock may close a minute; it also pays for its sample.  *)
LEMMA ClockMoveIInv ==
  ASSUME IInv, ClockMove
  PROVE  IInv'
<1>1. TypeOK'
  BY DEF ClockMove, IInv, TypeOK
<1>2. NoOrphanMinutes' /\ EventsLandInTheirHour'
  BY DEF ClockMove, IInv, NoOrphanMinutes, EventsLandInTheirHour, HourOf, Hour
<1>3. NotOvertrained'
  <2> SUFFICES ASSUME NEW p \in DOMAIN pairs, NEW h \in Hour
               PROVE  pairs[p].samples[h] + Pending(p)' <= allowance'[p]
    BY DEF NotOvertrained, ClockMove, Hour
  <2>1. allowance'[p] = allowance[p] + 1 /\ allowance[p] \in Nat
    BY DEF ClockMove, IInv, TypeOK
  <2>2. Pending(p)' \in {0, 1} /\ Pending(p) \in {0, 1}
    BY DEF Pending
  <2>3. pairs[p].samples[h] \in Nat
    BY DEF IInv, TypeOK, Stats
  <2>4. pairs[p].samples[h] + Pending(p) <= allowance[p]
    BY DEF IInv, NotOvertrained
  <2>5. QED
    BY <2>1, <2>2, <2>3, <2>4
<1>4. QED
  BY <1>1, <1>2, <1>3 DEF IInv

(* The strengthened invariant of the baseline holds in every state of it.  *)
THEOREM Invariance == Spec => []IInv
<1>1. IInv /\ [Next]_vars => IInv'
  <2> SUFFICES ASSUME IInv, [Next]_vars PROVE IInv'
    OBVIOUS
  <2>1. ASSUME NEW p \in Pair, Record(p) PROVE IInv'
    BY <2>1, RecordIInv
  <2>2. CASE Reset
    BY <2>2, ResetIInv
  <2>3. CASE ClockMove
    BY <2>3, ClockMoveIInv
  <2>4. CASE UNCHANGED vars
    BY <2>4 DEF vars, IInv, TypeOK, NoOrphanMinutes, EventsLandInTheirHour,
                NotOvertrained, Pending, HourOf, Hour
  <2>5. QED
    BY <2>1, <2>2, <2>3, <2>4 DEF Next
<1>2. QED
  BY <1>1, InitIInv, PTL DEF Spec

(* baseline.rs:180-183, 214: no minute counter outlives its pair.          *)
THEOREM NoLeak == Spec => []NoOrphanMinutes
<1>1. IInv => NoOrphanMinutes
  BY DEF IInv
<1>2. QED
  BY <1>1, Invariance, PTL

(* baseline.rs:232-240: whatever the clock, the cap and the traffic do,    *)
(* each event of a tracked pair is counted once, in the hour it came in.   *)
THEOREM EventsConserved == Spec => []EventsLandInTheirHour
<1>1. IInv => EventsLandInTheirHour
  BY DEF IInv
<1>2. QED
  BY <1>1, Invariance, PTL

(* baseline.rs:234, 251, 267: one sample per change of the clock at most,  *)
(* so no rate of events opens the gate to a score.                         *)
THEOREM NoFloodTraining == Spec => FloodDoesNotTrain
<1> DEFINE Paid == \A p \in Pair :
                     Record(p) /\ verdict' \in {"normal", "anomalous"}
                       => allowance'[p] >= MinSamples
<1>1. ASSUME IInv, NEW p \in Pair, Record(p), verdict' \in {"normal", "anomalous"}
      PROVE  allowance'[p] >= MinSamples
  <2>1. PICK kept \in Kept :
          /\ verdict' \in Verdicts(StatsAfter(p, kept))
          /\ allowance' = [q \in kept \cup {p} |-> IF q \in kept THEN allowance[q] ELSE 0]
    BY <1>1, Zenon DEF Record
  <2> DEFINE st == StatsAfter(p, kept)
  <2>2. st \in Stats /\ \A h \in Hour : st.samples[h] <= allowance'[p]
    BY <1>1, <2>1, PairEffect
  <2> HIDE DEF st
  <2>3. ~(st.samples[HourOf(minute)] < MinSamples)
    BY <1>1, <2>1 DEF Verdicts, st
  <2>4. HourOf(minute) \in Hour
    BY <1>1, HourOfType DEF IInv, TypeOK
  <2>5. /\ st.samples[HourOf(minute)] \in Nat /\ MinSamples \in Nat
        /\ allowance'[p] \in Nat
    <3>1. kept \subseteq DOMAIN pairs
      BY KeptIsTracked
    <3> QED
      BY <1>1, <2>1, <2>2, <2>4, <3>1, BaselineAssumption
         DEF Stats, IInv, TypeOK, BaselineAssumption
  <2> QED
    BY <2>2, <2>3, <2>4, <2>5
<1>2. IInv /\ [Next]_vars => [Paid]_vars
  BY <1>1
<1> QED
  BY <1>2, Invariance, PTL DEF Spec, FloodDoesNotTrain

(* At its cap the table loses at least the room that the call takes: what  *)
(* is left and the pair of the call are no more than before, or within it. *)
LEMMA RoomForOne ==
  ASSUME IInv, NEW p, NEW kept \in Kept
  PROVE  \/ Cardinality(kept \cup {p}) <= Cardinality(DOMAIN pairs)
         \/ Cardinality(kept \cup {p}) <= (IF PairsMax = 0 THEN 1 ELSE PairsMax)
<1> DEFINE n == Cardinality(DOMAIN pairs)
           live == Cardinality(Live)
           left == Cardinality(kept)
           after == Cardinality(kept \cup {p})
<1>1. PairsMax \in Nat /\ DropDivisor \in Nat \ {0}
  BY BaselineAssumption DEF BaselineAssumption
<1>2. IsFiniteSet(DOMAIN pairs)
  <2>1. IsFiniteSet(Pair) /\ DOMAIN pairs \subseteq Pair
    BY BaselineAssumption DEF BaselineAssumption, IInv, TypeOK
  <2>2. QED
    BY <2>1, FS_Subset
<1>3. Live \subseteq DOMAIN pairs /\ kept \subseteq DOMAIN pairs
  BY KeptIsTracked DEF Live
<1>4. IsFiniteSet(Live) /\ IsFiniteSet(kept) /\ live <= n
  BY <1>2, <1>3, FS_Subset
<1>5. n \in Nat /\ live \in Nat /\ left \in Nat
  BY <1>2, <1>4, FS_CardinalityType
<1>6. after \in Nat /\ after <= left + 1
  <2>1. after = IF p \in kept THEN left ELSE left + 1
    BY <1>4, FS_AddElement
  <2> HIDE DEF after, left
  <2>2. QED
    BY <1>5, <2>1
<1>7. CASE n < PairsMax
  <2>1. left = n
    BY <1>7 DEF Kept
  <2> HIDE DEF n, left, after
  <2>2. QED
    <3>1. after <= PairsMax /\ PairsMax # 0
      BY <1>1, <1>5, <1>6, <1>7, <2>1
    <3>2. QED
      BY <3>1 DEF after
<1>8. CASE n >= PairsMax /\ live < PairsMax
  <2>1. left = live
    BY <1>1, <1>5, <1>8 DEF Kept
  <2> HIDE DEF live, left, after, n
  <2>2. after <= PairsMax /\ PairsMax # 0
    BY <1>1, <1>5, <1>6, <1>8, <2>1
  <2>3. QED
    BY <2>2 DEF after
<1>9. CASE n >= PairsMax /\ live >= PairsMax
  <2>1. PICK D \in Oldest(Live, DropCount(live)) : kept = Live \ D
    BY <1>1, <1>5, <1>9 DEF Kept
  <2>2. D \subseteq Live /\ Cardinality(D) = DropCount(live)
    BY DEF Oldest
  <2>3. live = left + Cardinality(D)
    <3>1. IsFiniteSet(D)
      BY <1>4, <2>2, FS_Subset
    <3>2. Cardinality(kept \cup D) = left + Cardinality(D) - Cardinality(kept \cap D)
      BY <1>4, <3>1, FS_Union
    <3>3. kept \cup D = Live /\ kept \cap D = {}
      BY <2>1, <2>2
    <3>4. Cardinality({}) = 0 /\ Cardinality(D) \in Nat
      BY <3>1, FS_EmptySet, FS_CardinalityType
    <3>5. Cardinality(kept \cup D) = live /\ Cardinality(kept \cap D) = 0
      BY <3>3, <3>4
    <3> HIDE DEF live, left
    <3>6. QED
      BY <1>5, <3>2, <3>4, <3>5
  <2> HIDE DEF live, left, after, n
  <2>4. CASE live = 0
    <3>1. left = 0
      <4>1. Cardinality(D) = 0
        BY <2>2, <2>4 DEF DropCount
      <4>2. QED
        BY <1>5, <2>3, <2>4, <4>1
    <3>2. after <= 1 /\ PairsMax = 0
      BY <1>1, <1>5, <1>6, <1>9, <2>4, <3>1
    <3>3. QED
      BY <3>2 DEF after
  <2>5. CASE live # 0
    <3>1. DropCount(live) \in Nat \ {0}
      <4>1. live \div DropDivisor \in Nat
        BY <1>1, <1>5
      <4>2. QED
        BY <2>5, <4>1 DEF DropCount
    <3>2. after <= n
      BY <1>4, <1>5, <1>6, <2>2, <2>3, <3>1
    <3>3. QED
      BY <3>2 DEF after, n
  <2>6. QED
    BY <2>4, <2>5
<1>10. QED
  <2> HIDE DEF n, live
  <2>1. QED
    BY <1>1, <1>5, <1>7, <1>8, <1>9

(* baseline.rs:185-212: whatever was loaded and whatever the clock does,   *)
(* a call lets the table grow only while it stays within pairs_max.        *)
THEOREM GrowthCapped == Spec => GrowsOnlyWithinCap
<1> DEFINE Bound == IF PairsMax = 0 THEN 1 ELSE PairsMax
           Capped == Cardinality(DOMAIN pairs') > Cardinality(DOMAIN pairs)
                       => Cardinality(DOMAIN pairs') <= Bound
<1>1. IInv /\ [Next]_vars => [Capped]_vars
  <2> SUFFICES ASSUME IInv, Next PROVE Capped
    BY DEF vars
  <2>1. IsFiniteSet(DOMAIN pairs) /\ Cardinality(DOMAIN pairs) \in Nat
    <3>1. IsFiniteSet(Pair) /\ DOMAIN pairs \subseteq Pair
      BY BaselineAssumption DEF BaselineAssumption, IInv, TypeOK
    <3>2. QED
      BY <3>1, FS_Subset, FS_CardinalityType
  <2>2. ASSUME NEW p \in Pair, Record(p) PROVE Capped
    <3>1. PICK kept \in Kept :
            pairs' = [q \in kept \cup {p} |->
                        IF q = p THEN StatsAfter(p, kept) ELSE pairs[q]]
      BY <2>2 DEF Record
    <3>2. DOMAIN pairs' = kept \cup {p}
      BY <3>1
    <3>3. \/ Cardinality(kept \cup {p}) <= Cardinality(DOMAIN pairs)
          \/ Cardinality(kept \cup {p}) <= Bound
      BY RoomForOne
    <3>4. Cardinality(kept \cup {p}) \in Nat
      <4>1. IsFiniteSet(kept)
        BY <2>1, KeptIsTracked, FS_Subset
      <4>2. QED
        BY <4>1, FS_AddElement, FS_CardinalityType
    <3> HIDE DEF Bound
    <3>5. QED
      BY <2>1, <3>2, <3>3, <3>4
  <2>3. CASE Reset
    <3>1. Cardinality(DOMAIN pairs') = 0
      BY <2>3, FS_EmptySet DEF Reset
    <3> HIDE DEF Bound
    <3>2. QED
      BY <2>1, <3>1
  <2>4. CASE ClockMove
    <3>1. pairs' = pairs
      BY <2>4 DEF ClockMove
    <3> HIDE DEF Bound
    <3>2. QED
      BY <2>1, <3>1
  <2>5. QED
    BY <2>2, <2>3, <2>4 DEF Next
<1>2. QED
  BY <1>1, Invariance, PTL DEF Spec, GrowsOnlyWithinCap

(* baseline.rs:188-211: a call drops the profiles seen least recently.     *)
THEOREM ForgetsByAge == Spec => OldestForgottenFirst
<1> DEFINE ByAge == (\E p \in Pair : Record(p)) =>
                      \A v \in dropped', w \in DOMAIN pairs \ dropped' :
                        pairs[v].lastSeen <= pairs[w].lastSeen
<1>1. IInv => [ByAge]_vars
  <2> SUFFICES ASSUME IInv, NEW p \in Pair, Record(p),
                      NEW v \in dropped', NEW w \in DOMAIN pairs \ dropped'
               PROVE  pairs[v].lastSeen <= pairs[w].lastSeen
    OBVIOUS
  <2>1. PICK kept \in Kept : dropped' = DOMAIN pairs \ kept
    BY DEF Record
  <2>2. v \in DOMAIN pairs /\ v \notin kept /\ w \in kept /\ kept \subseteq DOMAIN pairs
    BY <2>1, KeptIsTracked
  <2>3. /\ pairs[v].lastSeen \in Nat /\ pairs[w].lastSeen \in Nat
        /\ minute \in Nat /\ EvictAge \in Nat
    BY <2>2, BaselineAssumption DEF BaselineAssumption, IInv, TypeOK, Stats
  <2>4. kept # DOMAIN pairs
    BY <2>2
  <2>5. kept \subseteq Live
    BY <2>4 DEF Kept
  <2>6. CASE v \notin Live
    <3>1. ~(pairs[v].lastSeen > minute - EvictAge) /\ pairs[w].lastSeen > minute - EvictAge
      BY <2>2, <2>5, <2>6 DEF Live
    <3>2. QED
      BY <2>3, <3>1
  <2>7. CASE v \in Live
    <3>1. PICK D \in Oldest(Live, DropCount(Cardinality(Live))) : kept = Live \ D
      BY <2>2, <2>4, <2>7 DEF Kept
    <3>2. v \in D /\ w \in Live \ D
      BY <2>2, <2>7, <3>1
    <3>3. QED
      BY <3>2 DEF Oldest
  <2>8. QED
    BY <2>6, <2>7
<1>2. QED
  BY <1>1, Invariance, PTL DEF OldestForgottenFirst

-----------------------------------------------------------------------------
(* On disk.  The inductive invariant says what each stage of save knows of *)
(* the temporary file, that a baseline begun before a reset only survives  *)
(* in a race with it, and that the bounds hold.                            *)

(* What save has established when it is about to take a step.              *)
Staged ==
  /\ pc # "idle" => up
  /\ pc \in {"sync", "rename"} => tmp.there /\ tmp.whole /\ tmp.is = text
  /\ pc = "rename" => tmp.synced
  /\ pc = "write" => tmp.there

FloorHolds == floor <= Learned(path)

EraFollows ==
  ~raced => /\ path.there => path.is.era = resets
            /\ up => mem.era = resets
            /\ pc # "idle" => text.era = resets

InBounds(c) == c.gen <= MaxGen /\ c.era <= MaxResets

FileBounded ==
  /\ resets <= MaxResets
  /\ InBounds(mem) /\ InBounds(text)
  /\ InBounds(path.is) /\ InBounds(durable.is)

FileIInv ==
  /\ FileTypeOK /\ FileNeverTorn /\ Staged
  /\ FloorHolds /\ EraFollows /\ FileBounded

LEMMA NoFileType == NoFile \in File
  BY DEF NoFile, File, Content

LEMMA FreshType == ASSUME resets \in Nat PROVE Fresh \in Content
  BY DEF Fresh, Content

LEMMA FileInitIInv == FileInit => FileIInv
<1> SUFFICES ASSUME FileInit PROVE FileIInv
  OBVIOUS
<1>1. ~NoFile.there /\ NoFile.is = [era |-> 0, gen |-> 0]
  BY DEF NoFile
<1>2. mem \in Content /\ text = mem /\ mem.era = 0 /\ mem.gen = 0
  BY DEF FileInit, Content
<1>3. FileTypeOK
  BY <1>2, NoFileType DEF FileInit, FileTypeOK
<1>4. FileNeverTorn /\ Staged /\ FloorHolds /\ EraFollows
  BY <1>1, <1>2 DEF FileInit, FileNeverTorn, Staged, FloorHolds, EraFollows, Learned
<1>5. FileBounded
  BY <1>1, <1>2, BaselineFileAssumption DEF FileInit, FileBounded, InBounds
<1> QED BY <1>3, <1>4, <1>5 DEF FileIInv

LEMMA SaveFileIInv == FileIInv /\ Save => FileIInv'
<1> SUFFICES ASSUME FileIInv, Save PROVE FileIInv'
  OBVIOUS
<1> USE DEF FileIInv
<1>1. CASE SaveStart
  BY <1>1 DEF SaveStart, FileTypeOK, FileNeverTorn, Staged, FloorHolds,
              EraFollows, FileBounded, Learned
<1>2. CASE SaveUnlink
  BY <1>2, NoFileType DEF SaveUnlink, FileTypeOK, FileNeverTorn, Staged,
              FloorHolds, EraFollows, FileBounded, Learned
<1>3. CASE SaveOpen
  <2>1. tmp' \in File /\ (pc' = "write" => tmp'.there)
    <3>1. CASE tmp' = [NoFile EXCEPT !.there = TRUE]
      BY <3>1, NoFileType DEF File, NoFile
    <3>2. CASE tmp' = tmp /\ pc' = "idle"
      BY <3>2 DEF FileTypeOK
    <3> QED BY <1>3, <3>1, <3>2 DEF SaveOpen
  <2>2. /\ pc' \in {"idle", "write"} /\ pc # "idle" /\ up
        /\ UNCHANGED <<up, mem, text, path, durable, resets, raced, floor>>
    BY <1>3 DEF SaveOpen
  <2> QED BY <2>1, <2>2 DEF FileTypeOK, FileNeverTorn, Staged, FloorHolds,
              EraFollows, FileBounded, Learned
<1>4. CASE SaveWrite
  <2>1. /\ tmp' \in File
        /\ pc' = "sync" => tmp'.there /\ tmp'.whole /\ tmp'.is = text
    <3>1. CASE tmp' = [tmp EXCEPT !.whole = TRUE, !.is = text]
      BY <1>4, <3>1 DEF SaveWrite, FileTypeOK, Staged, File
    <3>2. CASE tmp' = tmp /\ pc' = "idle"
      BY <3>2 DEF FileTypeOK
    <3> QED BY <1>4, <3>1, <3>2 DEF SaveWrite
  <2>2. /\ pc' \in {"idle", "sync"} /\ pc # "idle" /\ up
        /\ UNCHANGED <<up, mem, text, path, durable, resets, raced, floor>>
    BY <1>4 DEF SaveWrite
  <2> QED BY <2>1, <2>2 DEF FileTypeOK, FileNeverTorn, Staged, FloorHolds,
              EraFollows, FileBounded, Learned
<1>5. CASE SaveSync
  <2>1. /\ tmp' \in File
        /\ pc' = "rename" => /\ tmp'.there /\ tmp'.whole /\ tmp'.is = text
                             /\ tmp'.synced
    <3>1. CASE tmp' = [tmp EXCEPT !.synced = TRUE]
      BY <1>5, <3>1 DEF SaveSync, FileTypeOK, Staged, File
    <3>2. CASE tmp' = tmp /\ pc' = "idle"
      BY <3>2 DEF FileTypeOK
    <3> QED BY <1>5, <3>1, <3>2 DEF SaveSync
  <2>2. /\ pc' \in {"idle", "rename"} /\ pc # "idle" /\ up
        /\ UNCHANGED <<up, mem, text, path, durable, resets, raced, floor>>
    BY <1>5 DEF SaveSync
  <2> QED BY <2>1, <2>2 DEF FileTypeOK, FileNeverTorn, Staged, FloorHolds,
              EraFollows, FileBounded, Learned
<1>6. CASE SaveRename
  <2>1. CASE path' = tmp /\ tmp' = NoFile /\ floor' = text.gen /\ pc' = "chmod"
    <3>1. text.gen \in Nat
      BY DEF FileTypeOK, Content
    <3> QED BY <1>6, <2>1, <3>1, NoFileType
               DEF SaveRename, FileTypeOK, FileNeverTorn, Staged, FloorHolds,
                   EraFollows, FileBounded, Learned
  <2>2. CASE UNCHANGED <<path, tmp, floor>> /\ pc' = "idle"
    BY <1>6, <2>2 DEF SaveRename, FileTypeOK, FileNeverTorn, Staged, FloorHolds,
                      EraFollows, FileBounded, Learned
  <2> QED BY <1>6, <2>1, <2>2 DEF SaveRename
<1>7. CASE SaveChmod
  BY <1>7 DEF SaveChmod, FileTypeOK, FileNeverTorn, Staged, FloorHolds,
              EraFollows, FileBounded, Learned
<1> QED BY <1>1, <1>2, <1>3, <1>4, <1>5, <1>6, <1>7 DEF Save

(* A synced file comes through a power loss as it was.                     *)
LEMMA SyncedRemains == ASSUME NEW f, f.synced PROVE Remains(f) = {f}
  BY DEF Remains

LEMMA PowerLossFileIInv == FileIInv /\ PowerLoss => FileIInv'
<1> SUFFICES ASSUME FileIInv, PowerLoss PROVE FileIInv'
  OBVIOUS
<1> USE DEF FileIInv
<1>1. /\ \/ path' = path
         \/ path' = durable
         \/ ~path'.there /\ path' \in File /\ path'.is \in {path.is, durable.is}
      /\ durable' = path'
  <2> DEFINE torn(f) == [f EXCEPT !.whole = FALSE]
  <2>1. ASSUME NEW f \in File, f.there => f.synced
        PROVE  \A g \in Remains(f) :
                 g = f \/ (~g.there /\ g \in File /\ g.is = f.is)
    BY <2>1 DEF Remains, File
  <2>2. /\ path \in File /\ durable \in File
        /\ path.there => path.synced
        /\ durable.there => durable.synced
    BY DEF FileTypeOK, FileNeverTorn
  <2> QED BY <2>1, <2>2 DEF PowerLoss
<1>2. path' \in File /\ tmp' \in File
  BY <1>1, NoFileType DEF PowerLoss, FileTypeOK, Remains, File
<1>3. /\ up' = FALSE /\ pc' = "idle" /\ raced' = TRUE
      /\ mem' = mem /\ text' = text /\ resets' = resets
      /\ floor' = IF Learned(durable) < floor THEN Learned(durable) ELSE floor
  BY DEF PowerLoss
<1>4. Learned(durable) \in Nat /\ Learned(path) \in Nat
  BY DEF FileTypeOK, Learned, File, Content
<1>5. FileTypeOK'
  BY <1>1, <1>2, <1>3, <1>4 DEF FileTypeOK
<1>6. FileNeverTorn' /\ Staged' /\ EraFollows' /\ FileBounded'
  BY <1>1, <1>3 DEF FileNeverTorn, Staged, EraFollows, FileBounded
<1>7. FloorHolds'
  \* if path' is not there, both alternatives it came from hold nothing
  <2>1. CASE path' = path
    BY <2>1, <1>3, <1>4 DEF FloorHolds, Learned, FileTypeOK
  <2>2. CASE path' = durable
    BY <2>2, <1>3, <1>4 DEF FloorHolds, Learned, FileTypeOK
  <2>3. CASE ~path'.there /\ path' # path /\ path' # durable
    <3>1. Learned(path') = 0
      BY <2>3 DEF Learned
    <3>2. \/ ~path.there
          \/ ~durable.there
      <4>1. path' \in Remains(path) \cup Remains(durable)
        BY DEF PowerLoss
      <4> QED BY <4>1, <2>3 DEF Remains, FileNeverTorn
    <3> QED BY <3>1, <3>2, <1>3, <1>4 DEF FloorHolds, Learned, FileTypeOK
  <2> QED BY <1>1, <2>1, <2>2, <2>3
<1> QED BY <1>5, <1>6, <1>7

LEMMA FileStepIInv == FileIInv /\ [FileNext]_fvars => FileIInv'
<1> SUFFICES ASSUME FileIInv, [FileNext]_fvars PROVE FileIInv'
  OBVIOUS
<1> USE DEF FileIInv
<1>1. CASE Save
  BY <1>1, SaveFileIInv
<1>2. CASE Learn
  <2>1. mem' \in Content /\ mem'.era = mem.era /\ mem'.gen = mem.gen + 1
    BY <1>2 DEF Learn, FileTypeOK, Content
  <2>2. mem.gen + 1 <= MaxGen
    BY <1>2, BaselineFileAssumption DEF Learn, FileTypeOK, Content
  <2> QED BY <1>2, <2>1, <2>2 DEF Learn, FileTypeOK, FileNeverTorn, Staged,
              FloorHolds, EraFollows, FileBounded, InBounds, Learned
<1>3. CASE Start
  <2>1. pc = "idle"
    BY <1>3 DEF Start, Staged
  <2>2. CASE path.there
    <3>1. mem' = path.is
      BY <1>3, <2>2 DEF Start, FileNeverTorn
    <3> QED BY <1>3, <2>1, <2>2, <3>1
               DEF Start, FileTypeOK, FileNeverTorn, Staged, FloorHolds,
                   EraFollows, FileBounded, Learned, File
  <2>3. CASE ~path.there
    <3>1. mem' = Fresh /\ Fresh \in Content /\ Fresh.era = resets /\ Fresh.gen = 0
      BY <1>3, <2>3, FreshType DEF Start, FileTypeOK, Fresh
    <3> QED BY <1>3, <2>1, <2>3, <3>1, BaselineFileAssumption
               DEF Start, FileTypeOK, FileNeverTorn, Staged, FloorHolds,
                   EraFollows, FileBounded, InBounds, Learned
  <2> QED BY <2>2, <2>3
<1>4. CASE CliReset
  <2>1. resets + 1 <= MaxResets
    BY <1>4, BaselineFileAssumption DEF CliReset, FileTypeOK
  <2>2. InBounds(NoFile.is) /\ ~NoFile.there
    BY BaselineFileAssumption DEF InBounds, NoFile
  <2> QED BY <1>4, <2>1, <2>2, NoFileType
             DEF CliReset, FileTypeOK, FileNeverTorn, Staged, FloorHolds,
                 EraFollows, FileBounded, Learned
<1>5. CASE Kill
  BY <1>5 DEF Kill, FileTypeOK, FileNeverTorn, Staged, FloorHolds, EraFollows,
              FileBounded, Learned
<1>6. CASE PowerLoss
  BY <1>6, PowerLossFileIInv
<1>7. CASE Commit
  BY <1>7 DEF Commit, FileTypeOK, FileNeverTorn, Staged, FloorHolds, EraFollows,
              FileBounded, Learned
<1>8. CASE UNCHANGED fvars
  BY <1>8 DEF fvars, FileTypeOK, FileNeverTorn, Staged, FloorHolds, EraFollows,
              FileBounded, Learned
<1> QED BY <1>1, <1>2, <1>3, <1>4, <1>5, <1>6, <1>7, <1>8 DEF FileNext

(* The inductive invariant holds in every behaviour.                       *)
THEOREM FileInvariance == FileSpec => []FileIInv
  BY FileInitIInv, FileStepIInv, PTL DEF FileSpec

(* No kill, power loss or failing call of save leaves half a baseline.     *)
THEOREM NeverTorn == FileSpec => []FileNeverTorn
<1>1. FileIInv => FileNeverTorn
  BY DEF FileIInv
<1> QED BY <1>1, FileInvariance, PTL

(* load_or_default never resumes with less than the last successful save   *)
(* left behind.                                                            *)
THEOREM RestartResumes == FileSpec => RestartKeepsSaves
<1>1. FileIInv /\ [FileNext]_fvars => [Start => mem'.gen >= floor]_fvars
  <2> SUFFICES ASSUME FileIInv, Start PROVE mem'.gen >= floor
    OBVIOUS
  <2>1. CASE path.there
    BY <2>1 DEF FileIInv, Start, FileNeverTorn, FloorHolds, Learned, FileTypeOK, File,
                Content
  <2>2. CASE ~path.there
    BY <2>2 DEF FileIInv, Start, FloorHolds, Learned, FileTypeOK, Fresh
  <2> QED BY <2>1, <2>2
<1> QED BY <1>1, FileInvariance, PTL DEF FileSpec, RestartKeepsSaves

(* `baseline reset` of a stopped daemon is not undone by a later start.    *)
THEOREM StoppedResetSticks == FileSpec => []ResetOfStoppedSticks
<1>1. FileIInv => ResetOfStoppedSticks
  BY DEF FileIInv, EraFollows, ResetOfStoppedSticks
<1> QED BY <1>1, FileInvariance, PTL

-----------------------------------------------------------------------------
(* The refinement.                                                         *)

CellValue == [era : 0..MaxResets, gen : 0..MaxGen]

LEMMA InBoundsIsValue ==
  ASSUME NEW c \in Content, InBounds(c)
  PROVE  c \in CellValue
  BY BaselineFileAssumption DEF Content, InBounds, CellValue

LEMMA InitCell == FileInit => Cell!AInit
  BY DEF FileInit, Cell!AInit, Cell!Absent, AsCell, NoFile

LEMMA StepCell == FileIInv /\ [FileNext]_fvars => [Cell!ANext]_(Cell!avars)
<1> SUFFICES ASSUME FileIInv, [FileNext]_fvars PROVE [Cell!ANext]_(Cell!avars)
  OBVIOUS
<1>1. CASE UNCHANGED <<path, durable>>
  <2>1. AsCell(path)' = AsCell(path) /\ AsCell(durable)' = AsCell(durable)
    BY <1>1 DEF AsCell
  <2> QED BY <2>1 DEF Cell!avars
<1>2. CASE SaveRename /\ path' = tmp /\ pc' = "chmod"
  <2>1. tmp.there /\ tmp.whole /\ tmp.is = text /\ text \in CellValue
    BY <1>2, InBoundsIsValue DEF FileIInv, Staged, SaveRename, FileBounded, FileTypeOK
  <2>2. AsCell(path)' = [kind |-> "whole", value |-> text]
    BY <1>2, <2>1 DEF AsCell
  <2>3. AsCell(durable)' = AsCell(durable)
    BY <1>2 DEF SaveRename, AsCell
  <2>4. Cell!Publish
    BY <2>1, <2>2, <2>3 DEF Cell!Publish, Cell!Whole, CellValue
  <2> QED BY <2>4 DEF Cell!ANext
<1>3. CASE CliReset
  <2>1. AsCell(path)' = [kind |-> "absent"] /\ AsCell(durable)' = AsCell(durable)
    BY <1>3 DEF CliReset, AsCell, NoFile
  <2> QED BY <2>1 DEF Cell!Clear, Cell!Absent, Cell!ANext
<1>4. CASE Commit
  <2>1. AsCell(path)' = AsCell(path) /\ AsCell(durable)' = AsCell(path)
    BY <1>4 DEF Commit, AsCell
  <2> QED BY <2>1 DEF Cell!Commit, Cell!ANext
<1>5. CASE PowerLoss
  <2>1. ASSUME NEW f \in File, f.there => f.synced, NEW g \in Remains(f)
        PROVE  AsCell(g) = AsCell(f)
    <3>1. CASE g = f
      BY <3>1
    <3>2. CASE g = [f EXCEPT !.whole = FALSE] /\ ~f.synced
      <4>1. ~f.there /\ ~g.there
        BY <2>1, <3>2 DEF File
      <4> QED BY <4>1 DEF AsCell
    <3> QED BY <2>1, <3>1, <3>2 DEF Remains
  <2>2. /\ path \in File /\ (path.there => path.synced)
        /\ durable \in File /\ (durable.there => durable.synced)
    BY DEF FileIInv, FileTypeOK, FileNeverTorn
  <2>3. path' \in Remains(path) \cup Remains(durable) /\ durable' = path'
    BY <1>5 DEF PowerLoss
  <2>4. AsCell(path') \in {AsCell(path), AsCell(durable)}
    BY <2>1, <2>2, <2>3
  <2>5. AsCell(path)' = AsCell(path') /\ AsCell(durable)' = AsCell(path')
    BY <2>3 DEF AsCell
  <2> QED BY <2>4, <2>5 DEF Cell!PowerLoss, Cell!ANext
<1> QED
  BY <1>1, <1>2, <1>3, <1>4, <1>5
     DEF FileNext, Save, SaveStart, SaveUnlink, SaveOpen, SaveWrite, SaveSync,
         SaveRename, SaveChmod, Learn, Start, Kill, fvars

(* Through kills, power losses, failing calls and resets, the file is an   *)
(* atomic cell for its readers.                                            *)
THEOREM FileRefinement == FileSpec => ImplementsAtomicFile
  BY InitCell, StepCell, FileInvariance, PTL DEF FileSpec, ImplementsAtomicFile, Cell!ASpec
=============================================================================
