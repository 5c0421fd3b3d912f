------------------------ MODULE AlertPipelineProofs ------------------------
(***************************************************************************)
(* Proofs about AlertPipeline for any finite number of threads and any     *)
(* number of alerts.  The counters and the output agree only when no call  *)
(* is under way; in between, the difference is the number of calls that    *)
(* have done the one and not yet the other.                                *)
(***************************************************************************)
EXTENDS AlertPipeline, FiniteSetTheorems, TLAPS

(* Calls that are counted and not emitted, that owe a BURST marker, that   *)
(* owe the count of their marker, and whose burst is not counted yet.      *)
Unemitted == {w \in Worker : pc[w] \in {"burst", "emit"}}
Unmarked == {w \in Worker : pc[w] = "marker" \/ (pc[w] = "emit" /\ decision[w] = "Burst")}
Uncounted == {w \in Worker : pc[w] = "countAnomaly"}
Bursting == {w \in Worker : pc[w] = "burst"}

Accounts ==
  /\ counters.totalEmitted = output.alerts + Cardinality(Unemitted)
  /\ counters.bursts = output.bursts + Cardinality(Unmarked)
  /\ output.anomalies = counters.anomalies + Cardinality(Uncounted)
  /\ counters.bursts + Cardinality(Bursting) <= counters.totalEmitted
  /\ \A w \in Bursting : decision[w] = "Burst"

(* What an hour counted is in the buckets, and then in what was taken.     *)
HourKnown ==
  /\ hour.open = counters.bucketEmitted + counters.bucketSuppressed
  /\ sumPc # "idle" => hour.closed = taken.emitted + taken.internal

ScrapeBehind ==
  /\ scrape.alerts <= counters.totalEmitted
  /\ scrape.bursts <= counters.bursts
  /\ scrape.anomalies <= counters.anomalies

IInv == TypeOK /\ SummariesConserve /\ Accounts /\ HourKnown /\ ScrapeBehind

-----------------------------------------------------------------------------
LEMMA Counts ==
  ASSUME NEW S \in SUBSET Worker, NEW w \in Worker
  PROVE  /\ Cardinality(S) \in Nat
         /\ w \notin S => Cardinality(S \cup {w}) = Cardinality(S) + 1
         /\ w \in S => Cardinality(S \ {w}) = Cardinality(S) - 1
<1>1. IsFiniteSet(S)
  BY FS_Subset, AlertPipelineAssumption
<1> QED BY <1>1, FS_CardinalityType, FS_AddElement, FS_RemoveElement

LEMMA Waiting ==
  /\ Cardinality(Unemitted) \in Nat /\ Cardinality(Unmarked) \in Nat
  /\ Cardinality(Uncounted) \in Nat /\ Cardinality(Bursting) \in Nat
<1>1. /\ Unemitted \in SUBSET Worker /\ Unmarked \in SUBSET Worker
      /\ Uncounted \in SUBSET Worker /\ Bursting \in SUBSET Worker
  BY DEF Unemitted, Unmarked, Uncounted, Bursting
<1>2. \A S \in SUBSET Worker : Cardinality(S) \in Nat
  BY FS_Subset, FS_CardinalityType, AlertPipelineAssumption
<1> QED BY <1>1, <1>2

LEMMA NoneWaiting ==
  AllIdle => /\ Cardinality(Unemitted) = 0 /\ Cardinality(Unmarked) = 0
             /\ Cardinality(Uncounted) = 0 /\ Cardinality(Bursting) = 0
<1> SUFFICES ASSUME AllIdle
             PROVE  /\ Cardinality(Unemitted) = 0 /\ Cardinality(Unmarked) = 0
                    /\ Cardinality(Uncounted) = 0 /\ Cardinality(Bursting) = 0
  OBVIOUS
<1>1. Unemitted = {} /\ Unmarked = {} /\ Uncounted = {} /\ Bursting = {}
  BY DEF AllIdle, Unemitted, Unmarked, Uncounted, Bursting
<1> QED BY <1>1, FS_EmptySet

LEMMA InitIInv == Init => IInv
<1> SUFFICES ASSUME Init PROVE IInv
  OBVIOUS
<1>1. TypeOK
  <2>1. /\ pc \in [Worker -> {"idle", "check", "count", "burst", "emit", "marker",
                              "anomaly", "countAnomaly"}]
        /\ decision \in [Worker -> {"Allow", "Suppress", "Burst"}]
        /\ anomalous \in [Worker -> BOOLEAN]
    BY DEF Init
  <2>2. counters \in Counters /\ hour \in [open : Nat, closed : Nat]
    BY DEF Init, Counters
  <2>3. /\ output \in [alerts : Nat, bursts : Nat, anomalies : Nat]
        /\ scrape \in [alerts : Nat, bursts : Nat, anomalies : Nat]
    BY DEF Init
  <2>4. /\ taken \in [emitted : Nat, internal : Nat, suppressed : Nat]
        /\ printed \in [emitted : Nat, suppressed : Nat]
    BY DEF Init
  <2>5. raised \in Nat /\ limiter \in Nat /\ quiet \in BOOLEAN
        /\ sumPc = "idle" /\ scrPc = "idle"
    BY DEF Init
  <2> QED BY <2>1, <2>2, <2>3, <2>4, <2>5 DEF TypeOK
<1>2. AllIdle
  BY DEF Init, AllIdle
<1>3. Accounts
  BY <1>2, NoneWaiting DEF Init, Accounts, Bursting
<1>4. SummariesConserve /\ HourKnown /\ ScrapeBehind
  BY DEF Init, SummariesConserve, HourKnown, ScrapeBehind
<1> QED BY <1>1, <1>3, <1>4 DEF IInv

-----------------------------------------------------------------------------
(* The steps of a call.  Each moves one worker into or out of the sets of  *)
(* those that still owe something.                                         *)

(* A call between two steps that count or emit nothing.                    *)
LEMMA ScoreOrCheck ==
  ASSUME IInv, NEW w \in Worker, Score(w) \/ Check(w)
  PROVE  IInv'
<1> USE DEF IInv, summary, scraper
<1>0. UNCHANGED <<counters, output, hour, sumPc, taken, printed, quiet, scrPc, scrape>>
  BY DEF Score, Check
<1>1. TypeOK'
  <2>1. CASE Score(w)
    BY <1>0, <2>1 DEF Score, TypeOK
  <2>2. CASE Check(w)
    <3>1. limiter' \in Nat
      BY <2>2 DEF Check, Held, TypeOK
    <3> QED BY <1>0, <2>2, <3>1 DEF Check, TypeOK
  <2> QED BY <2>1, <2>2
<1>2. /\ Unemitted' = Unemitted /\ Unmarked' = Unmarked
      /\ Uncounted' = Uncounted /\ Bursting' = Bursting
  BY DEF Score, Check, Unemitted, Unmarked, Uncounted, Bursting, TypeOK
<1>3. Accounts'
  BY <1>0, <1>2 DEF Accounts, Score, Check, TypeOK, Bursting
<1>4. (SummariesConserve /\ HourKnown /\ ScrapeBehind)'
  BY <1>0 DEF SummariesConserve, HourKnown, ScrapeBehind
<1> QED BY <1>1, <1>3, <1>4

LEMMA CountSuppressedIInv ==
  ASSUME IInv, NEW w \in Worker, CountSuppressed(w)
  PROVE  IInv'
<1> USE DEF IInv, summary, scraper
<1>0. /\ pc[w] = "count" /\ pc' = [pc EXCEPT ![w] = AfterAlert(w)]
      /\ counters' = [counters EXCEPT !.bucketSuppressed = @ + 1]
      /\ hour' = [hour EXCEPT !.open = @ + 1]
      /\ AfterAlert(w) \in {"anomaly", "idle"}
      /\ UNCHANGED <<decision, anomalous, raised, limiter, output, sumPc, taken,
                     printed, quiet, scrPc, scrape>>
  BY DEF CountSuppressed, AfterAlert
<1>1. TypeOK'
  BY <1>0 DEF TypeOK, Counters
<1>2. /\ Unemitted' = Unemitted /\ Unmarked' = Unmarked
      /\ Uncounted' = Uncounted /\ Bursting' = Bursting
  BY <1>0 DEF Unemitted, Unmarked, Uncounted, Bursting, TypeOK
<1>3. /\ counters'.totalEmitted = counters.totalEmitted
      /\ counters'.bucketEmitted = counters.bucketEmitted
      /\ counters'.bucketSuppressed = counters.bucketSuppressed + 1
      /\ counters'.bursts = counters.bursts /\ counters'.anomalies = counters.anomalies
      /\ hour'.open = hour.open + 1 /\ hour'.closed = hour.closed
  BY <1>0 DEF TypeOK, Counters
<1>4. Accounts'
  BY <1>0, <1>2, <1>3 DEF Accounts
<1>5. (SummariesConserve /\ HourKnown /\ ScrapeBehind)'
  BY <1>0, <1>3 DEF SummariesConserve, HourKnown, ScrapeBehind, TypeOK, Counters
<1> QED BY <1>1, <1>4, <1>5

(* The alert is counted and still to be emitted; a burst, to be counted.   *)
LEMMA CountEmittedIInv ==
  ASSUME IInv, NEW w \in Worker, CountEmitted(w)
  PROVE  IInv'
<1> USE DEF IInv, summary, scraper
<1> DEFINE next == IF decision[w] = "Burst" THEN "burst" ELSE "emit"
<1>0. /\ pc[w] = "count" /\ pc' = [pc EXCEPT ![w] = next]
      /\ counters' = [counters EXCEPT !.bucketEmitted = @ + 1, !.totalEmitted = @ + 1]
      /\ hour' = [hour EXCEPT !.open = @ + 1]
      /\ UNCHANGED <<decision, anomalous, raised, limiter, output, sumPc, taken,
                     printed, quiet, scrPc, scrape>>
  BY DEF CountEmitted
<1>1. TypeOK'
  <2>1. counters' \in Counters
    <3> DEFINE more == [counters EXCEPT !.bucketEmitted = @ + 1]
    <3>1. counters' = [more EXCEPT !.totalEmitted = @ + 1]
      BY <1>0 DEF TypeOK, Counters
    <3>2. more \in Counters
      BY DEF TypeOK, Counters
    <3> HIDE DEF more
    <3> QED BY <3>1, <3>2 DEF Counters
  <2>2. hour' \in [open : Nat, closed : Nat]
    BY <1>0 DEF TypeOK
  <2>3. pc' \in [Worker -> {"idle", "check", "count", "burst", "emit", "marker",
                            "anomaly", "countAnomaly"}]
    BY <1>0 DEF TypeOK
  <2> QED BY <1>0, <2>1, <2>2, <2>3 DEF TypeOK
<1>2. /\ w \notin Unemitted /\ Unemitted' = Unemitted \cup {w}
      /\ Unmarked' = Unmarked /\ Uncounted' = Uncounted
      /\ w \notin Bursting
      /\ Bursting' = IF decision[w] = "Burst" THEN Bursting \cup {w} ELSE Bursting
  BY <1>0 DEF Unemitted, Unmarked, Uncounted, Bursting, TypeOK
<1>3. /\ Cardinality(Unemitted') = Cardinality(Unemitted) + 1
      /\ Cardinality(Bursting') <= Cardinality(Bursting) + 1
  <2>1. Unemitted \in SUBSET Worker /\ Bursting \in SUBSET Worker
    BY DEF Unemitted, Bursting
  <2>2. Cardinality(Bursting \cup {w}) = Cardinality(Bursting) + 1
    BY <1>2, <2>1, Counts
  <2> QED BY <1>2, <2>1, <2>2, Counts
<1>4. /\ counters'.totalEmitted = counters.totalEmitted + 1
      /\ counters'.bucketEmitted = counters.bucketEmitted + 1
      /\ counters'.bucketSuppressed = counters.bucketSuppressed
      /\ counters'.bursts = counters.bursts /\ counters'.anomalies = counters.anomalies
      /\ hour'.open = hour.open + 1 /\ hour'.closed = hour.closed
  BY <1>0 DEF TypeOK, Counters
<1>5. Accounts'
  <2>1. \A v \in Bursting' : decision'[v] = "Burst"
    BY <1>0, <1>2 DEF Accounts
  <2>2. Cardinality(Bursting') \in Nat
    <3>1. Bursting' \in SUBSET Worker
      BY DEF Bursting
    <3> QED BY <3>1, Counts
  <2> QED BY <1>0, <1>2, <1>3, <1>4, <2>1, <2>2, Waiting DEF Accounts, TypeOK, Counters
<1>6. (SummariesConserve /\ HourKnown /\ ScrapeBehind)'
  BY <1>0, <1>4 DEF SummariesConserve, HourKnown, ScrapeBehind, TypeOK, Counters
<1> QED BY <1>1, <1>5, <1>6

LEMMA CountBurstIInv ==
  ASSUME IInv, NEW w \in Worker, CountBurst(w)
  PROVE  IInv'
<1> USE DEF IInv, summary, scraper
<1>0. /\ pc[w] = "burst" /\ pc' = [pc EXCEPT ![w] = "emit"]
      /\ counters' = [counters EXCEPT !.bursts = @ + 1]
      /\ UNCHANGED <<decision, anomalous, raised, limiter, output, hour, sumPc, taken,
                     printed, quiet, scrPc, scrape>>
  BY DEF CountBurst
<1>1. TypeOK'
  BY <1>0 DEF TypeOK, Counters
<1>2. /\ Unemitted' = Unemitted /\ Uncounted' = Uncounted
      /\ w \notin Unmarked /\ Unmarked' = Unmarked \cup {w}
      /\ w \in Bursting /\ Bursting' = Bursting \ {w}
  BY <1>0 DEF Unemitted, Unmarked, Uncounted, Bursting, Accounts, TypeOK
<1>3. /\ Cardinality(Unmarked') = Cardinality(Unmarked) + 1
      /\ Cardinality(Bursting') = Cardinality(Bursting) - 1
  <2>1. Unmarked \in SUBSET Worker /\ Bursting \in SUBSET Worker
    BY DEF Unmarked, Bursting
  <2> QED BY <1>2, <2>1, Counts
<1>4. /\ counters'.totalEmitted = counters.totalEmitted
      /\ counters'.bucketEmitted = counters.bucketEmitted
      /\ counters'.bucketSuppressed = counters.bucketSuppressed
      /\ counters'.bursts = counters.bursts + 1
      /\ counters'.anomalies = counters.anomalies
  BY <1>0 DEF TypeOK, Counters
<1>5. Accounts'
  <2>1. \A v \in Bursting' : decision'[v] = "Burst"
    BY <1>0, <1>2 DEF Accounts
  <2> QED BY <1>0, <1>2, <1>3, <1>4, <2>1, Waiting DEF Accounts, TypeOK, Counters
<1>6. (SummariesConserve /\ HourKnown /\ ScrapeBehind)'
  BY <1>0, <1>4 DEF SummariesConserve, HourKnown, ScrapeBehind, TypeOK, Counters
<1> QED BY <1>1, <1>5, <1>6

LEMMA EmitIInv ==
  ASSUME IInv, NEW w \in Worker, Emit(w)
  PROVE  IInv'
<1> USE DEF IInv, summary, scraper
<1> DEFINE next == IF decision[w] = "Burst" THEN "marker" ELSE AfterAlert(w)
<1>0. /\ pc[w] = "emit" /\ pc' = [pc EXCEPT ![w] = next]
      /\ next \in {"marker", "anomaly", "idle"} /\ (next = "marker" <=> decision[w] = "Burst")
      /\ output' = [output EXCEPT !.alerts = @ + 1]
      /\ UNCHANGED <<decision, anomalous, raised, limiter, counters, hour, sumPc, taken,
                     printed, quiet, scrPc, scrape>>
  BY DEF Emit, AfterAlert
<1> HIDE DEF next
<1>1. TypeOK'
  <2>1. output' \in [alerts : Nat, bursts : Nat, anomalies : Nat]
    BY <1>0 DEF TypeOK
  <2>2. pc' \in [Worker -> {"idle", "check", "count", "burst", "emit", "marker",
                            "anomaly", "countAnomaly"}]
    BY <1>0 DEF TypeOK
  <2> QED BY <1>0, <2>1, <2>2 DEF TypeOK
<1>2. /\ w \in Unemitted /\ Unemitted' = Unemitted \ {w}
      /\ Unmarked' = Unmarked /\ Uncounted' = Uncounted /\ Bursting' = Bursting
  BY <1>0 DEF Unemitted, Unmarked, Uncounted, Bursting, TypeOK
<1>3. Cardinality(Unemitted') = Cardinality(Unemitted) - 1
  <2>1. Unemitted \in SUBSET Worker
    BY DEF Unemitted
  <2> QED BY <1>2, <2>1, Counts
<1>4. /\ output'.alerts = output.alerts + 1 /\ output'.bursts = output.bursts
      /\ output'.anomalies = output.anomalies
  BY <1>0 DEF TypeOK
<1>5. Accounts'
  BY <1>0, <1>2, <1>3, <1>4, Waiting DEF Accounts, TypeOK
<1>6. (SummariesConserve /\ HourKnown /\ ScrapeBehind)'
  BY <1>0 DEF SummariesConserve, HourKnown, ScrapeBehind
<1> QED BY <1>1, <1>5, <1>6

LEMMA EmitBurstMarkerIInv ==
  ASSUME IInv, NEW w \in Worker, EmitBurstMarker(w)
  PROVE  IInv'
<1> USE DEF IInv, summary, scraper
<1>0. /\ pc[w] = "marker" /\ pc' = [pc EXCEPT ![w] = AfterAlert(w)]
      /\ AfterAlert(w) \in {"anomaly", "idle"}
      /\ output' = [output EXCEPT !.bursts = @ + 1]
      /\ UNCHANGED <<decision, anomalous, raised, limiter, counters, hour, sumPc, taken,
                     printed, quiet, scrPc, scrape>>
  BY DEF EmitBurstMarker, AfterAlert
<1>1. TypeOK'
  BY <1>0 DEF TypeOK
<1>2. /\ w \in Unmarked /\ Unmarked' = Unmarked \ {w}
      /\ Unemitted' = Unemitted /\ Uncounted' = Uncounted /\ Bursting' = Bursting
  BY <1>0 DEF Unemitted, Unmarked, Uncounted, Bursting, TypeOK
<1>3. Cardinality(Unmarked') = Cardinality(Unmarked) - 1
  <2>1. Unmarked \in SUBSET Worker
    BY DEF Unmarked
  <2> QED BY <1>2, <2>1, Counts
<1>4. /\ output'.alerts = output.alerts /\ output'.bursts = output.bursts + 1
      /\ output'.anomalies = output.anomalies
  BY <1>0 DEF TypeOK
<1>5. Accounts'
  BY <1>0, <1>2, <1>3, <1>4, Waiting DEF Accounts, TypeOK
<1>6. (SummariesConserve /\ HourKnown /\ ScrapeBehind)'
  BY <1>0 DEF SummariesConserve, HourKnown, ScrapeBehind
<1> QED BY <1>1, <1>5, <1>6

LEMMA EmitAnomalyMarkerIInv ==
  ASSUME IInv, NEW w \in Worker, EmitAnomalyMarker(w)
  PROVE  IInv'
<1> USE DEF IInv, summary, scraper
<1>0. /\ pc[w] = "anomaly" /\ pc' = [pc EXCEPT ![w] = "countAnomaly"]
      /\ output' = [output EXCEPT !.anomalies = @ + 1]
      /\ UNCHANGED <<decision, anomalous, raised, limiter, counters, hour, sumPc, taken,
                     printed, quiet, scrPc, scrape>>
  BY DEF EmitAnomalyMarker
<1>1. TypeOK'
  BY <1>0 DEF TypeOK
<1>2. /\ w \notin Uncounted /\ Uncounted' = Uncounted \cup {w}
      /\ Unemitted' = Unemitted /\ Unmarked' = Unmarked /\ Bursting' = Bursting
  BY <1>0 DEF Unemitted, Unmarked, Uncounted, Bursting, TypeOK
<1>3. Cardinality(Uncounted') = Cardinality(Uncounted) + 1
  <2>1. Uncounted \in SUBSET Worker
    BY DEF Uncounted
  <2> QED BY <1>2, <2>1, Counts
<1>4. /\ output'.alerts = output.alerts /\ output'.bursts = output.bursts
      /\ output'.anomalies = output.anomalies + 1
  BY <1>0 DEF TypeOK
<1>5. Accounts'
  BY <1>0, <1>2, <1>3, <1>4, Waiting DEF Accounts, TypeOK, Counters
<1>6. (SummariesConserve /\ HourKnown /\ ScrapeBehind)'
  BY <1>0 DEF SummariesConserve, HourKnown, ScrapeBehind
<1> QED BY <1>1, <1>5, <1>6

LEMMA CountAnomalyIInv ==
  ASSUME IInv, NEW w \in Worker, CountAnomaly(w)
  PROVE  IInv'
<1> USE DEF IInv, summary, scraper
<1>0. /\ pc[w] = "countAnomaly" /\ pc' = [pc EXCEPT ![w] = "idle"]
      /\ counters' = [counters EXCEPT !.anomalies = @ + 1]
      /\ UNCHANGED <<decision, anomalous, raised, limiter, output, hour, sumPc, taken,
                     printed, quiet, scrPc, scrape>>
  BY DEF CountAnomaly
<1>1. TypeOK'
  BY <1>0 DEF TypeOK, Counters
<1>2. /\ w \in Uncounted /\ Uncounted' = Uncounted \ {w}
      /\ Unemitted' = Unemitted /\ Unmarked' = Unmarked /\ Bursting' = Bursting
  BY <1>0 DEF Unemitted, Unmarked, Uncounted, Bursting, TypeOK
<1>3. Cardinality(Uncounted') = Cardinality(Uncounted) - 1
  <2>1. Uncounted \in SUBSET Worker
    BY DEF Uncounted
  <2> QED BY <1>2, <2>1, Counts
<1>4. /\ counters'.totalEmitted = counters.totalEmitted
      /\ counters'.bucketEmitted = counters.bucketEmitted
      /\ counters'.bucketSuppressed = counters.bucketSuppressed
      /\ counters'.bursts = counters.bursts
      /\ counters'.anomalies = counters.anomalies + 1
  BY <1>0 DEF TypeOK, Counters
<1>5. Accounts'
  BY <1>0, <1>2, <1>3, <1>4, Waiting DEF Accounts, TypeOK, Counters
<1>6. (SummariesConserve /\ HourKnown /\ ScrapeBehind)'
  BY <1>0, <1>4 DEF SummariesConserve, HourKnown, ScrapeBehind, TypeOK, Counters
<1> QED BY <1>1, <1>5, <1>6

-----------------------------------------------------------------------------
(* The summary and the scrape, which owe and settle nothing for a call.    *)

LEMMA SameCalls ==
  ASSUME IInv, UNCHANGED <<pc, decision, output>>,
         counters'.totalEmitted = counters.totalEmitted,
         counters'.bursts = counters.bursts,
         counters'.anomalies = counters.anomalies
  PROVE  Accounts'
<1>1. /\ Unemitted' = Unemitted /\ Unmarked' = Unmarked
      /\ Uncounted' = Uncounted /\ Bursting' = Bursting
  BY DEF Unemitted, Unmarked, Uncounted, Bursting
<1> QED BY <1>1 DEF IInv, Accounts

(* The buckets move into what the summary has taken.                       *)
LEMMA TakeBucketsIInv == IInv /\ TakeBuckets => IInv'
<1> SUFFICES ASSUME IInv, TakeBuckets PROVE IInv'
  OBVIOUS
<1> USE DEF IInv
<1>0. /\ sumPc = "idle" /\ sumPc' = "drain"
      /\ taken' = [emitted |-> counters.bucketEmitted,
                   internal |-> counters.bucketSuppressed, suppressed |-> 0]
      /\ counters' = [counters EXCEPT !.bucketEmitted = 0, !.bucketSuppressed = 0]
      /\ hour' = [open |-> 0, closed |-> hour.open]
      /\ UNCHANGED <<pc, decision, anomalous, raised, limiter, output, printed,
                     quiet, scrPc, scrape>>
  BY DEF TakeBuckets, worker, scraper
<1>1. TypeOK'
  <2>1. counters' \in Counters
    <3> DEFINE less == [counters EXCEPT !.bucketEmitted = 0]
    <3>1. counters' = [less EXCEPT !.bucketSuppressed = 0]
      BY <1>0 DEF TypeOK, Counters
    <3>2. less \in Counters
      BY DEF TypeOK, Counters
    <3> HIDE DEF less
    <3> QED BY <3>1, <3>2 DEF Counters
  <2>2. taken' \in [emitted : Nat, internal : Nat, suppressed : Nat]
    BY <1>0 DEF TypeOK, Counters
  <2>3. hour' \in [open : Nat, closed : Nat]
    BY <1>0 DEF TypeOK
  <2> QED BY <1>0, <2>1, <2>2, <2>3 DEF TypeOK
<1>2. /\ counters'.totalEmitted = counters.totalEmitted
      /\ counters'.bursts = counters.bursts /\ counters'.anomalies = counters.anomalies
      /\ counters'.bucketEmitted = 0 /\ counters'.bucketSuppressed = 0
  BY <1>0 DEF TypeOK, Counters
<1>3. Accounts'
  BY <1>0, <1>2, SameCalls
<1>4. (SummariesConserve /\ HourKnown /\ ScrapeBehind)'
  BY <1>0, <1>2 DEF SummariesConserve, HourKnown, ScrapeBehind, TypeOK, Counters
<1> QED BY <1>1, <1>3, <1>4

LEMMA TakeSuppressedIInv == IInv /\ TakeSuppressed => IInv'
<1> SUFFICES ASSUME IInv, TakeSuppressed PROVE IInv'
  OBVIOUS
<1> USE DEF IInv
<1>0. /\ sumPc = "drain" /\ sumPc' = "print"
      /\ taken' = [taken EXCEPT !.suppressed = limiter] /\ limiter' = 0
      /\ UNCHANGED <<pc, decision, anomalous, raised, counters, output, printed,
                     quiet, hour, scrPc, scrape>>
  BY DEF TakeSuppressed, worker, scraper
<1>1. TypeOK'
  BY <1>0 DEF TypeOK
<1>2. Accounts'
  BY <1>0, SameCalls
<1>3. (SummariesConserve /\ HourKnown /\ ScrapeBehind)'
  BY <1>0 DEF SummariesConserve, HourKnown, ScrapeBehind, TypeOK
<1> QED BY <1>1, <1>2, <1>3

LEMMA PrintSummaryIInv == IInv /\ PrintSummary => IInv'
<1> SUFFICES ASSUME IInv, PrintSummary PROVE IInv'
  OBVIOUS
<1> USE DEF IInv
<1>0. /\ sumPc = "print" /\ sumPc' = "idle" /\ quiet' \in BOOLEAN
      /\ printed' = [emitted |-> printed.emitted + taken.emitted,
                     suppressed |-> printed.suppressed + taken.suppressed]
      /\ UNCHANGED <<pc, decision, anomalous, raised, limiter, counters, output,
                     taken, hour, scrPc, scrape>>
  BY DEF PrintSummary, NothingTaken, worker, scraper
<1>1. TypeOK'
  BY <1>0 DEF TypeOK
<1>2. Accounts'
  BY <1>0, SameCalls
<1>3. (SummariesConserve /\ HourKnown /\ ScrapeBehind)'
  BY <1>0 DEF SummariesConserve, HourKnown, ScrapeBehind, TypeOK, Counters
<1> QED BY <1>1, <1>2, <1>3

LEMMA ScrapeIInv == IInv /\ (Scrape \/ UNCHANGED vars) => IInv'
<1> SUFFICES ASSUME IInv, Scrape \/ UNCHANGED vars PROVE IInv'
  OBVIOUS
<1> USE DEF IInv
<1>0. UNCHANGED <<pc, decision, anomalous, raised, limiter, counters, output,
                  sumPc, taken, printed, quiet, hour>>
  BY DEF Scrape, ScrapeAlerts, ScrapeBursts, ScrapeAnomalies, worker, summary, vars
<1>1. TypeOK'
  BY <1>0 DEF Scrape, ScrapeAlerts, ScrapeBursts, ScrapeAnomalies, TypeOK,
              Counters, vars
<1>2. Accounts' /\ SummariesConserve' /\ HourKnown'
  BY <1>0, SameCalls DEF SummariesConserve, HourKnown
<1>3. ScrapeBehind'
  BY <1>0 DEF Scrape, ScrapeAlerts, ScrapeBursts, ScrapeAnomalies, ScrapeBehind,
              TypeOK, Counters, vars
<1> QED BY <1>1, <1>2, <1>3

LEMMA StepIInv == IInv /\ [Next]_vars => IInv'
  BY ScoreOrCheck, CountSuppressedIInv, CountEmittedIInv, CountBurstIInv, EmitIInv,
     EmitBurstMarkerIInv, EmitAnomalyMarkerIInv, CountAnomalyIInv, TakeBucketsIInv,
     TakeSuppressedIInv, PrintSummaryIInv, ScrapeIInv
  DEF Next, PrintAlert, Summarise

(* The inductive invariant holds in every behaviour.                       *)
THEOREM Invariance == Spec => []IInv
  BY InitIInv, StepIInv, PTL DEF Spec

(* Every counted alert is reported by one summary (metrics.rs              *)
(* emit_summary).                                                          *)
THEOREM Conserved == Spec => []SummariesConserve
<1>1. IInv => SummariesConserve
  BY DEF IInv
<1> QED BY <1>1, Invariance, PTL

(* Between calls the counters say what went out (util.rs print_alert).     *)
THEOREM CountersMatch == Spec => []CountersMatchOutput
<1>1. IInv => CountersMatchOutput
  BY NoneWaiting DEF IInv, Accounts, CountersMatchOutput, TypeOK, Counters
<1> QED BY <1>1, Invariance, PTL

(* The counters never go back, and a scrape never runs ahead of them       *)
(* (prometheus.rs render_metrics).                                         *)
THEOREM ScrapesFit == Spec => ScrapesConsistent
<1>1. IInv /\ [Next]_vars =>
        [/\ scrape'.alerts >= scrape.alerts
         /\ scrape'.bursts >= scrape.bursts
         /\ scrape'.anomalies >= scrape.anomalies
         /\ ScrapeAlerts => scrape'.alerts >= scrape.bursts]_vars
  <2> SUFFICES ASSUME IInv, [Next]_vars
               PROVE  /\ scrape'.alerts >= scrape.alerts
                      /\ scrape'.bursts >= scrape.bursts
                      /\ scrape'.anomalies >= scrape.anomalies
                      /\ ScrapeAlerts => scrape'.alerts >= scrape.bursts
    OBVIOUS
  <2>0. Cardinality(Bursting) \in Nat
    BY Waiting
  <2>1. CASE ScrapeAlerts
    <3>1. /\ scrape'.alerts = counters.totalEmitted
          /\ scrape'.bursts = scrape.bursts /\ scrape'.anomalies = scrape.anomalies
      BY <2>1 DEF ScrapeAlerts, IInv, TypeOK
    <3>2. counters.totalEmitted >= scrape.bursts
      BY <2>0 DEF IInv, TypeOK, Counters, Accounts, ScrapeBehind
    <3> QED BY <3>1, <3>2 DEF IInv, TypeOK, Counters, ScrapeBehind
  <2>2. CASE ScrapeBursts
    <3>1. scrPc = "bursts" /\ ~ScrapeAlerts
      BY <2>2 DEF ScrapeBursts, ScrapeAlerts
    <3> QED BY <2>2, <3>1 DEF ScrapeBursts, IInv, TypeOK, Counters, ScrapeBehind
  <2>3. CASE ScrapeAnomalies
    <3>1. scrPc = "anomalies" /\ ~ScrapeAlerts
      BY <2>3 DEF ScrapeAnomalies, ScrapeAlerts
    <3> QED BY <2>3, <3>1 DEF ScrapeAnomalies, IInv, TypeOK, Counters, ScrapeBehind
  <2>4. CASE ~Scrape
    <3>1. scrape' = scrape
      BY <2>4 DEF Next, PrintAlert, Summarise, Score, Check, CountSuppressed,
         CountEmitted, CountBurst, Emit, EmitBurstMarker, EmitAnomalyMarker,
         CountAnomaly, TakeBuckets, TakeSuppressed, PrintSummary, scraper, vars
    <3> QED BY <2>4, <3>1 DEF Scrape, IInv, TypeOK
  <2> QED BY <2>1, <2>2, <2>3, <2>4 DEF Scrape
<1> QED BY <1>1, Invariance, PTL DEF Spec, ScrapesConsistent

(* A summary that says nothing happened had nothing to report (metrics.rs  *)
(* emit_summary).                                                          *)
THEOREM QuietWasQuiet == Spec => QuietHourWasQuiet
<1>1. IInv /\ [Next]_vars => [PrintSummary /\ quiet' => hour.closed = 0]_vars
  <2> SUFFICES ASSUME IInv, PrintSummary, quiet' PROVE hour.closed = 0
    OBVIOUS
  <2>1. NothingTaken
    <3>1. quiet' = NothingTaken
      BY DEF PrintSummary
    <3> QED BY <3>1, Zenon
  <2> QED BY <2>1 DEF PrintSummary, NothingTaken, IInv, HourKnown
<1> QED BY <1>1, Invariance, PTL DEF Spec, QuietHourWasQuiet
=============================================================================
