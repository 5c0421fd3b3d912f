--------------------------- MODULE AlertPipeline ---------------------------
(***************************************************************************)
(* What happens to an alert after it is made: print_alert                  *)
(* (crates/kernelradar-detectors/src/util.rs), the counters and the hourly *)
(* summary (metrics.rs), and the exporter that reads them (prometheus.rs   *)
(* render_metrics).  Detectors run on several threads; the baseline, the   *)
(* limiter and the counters have a mutex each, so a call that goes through *)
(* them interleaves with the other calls, with the summary and with a      *)
(* scrape between any two of its critical sections.                        *)
(*                                                                         *)
(* The counters are kept per detector and severity in the code; one        *)
(* detector and severity is enough here.  The outcomes of the baseline and *)
(* of the limiter are free (Baseline, RateLimiter say which ones occur): a *)
(* Burst is held back by the limiter's own count or not, and the check of  *)
(* one key may evict another with the counts it held.                      *)
(***************************************************************************)
EXTENDS Integers, FiniteSets

CONSTANTS
  Worker,    \* threads that run event handlers
  MaxAlerts  \* bound: alerts raised

ASSUME AlertPipelineAssumption == IsFiniteSet(Worker) /\ MaxAlerts \in Nat

VARIABLES
  pc,        \* pc[w]: where a worker is in print_alert
  decision,  \* decision[w]: what the limiter answered
  anomalous, \* anomalous[w]: the baseline gave a score
  raised,    \* history: calls of print_alert
  limiter,   \* suppressed events the limiter holds for its next drain
  counters,  \* metrics::Counters
  output,    \* history: what went to the output channels
  sumPc,     \* where the hourly summary is
  taken,     \* what it has taken so far
  printed,   \* history: the sums of what summaries have printed
  quiet,     \* the last summary said "no alerts in the last hour"
  hour,      \* history: alerts counted since the buckets were last taken,
             \* and in the hour before that
  scrPc,     \* where a scrape is
  scrape     \* the figures of the scrape, or of the last one

vars == <<pc, decision, anomalous, raised, limiter, counters, output, sumPc,
          taken, printed, quiet, hour, scrPc, scrape>>

worker == <<pc, decision, anomalous>>
summary == <<sumPc, taken, printed, quiet>>
scraper == <<scrPc, scrape>>

Init ==
  /\ pc = [w \in Worker |-> "idle"]
  /\ decision = [w \in Worker |-> "Allow"]
  /\ anomalous = [w \in Worker |-> FALSE]
  /\ raised = 0 /\ limiter = 0
  /\ hour = [open |-> 0, closed |-> 0]
  /\ counters = [bucketEmitted |-> 0, totalEmitted |-> 0,
                 bucketSuppressed |-> 0, bursts |-> 0, anomalies |-> 0]
  /\ output = [alerts |-> 0, bursts |-> 0, anomalies |-> 0]
  /\ sumPc = "idle"
  /\ taken = [emitted |-> 0, internal |-> 0, suppressed |-> 0]
  /\ printed = [emitted |-> 0, suppressed |-> 0]
  /\ quiet = FALSE
  /\ scrPc = "idle"
  /\ scrape = [alerts |-> 0, bursts |-> 0, anomalies |-> 0]

-----------------------------------------------------------------------------
(* print_alert.                                                            *)

(* Where a call goes once the alert itself is dealt with.                  *)
AfterAlert(w) == IF anomalous[w] THEN "anomaly" ELSE "idle"

(* baseline_score, whatever the limiter will say.                          *)
Score(w) ==
  /\ pc[w] = "idle" /\ raised < MaxAlerts
  /\ raised' = raised + 1
  /\ \E a \in BOOLEAN : anomalous' = [anomalous EXCEPT ![w] = a]
  /\ pc' = [pc EXCEPT ![w] = "check"]
  /\ UNCHANGED <<decision, limiter, counters, output, summary, hour, scraper>>

(* What the limiter holds after a check that evicted `lost` of it.         *)
Held(held, lost) == limiter - lost + IF held THEN 1 ELSE 0

(* rate_check: some of what the limiter held may be evicted.               *)
Check(w) ==
  /\ pc[w] = "check"
  /\ \E d \in {"Allow", "Suppress", "Burst"}, held \in BOOLEAN, lost \in 0..limiter :
       /\ d = "Allow" => ~held
       /\ d = "Suppress" => held
       /\ decision' = [decision EXCEPT ![w] = d]
       /\ limiter' = Held(held, lost)
  /\ pc' = [pc EXCEPT ![w] = "count"]
  /\ UNCHANGED <<anomalous, raised, counters, output, summary, hour, scraper>>

(* record_suppressed, and the alert is done with.                          *)
CountSuppressed(w) ==
  /\ pc[w] = "count" /\ decision[w] = "Suppress"
  /\ counters' = [counters EXCEPT !.bucketSuppressed = @ + 1]
  /\ hour' = [hour EXCEPT !.open = @ + 1]
  /\ pc' = [pc EXCEPT ![w] = AfterAlert(w)]
  /\ UNCHANGED <<decision, anomalous, raised, limiter, output, summary, scraper>>

(* Faulty variant: a burst is counted before its alert.                    *)
CountBurstFirst(w) ==
  /\ pc[w] = "count" /\ decision[w] # "Suppress"
  /\ counters' = IF decision[w] = "Burst"
                 THEN [counters EXCEPT !.bursts = @ + 1]
                 ELSE [counters EXCEPT !.bucketEmitted = @ + 1,
                                       !.totalEmitted = @ + 1]
  /\ hour' = [hour EXCEPT !.open = @ + 1]
  /\ pc' = [pc EXCEPT ![w] = IF decision[w] = "Burst" THEN "burst" ELSE "emit"]
  /\ UNCHANGED <<decision, anomalous, raised, limiter, output, summary, scraper>>

(* record_alert.                                                           *)
CountEmitted(w) ==
  /\ pc[w] = "count" /\ decision[w] # "Suppress"
  /\ counters' = [counters EXCEPT !.bucketEmitted = @ + 1, !.totalEmitted = @ + 1]
  /\ hour' = [hour EXCEPT !.open = @ + 1]
  /\ pc' = [pc EXCEPT ![w] = IF decision[w] = "Burst" THEN "burst" ELSE "emit"]
  /\ UNCHANGED <<decision, anomalous, raised, limiter, output, summary, scraper>>

(* record_burst.                                                           *)
CountBurst(w) ==
  /\ pc[w] = "burst"
  /\ counters' = [counters EXCEPT !.bursts = @ + 1]
  /\ pc' = [pc EXCEPT ![w] = "emit"]
  /\ UNCHANGED <<decision, anomalous, raised, limiter, output, summary, hour, scraper>>

(* emit.                                                                   *)
Emit(w) ==
  /\ pc[w] = "emit"
  /\ output' = [output EXCEPT !.alerts = @ + 1]
  /\ pc' = [pc EXCEPT ![w] = IF decision[w] = "Burst" THEN "marker"
                                                      ELSE AfterAlert(w)]
  /\ UNCHANGED <<decision, anomalous, raised, limiter, counters, summary, hour, scraper>>

(* emit_burst_marker.                                                      *)
EmitBurstMarker(w) ==
  /\ pc[w] = "marker"
  /\ output' = [output EXCEPT !.bursts = @ + 1]
  /\ pc' = [pc EXCEPT ![w] = AfterAlert(w)]
  /\ UNCHANGED <<decision, anomalous, raised, limiter, counters, summary, hour, scraper>>

(* Faulty variant: only alerts that are let through are called anomalous.  *)
MarkerUnlessSuppressed(w) ==
  /\ pc[w] = "anomaly"
  /\ output' = IF decision[w] = "Suppress" THEN output
               ELSE [output EXCEPT !.anomalies = @ + 1]
  /\ pc' = [pc EXCEPT ![w] = "countAnomaly"]
  /\ UNCHANGED <<decision, anomalous, raised, limiter, counters, summary, hour, scraper>>

(* emit_anomaly_marker, for suppressed alerts too.                         *)
EmitAnomalyMarker(w) ==
  /\ pc[w] = "anomaly"
  /\ output' = [output EXCEPT !.anomalies = @ + 1]
  /\ pc' = [pc EXCEPT ![w] = "countAnomaly"]
  /\ UNCHANGED <<decision, anomalous, raised, limiter, counters, summary, hour, scraper>>

(* record_anomaly.                                                         *)
CountAnomaly(w) ==
  /\ pc[w] = "countAnomaly"
  /\ counters' = [counters EXCEPT !.anomalies = @ + 1]
  /\ pc' = [pc EXCEPT ![w] = "idle"]
  /\ UNCHANGED <<decision, anomalous, raised, limiter, output, summary, hour, scraper>>

PrintAlert(w) ==
  \/ Score(w) \/ Check(w) \/ CountSuppressed(w) \/ CountEmitted(w)
  \/ CountBurst(w) \/ Emit(w) \/ EmitBurstMarker(w)
  \/ EmitAnomalyMarker(w) \/ CountAnomaly(w)

-----------------------------------------------------------------------------
(* emit_summary, once an hour.                                             *)

(* Faulty variant: reads the buckets but clears them later.                *)
TakeBucketsNoClear ==
  /\ sumPc = "idle"
  /\ taken' = [emitted |-> counters.bucketEmitted,
               internal |-> counters.bucketSuppressed, suppressed |-> 0]
  /\ hour' = [open |-> 0, closed |-> hour.open]
  /\ sumPc' = "drain"
  /\ UNCHANGED <<worker, raised, limiter, counters, output, printed, quiet, scraper>>

(* mem::take of both buckets, under the counters' mutex.                   *)
TakeBuckets ==
  /\ sumPc = "idle"
  /\ taken' = [emitted |-> counters.bucketEmitted,
               internal |-> counters.bucketSuppressed, suppressed |-> 0]
  /\ counters' = [counters EXCEPT !.bucketEmitted = 0, !.bucketSuppressed = 0]
  /\ hour' = [open |-> 0, closed |-> hour.open]
  /\ sumPc' = "drain"
  /\ UNCHANGED <<worker, raised, limiter, output, printed, quiet, scraper>>

(* drain_suppressed, under the limiter's.                                  *)
TakeSuppressed ==
  /\ sumPc = "drain"
  /\ taken' = [taken EXCEPT !.suppressed = limiter]
  /\ limiter' = 0
  /\ sumPc' = "print"
  /\ UNCHANGED <<worker, raised, counters, output, printed, quiet, hour, scraper>>

(* Faulty variant: asks the limiter alone whether anything was suppressed. *)
NothingLimited == taken.emitted = 0 /\ taken.suppressed = 0

NothingTaken ==
  /\ taken.emitted = 0 /\ taken.internal = 0 /\ taken.suppressed = 0

(* The internal count of suppressed alerts is only asked whether it is 0.  *)
PrintSummary ==
  /\ sumPc = "print"
  /\ quiet' = NothingTaken
  /\ printed' = [emitted |-> printed.emitted + taken.emitted,
                 suppressed |-> printed.suppressed + taken.suppressed]
  /\ sumPc' = "idle"
  /\ UNCHANGED <<worker, raised, limiter, counters, output, taken, hour, scraper>>

Summarise == TakeBuckets \/ TakeSuppressed \/ PrintSummary

-----------------------------------------------------------------------------
(* render_metrics: three reads under the counters' mutex, one by one.      *)

ScrapeAlerts ==
  /\ scrPc = "idle"
  /\ scrape' = [scrape EXCEPT !.alerts = counters.totalEmitted]
  /\ scrPc' = "bursts"
  /\ UNCHANGED <<worker, raised, limiter, counters, output, summary, hour>>

ScrapeBursts ==
  /\ scrPc = "bursts"
  /\ scrape' = [scrape EXCEPT !.bursts = counters.bursts]
  /\ scrPc' = "anomalies"
  /\ UNCHANGED <<worker, raised, limiter, counters, output, summary, hour>>

ScrapeAnomalies ==
  /\ scrPc = "anomalies"
  /\ scrape' = [scrape EXCEPT !.anomalies = counters.anomalies]
  /\ scrPc' = "idle"
  /\ UNCHANGED <<worker, raised, limiter, counters, output, summary, hour>>

Scrape == ScrapeAlerts \/ ScrapeBursts \/ ScrapeAnomalies

Next == (\E w \in Worker : PrintAlert(w)) \/ Summarise \/ Scrape

Spec == Init /\ [][Next]_vars

-----------------------------------------------------------------------------
Counters == [bucketEmitted : Nat, totalEmitted : Nat, bucketSuppressed : Nat,
             bursts : Nat, anomalies : Nat]

TypeOK ==
  /\ pc \in [Worker -> {"idle", "check", "count", "burst", "emit", "marker",
                        "anomaly", "countAnomaly"}]
  /\ decision \in [Worker -> {"Allow", "Suppress", "Burst"}]
  /\ anomalous \in [Worker -> BOOLEAN]
  /\ raised \in Nat /\ limiter \in Nat
  /\ hour \in [open : Nat, closed : Nat]
  /\ counters \in Counters
  /\ output \in [alerts : Nat, bursts : Nat, anomalies : Nat]
  /\ sumPc \in {"idle", "drain", "print"}
  /\ taken \in [emitted : Nat, internal : Nat, suppressed : Nat]
  /\ printed \in [emitted : Nat, suppressed : Nat]
  /\ quiet \in BOOLEAN
  /\ scrPc \in {"idle", "bursts", "anomalies"}
  /\ scrape \in [alerts : Nat, bursts : Nat, anomalies : Nat]

(* No call of print_alert is under way.                                    *)
AllIdle == \A w \in Worker : pc[w] = "idle"

(* Every emitted alert is reported by exactly one hourly summary: what has *)
(* been printed, is being printed and waits in the bucket is the total,    *)
(* however counting and summaries interleave.                              *)
SummariesConserve ==
  counters.totalEmitted =
    printed.emitted + counters.bucketEmitted
      + (IF sumPc = "idle" THEN 0 ELSE taken.emitted)

(* What successive scrapes export fits together, whatever was counted or   *)
(* cleared between their three reads: no series goes back, and an alert    *)
(* whose burst the last scrape showed is in the next one, because          *)
(* record_alert comes first (util.rs:223-224).                             *)
ScrapesConsistent ==
  [][/\ scrape'.alerts >= scrape.alerts
     /\ scrape'.bursts >= scrape.bursts
     /\ scrape'.anomalies >= scrape.anomalies
     /\ ScrapeAlerts => scrape'.alerts >= scrape.bursts]_vars

(* Whenever no call is under way, the cumulative counters say what went    *)
(* out: each alert once, each BURST and each ANOMALY marker once, the      *)
(* anomalies of suppressed alerts included (util.rs:207-208).              *)
CountersMatchOutput ==
  AllIdle => /\ counters.totalEmitted = output.alerts
             /\ counters.bursts = output.bursts
             /\ counters.anomalies = output.anomalies

(* "no alerts in the last hour" is only said of an hour in which none was  *)
(* counted, even when the limiter has forgotten what it suppressed.        *)
QuietHourWasQuiet == [][PrintSummary /\ quiet' => hour.closed = 0]_vars
=============================================================================
