------------------------- MODULE RateLimiterHistory -------------------------
(***************************************************************************)
(* RateLimiter with history: what each key asked for and got up to each    *)
(* tick, and what the hourly drains reported.  The history variables only  *)
(* record; the limits that an operator reads into the configuration are    *)
(* stated over them, across windows and evictions.                         *)
(***************************************************************************)
EXTENDS RateLimiter

VARIABLES
  arrivals,   \* arrivals[k][t]: calls of check for k up to tick t
  passes,     \* passes[k][t]: those the window let pass
  bursts,     \* bursts[k][t]: those answered Burst
  heldBack,   \* heldBack[k]: calls counted as suppressed, ever
  reported,   \* reported[k]: suppressed events that drains returned
  evicted     \* keys that have lost their entry

hvars == <<vars, arrivals, passes, bursts, heldBack, reported, evicted>>

HInit ==
  /\ Init
  /\ arrivals = [k \in Key |-> [t \in 0..MaxTime |-> 0]]
  /\ passes = arrivals
  /\ bursts = arrivals
  /\ heldBack = [k \in Key |-> 0]
  /\ reported = heldBack
  /\ evicted = {}

(* One more event of k now, so one more up to any later tick.  The history *)
(* of a key ends with its first eviction.                                  *)
CountedIf(cond, hist, k) ==
  [x \in Key |-> [t \in 0..MaxTime |->
     IF x \in evicted' THEN 0
     ELSE IF cond /\ x = k /\ t >= now THEN hist[x][t] + 1 ELSE hist[x][t]]]

HCheck(k, sev) ==
  /\ Check(k, sev)
  /\ evicted' = evicted \cup (DOMAIN state \ DOMAIN state')
  /\ arrivals' = CountedIf(TRUE, arrivals, k)
  /\ passes'   = CountedIf(allowed', passes, k)
  /\ bursts'   = CountedIf(decision' = "Burst", bursts, k)
  /\ heldBack' = [heldBack EXCEPT ![k] = IF allowed' THEN @ ELSE @ + 1]
  /\ UNCHANGED reported

(* What a drain says of k: a map has one entry of a key.                   *)
ReportedOf(k) ==
  LET of == {d \in drained' : d[1] = k}
  IN  IF of = {} THEN 0 ELSE (CHOOSE d \in of : TRUE)[2]

HDrain ==
  /\ Drain
  /\ reported' = [k \in Key |-> reported[k] + ReportedOf(k)]
  /\ UNCHANGED <<arrivals, passes, bursts, heldBack, evicted>>

HTick ==
  /\ Tick
  /\ UNCHANGED <<arrivals, passes, bursts, heldBack, reported, evicted>>

HNext ==
  \/ \E k \in Key, sev \in Severity : HCheck(k, sev)
  \/ HDrain
  \/ HTick

HSpec == HInit /\ [][HNext]_hvars

-----------------------------------------------------------------------------
(* Events of a key's history up to a tick; there is none before tick 0.    *)
Upto(record, t) == IF t < 0 THEN 0 ELSE record[t]

(* Events of a history in the ticks from..to.                              *)
InSpan(hist, k, from, to) == Upto(hist[k], to) - Upto(hist[k], from - 1)

(* A window opens with an event it lets pass, so any span as long as the   *)
(* window, across the edge of two of them, holds less than two windows'    *)
(* worth of passed events of a key that was never evicted.                 *)
SpanBelowTwoWindows ==
  WindowMax > 0 =>
    \A k \in Key \ evicted : \A t \in 0..now :
      InSpan(passes, k, t - Window + 1, t) < 2 * WindowMax

(* A flood of 2*threshold-1 events of a key within burst_window cannot hide*)
(* across the edge of two burst windows: it is answered by a BURST within  *)
(* the last two burst windows, over the rate limit or not.                 *)
FloodRaisesBurst ==
  BurstThreshold > 0 =>
    \A k \in Key \ evicted : \A t \in 0..now :
      InSpan(arrivals, k, t - BurstWindow + 1, t) >= 2 * BurstThreshold - 1
        => InSpan(bursts, k, t - 2 * BurstWindow + 2, t) > 0

(* What the hourly drains report for a key, plus what its entry still      *)
(* holds, is what was held back: nothing is counted twice, and nothing is  *)
(* lost unless the entry was evicted.                                      *)
HeldBackIsAccounted ==
  \A k \in Key :
    LET pending == IF k \in DOMAIN state THEN state[k].suppressed ELSE 0
    IN  /\ reported[k] + pending <= heldBack[k]
        /\ k \notin evicted => reported[k] + pending = heldBack[k]
=============================================================================
