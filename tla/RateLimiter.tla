---------------------------- MODULE RateLimiter ----------------------------
(***************************************************************************)
(* The process-wide alert rate limiter,                                    *)
(* crates/kernelradar-detectors/src/dedup.rs: a bounded map from           *)
(* (detector, comm, event_type) to a record of counters, asked once per    *)
(* alert (check) and drained once per hour (drain_suppressed).  Both run   *)
(* under one mutex and check reads the clock with the mutex held, so each  *)
(* call is one atomic step and the clock the calls see never goes back.    *)
(*                                                                         *)
(* Left out: KeyState.allowed, which nothing reads, and the instants       *)
(* between the two clock readings of a call that inserts a key.            *)
(***************************************************************************)
EXTENDS Integers, FiniteSets

CONSTANTS
  Key,             \* the keys events may carry
  Severity,        \* severities, ordered as in Severity's derive(PartialOrd)
  Window,          \* RateLimitConfig.window, in ticks
  WindowMax,       \* RateLimitConfig.window_max
  BurstThreshold,  \* RateLimitConfig.burst_threshold
  BurstWindow,     \* RateLimitConfig.burst_window, in ticks
  BackoffInitial,  \* RateLimitConfig.backoff_initial, in ticks
  BackoffMax,      \* RateLimitConfig.backoff_max, in ticks
  KeysMax,         \* RateLimitConfig.keys_max
  SampleK,         \* SAMPLE_K: entries an eviction looks at
  FarPast,         \* age given to last_emitted of a new entry
  MaxTime,         \* bound: the clock stops here
  MaxPerTick       \* bound: calls to check per clock tick

ASSUME RateLimiterAssumption ==
  /\ Severity \subseteq Nat
  /\ Window \in Nat \ {0} /\ WindowMax \in Nat
  /\ BurstThreshold \in Nat /\ BurstWindow \in Nat \ {0}
  /\ BackoffInitial \in Nat /\ BackoffMax \in Nat
  /\ KeysMax \in Nat /\ SampleK \in Nat \ {0} /\ FarPast \in Nat
  /\ MaxTime \in Nat /\ MaxPerTick \in Nat

VARIABLES
  now,       \* Instant::now()
  state,     \* RateLimiter.state: a function whose domain is the known keys
  decision,  \* what the last call of check returned
  allowed,   \* that call's local `allowed`: the window let the event pass
  drained,   \* what the last call of drain_suppressed returned
  load       \* calls of check in this tick (only for the bound MaxPerTick)

vars == <<now, state, decision, allowed, drained, load>>

Decision == {"Allow", "Suppress", "Burst"}

Entry == [windowStart : Int, windowCount : Nat, suppressed : Nat,
          burstStart : Int, burstCount : Nat, lastEmitted : Int,
          backoffSteps : Nat, severitySeen : Nat]

Init ==
  /\ now = 0
  /\ state = [k \in {} |-> 0]
  /\ decision = "Suppress"
  /\ allowed = FALSE
  /\ drained = {}
  /\ load = 0

-----------------------------------------------------------------------------
(* One entry under a call of check: the steps of the function in order.    *)

NewEntry(sev) ==
  [windowStart |-> now, windowCount |-> 0, suppressed |-> 0,
   burstStart |-> now, burstCount |-> 0, lastEmitted |-> now - FarPast,
   backoffSteps |-> 0, severitySeen |-> sev]

SeverityNoted(e, sev) ==
  [e EXCEPT !.severitySeen = IF sev > @ THEN sev ELSE @]

(* The burst window restarts with the first event after it ended; the      *)
(* event is counted in it.                                                 *)
BurstCounted(e) ==
  IF now - e.burstStart >= BurstWindow
  THEN [e EXCEPT !.burstStart = now, !.burstCount = 1]
  ELSE [e EXCEPT !.burstCount = @ + 1]

BurstTriggered(e) == e.burstCount = BurstThreshold

(* Faulty variant: the completed window keeps its backoff step.            *)
WindowRolledKeepsBackoff(e) ==
  IF now - e.windowStart >= Window
  THEN [e EXCEPT !.windowStart = now, !.windowCount = 0]
  ELSE e

(* Faulty variant: the window ends one tick early.                         *)
WindowRolledEarly(e) ==
  IF now - e.windowStart >= Window - 1
  THEN [e EXCEPT !.windowStart = now, !.windowCount = 0,
                 !.backoffSteps = IF @ > 0 THEN @ - 1 ELSE 0]
  ELSE e

(* The rate window restarts with the first event after it ended, and a     *)
(* completed window takes one backoff step back.                           *)
WindowRolled(e) ==
  IF now - e.windowStart >= Window
  THEN [e EXCEPT !.windowStart = now, !.windowCount = 0,
                 !.backoffSteps = IF @ > 0 THEN @ - 1 ELSE 0]
  ELSE e

(* backoff_initial doubled per step after the first (the exponent stops at *)
(* 20), at most backoff_max.                                               *)
RequiredGap(steps) ==
  IF steps = 0 THEN 0
  ELSE LET exponent == IF steps - 1 < 20 THEN steps - 1 ELSE 20
           gap      == BackoffInitial * 2 ^ exponent
       IN  IF gap < BackoffMax THEN gap ELSE BackoffMax

Passes(e) ==
  /\ e.windowCount < WindowMax
  /\ now - e.lastEmitted >= RequiredGap(e.backoffSteps)

(* The counters after the decision.                                        *)
Decided(e) ==
  IF Passes(e)
  THEN [e EXCEPT !.windowCount = @ + 1, !.lastEmitted = now]
  ELSE [e EXCEPT !.suppressed = @ + 1,
                 !.backoffSteps = IF e.windowCount >= WindowMax /\ @ = 0
                                  THEN 1 ELSE @,
                 !.lastEmitted = IF BurstTriggered(e) THEN now ELSE @]

(* Faulty variant: a burst over the limit is swallowed.                    *)
VerdictLimitFirst(e) ==
  IF ~Passes(e) THEN "Suppress"
  ELSE IF BurstTriggered(e) THEN "Burst" ELSE "Allow"

Verdict(e) ==
  IF BurstTriggered(e) THEN "Burst"
  ELSE IF Passes(e) THEN "Allow" ELSE "Suppress"

-----------------------------------------------------------------------------
(* The map.                                                                *)

(* The keys an eviction may drop: of some SampleK entries (all of them     *)
(* when there are fewer), one whose last_emitted is the oldest.            *)
SampleSize ==
  IF Cardinality(DOMAIN state) < SampleK THEN Cardinality(DOMAIN state)
                                         ELSE SampleK

(* Faulty variant: the newest entry of the sample goes.                    *)
VictimsNewest ==
  {v \in DOMAIN state :
     \E S \in SUBSET DOMAIN state :
       /\ Cardinality(S) = SampleSize
       /\ v \in S
       /\ \A w \in S : state[v].lastEmitted >= state[w].lastEmitted}

Victims ==
  {v \in DOMAIN state :
     \E S \in SUBSET DOMAIN state :
       /\ Cardinality(S) = SampleSize
       /\ v \in S
       /\ \A w \in S : state[v].lastEmitted <= state[w].lastEmitted}

(* Faulty variant: evicts only once the cap is exceeded.                   *)
MustEvictLate(k) ==
  /\ Cardinality(DOMAIN state) > KeysMax
  /\ k \notin DOMAIN state
  /\ DOMAIN state # {}

(* Whether check must evict before it inserts k.                           *)
MustEvict(k) ==
  /\ Cardinality(DOMAIN state) >= KeysMax
  /\ k \notin DOMAIN state
  /\ DOMAIN state # {}

(* The sets of keys that may be left when k is about to be looked up.      *)
KeptFor(k) ==
  IF MustEvict(k) THEN {DOMAIN state \ {v} : v \in Victims}
                  ELSE {DOMAIN state}

(* The entry of k once the windows have been rolled, before the decision.  *)
Arrived(k, sev) ==
  WindowRolled(BurstCounted(
    SeverityNoted(IF k \in DOMAIN state THEN state[k] ELSE NewEntry(sev), sev)))

(* RateLimiter::check, called for an alert of key k and severity sev.      *)
Check(k, sev) ==
  /\ load < MaxPerTick
  /\ load' = load + 1
  /\ \E kept \in KeptFor(k) :
       state' = [x \in kept \cup {k} |->
                   IF x = k THEN Decided(Arrived(k, sev)) ELSE state[x]]
  /\ decision' = Verdict(Arrived(k, sev))
  /\ allowed' = Passes(Arrived(k, sev))
  /\ UNCHANGED <<now, drained>>

(* Faulty variant: reports the counts and leaves them as they are.         *)
DrainKeepsCounts ==
  /\ drained' = {<<k, state[k].suppressed, state[k].severitySeen>> :
                   k \in {x \in DOMAIN state : state[x].suppressed > 0}}
  /\ UNCHANGED <<state, now, decision, allowed, load>>

(* RateLimiter::drain_suppressed: reports and zeroes the non-zero counts;  *)
(* the severity stays.                                                     *)
Drain ==
  /\ drained' = {<<k, state[k].suppressed, state[k].severitySeen>> :
                   k \in {x \in DOMAIN state : state[x].suppressed > 0}}
  /\ state' = [k \in DOMAIN state |-> [state[k] EXCEPT !.suppressed = 0]]
  /\ UNCHANGED <<now, decision, allowed, load>>

Tick ==
  /\ now < MaxTime
  /\ now' = now + 1
  /\ load' = 0
  /\ UNCHANGED <<state, decision, allowed, drained>>

Next ==
  \/ \E k \in Key, sev \in Severity : Check(k, sev)
  \/ Drain
  \/ Tick

Spec == Init /\ [][Next]_vars

-----------------------------------------------------------------------------
(* Types.  Bounds that the counters keep are part of it: a window never    *)
(* counts past its cap and no entry was touched in the future.             *)
EntryOK(e) ==
  /\ e \in Entry
  /\ e.windowCount <= WindowMax
  /\ e.windowStart <= now /\ e.burstStart <= now /\ e.lastEmitted <= now

TypeOK ==
  /\ now \in Nat /\ load \in Nat
  /\ decision \in Decision /\ allowed \in BOOLEAN
  /\ DOMAIN state \subseteq Key
  /\ state = [k \in DOMAIN state |-> state[k]]
  /\ \A k \in DOMAIN state : EntryOK(state[k])

(* The map never outgrows keys_max (dedup.rs:51-55 calls this the defence  *)
(* against unbounded distinct keys); a cap of zero still holds the one key *)
(* just inserted.                                                          *)
KeyCap ==
  /\ IsFiniteSet(DOMAIN state)
  /\ Cardinality(DOMAIN state) <= IF KeysMax = 0 THEN 1 ELSE KeysMax

(* backoff_steps only ever says that the current window is full: it never  *)
(* reaches 2 and it is 0 whenever the window still has room.  The doubling *)
(* of required_gap (dedup.rs:195) is therefore never reached.              *)
BackoffFollowsWindow ==
  \A k \in DOMAIN state :
    /\ state[k].backoffSteps <= 1
    /\ state[k].backoffSteps = 1 => state[k].windowCount >= WindowMax

(* An alert is held back only because its window is already full, never by *)
(* the gap alone.                                                          *)
HeldBackOnlyWhenFull ==
  [][\A k \in Key, sev \in Severity :
       Check(k, sev) => allowed' = (Arrived(k, sev).windowCount < WindowMax)]_vars

(* An eviction looks at SampleK entries and drops the one that has been    *)
(* silent longest: at least SampleK - 1 of the entries it leaves were      *)
(* emitted no earlier, so the freshest of a full map are safe from it, and *)
(* a map no larger than the sample is evicted oldest first (dedup.rs:      *)
(* 51-53).                                                                 *)
FreshestSurvive ==
  [][\A v \in DOMAIN state \ DOMAIN state' :
       Cardinality({w \in DOMAIN state \ {v} :
                      state[w].lastEmitted >= state[v].lastEmitted})
         >= SampleSize - 1]_vars

(* Every call of check decides as a plain fixed-window limiter would.      *)
Plain == INSTANCE WindowLimiter
           WITH win      <- [k \in DOMAIN state |->
                              [start |-> state[k].windowStart,
                               count |-> state[k].windowCount]],
                admitted <- allowed

ImplementsWindowLimiter == Plain!WSpec
=============================================================================
