-------------------------- MODULE RateLimiterProofs --------------------------
(***************************************************************************)
(* Proofs about RateLimiter, and about what RateLimiterHistory records of  *)
(* a run of it, for every choice of the constants.                         *)
(*                                                                         *)
(* Each of the types, the cap on the map and the idleness of the backoff   *)
(* is preserved by a call of check because of what happens to the one      *)
(* entry the call touches, so the argument is made once about that entry   *)
(* (lemmas Arrival and Settling) and lifted to the map (CheckEffect).      *)
(*                                                                         *)
(* What passed and came in a span of ticks is a difference of two of the   *)
(* running totals that the history keeps.  The last part bounds it, where  *)
(* windows meet, by what the entry counted in the open window and in the   *)
(* one before it.                                                          *)
(***************************************************************************)
EXTENDS RateLimiterHistory, FiniteSetTheorems, TLAPS

(* BackoffFollowsWindow for one entry.                                     *)
Idle(e) ==
  /\ e.backoffSteps <= 1
  /\ e.backoffSteps = 1 => e.windowCount >= WindowMax

(* The inductive invariant.                                                *)
IInv == TypeOK /\ KeyCap /\ BackoffFollowsWindow

(* With no backoff step there is no gap to keep.                           *)
LEMMA NoGap == RequiredGap(0) = 0
  BY DEF RequiredGap

LEMMA Fields ==
  ASSUME NEW e \in Entry
  PROVE  /\ e.windowStart \in Int /\ e.windowCount \in Nat
         /\ e.suppressed \in Nat /\ e.burstStart \in Int
         /\ e.burstCount \in Nat /\ e.lastEmitted \in Int
         /\ e.backoffSteps \in Nat /\ e.severitySeen \in Nat
  BY DEF Entry

(* The steps before the decision, one by one.                              *)
LEMMA SeverityNotedOK ==
  ASSUME NEW e \in Entry, NEW sev \in Nat
  PROVE  LET f == SeverityNoted(e, sev)
         IN  /\ f \in Entry
             /\ f.windowStart = e.windowStart /\ f.windowCount = e.windowCount
             /\ f.lastEmitted = e.lastEmitted /\ f.backoffSteps = e.backoffSteps
             /\ f.burstStart = e.burstStart /\ f.suppressed = e.suppressed
<1>1. PICK sv \in Nat : SeverityNoted(e, sev) = [e EXCEPT !.severitySeen = sv]
  BY Fields DEF SeverityNoted
<1>2. QED
  BY <1>1 DEF Entry

LEMMA BurstCountedOK ==
  ASSUME now \in Nat, NEW e, EntryOK(e), Idle(e)
  PROVE  /\ EntryOK(BurstCounted(e)) /\ Idle(BurstCounted(e))
         /\ BurstCounted(e).windowStart = e.windowStart
         /\ BurstCounted(e).windowCount = e.windowCount
         /\ BurstCounted(e).suppressed = e.suppressed
<1> DEFINE f == BurstCounted(e)
<1>1. e \in Entry /\ 1 \in Nat /\ e.burstCount + 1 \in Nat
      /\ e.burstStart \in Int /\ e.burstStart <= now /\ now \in Int
  BY Fields DEF EntryOK
<1>2. CASE now - e.burstStart >= BurstWindow
  <2>1. f = [e EXCEPT !.burstStart = now, !.burstCount = 1]
    BY <1>2 DEF BurstCounted
  <2> HIDE DEF f
  <2>2. /\ f \in Entry
        /\ f.windowStart = e.windowStart /\ f.windowCount = e.windowCount
        /\ f.lastEmitted = e.lastEmitted /\ f.backoffSteps = e.backoffSteps
        /\ f.burstStart = now /\ f.suppressed = e.suppressed
    BY <1>1, <2>1 DEF Entry
  <2>3. EntryOK(f) /\ Idle(f)
    BY <1>1, <2>2 DEF EntryOK, Idle
  <2>4. QED
    BY <2>2, <2>3 DEF f
<1>3. CASE ~(now - e.burstStart >= BurstWindow)
  <2> DEFINE bc == e.burstCount + 1
  <2>1. f = [e EXCEPT !.burstCount = bc] /\ bc \in Nat
    BY <1>1, <1>3 DEF BurstCounted
  <2> HIDE DEF f, bc
  <2>2. /\ f \in Entry
        /\ f.windowStart = e.windowStart /\ f.windowCount = e.windowCount
        /\ f.lastEmitted = e.lastEmitted /\ f.backoffSteps = e.backoffSteps
        /\ f.burstStart = e.burstStart /\ f.suppressed = e.suppressed
    BY <1>1, <2>1 DEF Entry
  <2>3. EntryOK(f) /\ Idle(f)
    BY <1>1, <2>2 DEF EntryOK, Idle
  <2>4. QED
    BY <2>2, <2>3 DEF f
<1>4. QED
  BY <1>2, <1>3

(* A rolled window is a fresh one, with no backoff step.                   *)
LEMMA WindowRolledOK ==
  ASSUME now \in Nat, NEW e, EntryOK(e), Idle(e)
  PROVE  /\ EntryOK(WindowRolled(e)) /\ Idle(WindowRolled(e))
         /\ WindowRolled(e).suppressed = e.suppressed
         /\ IF now - e.windowStart < Window
            THEN WindowRolled(e) = e
            ELSE WindowRolled(e).windowStart = now /\ WindowRolled(e).windowCount = 0
<1> DEFINE f == WindowRolled(e)
<1>1. /\ e \in Entry /\ e.windowStart \in Int /\ Window \in Int /\ WindowMax \in Nat
      /\ now \in Int
  BY Fields, RateLimiterAssumption DEF EntryOK, RateLimiterAssumption
<1>2. CASE now - e.windowStart >= Window
  <2>1. (IF e.backoffSteps > 0 THEN e.backoffSteps - 1 ELSE 0) = 0
    BY Fields DEF EntryOK, Idle
  <2>2. f = [e EXCEPT !.windowStart = now, !.windowCount = 0,
                      !.backoffSteps = 0]
    BY <1>2, <2>1 DEF WindowRolled
  <2> HIDE DEF f
  <2>3. /\ f \in Entry
        /\ f.windowStart = now /\ f.windowCount = 0
        /\ f.lastEmitted = e.lastEmitted /\ f.backoffSteps = 0
        /\ f.burstStart = e.burstStart /\ f.suppressed = e.suppressed
    BY <1>1, <2>2 DEF Entry
  <2>4. EntryOK(f) /\ Idle(f)
    BY <1>1, <2>3 DEF EntryOK, Idle
  <2>5. ~(now - e.windowStart < Window)
    BY <1>1, <1>2
  <2>6. QED
    BY <2>3, <2>4, <2>5 DEF f
<1>3. CASE ~(now - e.windowStart >= Window)
  BY <1>1, <1>3 DEF WindowRolled
<1>4. QED
  BY <1>2, <1>3

(* The entry that a call of check works on: the steps before the decision  *)
(* keep it well-formed and idle and what it has held back, and what they   *)
(* leave of the window is the window that was open, or a fresh one.        *)
LEMMA Arrival ==
  ASSUME TypeOK, BackoffFollowsWindow, NEW k \in Key, NEW sev \in Severity
  PROVE  LET a == Arrived(k, sev)
         IN  /\ EntryOK(a) /\ Idle(a)
             /\ a.suppressed = IF k \in DOMAIN state THEN state[k].suppressed ELSE 0
             /\ IF k \in DOMAIN state /\ now - state[k].windowStart < Window
                THEN /\ a.windowStart = state[k].windowStart
                     /\ a.windowCount = state[k].windowCount
                ELSE a.windowStart = now /\ a.windowCount = 0
<1> DEFINE e0 == IF k \in DOMAIN state THEN state[k] ELSE NewEntry(sev)
           e1 == SeverityNoted(e0, sev)
           e2 == BurstCounted(e1)
           a  == WindowRolled(e2)
<1>1. now \in Nat /\ sev \in Nat /\ Window \in Nat \ {0}
  BY RateLimiterAssumption DEF TypeOK, RateLimiterAssumption
<1>2. EntryOK(e0) /\ Idle(e0)
  <2>1. CASE k \in DOMAIN state
    BY <2>1 DEF TypeOK, BackoffFollowsWindow, Idle
  <2>2. CASE k \notin DOMAIN state
    BY <1>1, <2>2, RateLimiterAssumption
       DEF NewEntry, EntryOK, Entry, Idle, RateLimiterAssumption
  <2>3. QED
    BY <2>1, <2>2
<1>3. k \notin DOMAIN state => e0.windowStart = now /\ e0.windowCount = 0 /\ e0.suppressed = 0
  BY DEF NewEntry
<1>4. k \in DOMAIN state => e0 = state[k]
  OBVIOUS
<1>5. e0.windowStart \in Int
  BY <1>2, Fields DEF EntryOK
<1> HIDE DEF e0
<1>6. /\ EntryOK(e1) /\ Idle(e1)
      /\ e1.windowStart = e0.windowStart /\ e1.windowCount = e0.windowCount
      /\ e1.suppressed = e0.suppressed
  BY <1>1, <1>2, SeverityNotedOK DEF EntryOK, Idle
<1> HIDE DEF e1
<1>7. /\ EntryOK(e2) /\ Idle(e2)
      /\ e2.windowStart = e0.windowStart /\ e2.windowCount = e0.windowCount
      /\ e2.suppressed = e0.suppressed
  BY <1>1, <1>6, BurstCountedOK
<1> HIDE DEF e2
<1>8. /\ EntryOK(a) /\ Idle(a) /\ a.suppressed = e2.suppressed
      /\ IF now - e2.windowStart < Window
         THEN a = e2
         ELSE a.windowStart = now /\ a.windowCount = 0
  BY <1>1, <1>7, WindowRolledOK
<1>9. a = Arrived(k, sev)
  BY DEF Arrived, e2, e1, e0
<1> HIDE DEF a
<1>10. CASE k \in DOMAIN state
  BY <1>4, <1>7, <1>8, <1>9, <1>10
<1>11. CASE k \notin DOMAIN state
  BY <1>1, <1>3, <1>7, <1>8, <1>9, <1>11
<1>12. QED
  BY <1>10, <1>11

(* For a well-formed idle entry the gap decides nothing, and the decision  *)
(* leaves the entry well-formed and idle and counts the event, as passed   *)
(* or as held back.                                                        *)
LEMMA Settling ==
  ASSUME now \in Nat, NEW e, EntryOK(e), Idle(e)
  PROVE  /\ Passes(e) <=> e.windowCount < WindowMax
         /\ EntryOK(Decided(e)) /\ Idle(Decided(e))
         /\ Decided(e).windowStart = e.windowStart
         /\ Decided(e).windowCount = IF e.windowCount < WindowMax
                                     THEN e.windowCount + 1
                                     ELSE e.windowCount
         /\ Decided(e).suppressed = e.suppressed + (IF Passes(e) THEN 0 ELSE 1)
<1> DEFINE f == Decided(e)
<1>1. /\ e \in Entry /\ e.windowCount \in Nat /\ e.backoffSteps \in Nat
      /\ e.suppressed \in Nat /\ e.suppressed + 1 \in Nat /\ e.windowCount + 1 \in Nat
      /\ e.lastEmitted \in Int /\ e.lastEmitted <= now /\ now \in Int
  BY Fields DEF EntryOK
<1>2. WindowMax \in Nat
  BY RateLimiterAssumption DEF RateLimiterAssumption
<1>3. Passes(e) <=> e.windowCount < WindowMax
  <2>1. CASE e.backoffSteps = 0
    BY <1>1, <2>1, NoGap DEF Passes
  <2>2. CASE e.backoffSteps # 0
    BY <1>1, <1>2, <2>2 DEF Passes, Idle
  <2>3. QED
    BY <2>1, <2>2
<1>4. CASE Passes(e)
  <2>1. e.backoffSteps = 0
    BY <1>1, <1>2, <1>3, <1>4 DEF Idle
  <2> DEFINE wc == e.windowCount + 1
  <2>2. f = [e EXCEPT !.windowCount = wc, !.lastEmitted = now]
    BY <1>4 DEF Decided
  <2>3. wc \in Nat /\ wc <= WindowMax
    BY <1>1, <1>2, <1>3, <1>4
  <2> HIDE DEF f
  <2>4. /\ f \in Entry
        /\ f.windowStart = e.windowStart /\ f.windowCount = wc
        /\ f.lastEmitted = now /\ f.backoffSteps = e.backoffSteps
        /\ f.burstStart = e.burstStart /\ f.suppressed = e.suppressed
    <3> HIDE DEF wc
    <3> QED
      BY <1>1, <2>2, <2>3 DEF Entry
  <2>5. EntryOK(f) /\ Idle(f)
    BY <1>1, <2>1, <2>3, <2>4 DEF EntryOK, Idle
  <2>6. QED
    BY <1>1, <1>3, <1>4, <2>4, <2>5 DEF f
<1>5. CASE ~Passes(e)
  <2> DEFINE steps == IF e.windowCount >= WindowMax /\ e.backoffSteps = 0
                      THEN 1 ELSE e.backoffSteps
             last  == IF BurstTriggered(e) THEN now ELSE e.lastEmitted
             sup   == e.suppressed + 1
  <2>1. f = [e EXCEPT !.suppressed = sup, !.backoffSteps = steps,
                      !.lastEmitted = last]
    BY <1>5 DEF Decided
  <2>2. steps \in Nat /\ steps <= 1 /\ last \in Int /\ last <= now /\ sup \in Nat
    BY <1>1 DEF Idle
  <2>3. e.windowCount >= WindowMax
    BY <1>1, <1>2, <1>3, <1>5
  <2> HIDE DEF f, steps, last, sup
  <2>4. /\ f \in Entry
        /\ f.windowStart = e.windowStart /\ f.windowCount = e.windowCount
        /\ f.lastEmitted = last /\ f.backoffSteps = steps
        /\ f.burstStart = e.burstStart /\ f.suppressed = sup
    BY <1>1, <2>1, <2>2 DEF Entry
  <2>5. EntryOK(f) /\ Idle(f)
    BY <2>2, <2>3, <2>4 DEF EntryOK, Idle
  <2>6. QED
    BY <1>1, <1>3, <1>5, <2>4, <2>5 DEF f, sup
<1>6. QED
  BY <1>4, <1>5

(* What a call of check does to the map: some keys are kept, each with its *)
(* entry, and the key asked about gets its decided entry.  When there was  *)
(* no room, one key was dropped.                                           *)
LEMMA CheckEffect ==
  ASSUME TypeOK, NEW k \in Key, NEW sev \in Severity, Check(k, sev)
  PROVE  \E kept \in SUBSET DOMAIN state :
           /\ state' = [x \in kept \cup {k} |->
                          IF x = k THEN Decided(Arrived(k, sev)) ELSE state[x]]
           /\ \/ kept = DOMAIN state /\ ~MustEvict(k)
              \/ MustEvict(k) /\ \E v \in DOMAIN state : kept = DOMAIN state \ {v}
<1>1. PICK kept \in KeptFor(k) :
        state' = [x \in kept \cup {k} |->
                    IF x = k THEN Decided(Arrived(k, sev)) ELSE state[x]]
  BY DEF Check
<1>2. CASE MustEvict(k)
  <2>1. PICK v \in Victims : kept = DOMAIN state \ {v}
    BY <1>1, <1>2 DEF KeptFor
  <2>2. v \in DOMAIN state
    BY DEF Victims
  <2>3. QED
    BY <1>1, <1>2, <2>1, <2>2
<1>3. CASE ~MustEvict(k)
  BY <1>1, <1>3 DEF KeptFor
<1>4. QED
  BY <1>2, <1>3

-----------------------------------------------------------------------------
LEMMA InitIInv == Init => IInv
<1> SUFFICES ASSUME Init PROVE IInv
  OBVIOUS
<1>1. DOMAIN state = {}
  BY DEF Init
<1>2. TypeOK
  BY <1>1, RateLimiterAssumption DEF Init, TypeOK, Decision
<1>3. KeyCap
  BY <1>1, FS_EmptySet, RateLimiterAssumption DEF KeyCap, RateLimiterAssumption
<1>4. BackoffFollowsWindow
  BY <1>1 DEF BackoffFollowsWindow
<1>5. QED
  BY <1>2, <1>3, <1>4 DEF IInv

(* A call of check keeps the invariant.                                    *)
LEMMA CheckIInv ==
  ASSUME IInv, NEW k \in Key, NEW sev \in Severity, Check(k, sev)
  PROVE  IInv'
<1> USE DEF IInv
<1> DEFINE e == Decided(Arrived(k, sev))
<1>1. now \in Nat /\ now' = now
  BY DEF TypeOK, Check
<1>2. EntryOK(Arrived(k, sev)) /\ Idle(Arrived(k, sev))
  BY Arrival
<1>3. EntryOK(e) /\ Idle(e)
  BY <1>1, <1>2, Settling
<1>4. PICK kept \in SUBSET DOMAIN state :
        /\ state' = [x \in kept \cup {k} |-> IF x = k THEN e ELSE state[x]]
        /\ \/ kept = DOMAIN state /\ ~MustEvict(k)
           \/ MustEvict(k) /\ \E v \in DOMAIN state : kept = DOMAIN state \ {v}
  BY CheckEffect
<1> HIDE DEF e
<1>5. DOMAIN state' = kept \cup {k}
  BY <1>4
<1>6. \A x \in DOMAIN state' : EntryOK(state'[x]) /\ Idle(state'[x])
  BY <1>3, <1>4, <1>5 DEF TypeOK, BackoffFollowsWindow, Idle
<1>7. TypeOK'
  <2>1. DOMAIN state' \subseteq Key
    BY <1>5 DEF TypeOK
  <2>2. state' = [x \in DOMAIN state' |-> state'[x]]
    BY <1>4, <1>5
  <2>3. decision' \in Decision /\ allowed' \in BOOLEAN /\ load' \in Nat
    BY DEF Check, Verdict, Decision, Passes, TypeOK
  <2>4. \A x \in DOMAIN state' : EntryOK(state[x])'
    BY <1>1, <1>6 DEF EntryOK
  <2>5. QED
    BY <1>1, <2>1, <2>2, <2>3, <2>4 DEF TypeOK
<1>8. KeyCap'
  <2> DEFINE D == DOMAIN state
  <2>1. IsFiniteSet(D) /\ Cardinality(D) \in Nat
    BY FS_CardinalityType DEF KeyCap
  <2>2. CASE k \in D
    <3>1. kept = D
      BY <2>2, <1>4 DEF MustEvict
    <3>2. DOMAIN state' = D
      BY <2>2, <3>1, <1>5
    <3>3. QED
      BY <3>2 DEF KeyCap
  <2>3. CASE k \notin D /\ kept = D /\ ~MustEvict(k)
    <3>1. DOMAIN state' = D \cup {k}
      BY <2>3, <1>5
    <3>2. IsFiniteSet(DOMAIN state') /\ Cardinality(DOMAIN state') = Cardinality(D) + 1
      BY <2>1, <2>3, <3>1, FS_AddElement
    <3>3. Cardinality(D) < KeysMax \/ D = {}
      <4>1. D # {} => ~(Cardinality(D) >= KeysMax)
        BY <2>3 DEF MustEvict
      <4>2. Cardinality(D) \in Nat /\ KeysMax \in Nat
        BY <2>1, RateLimiterAssumption DEF RateLimiterAssumption
      <4> HIDE DEF D
      <4>3. QED
        BY <4>1, <4>2
    <3>4. D = {} => Cardinality(D) = 0
      BY FS_EmptySet
    <3>5. QED
      BY <2>1, <3>2, <3>3, <3>4, RateLimiterAssumption
         DEF KeyCap, RateLimiterAssumption
  <2>4. CASE k \notin D /\ \E v \in D : kept = D \ {v}
    <3>1. PICK v \in D : kept = D \ {v}
      BY <2>4
    <3>2. IsFiniteSet(kept) /\ Cardinality(kept) = Cardinality(D) - 1
      BY <2>1, <3>1, FS_RemoveElement
    <3>3. k \notin kept
      BY <2>4, <3>1
    <3>4. IsFiniteSet(kept \cup {k}) /\ Cardinality(kept \cup {k}) = Cardinality(kept) + 1
      BY <3>2, <3>3, FS_AddElement
    <3>5. QED
      BY <1>5, <2>1, <3>2, <3>4 DEF KeyCap
  <2>5. QED
    BY <1>4, <2>2, <2>3, <2>4
<1>9. BackoffFollowsWindow'
  BY <1>6 DEF BackoffFollowsWindow, Idle
<1>10. QED
  BY <1>7, <1>8, <1>9

LEMMA DrainIInv ==
  ASSUME IInv, Drain
  PROVE  IInv'
<1> USE DEF IInv, Drain
<1>1. DOMAIN state' = DOMAIN state
  OBVIOUS
<1>2. \A k \in DOMAIN state' :
        state'[k] = [state[k] EXCEPT !.suppressed = 0]
  OBVIOUS
<1>3. TypeOK'
  BY <1>1, <1>2 DEF TypeOK, EntryOK, Entry
<1>4. KeyCap'
  BY <1>1 DEF KeyCap
<1>5. BackoffFollowsWindow'
  BY <1>1, <1>2 DEF BackoffFollowsWindow, TypeOK, EntryOK, Entry
<1>6. QED
  BY <1>3, <1>4, <1>5

LEMMA TickIInv ==
  ASSUME IInv, Tick
  PROVE  IInv'
<1> USE DEF IInv, Tick
<1>1. TypeOK'
  BY RateLimiterAssumption DEF TypeOK, EntryOK, Entry, RateLimiterAssumption
<1>2. KeyCap' /\ BackoffFollowsWindow'
  BY DEF KeyCap, BackoffFollowsWindow
<1>3. QED
  BY <1>1, <1>2

LEMMA StepIInv == IInv /\ [Next]_vars => IInv'
<1> SUFFICES ASSUME IInv, [Next]_vars PROVE IInv'
  OBVIOUS
<1>1. ASSUME NEW k \in Key, NEW sev \in Severity, Check(k, sev) PROVE IInv'
  BY <1>1, CheckIInv
<1>2. CASE Drain
  BY <1>2, DrainIInv
<1>3. CASE Tick
  BY <1>3, TickIInv
<1>4. CASE UNCHANGED vars
  BY <1>4 DEF vars, IInv, TypeOK, EntryOK, KeyCap, BackoffFollowsWindow
<1>5. QED
  BY <1>1, <1>2, <1>3, <1>4 DEF Next

(* The strengthened invariant of the limiter holds in every state of it.   *)
THEOREM Invariance == Spec => []IInv
<1>1. QED
  BY InitIInv, StepIInv, PTL DEF Spec

(* dedup.rs:134-230: every counter keeps its type, no window counts past   *)
(* window_max and no instant lies in the future, under any configuration.  *)
THEOREM TypeCorrect == Spec => []TypeOK
<1>1. IInv => TypeOK
  BY DEF IInv
<1>2. QED
  BY <1>1, Invariance, PTL

(* dedup.rs:51-55: the map holds at most keys_max entries whatever keys    *)
(* arrive (and one if keys_max is zero).                                   *)
THEOREM MapIsCapped == Spec => []KeyCap
<1>1. IInv => KeyCap
  BY DEF IInv
<1>2. QED
  BY <1>1, Invariance, PTL

(* dedup.rs:191-200, 217: the backoff never gets past its first step and   *)
(* is only ever on while the window is full, so no configuration makes it  *)
(* double.                                                                 *)
THEOREM BackoffIsIdle == Spec => []BackoffFollowsWindow
<1>1. IInv => BackoffFollowsWindow
  BY DEF IInv
<1>2. QED
  BY <1>1, Invariance, PTL

(* dedup.rs:51-53: an entry that is evicted leaves behind at least         *)
(* SampleK - 1, or all, that were emitted no earlier.                      *)
THEOREM SampledEviction == Spec => FreshestSurvive
<1> DEFINE Fresher(v) == {w \in DOMAIN state \ {v} : state[w].lastEmitted >= state[v].lastEmitted}
           Fair == \A v \in DOMAIN state \ DOMAIN state' :
                     Cardinality(Fresher(v)) >= SampleSize - 1
<1>1. ASSUME IInv, NEW k \in Key, NEW sev \in Severity, Check(k, sev),
             NEW v \in DOMAIN state \ DOMAIN state'
      PROVE  Cardinality(Fresher(v)) >= SampleSize - 1
  <2>1. PICK kept \in KeptFor(k) :
          state' = [x \in kept \cup {k} |->
                      IF x = k THEN Decided(Arrived(k, sev)) ELSE state[x]]
    BY <1>1 DEF Check
  <2>2. v \notin kept
    BY <1>1, <2>1
  <2>3. PICK u \in Victims : kept = DOMAIN state \ {u}
    BY <1>1, <2>2 DEF KeptFor
  <2>4. v \in Victims
    BY <1>1, <2>2, <2>3
  <2>5. PICK S \in SUBSET DOMAIN state :
          /\ Cardinality(S) = SampleSize
          /\ v \in S
          /\ \A w \in S : state[v].lastEmitted <= state[w].lastEmitted
    BY <2>4 DEF Victims
  <2>6. IsFiniteSet(DOMAIN state)
    BY <1>1 DEF IInv, KeyCap
  <2>7. IsFiniteSet(S) /\ IsFiniteSet(S \ {v}) /\ Cardinality(S \ {v}) = Cardinality(S) - 1
    BY <2>5, <2>6, FS_Subset, FS_RemoveElement
  <2>8. S \ {v} \subseteq Fresher(v)
    <3>1. \A w \in DOMAIN state : state[w].lastEmitted \in Int
      BY <1>1 DEF IInv, TypeOK, EntryOK, Entry
    <3>2. QED
      BY <1>1, <2>5, <3>1
  <2>9. IsFiniteSet(Fresher(v))
    BY <2>6, FS_Subset
  <2> HIDE DEF Fresher
  <2>10. Cardinality(S \ {v}) <= Cardinality(Fresher(v))
    BY <2>8, <2>9, FS_Subset
  <2>11. QED
    BY <2>5, <2>7, <2>10
<1>2. IInv /\ [Next]_vars => [Fair]_vars
  <2> SUFFICES ASSUME IInv, Next, NEW v \in DOMAIN state \ DOMAIN state'
               PROVE  Cardinality(Fresher(v)) >= SampleSize - 1
    BY DEF vars
  <2> HIDE DEF Fresher
  <2>1. CASE Drain \/ Tick
    BY <2>1 DEF Drain, Tick
  <2>2. QED
    BY <1>1, <2>1 DEF Next
<1>3. QED
  BY <1>2, Invariance, PTL DEF Spec, FreshestSurvive

(* dedup.rs:203: the backoff gap never decides; the window alone does.     *)
THEOREM WindowAloneDecides == Spec => HeldBackOnlyWhenFull
<1>1. ASSUME IInv, NEW k \in Key, NEW sev \in Severity, Check(k, sev)
      PROVE  allowed' = (Arrived(k, sev).windowCount < WindowMax)
  <2>1. now \in Nat
    BY <1>1 DEF IInv, TypeOK
  <2>2. EntryOK(Arrived(k, sev)) /\ Idle(Arrived(k, sev))
    BY <1>1, Arrival DEF IInv
  <2>3. Passes(Arrived(k, sev)) <=> Arrived(k, sev).windowCount < WindowMax
    BY <2>1, <2>2, Settling
  <2>4. allowed' = Passes(Arrived(k, sev))
    BY <1>1 DEF Check
  <2>5. Passes(Arrived(k, sev)) \in BOOLEAN
    BY DEF Passes
  <2>6. QED
    BY <2>3, <2>4, <2>5
<1>2. IInv /\ [Next]_vars
        => [\A k \in Key, sev \in Severity :
              Check(k, sev) => allowed' = (Arrived(k, sev).windowCount < WindowMax)]_vars
  BY <1>1
<1>3. QED
  BY <1>2, Invariance, PTL DEF Spec, HeldBackOnlyWhenFull

-----------------------------------------------------------------------------
(* The refinement: a step of the limiter is a step of WindowLimiter.       *)

LEMMA InitPlain == Init => Plain!WInit
  BY DEF Init, Plain!WInit

(* check is a request of the plain limiter; the keys it keeps are the      *)
(* other keys that survive the eviction.                                   *)
LEMMA CheckPlain ==
  ASSUME IInv, NEW k \in Key, NEW sev \in Severity, Check(k, sev)
  PROVE  Plain!Request(k)
<1> DEFINE a   == Arrived(k, sev)
           cur == IF k \in DOMAIN state /\ now - state[k].windowStart < Window
                  THEN [start |-> state[k].windowStart,
                        count |-> state[k].windowCount]
                  ELSE [start |-> now, count |-> 0]
           pwin == [x \in DOMAIN state |-> [start |-> state[x].windowStart,
                                           count |-> state[x].windowCount]]
<1>1. TypeOK /\ BackoffFollowsWindow /\ now \in Nat
  BY DEF IInv, TypeOK
<1>2. /\ EntryOK(a) /\ Idle(a)
      /\ cur = [start |-> a.windowStart, count |-> a.windowCount]
  BY <1>1, Arrival
<1> HIDE DEF a, cur
<1>3. /\ Passes(a) <=> cur.count < WindowMax
      /\ Decided(a).windowStart = cur.start
      /\ Decided(a).windowCount = IF cur.count < WindowMax
                                  THEN cur.count + 1 ELSE cur.count
  BY <1>1, <1>2, Settling
<1>4. Plain!Current(k) = cur
  BY DEF Plain!Current, cur
<1>5. PICK kept \in SUBSET DOMAIN state :
        state' = [x \in kept \cup {k} |-> IF x = k THEN Decided(a) ELSE state[x]]
  BY <1>1, CheckEffect DEF a
<1>6. allowed' = (cur.count < WindowMax)
  <2>1. allowed' = Passes(a)
    BY DEF Check, a
  <2>2. Passes(a) \in BOOLEAN
    BY DEF Passes
  <2>3. QED
    BY <1>3, <2>1, <2>2
<1>7. now' = now
  BY DEF Check
<1> DEFINE others == kept \ {k}
           next   == IF cur.count < WindowMax
                     THEN [cur EXCEPT !.count = @ + 1] ELSE cur
<1>8. others \in SUBSET (DOMAIN pwin \ {k}) /\ others \cup {k} = kept \cup {k}
  OBVIOUS
<1>9. next = [start |-> Decided(a).windowStart, count |-> Decided(a).windowCount]
  BY <1>2, <1>3
<1>10. [x \in DOMAIN state' |-> [start |-> state'[x].windowStart,
                                count |-> state'[x].windowCount]]
        = [x \in others \cup {k} |-> IF x # k THEN pwin[x] ELSE next]
  <2> HIDE DEF next
  <2>1. DOMAIN state' = others \cup {k}
    BY <1>5
  <2>2. \A x \in DOMAIN state' :
          [start |-> state'[x].windowStart, count |-> state'[x].windowCount]
            = IF x # k THEN pwin[x] ELSE next
    BY <1>5, <1>9
  <2>3. QED
    BY <2>1, <2>2
<1>11. QED
  <2> HIDE DEF others
  <2>1. [x \in DOMAIN state' |-> [start |-> state'[x].windowStart,
                                 count |-> state'[x].windowCount]]
         = [x \in others \cup {k} |->
              IF x # k THEN pwin[x]
              ELSE IF Plain!Current(k).count < WindowMax
                   THEN [Plain!Current(k) EXCEPT !.count = @ + 1]
                   ELSE Plain!Current(k)]
    BY <1>4, <1>10
  <2>2. QED
    BY <1>4, <1>6, <1>7, <1>8, <2>1 DEF Plain!Request

(* drain_suppressed and the passage of a tick leave the windows alone.     *)
LEMMA StepPlain == IInv /\ [Next]_vars => [Plain!WNext]_(Plain!wvars)
<1> SUFFICES ASSUME IInv, [Next]_vars PROVE [Plain!WNext]_(Plain!wvars)
  OBVIOUS
<1>1. ASSUME NEW k \in Key, NEW sev \in Severity, Check(k, sev)
      PROVE  Plain!WNext
  BY <1>1, CheckPlain DEF Plain!WNext
<1>2. ASSUME Drain PROVE UNCHANGED Plain!wvars
  <2>1. DOMAIN state' = DOMAIN state
    BY <1>2 DEF Drain
  <2>2. \A k \in DOMAIN state :
          /\ state'[k].windowStart = state[k].windowStart
          /\ state'[k].windowCount = state[k].windowCount
    BY <1>2 DEF Drain, IInv, TypeOK, EntryOK, Entry
  <2>3. QED
    BY <1>2, <2>1, <2>2 DEF Drain, Plain!wvars
<1>3. ASSUME Tick PROVE Plain!Advance
  BY <1>3 DEF Tick, Plain!Advance, IInv, TypeOK
<1>4. CASE UNCHANGED vars
  BY <1>4 DEF vars, Plain!wvars
<1>5. QED
  BY <1>1, <1>2, <1>3, <1>4 DEF Next, Plain!WNext

(* Every call of check decides, and every window evolves, as in the plain  *)
(* fixed-window limiter: burst detection, backoff, eviction and draining   *)
(* add nothing to who is let pass except that evicted keys start afresh.   *)
THEOREM Refinement == Spec => ImplementsWindowLimiter
<1>1. QED
  BY InitPlain, StepPlain, Invariance, PTL
     DEF Spec, ImplementsWindowLimiter, Plain!WSpec

-----------------------------------------------------------------------------
(* The hourly drains.                                                      *)

Held(k) == IF k \in DOMAIN state THEN state[k].suppressed ELSE 0

HIInv ==
  /\ IInv
  /\ heldBack \in [Key -> Nat] /\ reported \in [Key -> Nat]
  /\ HeldBackIsAccounted

LEMMA HCheckHIInv ==
  ASSUME HIInv, NEW k \in Key, NEW sev \in Severity, HCheck(k, sev)
  PROVE  HIInv'
<1> DEFINE a == Arrived(k, sev)
           e == Decided(a)
<1>1. TypeOK /\ BackoffFollowsWindow /\ now \in Nat /\ Check(k, sev)
  BY DEF HIInv, IInv, TypeOK, HCheck
<1>2. IInv'
  BY <1>1, CheckIInv DEF HIInv
<1>3. PICK kept \in SUBSET DOMAIN state :
        /\ state' = [x \in kept \cup {k} |-> IF x = k THEN e ELSE state[x]]
        /\ \/ kept = DOMAIN state /\ ~MustEvict(k)
           \/ MustEvict(k) /\ \E v \in DOMAIN state : kept = DOMAIN state \ {v}
  BY <1>1, CheckEffect
<1>4. EntryOK(a) /\ Idle(a) /\ a.suppressed = Held(k)
  BY <1>1, Arrival DEF Held
<1> HIDE DEF a
<1>5. e.suppressed = Held(k) + (IF allowed' THEN 0 ELSE 1)
  BY <1>1, <1>4, Settling DEF Check, a
<1>6. /\ reported' = reported
      /\ heldBack' = [heldBack EXCEPT ![k] = IF allowed' THEN heldBack[k] ELSE heldBack[k] + 1]
      /\ evicted' = evicted \cup (DOMAIN state \ DOMAIN state')
  BY DEF HCheck
<1> HIDE DEF e
<1>7. heldBack' \in [Key -> Nat] /\ reported' \in [Key -> Nat]
  BY <1>6 DEF HIInv
<1>8. ASSUME NEW x \in Key
      PROVE  /\ reported'[x] + Held(x)' <= heldBack'[x]
             /\ x \notin evicted' => reported'[x] + Held(x)' = heldBack'[x]
  <2>1. /\ reported[x] + Held(x) <= heldBack[x]
        /\ x \notin evicted => reported[x] + Held(x) = heldBack[x]
    BY DEF HIInv, HeldBackIsAccounted, Held
  <2>2. Held(x) \in Nat /\ reported[x] \in Nat /\ heldBack[x] \in Nat
    <3>1. x \in DOMAIN state => state[x].suppressed \in Nat
      BY <1>1 DEF TypeOK, EntryOK, Entry
    <3>2. QED
      BY <3>1 DEF Held, HIInv
  <2>3. CASE x = k
    <3>1. Held(x)' = e.suppressed
      BY <1>3, <2>3 DEF Held
    <3>2. heldBack'[x] = heldBack[x] + (IF allowed' THEN 0 ELSE 1)
      BY <1>6, <2>2, <2>3 DEF HIInv
    <3>3. x \notin evicted' => x \notin evicted
      BY <1>6
    <3>4. QED
      BY <1>5, <1>6, <2>1, <2>2, <2>3, <3>1, <3>2, <3>3
  <2>4. CASE x # k
    <3>1. heldBack'[x] = heldBack[x] /\ reported'[x] = reported[x]
      BY <1>6, <2>4 DEF HIInv
    <3>2. CASE x \in DOMAIN state /\ x \notin kept
      <4>1. x \in evicted' /\ Held(x)' = 0
        BY <1>3, <1>6, <2>4, <3>2 DEF Held
      <4>2. QED
        BY <2>1, <2>2, <3>1, <4>1
    <3>3. CASE x \notin DOMAIN state \/ x \in kept
      <4>1. Held(x)' = Held(x)
        BY <1>3, <2>4, <3>3 DEF Held
      <4>2. x \notin evicted' => x \notin evicted
        BY <1>6
      <4>3. QED
        BY <2>1, <3>1, <4>1, <4>2
    <3>4. QED
      BY <3>2, <3>3
  <2>5. QED
    BY <2>3, <2>4
<1>9. HeldBackIsAccounted'
  BY <1>8 DEF HeldBackIsAccounted, Held
<1>10. QED
  BY <1>2, <1>7, <1>9 DEF HIInv

LEMMA HDrainHIInv ==
  ASSUME HIInv, HDrain
  PROVE  HIInv'
<1>1. IInv'
  BY DrainIInv DEF HIInv, HDrain
<1>2. /\ drained' = {<<k, state[k].suppressed, state[k].severitySeen>> :
                       k \in {x \in DOMAIN state : state[x].suppressed > 0}}
      /\ state' = [k \in DOMAIN state |-> [state[k] EXCEPT !.suppressed = 0]]
      /\ reported' = [k \in Key |-> reported[k] + ReportedOf(k)]
      /\ UNCHANGED <<heldBack, evicted>>
  BY DEF HDrain, Drain
<1>3. \A k \in DOMAIN state : state[k] \in Entry /\ state[k].suppressed \in Nat
  BY DEF HIInv, IInv, TypeOK, EntryOK, Entry
<1>4. ASSUME NEW k \in Key
      PROVE  ReportedOf(k) = Held(k) /\ Held(k)' = 0 /\ Held(k) \in Nat
  <2> DEFINE of == {d \in drained' : d[1] = k}
             record == <<k, state[k].suppressed, state[k].severitySeen>>
  <2>1. Held(k)' = 0 /\ Held(k) \in Nat
    <3>1. k \in DOMAIN state => state'[k].suppressed = 0
      BY <1>2, <1>3 DEF Entry
    <3>2. DOMAIN state' = DOMAIN state
      BY <1>2
    <3>3. QED
      BY <1>3, <3>1, <3>2 DEF Held
  <2>2. CASE k \in DOMAIN state /\ state[k].suppressed > 0
    <3>1. of = {record}
      BY <1>2, <2>2
    <3> HIDE DEF of
    <3>2. (CHOOSE d \in of : TRUE) = record /\ of # {}
      BY <3>1
    <3>3. ReportedOf(k) = record[2]
      BY <3>2 DEF ReportedOf, of
    <3>4. QED
      BY <2>1, <2>2, <3>3 DEF Held
  <2>3. CASE ~(k \in DOMAIN state /\ state[k].suppressed > 0)
    <3>1. of = {}
      BY <1>2, <2>3
    <3>2. ReportedOf(k) = 0
      BY <3>1 DEF ReportedOf
    <3>3. Held(k) = 0
      BY <1>3, <2>3 DEF Held
    <3>4. QED
      BY <2>1, <3>2, <3>3
  <2>4. QED
    BY <2>2, <2>3
<1>5. heldBack' \in [Key -> Nat] /\ reported' \in [Key -> Nat]
  BY <1>2, <1>4 DEF HIInv
<1>6. ASSUME NEW k \in Key
      PROVE  /\ reported'[k] + Held(k)' <= heldBack'[k]
             /\ k \notin evicted' => reported'[k] + Held(k)' = heldBack'[k]
  <2>1. reported[k] \in Nat /\ heldBack[k] \in Nat
    BY DEF HIInv
  <2>2. reported'[k] = reported[k] + Held(k)
    BY <1>2, <1>4
  <2>3. /\ reported[k] + Held(k) <= heldBack[k]
        /\ k \notin evicted => reported[k] + Held(k) = heldBack[k]
    BY DEF HIInv, HeldBackIsAccounted, Held
  <2>4. QED
    BY <1>2, <1>4, <2>1, <2>2, <2>3
<1>7. HeldBackIsAccounted'
  BY <1>6 DEF HeldBackIsAccounted, Held
<1>8. QED
  BY <1>1, <1>5, <1>7 DEF HIInv

(* dedup.rs:215, 234-243: with keys coming and going at the cap and drains *)
(* at any moment, what is held back is reported once, or still to be, or   *)
(* lost with the entry of a key that was evicted.                          *)
THEOREM DrainsAccount == HSpec => []HeldBackIsAccounted
<1>1. HInit => HIInv
  <2> SUFFICES ASSUME HInit PROVE HIInv
    OBVIOUS
  <2>1. IInv /\ DOMAIN state = {}
    BY InitIInv DEF HInit, Init
  <2>2. heldBack = [k \in Key |-> 0] /\ reported = heldBack
    BY DEF HInit
  <2>3. QED
    BY <2>1, <2>2 DEF HIInv, HeldBackIsAccounted
<1>2. HIInv /\ [HNext]_hvars => HIInv'
  <2> SUFFICES ASSUME HIInv, [HNext]_hvars PROVE HIInv'
    OBVIOUS
  <2>1. ASSUME NEW k \in Key, NEW sev \in Severity, HCheck(k, sev) PROVE HIInv'
    BY <2>1, HCheckHIInv
  <2>2. CASE HDrain
    BY <2>2, HDrainHIInv
  <2>3. CASE HTick \/ UNCHANGED hvars
    <3>1. IInv'
      BY <2>3, StepIInv DEF HTick, hvars, HIInv, Next
    <3>2. UNCHANGED <<state, heldBack, reported, evicted>>
      BY <2>3 DEF HTick, Tick, hvars, vars
    <3>3. QED
      BY <3>1, <3>2 DEF HIInv, HeldBackIsAccounted
  <2>4. QED
    BY <2>1, <2>2, <2>3 DEF HNext
<1>3. HIInv => HeldBackIsAccounted
  BY DEF HIInv
<1>4. QED
  BY <1>1, <1>2, <1>3, PTL DEF HSpec
-----------------------------------------------------------------------------
(* The histories.  What an entry says of its key is what the history says: *)
(* the window and the burst window hold what came in since they opened,    *)
(* nothing comes in between their end and the event that rolls them, and   *)
(* what has to be remembered of the windows before them is how much of     *)
(* them a span that reaches into the present one may still see.            *)

(* f counts up to each tick, and n is the present one.                     *)
Cumulative(f, n) ==
  /\ f \in [0..MaxTime -> Nat]
  /\ \A s, t \in 0..MaxTime : s <= t => f[s] <= f[t]
  /\ \A t \in 0..MaxTime : t >= n => f[t] = f[n]

(* f: the passed events of the key.                                        *)
WindowKept(f, ws, wc, n) ==
  /\ ws \in 0..n /\ wc \in 0..WindowMax
  /\ f[n] - Upto(f, ws - 1) = wc
  /\ \A t \in 0..MaxTime : t >= ws + Window - 1 => f[t] = f[n]
  /\ WindowMax > 0 =>
       /\ f[ws] > Upto(f, ws - 1)
       /\ Upto(f, ws - 1) - Upto(f, ws - Window) < WindowMax

(* f: the calls of check for the key; g: its bursts.                       *)
BurstKept(f, g, bs, bc, n) ==
  /\ bs \in 0..n /\ bc \in Nat
  /\ f[n] - Upto(f, bs - 1) = bc
  /\ \A t \in 0..MaxTime :
       t >= bs + BurstWindow - 1 => f[t] = f[n] /\ g[t] = g[n]
  /\ BurstThreshold > 0 =>
       /\ bc >= BurstThreshold => g[n] > Upto(g, bs - 1)
       /\ \A a \in bs - BurstWindow + 1 .. bs :
            Upto(f, bs - 1) - Upto(f, a - 1) >= BurstThreshold
              => Upto(g, bs - 1) > Upto(g, a - BurstWindow)

Silent == [t \in 0..MaxTime |-> 0]

RecordsKept ==
  \A k \in Key \ evicted :
    /\ Cumulative(passes[k], now) /\ Cumulative(arrivals[k], now)
    /\ Cumulative(bursts[k], now)
    /\ IF k \in DOMAIN state
       THEN /\ WindowKept(passes[k], state[k].windowStart, state[k].windowCount, now)
            /\ BurstKept(arrivals[k], bursts[k], state[k].burstStart,
                         state[k].burstCount, now)
       ELSE arrivals[k] = Silent /\ passes[k] = Silent /\ bursts[k] = Silent

LEMMA UptoMono ==
  ASSUME NEW n \in 0..MaxTime, NEW f, Cumulative(f, n),
         NEW s \in Int, NEW t \in Int, s <= t, t <= MaxTime
  PROVE  /\ Upto(f, s) \in Nat /\ Upto(f, t) \in Nat
         /\ Upto(f, s) <= Upto(f, t)
<1>1. MaxTime \in Nat
  BY RateLimiterAssumption DEF RateLimiterAssumption
<1>2. \A u \in 0..MaxTime : f[u] \in Nat
  BY DEF Cumulative
<1>3. CASE s < 0
  BY <1>1, <1>2, <1>3 DEF Upto
<1>4. CASE s >= 0
  BY <1>1, <1>2, <1>4 DEF Upto, Cumulative
<1>5. QED
  BY <1>3, <1>4

(* From the present tick on nothing is counted.                            *)
LEMMA UptoFlat ==
  ASSUME NEW n \in 0..MaxTime, NEW f, Cumulative(f, n),
         NEW t \in Int, n <= t, t <= MaxTime
  PROVE  Upto(f, t) = f[n] /\ Upto(f, n) = f[n] /\ f[n] \in Nat
  BY RateLimiterAssumption DEF Upto, Cumulative, RateLimiterAssumption

(* A span that ends now, of a key whose entry is kept.                     *)
LEMMA SpanOfWindow ==
  ASSUME NEW n \in 0..MaxTime, NEW f, Cumulative(f, n), NEW ws, NEW wc,
         WindowKept(f, ws, wc, n), WindowMax > 0
  PROVE  Upto(f, n) - Upto(f, n - Window) < 2 * WindowMax
<1> DEFINE U(t) == Upto(f, t)
<1>1. MaxTime \in Nat /\ Window \in Nat \ {0} /\ WindowMax \in Nat
  BY RateLimiterAssumption DEF RateLimiterAssumption
<1>2. /\ ws \in 0..n /\ wc \in 0..WindowMax
      /\ U(n) - U(ws - 1) = wc /\ U(n) = f[n]
      /\ U(ws) = f[ws] /\ U(ws) > U(ws - 1)
      /\ U(ws - 1) - U(ws - Window) < WindowMax
  BY <1>1 DEF WindowKept, Upto
<1>3. /\ U(n) \in Nat /\ U(ws) \in Nat /\ U(ws - 1) \in Nat
      /\ U(ws - Window) \in Nat /\ U(n - Window) \in Nat
  BY <1>1, <1>2, UptoMono
<1>4. n \in Nat /\ ws \in Nat /\ wc \in Nat /\ wc <= WindowMax /\ ws <= n
      /\ n <= MaxTime
  BY <1>1, <1>2
<1>5. CASE n < ws + Window
  <2>1. U(ws - Window) <= U(n - Window)
    BY <1>1, <1>4, UptoMono
  <2> HIDE DEF U
  <2>2. QED
    BY <1>1, <1>2, <1>3, <1>4, <2>1 DEF U
<1>6. CASE n >= ws + Window
  <2>1. U(ws) <= U(n - Window)
    BY <1>1, <1>4, <1>6, UptoMono
  <2>2. QED
    BY <1>1, <1>2, <1>3, <1>4, <2>1
<1>7. QED
  BY <1>1, <1>4, <1>5, <1>6

(* A flood that ends now, of a key whose entry is kept: it lies within the *)
(* present burst window, or the present one and the one before.            *)
LEMMA FloodOfBurst ==
  ASSUME NEW n \in 0..MaxTime, NEW f, Cumulative(f, n), NEW g, Cumulative(g, n),
         NEW bs, NEW bc, BurstKept(f, g, bs, bc, n), BurstThreshold > 0,
         Upto(f, n) - Upto(f, n - BurstWindow) >= 2 * BurstThreshold - 1
  PROVE  Upto(g, n) - Upto(g, n - 2 * BurstWindow + 1) > 0
<1> DEFINE T == BurstThreshold
           a == n - BurstWindow + 1
<1>1. MaxTime \in Nat /\ BurstWindow \in Nat \ {0} /\ T \in Nat
  BY RateLimiterAssumption DEF RateLimiterAssumption
<1>2. /\ bs \in 0..n /\ bc \in Nat
      /\ Upto(f, n) - Upto(f, bs - 1) = bc /\ Upto(f, n) = f[n]
      /\ Upto(g, n) = g[n]
      /\ bc >= T => Upto(g, n) > Upto(g, bs - 1)
  BY <1>1 DEF BurstKept, Upto
<1>3. n \in Nat /\ bs \in Nat /\ bs <= n /\ n <= MaxTime /\ a \in Int
  BY <1>1, <1>2
<1>4. /\ Upto(f, n) \in Nat /\ Upto(f, bs - 1) \in Nat /\ Upto(f, a - 1) \in Nat
      /\ Upto(g, n) \in Nat /\ Upto(g, bs - 1) \in Nat
      /\ Upto(g, a - BurstWindow) \in Nat
  BY <1>1, <1>3, UptoMono
<1>5. a - 1 = n - BurstWindow /\ a - BurstWindow = n - 2 * BurstWindow + 1
  BY <1>1, <1>3
<1>6. Upto(f, n) - Upto(f, a - 1) >= 2 * T - 1
  BY <1>5
<1>7. SUFFICES Upto(g, n) > Upto(g, a - BurstWindow)
  BY <1>4, <1>5
<1>8. ASSUME bc >= T, bs - 1 >= a - BurstWindow
      PROVE  Upto(g, n) > Upto(g, a - BurstWindow)
  <2>1. Upto(g, a - BurstWindow) <= Upto(g, bs - 1)
    BY <1>1, <1>3, <1>8, UptoMono
  <2>2. QED
    BY <1>2, <1>4, <1>8, <2>1
<1>9. CASE a > bs
  <2>1. Upto(f, bs - 1) <= Upto(f, a - 1)
    BY <1>1, <1>3, <1>9, UptoMono
  <2>2. bc >= T
    BY <1>1, <1>2, <1>4, <1>6, <2>1
  <2>3. a - 1 < bs + BurstWindow - 1
    <3>1. SUFFICES ASSUME a - 1 >= bs + BurstWindow - 1 PROVE FALSE
      BY <1>1, <1>3
    <3>2. a - 1 \in 0..MaxTime
      BY <1>1, <1>3, <3>1
    <3>3. f[a - 1] = f[n]
      BY <3>1, <3>2 DEF BurstKept
    <3>4. Upto(f, a - 1) = Upto(f, n)
      BY <1>2, <3>2, <3>3 DEF Upto
    <3>5. QED
      BY <1>1, <1>4, <1>6, <3>4
  <2>4. QED
    BY <1>1, <1>3, <1>8, <2>2, <2>3
<1>10. CASE a <= bs
  <2>1. bs - 1 >= a - BurstWindow
    BY <1>1, <1>3, <1>10
  <2>2. a \in bs - BurstWindow + 1 .. bs
    BY <1>1, <1>3, <1>10
  <2>3. Upto(f, bs - 1) - Upto(f, a - 1) >= T => Upto(g, bs - 1) > Upto(g, a - BurstWindow)
    BY <1>1, <2>2 DEF BurstKept
  <2>4. Upto(g, bs - 1) <= Upto(g, n)
    BY <1>1, <1>3, UptoMono
  <2>5. CASE bc >= T
    BY <1>8, <2>1, <2>5
  <2>6. CASE bc < T
    <3>1. Upto(f, bs - 1) - Upto(f, a - 1) >= T
      BY <1>1, <1>2, <1>4, <1>6, <2>6
    <3>2. QED
      BY <1>4, <2>3, <2>4, <3>1
  <2>7. QED
    BY <1>1, <1>2, <2>5, <2>6
<1>11. QED
  BY <1>1, <1>3, <1>9, <1>10
(* A tick passes: nothing was counted beyond the present.                  *)
LEMMA CumulativeLater ==
  ASSUME NEW n \in 0..MaxTime, n + 1 <= MaxTime, NEW f, Cumulative(f, n)
  PROVE  Cumulative(f, n + 1) /\ f[n + 1] = f[n]
  BY RateLimiterAssumption DEF Cumulative, RateLimiterAssumption

LEMMA WindowLater ==
  ASSUME NEW n \in 0..MaxTime, n + 1 <= MaxTime, NEW f, Cumulative(f, n),
         NEW ws, NEW wc, WindowKept(f, ws, wc, n)
  PROVE  WindowKept(f, ws, wc, n + 1)
<1>1. f[n + 1] = f[n] /\ MaxTime \in Nat
  BY CumulativeLater, RateLimiterAssumption DEF RateLimiterAssumption
<1>2. ws \in 0..n + 1
  BY <1>1 DEF WindowKept
<1>3. QED
  BY <1>1, <1>2 DEF WindowKept

LEMMA BurstLater ==
  ASSUME NEW n \in 0..MaxTime, n + 1 <= MaxTime, NEW f, Cumulative(f, n),
         NEW g, Cumulative(g, n), NEW bs, NEW bc, BurstKept(f, g, bs, bc, n)
  PROVE  BurstKept(f, g, bs, bc, n + 1)
<1>1. f[n + 1] = f[n] /\ g[n + 1] = g[n] /\ MaxTime \in Nat
  BY CumulativeLater, RateLimiterAssumption DEF RateLimiterAssumption
<1>2. bs \in 0..n + 1
  BY <1>1 DEF BurstKept
<1>3. QED
  BY <1>1, <1>2 DEF BurstKept

-----------------------------------------------------------------------------
(* One more event of a key now, if c: what CountedIf does to its history.  *)
More(f, c, n) ==
  [t \in 0..MaxTime |-> IF c /\ t >= n THEN f[t] + 1 ELSE f[t]]

LEMMA MoreCounts ==
  ASSUME NEW n \in 0..MaxTime, NEW f, Cumulative(f, n), NEW c \in BOOLEAN
  PROVE  /\ Cumulative(More(f, c, n), n)
         /\ More(f, c, n)[n] = f[n] + (IF c THEN 1 ELSE 0)
         /\ \A t \in Int : t < n => Upto(More(f, c, n), t) = Upto(f, t)
         /\ \A t \in 0..MaxTime : More(f, c, n)[t] >= f[t]
<1>1. MaxTime \in Nat
  BY RateLimiterAssumption DEF RateLimiterAssumption
<1>2. \A t \in 0..MaxTime : f[t] \in Nat
  BY DEF Cumulative
<1> DEFINE g == More(f, c, n)
<1>3. \A t \in 0..MaxTime : g[t] = IF c /\ t >= n THEN f[t] + 1 ELSE f[t]
  BY DEF More
<1>4. g \in [0..MaxTime -> Nat]
  BY <1>2 DEF More
<1> HIDE DEF g
<1>5. \A s, t \in 0..MaxTime : s <= t => g[s] <= g[t]
  BY <1>1, <1>2, <1>3 DEF Cumulative
<1>6. \A t \in 0..MaxTime : t >= n => g[t] = g[n]
  BY <1>1, <1>2, <1>3 DEF Cumulative
<1>7. Cumulative(g, n)
  BY <1>4, <1>5, <1>6 DEF Cumulative
<1>8. g[n] = f[n] + (IF c THEN 1 ELSE 0)
  BY <1>1, <1>2, <1>3
<1>9. \A t \in Int : t < n => Upto(g, t) = Upto(f, t)
  BY <1>1, <1>3 DEF Upto
<1>10. \A t \in 0..MaxTime : g[t] >= f[t]
  BY <1>1, <1>2, <1>3
<1>11. QED
  BY <1>7, <1>8, <1>9, <1>10 DEF g

(* An event in a window that is open.                                      *)
LEMMA WindowCounts ==
  ASSUME NEW n \in 0..MaxTime, NEW f, Cumulative(f, n), NEW c \in BOOLEAN,
         NEW ws, NEW wc, WindowKept(f, ws, wc, n), n - ws < Window,
         c <=> wc < WindowMax
  PROVE  WindowKept(More(f, c, n), ws, IF wc < WindowMax THEN wc + 1 ELSE wc, n)
<1> DEFINE g  == More(f, c, n)
           wd == IF wc < WindowMax THEN wc + 1 ELSE wc
<1>1. MaxTime \in Nat /\ Window \in Nat \ {0} /\ WindowMax \in Nat
  BY RateLimiterAssumption DEF RateLimiterAssumption
<1>2. /\ Cumulative(g, n) /\ g[n] = f[n] + (IF c THEN 1 ELSE 0)
      /\ \A t \in Int : t < n => Upto(g, t) = Upto(f, t)
      /\ \A t \in 0..MaxTime : g[t] >= f[t]
  BY MoreCounts
<1> HIDE DEF g
<1>3. /\ ws \in 0..n /\ wc \in 0..WindowMax /\ ws \in 0..MaxTime
      /\ f[n] - Upto(f, ws - 1) = wc
  BY <1>1 DEF WindowKept
<1>4. Upto(g, ws - 1) = Upto(f, ws - 1) /\ Upto(g, ws - Window) = Upto(f, ws - Window)
  BY <1>1, <1>2, <1>3
<1>5. Upto(f, ws - 1) \in Nat /\ f[n] \in Nat /\ f[ws] \in Nat /\ g[ws] \in Nat
  <2>1. f[n] \in Nat /\ f[ws] \in Nat /\ g[ws] \in Nat
    BY <1>2, <1>3 DEF Cumulative
  <2>2. Upto(f, ws - 1) \in Nat
    BY <1>1, <1>3, UptoMono
  <2>3. QED
    BY <2>1, <2>2
<1>6. wd \in 0..WindowMax /\ g[n] - Upto(g, ws - 1) = wd
  BY <1>1, <1>2, <1>3, <1>4, <1>5
<1>7. \A t \in 0..MaxTime : t >= ws + Window - 1 => g[t] = g[n]
  BY <1>1, <1>2, <1>3 DEF Cumulative
<1>8. WindowMax > 0 => g[ws] > Upto(g, ws - 1)
  BY <1>2, <1>3, <1>4, <1>5 DEF WindowKept
<1>9. WindowMax > 0 => Upto(g, ws - 1) - Upto(g, ws - Window) < WindowMax
  BY <1>4 DEF WindowKept
<1> HIDE DEF wd
<1>10. WindowKept(g, ws, wd, n)
  BY <1>3, <1>6, <1>7, <1>8, <1>9 DEF WindowKept
<1>11. QED
  BY <1>10 DEF g, wd

(* An event that opens a window, the key's first or after one that is over.*)
LEMMA WindowOpens ==
  ASSUME NEW n \in 0..MaxTime, NEW f, Cumulative(f, n), NEW c \in BOOLEAN,
         c <=> 0 < WindowMax,
         \/ f = Silent
         \/ \E ws, wc : WindowKept(f, ws, wc, n) /\ n - ws >= Window
  PROVE  WindowKept(More(f, c, n), n, IF 0 < WindowMax THEN 1 ELSE 0, n)
<1> DEFINE g  == More(f, c, n)
           wd == IF 0 < WindowMax THEN 1 ELSE 0
<1>1. MaxTime \in Nat /\ Window \in Nat \ {0} /\ WindowMax \in Nat /\ n \in Nat
  BY RateLimiterAssumption DEF RateLimiterAssumption
<1>2. /\ Cumulative(g, n) /\ g[n] = f[n] + (IF c THEN 1 ELSE 0)
      /\ \A t \in Int : t < n => Upto(g, t) = Upto(f, t)
  BY MoreCounts
<1> HIDE DEF g
<1>3. Upto(g, n - 1) = Upto(f, n - 1) /\ Upto(g, n - Window) = Upto(f, n - Window)
  BY <1>1, <1>2
<1>4. /\ Upto(f, n - 1) \in Nat /\ Upto(f, n - Window) \in Nat /\ f[n] \in Nat
      /\ Upto(f, n) = f[n]
  BY <1>1, UptoMono, UptoFlat
<1>5. /\ Upto(f, n - 1) = f[n]
      /\ WindowMax > 0 => Upto(f, n - 1) - Upto(f, n - Window) < WindowMax
  <2>1. CASE f = Silent
    BY <1>1, <2>1 DEF Silent, Upto
  <2>2. CASE \E ws, wc : WindowKept(f, ws, wc, n) /\ n - ws >= Window
    <3>1. PICK ws, wc : WindowKept(f, ws, wc, n) /\ n - ws >= Window
      BY <2>2
    <3>2. /\ ws \in Nat /\ ws <= n /\ wc \in Nat /\ wc <= WindowMax
          /\ f[n] - Upto(f, ws - 1) = wc
      BY <1>1, <3>1 DEF WindowKept
    <3>3. n - 1 \in 0..MaxTime /\ n - 1 >= ws + Window - 1
      BY <1>1, <3>1, <3>2
    <3>4. Upto(f, n - 1) = f[n]
      BY <1>1, <3>1, <3>3 DEF WindowKept, Upto
    <3>5. /\ WindowMax > 0 => Upto(f, ws) > Upto(f, ws - 1)
          /\ Upto(f, ws) \in Nat /\ Upto(f, ws - 1) \in Nat
          /\ Upto(f, ws) <= Upto(f, n - Window)
      <4>1. Upto(f, ws) = f[ws]
        BY <3>2 DEF Upto
      <4>2. QED
        BY <1>1, <3>1, <3>2, <4>1, UptoMono DEF WindowKept
    <3>6. QED
      BY <1>1, <1>4, <3>2, <3>4, <3>5
  <2>3. QED
    BY <2>1, <2>2
<1>6. wd \in 0..WindowMax /\ g[n] - Upto(g, n - 1) = wd
  BY <1>1, <1>2, <1>3, <1>4, <1>5
<1>7. \A t \in 0..MaxTime : t >= n + Window - 1 => g[t] = g[n]
  BY <1>1, <1>2 DEF Cumulative
<1>8. WindowMax > 0 => g[n] > Upto(g, n - 1)
  BY <1>2, <1>3, <1>4, <1>5
<1>9. WindowMax > 0 => Upto(g, n - 1) - Upto(g, n - Window) < WindowMax
  BY <1>3, <1>5
<1>10. n \in 0..n
  BY <1>1
<1> HIDE DEF wd
<1>11. WindowKept(g, n, wd, n)
  BY <1>6, <1>7, <1>8, <1>9, <1>10 DEF WindowKept
<1>12. QED
  BY <1>11 DEF g, wd
(* A call in a burst window that is open: it is answered by a BURST when it*)
(* is the one that makes the threshold.                                    *)
LEMMA BurstCounts ==
  ASSUME NEW n \in 0..MaxTime, NEW f, Cumulative(f, n), NEW g, Cumulative(g, n),
         NEW bs, NEW bc, BurstKept(f, g, bs, bc, n), n - bs < BurstWindow,
         NEW c \in BOOLEAN, c <=> bc + 1 = BurstThreshold
  PROVE  BurstKept(More(f, TRUE, n), More(g, c, n), bs, bc + 1, n)
<1> DEFINE F == More(f, TRUE, n)
           G == More(g, c, n)
<1>1. MaxTime \in Nat /\ BurstWindow \in Nat \ {0} /\ BurstThreshold \in Nat
  BY RateLimiterAssumption DEF RateLimiterAssumption
<1>3. /\ Cumulative(F, n) /\ F[n] = f[n] + 1
      /\ \A t \in Int : t < n => Upto(F, t) = Upto(f, t)
  BY MoreCounts
<1>4. /\ Cumulative(G, n) /\ G[n] = g[n] + (IF c THEN 1 ELSE 0)
      /\ \A t \in Int : t < n => Upto(G, t) = Upto(g, t)
  BY MoreCounts
<1> HIDE DEF F, G
<1>5. /\ bs \in 0..n /\ bc \in Nat /\ bs \in Nat /\ bs <= n /\ n \in Nat
      /\ f[n] - Upto(f, bs - 1) = bc
  BY <1>1 DEF BurstKept
<1>6. Upto(F, bs - 1) = Upto(f, bs - 1) /\ Upto(G, bs - 1) = Upto(g, bs - 1)
  BY <1>3, <1>4, <1>5
<1>7. /\ Upto(f, bs - 1) \in Nat /\ f[n] \in Nat
      /\ Upto(g, bs - 1) \in Nat /\ g[n] \in Nat /\ Upto(g, bs - 1) <= g[n]
  <2>1. Upto(g, n) = g[n] /\ Upto(f, n) = f[n]
    BY <1>5 DEF Upto
  <2>2. QED
    BY <1>1, <1>5, <2>1, UptoMono
<1>8. bc + 1 \in Nat /\ F[n] - Upto(F, bs - 1) = bc + 1
  BY <1>3, <1>5, <1>6, <1>7
<1>9. \A t \in 0..MaxTime :
        t >= bs + BurstWindow - 1 => F[t] = F[n] /\ G[t] = G[n]
  BY <1>1, <1>3, <1>4, <1>5 DEF Cumulative
<1>10. BurstThreshold > 0 =>
         (bc + 1 >= BurstThreshold => G[n] > Upto(G, bs - 1))
  <2>1. CASE c
    BY <1>4, <1>6, <1>7, <2>1
  <2>2. CASE ~c
    <3>1. BurstThreshold > 0 /\ bc + 1 >= BurstThreshold => g[n] > Upto(g, bs - 1)
      BY <1>1, <1>5, <2>2 DEF BurstKept
    <3>2. QED
      BY <1>4, <1>6, <1>7, <2>2, <3>1
  <2>3. QED
    BY <2>1, <2>2
<1>11. BurstThreshold > 0 =>
         \A a \in bs - BurstWindow + 1 .. bs :
           Upto(F, bs - 1) - Upto(F, a - 1) >= BurstThreshold
             => Upto(G, bs - 1) > Upto(G, a - BurstWindow)
  <2>1. ASSUME BurstThreshold > 0, NEW a \in bs - BurstWindow + 1 .. bs
        PROVE  Upto(F, bs - 1) - Upto(F, a - 1) >= BurstThreshold
                 => Upto(G, bs - 1) > Upto(G, a - BurstWindow)
    <3>1. Upto(F, a - 1) = Upto(f, a - 1) /\ Upto(G, a - BurstWindow) = Upto(g, a - BurstWindow)
      BY <1>1, <1>3, <1>4, <1>5, <2>1
    <3>2. Upto(f, bs - 1) - Upto(f, a - 1) >= BurstThreshold
            => Upto(g, bs - 1) > Upto(g, a - BurstWindow)
      BY <2>1 DEF BurstKept
    <3>3. QED
      BY <1>6, <3>1, <3>2
  <2>2. QED
    BY <2>1
<1>12. BurstKept(F, G, bs, bc + 1, n)
  BY <1>5, <1>8, <1>9, <1>10, <1>11 DEF BurstKept
<1>13. QED
  BY <1>12 DEF F, G

(* A call that opens a burst window.  A flood within the window before it  *)
(* had its BURST there, and no call came in between.                       *)
LEMMA BurstOpens ==
  ASSUME NEW n \in 0..MaxTime, NEW f, Cumulative(f, n), NEW g, Cumulative(g, n),
         \/ f = Silent /\ g = Silent
         \/ \E bs, bc : BurstKept(f, g, bs, bc, n) /\ n - bs >= BurstWindow,
         NEW c \in BOOLEAN, c <=> 1 = BurstThreshold
  PROVE  BurstKept(More(f, TRUE, n), More(g, c, n), n, 1, n)
<1> DEFINE T == BurstThreshold
           F == More(f, TRUE, n)
           G == More(g, c, n)
<1>1. MaxTime \in Nat /\ BurstWindow \in Nat \ {0} /\ T \in Nat /\ n \in Nat
      /\ n <= MaxTime
  BY RateLimiterAssumption DEF RateLimiterAssumption
<1>3. /\ Cumulative(F, n) /\ F[n] = f[n] + 1
      /\ \A t \in Int : t < n => Upto(F, t) = Upto(f, t)
  BY MoreCounts
<1>4. /\ Cumulative(G, n) /\ G[n] = g[n] + (IF c THEN 1 ELSE 0)
      /\ \A t \in Int : t < n => Upto(G, t) = Upto(g, t)
  BY MoreCounts
<1> HIDE DEF F, G
<1>5. Upto(F, n - 1) = Upto(f, n - 1) /\ Upto(G, n - 1) = Upto(g, n - 1)
  BY <1>1, <1>3, <1>4
<1>6. /\ Upto(f, n - 1) \in Nat /\ Upto(g, n - 1) \in Nat
      /\ Upto(f, n) = f[n] /\ Upto(g, n) = g[n] /\ f[n] \in Nat /\ g[n] \in Nat
  BY <1>1, UptoMono, UptoFlat
<1>7. /\ Upto(f, n - 1) = f[n] /\ Upto(g, n - 1) = g[n]
      /\ T > 0 => \A a \in n - BurstWindow + 1 .. n :
                    Upto(f, n - 1) - Upto(f, a - 1) >= T
                      => Upto(g, n - 1) > Upto(g, a - BurstWindow)
  <2>1. CASE f = Silent /\ g = Silent
    BY <1>1, <2>1 DEF Silent, Upto
  <2>2. CASE \E bs, bc : BurstKept(f, g, bs, bc, n) /\ n - bs >= BurstWindow
    <3>1. PICK bs, bc : BurstKept(f, g, bs, bc, n) /\ n - bs >= BurstWindow
      BY <2>2
    <3>2. /\ bs \in Nat /\ bs <= n /\ bc \in Nat
          /\ f[n] - Upto(f, bs - 1) = bc
          /\ T > 0 => (bc >= T => g[n] > Upto(g, bs - 1))
      BY <1>1, <3>1 DEF BurstKept
    <3>3. n - 1 \in 0..MaxTime /\ n - 1 >= bs + BurstWindow - 1
      BY <1>1, <3>1, <3>2
    <3>4. Upto(f, n - 1) = f[n] /\ Upto(g, n - 1) = g[n]
      BY <1>1, <3>1, <3>3 DEF BurstKept, Upto
    <3>5. ASSUME T > 0, NEW a \in n - BurstWindow + 1 .. n,
                 Upto(f, n - 1) - Upto(f, a - 1) >= T
          PROVE  Upto(g, n - 1) > Upto(g, a - BurstWindow)
      <4>1. a \in Int /\ a > bs /\ a <= n
        BY <1>1, <3>1, <3>2
      <4>2. /\ Upto(f, bs - 1) \in Nat /\ Upto(f, a - 1) \in Nat
            /\ Upto(f, bs - 1) <= Upto(f, a - 1)
        BY <1>1, <3>2, <4>1, UptoMono
      <4>3. bc >= T
        BY <1>1, <1>6, <3>2, <3>4, <3>5, <4>2
      <4>4. a - 1 < bs + BurstWindow - 1
        <5>1. SUFFICES ASSUME a - 1 >= bs + BurstWindow - 1 PROVE FALSE
          BY <1>1, <3>2, <4>1
        <5>2. a - 1 \in 0..MaxTime
          BY <1>1, <3>2, <4>1
        <5>3. Upto(f, a - 1) = f[n]
          BY <3>1, <5>1, <5>2 DEF BurstKept, Upto
        <5>4. QED
          BY <1>1, <1>6, <3>4, <3>5, <5>3
      <4>5. /\ Upto(g, a - BurstWindow) \in Nat /\ Upto(g, bs - 1) \in Nat
            /\ Upto(g, a - BurstWindow) <= Upto(g, bs - 1)
        BY <1>1, <3>2, <4>1, <4>4, UptoMono
      <4>6. QED
        BY <1>6, <3>2, <3>4, <3>5, <4>3, <4>5
    <3>6. QED
      BY <3>4, <3>5
  <2>3. QED
    BY <2>1, <2>2
<1>8. 1 \in Nat /\ F[n] - Upto(F, n - 1) = 1
  BY <1>3, <1>5, <1>6, <1>7
<1>9. \A t \in 0..MaxTime :
        t >= n + BurstWindow - 1 => F[t] = F[n] /\ G[t] = G[n]
  BY <1>1, <1>3, <1>4 DEF Cumulative
<1>10. T > 0 => (1 >= T => G[n] > Upto(G, n - 1))
  BY <1>1, <1>4, <1>5, <1>6, <1>7
<1>11. T > 0 =>
         \A a \in n - BurstWindow + 1 .. n :
           Upto(F, n - 1) - Upto(F, a - 1) >= T
             => Upto(G, n - 1) > Upto(G, a - BurstWindow)
  <2>1. ASSUME T > 0, NEW a \in n - BurstWindow + 1 .. n
        PROVE  Upto(F, n - 1) - Upto(F, a - 1) >= T
                 => Upto(G, n - 1) > Upto(G, a - BurstWindow)
    <3>1. Upto(F, a - 1) = Upto(f, a - 1) /\ Upto(G, a - BurstWindow) = Upto(g, a - BurstWindow)
      BY <1>1, <1>3, <1>4, <2>1
    <3>2. QED
      BY <1>5, <1>7, <2>1, <3>1
  <2>2. QED
    BY <2>1
<1>12. n \in 0..n
  BY <1>1
<1>13. BurstKept(F, G, n, 1, n)
  BY <1>8, <1>9, <1>10, <1>11, <1>12 DEF BurstKept
<1>14. QED
  BY <1>13 DEF F, G
-----------------------------------------------------------------------------
(* What a call of check does to the burst window of the entry it works on. *)
LEMMA ArrivalBurst ==
  ASSUME TypeOK, NEW k \in Key, NEW sev \in Severity
  PROVE  LET a == Arrived(k, sev)
         IN  IF k \in DOMAIN state /\ now - state[k].burstStart < BurstWindow
             THEN /\ a.burstStart = state[k].burstStart
                  /\ a.burstCount = state[k].burstCount + 1
             ELSE a.burstStart = now /\ a.burstCount = 1
<1> DEFINE e0 == IF k \in DOMAIN state THEN state[k] ELSE NewEntry(sev)
           e1 == SeverityNoted(e0, sev)
           e2 == BurstCounted(e1)
           a  == WindowRolled(e2)
<1>1. now \in Nat /\ sev \in Nat /\ BurstWindow \in Nat \ {0}
  BY RateLimiterAssumption DEF TypeOK, RateLimiterAssumption
<1>2. e0 \in Entry
  <2>1. CASE k \in DOMAIN state
    BY <2>1 DEF TypeOK, EntryOK
  <2>2. CASE k \notin DOMAIN state
    BY <1>1, <2>2, RateLimiterAssumption
       DEF NewEntry, Entry, RateLimiterAssumption
  <2>3. QED
    BY <2>1, <2>2
<1>3. k \notin DOMAIN state => e0.burstStart = now /\ e0.burstCount = 0
  BY DEF NewEntry
<1>4. k \in DOMAIN state => e0 = state[k]
  OBVIOUS
<1>5. e0.burstStart \in Int /\ e0.burstCount \in Nat
  BY <1>2, Fields
<1> HIDE DEF e0
<1>6. e1 \in Entry /\ e1.burstStart = e0.burstStart /\ e1.burstCount = e0.burstCount
  <2>1. PICK sv \in Nat : e1 = [e0 EXCEPT !.severitySeen = sv]
    BY <1>1, <1>2, Fields DEF SeverityNoted
  <2>2. QED
    BY <1>2, <2>1 DEF Entry
<1> HIDE DEF e1
<1>7. /\ e2 \in Entry
      /\ IF now - e0.burstStart >= BurstWindow
         THEN e2.burstStart = now /\ e2.burstCount = 1
         ELSE e2.burstStart = e0.burstStart /\ e2.burstCount = e0.burstCount + 1
  <2>1. CASE now - e1.burstStart >= BurstWindow
    <3>1. e2 = [e1 EXCEPT !.burstStart = now, !.burstCount = 1]
      BY <2>1 DEF BurstCounted
    <3> HIDE DEF e2
    <3>2. now \in Int /\ 1 \in Nat
      BY <1>1
    <3>3. e2 \in Entry /\ e2.burstStart = now /\ e2.burstCount = 1
      BY <1>6, <3>1, <3>2 DEF Entry
    <3>4. QED
      BY <1>6, <2>1, <3>3
  <2>2. CASE ~(now - e1.burstStart >= BurstWindow)
    <3> DEFINE bc == e1.burstCount + 1
    <3>1. e2 = [e1 EXCEPT !.burstCount = bc] /\ bc \in Nat
      BY <1>5, <1>6, <2>2 DEF BurstCounted
    <3>2. bc = e0.burstCount + 1
      BY <1>6
    <3> HIDE DEF e2, bc
    <3>3. e2 \in Entry /\ e2.burstStart = e1.burstStart /\ e2.burstCount = bc
      BY <1>6, <3>1 DEF Entry
    <3>4. QED
      BY <1>6, <2>2, <3>2, <3>3
  <2>3. QED
    BY <2>1, <2>2
<1> HIDE DEF e2
<1>8. a.burstStart = e2.burstStart /\ a.burstCount = e2.burstCount
  <2> DEFINE steps == IF e2.backoffSteps > 0 THEN e2.backoffSteps - 1 ELSE 0
  <2>1. \/ a = [e2 EXCEPT !.windowStart = now, !.windowCount = 0, !.backoffSteps = steps]
        \/ a = e2
    BY DEF WindowRolled
  <2> HIDE DEF a, steps
  <2>2. QED
    BY <1>7, <2>1 DEF Entry
<1>9. a = Arrived(k, sev)
  BY DEF Arrived, e2, e1, e0
<1> HIDE DEF a
<1>10. CASE k \in DOMAIN state
  BY <1>1, <1>4, <1>5, <1>7, <1>8, <1>9, <1>10
<1>11. CASE k \notin DOMAIN state
  BY <1>1, <1>3, <1>7, <1>8, <1>9, <1>11
<1>12. QED
  BY <1>10, <1>11

LEMMA DecidedBurst ==
  ASSUME NEW e \in Entry
  PROVE  Decided(e).burstStart = e.burstStart /\ Decided(e).burstCount = e.burstCount
<1> DEFINE f == Decided(e)
<1>1. CASE Passes(e)
  <2> DEFINE wc == e.windowCount + 1
  <2>1. f = [e EXCEPT !.windowCount = wc, !.lastEmitted = now]
    BY <1>1 DEF Decided
  <2> HIDE DEF f, wc
  <2>2. f.burstStart = e.burstStart /\ f.burstCount = e.burstCount
    BY <2>1 DEF Entry
  <2>3. QED
    BY <2>2 DEF f
<1>2. CASE ~Passes(e)
  <2> DEFINE steps == IF e.windowCount >= WindowMax /\ e.backoffSteps = 0
                      THEN 1 ELSE e.backoffSteps
             last  == IF BurstTriggered(e) THEN now ELSE e.lastEmitted
             sup   == e.suppressed + 1
  <2>1. f = [e EXCEPT !.suppressed = sup, !.backoffSteps = steps,
                      !.lastEmitted = last]
    BY <1>2 DEF Decided
  <2> HIDE DEF f, steps, last, sup
  <2>2. f.burstStart = e.burstStart /\ f.burstCount = e.burstCount
    BY <2>1 DEF Entry
  <2>3. QED
    BY <2>2 DEF f
<1>3. QED
  BY <1>1, <1>2

(* The history of a key whose entry is still known after a call of check.  *)
LEMMA CountedIfMore ==
  ASSUME NEW cond \in BOOLEAN, NEW hist, NEW k \in Key,
         NEW x \in Key, x \notin evicted', Cumulative(hist[x], now)
  PROVE  CountedIf(cond, hist, k)[x] = IF x = k THEN More(hist[x], cond, now) ELSE hist[x]
<1>1. CountedIf(cond, hist, k)[x]
        = [t \in 0..MaxTime |-> IF cond /\ x = k /\ t >= now THEN hist[x][t] + 1 ELSE hist[x][t]]
  BY DEF CountedIf
<1>2. CASE x = k
  BY <1>1, <1>2 DEF More
<1>3. CASE x # k
  <2>1. hist[x] = [t \in 0..MaxTime |-> hist[x][t]]
    BY DEF Cumulative
  <2>2. QED
    BY <1>1, <1>3, <2>1
<1>4. QED
  BY <1>2, <1>3

LEMMA HCheckRecords ==
  ASSUME IInv, RecordsKept, now \in 0..MaxTime,
         NEW k \in Key, NEW sev \in Severity, HCheck(k, sev)
  PROVE  RecordsKept'
<1> DEFINE a == Arrived(k, sev)
           e == Decided(a)
<1>1. TypeOK /\ BackoffFollowsWindow /\ now \in Nat /\ Check(k, sev) /\ now' = now
  BY DEF IInv, TypeOK, HCheck, Check
<1>2. PICK kept \in SUBSET DOMAIN state :
        state' = [x \in kept \cup {k} |-> IF x = k THEN e ELSE state[x]]
  BY <1>1, CheckEffect
<1>3. /\ EntryOK(a) /\ Idle(a) /\ a \in Entry
      /\ IF k \in DOMAIN state /\ now - state[k].windowStart < Window
         THEN /\ a.windowStart = state[k].windowStart
              /\ a.windowCount = state[k].windowCount
         ELSE a.windowStart = now /\ a.windowCount = 0
      /\ IF k \in DOMAIN state /\ now - state[k].burstStart < BurstWindow
         THEN /\ a.burstStart = state[k].burstStart
              /\ a.burstCount = state[k].burstCount + 1
         ELSE a.burstStart = now /\ a.burstCount = 1
  BY <1>1, Arrival, ArrivalBurst DEF EntryOK
<1>4. /\ allowed' \in BOOLEAN /\ (allowed' <=> a.windowCount < WindowMax)
      /\ (decision' = "Burst") = (a.burstCount = BurstThreshold)
  <2>1. allowed' = Passes(a) /\ Passes(a) \in BOOLEAN
    BY <1>1 DEF Check, Passes
  <2>2. Passes(a) <=> a.windowCount < WindowMax
    BY <1>1, <1>3, Settling
  <2>3. decision' = Verdict(a)
    BY <1>1 DEF Check
  <2> HIDE DEF a
  <2>4. (decision' = "Burst") = (a.burstCount = BurstThreshold)
    BY <2>3 DEF Verdict, BurstTriggered
  <2>5. QED
    BY <2>1, <2>2, <2>4
<1> HIDE DEF a
<1>5. /\ e.windowStart = a.windowStart
      /\ e.windowCount = IF a.windowCount < WindowMax
                         THEN a.windowCount + 1 ELSE a.windowCount
      /\ e.burstStart = a.burstStart /\ e.burstCount = a.burstCount
  BY <1>1, <1>3, Settling, DecidedBurst
<1> HIDE DEF e
<1>6. /\ evicted' = evicted \cup (DOMAIN state \ DOMAIN state')
      /\ arrivals' = CountedIf(TRUE, arrivals, k)
      /\ passes' = CountedIf(allowed', passes, k)
      /\ bursts' = CountedIf(decision' = "Burst", bursts, k)
  BY DEF HCheck
<1>7. ASSUME NEW x \in Key \ evicted'
      PROVE  /\ Cumulative(passes'[x], now) /\ Cumulative(arrivals'[x], now)
             /\ Cumulative(bursts'[x], now)
             /\ IF x \in DOMAIN state'
                THEN /\ WindowKept(passes'[x], state'[x].windowStart,
                                   state'[x].windowCount, now)
                     /\ BurstKept(arrivals'[x], bursts'[x], state'[x].burstStart,
                                  state'[x].burstCount, now)
                ELSE arrivals'[x] = Silent /\ passes'[x] = Silent /\ bursts'[x] = Silent
  <2>1. x \in Key /\ x \notin evicted' /\ x \notin evicted
    BY <1>6, <1>7
  <2>2. /\ Cumulative(passes[x], now) /\ Cumulative(arrivals[x], now)
        /\ Cumulative(bursts[x], now)
        /\ IF x \in DOMAIN state
           THEN /\ WindowKept(passes[x], state[x].windowStart, state[x].windowCount, now)
                /\ BurstKept(arrivals[x], bursts[x], state[x].burstStart,
                             state[x].burstCount, now)
           ELSE arrivals[x] = Silent /\ passes[x] = Silent /\ bursts[x] = Silent
    BY <2>1 DEF RecordsKept
  <2> DEFINE c == decision' = "Burst"
  <2>3. /\ passes'[x] = IF x = k THEN More(passes[x], allowed', now) ELSE passes[x]
        /\ arrivals'[x] = IF x = k THEN More(arrivals[x], TRUE, now) ELSE arrivals[x]
        /\ bursts'[x] = IF x = k THEN More(bursts[x], c, now) ELSE bursts[x]
    <3>1. c \in BOOLEAN
      OBVIOUS
    <3> HIDE DEF c
    <3>2. bursts' = CountedIf(c, bursts, k)
      BY <1>6 DEF c
    <3>3. passes'[x] = IF x = k THEN More(passes[x], allowed', now) ELSE passes[x]
      BY <1>4, <1>6, <2>1, <2>2, CountedIfMore
    <3>4. arrivals'[x] = IF x = k THEN More(arrivals[x], TRUE, now) ELSE arrivals[x]
      <4> DEFINE yes == TRUE
      <4>1. yes \in BOOLEAN /\ arrivals' = CountedIf(yes, arrivals, k)
        BY <1>6
      <4>2. SUFFICES arrivals'[x] = IF x = k THEN More(arrivals[x], yes, now) ELSE arrivals[x]
        OBVIOUS
      <4> HIDE DEF yes
      <4>3. QED
        BY <2>1, <2>2, <4>1, CountedIfMore
    <3>5. bursts'[x] = IF x = k THEN More(bursts[x], c, now) ELSE bursts[x]
      BY <2>1, <2>2, <3>1, <3>2, CountedIfMore
    <3>6. QED
      BY <3>3, <3>4, <3>5
  <2>4. CASE x # k
    <3>1. x \in DOMAIN state' <=> x \in DOMAIN state
      BY <1>2, <1>6, <2>1, <2>4
    <3>2. x \in DOMAIN state' => state'[x] = state[x]
      BY <1>2, <2>4
    <3>3. QED
      BY <2>2, <2>3, <2>4, <3>1, <3>2
  <2>5. CASE x = k
    <3>1. x \in DOMAIN state' /\ state'[x] = e
      BY <1>2, <2>5
    <3>2. /\ Cumulative(passes'[x], now) /\ Cumulative(arrivals'[x], now)
          /\ Cumulative(bursts'[x], now)
      <4>1. Cumulative(passes'[x], now) /\ Cumulative(arrivals'[x], now)
        BY <1>4, <2>2, <2>3, <2>5, MoreCounts
      <4>2. c \in BOOLEAN
        OBVIOUS
      <4> HIDE DEF c
      <4>3. Cumulative(bursts'[x], now)
        BY <2>2, <2>3, <2>5, <4>2, MoreCounts
      <4>4. QED
        BY <4>1, <4>3
    <3>3. WindowKept(passes'[x], e.windowStart, e.windowCount, now)
      <4>1. CASE x \in DOMAIN state /\ now - state[x].windowStart < Window
        BY <1>3, <1>4, <1>5, <2>2, <2>3, <2>5, <4>1, WindowCounts
      <4>2. CASE x \in DOMAIN state /\ ~(now - state[x].windowStart < Window)
        <5>1. a.windowStart = now /\ a.windowCount = 0
          BY <1>3, <2>5, <4>2
        <5>2. now - state[x].windowStart >= Window
          <6>1. state[x].windowStart \in Int /\ Window \in Int
            BY <1>1, <4>2, Fields, RateLimiterAssumption
               DEF TypeOK, EntryOK, RateLimiterAssumption
          <6>2. QED
            BY <1>1, <4>2, <6>1
        <5>3. WindowKept(More(passes[x], allowed', now), now,
                         IF 0 < WindowMax THEN 1 ELSE 0, now)
          BY <1>4, <2>2, <4>2, <5>1, <5>2, WindowOpens
        <5>4. e.windowStart = now /\ e.windowCount = IF 0 < WindowMax THEN 1 ELSE 0
          BY <1>5, <5>1
        <5>5. QED
          BY <2>3, <2>5, <5>3, <5>4
      <4>3. CASE x \notin DOMAIN state
        <5>1. a.windowStart = now /\ a.windowCount = 0
          BY <1>3, <2>5, <4>3
        <5>2. WindowKept(More(passes[x], allowed', now), now,
                         IF 0 < WindowMax THEN 1 ELSE 0, now)
          BY <1>4, <2>2, <4>3, <5>1, WindowOpens
        <5>3. e.windowStart = now /\ e.windowCount = IF 0 < WindowMax THEN 1 ELSE 0
          BY <1>5, <5>1
        <5>4. QED
          BY <2>3, <2>5, <5>2, <5>3
      <4>4. QED
        BY <4>1, <4>2, <4>3
    <3>4. BurstKept(arrivals'[x], bursts'[x], e.burstStart, e.burstCount, now)
      <4>1. CASE x \in DOMAIN state /\ now - state[x].burstStart < BurstWindow
        <5>1. e.burstStart = state[x].burstStart /\ e.burstCount = state[x].burstCount + 1
          BY <1>3, <1>5, <2>5, <4>1
        <5>2. c \in BOOLEAN /\ (c <=> state[x].burstCount + 1 = BurstThreshold)
          BY <1>3, <1>4, <2>5, <4>1
        <5> HIDE DEF c
        <5>3. QED
          BY <2>2, <2>3, <2>5, <4>1, <5>1, <5>2, BurstCounts
      <4>2. CASE ~(x \in DOMAIN state /\ now - state[x].burstStart < BurstWindow)
        <5>1. e.burstStart = now /\ e.burstCount = 1
              /\ c \in BOOLEAN /\ (c <=> 1 = BurstThreshold)
          BY <1>3, <1>4, <1>5, <2>5, <4>2
        <5> HIDE DEF c
        <5>2. \/ arrivals[x] = Silent /\ bursts[x] = Silent
              \/ \E bs, bc : /\ BurstKept(arrivals[x], bursts[x], bs, bc, now)
                            /\ now - bs >= BurstWindow
          <6>1. CASE x \in DOMAIN state
            <7>1. state[x].burstStart \in Int /\ BurstWindow \in Int
              BY <1>1, <6>1, Fields, RateLimiterAssumption
                 DEF TypeOK, EntryOK, RateLimiterAssumption
            <7>2. now - state[x].burstStart >= BurstWindow
              BY <1>1, <4>2, <6>1, <7>1
            <7>3. QED
              BY <2>2, <6>1, <7>2
          <6>2. CASE x \notin DOMAIN state
            BY <2>2, <6>2
          <6>3. QED
            BY <6>1, <6>2
        <5>3. BurstKept(More(arrivals[x], TRUE, now), More(bursts[x], c, now), now, 1, now)
          BY <2>2, <5>1, <5>2, BurstOpens
        <5>4. QED
          BY <2>3, <2>5, <5>1, <5>3
      <4>3. QED
        BY <4>1, <4>2
    <3>5. QED
      BY <3>1, <3>2, <3>3, <3>4
  <2>6. QED
    BY <2>4, <2>5
<1>8. QED
  BY <1>1, <1>7 DEF RecordsKept
-----------------------------------------------------------------------------
(* The limits over any span: those that ended are history, and the one     *)
(* that ends now follows from the records.                                 *)

SpansBelow(f, n) ==
  WindowMax > 0 =>
    \A t \in 0..n : Upto(f, t) - Upto(f, t - Window) < 2 * WindowMax

FloodsRaise(f, g, n) ==
  BurstThreshold > 0 =>
    \A t \in 0..n :
      Upto(f, t) - Upto(f, t - BurstWindow) >= 2 * BurstThreshold - 1
        => Upto(g, t) - Upto(g, t - 2 * BurstWindow + 1) > 0

LimitsKept ==
  \A k \in Key \ evicted :
    SpansBelow(passes[k], now) /\ FloodsRaise(arrivals[k], bursts[k], now)

(* The inductive invariant of the histories.                               *)
RIInv == IInv /\ now \in 0..MaxTime /\ RecordsKept /\ LimitsKept

LEMMA SpanNow ==
  ASSUME NEW n \in 0..MaxTime, NEW f, Cumulative(f, n), WindowMax > 0,
         f = Silent \/ \E ws, wc : WindowKept(f, ws, wc, n)
  PROVE  Upto(f, n) - Upto(f, n - Window) < 2 * WindowMax
<1>1. CASE f = Silent
  BY <1>1, RateLimiterAssumption DEF Silent, Upto, RateLimiterAssumption
<1>2. CASE \E ws, wc : WindowKept(f, ws, wc, n)
  BY <1>2, SpanOfWindow
<1>3. QED
  BY <1>1, <1>2

LEMMA FloodNow ==
  ASSUME NEW n \in 0..MaxTime, NEW f, Cumulative(f, n), NEW g, Cumulative(g, n),
         BurstThreshold > 0,
         \/ f = Silent
         \/ \E bs, bc : BurstKept(f, g, bs, bc, n),
         Upto(f, n) - Upto(f, n - BurstWindow) >= 2 * BurstThreshold - 1
  PROVE  Upto(g, n) - Upto(g, n - 2 * BurstWindow + 1) > 0
<1>1. CASE f = Silent
  <2>1. Upto(f, n) = 0 /\ Upto(f, n - BurstWindow) = 0
    BY <1>1, RateLimiterAssumption DEF Silent, Upto, RateLimiterAssumption
  <2>2. QED
    BY <2>1, RateLimiterAssumption DEF RateLimiterAssumption
<1>2. CASE \E bs, bc : BurstKept(f, g, bs, bc, n)
  BY <1>2, FloodOfBurst
<1>3. QED
  BY <1>1, <1>2

(* Spans that ended before the present tick do not see what comes in now.  *)
LEMMA LimitsOfMore ==
  ASSUME NEW n \in 0..MaxTime, NEW f, NEW g, NEW F, NEW G,
         \A t \in Int : t < n => Upto(F, t) = Upto(f, t) /\ Upto(G, t) = Upto(g, t),
         Cumulative(F, n), Cumulative(G, n),
         F = Silent \/ \E bs, bc : BurstKept(F, G, bs, bc, n),
         FloodsRaise(f, g, n)
  PROVE  FloodsRaise(F, G, n)
<1> SUFFICES ASSUME BurstThreshold > 0, NEW t \in 0..n,
                    Upto(F, t) - Upto(F, t - BurstWindow) >= 2 * BurstThreshold - 1
             PROVE  Upto(G, t) - Upto(G, t - 2 * BurstWindow + 1) > 0
  BY DEF FloodsRaise
<1>1. BurstWindow \in Nat \ {0} /\ n \in Nat /\ t \in Int
  BY RateLimiterAssumption DEF RateLimiterAssumption
<1>2. CASE t = n
  BY <1>2, FloodNow
<1>3. CASE t # n
  <2>1. t < n /\ t - BurstWindow < n /\ t - 2 * BurstWindow + 1 < n
    BY <1>1, <1>3
  <2>2. /\ t - BurstWindow \in Int /\ t - 2 * BurstWindow + 1 \in Int
    BY <1>1
  <2>3. Upto(F, t) = Upto(f, t) /\ Upto(F, t - BurstWindow) = Upto(f, t - BurstWindow)
    BY <1>1, <2>1, <2>2
  <2>4. /\ Upto(G, t) = Upto(g, t)
        /\ Upto(G, t - 2 * BurstWindow + 1) = Upto(g, t - 2 * BurstWindow + 1)
    BY <1>1, <2>1, <2>2
  <2>5. QED
    BY <2>3, <2>4 DEF FloodsRaise
<1>4. QED
  BY <1>2, <1>3

LEMMA SpansOfMore ==
  ASSUME NEW n \in 0..MaxTime, NEW f, NEW F,
         \A t \in Int : t < n => Upto(F, t) = Upto(f, t),
         Cumulative(F, n),
         F = Silent \/ \E ws, wc : WindowKept(F, ws, wc, n),
         SpansBelow(f, n)
  PROVE  SpansBelow(F, n)
<1> SUFFICES ASSUME WindowMax > 0, NEW t \in 0..n
             PROVE  Upto(F, t) - Upto(F, t - Window) < 2 * WindowMax
  BY DEF SpansBelow
<1>1. Window \in Nat \ {0} /\ n \in Nat /\ t \in Int
  BY RateLimiterAssumption DEF RateLimiterAssumption
<1>2. CASE t = n
  BY <1>2, SpanNow
<1>3. CASE t # n
  <2>1. t < n /\ t - Window < n /\ t - Window \in Int
    BY <1>1, <1>3
  <2>2. Upto(F, t) = Upto(f, t) /\ Upto(F, t - Window) = Upto(f, t - Window)
    BY <1>1, <2>1
  <2>3. QED
    BY <2>2 DEF SpansBelow
<1>4. QED
  BY <1>2, <1>3

LEMMA HCheckRIInv ==
  ASSUME RIInv, NEW k \in Key, NEW sev \in Severity, HCheck(k, sev)
  PROVE  RIInv'
<1>1. IInv' /\ now' = now /\ now \in 0..MaxTime /\ RecordsKept /\ LimitsKept
  BY CheckIInv DEF RIInv, HCheck, Check
<1>2. RecordsKept'
  BY HCheckRecords DEF RIInv
<1>3. ASSUME NEW x \in Key \ evicted'
      PROVE  SpansBelow(passes'[x], now) /\ FloodsRaise(arrivals'[x], bursts'[x], now)
  <2>1. x \in Key /\ x \notin evicted' /\ x \notin evicted
    BY DEF HCheck
  <2>2. /\ Cumulative(passes[x], now) /\ Cumulative(arrivals[x], now)
        /\ Cumulative(bursts[x], now)
        /\ SpansBelow(passes[x], now) /\ FloodsRaise(arrivals[x], bursts[x], now)
    BY <1>1, <2>1 DEF RecordsKept, LimitsKept
  <2>3. /\ Cumulative(passes'[x], now) /\ Cumulative(arrivals'[x], now)
        /\ Cumulative(bursts'[x], now)
        /\ passes'[x] = Silent \/ \E ws, wc : WindowKept(passes'[x], ws, wc, now)
        /\ arrivals'[x] = Silent
              \/ \E bs, bc : BurstKept(arrivals'[x], bursts'[x], bs, bc, now)
    BY <1>1, <1>2, <2>1 DEF RecordsKept
  <2>4. \A t \in Int : t < now =>
          /\ Upto(passes'[x], t) = Upto(passes[x], t)
          /\ Upto(arrivals'[x], t) = Upto(arrivals[x], t)
          /\ Upto(bursts'[x], t) = Upto(bursts[x], t)
    <3>1. ASSUME NEW cond \in BOOLEAN, NEW hist, Cumulative(hist[x], now)
          PROVE  \A t \in Int : t < now =>
                   Upto(CountedIf(cond, hist, k)[x], t) = Upto(hist[x], t)
      <4>1. CountedIf(cond, hist, k)[x] = IF x = k THEN More(hist[x], cond, now) ELSE hist[x]
        BY <2>1, <3>1, CountedIfMore
      <4>2. \A t \in Int : t < now => Upto(More(hist[x], cond, now), t) = Upto(hist[x], t)
        BY <1>1, <3>1, MoreCounts
      <4>3. QED
        BY <4>1, <4>2
    <3> DEFINE yes == TRUE
               c   == decision' = "Burst"
    <3>2. yes \in BOOLEAN /\ c \in BOOLEAN /\ allowed' \in BOOLEAN
      BY DEF HCheck, Check, Passes
    <3>3. /\ arrivals' = CountedIf(yes, arrivals, k)
          /\ passes' = CountedIf(allowed', passes, k)
          /\ bursts' = CountedIf(c, bursts, k)
      BY DEF HCheck
    <3> HIDE DEF yes, c
    <3>4. \A t \in Int : t < now => Upto(passes'[x], t) = Upto(passes[x], t)
      BY <2>2, <3>1, <3>2, <3>3
    <3>5. \A t \in Int : t < now => Upto(arrivals'[x], t) = Upto(arrivals[x], t)
      BY <2>2, <3>1, <3>2, <3>3
    <3>6. \A t \in Int : t < now => Upto(bursts'[x], t) = Upto(bursts[x], t)
      BY <2>2, <3>1, <3>2, <3>3
    <3>7. QED
      BY <3>4, <3>5, <3>6
  <2>5. SpansBelow(passes'[x], now)
    BY <1>1, <2>2, <2>3, <2>4, SpansOfMore
  <2>6. FloodsRaise(arrivals'[x], bursts'[x], now)
    BY <1>1, <2>2, <2>3, <2>4, LimitsOfMore
  <2>7. QED
    BY <2>5, <2>6
<1>4. LimitsKept'
  BY <1>1, <1>3 DEF LimitsKept
<1>5. QED
  BY <1>1, <1>2, <1>4 DEF RIInv

LEMMA HTickRIInv ==
  ASSUME RIInv, HTick
  PROVE  RIInv'
<1>1. /\ IInv' /\ now' = now + 1 /\ now \in 0..MaxTime /\ now < MaxTime
      /\ RecordsKept /\ LimitsKept
      /\ UNCHANGED <<state, arrivals, passes, bursts, evicted>>
  BY TickIInv DEF RIInv, HTick, Tick
<1>2. now + 1 \in 0..MaxTime /\ now + 1 <= MaxTime
  BY <1>1, RateLimiterAssumption DEF RateLimiterAssumption
<1>3. ASSUME NEW x \in Key \ evicted
      PROVE  /\ Cumulative(passes[x], now + 1) /\ Cumulative(arrivals[x], now + 1)
             /\ Cumulative(bursts[x], now + 1)
             /\ x \in DOMAIN state =>
                  /\ WindowKept(passes[x], state[x].windowStart,
                                state[x].windowCount, now + 1)
                  /\ BurstKept(arrivals[x], bursts[x], state[x].burstStart,
                               state[x].burstCount, now + 1)
             /\ x \notin DOMAIN state =>
                  arrivals[x] = Silent /\ passes[x] = Silent /\ bursts[x] = Silent
  <2>1. /\ Cumulative(passes[x], now) /\ Cumulative(arrivals[x], now)
        /\ Cumulative(bursts[x], now)
        /\ x \in DOMAIN state =>
             /\ WindowKept(passes[x], state[x].windowStart, state[x].windowCount, now)
             /\ BurstKept(arrivals[x], bursts[x], state[x].burstStart,
                          state[x].burstCount, now)
        /\ x \notin DOMAIN state =>
             arrivals[x] = Silent /\ passes[x] = Silent /\ bursts[x] = Silent
    BY <1>1 DEF RecordsKept
  <2>2. /\ Cumulative(passes[x], now + 1) /\ Cumulative(arrivals[x], now + 1)
        /\ Cumulative(bursts[x], now + 1)
    BY <1>1, <1>2, <2>1, CumulativeLater
  <2>3. x \in DOMAIN state =>
          WindowKept(passes[x], state[x].windowStart, state[x].windowCount, now + 1)
    BY <1>1, <1>2, <2>1, WindowLater
  <2>4. x \in DOMAIN state =>
          BurstKept(arrivals[x], bursts[x], state[x].burstStart,
                    state[x].burstCount, now + 1)
    BY <1>1, <1>2, <2>1, BurstLater
  <2>5. QED
    BY <2>1, <2>2, <2>3, <2>4
<1>4. RecordsKept'
  BY <1>1, <1>3 DEF RecordsKept
<1>5. ASSUME NEW x \in Key \ evicted
      PROVE  SpansBelow(passes[x], now + 1) /\ FloodsRaise(arrivals[x], bursts[x], now + 1)
  <2>1. SpansBelow(passes[x], now) /\ FloodsRaise(arrivals[x], bursts[x], now)
    BY <1>1 DEF LimitsKept
  <2> DEFINE n == now + 1
  <2>2. n \in 0..MaxTime /\ \A t \in 0..n : t = n \/ t \in 0..now
    BY <1>1, <1>2
  <2>3. /\ Cumulative(passes[x], n) /\ Cumulative(arrivals[x], n)
        /\ Cumulative(bursts[x], n)
        /\ passes[x] = Silent \/ \E ws, wc : WindowKept(passes[x], ws, wc, n)
        /\ arrivals[x] = Silent
              \/ \E bs, bc : BurstKept(arrivals[x], bursts[x], bs, bc, n)
    BY <1>3
  <2> HIDE DEF n
  <2>4. SpansBelow(passes[x], n)
    <3> SUFFICES ASSUME WindowMax > 0, NEW t \in 0..n
                 PROVE  Upto(passes[x], t) - Upto(passes[x], t - Window) < 2 * WindowMax
      BY DEF SpansBelow
    <3>1. CASE t = n
      BY <2>2, <2>3, <3>1, SpanNow
    <3>2. CASE t \in 0..now
      BY <2>1, <3>2 DEF SpansBelow
    <3>3. QED
      BY <2>2, <3>1, <3>2
  <2>5. FloodsRaise(arrivals[x], bursts[x], n)
    <3> SUFFICES ASSUME BurstThreshold > 0, NEW t \in 0..n,
                        Upto(arrivals[x], t) - Upto(arrivals[x], t - BurstWindow)
                          >= 2 * BurstThreshold - 1
                 PROVE  Upto(bursts[x], t) - Upto(bursts[x], t - 2 * BurstWindow + 1) > 0
      BY DEF FloodsRaise
    <3>1. CASE t = n
      BY <2>2, <2>3, <3>1, FloodNow
    <3>2. CASE t \in 0..now
      BY <2>1, <3>2 DEF FloodsRaise
    <3>3. QED
      BY <2>2, <3>1, <3>2
  <2>6. QED
    BY <2>4, <2>5 DEF n
<1>6. LimitsKept'
  BY <1>1, <1>5 DEF LimitsKept
<1>7. QED
  BY <1>1, <1>2, <1>4, <1>6 DEF RIInv

LEMMA SilentOK ==
  /\ Cumulative(Silent, 0)
  /\ SpansBelow(Silent, 0) /\ FloodsRaise(Silent, Silent, 0)
<1>1. MaxTime \in Nat
  BY RateLimiterAssumption DEF RateLimiterAssumption
<1>2. Cumulative(Silent, 0)
  BY <1>1 DEF Cumulative, Silent
<1>3. 0 \in 0..MaxTime /\ \A t \in 0..0 : t = 0
  BY <1>1
<1>4. SpansBelow(Silent, 0)
  BY <1>2, <1>3, SpanNow DEF SpansBelow
<1>5. FloodsRaise(Silent, Silent, 0)
  BY <1>2, <1>3, FloodNow DEF FloodsRaise
<1>6. QED
  BY <1>2, <1>4, <1>5

LEMMA HInitRIInv == HInit => RIInv
<1> SUFFICES ASSUME HInit PROVE RIInv
  OBVIOUS
<1>1. IInv /\ now = 0 /\ DOMAIN state = {} /\ evicted = {}
  BY InitIInv DEF HInit, Init
<1>2. \A k \in Key : arrivals[k] = Silent /\ passes[k] = Silent /\ bursts[k] = Silent
  BY DEF HInit, Silent
<1>3. now \in 0..MaxTime
  BY <1>1, RateLimiterAssumption DEF RateLimiterAssumption
<1>4. RecordsKept /\ LimitsKept
  BY <1>1, <1>2, SilentOK DEF RecordsKept, LimitsKept
<1>5. QED
  BY <1>1, <1>3, <1>4 DEF RIInv

LEMMA HStepRIInv == RIInv /\ [HNext]_hvars => RIInv'
<1> SUFFICES ASSUME RIInv, [HNext]_hvars PROVE RIInv'
  OBVIOUS
<1>1. ASSUME NEW k \in Key, NEW sev \in Severity, HCheck(k, sev) PROVE RIInv'
  BY <1>1, HCheckRIInv
<1>2. CASE HTick
  BY <1>2, HTickRIInv
<1>3. CASE HDrain
  <2>1. IInv'
    BY <1>3, DrainIInv DEF HDrain, RIInv
  <2>2. UNCHANGED <<now, arrivals, passes, bursts, evicted>>
    BY <1>3 DEF HDrain, Drain
  <2>3. /\ DOMAIN state' = DOMAIN state
        /\ \A x \in DOMAIN state :
             /\ state'[x].windowStart = state[x].windowStart
             /\ state'[x].windowCount = state[x].windowCount
             /\ state'[x].burstStart = state[x].burstStart
             /\ state'[x].burstCount = state[x].burstCount
    BY <1>3 DEF HDrain, Drain, RIInv, IInv, TypeOK, EntryOK, Entry
  <2>4. RecordsKept'
    BY <2>2, <2>3 DEF RIInv, RecordsKept
  <2>5. QED
    BY <2>1, <2>2, <2>4 DEF RIInv, LimitsKept
<1>4. CASE UNCHANGED hvars
  <2>1. IInv'
    BY <1>4, StepIInv DEF hvars, RIInv
  <2>2. QED
    BY <1>4, <2>1 DEF hvars, vars, RIInv, RecordsKept, LimitsKept
<1>5. QED
  BY <1>1, <1>2, <1>3, <1>4 DEF HNext

(* What every entry says of its key is what happened to the key, in every  *)
(* behaviour and for every configuration.                                  *)
THEOREM RecordsInvariance == HSpec => []RIInv
<1>1. QED
  BY HInitRIInv, HStepRIInv, PTL DEF HSpec

(* dedup.rs:171-183, 203-206: the window is a fixed one, but no span of its*)
(* length, wherever it starts, passes two windows' worth of a key that was *)
(* not evicted.                                                            *)
THEOREM SpansPassBelowTwoWindows == HSpec => []SpanBelowTwoWindows
<1>1. RIInv => SpanBelowTwoWindows
  <2> SUFFICES ASSUME RIInv, WindowMax > 0, NEW k \in Key \ evicted, NEW t \in 0..now
               PROVE  InSpan(passes, k, t - Window + 1, t) < 2 * WindowMax
    BY DEF SpanBelowTwoWindows
  <2>1. Upto(passes[k], t) - Upto(passes[k], t - Window) < 2 * WindowMax
    BY DEF RIInv, LimitsKept, SpansBelow
  <2>2. InSpan(passes, k, t - Window + 1, t)
          = Upto(passes[k], t) - Upto(passes[k], t - Window)
    BY RateLimiterAssumption DEF InSpan, RateLimiterAssumption, RIInv
  <2>3. QED
    BY <2>1, <2>2
<1>2. QED
  BY <1>1, RecordsInvariance, PTL

(* dedup.rs:157-170, 218-222: a flood that straddles two burst windows is  *)
(* answered by a BURST in one of them, whatever the rate window does.      *)
THEOREM FloodsAreAnswered == HSpec => []FloodRaisesBurst
<1>1. RIInv => FloodRaisesBurst
  <2> SUFFICES ASSUME RIInv, BurstThreshold > 0,
                      NEW k \in Key \ evicted, NEW t \in 0..now,
                      InSpan(arrivals, k, t - BurstWindow + 1, t) >= 2 * BurstThreshold - 1
               PROVE  InSpan(bursts, k, t - 2 * BurstWindow + 2, t) > 0
    BY DEF FloodRaisesBurst
  <2>1. /\ InSpan(arrivals, k, t - BurstWindow + 1, t)
             = Upto(arrivals[k], t) - Upto(arrivals[k], t - BurstWindow)
        /\ InSpan(bursts, k, t - 2 * BurstWindow + 2, t)
             = Upto(bursts[k], t) - Upto(bursts[k], t - 2 * BurstWindow + 1)
    BY RateLimiterAssumption DEF InSpan, RateLimiterAssumption, RIInv
  <2>2. Upto(arrivals[k], t) - Upto(arrivals[k], t - BurstWindow) >= 2 * BurstThreshold - 1
    BY <2>1
  <2>3. Upto(bursts[k], t) - Upto(bursts[k], t - 2 * BurstWindow + 1) > 0
    BY <2>2 DEF RIInv, LimitsKept, FloodsRaise
  <2>4. QED
    BY <2>1, <2>3
<1>2. QED
  BY <1>1, RecordsInvariance, PTL
=============================================================================
