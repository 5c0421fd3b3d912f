--------------------------- MODULE EventRingProofs ---------------------------
(***************************************************************************)
(* Proofs about EventRing for any finite number of CPUs, any capacity and  *)
(* any number of events and restarts.  That the detector never sleeps over *)
(* a record is not inductive by itself: what is true when it goes to sleep *)
(* must be known already while it clears its readiness, where only the     *)
(* renewed readiness counts.                                               *)
(***************************************************************************)
EXTENDS EventRing, FiniteSetTheorems, TLAPS

Observed == {c \in Cpu : cpu[c] = "observed"}

(* A program has submitted the record the reader stands at and has still   *)
(* to notify it.                                                           *)
ToNotify == \E c \in Cpu : cpu[c] = "submitted" /\ rec[c] = cons

NoClearOverWork ==
  task = "clearing" /\ Readable => renewed \/ woken \/ ToNotify

IInv == TypeOK /\ LossIsCounted /\ NoSleepOverWork /\ NoClearOverWork

-----------------------------------------------------------------------------
LEMMA ObservedFinite == IsFiniteSet(Observed) /\ Cardinality(Observed) \in Nat
<1>1. Observed \subseteq Cpu
  BY DEF Observed
<1>2. IsFiniteSet(Observed)
  BY <1>1, FS_Subset, EventRingAssumption
<1> QED BY <1>2, FS_CardinalityType

(* The accounts when one program begins to observe, or has observed, and   *)
(* when none does either.                                                  *)
LEMMA OneMore ==
  ASSUME NEW c \in Cpu, cpu \in [Cpu -> {"idle", "observed", "filling", "submitted"}],
         cpu[c] # "observed", cpu' = [cpu EXCEPT ![c] = "observed"]
  PROVE  Cardinality(Observed') = Cardinality(Observed) + 1
<1>1. Observed' = Observed \cup {c} /\ c \notin Observed
  BY DEF Observed
<1> QED BY <1>1, ObservedFinite, FS_AddElement

LEMMA OneLess ==
  ASSUME NEW c \in Cpu, cpu \in [Cpu -> {"idle", "observed", "filling", "submitted"}],
         cpu[c] = "observed", NEW s, s # "observed", cpu' = [cpu EXCEPT ![c] = s]
  PROVE  Cardinality(Observed') = Cardinality(Observed) - 1
<1>1. Observed' = Observed \ {c} /\ c \in Observed
  BY DEF Observed
<1> QED BY <1>1, ObservedFinite, FS_RemoveElement

LEMMA InitIInv == Init => IInv
<1> SUFFICES ASSUME Init PROVE IInv
  OBVIOUS
<1>1. cpu \in [Cpu -> {"idle", "observed", "filling", "submitted"}] /\ rec \in [Cpu -> Nat]
  BY DEF Init
<1>2. TypeOK
  <2>1. prod = 0 /\ cons = 0 /\ busy = {} /\ 0 - 0 <= Capacity /\ 0 \in 0..0
    BY EventRingAssumption DEF Init
  <2>2. stats \in [observed : Nat, dropped : Nat]
    BY DEF Init
  <2>3. /\ woken \in BOOLEAN /\ ready \in BOOLEAN /\ renewed \in BOOLEAN
        /\ task = "down" /\ handled \in Nat /\ starts \in Nat
    BY DEF Init
  <2> QED BY <1>1, <2>1, <2>2, <2>3 DEF TypeOK
<1> QED BY <1>2 DEF Init, IInv, LossIsCounted, NoSleepOverWork, NoClearOverWork

LEMMA StartIInv == IInv /\ Start => IInv'
<1> SUFFICES ASSUME IInv, Start PROVE IInv'
  OBVIOUS
<1>1. cpu' \in [Cpu -> {"idle", "observed", "filling", "submitted"}]
      /\ rec' \in [Cpu -> Nat]
  BY DEF Start
<1>2. TypeOK'
  <2>1. prod' = 0 /\ cons' = 0 /\ busy' = {} /\ 0 - 0 <= Capacity /\ 0 \in 0..0
    BY EventRingAssumption DEF Start
  <2>2. stats' \in [observed : Nat, dropped : Nat]
    BY DEF Start
  <2>3. /\ woken' \in BOOLEAN /\ ready' \in BOOLEAN /\ renewed' \in BOOLEAN
        /\ task' = "attached" /\ handled' \in Nat
    BY DEF Start
  <2>4. starts' \in Nat
    BY DEF Start, IInv, TypeOK
  <2> QED BY <1>1, <2>1, <2>2, <2>3, <2>4 DEF TypeOK
<1>3. Cardinality(Observed') = 0
  <2>1. Observed' = {}
    BY DEF Start, Observed
  <2> QED BY <2>1, FS_EmptySet
<1>4. LossIsCounted'
  <2>1. /\ stats'.observed = 0 /\ stats'.dropped = 0
        /\ handled' = 0 /\ prod' = 0 /\ cons' = 0
    BY DEF Start
  <2> QED BY <1>3, <2>1 DEF LossIsCounted, Observed
<1> QED BY <1>2, <1>4 DEF Start, IInv, NoSleepOverWork, NoClearOverWork

-----------------------------------------------------------------------------
(* The steps of a program.                                                 *)

LEMMA ObserveIInv == ASSUME NEW c \in Cpu, IInv, Observe(c) PROVE IInv'
<1> USE DEF IInv
<1>1. TypeOK'
  BY DEF Observe, TypeOK, ring, reactor
<1>2. LossIsCounted'
  <2>1. Cardinality(Observed') = Cardinality(Observed) + 1
    BY OneMore DEF Observe, TypeOK
  <2>2. stats.observed' = stats.observed + 1 /\ stats.dropped' = stats.dropped
    BY DEF Observe, TypeOK
  <2> QED BY <2>1, <2>2, ObservedFinite
          DEF Observe, LossIsCounted, Observed, TypeOK, ring
<1>3. (NoSleepOverWork /\ NoClearOverWork)'
  BY DEF Observe, TypeOK, NoSleepOverWork, NoClearOverWork, Readable, ToNotify,
         ring, reactor
<1> QED BY <1>1, <1>2, <1>3

LEMMA ReserveIInv == ASSUME NEW c \in Cpu, IInv, Reserve(c) PROVE IInv'
<1> USE DEF IInv
<1>1. CASE prod - cons < Capacity
  <2>0. /\ rec' = [rec EXCEPT ![c] = prod] /\ busy' = busy \cup {prod}
        /\ prod' = prod + 1 /\ cpu' = [cpu EXCEPT ![c] = "filling"]
        /\ cpu[c] = "observed"
        /\ UNCHANGED <<cons, stats, woken, ready, renewed, task, handled, starts>>
    BY <1>1 DEF Reserve, reactor
  <2>1. TypeOK'
    BY <1>1, <2>0, EventRingAssumption DEF TypeOK
  <2>2. Cardinality(Observed') = Cardinality(Observed) - 1
    BY <2>0, OneLess DEF TypeOK
  <2>3. LossIsCounted'
    BY <2>0, <2>2, ObservedFinite DEF LossIsCounted, Observed, TypeOK
  <2>4. Readable' => Readable
    BY <2>0 DEF Readable, TypeOK
  <2>5. ToNotify => ToNotify'
    BY <2>0 DEF ToNotify, TypeOK
  <2>6. (NoSleepOverWork /\ NoClearOverWork)'
    BY <2>0, <2>4, <2>5 DEF NoSleepOverWork, NoClearOverWork, ToNotify
  <2> QED BY <2>1, <2>3, <2>6
<1>2. CASE ~(prod - cons < Capacity)
  <2>0. /\ stats' = [stats EXCEPT !.dropped = @ + 1]
        /\ cpu' = [cpu EXCEPT ![c] = "idle"] /\ cpu[c] = "observed"
        /\ UNCHANGED <<rec, busy, prod, cons, woken, ready, renewed, task, handled, starts>>
    BY <1>2 DEF Reserve, reactor
  <2>1. TypeOK'
    BY <2>0 DEF TypeOK
  <2>2. Cardinality(Observed') = Cardinality(Observed) - 1
    BY <2>0, OneLess DEF TypeOK
  <2>3. stats'.dropped = stats.dropped + 1 /\ stats'.observed = stats.observed
    BY <2>0 DEF TypeOK
  <2>4. LossIsCounted'
    BY <2>0, <2>2, <2>3, ObservedFinite DEF LossIsCounted, Observed, TypeOK
  <2>5. (NoSleepOverWork /\ NoClearOverWork)'
    BY <2>0 DEF TypeOK, NoSleepOverWork, NoClearOverWork, Readable, ToNotify
  <2> QED BY <2>1, <2>4, <2>5
<1> QED BY <1>1, <1>2

(* The record the reader stands at becomes readable: then this program is  *)
(* the one that has to notify it.                                          *)
LEMMA SubmitIInv == ASSUME NEW c \in Cpu, IInv, Submit(c) PROVE IInv'
<1> USE DEF IInv
<1>0. /\ cpu[c] = "filling" /\ cpu' = [cpu EXCEPT ![c] = "submitted"]
      /\ busy' = busy \ {rec[c]}
      /\ UNCHANGED <<rec, prod, cons, stats, woken, ready, renewed, task, handled, starts>>
  BY DEF Submit, reactor
<1>1. TypeOK'
  BY <1>0 DEF TypeOK
<1>2. LossIsCounted'
  <2>1. Observed' = Observed
    BY <1>0 DEF Observed, TypeOK
  <2> QED BY <1>0, <2>1 DEF LossIsCounted, Observed
<1>3. Readable' => Readable \/ ToNotify'
  BY <1>0 DEF Readable, ToNotify, TypeOK
<1>4. ToNotify => ToNotify'
  BY <1>0 DEF ToNotify, TypeOK
<1>5. (NoSleepOverWork /\ NoClearOverWork)'
  BY <1>0, <1>3, <1>4 DEF NoSleepOverWork, NoClearOverWork, ToNotify
<1> QED BY <1>1, <1>2, <1>5

LEMMA NotifyIInv == ASSUME NEW c \in Cpu, IInv, Notify(c) PROVE IInv'
<1> USE DEF IInv
<1>0. /\ cpu[c] = "submitted" /\ cpu' = [cpu EXCEPT ![c] = "idle"]
      /\ woken' = (woken \/ cons = rec[c])
      /\ UNCHANGED <<rec, prod, cons, busy, stats, ready, renewed, task, handled, starts>>
  BY DEF Notify, ring
<1>1. TypeOK'
  BY <1>0 DEF TypeOK
<1>2. LossIsCounted'
  <2>1. Observed' = Observed
    BY <1>0 DEF Observed, TypeOK
  <2> QED BY <1>0, <2>1 DEF LossIsCounted, Observed
<1>3. woken \/ ToNotify => woken' \/ ToNotify'
  BY <1>0 DEF ToNotify, TypeOK
<1>4. Readable' = Readable
  BY <1>0 DEF Readable
<1>5. (NoSleepOverWork /\ NoClearOverWork)'
  BY <1>0, <1>3, <1>4 DEF NoSleepOverWork, NoClearOverWork, ToNotify
<1> QED BY <1>1, <1>2, <1>5

-----------------------------------------------------------------------------
(* The steps of the detector and of the reactor, which leave the programs  *)
(* alone.                                                                  *)

LEMMA HandleNextIInv == IInv /\ HandleNext => IInv'
<1> SUFFICES ASSUME IInv, HandleNext PROVE IInv'
  OBVIOUS
<1> USE DEF IInv
<1>0. /\ task = "draining" /\ prod > cons /\ cons \notin busy
      /\ handled' = handled + 1 /\ cons' = cons + 1
      /\ UNCHANGED <<cpu, rec, prod, busy, stats, woken, ready, renewed, task, starts>>
  BY DEF HandleNext, Readable, program, reactor
<1>1. TypeOK'
  <2>1. cons' \in 0 .. prod /\ prod - cons' <= Capacity
    BY <1>0, EventRingAssumption DEF TypeOK
  <2>2. busy \subseteq cons' .. prod - 1
    BY <1>0 DEF TypeOK
  <2> QED BY <1>0, <2>1, <2>2 DEF TypeOK
<1>2. LossIsCounted'
  <2>1. Observed' = Observed
    BY <1>0 DEF Observed
  <2> QED BY <1>0, <2>1, ObservedFinite DEF LossIsCounted, Observed, TypeOK
<1> QED BY <1>0, <1>1, <1>2 DEF NoSleepOverWork, NoClearOverWork

LEMMA WaitIInv ==
  ASSUME IInv,
         \/ Register \/ Readiness \/ Wake \/ Drained \/ ClearReady
         \/ Stop \/ UNCHANGED vars
  PROVE  IInv'
<1> USE DEF IInv
<1>0. UNCHANGED <<cpu, rec, prod, cons, busy, stats, handled, starts>>
  BY DEF Register, Readiness, Wake, Drained, ClearReady, Stop, vars, program,
         ring, reactor
<1>1. TypeOK'
  BY <1>0 DEF TypeOK, Register, Readiness, Wake, Drained, ClearReady, Stop,
              reactor, vars
<1>2. LossIsCounted'
  <2>1. task # "down" \/ task' = "down" \/ task' = task
    BY DEF Register, Readiness, Wake, Drained, ClearReady, Stop, vars
  <2>2. task' # "down" => task # "down"
    BY <2>1
  <2> QED BY <1>0, <2>2 DEF LossIsCounted
<1>3. (Readable' <=> Readable) /\ (ToNotify' <=> ToNotify)
  BY <1>0 DEF Readable, ToNotify
<1>4. (NoSleepOverWork /\ NoClearOverWork)'
  <2>1. CASE Register
    BY <2>1 DEF Register, NoSleepOverWork, NoClearOverWork
  <2>2. CASE Readiness
    BY <1>3, <2>2 DEF Readiness, NoSleepOverWork, NoClearOverWork, ToNotify, Readable
  <2>3. CASE Wake \/ Stop
    BY <2>3 DEF Wake, Stop, NoSleepOverWork, NoClearOverWork
  <2>4. CASE Drained
    BY <1>3, <2>4 DEF Drained, NoSleepOverWork, NoClearOverWork
  <2>5. CASE ClearReady
    BY <1>3, <2>5 DEF ClearReady, NoSleepOverWork, NoClearOverWork, ToNotify
  <2>6. CASE UNCHANGED vars
    BY <1>3, <2>6 DEF vars, reactor, NoSleepOverWork, NoClearOverWork, ToNotify
  <2> QED BY <2>1, <2>2, <2>3, <2>4, <2>5, <2>6
<1> QED BY <1>1, <1>2, <1>4

LEMMA StepIInv == IInv /\ [Next]_vars => IInv'
  BY StartIInv, ObserveIInv, ReserveIInv, SubmitIInv, NotifyIInv, HandleNextIInv,
     WaitIInv DEF Next, Step, Program, Drain

(* The inductive invariant holds in every behaviour.                       *)
THEOREM Invariance == Spec => []IInv
  BY InitIInv, StepIInv, PTL DEF Spec

(* Every event the program observed is accounted for: handled, waiting,    *)
(* counted as dropped, or with a program (fim.bpf.c, stats.h, runtime.rs). *)
THEOREM LossCounted == Spec => []LossIsCounted
<1>1. IInv => LossIsCounted
  BY DEF IInv
<1> QED BY <1>1, Invariance, PTL

(* The drain loop never waits over a record it could read without a        *)
(* wake-up on its way (runtime.rs run).                                    *)
THEOREM NeverSleepsOver == Spec => []NoSleepOverWork
<1>1. IInv => NoSleepOverWork
  BY DEF IInv
<1> QED BY <1>1, Invariance, PTL
=============================================================================
