---------------------------- MODULE DaemonProofs ----------------------------
(***************************************************************************)
(* Proofs about Daemon for any sets of detectors and readers.  The         *)
(* inductive invariant adds to the types and the two safety invariants     *)
(* that nobody has heard or obeyed a signal that was not sent.             *)
(***************************************************************************)
EXTENDS Daemon, TLAPS

SignalsAreSent == (heard # {} \/ \E t \in Task : phase[t] = "done") => asked

IInv ==
  /\ TypeOK
  /\ SignalsAreSent
  /\ NoSurvivorAbandoned
  /\ GracefulStopKeepsAll

LEMMA InitIInv == Init => IInv
<1> SUFFICES ASSUME Init PROVE IInv
  OBVIOUS
<1>1. TypeOK
  <2>1. phase \in [Task -> Phase] /\ ring \in [Task -> Nat]
    BY DEF Init, Phase
  <2> QED BY <2>1 DEF Init, TypeOK
<1>2. SignalsAreSent /\ NoSurvivorAbandoned /\ GracefulStopKeepsAll
  BY DEF Init, SignalsAreSent, NoSurvivorAbandoned, GracefulStopKeepsAll
<1> QED BY <1>1, <1>2 DEF IInv

(* A step of one task: it records an event only while it handles one, and  *)
(* a task that has ended takes no step.                                    *)
LEMMA TaskIInv ==
  ASSUME IInv, NEW t \in Task, Step(t) \/ ReadyFails(t) \/ Event(t)
  PROVE  IInv'
<1> USE DEF IInv, Phase, Ended
<1>1. CASE Load(t)
  BY <1>1 DEF Load, TypeOK, SignalsAreSent, NoSurvivorAbandoned,
              GracefulStopKeepsAll
<1>2. CASE Listen(t)
  BY <1>2 DEF Listen, TypeOK, SignalsAreSent, NoSurvivorAbandoned,
              GracefulStopKeepsAll
<1>3. CASE TakeReady(t)
  BY <1>3 DEF TakeReady, TypeOK, SignalsAreSent, NoSurvivorAbandoned,
              GracefulStopKeepsAll
<1>4. CASE HandleEvent(t)
  <2>1. TypeOK'
    BY <1>4 DEF HandleEvent, TypeOK
  <2>2. SignalsAreSent' /\ NoSurvivorAbandoned'
    BY <1>4 DEF HandleEvent, TypeOK, SignalsAreSent, NoSurvivorAbandoned
  <2>3. GracefulStopKeepsAll'
    \* a detector that handles an event has not ended, so nothing is saved yet
    BY <1>4 DEF HandleEvent, TypeOK, NoSurvivorAbandoned, GracefulStopKeepsAll
  <2> QED BY <2>1, <2>2, <2>3
<1>5. CASE Drained(t)
  BY <1>5 DEF Drained, TypeOK, SignalsAreSent, NoSurvivorAbandoned,
              GracefulStopKeepsAll
<1>6. CASE Break(t)
  BY <1>6 DEF Break, TypeOK, SignalsAreSent, NoSurvivorAbandoned,
              GracefulStopKeepsAll
<1>7. CASE ReadyFails(t)
  BY <1>7 DEF ReadyFails, TypeOK, SignalsAreSent, NoSurvivorAbandoned,
              GracefulStopKeepsAll
<1>8. CASE Event(t)
  BY <1>8 DEF Event, TypeOK, SignalsAreSent, NoSurvivorAbandoned,
              GracefulStopKeepsAll
<1> QED BY <1>1, <1>2, <1>3, <1>4, <1>5, <1>6, <1>7, <1>8 DEF Step

LEMMA StepIInv == IInv /\ [Next]_vars => IInv'
<1> SUFFICES ASSUME IInv, [Next]_vars PROVE IInv'
  OBVIOUS
<1> USE DEF IInv
<1>1. CASE \E t \in Task : Step(t) \/ ReadyFails(t) \/ Event(t)
  BY <1>1, TaskIInv
<1>2. CASE Join
  BY <1>2 DEF Join, AllJoined, TypeOK, SignalsAreSent, NoSurvivorAbandoned,
              GracefulStopKeepsAll
<1>3. CASE FinalSave
  BY <1>3 DEF FinalSave, TypeOK, SignalsAreSent, NoSurvivorAbandoned,
              GracefulStopKeepsAll, Task
<1>4. CASE Exit
  BY <1>4 DEF Exit, TypeOK, SignalsAreSent, NoSurvivorAbandoned,
              GracefulStopKeepsAll
<1>5. CASE PeriodicSave
  BY <1>5 DEF PeriodicSave, TypeOK, SignalsAreSent, NoSurvivorAbandoned,
              GracefulStopKeepsAll
<1>6. CASE Signal
  <2>1. TypeOK'
    BY <1>6 DEF Signal, Delivered, TypeOK
  <2>2. SignalsAreSent' /\ NoSurvivorAbandoned' /\ GracefulStopKeepsAll'
    BY <1>6 DEF Signal, Alive, SignalsAreSent, NoSurvivorAbandoned,
                GracefulStopKeepsAll
  <2> QED BY <2>1, <2>2
<1>7. CASE Kill
  BY <1>7 DEF Kill, TypeOK, SignalsAreSent, NoSurvivorAbandoned,
              GracefulStopKeepsAll
<1>8. CASE UNCHANGED vars
  BY <1>8 DEF vars, TypeOK, SignalsAreSent, NoSurvivorAbandoned,
              GracefulStopKeepsAll
<1> QED BY <1>1, <1>2, <1>3, <1>4, <1>5, <1>6, <1>7, <1>8 DEF Next, MainStep

(* The inductive invariant holds in every behaviour.                       *)
THEOREM Invariance == Spec => []IInv
  BY InitIInv, StepIInv, PTL DEF Spec

(* run_daemon never reaches the final save with a detector that may still  *)
(* handle an event (main.rs await_all_detectors).                          *)
THEOREM NoneAbandoned == Spec => []NoSurvivorAbandoned
<1>1. IInv => NoSurvivorAbandoned
  BY DEF IInv
<1> QED BY <1>1, Invariance, PTL

(* After a successful final save the file holds everything the detectors   *)
(* recorded (main.rs run_daemon, baseline.rs save).                        *)
THEOREM StopKeepsAll == Spec => []GracefulStopKeepsAll
<1>1. IInv => GracefulStopKeepsAll
  BY DEF IInv
<1> QED BY <1>1, Invariance, PTL

(* Without a signal, run_daemon gets past the join only when every         *)
(* detector has failed.                                                    *)
THEOREM NeverStopsUnasked == Spec => StopsOnlyWhenAsked
<1>1. IInv /\ [Next]_vars =>
        [(main = "joining" /\ main' = "saving" /\ ~asked)
           => \A d \in Detector : phase[d] = "failed"]_vars
  <2> SUFFICES ASSUME IInv, [Next]_vars, main = "joining", main' = "saving",
                      ~asked, NEW d \in Detector
               PROVE  phase[d] = "failed"
    OBVIOUS
  <2>1. Join
    BY DEF Next, MainStep, Step, Load, Listen, TakeReady, HandleEvent, Drained,
           Break, ReadyFails, Event, FinalSave, Exit, PeriodicSave, Signal,
           Kill, vars
  <2>2. phase[d] \in Ended
    BY <2>1 DEF Join, AllJoined
  <2>3. phase[d] # "done"
    BY DEF IInv, SignalsAreSent, Task
  <2> QED BY <2>2, <2>3 DEF Ended
<1> QED BY <1>1, Invariance, PTL DEF Spec, StopsOnlyWhenAsked

(* Before the final save there is no outcome of it.                        *)
UnsavedBefore == main \in {"joining", "saving"} => saved = "no"

LEMMA NotSavedBefore == Spec => []UnsavedBefore
<1>1. Init => UnsavedBefore
  BY DEF Init, UnsavedBefore
<1>2. UnsavedBefore /\ [Next]_vars => UnsavedBefore'
  <2> SUFFICES ASSUME UnsavedBefore, [Next]_vars PROVE UnsavedBefore'
    OBVIOUS
  <2>1. CASE FinalSave
    BY <2>1 DEF FinalSave, UnsavedBefore
  <2>2. CASE ~FinalSave
    BY <2>2 DEF UnsavedBefore, Next, MainStep, Step, Load, Listen, TakeReady,
         HandleEvent, Drained, Break, ReadyFails, Event, Join, Exit,
         PeriodicSave, Signal, Kill, vars
  <2> QED BY <2>1, <2>2
<1> QED BY <1>1, <1>2, PTL DEF Spec

(* What r had recorded by the join stays recorded, and is in the file from *)
(* the final save on.                                                      *)
Kept(r, n) ==
  /\ main # "joining" /\ learned[r] >= n
  /\ saved = "ok" => disk[r] >= n

LEMMA StaysKept ==
  ASSUME NEW r \in Reader, NEW n \in Nat, TypeOK, UnsavedBefore, Kept(r, n),
         [Next]_vars
  PROVE  Kept(r, n)'
<1> USE DEF Kept, TypeOK
<1>0. r \in Task
  BY DEF Task
<1>1. CASE \E t \in Task : HandleEvent(t)
  BY <1>0, <1>1 DEF HandleEvent
<1>2. CASE FinalSave
  BY <1>0, <1>2 DEF FinalSave
<1>3. CASE PeriodicSave
  BY <1>0, <1>3 DEF PeriodicSave
<1>4. CASE Signal
  BY <1>4 DEF Signal
<1>5. CASE ~(\E t \in Task : HandleEvent(t)) /\ ~FinalSave /\ ~PeriodicSave /\ ~Signal
  BY <1>5 DEF Next, MainStep, Step, Load, Listen, TakeReady, Drained, Break,
       ReadyFails, Event, Join, Exit, Kill, vars
<1> QED BY <1>1, <1>2, <1>3, <1>4, <1>5

(* The reader that nobody joins loses nothing it recorded before the join: *)
(* it is in the file from the final save on (main.rs run_daemon, lsm.rs    *)
(* spawn_selfprotect_reader).                                              *)
THEOREM ReaderKept == Spec => JoinedIsKept
<1> SUFFICES ASSUME NEW r \in Reader, NEW n \in 1..MaxEvents
             PROVE  Spec => [](main = "saving" /\ learned[r] >= n
                                 => [](saved = "ok" => disk[r] >= n))
  BY DEF JoinedIsKept
<1>1. UnsavedBefore /\ main = "saving" /\ learned[r] >= n => Kept(r, n)
  BY DEF UnsavedBefore, Kept
<1>2. IInv /\ UnsavedBefore /\ Kept(r, n) /\ [Next]_vars => Kept(r, n)'
  BY StaysKept, DaemonAssumption DEF IInv
<1>3. Kept(r, n) => (saved = "ok" => disk[r] >= n)
  BY DEF Kept
<1> QED BY <1>1, <1>2, <1>3, Invariance, NotSavedBefore, PTL DEF Spec
=============================================================================
