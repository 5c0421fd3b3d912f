------------------------------- MODULE Daemon -------------------------------
(***************************************************************************)
(* Shutdown of the daemon: the detectors' event loops                      *)
(* (crates/kernelradar-detectors/src/runtime.rs run), the self-protect     *)
(* reader (lsm.rs spawn_selfprotect_reader), the future they race against  *)
(* their ring buffer (util.rs shutdown_signal), the join and the final     *)
(* save (crates/kernelradar-cli/src/main.rs run_daemon), the periodic save *)
(* (baseline.rs spawn_periodic_save), and SIGTERM or SIGINT at any moment. *)
(*                                                                         *)
(* The tasks run on the threads of a multi-threaded runtime: every step of *)
(* one may come between two steps of another.  tokio::select! polls its    *)
(* branches in random order, and makes a new shutdown_signal future each   *)
(* time round the loop; a signal reaches the futures that have been polled *)
(* and not dropped when it is delivered, and no other.                     *)
(*                                                                         *)
(* A record in the baseline stands for what an event leaves behind in      *)
(* memory; a save is one step here (BaselineFile takes it apart).          *)
(* Readiness without events is left out: it only repeats a handling phase  *)
(* with nothing to do.  The baseline is enabled.                           *)
(***************************************************************************)
EXTENDS Integers, FiniteSets

CONSTANTS
  Detector,   \* the enabled detectors, whose handles run_daemon awaits
  Reader,     \* tasks that share the pipeline but are not awaited
  AskOnce,    \* TRUE: one stop signal; FALSE: an operator who repeats it
  MaxEvents   \* bound: events per task

Task == Detector \cup Reader

ASSUME DaemonAssumption ==
  /\ Detector \cap Reader = {}
  /\ AskOnce \in BOOLEAN /\ MaxEvents \in Nat

VARIABLES
  phase,      \* phase[t]: where a task is in its loop
  ring,       \* ring[t]: events in its ring buffer
  raised,     \* raised[t]: events the kernel has raised (for MaxEvents)
  heard,      \* tasks whose pending shutdown_signal future is resolved
  installed,  \* the process has installed its signal handlers
  asked,      \* a stop signal has been sent
  main,       \* where run_daemon is
  learned,    \* learned[t]: events of t recorded in the baseline in memory
  disk,       \* the baseline file: what of `learned` it holds
  saved       \* outcome of the final save

vars == <<phase, ring, raised, heard, installed, asked, main, learned, disk,
          saved>>

Phase == {"loading", "select", "parked", "handling", "done", "failed"}
Ended == {"done", "failed"}

Alive == main \notin {"stopped", "killed"}

Init ==
  /\ phase = [t \in Task |-> "loading"]
  /\ ring = [t \in Task |-> 0]
  /\ raised = ring /\ learned = ring /\ disk = ring
  /\ heard = {}
  /\ installed = FALSE
  /\ asked = FALSE
  /\ main = "joining"
  /\ saved = "no"

-----------------------------------------------------------------------------
(* A task.                                                                 *)

(* TracepointDetector::load, attach and AsyncFd: may fail, and the task    *)
(* then ends; the others carry on.                                         *)
Load(t) ==
  /\ Alive /\ phase[t] = "loading"
  /\ \E p \in {"select", "failed"} : phase' = [phase EXCEPT ![t] = p]
  /\ UNCHANGED <<ring, raised, heard, installed, asked, main, learned, disk, saved>>

(* select! polls the new shutdown_signal future: from now on it hears      *)
(* signals.  The first poll of any task installs the handlers.             *)
Listen(t) ==
  /\ Alive /\ phase[t] = "select"
  /\ phase' = [phase EXCEPT ![t] = "parked"]
  /\ installed' = TRUE
  /\ UNCHANGED <<ring, raised, heard, asked, main, learned, disk, saved>>

(* The readable branch wins, before the signal branch was polled or while  *)
(* it waits; the future is dropped with what it may have heard.            *)
TakeReady(t) ==
  /\ Alive /\ phase[t] \in {"select", "parked"}
  /\ ring[t] > 0
  /\ phase' = [phase EXCEPT ![t] = "handling"]
  /\ heard' = heard \ {t}
  /\ UNCHANGED <<ring, raised, installed, asked, main, learned, disk, saved>>

(* handle(&ev): the event is recorded in the baseline.                     *)
HandleEvent(t) ==
  /\ Alive /\ phase[t] = "handling"
  /\ ring[t] > 0
  /\ ring' = [ring EXCEPT ![t] = @ - 1]
  /\ learned' = [learned EXCEPT ![t] = @ + 1]
  /\ UNCHANGED <<phase, raised, heard, installed, asked, main, disk, saved>>

(* ring.next() is None: clear_ready and round the loop.                    *)
Drained(t) ==
  /\ Alive /\ phase[t] = "handling"
  /\ ring[t] = 0
  /\ phase' = [phase EXCEPT ![t] = "select"]
  /\ UNCHANGED <<ring, raised, heard, installed, asked, main, learned, disk, saved>>

(* The signal branch wins; events still in the ring stay there.            *)
Break(t) ==
  /\ Alive /\ phase[t] = "parked" /\ t \in heard
  /\ phase' = [phase EXCEPT ![t] = "done"]
  /\ heard' = heard \ {t}
  /\ UNCHANGED <<ring, raised, installed, asked, main, learned, disk, saved>>

(* readable_mut fails, and with it the task.                               *)
ReadyFails(t) ==
  /\ Alive /\ phase[t] = "parked"
  /\ phase' = [phase EXCEPT ![t] = "failed"]
  /\ heard' = heard \ {t}
  /\ UNCHANGED <<ring, raised, installed, asked, main, learned, disk, saved>>

-----------------------------------------------------------------------------
(* run_daemon.                                                             *)

(* Faulty variant: wait for any of the handles.                            *)
AnyJoined == \E d \in Detector : phase[d] \in Ended

(* await_all_detectors has returned.                                       *)
AllJoined == \A d \in Detector : phase[d] \in Ended

Join ==
  /\ main = "joining" /\ AllJoined
  /\ main' = "saving"
  /\ UNCHANGED <<phase, ring, raised, heard, installed, asked, learned, disk, saved>>

(* Faulty variant: the daemon ends without the save.                       *)
FinalSaveMissing ==
  /\ main = "saving"
  /\ main' = "saved"
  /\ saved' = "ok"
  /\ UNCHANGED <<phase, ring, raised, heard, installed, asked, learned, disk>>

(* The final baseline_save(), which may fail and is not retried.           *)
FinalSave ==
  /\ main = "saving"
  /\ main' = "saved"
  /\ \/ disk' = learned /\ saved' = "ok"
     \/ disk' = disk /\ saved' = "failed"
  /\ UNCHANGED <<phase, ring, raised, heard, installed, asked, learned>>

(* run_daemon returns and the runtime is dropped with the tasks that are   *)
(* left.                                                                   *)
Exit ==
  /\ main = "saved"
  /\ main' = "stopped"
  /\ UNCHANGED <<phase, ring, raised, heard, installed, asked, learned, disk, saved>>

(* spawn_periodic_save.                                                    *)
PeriodicSave ==
  /\ Alive
  /\ disk' = learned
  /\ UNCHANGED <<phase, ring, raised, heard, installed, asked, main, learned, saved>>

-----------------------------------------------------------------------------
(* The environment.                                                        *)

(* The kernel raises an event while the programs of t are attached.        *)
Event(t) ==
  /\ Alive /\ phase[t] \notin {"loading"} \cup Ended
  /\ raised[t] < MaxEvents
  /\ raised' = [raised EXCEPT ![t] = @ + 1]
  /\ ring' = [ring EXCEPT ![t] = @ + 1]
  /\ UNCHANGED <<phase, heard, installed, asked, main, learned, disk, saved>>

(* Faulty variant: SIGTERM, with detectors that only await SIGINT.         *)
DeliveredToNone == {}

(* The tasks a signal reaches.                                             *)
Delivered == {t \in Task : phase[t] = "parked"}

(* SIGTERM or SIGINT.  Before a handler is installed it ends the process.  *)
Signal ==
  /\ Alive /\ (AskOnce => ~asked)
  /\ asked' = TRUE
  /\ IF installed THEN heard' = heard \cup Delivered /\ UNCHANGED main
                  ELSE main' = "killed" /\ UNCHANGED heard
  /\ UNCHANGED <<phase, ring, raised, installed, learned, disk, saved>>

(* SIGKILL, TimeoutStopSec after the signal.                               *)
Kill ==
  /\ Alive /\ asked
  /\ main' = "killed"
  /\ UNCHANGED <<phase, ring, raised, heard, installed, asked, learned, disk, saved>>

Step(t) ==
  \/ Load(t) \/ Listen(t) \/ TakeReady(t)
  \/ HandleEvent(t) \/ Drained(t) \/ Break(t)

MainStep == Join \/ FinalSave \/ Exit

Next ==
  \/ \E t \in Task : Step(t) \/ ReadyFails(t) \/ Event(t)
  \/ MainStep \/ PeriodicSave
  \/ Signal \/ Kill

Spec == Init /\ [][Next]_vars

(* The runtime runs every task that can make a step.  Nothing obliges the  *)
(* kernel to raise events, readable_mut to fail, the timer to fire in time *)
(* or systemd to kill.                                                     *)
FairSpec ==
  /\ Spec
  /\ \A t \in Task : WF_vars(Step(t))
  /\ WF_vars(MainStep)

(* An operator who repeats the signal as long as the daemon runs.          *)
InsistentSpec == FairSpec /\ WF_vars(Signal)

-----------------------------------------------------------------------------
TypeOK ==
  /\ phase \in [Task -> Phase]
  /\ ring \in [Task -> Nat] /\ raised \in [Task -> Nat]
  /\ learned \in [Task -> Nat] /\ disk \in [Task -> Nat]
  /\ heard \in SUBSET Task
  /\ installed \in BOOLEAN /\ asked \in BOOLEAN
  /\ main \in {"joining", "saving", "saved", "stopped", "killed"}
  /\ saved \in {"no", "ok", "failed"}

(* A daemon that went through the join and saved keeps on disk every       *)
(* event its detectors recorded, however the last events, the signal and   *)
(* the periodic save interleaved (main.rs:472-477, "loses up to one        *)
(* save_interval_secs" otherwise).  JoinedIsKept says what the readers, *)
(* which nobody awaits, get.                                               *)
GracefulStopKeepsAll ==
  (main \in {"saved", "stopped"} /\ saved = "ok")
    => \A d \in Detector : disk[d] = learned[d]

(* The self-protect reader is not awaited (lsm.rs:197), and may record     *)
(* more while run_daemon saves and returns.  But what it had recorded when *)
(* the last detector was joined is in the file from a successful final     *)
(* save on, whatever is saved or recorded after it.                        *)
JoinedIsKept ==
  \A r \in Reader, n \in 1..MaxEvents :
    [](main = "saving" /\ learned[r] >= n
         => [](saved = "ok" => disk[r] >= n))

(* The survivors are not abandoned (main.rs:467-469): from the final save  *)
(* on no detector handles, or would still handle, an event.                *)
NoSurvivorAbandoned ==
  main \in {"saving", "saved", "stopped"}
    => \A d \in Detector : phase[d] \in Ended

(* The daemon stops by itself only when every detector has failed: one     *)
(* that ran and was never signalled keeps it up.                           *)
StopsOnlyWhenAsked ==
  [][(main = "joining" /\ main' = "saving" /\ ~asked)
       => \A d \in Detector : phase[d] = "failed"]_vars

(* However many signals are lost, an operator who insists gets the daemon  *)
(* to end.                                                                 *)
InsistenceStops == <>(main \in {"stopped", "killed"})

(* "on either signal every join handle resolves nearly simultaneously"     *)
(* (main.rs:465-467): one signal ends the daemon.                          *)
OneSignalStops == asked ~> (main \in {"stopped", "killed"})
=============================================================================
