----------------------------- MODULE Enforcement -----------------------------
(***************************************************************************)
(* Enforcement and self-protection: the LSM programs the daemon installs   *)
(* at startup, one after the other (crates/kernelradar-detectors/src/      *)
(* lsm.rs, crates/kernelradar-cli/src/bootstrap.rs), what they decide      *)
(* (crates/kernelradar-bpf/src/enforce_bpf.bpf.c, enforce_kmod.bpf.c,      *)
(* selfprotect.bpf.c), the detectors that the daemon loads after them, and *)
(* what other processes try meanwhile.                                     *)
(*                                                                         *)
(* The programs know a process by the name (comm) of the thread that makes *)
(* the call.  The main thread of the daemon has the binary's name; the     *)
(* detectors load their objects on the runtime's worker threads, which     *)
(* have a name of their own (CHANGELOG.md:57).                             *)
(***************************************************************************)
EXTENDS Integers, FiniteSets, Sequences

CONSTANTS
  Entry,       \* names: comms and allowlist entries
  Usable,      \* the entries that fit a comm: 1 to 15 bytes long
  MapMax,      \* entries a comm map holds (256)
  Allowlist,   \* the configured lists: [{"bpf", "kmod"} -> Seq(Entry)]
  MainComm,    \* the comm of the daemon's main thread
  WorkerComm,  \* the comm of the runtime's worker threads
  Detector     \* the enabled detectors

Hook == {"selfprotect", "bpf", "kmod"}
CommHook == {"bpf", "kmod"}

Listed(h) == {Allowlist[h][i] : i \in 1 .. Len(Allowlist[h])} \cap Usable

ASSUME EnforcementAssumption ==
  /\ Usable \subseteq Entry
  /\ MainComm \in Usable /\ WorkerComm \in Usable
  /\ MapMax \in Nat
  /\ Allowlist \in [CommHook -> Seq(Entry)]

VARIABLES
  enabled,  \* the hooks the configuration enables
  pc,       \* the hook main is at, or what it does after them
  step,     \* what it does for that hook
  index,    \* the next entry of the allowlist
  attached, \* the hooks whose program is attached
  allowed,  \* allowed[h]: the comm map of h
  armed,    \* kr_protected_tgid holds the daemon's
  det       \* det[d]: where a detector is

vars == <<enabled, pc, step, index, attached, allowed, armed, det>>

Init ==
  /\ enabled \in SUBSET Hook
  /\ pc = "selfprotect" /\ step = "load"
  /\ index = 1
  /\ attached = {}
  /\ allowed = [h \in CommHook |-> {}]
  /\ armed = FALSE
  /\ det = [d \in Detector |-> "none"]

-----------------------------------------------------------------------------
(* What the programs decide.                                               *)

(* kr_bpf_enforce for BPF_PROG_LOAD, kr_kmod_enforce for a file that the   *)
(* kernel reads with the id that the program takes for a module's          *)
(* (enforce_kmod.bpf.c:18 has 1, which the kernel gives to firmware), of   *)
(* any process that asks; asking changes nothing.                          *)
Grants(h, comm) == h \in attached => comm \in allowed[h]

-----------------------------------------------------------------------------
(* lsm.rs install, on the main thread.                                     *)

After(h) == CASE h = "selfprotect" -> "bpf" [] h = "bpf" -> "kmod" [] h = "kmod" -> "spawn"

GoOn == pc' = After(pc) /\ step' = "load" /\ index' = 1

Skip ==
  /\ pc \in Hook /\ step = "load" /\ pc \notin enabled
  /\ GoOn
  /\ UNCHANGED <<enabled, attached, allowed, armed, det>>

(* load_lsm: no file, a bad hash, the verifier, BPF not among the LSMs, or *)
(* a hook attached before that does not grant the load.                    *)
LoadFails ==
  /\ pc \in enabled /\ step = "load"
  /\ GoOn
  /\ UNCHANGED <<enabled, attached, allowed, armed, det>>

Load ==
  /\ pc \in enabled /\ step = "load"
  /\ Grants("bpf", MainComm)
  /\ attached' = attached \cup {pc}
  /\ step' = "fill"
  /\ UNCHANGED <<enabled, pc, index, allowed, armed, det>>

(* kr_protected_tgid, and the reader of the denials.                       *)
Arm ==
  /\ pc = "selfprotect" /\ step = "fill"
  /\ armed' = TRUE
  /\ GoOn
  /\ UNCHANGED <<enabled, attached, allowed, det>>

(* Faulty variant: a program whose map cannot be filled in stays.          *)
FillFailsKept ==
  /\ pc \in Hook /\ step = "fill"
  /\ GoOn
  /\ UNCHANGED <<enabled, attached, allowed, armed, det>>

(* A map is missing or refuses: the object is dropped, and with it its     *)
(* program is detached.                                                    *)
FillFails ==
  /\ pc \in Hook /\ step = "fill"
  /\ attached' = attached \ {pc}
  /\ allowed' = IF pc \in CommHook THEN [allowed EXCEPT ![pc] = {}] ELSE allowed
  /\ armed' = (armed /\ pc # "selfprotect")
  /\ GoOn
  /\ UNCHANGED <<enabled, det>>

AtEntry == pc \in CommHook /\ step = "fill" /\ index <= Len(Allowlist[pc])

(* populate_comm_allowlist: an empty or too long entry is refused alone.   *)
Refuse ==
  /\ AtEntry /\ Allowlist[pc][index] \notin Usable
  /\ index' = index + 1
  /\ UNCHANGED <<enabled, pc, step, attached, allowed, armed, det>>

Insert ==
  /\ AtEntry /\ Allowlist[pc][index] \in Usable
  /\ LET filled == allowed[pc] \cup {Allowlist[pc][index]}
     IN  /\ Cardinality(filled) <= MapMax
         /\ allowed' = [allowed EXCEPT ![pc] = filled]
  /\ index' = index + 1
  /\ UNCHANGED <<enabled, pc, step, attached, armed, det>>

Filled ==
  /\ pc \in CommHook /\ step = "fill" /\ index > Len(Allowlist[pc])
  /\ GoOn
  /\ UNCHANGED <<enabled, attached, allowed, armed, det>>

Install == Skip \/ LoadFails \/ Load \/ Arm \/ FillFails \/ Refuse \/ Insert \/ Filled

-----------------------------------------------------------------------------
(* run_daemon.                                                             *)

Spawn ==
  /\ pc = "spawn"
  /\ pc' = "joining"
  /\ det' = [d \in Detector |-> "spawned"]
  /\ UNCHANGED <<enabled, step, index, attached, allowed, armed>>

(* A detector loads its object, on a worker thread.                        *)
LoadDetector(d) ==
  /\ pc = "joining" /\ det[d] = "spawned"
  /\ IF Grants("bpf", WorkerComm)
     THEN \E s \in {"running", "failed"} : det' = [det EXCEPT ![d] = s]
     ELSE det' = [det EXCEPT ![d] = "denied"]
  /\ UNCHANGED <<enabled, pc, step, index, attached, allowed, armed>>

(* No file, or a bad hash: the kernel is not asked.                        *)
DetectorFails(d) ==
  /\ pc = "joining" /\ det[d] = "spawned"
  /\ det' = [det EXCEPT ![d] = "failed"]
  /\ UNCHANGED <<enabled, pc, step, index, attached, allowed, armed>>

(* Every detector has ended: the daemon ends too, and the kernel detaches  *)
(* what it had loaded.                                                     *)
Exit ==
  /\ pc = "joining" /\ \A d \in Detector : det[d] \in {"failed", "denied"}
  /\ pc' = "down"
  /\ attached' = {} /\ armed' = FALSE
  /\ UNCHANGED <<enabled, step, index, allowed, det>>

-----------------------------------------------------------------------------
(* kr_task_kill: PID 1 and the daemon itself may signal the daemon.        *)
MayKill(sender) ==
  ("selfprotect" \in attached /\ armed) => sender \in {"init", "self"}

(* A signal that ends the daemon.                                          *)
Kill(sender) ==
  /\ pc # "down" /\ MayKill(sender)
  /\ pc' = "down"
  /\ attached' = {} /\ armed' = FALSE
  /\ UNCHANGED <<enabled, step, index, allowed, det>>

Next ==
  \/ Install \/ Spawn \/ Exit
  \/ \E d \in Detector : LoadDetector(d) \/ DetectorFails(d)
  \/ \E sender \in {"init", "self", "other"} : Kill(sender)

Spec == Init /\ [][Next]_vars

-----------------------------------------------------------------------------
TypeOK ==
  /\ enabled \subseteq Hook
  /\ pc \in Hook \cup {"spawn", "joining", "down"}
  /\ step \in {"load", "fill"}
  /\ index \in Nat \ {0}
  /\ attached \subseteq enabled
  /\ allowed \in [CommHook -> SUBSET Usable]
  /\ \A h \in CommHook : Cardinality(allowed[h]) <= MapMax
  /\ armed \in BOOLEAN
  /\ det \in [Detector -> {"none", "spawned", "running", "failed", "denied"}]

(* A hook is being set up: its program decides, with what its map has.     *)
Filling(h) == pc = h /\ step = "fill"

(* "On enabled-but-failed-load we LOG the error and continue running in    *)
(* observe-only mode" (lsm.rs:16-17): a program that stays attached has    *)
(* its whole allowlist, or its TGID, and one that could not be set up      *)
(* decides nothing.                                                        *)
EnforcedOnlyWhole ==
  \A h \in attached :
    Filling(h) \/ (IF h = "selfprotect" THEN armed ELSE allowed[h] = Listed(h))

(* Outside the setup of a hook a process on its list is never denied: not  *)
(* by an entry that was refused before its own, not by a hook that failed, *)
(* not by a daemon that is gone.  It follows from EnforcedOnlyWhole.       *)
ListedNeverDenied ==
  \A h \in CommHook : ~Filling(h) => \A comm \in Listed(h) : Grants(h, comm)

(* "denies BPF_PROG_LOAD for any process whose comm isn't in the           *)
(* allowlist" (docs/hardening.md:140-141): the daemon's comm is on it, so  *)
(* its detectors' loads are not denied.                                    *)
OwnLoadsNotDenied ==
  MainComm \in Listed("bpf") => \A d \in Detector : det[d] # "denied"
=============================================================================
