----------------------------- MODULE Integrity -----------------------------
(***************************************************************************)
(* The integrity check of BPF objects: the table of hashes that            *)
(* crates/kernelradar-detectors/build.rs makes when the daemon is built,   *)
(* and the loads of Enforcement, each of which reads its file once, checks *)
(* the bytes it has read (integrity.rs verify) and hands the same bytes to *)
(* the kernel (lsm.rs load_lsm, runtime.rs TracepointDetector::load),      *)
(* while somebody replaces the files.  A hash stands for the content.      *)
(***************************************************************************)
EXTENDS Enforcement

CONSTANT MaxReplaced  \* bound: replacements of files

(* What a file may contain: what it did when the daemon was built, or not. *)
Missing == "missing"
Content == {"built", "other"}

(* The objects by their names in the table: an LSM program or a detector's.*)
Object == Hook \cup Detector

ASSUME IntegrityAssumption ==
  /\ Hook \cap Detector = {}
  /\ MaxReplaced \in Nat

VARIABLES
  table,      \* BPF_HASHES: the content at build time, or Missing
  disk,       \* the object files
  configured, \* [integrity] strict_mode
  strict,     \* STRICT_MODE
  booted,     \* init_runtime_services has run
  read,       \* read[o]: the bytes a load has read, or Missing
  loaded,     \* loaded[o]: the bytes the kernel runs, or Missing
  refused,    \* history: objects refused for their bytes
  replaced    \* history: how many times a file was replaced

files == <<table, disk, configured, replaced>>
check == <<strict, booted, read, loaded, refused>>
ivars == <<vars, files, check>>

IInit ==
  /\ Init
  /\ table \in [Object -> {"built", Missing}]
  /\ disk \in [Object -> Content]
  /\ configured \in BOOLEAN /\ strict = TRUE /\ booted = FALSE
  /\ read = [o \in Object |-> Missing]
  /\ loaded = [o \in Object |-> Missing]
  /\ refused = {} /\ replaced = 0

(* Faulty variant: the mode stays what it is compiled to be.               *)
BootDefault ==
  /\ pc # "down" /\ ~booted /\ booted' = TRUE
  /\ UNCHANGED <<vars, files, strict, read, loaded, refused>>

(* init_runtime_services: set_strict_mode comes first.                     *)
Boot ==
  /\ pc # "down" /\ ~booted /\ booted' = TRUE
  /\ strict' = configured
  /\ UNCHANGED <<vars, files, read, loaded, refused>>

-----------------------------------------------------------------------------
(* One load.                                                               *)

(* verify: in strict mode a mismatch and a missing hash refuse the load.   *)
Verified(o, bytes) == ~strict \/ (table[o] # Missing /\ bytes = table[o])

(* The file is read.                                                       *)
Read(o) ==
  /\ booted /\ read[o] = Missing /\ disk[o] # Missing
  /\ \/ o = pc /\ o \in enabled /\ step = "load"
     \/ o \in Detector /\ pc = "joining" /\ det[o] = "spawned"
  /\ read' = [read EXCEPT ![o] = disk[o]]
  /\ refused' = IF Verified(o, disk[o]) THEN refused ELSE refused \cup {o}
  /\ UNCHANGED <<vars, files, strict, booted, loaded>>

(* Faulty variant: the file is read again for the load.                    *)
BytesReadAgain(o) == disk[o]

(* The bytes that go to the kernel are those that were checked.            *)
BytesFor(o) == read[o]

(* A load that was not refused, and ends in one way or another.            *)
LoadChecked(o) ==
  /\ read[o] # Missing /\ o \notin refused
  /\ \/ o = pc /\ Load
     \/ o \in Detector /\ LoadDetector(o)
  /\ loaded' = IF o \in attached' \/ (o \in Detector /\ det'[o] = "running")
               THEN [loaded EXCEPT ![o] = BytesFor(o)] ELSE loaded
  /\ UNCHANGED <<files, strict, booted, read, refused>>

(* A load that fails: no file, refused, or an LSM load that the kernel     *)
(* does not take.                                                          *)
LoadStops(o) ==
  /\ booted
  /\ \/ o = pc /\ LoadFails
     \/ o \in Detector /\ DetectorFails(o) /\ (read[o] = Missing \/ o \in refused)
  /\ UNCHANGED <<files, check>>

(* The rest of Enforcement.                                                *)
Otherwise ==
  /\ booted
  /\ Skip \/ Arm \/ Refuse \/ Insert \/ Filled \/ Spawn
  /\ UNCHANGED <<files, check>>

(* An object is dropped, alone or with the daemon.                         *)
Dropped ==
  /\ FillFails \/ Exit \/ \E sender \in {"init", "self", "other"} : Kill(sender)
  /\ loaded' = [o \in Object |->
                  IF pc' = "down" \/ (o \in Hook /\ o \notin attached')
                  THEN Missing ELSE loaded[o]]
  /\ UNCHANGED <<files, strict, booted, read, refused>>

(* Somebody replaces a file, or takes it away.                             *)
Replace(o, content) ==
  /\ replaced < MaxReplaced /\ content # disk[o]
  /\ disk' = [disk EXCEPT ![o] = content]
  /\ replaced' = replaced + 1
  /\ UNCHANGED <<vars, table, configured, check>>

INext ==
  \/ Boot \/ Otherwise \/ Dropped
  \/ \E o \in Object : Read(o) \/ LoadChecked(o) \/ LoadStops(o)
  \/ \E o \in Object, content \in Content \cup {Missing} : Replace(o, content)

ISpec == IInit /\ [][INext]_ivars

-----------------------------------------------------------------------------
(* What runs in the kernel: the programs of attached hooks and of running  *)
(* detectors.                                                              *)
Running == attached \cup {d \in Detector : pc # "down" /\ det[d] = "running"}

(* "When `strict_mode = true` (default), a hash mismatch or a missing      *)
(* build-time hash refuses to load the affected detector"                  *)
(* (config.rs:42-44): what runs is what was built, whenever the files are  *)
(* replaced, also between the check and the load.                          *)
RunsWhatWasBuilt ==
  configured => \A o \in Running : loaded[o] = table[o] /\ table[o] # Missing

(* "Operators rebuilding .bpf.o files in place can flip this off"          *)
(* (integrity.rs:29-30): then no object is refused for its bytes, the ones *)
(* of the hooks, which load first, included.                               *)
RelaxedRefusesNone == ~configured => refused = {}
=============================================================================
