---------------------------- MODULE BaselineFile ----------------------------
(***************************************************************************)
(* The baseline on disk: Baseline::save and load_or_default, step by step  *)
(* (crates/kernelradar-detectors/src/baseline.rs), by a daemon that may be *)
(* killed between any two of them, on a machine that may lose power, and   *)
(* `kernelradar baseline reset`, which runs in a process of its own        *)
(* (crates/kernelradar-cli/src/main.rs).                                   *)
(*                                                                         *)
(* The contents of a baseline are abstracted to how many events it has     *)
(* learned (gen), and to the number of resets there had been when its      *)
(* learning began (era).  save runs under the baseline's mutex: no event   *)
(* is recorded while it is on its way.  Of the file system only what the   *)
(* code relies on is modelled: a file that was synced survives a power     *)
(* loss whole, one that was not may be torn; a rename or a removal may be  *)
(* undone by a power loss until the file system has committed it, which    *)
(* the code does not wait for.                                             *)
(***************************************************************************)
EXTENDS Integers

CONSTANTS
  MaxGen,    \* bound: events learned
  MaxResets  \* bound: resets

ASSUME BaselineFileAssumption == MaxGen \in Nat /\ MaxResets \in Nat

VARIABLES
  up,      \* the daemon is running
  mem,     \* the baseline in its memory
  pc,      \* where save is; "idle" when the mutex is free
  text,    \* what save has serialised
  tmp,     \* baseline.json.tmp
  path,    \* baseline.json
  durable, \* baseline.json as the file system last committed it
  resets,  \* history: resets so far
  raced,   \* history: a reset met a running daemon, or power was lost
  floor    \* history: what the last successful save left behind

fvars == <<up, mem, pc, text, tmp, path, durable, resets, raced, floor>>

Content == [era : Nat, gen : Nat]
File == [there : BOOLEAN, whole : BOOLEAN, synced : BOOLEAN, is : Content]

Fresh == [era |-> resets, gen |-> 0]

NoFile == [there |-> FALSE, whole |-> FALSE, synced |-> FALSE,
           is |-> [era |-> 0, gen |-> 0]]

FileInit ==
  /\ up = FALSE
  /\ mem = [era |-> 0, gen |-> 0]
  /\ pc = "idle"
  /\ text = mem
  /\ tmp = NoFile /\ path = NoFile /\ durable = NoFile
  /\ resets = 0
  /\ raced = FALSE
  /\ floor = 0

-----------------------------------------------------------------------------
(* Baseline::save.                                                         *)

(* Serialise, with the mutex held.                                         *)
SaveStart ==
  /\ up /\ pc = "idle"
  /\ text' = mem
  /\ pc' = "unlink"
  /\ UNCHANGED <<up, mem, tmp, path, durable, resets, raced, floor>>

(* Drop a stale tmp; a failure to is ignored.                              *)
SaveUnlink ==
  /\ up /\ pc = "unlink"
  /\ tmp' \in {NoFile, tmp}
  /\ pc' = "open"
  /\ UNCHANGED <<up, mem, text, path, durable, resets, raced, floor>>

(* create_new: an error when there is a tmp, or for any other reason.      *)
SaveOpen ==
  /\ up /\ pc = "open"
  /\ \/ /\ ~tmp.there
        /\ tmp' = [NoFile EXCEPT !.there = TRUE]
        /\ pc' = "write"
     \/ /\ tmp' = tmp
        /\ pc' = "idle"
  /\ UNCHANGED <<up, mem, text, path, durable, resets, raced, floor>>

(* Faulty variant: a failed write does not stop the save.                  *)
SaveWriteUnchecked ==
  /\ up /\ pc = "write"
  /\ \E w \in BOOLEAN : tmp' = [tmp EXCEPT !.whole = w, !.is = text]
  /\ pc' = "sync"
  /\ UNCHANGED <<up, mem, text, path, durable, resets, raced, floor>>

(* write_all; the error leaves a part of the text in tmp.                  *)
SaveWrite ==
  /\ up /\ pc = "write"
  /\ \/ /\ tmp' = [tmp EXCEPT !.whole = TRUE, !.is = text]
        /\ pc' = "sync"
     \/ /\ tmp' = tmp
        /\ pc' = "idle"
  /\ UNCHANGED <<up, mem, text, path, durable, resets, raced, floor>>

(* Faulty variant: the file is not synced.                                 *)
SaveSyncSkipped ==
  /\ up /\ pc = "sync"
  /\ pc' = "rename"
  /\ UNCHANGED <<up, mem, text, tmp, path, durable, resets, raced, floor>>

(* sync_all, or its error.                                                 *)
SaveSync ==
  /\ up /\ pc = "sync"
  /\ \/ /\ tmp' = [tmp EXCEPT !.synced = TRUE]
        /\ pc' = "rename"
     \/ /\ tmp' = tmp
        /\ pc' = "idle"
  /\ UNCHANGED <<up, mem, text, path, durable, resets, raced, floor>>

(* rename replaces the file in one step, or fails.                         *)
SaveRename ==
  /\ up /\ pc = "rename"
  /\ \/ /\ path' = tmp /\ tmp' = NoFile
        /\ floor' = text.gen
        /\ pc' = "chmod"
     \/ /\ UNCHANGED <<path, tmp, floor>>
        /\ pc' = "idle"
  /\ UNCHANGED <<up, mem, text, durable, resets, raced>>

(* set_permissions, whose failure is only logged.                          *)
SaveChmod ==
  /\ up /\ pc = "chmod"
  /\ pc' = "idle"
  /\ UNCHANGED <<up, mem, text, tmp, path, durable, resets, raced, floor>>

Save ==
  \/ SaveStart \/ SaveUnlink \/ SaveOpen \/ SaveWrite
  \/ SaveSync \/ SaveRename \/ SaveChmod

-----------------------------------------------------------------------------
(* record_and_score, which waits for the mutex.                            *)
Learn ==
  /\ up /\ pc = "idle" /\ mem.gen < MaxGen
  /\ mem' = [mem EXCEPT !.gen = @ + 1]
  /\ UNCHANGED <<up, pc, text, tmp, path, durable, resets, raced, floor>>

(* load_or_default: a missing or a corrupted file means starting fresh.    *)
Start ==
  /\ ~up
  /\ up' = TRUE
  /\ mem' = IF path.there /\ path.whole THEN path.is ELSE Fresh
  /\ UNCHANGED <<pc, text, tmp, path, durable, resets, raced, floor>>

(* Faulty variant: reset also truncates in place what it cannot remove.    *)
CliResetTruncates ==
  /\ resets < MaxResets
  /\ resets' = resets + 1
  /\ path' = [path EXCEPT !.whole = FALSE]
  /\ raced' = (raced \/ up)
  /\ floor' = 0
  /\ UNCHANGED <<up, mem, pc, text, tmp, durable>>

(* `kernelradar baseline reset`: zeroes the baseline of its own process    *)
(* and removes the file.  An error of the removal is ignored: the command  *)
(* then changes nothing.                                                   *)
CliReset ==
  /\ resets < MaxResets
  /\ resets' = resets + 1
  /\ path' = NoFile
  /\ raced' = (raced \/ up)
  /\ floor' = 0
  /\ UNCHANGED <<up, mem, pc, text, tmp, durable>>

(* SIGKILL or a crash of the daemon.                                       *)
Kill ==
  /\ up
  /\ up' = FALSE /\ pc' = "idle"
  /\ UNCHANGED <<mem, text, tmp, path, durable, resets, raced, floor>>

(* What a power loss may leave of a file.                                  *)
Remains(f) == IF f.synced THEN {f} ELSE {f, [f EXCEPT !.whole = FALSE]}

(* How much a file holds.                                                  *)
Learned(f) == IF f.there THEN f.is.gen ELSE 0

PowerLoss ==
  /\ up' = FALSE /\ pc' = "idle"
  /\ path' \in Remains(path) \cup Remains(durable)
  /\ durable' = path'
  /\ tmp' \in {NoFile} \cup Remains(tmp)
  /\ raced' = TRUE
  /\ floor' = IF Learned(durable) < floor THEN Learned(durable) ELSE floor
  /\ UNCHANGED <<mem, text, resets>>

(* The file system commits the directory.                                  *)
Commit ==
  /\ durable' = path
  /\ UNCHANGED <<up, mem, pc, text, tmp, path, resets, raced, floor>>

FileNext ==
  \/ Save \/ Learn \/ Start \/ CliReset
  \/ Kill \/ PowerLoss \/ Commit

FileSpec == FileInit /\ [][FileNext]_fvars

-----------------------------------------------------------------------------
FileTypeOK ==
  /\ up \in BOOLEAN /\ raced \in BOOLEAN
  /\ mem \in Content /\ text \in Content
  /\ pc \in {"idle", "unlink", "open", "write", "sync", "rename", "chmod"}
  /\ tmp \in File /\ path \in File /\ durable \in File
  /\ resets \in Nat /\ floor \in Nat

(* Nobody ever finds half a baseline, whichever step the daemon is killed  *)
(* or the power lost at and whichever call fails (baseline.rs:290-291,     *)
(* "atomic publish").                                                      *)
FileNeverTorn ==
  /\ path.there => path.whole /\ path.synced
  /\ durable.there => durable.whole /\ durable.synced

(* A restart resumes with what the last successful save wrote, unless it   *)
(* was reset since, or with what the file system had committed when the    *)
(* power was lost: never with less.                                        *)
RestartKeepsSaves == [][Start => mem'.gen >= floor]_fvars

(* A reset given to a stopped daemon is not undone, short of a power loss. *)
ResetOfStoppedSticks ==
  ~up /\ ~raced /\ path.there => path.is.era = resets

(* "Also delete persistent file so a daemon restart doesn't reload it"     *)
(* (main.rs:280).                                                          *)
ResetIsForgotten ==
  [][Start => mem'.era = resets]_fvars

(* The file is an atomic, crash-safe cell.                                 *)
AsCell(f) ==
  IF ~f.there THEN [kind |-> "absent"]
  ELSE IF f.whole THEN [kind |-> "whole", value |-> f.is]
  ELSE [kind |-> "torn"]

Cell == INSTANCE AtomicFile
          WITH Value <- [era : 0..MaxResets, gen : 0..MaxGen],
               content <- AsCell(path), committed <- AsCell(durable)

ImplementsAtomicFile == Cell!ASpec
=============================================================================
