------------------------------- MODULE Reload -------------------------------
(***************************************************************************)
(* Hot reload of the configuration: the SIGHUP task                        *)
(* (crates/kernelradar-cli/src/main.rs spawn_sighup_handler), the shared   *)
(* lists it replaces one after the other (kernelradar-detectors            *)
(* allowlist.rs, cidr.rs), and the network detector, whose handler reads   *)
(* two of them for one event (network.rs handle).  Each list is an         *)
(* Arc<RwLock>: replacing it and reading it are single steps; the reload   *)
(* and the handlers run on different threads.                              *)
(*                                                                         *)
(* A configuration is the edit that made it and its text; what a text says *)
(* is a configuration of Validation, unless it does not parse.             *)
(***************************************************************************)
EXTENDS Validation, Sequences

CONSTANTS
  Order,    \* the detectors, in the order the reload goes through them
  Net,      \* the network detector
  MaxEdits, \* bound: edits of the configuration file
  TextOf,   \* TextOf[g]: what edit g may come to, and the first file for 0
  Parsed,   \* Parsed[t]: what the text t says, for those that parse
  Defaults  \* Config::default()

Detector == {Order[i] : i \in 1..Len(Order)}

ASSUME ReloadAssumption ==
  /\ Order \in Seq(Detector) /\ Net \in Detector
  /\ MaxEdits \in Nat /\ DOMAIN TextOf = 0 .. MaxEdits
  /\ Known \subseteq Detector

VARIABLES
  up,        \* the process runs
  installed, \* the SIGHUP task has its signal stream
  pending,   \* the stream has a signal to give
  file,      \* the configuration on disk
  pc,        \* where the reload is
  next,      \* the next detector to replace the list of
  cfg,       \* the configuration the reload has read
  allow,     \* allow[d]: the configuration d's allowlist comes from
  cidrs,     \* the configuration the CIDR list comes from
  handling,  \* where the network detector is with an event
  view,      \* the configurations it has looked at for that event
  asked,     \* history: SIGHUP was sent since the last edit
  first      \* history: the configuration the process was started with

lists == <<allow, cidrs>>
task == <<installed, pending, pc, next, cfg>>
reader == <<handling, view>>

vars == <<up, task, file, lists, reader, asked, first>>

Config == [gen : Nat, text : UNION {TextOf[g] : g \in 0 .. MaxEdits}]

(* Config::from_path, and the defaults when there is an error.             *)
Parses(c) == c.text \in DOMAIN Parsed

Settings(c) == IF Parses(c) THEN Parsed[c.text] ELSE Defaults

ValidTexts == {t \in DOMAIN Parsed : Valid(Parsed[t])}

Init ==
  /\ up = FALSE /\ installed = FALSE /\ pending = FALSE /\ asked = FALSE
  /\ file \in [gen : {0}, text : TextOf[0]]
  /\ pc = "wait" /\ next = 1
  /\ cfg = file /\ first = file
  /\ allow = [d \in Detector |-> file]
  /\ cidrs = file
  /\ handling = "idle"
  /\ view = [cidrs |-> file, allow |-> file]

(* main and run_daemon's lists: the configuration is loaded, or defaulted, *)
(* and nothing validates it.                                               *)
Start ==
  /\ ~up
  /\ up' = TRUE
  /\ installed' = FALSE /\ pending' = FALSE /\ pc' = "wait" /\ next' = 1
  /\ cfg' = file /\ first' = file
  /\ allow' = [d \in Detector |-> file]
  /\ cidrs' = file
  /\ handling' = "idle"
  /\ view' = [cidrs |-> file, allow |-> file]
  /\ UNCHANGED <<file, asked>>

-----------------------------------------------------------------------------
(* The SIGHUP task.                                                        *)

(* The spawned task gets to signal(SignalKind::hangup()).                  *)
Install ==
  /\ up /\ ~installed
  /\ installed' = TRUE
  /\ UNCHANGED <<up, pending, pc, next, cfg, file, lists, reader, asked, first>>

(* Faulty variant: a configuration with issues is only reported.           *)
AcceptedAnyway(c) == Parses(c)

Accepted(c) == c.text \in ValidTexts

(* recv, Config::from_path and validate.                                   *)
Receive ==
  /\ up /\ installed /\ pc = "wait" /\ pending
  /\ pending' = FALSE
  /\ cfg' = file
  /\ pc' = IF Accepted(file) THEN "lists" ELSE "wait"
  /\ next' = 1
  /\ UNCHANGED <<up, installed, file, lists, reader, asked, first>>

(* Faulty variant: the CIDR list goes first.                               *)
ReplaceCidrsFirst ==
  /\ up /\ pc = "lists" /\ next <= Len(Order)
  /\ allow' = [allow EXCEPT ![Order[next]] = cfg]
  /\ cidrs' = cfg
  /\ next' = next + 1
  /\ UNCHANGED <<up, installed, pending, pc, cfg, file, reader, asked, first>>

(* sl.replace for one detector.                                            *)
ReplaceAllowlist ==
  /\ up /\ pc = "lists" /\ next <= Len(Order)
  /\ allow' = [allow EXCEPT ![Order[next]] = cfg]
  /\ next' = next + 1
  /\ UNCHANGED <<up, installed, pending, pc, cfg, file, cidrs, reader, asked, first>>

(* Faulty variant: the reload ends with the signals it has not answered.   *)
ReplaceCidrsForgetful ==
  /\ up /\ pc = "lists" /\ next > Len(Order)
  /\ cidrs' = cfg
  /\ pc' = "wait"
  /\ pending' = FALSE
  /\ UNCHANGED <<up, installed, next, cfg, file, allow, reader, asked, first>>

(* cidrs.replace, and back to recv; the stream has kept what came in.      *)
ReplaceCidrs ==
  /\ up /\ pc = "lists" /\ next > Len(Order)
  /\ cidrs' = cfg
  /\ pc' = "wait"
  /\ UNCHANGED <<up, installed, pending, next, cfg, file, allow, reader, asked, first>>

ReloadStep == Install \/ Receive \/ ReplaceAllowlist \/ ReplaceCidrs

-----------------------------------------------------------------------------
(* NetworkDetector::handle.                                                *)

ReadCidrs ==
  /\ up /\ handling = "idle"
  /\ view' = [view EXCEPT !.cidrs = cidrs]
  /\ handling' = "looking"
  /\ UNCHANGED <<up, task, file, lists, asked, first>>

(* Not in the CIDR list: the allowlist's snapshot decides.                 *)
ReadAllowlist ==
  /\ up /\ handling = "looking"
  /\ view' = [view EXCEPT !.allow = allow[Net]]
  /\ handling' = "judged"
  /\ UNCHANGED <<up, task, file, lists, asked, first>>

(* The call returns: after the alert, or at once for a listed address.     *)
Judge ==
  /\ up /\ handling \in {"looking", "judged"}
  /\ handling' = "idle"
  /\ UNCHANGED <<up, task, file, lists, view, asked, first>>

Handle == ReadCidrs \/ ReadAllowlist \/ Judge

-----------------------------------------------------------------------------
(* The operator.                                                           *)

Edit ==
  /\ file.gen < MaxEdits
  /\ \E t \in TextOf[file.gen + 1] : file' = [gen |-> file.gen + 1, text |-> t]
  /\ asked' = FALSE
  /\ UNCHANGED <<up, task, lists, reader, first>>

(* Signals that come before the last one was received are merged with it;  *)
(* SIGHUP ends a process that has no handler for it yet.                   *)
Hangup ==
  /\ up
  /\ asked' = TRUE
  /\ IF installed THEN pending' = TRUE /\ UNCHANGED up
                  ELSE up' = FALSE /\ UNCHANGED pending
  /\ UNCHANGED <<installed, pc, next, cfg, file, lists, reader, first>>

Next == Start \/ ReloadStep \/ Handle \/ Edit \/ Hangup

Spec == Init /\ [][Next]_vars

(* The runtime runs the SIGHUP task; nobody has to start the process.      *)
FairSpec == Spec /\ WF_vars(ReloadStep)

-----------------------------------------------------------------------------
TypeOK ==
  /\ up \in BOOLEAN /\ installed \in BOOLEAN
  /\ pending \in BOOLEAN /\ asked \in BOOLEAN
  /\ file \in Config /\ cfg \in Config /\ cidrs \in Config /\ first \in Config
  /\ allow \in [Detector -> Config]
  /\ view \in [cidrs : Config, allow : Config]
  /\ pc \in {"wait", "lists"} /\ next \in 1 .. Len(Order) + 1
  /\ handling \in {"idle", "looking", "judged"}

(* An event that meets a reload is judged by the new allowlist and the old *)
(* CIDRs, or by one configuration; never by new CIDRs, which exempt        *)
(* destinations on the strength of it, and an allowlist older than them.   *)
CidrsNeverAhead == handling = "judged" => view.cidrs.gen <= view.allow.gen

(* "the reload validates first and refuses to swap state if the new config *)
(* has issues" (docs/architecture.md:220-221): a reload has put in force,  *)
(* in whole or in part, only what has no pattern that does not compile, no *)
(* CIDR to be skipped and no section but of a detector whose list the      *)
(* reload replaces.  That the patterns fit one set is not validated, and   *)
(* the numbers and the webhook's settings are not put in force.            *)
ServedWhole(t) ==
  /\ DOMAIN t.detectors \subseteq Detector
  /\ \A d \in DOMAIN t.detectors : \A e \in t.detectors[d].list : e.rx => e.ok
  /\ \A c \in t.cidrs : Parsable(c)

ReloadsAreValid ==
  /\ \A d \in Detector : allow[d] # first => ServedWhole(Settings(allow[d]))
  /\ cidrs # first => ServedWhole(Settings(cidrs))

(* Between reloads all the lists come from one configuration.              *)
SettledIsUniform ==
  pc = "wait" => \A d \in Detector : allow[d] = cidrs

(* A SIGHUP after the last edit is still in the stream, or its file is     *)
(* being put in force, or is in force.                                     *)
InForce == cidrs = file /\ \A d \in Detector : allow[d] = file

NoSignalLost ==
  up /\ asked /\ Accepted(file) => pending \/ (pc = "lists" /\ cfg = file) \/ InForce

(* A SIGHUP after the last edit is never lost, whatever reload it meets:   *)
(* the valid configuration is in force at last, unless it is edited again  *)
(* or the process is gone.                                                 *)
ReloadConverges ==
  (up /\ asked /\ Accepted(file)) ~> (~up \/ ~asked \/ InForce)
=============================================================================
