-------------------------- MODULE DetectionProofs --------------------------
(***************************************************************************)
(* Proofs about Reload, for any number of detectors, any order of the      *)
(* reload and any number of edits, about Detection, whose handlers run     *)
(* beside it, and about the filters in the kernel and the lists, for every *)
(* call, path and destination.                                             *)
(***************************************************************************)
EXTENDS Detection, FiniteSetTheorems, TLAPS

USE ReloadAssumption

(* What a reload has done so far: the lists before `next` are the new      *)
(* ones, and no list is newer than the configuration being put in force.   *)
Midway ==
  pc = "lists" =>
    /\ ServedWhole(Settings(cfg))
    /\ \A i \in 1 .. next - 1 : i \in 1 .. Len(Order) => allow[Order[i]] = cfg
    /\ \A d \in Detector : allow[d].gen <= cfg.gen

(* Configurations are only ever replaced by newer ones, and the CIDR list  *)
(* is the last of them to be.                                              *)
Ages ==
  /\ cfg.gen <= file.gen
  /\ \A d \in Detector : allow[d].gen <= file.gen
  /\ \A d \in Detector : cidrs.gen <= allow[d].gen

(* What the handler remembers of the CIDR list is no newer than the list.  *)
Looking == handling = "looking" => view.cidrs.gen <= cidrs.gen

IInv ==
  /\ TypeOK /\ Midway /\ Ages /\ Looking
  /\ CidrsNeverAhead /\ ReloadsAreValid /\ SettledIsUniform

-----------------------------------------------------------------------------
LEMMA OrderFacts ==
  /\ Len(Order) \in Nat /\ 1 \in 1 .. Len(Order) + 1
  /\ Net \in Detector
  /\ \A i \in 1 .. Len(Order) : Order[i] \in Detector
  /\ \A d \in Detector : \E i \in 1 .. Len(Order) : d = Order[i]
<1>1. Len(Order) \in Nat
  OBVIOUS
<1> QED
  BY <1>1 DEF Detector

(* What Config::validate lets pass is served as a whole: its check of an   *)
(* entry mirrors what is made of the entry later.                          *)
LEMMA ValidServed == ASSUME NEW t, Valid(t) PROVE ServedWhole(t)
BY DEF Valid, ServedWhole, PatternsOk, CidrsOk, Parsable

LEMMA InitInv == Init => IInv
<1> SUFFICES ASSUME Init PROVE IInv
  OBVIOUS
<1>0. file \in Config
  <2>1. 0 \in 0 .. MaxEdits
    OBVIOUS
  <2> QED
    BY <2>1 DEF Init, Config
<1>1. TypeOK
  <2>1. allow \in [Detector -> Config] /\ view \in [cidrs : Config, allow : Config]
    BY <1>0 DEF Init
  <2> HIDE ReloadAssumption
  <2> QED
    BY <1>0, <2>1, OrderFacts DEF Init, TypeOK
<1>2. Ages
  BY <1>0 DEF Init, Ages, Config
<1> QED
  BY <1>1, <1>2 DEF Init, IInv, Midway, Looking, CidrsNeverAhead,
     ReloadsAreValid, SettledIsUniform

LEMMA StartInv == IInv /\ Start => IInv'
<1> SUFFICES ASSUME IInv, Start PROVE IInv'
  OBVIOUS
<1>0. file \in Config /\ file' = file
  BY DEF IInv, TypeOK, Start
<1>1. TypeOK'
  <2>1. allow' \in [Detector -> Config] /\ view' \in [cidrs : Config, allow : Config]
    BY <1>0 DEF Start
  <2>2. /\ cfg' \in Config /\ cidrs' \in Config /\ first' \in Config
        /\ asked' \in BOOLEAN
    BY <1>0 DEF Start, IInv, TypeOK
  <2> HIDE ReloadAssumption
  <2> QED
    BY <1>0, <2>1, <2>2, OrderFacts DEF Start, TypeOK
<1>2. Ages'
  BY <1>0 DEF Start, Ages, Config
<1> QED
  BY <1>1, <1>2 DEF Start, IInv, Midway, Looking, CidrsNeverAhead,
     ReloadsAreValid, SettledIsUniform

(* A reload begins: nothing is in force yet that is newer than what it     *)
(* read, and it goes on only with a valid configuration.                   *)
LEMMA ReceiveInv == IInv /\ Receive => IInv'
<1> SUFFICES ASSUME IInv, Receive PROVE IInv'
  OBVIOUS
<1>0. UNCHANGED <<up, installed, file, allow, cidrs, handling, view, asked, first>>
  BY DEF Receive, lists, reader
<1>1. TypeOK'
  <2>1. /\ cfg' \in Config /\ pc' \in {"wait", "lists"} /\ next' = 1
        /\ pending' \in BOOLEAN
    BY DEF IInv, Receive, TypeOK
  <2> HIDE ReloadAssumption
  <2> QED
    BY <1>0, <2>1, OrderFacts DEF IInv, TypeOK
<1>2. Ages'
  BY <1>0 DEF IInv, Receive, Ages, TypeOK, Config
<1>3. Midway'
  BY <1>0, ValidServed 
     DEF IInv, Receive, Midway, Ages, Accepted, ValidTexts, Settings, Parses
<1>4. SettledIsUniform'
  BY <1>0 DEF IInv, Receive, SettledIsUniform
<1> QED
  BY <1>0, <1>1, <1>2, <1>3, <1>4 DEF IInv, Looking, CidrsNeverAhead, ReloadsAreValid

LEMMA ReplaceAllowlistInv == IInv /\ ReplaceAllowlist => IInv'
<1> SUFFICES ASSUME IInv, ReplaceAllowlist PROVE IInv'
  OBVIOUS
<1>0. UNCHANGED <<up, installed, pending, pc, cfg, file, cidrs, handling, view, asked, first>>
  BY DEF ReplaceAllowlist, reader
<1>1. /\ pc = "lists" /\ next \in 1 .. Len(Order) /\ next' = next + 1
      /\ allow' = [allow EXCEPT ![Order[next]] = cfg]
      /\ allow \in [Detector -> Config] /\ cfg \in Config
      /\ ServedWhole(Settings(cfg))
  BY OrderFacts DEF IInv, ReplaceAllowlist, TypeOK, Midway
<1>2. /\ allow' \in [Detector -> Config]
      /\ allow'[Order[next]] = cfg
      /\ \A d \in Detector : allow'[d] = cfg \/ allow'[d] = allow[d]
  BY <1>1, OrderFacts
<1>3. \A d \in Detector : /\ allow[d] = cfg => allow'[d] = cfg
  BY <1>2
<1>4. TypeOK'
  BY <1>0, <1>1, <1>2, OrderFacts DEF IInv, TypeOK
<1>5. cidrs.gen \in Nat /\ cfg.gen \in Nat /\ file.gen \in Nat
      /\ \A d \in Detector : allow[d].gen \in Nat
  BY <1>1 DEF IInv, TypeOK, Config
<1>6. cidrs.gen <= cfg.gen
  <2>1. cidrs.gen <= allow[Net].gen /\ allow[Net].gen <= cfg.gen
    BY <1>1, OrderFacts DEF IInv, Ages, Midway
  <2>2. allow[Net].gen \in Nat /\ cidrs.gen \in Nat /\ cfg.gen \in Nat
    BY <1>5, OrderFacts
  <2> HIDE ReloadAssumption
  <2> QED
    BY <2>1, <2>2
<1>7. Ages'
  BY <1>0, <1>2, <1>6 DEF IInv, Ages
<1>8. Midway'
  <2>1. ASSUME NEW i \in 1 .. next' - 1, i \in 1 .. Len(Order)
        PROVE  allow'[Order[i]] = cfg
    <3>1. CASE i = next
      BY <3>1, <1>2
    <3>2. CASE i # next
      <4>1. i \in 1 .. next - 1
        BY <3>2, <1>1, OrderFacts
      <4>2. allow[Order[i]] = cfg /\ Order[i] \in Detector
        BY <4>1, <2>1, <1>1, OrderFacts DEF IInv, Midway
      <4> QED
        BY <4>2, <1>3
    <3> QED
      BY <3>1, <3>2
  <2>2. \A d \in Detector : allow'[d].gen <= cfg.gen
    BY <1>1, <1>2, <1>5 DEF IInv, Midway
  <2> QED
    BY <1>0, <1>1, <2>1, <2>2 DEF Midway
<1>9. ReloadsAreValid'
  BY <1>0, <1>1, <1>2 DEF IInv, ReloadsAreValid
<1> QED
  BY <1>0, <1>1, <1>4, <1>7, <1>8, <1>9
     DEF IInv, Looking, CidrsNeverAhead, SettledIsUniform

(* The reload ends: every allowlist is the new one already.                *)
LEMMA ReplaceCidrsInv == IInv /\ ReplaceCidrs => IInv'
<1> SUFFICES ASSUME IInv, ReplaceCidrs PROVE IInv'
  OBVIOUS
<1>0. UNCHANGED <<up, installed, pending, next, cfg, file, allow, handling, view, asked, first>>
  BY DEF ReplaceCidrs, reader
<1>1. pc = "lists" /\ next > Len(Order) /\ cidrs' = cfg /\ pc' = "wait" /\ ServedWhole(Settings(cfg))
  BY DEF IInv, ReplaceCidrs, Midway
<1>2. \A d \in Detector : allow[d] = cfg
  <2> SUFFICES ASSUME NEW d \in Detector PROVE allow[d] = cfg
    OBVIOUS
  <2>1. PICK i \in 1 .. Len(Order) : d = Order[i]
    BY OrderFacts
  <2>2. i \in 1 .. next - 1
    BY <1>1, <2>1, OrderFacts DEF IInv, TypeOK
  <2> QED
    BY <1>1, <2>1, <2>2 DEF IInv, Midway
<1>3. TypeOK'
  BY <1>0, <1>1 DEF IInv, TypeOK
<1>4. /\ cfg.gen \in Nat /\ cidrs.gen \in Nat /\ view.cidrs.gen \in Nat
      /\ cidrs.gen <= cfg.gen
  <2>1. Net \in Detector
    OBVIOUS
  <2> QED
    BY <1>2, <2>1 DEF IInv, TypeOK, Config, Ages
<1>5. Ages'
  BY <1>0, <1>1, <1>2, <1>4 DEF IInv, Ages
<1>6. Looking'
  BY <1>0, <1>1, <1>4 DEF IInv, Looking
<1> QED
  BY <1>0, <1>1, <1>2, <1>3, <1>5, <1>6
     DEF IInv, Midway, CidrsNeverAhead, ReloadsAreValid, SettledIsUniform

LEMMA ReadCidrsInv == IInv /\ ReadCidrs => IInv'
<1> SUFFICES ASSUME IInv, ReadCidrs PROVE IInv'
  OBVIOUS
<1>0. UNCHANGED <<up, installed, pending, pc, next, cfg, file, allow, cidrs, asked, first>>
  BY DEF ReadCidrs, task, lists
<1>1. /\ view' = [view EXCEPT !.cidrs = cidrs] /\ handling' = "looking"
      /\ view \in [cidrs : Config, allow : Config] /\ cidrs \in Config
  BY DEF IInv, TypeOK, ReadCidrs
<1>2. view' \in [cidrs : Config, allow : Config] /\ view'.cidrs = cidrs
  BY <1>1
<1>3. TypeOK'
  BY <1>0, <1>1, <1>2 DEF IInv, TypeOK
<1>4. Looking'
  BY <1>0, <1>1, <1>2 DEF Looking, Config
<1> QED
  BY <1>0, <1>1, <1>3, <1>4
     DEF IInv, Midway, Ages, CidrsNeverAhead, ReloadsAreValid, SettledIsUniform

(* The CIDR list cannot have become newer than the allowlist meanwhile.    *)
LEMMA ReadAllowlistInv == IInv /\ ReadAllowlist => IInv'
<1> SUFFICES ASSUME IInv, ReadAllowlist PROVE IInv'
  OBVIOUS
<1>0. UNCHANGED <<up, installed, pending, pc, next, cfg, file, allow, cidrs, asked, first>>
  BY DEF ReadAllowlist, task, lists
<1>1. /\ view' = [view EXCEPT !.allow = allow[Net]] /\ handling = "looking"
      /\ handling' = "judged" /\ Net \in Detector
      /\ view \in [cidrs : Config, allow : Config]
      /\ cidrs \in Config /\ allow[Net] \in Config
  BY DEF IInv, TypeOK, ReadAllowlist
<1>2. /\ view' \in [cidrs : Config, allow : Config]
      /\ view'.cidrs = view.cidrs /\ view'.allow = allow[Net]
  BY <1>1
<1>3. TypeOK'
  BY <1>0, <1>1, <1>2 DEF IInv, TypeOK
<1>4. view.cidrs.gen <= cidrs.gen /\ cidrs.gen <= allow[Net].gen
  BY <1>1 DEF IInv, Looking, Ages
<1>5. view.cidrs.gen \in Nat /\ cidrs.gen \in Nat /\ allow[Net].gen \in Nat
  BY <1>1 DEF Config
<1>6. CidrsNeverAhead'
  BY <1>2, <1>4, <1>5 DEF CidrsNeverAhead
<1> QED
  BY <1>0, <1>1, <1>3, <1>6
     DEF IInv, Midway, Ages, Looking, ReloadsAreValid, SettledIsUniform

(* A newer file makes nothing in force too new.                            *)
LEMMA EditInv == IInv /\ Edit => IInv'
<1> SUFFICES ASSUME IInv, Edit PROVE IInv'
  OBVIOUS
<1>0. UNCHANGED <<up, installed, pending, pc, next, cfg, allow, cidrs, handling, view, first>>
  BY DEF Edit, task, lists, reader
<1>1. PICK t \in TextOf[file.gen + 1] : file' = [gen |-> file.gen + 1, text |-> t]
  BY DEF Edit
<1>2. file \in Config /\ file.gen < MaxEdits /\ asked' = FALSE
  BY DEF IInv, TypeOK, Edit
<1>3. file' \in Config /\ file'.gen = file.gen + 1
  <2>1. file.gen \in Nat /\ file.gen + 1 \in 0 .. MaxEdits
    BY <1>2 DEF Config
  <2> QED
    BY <1>1, <2>1 DEF Config
<1>4. TypeOK'
  BY <1>0, <1>2, <1>3 DEF IInv, TypeOK
<1>5. /\ cfg.gen \in Nat /\ file.gen \in Nat
      /\ \A d \in Detector : allow[d].gen \in Nat
  BY DEF IInv, TypeOK, Config
<1>6. Ages'
  BY <1>0, <1>3, <1>5 DEF IInv, Ages
<1> QED
  BY <1>0, <1>4, <1>6 DEF IInv, Midway, Looking, CidrsNeverAhead,
     ReloadsAreValid, SettledIsUniform

(* The steps that touch none of the lists, the file or the view.           *)
LEMMA OtherInv == IInv /\ (Install \/ Judge \/ Hangup \/ UNCHANGED vars) => IInv'
<1> SUFFICES ASSUME IInv, Install \/ Judge \/ Hangup \/ UNCHANGED vars PROVE IInv'
  OBVIOUS
<1>0. UNCHANGED <<pc, next, cfg, file, allow, cidrs, view, first>>
  BY DEF Install, Judge, Hangup, vars, task, lists, reader
<1>1. handling' = handling \/ handling' = "idle"
  BY DEF Install, Judge, Hangup, vars, reader
<1>2. up' \in BOOLEAN /\ installed' \in BOOLEAN /\ pending' \in BOOLEAN /\ asked' \in BOOLEAN
  BY DEF IInv, TypeOK, Install, Judge, Hangup, vars, task
<1>3. TypeOK'
  BY <1>0, <1>1, <1>2 DEF IInv, TypeOK
<1> QED
  BY <1>0, <1>1, <1>3 DEF IInv, Midway, Ages, Looking, CidrsNeverAhead,
     ReloadsAreValid, SettledIsUniform

-----------------------------------------------------------------------------
(* Reloads of any configuration, in any interleaving with the handler,     *)
(* edits, signals and restarts, keep all of the invariant.                 *)
THEOREM Invariance == Spec => []IInv
<1>1. IInv /\ [Next]_vars => IInv'
  BY StartInv, ReceiveInv, ReplaceAllowlistInv, ReplaceCidrsInv, ReadCidrsInv,
     ReadAllowlistInv, EditInv, OtherInv DEF Next, ReloadStep, Handle
<1> QED
  BY InitInv, <1>1, PTL DEF Spec

(* The network detector never pairs new CIDRs with an older allowlist.     *)
THEOREM NeverAhead == Spec => []CidrsNeverAhead
<1>1. IInv => CidrsNeverAhead
  BY DEF IInv
<1> QED
  BY Invariance, <1>1, PTL

(* What a reload puts in force was found valid, and is served as a whole,  *)
(* even while the reload is under way.                                     *)
THEOREM OnlyValidReloaded == Spec => []ReloadsAreValid
<1>1. IInv => ReloadsAreValid
  BY DEF IInv
<1> QED
  BY Invariance, <1>1, PTL

(* When no reload is under way, all lists are of one configuration.        *)
THEOREM UniformWhenSettled == Spec => []SettledIsUniform
<1>1. IInv => SettledIsUniform
  BY DEF IInv
<1> QED
  BY Invariance, <1>1, PTL

-----------------------------------------------------------------------------
(* Signals.  A generation of the file is one file, so that a reload of the *)
(* present generation is one of the present file.                          *)
OneFile == cfg.gen = file.gen => cfg = file

LEMMA InitSignals == Init => OneFile /\ NoSignalLost
  BY DEF Init, OneFile, NoSignalLost

LEMMA StepOneFile == IInv /\ OneFile /\ [Next]_vars => OneFile'
<1> SUFFICES ASSUME IInv, OneFile, [Next]_vars PROVE OneFile'
  OBVIOUS
<1>1. CASE Edit
  <2>1. PICK t \in TextOf[file.gen + 1] : file' = [gen |-> file.gen + 1, text |-> t]
    BY <1>1 DEF Edit
  <2>2. cfg' = cfg /\ file'.gen = file.gen + 1
    BY <1>1, <2>1 DEF Edit, task
  <2>3. cfg.gen \in Nat /\ file.gen \in Nat /\ cfg.gen <= file.gen
    BY DEF IInv, TypeOK, Config, Ages
  <2> QED
    BY <2>2, <2>3 DEF OneFile
<1>2. CASE Start \/ Receive
  BY <1>2 DEF Start, Receive, OneFile
<1>3. CASE ~Edit /\ ~Start /\ ~Receive
  <2>1. UNCHANGED <<cfg, file>>
    BY <1>3 DEF Next, ReloadStep, Handle, Install, ReplaceAllowlist, ReplaceCidrs,
       ReadCidrs, ReadAllowlist, Judge, Hangup, vars, task
  <2> QED
    BY <2>1 DEF OneFile
<1> QED
  BY <1>1, <1>2, <1>3

(* A list that is replaced while the file is in force is replaced by the   *)
(* same: the reload has read nothing older than what is in force.          *)
LEMMA InForceIsRead == IInv /\ OneFile /\ pc = "lists" /\ InForce => cfg = file
<1> SUFFICES ASSUME IInv, OneFile, pc = "lists", InForce PROVE cfg = file
  OBVIOUS
<1>1. allow[Net] = file /\ allow[Net].gen <= cfg.gen /\ cfg.gen <= file.gen
  BY OrderFacts DEF IInv, Midway, Ages, InForce
<1>2. cfg.gen \in Nat /\ file.gen \in Nat
  BY DEF IInv, TypeOK, Config
<1> QED
  BY <1>1, <1>2 DEF OneFile

LEMMA StepSignals == IInv /\ OneFile /\ NoSignalLost /\ [Next]_vars => NoSignalLost'
<1> SUFFICES ASSUME IInv, OneFile, NoSignalLost, [Next]_vars PROVE NoSignalLost'
  OBVIOUS
<1>1. CASE Start
  BY <1>1 DEF Start, NoSignalLost, InForce
<1>2. CASE Edit
  BY <1>2 DEF Edit, NoSignalLost
<1>3. CASE Hangup
  BY <1>3 DEF Hangup, NoSignalLost
<1>4. CASE Receive
  BY <1>4 DEF Receive, NoSignalLost, lists
<1>5. CASE ReplaceAllowlist
  <2>1. UNCHANGED <<up, asked, file, pending, pc, cfg>> /\ pc = "lists"
    BY <1>5 DEF ReplaceAllowlist
  <2>2. InForce => cfg = file
    BY <2>1, InForceIsRead
  <2>3. Accepted(file)' <=> Accepted(file)
    BY <2>1 DEF Accepted
  <2> QED
    BY <2>1, <2>2, <2>3 DEF NoSignalLost
<1>6. CASE ReplaceCidrs
  <2>1. /\ UNCHANGED <<up, asked, file, pending, cfg, allow>> /\ cidrs' = cfg
        /\ pc = "lists" /\ next > Len(Order)
    BY <1>6 DEF ReplaceCidrs
  <2>2. InForce => cfg = file
    BY <2>1, InForceIsRead
  <2>3. cfg = file => InForce'
    <3>1. SettledIsUniform' /\ pc' = "wait"
      BY <1>6, ReplaceCidrsInv DEF ReplaceCidrs, IInv
    <3> QED
      BY <2>1, <3>1 DEF InForce, SettledIsUniform
  <2>4. Accepted(file)' <=> Accepted(file)
    BY <2>1 DEF Accepted
  <2> QED
    BY <2>1, <2>2, <2>3, <2>4 DEF NoSignalLost
<1>7. CASE Install \/ Handle \/ UNCHANGED vars
  BY <1>7 DEF Install, Handle, ReadCidrs, ReadAllowlist, Judge, vars, task, lists,
     NoSignalLost, InForce, Accepted
<1> QED
  BY <1>1, <1>2, <1>3, <1>4, <1>5, <1>6, <1>7 DEF Next, ReloadStep

(* What ReloadConverges rests on: in no state has a signal been forgotten  *)
(* (spawn_sighup_handler's loop over recv).                                *)
THEOREM SignalsAreKept == Spec => []NoSignalLost
  BY InitSignals, StepOneFile, StepSignals, Invariance, PTL DEF Spec

-----------------------------------------------------------------------------
(* Detection.  Its steps are steps of Reload or leave it alone, so that    *)
(* the lists an event meets are as above.                                  *)
HIDE ReloadAssumption

(* What the handlers do with a call is a step or a stutter of the reload.  *)
THEOREM HandlersRunBesideReload == DSpec => Spec
<1>1. DInit => Init
  BY DEF DInit
<1>2. [DNext]_dvars => [Next]_vars
  <2> SUFFICES ASSUME [DNext]_dvars PROVE [Next]_vars
    OBVIOUS
  <2>1. CASE Kernel
    BY <2>1 DEF Kernel, Filter, Trace, Become
  <2>2. CASE Handler
    BY <2>2 DEF Handler, LookUpAddr, ReadComm, ReadExe, LookUpProcess, Return,
       Decide, DropOwn, Next, Handle
  <2>3. CASE Around
    BY <2>3 DEF Around, Next
  <2>4. CASE UNCHANGED dvars
    BY <2>4 DEF dvars
  <2> QED BY <2>1, <2>2, <2>3, <2>4 DEF DNext
<1> QED BY <1>1, <1>2, PTL DEF DSpec, Spec

(* What is known of the process while an event of its is on the way: under *)
(* the comm of the event only executables have run that `ran` remembers,   *)
(* and the one that was read is one of them, or was read of a process that *)
(* changed in between.                                                     *)
Grounds ==
  /\ call # NoCall => call \in SysCall
  /\ step # "idle" => call \in SysCall /\ verdict = None
  /\ step # "idle" /\ proc.comm = comm => proc.exe \in ran
  /\ step = "exe" => swapped \/ proc.exe \in ran
  /\ step \in {"idle", "queued", "comm", "exe"} => exe = None
  /\ exe # None => swapped \/ exe \in ran

LEMMA InitGrounds == DInit => Grounds
  BY DEF DInit, Grounds, None, NoCall

LEMMA StepGrounds == Grounds /\ [DNext]_dvars => Grounds'
<1> SUFFICES ASSUME Grounds, [DNext]_dvars PROVE Grounds'
  OBVIOUS
<1> USE DEF Grounds
<1>0. ASSUME NEW result, Over(result) PROVE Grounds'
  BY <1>0 DEF Over, None
<1>1. ASSUME NEW c \in SysCall, NEW image, Trace(c, image) PROVE Grounds'
  BY <1>1 DEF Trace
<1>2. ASSUME NEW c \in SysCall, Filter(c) PROVE Grounds'
  BY <1>2 DEF Filter
<1>3. ASSUME NEW image, Become(image) PROVE Grounds'
  BY <1>3 DEF Become
<1>4. CASE LookUpAddr
  BY <1>4 DEF LookUpAddr
<1>5. CASE ReadComm
  BY <1>5 DEF ReadComm, AtComm
<1>6. CASE ReadExe
  BY <1>6 DEF ReadExe
<1>7. CASE LookUpProcess
  BY <1>7 DEF LookUpProcess
<1>8. CASE Return \/ Decide \/ DropOwn
  BY <1>0, <1>8 DEF Return, Decide, DropOwn
<1>9. CASE Around
  BY <1>0, <1>9 DEF Around, event
<1>10. CASE UNCHANGED dvars
  BY <1>10 DEF dvars, event
<1> QED BY <1>1, <1>2, <1>3, <1>4, <1>5, <1>6, <1>7, <1>8, <1>9, <1>10
        DEF DNext, Kernel, Handler

(* What a handler has read is a name of a process that ran under the pid.  *)
THEOREM GroundsAlways == DSpec => []Grounds
  BY InitGrounds, StepGrounds, PTL DEF DSpec

(* Which steps end a look-up in the list.                                  *)
LEMMA OnlyDecided ==
  ASSUME Grounds, [DNext]_dvars, step = "list",
         verdict' \in {"exempt", "unwatched", "reported"} \/ step' \in {"exempt", "report"}
  PROVE  LookUpProcess \/ Decide
<1>1. verdict = None
  BY DEF Grounds
<1>2. ~Kernel
  BY <1>1 DEF Kernel, Filter, Trace, Become, None
<1>3. ~(LookUpAddr \/ ReadComm \/ ReadExe \/ Return \/ DropOwn)
  BY DEF LookUpAddr, ReadComm, AtComm, ReadExe, Return, DropOwn
<1>4. ~Around /\ ~UNCHANGED dvars
  BY <1>1 DEF Around, event, dvars, Over, None
<1> QED BY <1>2, <1>3, <1>4 DEF DNext, Handler

(* Exemption has ground: the entry that let the call go names the caller's *)
(* comm or an executable that ran under it (util.rs read_exe_path_verified,*)
(* allowlist.rs is_allowed).                                               *)
THEOREM GroundForExemption == DSpec => ExemptionHasGround
<1>1. Grounds /\ [DNext]_dvars =>
        [step = "list" /\ (verdict' = "exempt" \/ step' = "exempt")
           => swapped \/ \E n \in Names : ListedNow(n)]_dvars
  <2> SUFFICES ASSUME Grounds, [DNext]_dvars, step = "list",
                      verdict' = "exempt" \/ step' = "exempt", ~swapped
               PROVE  \E n \in Names : ListedNow(n)
    OBVIOUS
  <2>1. Exempt(allow[call.kind])
    <3>1. CASE LookUpProcess
      BY <3>1 DEF LookUpProcess, Grounds, None
    <3>2. CASE Decide
      BY <3>2 DEF Decide, Over
    <3> QED BY <3>1, <3>2, OnlyDecided
  <2>2. PICK e \in Listed : ({comm} \cup ExeNames(exe)) \cap e.names # {}
    BY <2>1 DEF Exempt, Compiled, IsAllowed, Build, Listed
  <2>3. PICK n \in {comm} \cup ExeNames(exe) : n \in e.names
    BY <2>2
  <2>4. n \in Names
    BY <2>3 DEF Names, Grounds, ExeNames
  <2> QED BY <2>3, <2>4 DEF ListedNow
<1> QED BY <1>1, GroundsAlways, PTL DEF DSpec, ExemptionHasGround

(* And a listed name exempts, when the list came with a reload and fits    *)
(* one set: validate refuses the patterns that would undo the others       *)
(* (allowlist.rs build, config.rs validate).                               *)
THEOREM ListedExempt == DSpec => ListedIsExempt
<1>1. Grounds /\ IInv /\ [DNext]_dvars =>
        [step = "list" /\ (verdict' \in {"unwatched", "reported"} \/ step' = "report")
           => \/ allow[call.kind] = first \/ ~HasList(Settings(allow[call.kind]), call.kind)
              \/ Cardinality({e \in Listed : e.rx}) > SetLimit
              \/ ~\E n \in {comm} \cup ExeNames(exe) : ListedNow(n)]_dvars
  <2> DEFINE t == Settings(allow[call.kind])
  <2> SUFFICES ASSUME Grounds, IInv, [DNext]_dvars, step = "list",
                      verdict' \in {"unwatched", "reported"} \/ step' = "report",
                      allow[call.kind] # first, HasList(t, call.kind),
                      ~(Cardinality({e \in Listed : e.rx}) > SetLimit),
                      NEW n \in {comm} \cup ExeNames(exe), ListedNow(n)
               PROVE  FALSE
    OBVIOUS
  <2>1. call.kind \in Detector /\ call \in SysCall
    BY DetectionAssumption DEF Grounds
  <2>2. Listed = t.detectors[call.kind].list
    BY DEF Listed, AllowlistFor
  <2>3. \A e \in Listed : e.rx => e.ok
    BY <2>1, <2>2 DEF IInv, ReloadsAreValid, ServedWhole, HasList
  <2>4. Cardinality({e \in Listed : e.rx}) <= SetLimit
    <3>1. t \in Texts
      BY DEF Settings, Parses, Texts
    <3>2. IsFiniteSet(Listed)
      BY <2>2, <3>1, DetectionAssumption DEF HasList
    <3>3. IsFiniteSet({e \in Listed : e.rx})
      BY <3>2, FS_Subset
    <3>4. Cardinality({e \in Listed : e.rx}) \in Nat
      BY <3>3, FS_CardinalityType
    <3> QED BY <3>4, MatchingAssumption
  <2>5. Build(Listed) = Listed
    BY <2>3, <2>4 DEF Build, SetCompiles
  <2>6. Exempt(allow[call.kind])
    BY <2>5 DEF Exempt, Compiled, IsAllowed, Listed, ListedNow
  <2>7. CASE LookUpProcess
    BY <2>6, <2>7 DEF LookUpProcess, Grounds, None
  <2>8. CASE Decide
    BY <2>6, <2>8 DEF Decide, Over
  <2> QED BY <2>7, <2>8, OnlyDecided
<1> QED BY <1>1, GroundsAlways, HandlersRunBesideReload, Invariance, PTL
        DEF DSpec, ListedIsExempt

-----------------------------------------------------------------------------
(* What the programs in the kernel let through, for every call and every   *)
(* path.                                                                   *)

LEMMA OneEvent ==
  ASSUME NEW c, NEW e, SyscallEvents(c) = {e}, Titles(c.kind, e) = {c.call},
         Graded(e.severity) \in Stated(c), Watches(c)
  PROVE  CallAgrees(c)
<1>1. Alerts(c) = {AlertOf(c.call, Graded(e.severity))}
  BY DEF Alerts
<1> QED
  BY <1>1, Zenon DEF CallAgrees

LEMMA NoEvent ==
  ASSUME NEW c, SyscallEvents(c) = {}, ~Watches(c)
  PROVE  CallAgrees(c)
<1>1. Alerts(c) = {}
  BY DEF Alerts
<1> QED
  BY <1>1, Zenon DEF CallAgrees

(* The severities that the programs use are graded as they are.            *)
LEMMA GradedSeverities ==
  ASSUME NEW type, NEW data, NEW severity \in {Warning, Alert, Critical}
  PROVE  /\ Graded(EventOf(type, severity, data).severity) = severity
         /\ Graded(Event(type, severity).severity) = severity
BY DEF Graded, Event, EventOf, Warning, Alert, Critical

LEMMA PrivescAgrees ==
  ASSUME NEW c, c.kind = "privesc", c.call \in {"setuid", "setgid"}
  PROVE  CallAgrees(c)
<1> DEFINE type == IF c.call = "setuid" THEN 1 ELSE 2
<1>1. Watches(c) <=> c.from # 0 /\ c.to = 0
  BY DEF Watches
<1>2. SyscallEvents(c) = IF Watches(c) THEN {Event(type, Alert)} ELSE {}
  BY <1>1 DEF SyscallEvents, PrivescEvents
<1>3. Titles(c.kind, Event(type, Alert)) = {c.call}
  BY DEF Titles, PrivescTitles, Event, EventOf
<1>4. Graded(Event(type, Alert).severity) \in Stated(c)
  BY GradedSeverities DEF Stated
<1> QED
  BY <1>2, <1>3, <1>4, OneEvent, NoEvent

LEMMA ContainerAgrees ==
  ASSUME NEW c, c.kind = "container", c.call \in {"unshare", "setns"}
  PROVE  CallAgrees(c)
<1> DEFINE type == IF c.call = "setns" THEN 2 ELSE 1
<1>1. Watches(c) <=> c.call = "setns" \/ c.flags \cap NsFlags # {}
  BY DEF Watches
<1>2. SyscallEvents(c) = IF Watches(c) THEN {Event(type, Warning)} ELSE {}
  BY <1>1 DEF SyscallEvents, ContainerEvents
<1>3. Titles(c.kind, Event(type, Warning)) = {c.call}
  BY DEF Titles, ContainerTitles, Event, EventOf
<1>4. Graded(Event(type, Warning).severity) \in Stated(c)
  BY GradedSeverities DEF Stated
<1> QED
  BY <1>2, <1>3, <1>4, OneEvent, NoEvent

(* The requests that the program takes are those that the handler names.   *)
LEMMA InjectionAgrees ==
  ASSUME NEW c, c.kind = "injection",
         \/ c.call = Writev
         \/ /\ c.call # Writev
            /\ \A n \in DOMAIN Requests : c.call = n <=> c.request = Requests[n]
  PROVE  CallAgrees(c)
<1>1. Watches(c) <=> c.call \in DOMAIN Requests \cup {Writev}
  BY DEF Watches
<1>2. SyscallEvents(c) = InjectionEvents(c)
  BY DEF SyscallEvents
<1>3. CASE c.call = Writev
  <2>1. Titles(c.kind, Event(3, Critical)) = {c.call}
    BY <1>3 DEF Titles, InjectionTitles, Event, EventOf
  <2>2. Graded(Event(3, Critical).severity) \in Stated(c)
    BY <1>3, GradedSeverities DEF Stated, Writev
  <2> QED
    BY <1>1, <1>2, <1>3, <2>1, <2>2, OneEvent DEF InjectionEvents
<1>4. CASE c.call # Writev
  <2>1. /\ c.call = "PTRACE_POKETEXT" <=> c.request = 4
        /\ c.call = "PTRACE_POKEDATA" <=> c.request = 5
        /\ c.call = "PTRACE_POKEUSER" <=> c.request = 6
        /\ c.call = "PTRACE_ATTACH" <=> c.request = 16
        /\ c.call = "PTRACE_SEIZE" <=> c.request = 16902
    BY <1>4 DEF Requests
  <2>2. Watches(c) <=> c.request \in AttachRequests \cup PokeRequests
    BY <1>1, <1>4, <2>1 DEF Requests, AttachRequests, PokeRequests
  <2>3. ASSUME c.request \in AttachRequests \cup PokeRequests,
               NEW type \in {1, 2}, NEW severity \in {Alert, Critical}
        PROVE  /\ Titles(c.kind, EventOf(type, severity, c.request)) = {c.call}
               /\ Graded(EventOf(type, severity, c.request).severity) \in Stated(c)
    <3>1. RequestName(c.request) = c.call
      BY <2>1, <2>3 DEF AttachRequests, PokeRequests, RequestName
    <3>2. c.call # "init_module"
      BY <2>1, <2>3 DEF AttachRequests, PokeRequests
    <3>3. Stated(c) = {Warning, Alert, Critical}
      BY <3>2 DEF Stated
    <3> QED
      BY <3>1, <3>3, GradedSeverities DEF Titles, InjectionTitles, EventOf
  <2>4. CASE c.request \in AttachRequests
    <3>1. SyscallEvents(c) = {EventOf(1, Alert, c.request)}
      BY <1>2, <1>4, <2>4 DEF InjectionEvents
    <3> QED
      BY <2>2, <2>3, <2>4, <3>1, OneEvent
  <2>5. CASE c.request \in PokeRequests /\ c.request \notin AttachRequests
    <3>1. SyscallEvents(c) = {EventOf(2, Critical, c.request)}
      BY <1>2, <1>4, <2>5 DEF InjectionEvents
    <3> QED
      BY <2>2, <2>3, <2>5, <3>1, OneEvent
  <2>6. CASE c.request \notin AttachRequests \cup PokeRequests
    BY <1>2, <1>4, <2>2, <2>6, NoEvent DEF InjectionEvents
  <2> QED
    BY <2>4, <2>5, <2>6
<1> QED
  BY <1>3, <1>4

LEMMA KmodAgrees ==
  ASSUME NEW c, c.kind = "kmod", c.call \in {"init_module", "finit_module"}
  PROVE  CallAgrees(c)
<1> DEFINE e == IF c.call = "init_module" THEN Event(2, Alert) ELSE Event(1, Warning)
<1>1. Watches(c) /\ SyscallEvents(c) = {e}
  BY DEF Watches, SyscallEvents, KmodEvents
<1>2. Titles(c.kind, e) = {c.call}
  BY DEF Titles, KmodTitles, Event, EventOf
<1>3. Graded(e.severity) \in Stated(c)
  <2>1. CASE c.call = "init_module"
    BY <2>1, GradedSeverities DEF Stated
  <2>2. CASE c.call # "init_module"
    BY <2>2, GradedSeverities DEF Stated
  <2> QED
    BY <2>1, <2>2
<1> QED
  BY <1>1, <1>2, <1>3, OneEvent

LEMMA LoaderAgrees ==
  ASSUME NEW c, c.kind = "bpf-loader", c.call = "bpf"
  PROVE  CallAgrees(c)
<1>1. SyscallEvents(c) = IF Watches(c) THEN {Event(1, Warning)} ELSE {}
  BY DEF SyscallEvents, LoaderEvents, Watches
<1>2. Titles(c.kind, Event(1, Warning)) = {c.call}
  BY DEF Titles, LoaderTitles
<1>3. Graded(Event(1, Warning).severity) \in Stated(c)
  BY GradedSeverities DEF Stated
<1> QED
  BY <1>1, <1>2, <1>3, OneEvent, NoEvent

(* Whatever the ids, flags, requests and commands are, a watched call is   *)
(* reported once, under its own name and with a severity stated of it, and *)
(* no other call is: the numbers of the programs and of the handlers agree.*)
THEOREM EveryCallAgrees == \A c \in Call : CallAgrees(c)
<1> SUFFICES ASSUME NEW c \in Call PROVE CallAgrees(c)
  OBVIOUS
<1> QED
  BY PrivescAgrees, ContainerAgrees, InjectionAgrees, KmodAgrees, LoaderAgrees DEF Call

(* The same as the runs check it, of the calls they ask about.             *)
THEOREM ProbesAgree == DSpec => []CallsAgree
<1>1. CallsAgree
  BY EveryCallAgrees, DetectionAssumption DEF CallsAgree, CallsThatDiffer
<1> QED
  BY <1>1, PTL

LEMMA RulesDomain == \A A, B : DOMAIN Rules(A, B) = A \cup B
  BY DEF Rules

(* What it is to begin with a few tokens.                                  *)
LEMMA PrefixTuples ==
  ASSUME NEW S, NEW t \in Seq(S)
  PROVE  /\ Len(t) \in Nat
         /\ \A a : IsPrefix(<<a>>, t) <=> Len(t) >= 1 /\ t[1] = a
         /\ \A a, b : IsPrefix(<<a, b>>, t) <=> Len(t) >= 2 /\ t[1] = a /\ t[2] = b
         /\ \A a, b, c : IsPrefix(<<a, b, c>>, t)
                           <=> Len(t) >= 3 /\ t[1] = a /\ t[2] = b /\ t[3] = c
         /\ \A a, b, c, d : IsPrefix(<<a, b, c, d>>, t)
                              <=> Len(t) >= 4 /\ t[1] = a /\ t[2] = b /\ t[3] = c /\ t[4] = d
<1> SUFFICES ASSUME NEW a, NEW b, NEW c, NEW d
             PROVE  /\ Len(t) \in Nat
                    /\ IsPrefix(<<a>>, t) <=> Len(t) >= 1 /\ t[1] = a
                    /\ IsPrefix(<<a, b>>, t) <=> Len(t) >= 2 /\ t[1] = a /\ t[2] = b
                    /\ IsPrefix(<<a, b, c>>, t)
                         <=> Len(t) >= 3 /\ t[1] = a /\ t[2] = b /\ t[3] = c
                    /\ IsPrefix(<<a, b, c, d>>, t)
                         <=> Len(t) >= 4 /\ t[1] = a /\ t[2] = b /\ t[3] = c /\ t[4] = d
  BY Zenon
<1> DEFINE Same(q) == \A i \in 1 .. Len(q) : q[i] = t[i]
<1>1. ASSUME NEW U, NEW q \in Seq(U), Len(q) <= Len(t)
      PROVE  SubSeq(q, 1, Len(q)) = SubSeq(t, 1, Len(q)) <=> Same(q)
  <2>1. /\ Len(q) \in Nat /\ Len(t) \in Nat
        /\ SubSeq(q, 1, Len(q)) = [i \in 1 .. Len(q) |-> q[i]]
        /\ SubSeq(t, 1, Len(q)) = [i \in 1 .. Len(q) |-> t[i]]
    BY <1>1
  <2> QED
    BY <2>1
<1>2. ASSUME NEW U, NEW q \in Seq(U)
      PROVE  IsPrefix(q, t) <=> Len(q) <= Len(t) /\ Same(q)
  BY <1>1 DEF IsPrefix
<1> DEFINE T == {a, b, c, d}
<1>3. /\ <<a>> \in Seq(T) /\ Len(<<a>>) = 1 /\ <<a, b>> \in Seq(T) /\ Len(<<a, b>>) = 2
      /\ <<a, b, c>> \in Seq(T) /\ Len(<<a, b, c>>) = 3
      /\ <<a, b, c, d>> \in Seq(T) /\ Len(<<a, b, c, d>>) = 4
  OBVIOUS
<1>4. Len(t) \in Nat
  OBVIOUS
<1>5. /\ Same(<<a>>) <=> t[1] = a
      /\ Same(<<a, b>>) <=> t[1] = a /\ t[2] = b
      /\ Same(<<a, b, c>>) <=> t[1] = a /\ t[2] = b /\ t[3] = c
      /\ Same(<<a, b, c, d>>) <=> t[1] = a /\ t[2] = b /\ t[3] = c /\ t[4] = d
  OBVIOUS
<1> HIDE DEF Same, T
<1>6. /\ IsPrefix(<<a>>, t) <=> 1 <= Len(t) /\ Same(<<a>>)
      /\ IsPrefix(<<a, b>>, t) <=> 2 <= Len(t) /\ Same(<<a, b>>)
      /\ IsPrefix(<<a, b, c>>, t) <=> 3 <= Len(t) /\ Same(<<a, b, c>>)
      /\ IsPrefix(<<a, b, c, d>>, t) <=> 4 <= Len(t) /\ Same(<<a, b, c, d>>)
  BY <1>2, <1>3
<1> QED
  BY <1>4, <1>5, <1>6

(* What the tables say, rule by rule.                                      *)
LEMMA FimTables ==
  /\ \A q \in DOMAIN FimExact :
       \/ /\ Len(q) = 2 /\ q[1] = "/etc/"
          /\ q[2] \in {"shadow", "gshadow", "sudoers", "passwd", "group"}
       \/ Len(q) = 3 /\ q[1] = "/root" /\ q[3] \in {".bashrc", ".profile"}
  /\ <<"/etc/", "sudoers", ".d/">> \in DOMAIN FimPrefix
  /\ \A q \in DOMAIN FimPrefix :
       \/ \E d \in {"ssh/", "pam.d/", "cron.d/", "cron.daily/", "cron.hourly/", "init.d/",
                    "systemd/"} : q = <<"/etc/", d>>
       \/ q = <<"/etc/", "sudoers", ".d/">> \/ q = <<"/root", "/", ".ssh/">>
<1> DEFINE A == {<<"/etc/", f>> : f \in {"shadow", "gshadow", "sudoers"}}
           B == {<<"/etc/", f>> : f \in {"passwd", "group"}}
                  \cup {<<"/root", "/", f>> : f \in {".bashrc", ".profile"}}
           C == {<<"/etc/", "sudoers", ".d/">>, <<"/root", "/", ".ssh/">>}
           D == {<<"/etc/", d>> : d \in {"ssh/", "pam.d/", "cron.d/", "cron.daily/",
                                         "cron.hourly/", "init.d/", "systemd/"}}
<1>1. FimExact = Rules(A, B) /\ FimPrefix = Rules(C, D)
  BY Zenon DEF FimExact, FimPrefix
<1>2. \A r \in A \cup B :
        \/ /\ Len(r) = 2 /\ r[1] = "/etc/"
           /\ r[2] \in {"shadow", "gshadow", "sudoers", "passwd", "group"}
        \/ Len(r) = 3 /\ r[1] = "/root" /\ r[3] \in {".bashrc", ".profile"}
  OBVIOUS
<1>3. \A r \in C \cup D :
        \/ \E d \in {"ssh/", "pam.d/", "cron.d/", "cron.daily/", "cron.hourly/", "init.d/",
                     "systemd/"} : r = <<"/etc/", d>>
        \/ r = <<"/etc/", "sudoers", ".d/">> \/ r = <<"/root", "/", ".ssh/">>
  OBVIOUS
<1>4. <<"/etc/", "sudoers", ".d/">> \in C \cup D
  OBVIOUS
<1> HIDE DEF A, B, C, D
<1>5. DOMAIN FimExact = A \cup B /\ DOMAIN FimPrefix = C \cup D
  BY <1>1, RulesDomain, Zenon
<1> QED
  BY <1>2, <1>3, <1>4, <1>5, Zenon

LEMMA CredTables ==
  /\ \A q \in DOMAIN CredExact :
       \/ Len(q) = 2 /\ q[1] = "/etc/" /\ q[2] \in {"shadow", "gshadow"}
       \/ Len(q) = 4 /\ q[1] = "/root" /\ q[3] = ".ssh/" /\ q[4] = "authorized_keys"
  /\ \A q \in DOMAIN CredPrefix :
       \/ q = <<"/root", "/", ".ssh/", "id_">> \/ q = <<"/root", "/", ".aws/">>
       \/ q = <<"/root", "/", ".config/", "gh/">> \/ q = <<"/etc/", "sudoers">>
<1> DEFINE A == {<<"/etc/", f>> : f \in {"shadow", "gshadow"}}
           B == {<<"/root", "/", ".ssh/", "authorized_keys">>}
           C == {<<"/root", "/", ".ssh/", "id_">>}
           D == {<<"/root", "/", ".aws/">>, <<"/root", "/", ".config/", "gh/">>,
                 <<"/etc/", "sudoers">>}
<1>1. CredExact = Rules(A, B) /\ CredPrefix = Rules(C, D)
  BY Zenon DEF CredExact, CredPrefix
<1>2. \A r \in A \cup B :
        \/ Len(r) = 2 /\ r[1] = "/etc/" /\ r[2] \in {"shadow", "gshadow"}
        \/ Len(r) = 4 /\ r[1] = "/root" /\ r[3] = ".ssh/" /\ r[4] = "authorized_keys"
  OBVIOUS
<1>3. \A r \in C \cup D :
        \/ r = <<"/root", "/", ".ssh/", "id_">> \/ r = <<"/root", "/", ".aws/">>
        \/ r = <<"/root", "/", ".config/", "gh/">> \/ r = <<"/etc/", "sudoers">>
  OBVIOUS
<1> HIDE DEF A, B, C, D
<1>4. DOMAIN CredExact = A \cup B /\ DOMAIN CredPrefix = C \cup D
  BY <1>1, RulesDomain, Zenon
<1> QED
  BY <1>2, <1>3, <1>4, Zenon

LEMMA HomeRules ==
  ASSUME NEW kind, NEW path, HomeRule(kind, AfterUser(path))
  PROVE  path[1] = "/home/" /\ \E i \in 2 .. Len(path) : path[i] \in Slashed
<1>1. CASE AfterUser(path) = <<>>
  <2>1. /\ ~IsPrefix(<<".ssh/">>, <<>>) /\ ~IsPrefix(<<".ssh/", "id_">>, <<>>)
        /\ ~IsPrefix(<<".aws/", "credentials">>, <<>>)
    BY DEF IsPrefix
  <2>2. <<>> # <<".bashrc">> /\ <<>> # <<".profile">>
    OBVIOUS
  <2> QED
    BY <1>1, <2>1, <2>2 DEF HomeRule
<1>2. CASE AfterUser(path) # <<>>
  <2>1. path[1] = "/home/" /\ {i \in 2 .. Len(path) : path[i] \in Slashed} # {}
    BY <1>2, Zenon DEF AfterUser
  <2> QED
    BY <2>1
<1> QED
  BY <1>1, <1>2

(* No rule is lost to the filter before it: what some rule matches is a    *)
(* candidate, whatever the path (fim.bpf.c is_sensitive_prefix, cred.bpf.c *)
(* is_cred_candidate; fim.rs match_path, cred.rs match_cred).              *)
THEOREM MatchedIsCandidate ==
  \A Alphabet : \A kind \in FileKinds, path \in Seq(Alphabet) :
    Match(kind, path) # 0 => Candidate(kind, path)
<1> SUFFICES ASSUME NEW kind \in FileKinds, NEW Alphabet, NEW path \in Seq(Alphabet),
                    ~Candidate(kind, path)
             PROVE  Match(kind, path) = 0
  OBVIOUS
<1> DEFINE exact  == IF kind = "fim" THEN FimExact ELSE CredExact
           prefix == IF kind = "fim" THEN FimPrefix ELSE CredPrefix
<1>1. ~HomeRule(kind, AfterUser(path))
  <2>1. path[1] = "/home/" /\ (\E i \in 2 .. Len(path) : path[i] \in Slashed)
          => path # <<>> /\ path[1] = "/home/"
    OBVIOUS
  <2> QED
    BY <2>1, HomeRules DEF Candidate
<1>2. path \notin DOMAIN exact
  <2>1. CASE kind = "fim"
    BY <2>1, FimTables DEF Candidate
  <2>2. CASE kind = "cred"
    BY <2>2, CredTables DEF Candidate, SgFile
  <2> QED
    BY <2>1, <2>2 DEF FileKinds
<1>3. ASSUME NEW q \in DOMAIN prefix, IsPrefix(q, path) PROVE FALSE
  <2>1. CASE kind = "fim"
    <3>1. Len(path) >= 1 /\ path[1] \in {"/etc/", "/root"}
      BY <1>3, <2>1, FimTables, PrefixTuples
    <3> QED
      BY <2>1, <3>1 DEF Candidate
  <2>2. CASE kind = "cred"
    <3>1. /\ Len(path) >= 2
          /\ path[1] = "/root" \/ (path[1] = "/etc/" /\ path[2] \in SgFile)
      BY <1>3, <2>2, CredTables, PrefixTuples DEF SgFile
    <3> QED
      BY <2>2, <3>1 DEF Candidate
  <2> QED
    BY <2>1, <2>2 DEF FileKinds
<1> HIDE DEF exact, prefix
<1>4. {exact[p] : p \in {q \in DOMAIN exact : q = path}}
        \cup {prefix[p] : p \in {q \in DOMAIN prefix : IsPrefix(q, path)}} = {}
  BY <1>2, <1>3
<1> QED
  BY <1>1, <1>4 DEF Match, exact, prefix

(* So the kernel's filter changes no verdict on a path that fits the       *)
(* window of 32 bytes: the first half of OpensAgree.                       *)
THEOREM ShortPathsAgree ==
  \A Alphabet : \A kind \in FileKinds, path \in Seq(Alphabet) :
    Bytes(path) <= WindowBytes => OpenReport(kind, path) = Severity(kind, path)
BY MatchedIsCandidate DEF OpenReport, Visible, KernelPasses, Severity

-----------------------------------------------------------------------------
(* Where the tokens of a path end, and what of it fits the window.         *)

(* A set of numbers has a least one.                                       *)
LEMMA Least ==
  ASSUME NEW S, S \subseteq Nat, S # {}
  PROVE  \E n \in S : \A m \in S : n <= m
<1> DEFINE Below == {0 .. n - 1 : n \in S}
<1>1. Below \subseteq FiniteSubsetsOf(Nat)
  <2>1. ASSUME NEW n \in S PROVE IsFiniteSet(0 .. n - 1) /\ 0 .. n - 1 \subseteq Nat
    BY FS_Interval
  <2> QED
    BY <2>1 DEF FiniteSubsetsOf
<1>2. Below # {}
  OBVIOUS
<1> HIDE DEF Below
<1>3. \E x \in Below : \A y \in Below : <<y, x>> \notin StrictSubsetOrdering(Nat)
  BY <1>1, <1>2, FS_StrictSubsetOrderingWellFounded, WFMin, Zenon
<1>4. \A m \in S : m \in Nat
  OBVIOUS
<1>5. PICK n \in S : \A m \in S : <<0 .. m - 1, 0 .. n - 1>> \notin StrictSubsetOrdering(Nat)
  BY <1>3 DEF Below
<1>6. ASSUME NEW m \in S, m < n PROVE FALSE
  <2>1. 0 .. m - 1 \subseteq 0 .. n - 1 /\ m \in 0 .. n - 1 /\ m \notin 0 .. m - 1
    BY <1>4, <1>6
  <2>2. 0 .. n - 1 \subseteq Nat
    BY <1>4
  <2> QED
    BY <1>5, <2>1, <2>2, Zenon DEF StrictSubsetOrdering
<1> QED
  BY <1>4, <1>6

LEMMA Widths == \A t \in Token : Width[t] \in 1 .. 18 /\ t \in Tokens(Width[t])
<1> SUFFICES ASSUME NEW t \in Token PROVE Width[t] \in 1 .. 18 /\ t \in Tokens(Width[t])
  OBVIOUS
<1>1. \E w \in 1 .. 18 : t \in Tokens(w)
  BY Zenon DEF Token
<1>2. Width[t] = CHOOSE w \in 1 .. 18 : t \in Tokens(w)
  BY DEF Width
<1> QED
  BY <1>1, <1>2, Zenon

(* So what holds of 0, and of a number when it does of the one before,     *)
(* holds of all: there is no least one of which it fails.                  *)
LEMMA Induct ==
  ASSUME NEW n \in Nat, NEW S, 0 \in S, \A i \in 1 .. n : i - 1 \in S => i \in S
  PROVE  \A i \in 0 .. n : i \in S
<1> DEFINE Out == (0 .. n) \ S
<1>1. ASSUME Out # {} PROVE FALSE
  <2>1. PICK i \in Out : \A k \in Out : i <= k
    <3>1. Out \subseteq Nat
      OBVIOUS
    <3> QED
      BY <1>1, <3>1, Least
  <2>2. i \in 1 .. n /\ i - 1 \in 0 .. n
    BY <2>1
  <2>3. i - 1 \notin Out
    BY <2>1, <2>2
  <2> QED
    BY <2>1, <2>2, <2>3
<1> QED
  BY <1>1

LEMMA Before ==
  ASSUME NEW n \in Nat, NEW m \in 1 .. n
  PROVE  /\ m \in Nat /\ m - 1 \in Nat /\ m # 0 /\ m \in 0 .. n
         /\ m - 1 \in 0 .. m - 1 /\ m \notin 0 .. m - 1
         /\ 0 .. m = (0 .. m - 1) \cup {m} /\ 1 .. m = (1 .. m - 1) \cup {m}
         /\ \A i \in 1 .. m : i - 1 \in 0 .. m - 1
OBVIOUS

(* And a function defined by such steps exists.                            *)
LEMMA Recursion ==
  ASSUME NEW n \in Nat, NEW x \in Nat, NEW grow \in [(1 .. n) \X Nat -> Nat]
  PROVE  \E f \in [0 .. n -> Nat] : f[0] = x /\ \A i \in 1 .. n : f[i] = grow[<<i, f[i - 1]>>]
<1> DEFINE Upto(m) == {f \in [0 .. m -> Nat] :
                         f[0] = x /\ \A i \in 1 .. m : f[i] = grow[<<i, f[i - 1]>>]}
           Has == {m \in 0 .. n : Upto(m) # {}}
<1>1. 0 \in Has
  <2>1. [i \in 0 .. 0 |-> x] \in Upto(0)
    OBVIOUS
  <2> QED
    BY <2>1
<1>2. ASSUME NEW m \in 1 .. n, m - 1 \in Has PROVE m \in Has
  <2>1. PICK f \in Upto(m - 1) : TRUE
    BY <1>2
  <2>2. /\ m \in Nat /\ m - 1 \in Nat /\ m - 1 \in 0 .. m - 1 /\ m # 0
        /\ 0 .. m = (0 .. m - 1) \cup {m} /\ m \notin 0 .. m - 1
        /\ 1 .. m = (1 .. m - 1) \cup {m}
        /\ \A i \in 1 .. m : i - 1 \in 0 .. m - 1
    BY Before, Zenon
  <2>3. /\ \A i \in 0 .. m - 1 : f[i] \in Nat
        /\ f[0] = x /\ \A i \in 1 .. m - 1 : f[i] = grow[<<i, f[i - 1]>>]
    BY <2>1
  <2> DEFINE g == [i \in 0 .. m |-> IF i = m THEN grow[<<m, f[m - 1]>>] ELSE f[i]]
  <2>4. grow[<<m, f[m - 1]>>] \in Nat
    BY <2>2, <2>3
  <2>5. g \in [0 .. m -> Nat] /\ g[0] = x
    BY <2>2, <2>3, <2>4
  <2>6. ASSUME NEW i \in 1 .. m PROVE g[i] = grow[<<i, g[i - 1]>>]
    <3>1. g[i - 1] = f[i - 1]
      BY <2>2
    <3>2. CASE i = m
      BY <2>2, <3>1, <3>2
    <3>3. CASE i # m
      BY <2>2, <2>3, <3>1, <3>3
    <3> QED
      BY <3>2, <3>3
  <2>7. g \in Upto(m)
    BY <2>5, <2>6
  <2> HIDE DEF g, Upto
  <2> QED
    BY <2>2, <2>7
<1> HIDE DEF Has
<1>3. n \in Has
  BY <1>1, <1>2, Induct
<1> QED
  BY <1>3 DEF Has

(* What Ends defines.                                                      *)
LEMMA EndsStep ==
  ASSUME NEW path \in Seq(Token)
  PROVE  /\ Len(path) \in Nat
         /\ Ends(path) \in [0 .. Len(path) -> Nat] /\ Ends(path)[0] = 0
         /\ \A i \in 1 .. Len(path) :
              /\ Ends(path)[i] = Ends(path)[i - 1] + Width[path[i]]
              /\ Width[path[i]] \in 1 .. 18
<1> DEFINE n == Len(path)
           Solves(f) == f = [i \in 0 .. n |-> IF i = 0 THEN 0 ELSE f[i - 1] + Width[path[i]]]
           grow == [p \in (1 .. n) \X Nat |-> p[2] + Width[path[p[1]]]]
           e == Ends(path)
<1>1. n \in Nat /\ \A i \in 1 .. n : Width[path[i]] \in 1 .. 18 /\ Width[path[i]] \in Nat
  <2>1. \A i \in 1 .. n : path[i] \in Token
    OBVIOUS
  <2>2. n \in Nat /\ \A w \in 1 .. 18 : w \in Nat
    OBVIOUS
  <2> QED
    BY <2>1, <2>2, Widths, Zenon
<1>2. grow \in [(1 .. n) \X Nat -> Nat]
  BY <1>1
<1>3. \A i \in 1 .. n : \A v \in Nat : grow[<<i, v>>] = v + Width[path[i]]
  OBVIOUS
<1> HIDE DEF grow, n
<1>4. PICK f \in [0 .. n -> Nat] : f[0] = 0 /\ \A i \in 1 .. n : f[i] = grow[<<i, f[i - 1]>>]
  <2>1. 0 \in Nat
    OBVIOUS
  <2> QED
    BY <1>1, <1>2, <2>1, Recursion, Zenon
<1>5. Solves(f)
  <2>1. ASSUME NEW i \in 0 .. n, i # 0 PROVE f[i] = f[i - 1] + Width[path[i]]
    <3>1. i \in 1 .. n /\ i - 1 \in 0 .. n
      BY <1>1, <2>1
    <3> QED
      BY <1>3, <1>4, <3>1
  <2> QED
    BY <1>4, <2>1
<1>6. Solves(e)
  BY <1>5 DEF Ends, n
<1> HIDE DEF e
<1>7. e[0] = 0 /\ \A i \in 1 .. n : e[i] = e[i - 1] + Width[path[i]]
  BY <1>1, <1>6
<1>8. \A i \in 0 .. n : e[i] \in Nat
  <2> DEFINE S == {i \in 0 .. n : e[i] \in Nat}
  <2>1. 0 \in S
    BY <1>1, <1>7
  <2>2. ASSUME NEW i \in 1 .. n, i - 1 \in S PROVE i \in S
    <3>1. e[i] = e[i - 1] + Width[path[i]] /\ e[i - 1] \in Nat /\ Width[path[i]] \in Nat
      BY <1>1, <1>7, <2>2
    <3>2. i \in 0 .. n /\ \A a, b \in Nat : a + b \in Nat
      BY <1>1
    <3> QED
      BY <3>1, <3>2, Zenon
  <2> HIDE DEF S
  <2>3. \A i \in 0 .. n : i \in S
    BY <1>1, <2>1, <2>2, Induct
  <2> QED
    BY <2>3 DEF S
<1>9. e \in [0 .. n -> Nat]
  BY <1>6, <1>8
<1> QED
  BY <1>1, <1>7, <1>9 DEF e, n

(* Tokens end one after the other.                                         *)
LEMMA EndsRise ==
  ASSUME NEW path \in Seq(Token), NEW j \in 0 .. Len(path)
  PROVE  Ends(path)[j] \in Nat /\ \A i \in 0 .. j : Ends(path)[i] <= Ends(path)[j]
<1> DEFINE n == Len(path)
           e == Ends(path)
           S == {m \in 0 .. n : \A i \in 0 .. m : e[i] <= e[m]}
<1>1. /\ n \in Nat /\ e[0] = 0 /\ \A i \in 0 .. n : e[i] \in Nat
      /\ \A i \in 1 .. n : e[i] = e[i - 1] + Width[path[i]] /\ Width[path[i]] \in 1 .. 18
  BY EndsStep
<1> HIDE DEF e, n
<1>2. 0 \in S
  BY <1>1
<1>3. ASSUME NEW m \in 1 .. n, m - 1 \in S PROVE m \in S
  <2>1. /\ m \in 0 .. n /\ m - 1 \in 0 .. n /\ 0 .. m = (0 .. m - 1) \cup {m}
        /\ 0 .. m - 1 \subseteq 0 .. n
    BY <1>1
  <2>2. /\ e[m] \in Nat /\ e[m - 1] \in Nat /\ Width[path[m]] \in 1 .. 18
        /\ e[m] = e[m - 1] + Width[path[m]]
    BY <1>1, <2>1
  <2>3. \A a, b \in Nat : \A w \in 1 .. 18 : b = a + w => a <= b /\ b <= b
    OBVIOUS
  <2>4. e[m - 1] <= e[m] /\ e[m] <= e[m]
    BY <2>2, <2>3, Zenon
  <2>5. \A a, b, c \in Nat : a <= b /\ b <= c => a <= c
    OBVIOUS
  <2>6. \A i \in 0 .. m - 1 : e[i] \in Nat /\ e[i] <= e[m - 1]
    BY <1>1, <1>3, <2>1
  <2>7. \A i \in 0 .. m : e[i] <= e[m]
    BY <2>1, <2>2, <2>4, <2>5, <2>6, Zenon
  <2> QED
    BY <2>1, <2>7
<1> HIDE DEF S
<1>4. \A m \in 0 .. n : m \in S
  BY <1>1, <1>2, <1>3, Induct
<1> QED
  BY <1>1, <1>4 DEF S, e, n

(* A part of a path is as long as where it ends.                           *)
LEMMA PartEnds ==
  ASSUME NEW path \in Seq(Token), NEW m \in 0 .. Len(path)
  PROVE  /\ SubSeq(path, 1, m) \in Seq(Token) /\ Len(SubSeq(path, 1, m)) = m
         /\ \A i \in 1 .. m : SubSeq(path, 1, m)[i] = path[i]
         /\ Bytes(SubSeq(path, 1, m)) = Ends(path)[m]
<1> DEFINE part == SubSeq(path, 1, m)
           e == Ends(path)
           d == Ends(part)
           S == {i \in 0 .. m : d[i] = e[i]}
<1>1. /\ part \in Seq(Token) /\ Len(part) = m /\ m \in Nat /\ 1 .. m \subseteq 1 .. Len(path)
      /\ \A i \in 1 .. m : part[i] = path[i]
  OBVIOUS
<1> HIDE DEF part
<1>2. d[0] = 0 /\ \A i \in 1 .. m : d[i] = d[i - 1] + Width[part[i]]
  BY <1>1, EndsStep
<1>3. e[0] = 0 /\ \A i \in 1 .. m : e[i] = e[i - 1] + Width[path[i]]
  BY <1>1, EndsStep
<1> HIDE DEF d, e
<1>4. 0 \in S
  BY <1>1, <1>2, <1>3
<1>5. ASSUME NEW i \in 1 .. m, i - 1 \in S PROVE i \in S
  <2>1. i \in 0 .. m
    BY <1>1
  <2>2. d[i] = e[i]
    BY <1>1, <1>2, <1>3, <1>5, Zenon
  <2> QED
    BY <2>1, <2>2
<1> HIDE DEF S
<1>6. m \in S
  <2>1. m \in 0 .. m
    BY <1>1
  <2>2. \A i \in 0 .. m : i \in S
    BY <1>1, <1>4, <1>5, Induct
  <2> QED
    BY <2>1, <2>2
<1> QED
  BY <1>1, <1>6 DEF S, part, d, e, Bytes

(* What fits the window is seen as it is.                                  *)
LEMMA VisibleKeeps ==
  ASSUME NEW path \in Seq(Token), Bytes(path) > WindowBytes,
         NEW m \in 0 .. Len(path), Ends(path)[m] <= WindowBytes
  PROVE  /\ Visible(path) \in Seq(Token \cup {"cut"})
         /\ m <= Len(Visible(path)) /\ \A i \in 1 .. m : Visible(path)[i] = path[i]
<1> DEFINE e == Ends(path)
           LastSeen(i) == /\ Bytes(SubSeq(path, 1, i)) <= WindowBytes
                          /\ Bytes(SubSeq(path, 1, i + 1)) > WindowBytes
           n == CHOOSE i \in 0 .. Len(path) - 1 : LastSeen(i)
           seen == SubSeq(path, 1, n)
           Over31 == {i \in Nat : i <= Len(path) /\ e[i] > WindowBytes}
<1>1. /\ Len(path) \in Nat /\ e[0] = 0 /\ e[Len(path)] > WindowBytes
      /\ \A i \in 0 .. Len(path) : e[i] \in Nat
      /\ \A i \in 0 .. Len(path) : Bytes(SubSeq(path, 1, i)) = e[i]
      /\ \A j \in 0 .. Len(path) : \A i \in 0 .. j : e[i] <= e[j]
  <2>1. Len(path) \in Nat /\ e[0] = 0
    BY EndsStep
  <2>2. \A i \in 0 .. Len(path) : Bytes(SubSeq(path, 1, i)) = e[i]
    BY PartEnds
  <2>3. \A j \in 0 .. Len(path) : e[j] \in Nat /\ \A i \in 0 .. j : e[i] <= e[j]
    BY EndsRise
  <2> QED
    BY <2>1, <2>2, <2>3 DEF Bytes
<1> HIDE DEF e
<1>2. \E i \in 0 .. Len(path) - 1 : LastSeen(i)
  <2>1. Over31 # {}
    BY <1>1
  <2>2. PICK j \in Over31 : \A k \in Over31 : j <= k
    BY <2>1, Least
  <2>3. j # 0
    BY <1>1, <2>2 DEF WindowBytes
  <2>4. j - 1 \in 0 .. Len(path) - 1 /\ j - 1 \notin Over31 /\ j \in 0 .. Len(path)
    BY <1>1, <2>2, <2>3
  <2>5. e[j - 1] <= WindowBytes /\ e[j] > WindowBytes
    BY <1>1, <2>2, <2>4 DEF WindowBytes
  <2>6. Bytes(SubSeq(path, 1, j - 1)) = e[j - 1] /\ Bytes(SubSeq(path, 1, (j - 1) + 1)) = e[j]
    <3>1. j - 1 \in 0 .. Len(path) /\ (j - 1) + 1 = j
      BY <2>4
    <3> QED
      BY <1>1, <2>4, <3>1
  <2> QED
    BY <2>4, <2>5, <2>6
<1>3. n \in 0 .. Len(path) - 1 /\ LastSeen(n)
  BY <1>2, Zenon
<1>4. Visible(path) = IF Bytes(seen) = WindowBytes THEN seen ELSE Append(seen, "cut")
  <2>1. ~(Bytes(path) <= WindowBytes)
    BY <1>1 DEF Bytes, e, WindowBytes
  <2> QED
    BY <2>1, Zenon DEF Visible
<1> HIDE DEF n
<1>5. e[n + 1] > WindowBytes /\ n + 1 \in 0 .. Len(path)
  BY <1>1, <1>3
<1>6. m <= n
  <2>1. CASE n + 1 <= m
    BY <1>1, <1>5, <2>1 DEF e, WindowBytes
  <2> QED
    BY <1>1, <1>3, <2>1
<1>7. seen \in Seq(Token) /\ Len(seen) = n /\ \A i \in 1 .. n : seen[i] = path[i]
  BY <1>1, <1>3, PartEnds
<1> HIDE DEF seen
<1>8. /\ Append(seen, "cut") \in Seq(Token \cup {"cut"})
      /\ Len(Append(seen, "cut")) = n + 1
      /\ \A i \in 1 .. n : Append(seen, "cut")[i] = seen[i]
  BY <1>7
<1>9. seen \in Seq(Token \cup {"cut"})
  BY <1>7
<1> QED
  BY <1>3, <1>4, <1>6, <1>7, <1>8, <1>9

(* A rule that matches has a severity, and only then is there one.         *)
LEMMA Hits ==
  ASSUME NEW kind, NEW path
  PROVE  LET exact  == IF kind = "fim" THEN FimExact ELSE CredExact
             prefix == IF kind = "fim" THEN FimPrefix ELSE CredPrefix
         IN  /\ Match(kind, path) \in {0, 2, 3}
             /\ Match(kind, path) # 0 <=> \/ HomeRule(kind, AfterUser(path))
                                          \/ path \in DOMAIN exact
                                          \/ \E q \in DOMAIN prefix : IsPrefix(q, path)
<1> DEFINE exact  == IF kind = "fim" THEN FimExact ELSE CredExact
           prefix == IF kind = "fim" THEN FimPrefix ELSE CredPrefix
           hits   == {exact[p] : p \in {q \in DOMAIN exact : q = path}}
                       \cup {prefix[p] : p \in {q \in DOMAIN prefix : IsPrefix(q, path)}}
<1>1. \A A, B : \A p \in A \cup B : Rules(A, B)[p] \in {2, 3}
  BY DEF Rules
<1>2. /\ \A p \in DOMAIN exact : exact[p] \in {2, 3}
      /\ \A p \in DOMAIN prefix : prefix[p] \in {2, 3}
  BY <1>1, RulesDomain, Zenon DEF FimExact, CredExact, FimPrefix, CredPrefix
<1>3. hits \subseteq {2, 3}
  BY <1>2
<1>4. hits # {} <=> path \in DOMAIN exact \/ \E q \in DOMAIN prefix : IsPrefix(q, path)
  OBVIOUS
<1>5. Match(kind, path) = IF HomeRule(kind, AfterUser(path)) THEN 3
                          ELSE IF hits = {} THEN 0 ELSE Max(hits)
  BY Zenon DEF Match
<1> HIDE DEF hits
<1>6. hits # {} => Max(hits) \in {2, 3}
  <2>1. ASSUME NEW S \in SUBSET {2, 3}, S # {} PROVE \E x \in S : \A y \in S : x >= y
    <3>1. CASE 3 \in S
      BY <3>1
    <3>2. CASE 3 \notin S
      <4>1. S = {2}
        BY <2>1, <3>2
      <4> QED
        BY <4>1
    <3> QED
      BY <3>1, <3>2
  <2>2. hits # {} => Max(hits) \in hits
    BY <1>3, <2>1, Zenon DEF Max
  <2> QED
    BY <1>3, <2>2
<1> QED
  BY <1>4, <1>5, <1>6

(* An exact rule says nothing of what follows, but where the sudoers file  *)
(* is also the first part of its directory.                                *)
LEMMA FimExactOnly ==
  ASSUME NEW S, NEW path \in Seq(S), NEW m \in 0 .. Len(path) - 1,
         SubSeq(path, 1, m) \in DOMAIN FimExact,
         path \in DOMAIN FimExact \/ \E q \in DOMAIN FimPrefix : IsPrefix(q, path)
  PROVE  Len(path) >= 3 /\ path[1] = "/etc/" /\ path[2] = "sudoers" /\ path[3] = ".d/"
<1> DEFINE part == SubSeq(path, 1, m)
<1>1. /\ Len(path) \in Nat /\ m \in Nat /\ m < Len(path) /\ Len(part) = m
      /\ \A i \in 1 .. m : part[i] = path[i]
  OBVIOUS
<1> HIDE DEF part
<1>2. part \in DOMAIN FimExact
  BY DEF part
<1>3. \/ /\ Len(part) = 2 /\ part[1] = "/etc/"
         /\ part[2] \in {"shadow", "gshadow", "sudoers", "passwd", "group"}
      \/ Len(part) = 3 /\ part[1] = "/root" /\ part[3] \in {".bashrc", ".profile"}
  BY <1>2, FimTables
<1>4. \/ /\ m = 2 /\ path[1] = "/etc/"
         /\ path[2] \in {"shadow", "gshadow", "sudoers", "passwd", "group"}
      \/ m = 3 /\ path[1] = "/root" /\ path[3] \in {".bashrc", ".profile"}
  BY <1>1, <1>3
<1>5. CASE path \in DOMAIN FimExact
  <2>1. \/ /\ Len(path) = 2 /\ path[1] = "/etc/"
           /\ path[2] \in {"shadow", "gshadow", "sudoers", "passwd", "group"}
        \/ Len(path) = 3 /\ path[1] = "/root" /\ path[3] \in {".bashrc", ".profile"}
    BY <1>5, FimTables
  <2>2. m = 2 \/ m = 3
    BY <1>4
  <2>3. Len(path) = 2 \/ Len(path) = 3
    BY <2>1
  <2>4. m = 2 /\ Len(path) = 3
    <3>1. \A x, y \in Nat : x < y /\ (x = 2 \/ x = 3) /\ (y = 2 \/ y = 3) => x = 2 /\ y = 3
      OBVIOUS
    <3> QED
      BY <1>1, <2>2, <2>3, <3>1, Zenon
  <2> QED
    BY <1>4, <2>1, <2>4
<1>6. CASE \E q \in DOMAIN FimPrefix : IsPrefix(q, path)
  <2>1. PICK q \in DOMAIN FimPrefix : IsPrefix(q, path)
    BY <1>6
  <2>2. \/ path[1] = "/etc/" /\ path[2] \in {"ssh/", "pam.d/", "cron.d/", "cron.daily/",
                                             "cron.hourly/", "init.d/", "systemd/"}
        \/ Len(path) >= 3 /\ path[1] = "/etc/" /\ path[2] = "sudoers" /\ path[3] = ".d/"
        \/ path[1] = "/root" /\ path[3] = ".ssh/"
    BY <2>1, FimTables, PrefixTuples
  <2> QED
    BY <1>4, <2>2
<1> QED
  BY <1>5, <1>6

LEMMA CredExactOnly ==
  ASSUME NEW S, NEW path \in Seq(S), NEW m \in 0 .. Len(path) - 1,
         SubSeq(path, 1, m) \in DOMAIN CredExact,
         path \in DOMAIN CredExact \/ \E q \in DOMAIN CredPrefix : IsPrefix(q, path)
  PROVE  FALSE
<1> DEFINE part == SubSeq(path, 1, m)
<1>1. /\ Len(path) \in Nat /\ m \in Nat /\ m < Len(path) /\ Len(part) = m
      /\ \A i \in 1 .. m : part[i] = path[i]
  OBVIOUS
<1> HIDE DEF part
<1>2. part \in DOMAIN CredExact
  BY DEF part
<1>3. \/ Len(part) = 2 /\ part[1] = "/etc/" /\ part[2] \in {"shadow", "gshadow"}
      \/ Len(part) = 4 /\ part[1] = "/root" /\ part[3] = ".ssh/" /\ part[4] = "authorized_keys"
  BY <1>2, CredTables
<1>4. \/ m = 2 /\ path[1] = "/etc/" /\ path[2] \in {"shadow", "gshadow"}
      \/ m = 4 /\ path[1] = "/root" /\ path[3] = ".ssh/" /\ path[4] = "authorized_keys"
  BY <1>1, <1>3
<1>5. CASE path \in DOMAIN CredExact
  <2>1. \/ Len(path) = 2 /\ path[1] = "/etc/" /\ path[2] \in {"shadow", "gshadow"}
        \/ Len(path) = 4 /\ path[1] = "/root" /\ path[3] = ".ssh/" /\ path[4] = "authorized_keys"
    BY <1>5, CredTables
  <2>2. m = 2 \/ m = 4
    BY <1>4
  <2>3. Len(path) = 2 \/ Len(path) = 4
    BY <2>1
  <2>4. m = 2 /\ Len(path) = 4
    <3>1. \A x, y \in Nat : x < y /\ (x = 2 \/ x = 4) /\ (y = 2 \/ y = 4) => x = 2 /\ y = 4
      OBVIOUS
    <3> QED
      BY <1>1, <2>2, <2>3, <3>1, Zenon
  <2> QED
    BY <1>4, <2>1, <2>4
<1>6. CASE \E q \in DOMAIN CredPrefix : IsPrefix(q, path)
  <2>1. PICK q \in DOMAIN CredPrefix : IsPrefix(q, path)
    BY <1>6
  <2>2. \/ path[1] = "/root" /\ path[3] = ".ssh/" /\ path[4] = "id_"
        \/ path[1] = "/root" /\ path[3] \in {".aws/", ".config/"}
        \/ path[1] = "/etc/" /\ path[2] = "sudoers"
    BY <2>1, CredTables, PrefixTuples
  <2> QED
    BY <1>4, <2>2
<1> QED
  BY <1>5, <1>6

(* Where the user of a path below /home ends.                              *)
UserEnd(path, k) ==
  /\ k \in 2 .. Len(path) /\ path[k] \in Slashed
  /\ \A i \in 2 .. k - 1 : path[i] \notin Slashed

(* What a rule below /home says of the tokens from there on.               *)
HomeTail(kind, path, k) ==
  \/ kind = "fim" /\ path[k + 1] = ".ssh/"
  \/ kind = "fim" /\ Len(path) = k + 1 /\ path[k + 1] \in {".bashrc", ".profile"}
  \/ /\ kind = "cred" /\ Len(path) > k + 1
     /\ \/ path[k + 1] = ".ssh/" /\ path[k + 2] = "id_"
        \/ path[k + 1] = ".aws/" /\ path[k + 2] = "credentials"

LEMMA UserEnds ==
  ASSUME NEW S, NEW path \in Seq(S), NEW k, UserEnd(path, k), path[1] = "/home/"
  PROVE  AfterUser(path) = SubSeq(path, k + 1, Len(path))
<1> DEFINE slashes == {i \in 2 .. Len(path) : path[i] \in Slashed}
           Lowest(n) == \A m \in slashes : n <= m
<1>1. k \in slashes /\ slashes \subseteq Nat /\ Lowest(k)
  BY DEF UserEnd
<1>2. \A n \in slashes : Lowest(n) => n = k
  BY <1>1
<1>3. Min(slashes) = CHOOSE n \in slashes : Lowest(n)
  BY Zenon DEF Min
<1>4. AfterUser(path) = IF slashes # {} /\ path[1] = "/home/"
                        THEN SubSeq(path, Min(slashes) + 1, Len(path)) ELSE <<>>
  BY Zenon DEF AfterUser
<1> HIDE DEF slashes, Lowest
<1>5. Min(slashes) = k
  BY <1>1, <1>2, <1>3, Zenon
<1> QED
  BY <1>1, <1>4, <1>5

(* So a rule below /home is one of a prefix, or of one of two files.       *)
LEMMA HomeTailRule ==
  ASSUME NEW kind \in FileKinds, NEW S, NEW path \in Seq(S), NEW k, UserEnd(path, k),
         path[1] = "/home/"
  PROVE  HomeRule(kind, AfterUser(path)) <=> k < Len(path) /\ HomeTail(kind, path, k)
<1> DEFINE rest == AfterUser(path)
<1>1. rest = SubSeq(path, k + 1, Len(path))
  BY UserEnds
<1>2. k \in Nat /\ k <= Len(path) /\ k >= 2 /\ Len(path) \in Nat
  BY DEF UserEnd
<1>3. /\ rest \in Seq(S) /\ Len(rest) = Len(path) - k
      /\ Len(rest) >= 1 => rest[1] = path[k + 1]
      /\ Len(rest) >= 2 => rest[2] = path[k + 2]
  BY <1>1, <1>2
<1> HIDE DEF rest
<1>4. /\ Len(rest) >= 1 <=> k < Len(path)
      /\ Len(rest) >= 2 <=> Len(path) > k + 1
      /\ Len(rest) = 1 <=> Len(path) = k + 1
      /\ Len(path) > k + 1 => k < Len(path)
      /\ Len(path) = k + 1 => k < Len(path)
  BY <1>2, <1>3
<1>5. /\ \A a : IsPrefix(<<a>>, rest) <=> Len(rest) >= 1 /\ rest[1] = a
      /\ \A a, b : IsPrefix(<<a, b>>, rest) <=> Len(rest) >= 2 /\ rest[1] = a /\ rest[2] = b
  <2>1. rest \in Seq(S)
    BY <1>3
  <2> QED
    BY <2>1, PrefixTuples, Zenon
<1>6. ASSUME NEW a, NEW b
      PROVE  /\ IsPrefix(<<a>>, rest) <=> k < Len(path) /\ path[k + 1] = a
             /\ IsPrefix(<<a, b>>, rest)
                  <=> Len(path) > k + 1 /\ path[k + 1] = a /\ path[k + 2] = b
  BY <1>3, <1>4, <1>5, Zenon
<1>7. ASSUME NEW a PROVE rest = <<a>> <=> Len(path) = k + 1 /\ path[k + 1] = a
  <2>1. \A r \in Seq(S) : r = <<a>> <=> Len(r) = 1 /\ r[1] = a
    OBVIOUS
  <2>2. Len(rest) = 1 => Len(rest) >= 1
    OBVIOUS
  <2> QED
    BY <1>3, <1>4, <2>1, <2>2, Zenon
<1>8. CASE kind = "fim"
  <2>1. HomeRule(kind, rest)
          <=> IsPrefix(<<".ssh/">>, rest) \/ rest = <<".bashrc">> \/ rest = <<".profile">>
    BY <1>8, Zenon DEF HomeRule
  <2>2. HomeTail(kind, path, k)
          <=> \/ path[k + 1] = ".ssh/"
              \/ Len(path) = k + 1 /\ path[k + 1] = ".bashrc"
              \/ Len(path) = k + 1 /\ path[k + 1] = ".profile"
    BY <1>8 DEF HomeTail
  <2> QED
    BY <1>4, <1>6, <1>7, <2>1, <2>2, Zenon DEF rest
<1>9. CASE kind = "cred"
  <2>1. HomeRule(kind, rest)
          <=> IsPrefix(<<".ssh/", "id_">>, rest) \/ IsPrefix(<<".aws/", "credentials">>, rest)
    BY <1>9 DEF HomeRule
  <2>2. HomeTail(kind, path, k)
          <=> /\ Len(path) > k + 1
              /\ \/ path[k + 1] = ".ssh/" /\ path[k + 2] = "id_"
                 \/ path[k + 1] = ".aws/" /\ path[k + 2] = "credentials"
    BY <1>9 DEF HomeTail
  <2> QED
    BY <1>4, <1>6, <2>1, <2>2, Zenon DEF rest
<1> QED
  BY <1>8, <1>9 DEF FileKinds

LEMMA HomeShape ==
  ASSUME NEW kind \in FileKinds, NEW S, NEW path \in Seq(S), HomeRule(kind, AfterUser(path))
  PROVE  /\ path[1] = "/home/"
         /\ \E k \in 2 .. Len(path) - 1 : UserEnd(path, k) /\ HomeTail(kind, path, k)
<1> DEFINE slashes == {i \in 2 .. Len(path) : path[i] \in Slashed}
<1>1. path[1] = "/home/" /\ slashes # {} /\ slashes \subseteq Nat /\ Len(path) \in Nat
  BY HomeRules
<1>2. PICK k \in slashes : \A m \in slashes : k <= m
  BY <1>1, Least
<1>3. UserEnd(path, k)
  BY <1>1, <1>2 DEF UserEnd
<1>4. k < Len(path) /\ HomeTail(kind, path, k)
  BY <1>1, <1>3, HomeTailRule
<1>5. k \in 2 .. Len(path) - 1
  BY <1>1, <1>2, <1>4
<1> QED
  BY <1>1, <1>3, <1>4, <1>5

LEMMA SudoersFits ==
  ASSUME NEW path \in Seq(Token), Len(path) >= 3,
         path[1] = "/etc/", path[2] = "sudoers", path[3] = ".d/"
  PROVE  Ends(path)[3] <= WindowBytes
<1>1. /\ \A w \in 1 .. 18 : "/etc/" \in Tokens(w) => w = 5
      /\ \A w \in 1 .. 18 : "sudoers" \in Tokens(w) => w = 7
      /\ \A w \in 1 .. 18 : ".d/" \in Tokens(w) => w = 3
  BY DEF Tokens
<1>2. "/etc/" \in Token /\ "sudoers" \in Token /\ ".d/" \in Token
  <2>1. path[1] \in Token /\ path[2] \in Token /\ path[3] \in Token
    OBVIOUS
  <2> QED
    BY <2>1
<1>3. Width["/etc/"] = 5 /\ Width["sudoers"] = 7 /\ Width[".d/"] = 3
  BY <1>1, <1>2, Widths, Zenon
<1>4. /\ Ends(path)[0] = 0 /\ 1 \in 1 .. Len(path) /\ 2 \in 1 .. Len(path) /\ 3 \in 1 .. Len(path)
      /\ 1 - 1 = 0 /\ 2 - 1 = 1 /\ 3 - 1 = 2
  BY EndsStep
<1>5. Ends(path)[1] = 0 + 5 /\ Ends(path)[2] = Ends(path)[1] + 7
      /\ Ends(path)[3] = Ends(path)[2] + 3
  <2>1. \A i \in 1 .. Len(path) : Ends(path)[i] = Ends(path)[i - 1] + Width[path[i]]
    BY EndsStep
  <2> QED
    BY <1>3, <1>4, <2>1, Zenon
<1> QED
  BY <1>5 DEF WindowBytes

(* What a watched part of a path matches, the window shows.                *)
LEMMA WindowKeepsRule ==
  ASSUME NEW kind \in FileKinds, NEW path \in Seq(Token), NEW m \in 0 .. Len(path),
         Bytes(path) > WindowBytes, Bytes(SubSeq(path, 1, m)) <= WindowBytes,
         Match(kind, path) # 0, Match(kind, SubSeq(path, 1, m)) # 0
  PROVE  Match(kind, Visible(path)) # 0
<1> DEFINE part == SubSeq(path, 1, m)
           v == Visible(path)
           exact  == IF kind = "fim" THEN FimExact ELSE CredExact
           prefix == IF kind = "fim" THEN FimPrefix ELSE CredPrefix
           Alphabet == Token \cup {"cut"}
<1>1. /\ Len(path) \in Nat /\ m \in Nat /\ part \in Seq(Token) /\ Len(part) = m
      /\ \A i \in 1 .. m : part[i] = path[i]
      /\ Ends(path)[m] <= WindowBytes
  BY PartEnds
<1>2. m < Len(path)
  <2>1. m = Len(path) => Ends(path)[m] = Bytes(path)
    BY DEF Bytes
  <2>2. Ends(path)[m] \in Nat
    BY EndsRise
  <2>3. m # Len(path)
    BY <1>1, <2>1, <2>2 DEF WindowBytes
  <2> QED
    BY <1>1, <2>3
<1>3. v \in Seq(Alphabet) /\ m <= Len(v) /\ \A i \in 1 .. m : v[i] = path[i]
  BY <1>1, VisibleKeeps
<1>4. \/ HomeRule(kind, AfterUser(part)) \/ part \in DOMAIN exact
      \/ \E q \in DOMAIN prefix : IsPrefix(q, part)
  BY Hits
<1>5. \/ HomeRule(kind, AfterUser(path)) \/ path \in DOMAIN exact
      \/ \E q \in DOMAIN prefix : IsPrefix(q, path)
  BY Hits
<1>6. \/ HomeRule(kind, AfterUser(v)) \/ v \in DOMAIN exact
      \/ \E q \in DOMAIN prefix : IsPrefix(q, v)
      => Match(kind, v) # 0
  BY Hits
<1> HIDE DEF part, v, Alphabet
<1>7. /\ path \in DOMAIN exact \/ (\E q \in DOMAIN prefix : IsPrefix(q, path))
           => path[1] \in {"/etc/", "/root"}
      /\ part \in DOMAIN exact => part[1] \in {"/etc/", "/root"} /\ m >= 1
  <2>1. CASE kind = "fim"
    BY <1>1, <2>1, FimTables, PrefixTuples
  <2>2. CASE kind = "cred"
    BY <1>1, <2>2, CredTables, PrefixTuples
  <2> QED
    BY <2>1, <2>2 DEF FileKinds
<1>8. CASE HomeRule(kind, AfterUser(part))
  <2>1. PICK k \in 2 .. m - 1 : UserEnd(part, k) /\ HomeTail(kind, part, k)
    BY <1>1, <1>8, HomeShape
  <2>2. /\ k \in Nat /\ 1 \in 1 .. m /\ k + 1 \in 1 .. m /\ k < m /\ k < Len(path) /\ k < Len(v)
        /\ m > k + 1 => k + 2 \in 1 .. m
        /\ \A i \in 2 .. k : i \in 1 .. m
        /\ k \in 2 .. Len(path) /\ k \in 2 .. Len(v)
    <3>1. Len(v) \in Nat
      BY <1>3
    <3> QED
      BY <1>1, <1>2, <1>3, <3>1
  <2>3. part[1] = "/home/"
    BY <1>1, <1>8, HomeShape
  <2>4. /\ path[1] = "/home/" /\ UserEnd(path, k)
        /\ v[1] = "/home/" /\ UserEnd(v, k)
    BY <1>1, <1>3, <2>1, <2>2, <2>3 DEF UserEnd
  <2>5. part[k + 1] = path[k + 1] /\ v[k + 1] = path[k + 1]
    BY <1>1, <1>3, <2>2
  <2>6. CASE kind = "fim" /\ m = k + 1 /\ part[k + 1] \in {".bashrc", ".profile"}
    <3>1. HomeRule(kind, AfterUser(path))
      BY <1>5, <1>7, <2>4
    <3>2. HomeTail(kind, path, k)
      BY <2>4, <3>1, HomeTailRule
    <3>3. path[k + 1] = ".ssh/" \/ Len(path) = k + 1
      BY <2>6, <3>2 DEF HomeTail
    <3>4. path[k + 1] # ".ssh/"
      BY <2>5, <2>6
    <3>5. Len(path) # k + 1
      BY <1>1, <1>2, <2>6
    <3> QED
      BY <3>3, <3>4, <3>5
  <2>7. CASE ~(kind = "fim" /\ m = k + 1 /\ part[k + 1] \in {".bashrc", ".profile"})
    <3>1. \/ kind = "fim" /\ v[k + 1] = ".ssh/"
          \/ /\ kind = "cred" /\ m > k + 1
             /\ \/ v[k + 1] = ".ssh/" /\ part[k + 2] = "id_"
                \/ v[k + 1] = ".aws/" /\ part[k + 2] = "credentials"
      BY <1>1, <2>1, <2>5, <2>7 DEF HomeTail
    <3>2. m > k + 1 => v[k + 2] = part[k + 2] /\ Len(v) > k + 1
      BY <1>1, <1>3, <2>2
    <3>3. HomeTail(kind, v, k)
      BY <3>1, <3>2 DEF HomeTail
    <3>4. HomeRule(kind, AfterUser(v))
      BY <1>3, <2>2, <2>4, <3>3, HomeTailRule
    <3> QED
      BY <1>6, <3>4 DEF v
  <2> QED
    BY <2>6, <2>7
<1>9. CASE part \in DOMAIN exact
  <2>1. ~HomeRule(kind, AfterUser(path))
    <3>1. path[1] # "/home/"
      BY <1>1, <1>7, <1>9
    <3> QED
      BY <3>1, HomeRules
  <2>2. path \in DOMAIN exact \/ \E q \in DOMAIN prefix : IsPrefix(q, path)
    BY <1>5, <2>1
  <2>3. m \in 0 .. Len(path) - 1
    BY <1>1, <1>2
  <2>4. kind = "fim"
    BY <1>9, <2>2, <2>3, CredExactOnly DEF part, FileKinds
  <2>5. Len(path) >= 3 /\ path[1] = "/etc/" /\ path[2] = "sudoers" /\ path[3] = ".d/"
    BY <1>9, <2>2, <2>3, <2>4, FimExactOnly DEF part
  <2>6. Ends(path)[3] <= WindowBytes /\ 3 \in 0 .. Len(path)
    BY <1>1, <2>5, SudoersFits
  <2>7. 3 <= Len(v) /\ \A i \in 1 .. 3 : v[i] = path[i]
    BY <2>6, VisibleKeeps DEF v
  <2>8. IsPrefix(<<"/etc/", "sudoers", ".d/">>, v)
    <3>1. v[1] = "/etc/" /\ v[2] = "sudoers" /\ v[3] = ".d/"
      BY <2>5, <2>7
    <3> QED
      BY <1>3, <2>7, <3>1, PrefixTuples
  <2> QED
    BY <1>6, <2>4, <2>8, FimTables DEF v
<1>10. CASE \E q \in DOMAIN prefix : IsPrefix(q, part)
  <2>1. PICK q \in DOMAIN prefix : IsPrefix(q, part)
    BY <1>10
  <2>2. \A i \in 1 .. m : part[i] = v[i]
    BY <1>1, <1>3
  <2>3. Len(v) \in Nat
    BY <1>3
  <2>4. /\ m >= 1 => part[1] = v[1]
        /\ m >= 2 => part[2] = v[2]
        /\ m >= 3 => part[3] = v[3]
        /\ m >= 4 => part[4] = v[4]
    BY <1>1, <2>2
  <2>5. IsPrefix(q, v)
    <3>1. CASE kind = "fim"
      BY <1>1, <1>3, <2>1, <2>3, <2>4, <3>1, FimTables, PrefixTuples
    <3>2. CASE kind = "cred"
      BY <1>1, <1>3, <2>1, <2>3, <2>4, <3>2, CredTables, PrefixTuples
    <3> QED
      BY <3>1, <3>2 DEF FileKinds
  <2> QED
    BY <1>6, <2>1, <2>5 DEF v
<1> QED
  BY <1>4, <1>8, <1>9, <1>10 DEF part, v

(* A path with a watched part that fits the window is reported, if a rule  *)
(* matches the whole of it.                                                *)
LEMMA WatchedPartIsReported ==
  ASSUME NEW kind \in FileKinds, NEW path \in Seq(Token), NEW m \in 0 .. Len(path),
         Bytes(SubSeq(path, 1, m)) <= WindowBytes,
         Match(kind, path) # 0, Match(kind, SubSeq(path, 1, m)) # 0
  PROVE  OpenReport(kind, path) > 0
<1>1. CASE Bytes(path) <= WindowBytes
  <2>1. OpenReport(kind, path) = Severity(kind, path)
    BY <1>1, ShortPathsAgree
  <2>2. Match(kind, path) \in {0, 2, 3}
    BY Hits
  <2> QED
    BY <2>1, <2>2 DEF Severity
<1>2. CASE ~(Bytes(path) <= WindowBytes)
  <2>1. Len(path) \in 0 .. Len(path) /\ Ends(path)[Len(path)] \in Nat
    BY EndsStep, EndsRise
  <2>2. Bytes(path) > WindowBytes
    BY <1>2, <2>1 DEF Bytes, WindowBytes
  <2>3. Match(kind, Visible(path)) # 0
    BY <2>2, WindowKeepsRule
  <2>4. 0 \in 0 .. Len(path) /\ Ends(path)[0] <= WindowBytes
    BY EndsStep DEF WindowBytes
  <2>5. Visible(path) \in Seq(Token \cup {"cut"})
    BY <2>2, <2>4, VisibleKeeps
  <2>6. Candidate(kind, Visible(path))
    BY <2>3, <2>5, MatchedIsCandidate
  <2>7. Match(kind, Visible(path)) \in {0, 2, 3}
    BY Hits
  <2> QED
    BY <2>3, <2>6, <2>7 DEF OpenReport, KernelPasses, Severity
<1> QED
  BY <1>1, <1>2

(* On every path, the filter in the kernel, the window of 32 bytes and the *)
(* rules come to what the rules alone say, as far as the watched part of   *)
(* the path fits the window.                                               *)
THEOREM EveryOpenAgrees ==
  \A kind \in FileKinds, path \in Seq(Token) : OpenAgrees(kind, path)
<1> SUFFICES ASSUME NEW kind \in FileKinds, NEW path \in Seq(Token)
             PROVE  OpenAgrees(kind, path)
  OBVIOUS
<1>1. Bytes(path) <= WindowBytes => OpenReport(kind, path) = Severity(kind, path)
  BY ShortPathsAgree
<1>2. ASSUME Match(kind, path) > 0, NEW m \in 0 .. Len(path),
             Match(kind, SubSeq(path, 1, m)) > 0, Bytes(SubSeq(path, 1, m)) <= WindowBytes
      PROVE  OpenReport(kind, path) > 0
  BY <1>2, WatchedPartIsReported
<1> QED
  BY <1>1, <1>2 DEF OpenAgrees

(* So it is for the opens that the runs ask about.                         *)
THEOREM OpensAgreeAlways == DSpec => []OpensAgree
<1>1. OpensAgree
  BY EveryOpenAgrees, DetectionAssumption DEF OpensAgree, OpensThatDiffer
<1> QED
  BY <1>1, PTL

-----------------------------------------------------------------------------
(* The words of a CIDR, and the octets of the kernel.                      *)

LEMMA Bits == AddrBits \in Nat /\ AddrBits >= 16 /\ AddrBits \in 0 .. AddrBits
BY AddrAssumption

LEMMA PowersStep ==
  /\ Powers[0] = 1 /\ \A i \in 0 .. AddrBits : Powers[i] \in Nat
  /\ \A i \in 1 .. AddrBits : Powers[i] = 2 * Powers[i - 1]
<1> DEFINE Solves(f) == f = [i \in 0 .. AddrBits |-> IF i = 0 THEN 1 ELSE 2 * f[i - 1]]
           grow == [q \in (1 .. AddrBits) \X Nat |-> 2 * q[2]]
           e == CHOOSE f : Solves(f)
<1>1. grow \in [(1 .. AddrBits) \X Nat -> Nat]
  OBVIOUS
<1>2. \A i \in 1 .. AddrBits : \A v \in Nat : grow[<<i, v>>] = 2 * v
  OBVIOUS
<1> HIDE DEF grow
<1>3. PICK f \in [0 .. AddrBits -> Nat] :
        f[0] = 1 /\ \A i \in 1 .. AddrBits : f[i] = grow[<<i, f[i - 1]>>]
  <2>1. 1 \in Nat
    OBVIOUS
  <2> QED
    BY <1>1, <2>1, Bits, Recursion, Zenon
<1>4. Solves(f)
  <2>1. ASSUME NEW i \in 0 .. AddrBits, i # 0 PROVE f[i] = 2 * f[i - 1]
    <3>1. i \in 1 .. AddrBits /\ i - 1 \in 0 .. AddrBits
      BY <2>1, Bits
    <3> QED
      BY <1>2, <1>3, <3>1
  <2> QED
    BY <1>3, <2>1
<1>5. Solves(e)
  <2> HIDE DEF Solves
  <2> QED
    BY <1>4, Zenon
<1>6. Powers = e
  BY DEF Powers
<1> HIDE DEF e
<1>7. e[0] = 1 /\ \A i \in 1 .. AddrBits : e[i] = 2 * e[i - 1]
  <2>1. 0 \in 0 .. AddrBits /\ \A i \in 1 .. AddrBits : i \in 0 .. AddrBits /\ i # 0
    BY Bits
  <2>2. \A i \in 0 .. AddrBits : e[i] = IF i = 0 THEN 1 ELSE 2 * e[i - 1]
    BY <1>5, Zenon
  <2> QED
    BY <2>1, <2>2
<1>8. \A i \in 0 .. AddrBits : e[i] \in Nat
  <2> DEFINE S == {i \in 0 .. AddrBits : e[i] \in Nat}
  <2>1. 0 \in S
    <3>1. 0 \in 0 .. AddrBits
      BY Bits
    <3>2. e[0] \in Nat
      BY <1>7
    <3> QED
      BY <3>1, <3>2
  <2>2. ASSUME NEW i \in 1 .. AddrBits, i - 1 \in S PROVE i \in S
    <3>1. e[i] = 2 * e[i - 1] /\ e[i - 1] \in Nat
      BY <1>7, <2>2
    <3>2. i \in 0 .. AddrBits /\ \A y \in Nat : 2 * y \in Nat
      BY Bits
    <3> QED
      BY <3>1, <3>2, Zenon
  <2> HIDE DEF S
  <2>3. \A i \in 0 .. AddrBits : i \in S
    BY <2>1, <2>2, Bits, Induct
  <2> QED
    BY <2>3 DEF S
<1> QED
  BY <1>6, <1>7, <1>8

(* They grow, and a word holds what is below the last.                     *)
LEMMA PowersGrow ==
  \A i \in 0 .. AddrBits : 1 <= Powers[i] /\ Powers[i] <= Word
<1> DEFINE Up == {i \in 0 .. AddrBits : 1 <= Powers[i]}
           Down == {i \in 0 .. AddrBits : Powers[AddrBits - i] <= Word}
<1>1. 0 \in Up /\ 0 \in Down
  BY Bits, PowersStep DEF Word
<1>2. ASSUME NEW i \in 1 .. AddrBits, i - 1 \in Up PROVE i \in Up
  <2>1. /\ i \in 0 .. AddrBits /\ i - 1 \in 0 .. AddrBits /\ 1 <= Powers[i - 1]
        /\ Powers[i] = 2 * Powers[i - 1] /\ Powers[i - 1] \in Nat
    BY <1>2, Bits, PowersStep
  <2> QED
    BY <2>1
<1>3. ASSUME NEW i \in 1 .. AddrBits, i - 1 \in Down PROVE i \in Down
  <2> DEFINE j == AddrBits - (i - 1)
  <2>1. j \in 1 .. AddrBits /\ j - 1 = AddrBits - i /\ j - 1 \in 0 .. AddrBits
        /\ i \in 0 .. AddrBits
    BY <1>3, Bits
  <2>2. Powers[j] <= Word
    BY <1>3
  <2> HIDE DEF j
  <2>3. /\ Powers[j] = 2 * Powers[j - 1] /\ Powers[j - 1] \in Nat /\ Word \in Nat
    BY <2>1, Bits, PowersStep DEF Word
  <2>4. Powers[j - 1] <= Word
    BY <2>2, <2>3
  <2> QED
    BY <2>1, <2>4
<1> HIDE DEF Up, Down
<1>4. \A i \in 0 .. AddrBits : i \in Up
  BY <1>1, <1>2, Bits, Induct
<1>5. \A i \in 0 .. AddrBits : i \in Down
  BY <1>1, <1>3, Bits, Induct
<1> SUFFICES ASSUME NEW i \in 0 .. AddrBits
             PROVE  1 <= Powers[i] /\ Powers[i] <= Word
  OBVIOUS
<1>6. AddrBits - i \in 0 .. AddrBits /\ AddrBits - (AddrBits - i) = i
  BY Bits
<1>7. Powers[AddrBits - (AddrBits - i)] <= Word
  BY <1>5, <1>6 DEF Down
<1> QED
  BY <1>4, <1>6, <1>7 DEF Up

LEMMA WordIs == Word \in Nat /\ Word >= 1 /\ Word = Powers[AddrBits] /\ Word - 1 \in Nat
<1>1. Word \in Nat /\ Word = Powers[AddrBits] /\ Word >= 1
  BY Bits, PowersStep, PowersGrow DEF Word
<1> QED
  BY <1>1

LEMMA SomePowers ==
  /\ Powers[4] = 16 /\ Powers[8] = 256 /\ Powers[12] = 4096 /\ Powers[16] = 65536
<1>0. /\ 1 \in 1 .. AddrBits /\ 2 \in 1 .. AddrBits /\ 3 \in 1 .. AddrBits
      /\ 4 \in 1 .. AddrBits /\ 5 \in 1 .. AddrBits /\ 6 \in 1 .. AddrBits
      /\ 7 \in 1 .. AddrBits /\ 8 \in 1 .. AddrBits /\ 9 \in 1 .. AddrBits
      /\ 10 \in 1 .. AddrBits /\ 11 \in 1 .. AddrBits /\ 12 \in 1 .. AddrBits
      /\ 13 \in 1 .. AddrBits /\ 14 \in 1 .. AddrBits /\ 15 \in 1 .. AddrBits
      /\ 16 \in 1 .. AddrBits
  BY Bits
<1>1. Powers[1] = 2 /\ Powers[2] = 4 /\ Powers[3] = 8 /\ Powers[4] = 16
  BY <1>0, PowersStep
<1>2. Powers[5] = 32 /\ Powers[6] = 64 /\ Powers[7] = 128 /\ Powers[8] = 256
  BY <1>0, <1>1, PowersStep
<1>3. Powers[9] = 512 /\ Powers[10] = 1024 /\ Powers[11] = 2048 /\ Powers[12] = 4096
  BY <1>0, <1>2, PowersStep
<1>4. Powers[13] = 8192 /\ Powers[14] = 16384 /\ Powers[15] = 32768 /\ Powers[16] = 65536
  BY <1>0, <1>3, PowersStep
<1> QED
  BY <1>1, <1>2, <1>3, <1>4

LEMMA ShrStep ==
  ASSUME NEW x \in Nat
  PROVE  /\ Shr(x)[0] = x /\ \A i \in 0 .. AddrBits : Shr(x)[i] \in Nat
         /\ \A i \in 1 .. AddrBits : Shr(x)[i] = Shr(x)[i - 1] \div 2
<1> DEFINE Solves(f) ==
             f = [i \in 0 .. AddrBits |-> IF i = 0 THEN x ELSE f[i - 1] \div 2]
           grow == [q \in (1 .. AddrBits) \X Nat |-> q[2] \div 2]
           e == CHOOSE f : Solves(f)
<1>1. grow \in [(1 .. AddrBits) \X Nat -> Nat]
  OBVIOUS
<1>2. \A i \in 1 .. AddrBits : \A v \in Nat : grow[<<i, v>>] = v \div 2
  OBVIOUS
<1> HIDE DEF grow
<1>3. PICK f \in [0 .. AddrBits -> Nat] :
        f[0] = x /\ \A i \in 1 .. AddrBits : f[i] = grow[<<i, f[i - 1]>>]
  BY <1>1, Bits, Recursion, Zenon
<1>4. Solves(f)
  <2>1. ASSUME NEW i \in 0 .. AddrBits, i # 0 PROVE f[i] = f[i - 1] \div 2
    <3>1. i \in 1 .. AddrBits /\ i - 1 \in 0 .. AddrBits
      BY <2>1, Bits
    <3> QED
      BY <1>2, <1>3, <3>1
  <2> QED
    BY <1>3, <2>1
<1>5. Solves(e)
  <2> HIDE DEF Solves
  <2> QED
    BY <1>4, Zenon
<1>6. Shr(x) = e
  BY DEF Shr
<1> HIDE DEF e
<1>7. e[0] = x /\ \A i \in 1 .. AddrBits : e[i] = e[i - 1] \div 2
  <2>1. 0 \in 0 .. AddrBits /\ \A i \in 1 .. AddrBits : i \in 0 .. AddrBits /\ i # 0
    BY Bits
  <2>2. \A i \in 0 .. AddrBits : e[i] = IF i = 0 THEN x ELSE e[i - 1] \div 2
    BY <1>5, Zenon
  <2> QED
    BY <2>1, <2>2
<1>8. \A i \in 0 .. AddrBits : e[i] \in Nat
  <2> DEFINE S == {i \in 0 .. AddrBits : e[i] \in Nat}
  <2>1. 0 \in S
    <3>1. 0 \in 0 .. AddrBits
      BY Bits
    <3>2. e[0] \in Nat
      BY <1>7
    <3> QED
      BY <3>1, <3>2
  <2>2. ASSUME NEW i \in 1 .. AddrBits, i - 1 \in S PROVE i \in S
    <3>1. e[i] = e[i - 1] \div 2 /\ e[i - 1] \in Nat
      BY <1>7, <2>2
    <3>2. i \in 0 .. AddrBits /\ \A y \in Nat : y \div 2 \in Nat
      BY Bits
    <3> QED
      BY <3>1, <3>2, Zenon
  <2> HIDE DEF S
  <2>3. \A i \in 0 .. AddrBits : i \in S
    BY <2>1, <2>2, Bits, Induct
  <2> QED
    BY <2>3 DEF S
<1> QED
  BY <1>6, <1>7, <1>8

LEMMA ShlStep ==
  ASSUME NEW x \in Nat
  PROVE  /\ Shl(x)[0] = x /\ \A i \in 0 .. AddrBits : Shl(x)[i] \in Nat
         /\ \A i \in 1 .. AddrBits : Shl(x)[i] = Double(Shl(x)[i - 1])
<1> DEFINE Solves(f) ==
             f = [i \in 0 .. AddrBits |-> IF i = 0 THEN x ELSE Double(f[i - 1])]
           grow == [q \in (1 .. AddrBits) \X Nat |-> Double(q[2])]
           e == CHOOSE f : Solves(f)
<1>0. \A y \in Nat : Double(y) \in Nat
  BY WordIs DEF Double
<1>1. grow \in [(1 .. AddrBits) \X Nat -> Nat]
  BY <1>0
<1>2. \A i \in 1 .. AddrBits : \A v \in Nat : grow[<<i, v>>] = Double(v)
  OBVIOUS
<1> HIDE DEF grow
<1>3. PICK f \in [0 .. AddrBits -> Nat] :
        f[0] = x /\ \A i \in 1 .. AddrBits : f[i] = grow[<<i, f[i - 1]>>]
  BY <1>1, Bits, Recursion, Zenon
<1>4. Solves(f)
  <2>1. ASSUME NEW i \in 0 .. AddrBits, i # 0 PROVE f[i] = Double(f[i - 1])
    <3>1. i \in 1 .. AddrBits /\ i - 1 \in 0 .. AddrBits
      BY <2>1, Bits
    <3> QED
      BY <1>2, <1>3, <3>1
  <2> QED
    BY <1>3, <2>1
<1>5. Solves(e)
  <2> HIDE DEF Solves
  <2> QED
    BY <1>4, Zenon
<1>6. Shl(x) = e
  BY DEF Shl
<1> HIDE DEF e
<1>7. e[0] = x /\ \A i \in 1 .. AddrBits : e[i] = Double(e[i - 1])
  <2>1. 0 \in 0 .. AddrBits /\ \A i \in 1 .. AddrBits : i \in 0 .. AddrBits /\ i # 0
    BY Bits
  <2>2. \A i \in 0 .. AddrBits : e[i] = IF i = 0 THEN x ELSE Double(e[i - 1])
    BY <1>5, Zenon
  <2> QED
    BY <2>1, <2>2
<1>8. \A i \in 0 .. AddrBits : e[i] \in Nat
  <2> DEFINE S == {i \in 0 .. AddrBits : e[i] \in Nat}
  <2>1. 0 \in S
    <3>1. 0 \in 0 .. AddrBits
      BY Bits
    <3>2. e[0] \in Nat
      BY <1>7
    <3> QED
      BY <3>1, <3>2
  <2>2. ASSUME NEW i \in 1 .. AddrBits, i - 1 \in S PROVE i \in S
    <3>1. e[i] = Double(e[i - 1]) /\ e[i - 1] \in Nat
      BY <1>7, <2>2
    <3>2. i \in 0 .. AddrBits /\ \A y \in Nat : Double(y) \in Nat
      BY <1>0, Bits
    <3> QED
      BY <3>1, <3>2, Zenon
  <2> HIDE DEF S
  <2>3. \A i \in 0 .. AddrBits : i \in S
    BY <2>1, <2>2, Bits, Induct
  <2> QED
    BY <2>3 DEF S
<1> QED
  BY <1>6, <1>7, <1>8

LEMMA AndStep ==
  ASSUME NEW a, NEW b
  PROVE  \E u : /\ And(a, b) = u[AddrBits] /\ u[0] = 0
                /\ \A i \in 0 .. AddrBits : u[i] \in Nat
                /\ \A i \in 1 .. AddrBits : u[i] = 2 * u[i - 1] + Both(a, b, AddrBits - i)
<1> DEFINE Solves(f) ==
             f = [i \in 0 .. AddrBits |-> IF i = 0 THEN 0 ELSE 2 * f[i - 1] + Both(a, b, AddrBits - i)]
           grow == [q \in (1 .. AddrBits) \X Nat |-> 2 * q[2] + Both(a, b, AddrBits - q[1])]
           e == CHOOSE f : Solves(f)
<1>0. \A i : Both(a, b, i) \in {0, 1}
  BY DEF Both
<1>1. grow \in [(1 .. AddrBits) \X Nat -> Nat]
  BY <1>0
<1>2. \A i \in 1 .. AddrBits : \A v \in Nat : grow[<<i, v>>] = 2 * v + Both(a, b, AddrBits - i)
  OBVIOUS
<1> HIDE DEF grow
<1>3. PICK f \in [0 .. AddrBits -> Nat] :
        f[0] = 0 /\ \A i \in 1 .. AddrBits : f[i] = grow[<<i, f[i - 1]>>]
  <2>1. 0 \in Nat
    OBVIOUS
  <2> QED
    BY <1>1, <2>1, Bits, Recursion, Zenon
<1>4. Solves(f)
  <2>1. ASSUME NEW i \in 0 .. AddrBits, i # 0 PROVE f[i] = 2 * f[i - 1] + Both(a, b, AddrBits - i)
    <3>1. i \in 1 .. AddrBits /\ i - 1 \in 0 .. AddrBits
      BY <2>1, Bits
    <3> QED
      BY <1>2, <1>3, <3>1
  <2> QED
    BY <1>3, <2>1
<1>5. Solves(e)
  <2> HIDE DEF Solves
  <2> QED
    BY <1>4, Zenon
<1>6. And(a, b) = e[AddrBits]
  BY DEF And
<1> HIDE DEF e
<1>7. e[0] = 0 /\ \A i \in 1 .. AddrBits : e[i] = 2 * e[i - 1] + Both(a, b, AddrBits - i)
  <2>1. 0 \in 0 .. AddrBits /\ \A i \in 1 .. AddrBits : i \in 0 .. AddrBits /\ i # 0
    BY Bits
  <2>2. \A i \in 0 .. AddrBits : e[i] = IF i = 0 THEN 0 ELSE 2 * e[i - 1] + Both(a, b, AddrBits - i)
    BY <1>5, Zenon
  <2> QED
    BY <2>1, <2>2
<1>8. \A i \in 0 .. AddrBits : e[i] \in Nat
  <2> DEFINE S == {i \in 0 .. AddrBits : e[i] \in Nat}
  <2>1. 0 \in S
    <3>1. 0 \in 0 .. AddrBits
      BY Bits
    <3>2. e[0] \in Nat
      BY <1>7
    <3> QED
      BY <3>1, <3>2
  <2>2. ASSUME NEW i \in 1 .. AddrBits, i - 1 \in S PROVE i \in S
    <3>1. e[i] = 2 * e[i - 1] + Both(a, b, AddrBits - i) /\ e[i - 1] \in Nat
      BY <1>7, <2>2
    <3>2. i \in 0 .. AddrBits /\ \A c \in Nat : \A d \in {0, 1} : 2 * c + d \in Nat
      BY Bits
    <3> QED
      BY <1>0, <3>1, <3>2, Zenon
  <2> HIDE DEF S
  <2>3. \A i \in 0 .. AddrBits : i \in S
    BY <2>1, <2>2, Bits, Induct
  <2> QED
    BY <2>3 DEF S
<1> QED
  BY <1>6, <1>7, <1>8

(* The mask that leaves k bits to the host.                                *)
LEMMA Masks == \A k \in 0 .. AddrBits : Shl(Word - 1)[k] = Word - Powers[k]
<1> DEFINE e == Shl(Word - 1)
           S == {k \in 0 .. AddrBits : e[k] = Word - Powers[k]}
<1>1. e[0] = Word - 1 /\ \A i \in 1 .. AddrBits : e[i] = Double(e[i - 1])
  BY WordIs, ShlStep
<1> HIDE DEF e
<1>2. 0 \in S
  <2>1. 0 \in 0 .. AddrBits
    BY Bits
  <2>2. e[0] = Word - Powers[0]
    BY <1>1, PowersStep
  <2> QED
    BY <2>1, <2>2
<1>3. ASSUME NEW k \in 1 .. AddrBits, k - 1 \in S PROVE k \in S
  <2>1. /\ e[k] = Double(Word - Powers[k - 1]) /\ Powers[k] = 2 * Powers[k - 1]
        /\ k \in 0 .. AddrBits /\ k - 1 \in 0 .. AddrBits
    BY <1>1, <1>3, Bits, PowersStep
  <2>2. Powers[k - 1] \in Nat /\ 1 <= Powers[k - 1] /\ Powers[k] <= Word
    BY <2>1, PowersStep, PowersGrow
  <2>3. e[k] = Word - Powers[k]
    BY <2>1, <2>2, WordIs DEF Double
  <2> QED
    BY <2>1, <2>3
<1> HIDE DEF S
<1>4. \A k \in 0 .. AddrBits : k \in S
  BY <1>2, <1>3, Bits, Induct
<1> QED
  BY <1>4 DEF S, e

(* Its bits.                                                               *)
LEMMA MaskBits ==
  ASSUME NEW k \in 0 .. AddrBits
  PROVE  \A j \in 0 .. AddrBits - 1 : Shr(Word - Powers[k])[j] % 2 = IF j < k THEN 0 ELSE 1
<1> DEFINE n == AddrBits
           e == Shr(Word - Powers[k])
           S == {j \in 0 .. n : e[j] = IF j <= k THEN Powers[n - j] - Powers[k - j]
                                       ELSE Powers[n - j] - 1}
<1>0. Word - Powers[k] \in Nat
  BY PowersGrow, PowersStep, WordIs
<1>1. e[0] = Word - Powers[k] /\ \A i \in 1 .. n : e[i] = e[i - 1] \div 2
  BY <1>0, ShrStep
<1> HIDE DEF e
<1>a. n \in Nat /\ n >= 16 /\ k \in 0 .. n
  BY Bits
<1>4. \A i \in 0 .. n : Powers[i] \in Nat
  BY PowersStep
<1>b. \A i \in 1 .. n : Powers[i] = 2 * Powers[i - 1]
  BY PowersStep
<1>c. Word = Powers[n]
  BY WordIs
<1> HIDE DEF n
<1>2. 0 \in S
  <2>1. 0 \in 0 .. n /\ 0 <= k /\ n - 0 = n /\ k - 0 = k
    BY <1>a
  <2>2. e[0] = Powers[n - 0] - Powers[k - 0]
    BY <2>1, <1>1, <1>c
  <2> QED
    BY <2>1, <2>2
<1>3. \A x \in Int : (2 * x) \div 2 = x /\ (2 * x - 1) \div 2 = x - 1
                     /\ (2 * x) % 2 = 0 /\ (2 * x - 1) % 2 = 1
  OBVIOUS
<1>5. \A i \in 0 .. n - 1 : Powers[n - i] = 2 * Powers[(n - i) - 1] /\ (n - i) - 1 \in 0 .. n
  <2> SUFFICES ASSUME NEW i \in 0 .. n - 1
               PROVE  Powers[n - i] = 2 * Powers[(n - i) - 1] /\ (n - i) - 1 \in 0 .. n
    OBVIOUS
  <2>1. n - i \in 1 .. n /\ (n - i) - 1 \in 0 .. n
    BY <1>a
  <2> QED
    BY <2>1, <1>b
<1>6. \A i \in 0 .. k - 1 : Powers[k - i] = 2 * Powers[(k - i) - 1] /\ (k - i) - 1 \in 0 .. n
  <2> SUFFICES ASSUME NEW i \in 0 .. k - 1
               PROVE  Powers[k - i] = 2 * Powers[(k - i) - 1] /\ (k - i) - 1 \in 0 .. n
    OBVIOUS
  <2>1. k - i \in 1 .. n /\ (k - i) - 1 \in 0 .. n
    BY <1>a
  <2> QED
    BY <2>1, <1>b
<1>7. ASSUME NEW j \in 0 .. n - 1, j \in S
      PROVE  \E x \in Int :
               /\ j < k => e[j] = 2 * x /\ x = Powers[(n - j) - 1] - Powers[(k - j) - 1]
               /\ j >= k => e[j] = 2 * x - 1 /\ x = Powers[(n - j) - 1]
  <2>0. /\ Powers[(n - j) - 1] \in Nat /\ Powers[n - j] = 2 * Powers[(n - j) - 1]
    BY <1>4, <1>5
  <2>1. CASE j < k
    <3>1. j \in 0 .. k - 1 /\ e[j] = Powers[n - j] - Powers[k - j]
      BY <1>7, <2>1, <1>a
    <3>2. Powers[(k - j) - 1] \in Nat /\ Powers[k - j] = 2 * Powers[(k - j) - 1]
      BY <1>4, <1>6, <3>1
    <3>3. e[j] = 2 * (Powers[(n - j) - 1] - Powers[(k - j) - 1])
      BY <2>0, <3>1, <3>2
    <3>4. Powers[(n - j) - 1] - Powers[(k - j) - 1] \in Int /\ ~(j >= k)
      BY <2>0, <2>1, <3>2, <1>a
    <3> QED
      BY <3>3, <3>4
  <2>2. CASE j > k
    <3>1. e[j] = Powers[n - j] - 1 /\ ~(j < k)
      BY <1>7, <2>2, <1>a
    <3> QED
      BY <2>0, <3>1
  <2>3. CASE j = k
    <3>1. e[j] = Powers[n - j] - Powers[0] /\ Powers[0] = 1 /\ ~(j < k)
      BY <1>7, <2>3, <1>a, PowersStep
    <3> QED
      BY <2>0, <3>1
  <2> QED
    BY <2>1, <2>2, <2>3, <1>a
<1>8. ASSUME NEW i \in 1 .. n, i - 1 \in S PROVE i \in S
  <2> DEFINE j == i - 1
  <2>1. j \in 0 .. n - 1 /\ j \in S /\ i \in 0 .. n /\ e[i] = e[j] \div 2
    BY <1>1, <1>8, <1>a
  <2>2. (n - j) - 1 = n - i /\ (k - j) - 1 = k - i /\ (j < k <=> i <= k) /\ (j >= k \/ j < k)
    BY <1>a
  <2> HIDE DEF j
  <2>3. PICK x \in Int : /\ j < k => e[j] = 2 * x /\ x = Powers[(n - j) - 1] - Powers[(k - j) - 1]
                         /\ j >= k => e[j] = 2 * x - 1 /\ x = Powers[(n - j) - 1]
    BY <1>7, <2>1
  <2>4. CASE j < k
    <3>1. e[i] = x /\ x = Powers[n - i] - Powers[k - i] /\ i <= k
      BY <1>3, <2>1, <2>2, <2>3, <2>4
    <3> QED
      BY <2>1, <3>1
  <2>5. CASE j >= k
    <3>1. e[i] = x - 1 /\ x = Powers[n - i] /\ ~(i <= k)
      BY <1>3, <1>a, <2>1, <2>2, <2>3, <2>5
    <3> QED
      BY <2>1, <3>1
  <2> QED
    BY <2>2, <2>4, <2>5
<1>9. \A j \in 0 .. n : j \in S
  <2> HIDE DEF S
  <2> QED
    BY <1>2, <1>8, <1>a, Induct
<1>10. ASSUME NEW j \in 0 .. n - 1 PROVE e[j] % 2 = IF j < k THEN 0 ELSE 1
  <2>1. j \in S
    BY <1>9, <1>a
  <2> HIDE DEF S
  <2>2. PICK x \in Int : (j < k => e[j] = 2 * x) /\ (j >= k => e[j] = 2 * x - 1)
    BY <1>7, <2>1
  <2>3. j < k \/ j >= k
    BY <1>a
  <2> QED
    BY <1>3, <1>a, <2>2, <2>3
<1> QED
  BY <1>10 DEF e, n

(* What is left of an address.                                             *)
LEMMA ShiftedAddr ==
  ASSUME NEW a \in Addr
  PROVE  \A j \in 0 .. AddrBits : Shr(a)[j] \in Nat /\ Shr(a)[j] < Powers[AddrBits - j]
<1> DEFINE S == {j \in 0 .. AddrBits : Shr(a)[j] < Powers[AddrBits - j]}
<1>0. a \in Nat /\ a < Word
  BY WordIs DEF Addr
<1>1. /\ Shr(a)[0] = a /\ \A i \in 0 .. AddrBits : Shr(a)[i] \in Nat
      /\ \A i \in 1 .. AddrBits : Shr(a)[i] = Shr(a)[i - 1] \div 2
  BY <1>0, ShrStep
<1>2. 0 \in S
  <2>1. 0 \in 0 .. AddrBits /\ AddrBits - 0 = AddrBits
    BY Bits
  <2> QED
    BY <1>0, <1>1, <2>1, WordIs
<1>3. ASSUME NEW i \in 1 .. AddrBits, i - 1 \in S PROVE i \in S
  <2> DEFINE j == AddrBits - (i - 1)
  <2>1. /\ Shr(a)[i - 1] < Powers[j] /\ AddrBits - i \in 0 .. AddrBits
        /\ j \in 1 .. AddrBits /\ j - 1 = AddrBits - i
        /\ i - 1 \in 0 .. AddrBits /\ i \in 0 .. AddrBits
    BY <1>3, Bits
  <2> HIDE DEF j
  <2>2. Powers[j] = 2 * Powers[j - 1] /\ Powers[j - 1] \in Nat
    BY <2>1, PowersStep
  <2>3. \A x, y \in Nat : x < 2 * y => x \div 2 < y
    OBVIOUS
  <2> QED
    BY <1>1, <2>1, <2>2, <2>3
<1> HIDE DEF S
<1>4. \A j \in 0 .. AddrBits : j \in S
  BY <1>2, <1>3, Bits, Induct
<1> QED
  BY <1>1, <1>4 DEF S

(* Under the mask an address comes to what is left of it when it is        *)
(* shifted, doubled as often.                                              *)
Doubles(u, a, mask, k) ==
  /\ And(a, mask) = u[AddrBits] /\ u[AddrBits - k] = Shr(a)[k]
  /\ \A i \in 0 .. AddrBits : u[i] \in Nat
  /\ \A i \in 1 .. AddrBits : i > AddrBits - k => u[i] = 2 * u[i - 1]

LEMMA MaskedBits ==
  ASSUME NEW k \in 0 .. AddrBits, NEW a \in Addr
  PROVE  \E u : Doubles(u, a, Word - Powers[k], k)
<1> DEFINE m == Word - Powers[k]
           n == AddrBits
<1>0. n \in Nat /\ n >= 16 /\ k \in 0 .. n
  BY Bits
<1>1. \A j \in 0 .. n - 1 : Shr(m)[j] % 2 = IF j < k THEN 0 ELSE 1
  BY MaskBits
<1> HIDE DEF m
<1>2. PICK u : /\ And(a, m) = u[n] /\ u[0] = 0 /\ \A i \in 0 .. n : u[i] \in Nat
               /\ \A i \in 1 .. n : u[i] = 2 * u[i - 1] + Both(a, m, n - i)
  BY AndStep
<1>3. /\ \A i \in 0 .. n : Shr(a)[i] \in Nat
      /\ \A i \in 1 .. n : Shr(a)[i] = Shr(a)[i - 1] \div 2
  <2>1. a \in Nat
    BY WordIs DEF Addr
  <2> QED
    BY <2>1, ShrStep
<1>4. Shr(a)[n] = 0
  <2>1. n \in 0 .. n /\ n - n = 0
    BY <1>0
  <2>2. Shr(a)[n] \in Nat /\ Shr(a)[n] < Powers[0]
    BY <2>1, ShiftedAddr
  <2> QED
    BY <2>2, PowersStep
<1> HIDE DEF n
<1>5. \A j \in 0 .. n - 1 : Both(a, m, j) = IF j < k THEN 0 ELSE Shr(a)[j] % 2
  <2> SUFFICES ASSUME NEW j \in 0 .. n - 1
               PROVE  Both(a, m, j) = IF j < k THEN 0 ELSE Shr(a)[j] % 2
    OBVIOUS
  <2>0. j \in 0 .. n
    BY <1>0
  <2>1. Shr(a)[j] \in Nat /\ Shr(m)[j] % 2 = IF j < k THEN 0 ELSE 1
    BY <1>1, <1>3, <2>0
  <2>2. \A x \in Nat : x % 2 = 0 \/ x % 2 = 1
    OBVIOUS
  <2> QED
    BY <2>1, <2>2 DEF Both
<1> DEFINE S == {i \in 0 .. n : i <= n - k => u[i] = Shr(a)[n - i]}
<1>6. 0 \in S
  <2>1. 0 \in 0 .. n /\ n - 0 = n
    BY <1>0
  <2> QED
    BY <1>2, <1>4, <2>1
<1>7. ASSUME NEW i \in 1 .. n, i - 1 \in S PROVE i \in S
  <2>0. i \in 0 .. n
    BY <1>0
  <2> SUFFICES ASSUME i <= n - k PROVE u[i] = Shr(a)[n - i]
    BY <2>0
  <2> DEFINE j == n - i
  <2>1. /\ u[i - 1] = Shr(a)[n - (i - 1)] /\ n - (i - 1) = j + 1 /\ j + 1 \in 1 .. n
        /\ (j + 1) - 1 = j /\ j \in 0 .. n - 1 /\ j \in 0 .. n /\ ~(j < k)
    BY <1>7, <1>0
  <2> HIDE DEF j
  <2>2. Shr(a)[j + 1] = Shr(a)[j] \div 2 /\ Shr(a)[j] \in Nat
    BY <1>3, <2>1
  <2>3. u[i] = 2 * u[i - 1] + (Shr(a)[j] % 2)
    <3>1. u[i] = 2 * u[i - 1] + Both(a, m, j)
      BY <1>2 DEF j
    <3> QED
      BY <1>5, <2>1, <3>1
  <2>4. \A x \in Nat : 2 * (x \div 2) + (x % 2) = x
    OBVIOUS
  <2>5. u[i] = Shr(a)[j]
    BY <2>1, <2>2, <2>3, <2>4
  <2> QED
    BY <2>5 DEF j
<1> HIDE DEF S
<1>8. \A i \in 0 .. n : i \in S
  BY <1>6, <1>7, <1>0, Induct
<1>9. u[n - k] = Shr(a)[k]
  <2>1. n - k \in S /\ n - (n - k) = k /\ n - k <= n - k
    BY <1>8, <1>0
  <2> QED
    BY <2>1 DEF S
<1>10. ASSUME NEW i \in 1 .. n, i > n - k PROVE u[i] = 2 * u[i - 1]
  <2>1. n - i \in 0 .. n - 1 /\ n - i < k /\ i - 1 \in 0 .. n
    BY <1>10, <1>0
  <2>2. Both(a, m, n - i) = 0 /\ u[i - 1] \in Nat
    BY <1>2, <1>5, <2>1
  <2> QED
    BY <1>2, <2>1, <2>2
<1> QED
  BY <1>2, <1>9, <1>10 DEF m, n, Doubles

(* So two addresses agree under the mask when their leading bits do.       *)
LEMMA MaskCompares ==
  ASSUME NEW k \in 0 .. AddrBits, NEW a \in Addr, NEW b \in Addr
  PROVE  And(a, Word - Powers[k]) = And(b, Word - Powers[k]) <=> Shr(a)[k] = Shr(b)[k]
<1> DEFINE n == AddrBits
<1>0. n \in Nat /\ n >= 16 /\ k \in 0 .. n
  BY Bits
<1>1. PICK u : Doubles(u, a, Word - Powers[k], k)
  BY MaskedBits
<1>2. PICK v : Doubles(v, b, Word - Powers[k], k)
  BY MaskedBits
<1>3. /\ \A i \in 0 .. n : u[i] \in Nat /\ v[i] \in Nat
      /\ \A i \in 1 .. n : i > n - k => u[i] = 2 * u[i - 1] /\ v[i] = 2 * v[i - 1]
  BY <1>1, <1>2 DEF Doubles
<1> HIDE DEF n
<1> DEFINE S == {i \in 0 .. n : i >= n - k => (u[i] = v[i] <=> u[n - k] = v[n - k])}
<1>4. 0 \in S
  <2>1. 0 \in 0 .. n /\ (0 >= n - k => 0 = n - k)
    BY <1>0
  <2> QED
    BY <2>1
<1>5. ASSUME NEW i \in 1 .. n, i - 1 \in S PROVE i \in S
  <2>0. i \in 0 .. n /\ i - 1 \in 0 .. n
    BY <1>0
  <2>1. CASE i > n - k
    <3>1. i - 1 >= n - k
      BY <1>0, <2>1
    <3>2. /\ u[i] = 2 * u[i - 1] /\ v[i] = 2 * v[i - 1]
          /\ u[i - 1] \in Nat /\ v[i - 1] \in Nat
      BY <1>3, <2>0, <2>1
    <3>3. u[i] = v[i] <=> u[i - 1] = v[i - 1]
      BY <3>2
    <3> QED
      BY <1>5, <2>0, <3>1, <3>3
  <2>2. CASE i = n - k
    BY <2>0, <2>2
  <2>3. CASE i < n - k
    <3>1. ~(i >= n - k)
      BY <1>0, <2>3
    <3> QED
      BY <2>0, <3>1
  <2> QED
    BY <1>0, <2>1, <2>2, <2>3
<1> HIDE DEF S
<1>6. \A i \in 0 .. n : i \in S
  BY <1>4, <1>5, <1>0, Induct
<1>7. u[n] = v[n] <=> u[n - k] = v[n - k]
  <2>1. n \in S /\ n >= n - k
    BY <1>6, <1>0
  <2> QED
    BY <2>1 DEF S
<1> QED
  BY <1>1, <1>2, <1>7 DEF Doubles, n

(* An entry of a CIDR list, of whatever length, matches the addresses that *)
(* share its leading bits, and none when it is too long.                   *)
LEMMA LeadingBits ==
  \A c \in CidrText, addr \in Addr : CidrAgrees(c, addr)
<1> SUFFICES ASSUME NEW c \in CidrText, NEW addr \in Addr PROVE CidrAgrees(c, addr)
  OBVIOUS
<1>1. c.addr \in Addr /\ c.len \in Nat
  BY DEF CidrText
<1>2. InCidrs({c}, addr) <=> c.len <= AddrBits /\ CidrContains(Parse(c), addr)
  BY DEF InCidrs, Parsable
<1> DEFINE k == AddrBits - c.len
<1>3. ASSUME c.len <= AddrBits
      PROVE  CidrContains(Parse(c), addr) <=> Shr(addr)[k] = Shr(c.addr)[k]
  <2> DEFINE mask == IF c.len = 0 THEN 0 ELSE Shl(Word - 1)[k]
  <2>1. k \in 0 .. AddrBits /\ (c.len = 0 => k = AddrBits)
    BY <1>1, <1>3, Bits
  <2>2. CidrContains(Parse(c), addr) <=> And(addr, mask) = And(c.addr, mask)
    BY DEF CidrContains, Parse
  <2> HIDE DEF k
  <2>3. mask = Word - Powers[k]
    <3>1. Shl(Word - 1)[k] = Word - Powers[k]
      BY <2>1, Masks
    <3>2. c.len = 0 => Word - Powers[k] = 0
      BY <2>1, WordIs
    <3> QED
      BY <3>1, <3>2
  <2> HIDE DEF mask
  <2>4. And(addr, Word - Powers[k]) = And(c.addr, Word - Powers[k])
          <=> Shr(addr)[k] = Shr(c.addr)[k]
    BY <1>1, <2>1, MaskCompares
  <2> QED
    BY <2>2, <2>3, <2>4
<1> QED
  BY <1>2, <1>3 DEF CidrAgrees, LeadingBitsAgree

(* Shifts add up.                                                          *)
LEMMA ShrMore ==
  ASSUME NEW x \in Nat, NEW k \in 0 .. AddrBits
  PROVE  \A j \in 0 .. AddrBits - k : Shr(x)[k + j] = Shr(Shr(x)[k])[j]
<1> DEFINE n == AddrBits
           y == Shr(x)[k]
           S == {j \in 0 .. n - k : Shr(x)[k + j] = Shr(y)[j]}
<1>0. n \in Nat /\ k \in 0 .. n /\ n - k \in Nat
  BY Bits
<1>1. y \in Nat /\ \A i \in 1 .. n : Shr(x)[i] = Shr(x)[i - 1] \div 2
  BY ShrStep
<1>2. Shr(y)[0] = y /\ \A i \in 1 .. n : Shr(y)[i] = Shr(y)[i - 1] \div 2
  BY <1>1, ShrStep
<1>3. 0 \in S
  BY <1>0, <1>2
<1> HIDE DEF n, y
<1>4. ASSUME NEW j \in 1 .. n - k, j - 1 \in S PROVE j \in S
  <2>1. /\ j \in 0 .. n - k /\ j \in 1 .. n /\ k + j \in 1 .. n
        /\ (k + j) - 1 = k + (j - 1) /\ Shr(x)[k + (j - 1)] = Shr(y)[j - 1]
    BY <1>0, <1>4
  <2>2. Shr(x)[k + j] = Shr(y)[j]
    BY <1>1, <1>2, <2>1
  <2> QED
    BY <2>1, <2>2
<1> HIDE DEF S
<1>5. \A j \in 0 .. n - k : j \in S
  BY <1>0, <1>3, <1>4, Induct
<1> QED
  BY <1>5 DEF S, y, n

(* Two octets at the top of an address are an address, and are what is     *)
(* left when it is shifted down as far.                                    *)
LEMMA TopOctets ==
  ASSUME NEW x \in Nat, x < 65536
  PROVE  /\ Shl(x)[AddrBits - 16] \in Addr
         /\ Shr(Shl(x)[AddrBits - 16])[AddrBits - 16] = x
<1> DEFINE n == AddrBits - 16
           e == Shl(x)
           S == {j \in 0 .. n : e[j] < Powers[16 + j]}
<1>0. n \in Nat /\ AddrBits = 16 + n
  BY Bits
<1>1. /\ e[0] = x /\ \A i \in 0 .. n : e[i] \in Nat
      /\ \A i \in 1 .. n : e[i] = Double(e[i - 1])
  <2>1. \A i \in 0 .. n : i \in 0 .. AddrBits
    BY <1>0
  <2>2. \A i \in 1 .. n : i \in 1 .. AddrBits
    BY <1>0
  <2> QED
    BY <2>1, <2>2, ShlStep
<1> HIDE DEF n, e
<1>2. 0 \in S
  <2>1. 0 \in 0 .. n /\ 16 + 0 = 16
    BY <1>0
  <2> QED
    BY <1>1, <2>1, SomePowers
<1>3. ASSUME NEW j \in 1 .. n, j - 1 \in S
      PROVE  j \in S /\ e[j] = 2 * e[j - 1]
  <2>1. /\ j \in 0 .. n /\ j - 1 \in 0 .. n /\ 16 + j \in 1 .. AddrBits
        /\ 16 + j \in 0 .. AddrBits /\ (16 + j) - 1 = 16 + (j - 1)
        /\ 16 + (j - 1) \in 0 .. AddrBits
    BY <1>0
  <2>2. e[j] = Double(e[j - 1]) /\ e[j - 1] \in Nat /\ e[j - 1] < Powers[16 + (j - 1)]
    BY <1>1, <1>3, <2>1
  <2>3. /\ Powers[16 + j] = 2 * Powers[16 + (j - 1)] /\ Powers[16 + j] <= Word
        /\ Powers[16 + (j - 1)] \in Nat
    BY <2>1, PowersStep, PowersGrow
  <2>4. e[j] = 2 * e[j - 1] /\ e[j] < Powers[16 + j]
    BY <2>2, <2>3, WordIs DEF Double
  <2> QED
    BY <2>1, <2>4
<1>4. \A j \in 0 .. n : j \in S
  <2> HIDE DEF S
  <2> QED
    BY <1>0, <1>2, <1>3, Induct
<1>5. \A j \in 1 .. n : e[j] = 2 * e[j - 1]
  <2> SUFFICES ASSUME NEW j \in 1 .. n PROVE e[j] = 2 * e[j - 1]
    OBVIOUS
  <2>1. j - 1 \in 0 .. n
    BY <1>0
  <2>2. j - 1 \in S
    BY <1>4, <2>1
  <2> QED
    BY <1>3, <2>2
<1>6. e[n] \in Addr /\ e[n] \in Nat
  <2>1. n \in 0 .. n
    BY <1>0
  <2>2. e[n] < Powers[AddrBits] /\ e[n] \in Nat
    BY <1>0, <1>1, <1>4, <2>1
  <2> QED
    BY <2>2, WordIs DEF Addr
<1> DEFINE d == Shr(e[n])
           D == {i \in 0 .. n : d[i] = e[n - i]}
<1>7. d[0] = e[n] /\ \A i \in 1 .. n : d[i] = d[i - 1] \div 2
  <2>1. \A i \in 1 .. n : i \in 1 .. AddrBits
    BY <1>0
  <2> QED
    BY <1>6, <2>1, ShrStep
<1> HIDE DEF d
<1>8. 0 \in D
  <2>1. 0 \in 0 .. n /\ n - 0 = n
    BY <1>0
  <2> QED
    BY <1>7, <2>1
<1>9. ASSUME NEW i \in 1 .. n, i - 1 \in D PROVE i \in D
  <2> DEFINE j == n - (i - 1)
  <2>1. /\ i \in 0 .. n /\ d[i - 1] = e[j] /\ j \in 1 .. n /\ j - 1 = n - i
        /\ n - i \in 0 .. n
    BY <1>0, <1>9
  <2> HIDE DEF j
  <2>2. e[j] = 2 * e[n - i] /\ e[n - i] \in Nat
    BY <1>1, <1>5, <2>1
  <2>3. \A y \in Nat : (2 * y) \div 2 = y
    OBVIOUS
  <2>4. d[i] = e[n - i]
    BY <1>7, <2>1, <2>2, <2>3
  <2> QED
    BY <2>1, <2>4
<1>10. d[n] = e[0]
  <2>1. \A i \in 0 .. n : i \in D
    <3> HIDE DEF D
    <3> QED
      BY <1>0, <1>8, <1>9, Induct
  <2>2. n \in 0 .. n /\ n - n = 0
    BY <1>0
  <2> QED
    BY <2>1, <2>2
<1> QED
  BY <1>1, <1>6, <1>10 DEF d, e, n

(* The first two octets of an address.                                     *)
First(addr) == Shr(addr)[AddrBits - 16]

LEMMA FirstOctets ==
  ASSUME NEW addr \in Addr
  PROVE  /\ First(addr) \in Nat /\ First(addr) < 65536
         /\ \A rest \in 0 .. 16 : Shr(addr)[(AddrBits - 16) + rest] = Shr(First(addr))[rest]
<1>1. addr \in Nat
  BY WordIs DEF Addr
<1>2. AddrBits - 16 \in 0 .. AddrBits /\ AddrBits - (AddrBits - 16) = 16
  BY Bits
<1>3. First(addr) \in Nat /\ First(addr) < 65536
  BY <1>2, ShiftedAddr, SomePowers DEF First
<1>4. \A rest \in 0 .. 16 : Shr(addr)[(AddrBits - 16) + rest] = Shr(First(addr))[rest]
  BY <1>1, <1>2, ShrMore DEF First
<1> QED
  BY <1>3, <1>4

(* The shifts that the ranges of the kernel call for.                      *)
LEMMA Shifts ==
  \A x \in Nat : /\ Shr(x)[0] = x /\ Shr(x)[4] = x \div 16 /\ Shr(x)[6] = x \div 64
                 /\ Shr(x)[8] = x \div 256 /\ Shr(x)[12] = x \div 4096
<1> SUFFICES ASSUME NEW x \in Nat
             PROVE  /\ Shr(x)[0] = x /\ Shr(x)[4] = x \div 16 /\ Shr(x)[6] = x \div 64
                    /\ Shr(x)[8] = x \div 256 /\ Shr(x)[12] = x \div 4096
  OBVIOUS
<1>1. /\ Shr(x)[0] = x /\ \A i \in 0 .. 16 : Shr(x)[i] \in Nat
      /\ \A i \in 1 .. 16 : Shr(x)[i] = Shr(x)[i - 1] \div 2
  <2>1. /\ \A i \in 0 .. 16 : i \in 0 .. AddrBits
        /\ \A i \in 1 .. 16 : i \in 1 .. AddrBits
    BY Bits
  <2> QED
    BY <2>1, ShrStep
<1>2. \A y \in Nat : ((y \div 2) \div 2) = y \div 4
  OBVIOUS
<1>3. \A i \in 2 .. 16 : Shr(x)[i] = Shr(x)[i - 2] \div 4
  <2> SUFFICES ASSUME NEW i \in 2 .. 16 PROVE Shr(x)[i] = Shr(x)[i - 2] \div 4
    OBVIOUS
  <2>1. i \in 1 .. 16 /\ i - 1 \in 1 .. 16 /\ (i - 1) - 1 = i - 2 /\ i - 2 \in 0 .. 16
    OBVIOUS
  <2>2. /\ Shr(x)[i] = Shr(x)[i - 1] \div 2 /\ Shr(x)[i - 1] = Shr(x)[i - 2] \div 2
        /\ Shr(x)[i - 2] \in Nat
    BY <1>1, <2>1
  <2> QED
    BY <1>2, <2>2
<1>4. Shr(x)[2] = x \div 4
  BY <1>1, <1>3
<1>5. Shr(x)[4] = x \div 16
  BY <1>3, <1>4
<1>6. Shr(x)[6] = x \div 64
  BY <1>3, <1>5
<1>7. Shr(x)[8] = x \div 256
  BY <1>3, <1>6
<1>8. Shr(x)[10] = x \div 1024
  BY <1>3, <1>7
<1>9. Shr(x)[12] = x \div 4096
  BY <1>3, <1>8
<1> QED
  BY <1>1, <1>5, <1>6, <1>7, <1>9

(* An address is in a range when it shares the bits of the two octets that *)
(* the length does not leave to the host.                                  *)
InRange(addr, start, len) ==
  InCidrs({[addr |-> Shl(start)[AddrBits - 16], len |-> len]}, addr)

LEMMA RangeBits ==
  \A addr \in Addr : \A start \in Nat : \A rest, len \in 0 .. 16 :
    start < 65536 /\ rest + len = 16
      => (InRange(addr, start, len) <=> Shr(First(addr))[rest] = Shr(start)[rest])
<1> SUFFICES ASSUME NEW addr \in Addr, NEW start \in Nat, start < 65536,
                    NEW rest \in 0 .. 16, NEW len \in 0 .. 16, rest + len = 16
             PROVE  InRange(addr, start, len)
                      <=> Shr(First(addr))[rest] = Shr(start)[rest]
  OBVIOUS
<1> DEFINE from == Shl(start)[AddrBits - 16]
<1>0. /\ len \in Nat /\ len <= AddrBits
      /\ AddrBits - len = (AddrBits - 16) + rest
  BY Bits
<1>1. from \in Addr /\ First(from) = start
  BY TopOctets DEF First
<1>2. InRange(addr, start, len) <=> InCidrs({[addr |-> from, len |-> len]}, addr)
  BY DEF InRange
<1> HIDE DEF from
<1>3. [addr |-> from, len |-> len] \in CidrText
  BY <1>0, <1>1 DEF CidrText
<1>4. CidrAgrees([addr |-> from, len |-> len], addr)
  BY <1>3, LeadingBits
<1>5. InCidrs({[addr |-> from, len |-> len]}, addr)
        <=> Shr(addr)[AddrBits - len] = Shr(from)[AddrBits - len]
  BY <1>0, <1>4 DEF CidrAgrees, LeadingBitsAgree
<1>6. /\ Shr(addr)[AddrBits - len] = Shr(First(addr))[rest]
      /\ Shr(from)[AddrBits - len] = Shr(start)[rest]
  BY <1>0, <1>1, FirstOctets
<1> QED
  BY <1>2, <1>5, <1>6

(* The ranges as numbers.                                                  *)
InSomeRange(top) ==
  \/ top \div 256 \in {127, 10, 0} \/ top \div 16 = 2753
  \/ top = 49320 \/ top = 43518 \/ top \div 64 = 401
  \/ top \div 4096 \in {14, 15}

LEMMA Ranges ==
  \A addr \in Addr : InCidrs(PrivateRanges, addr) <=> InSomeRange(First(addr))
<1> SUFFICES ASSUME NEW addr \in Addr
             PROVE  InCidrs(PrivateRanges, addr) <=> InSomeRange(First(addr))
  OBVIOUS
<1> DEFINE Hit(c) == Parsable(c) /\ CidrContains(Parse(c), addr)
<1>1. \A S : InCidrs(S, addr) <=> \E c \in S : Hit(c)
  BY DEF InCidrs
<1> HIDE DEF Hit
<1> DEFINE Entry(start, len) == [addr |-> Shl(start)[AddrBits - 16], len |-> len]
           top == First(addr)
<1>2. PrivateRanges =
        {Entry(32512, 8), Entry(2560, 8), Entry(44048, 12), Entry(49320, 16),
         Entry(43518, 16), Entry(25664, 10), Entry(57344, 4), Entry(61440, 4), Entry(0, 8)}
  BY DEF PrivateRanges, Octets
<1>3. InCidrs(PrivateRanges, addr)
        <=> \/ InRange(addr, 32512, 8) \/ InRange(addr, 2560, 8)
            \/ InRange(addr, 44048, 12) \/ InRange(addr, 49320, 16)
            \/ InRange(addr, 43518, 16) \/ InRange(addr, 25664, 10)
            \/ InRange(addr, 57344, 4) \/ InRange(addr, 61440, 4)
            \/ InRange(addr, 0, 8)
  BY <1>1, <1>2 DEF InRange
<1>4. top \in Nat
  BY FirstOctets
<1> HIDE DEF top
<1>5. /\ 32512 < 65536 /\ 2560 < 65536 /\ 44048 < 65536 /\ 49320 < 65536
      /\ 43518 < 65536 /\ 25664 < 65536 /\ 57344 < 65536 /\ 61440 < 65536
  OBVIOUS
<1>6. /\ InRange(addr, 32512, 8) <=> Shr(top)[8] = Shr(32512)[8]
      /\ InRange(addr, 2560, 8) <=> Shr(top)[8] = Shr(2560)[8]
      /\ InRange(addr, 0, 8) <=> Shr(top)[8] = Shr(0)[8]
  BY <1>5, RangeBits DEF top
<1>7. /\ InRange(addr, 44048, 12) <=> Shr(top)[4] = Shr(44048)[4]
      /\ InRange(addr, 25664, 10) <=> Shr(top)[6] = Shr(25664)[6]
  BY <1>5, RangeBits DEF top
<1>8. /\ InRange(addr, 49320, 16) <=> Shr(top)[0] = Shr(49320)[0]
      /\ InRange(addr, 43518, 16) <=> Shr(top)[0] = Shr(43518)[0]
  BY <1>5, RangeBits DEF top
<1>9. /\ InRange(addr, 57344, 4) <=> Shr(top)[12] = Shr(57344)[12]
      /\ InRange(addr, 61440, 4) <=> Shr(top)[12] = Shr(61440)[12]
  BY <1>5, RangeBits DEF top
<1>10. /\ Shr(top)[8] = Shr(32512)[8] <=> top \div 256 = 127
       /\ Shr(top)[8] = Shr(2560)[8] <=> top \div 256 = 10
       /\ Shr(top)[8] = Shr(0)[8] <=> top \div 256 = 0
  BY <1>4, Shifts
<1>11. /\ Shr(top)[4] = Shr(44048)[4] <=> top \div 16 = 2753
       /\ Shr(top)[6] = Shr(25664)[6] <=> top \div 64 = 401
  BY <1>4, Shifts
<1>12. /\ Shr(top)[0] = Shr(49320)[0] <=> top = 49320
       /\ Shr(top)[0] = Shr(43518)[0] <=> top = 43518
  BY <1>4, Shifts
<1>13. /\ Shr(top)[12] = Shr(57344)[12] <=> top \div 4096 = 14
       /\ Shr(top)[12] = Shr(61440)[12] <=> top \div 4096 = 15
  BY <1>4, Shifts
<1> QED
  BY <1>3, <1>6, <1>7, <1>8, <1>9, <1>10, <1>11, <1>12, <1>13 DEF InSomeRange, top

(* For every destination and every entry of a list: the comparisons of     *)
(* octets in the kernel leave out the ranges of their comments and no      *)
(* others, and the masks compare leading bits.                             *)
THEOREM EveryDestinationAgrees ==
  /\ \A addr \in Addr : AddrAgrees(addr)
  /\ \A c \in CidrText, addr \in Addr : CidrAgrees(c, addr)
<1>1. ASSUME NEW addr \in Addr PROVE AddrAgrees(addr)
  <2> DEFINE top == First(addr)
             b0 == top \div 256
             b1 == top % 256
  <2>0. Shr(addr)[AddrBits - 8] = b0 /\ Shr(addr)[AddrBits - 16] = top
    <3>1. AddrBits - 8 = (AddrBits - 16) + 8 /\ 8 \in 0 .. 16
      BY Bits
    <3>2. Shr(addr)[AddrBits - 8] = Shr(top)[8] /\ top \in Nat
      BY <3>1, FirstOctets
    <3> QED
      BY <3>2, Shifts DEF First
  <2>1. top \in Nat /\ top < 65536
    BY FirstOctets
  <2> HIDE DEF top
  <2>2. top = 256 * b0 + b1 /\ b0 \in 0 .. 255 /\ b1 \in 0 .. 255
    BY <2>1
  <2>3. Private(addr) <=> \/ b0 \in {0, 10, 127} \/ b0 >= 224
                          \/ b0 = 172 /\ b1 >= 16 /\ b1 <= 31
                          \/ b0 = 192 /\ b1 = 168
                          \/ b0 = 169 /\ b1 = 254
                          \/ b0 = 100 /\ b1 >= 64 /\ b1 <= 127
    BY <2>0 DEF Private
  <2>4. \A x, y \in 0 .. 255 :
          /\ (256 * x + y) \div 16 = 2753 <=> x = 172 /\ y >= 16 /\ y <= 31
          /\ 256 * x + y = 49320 <=> x = 192 /\ y = 168
          /\ 256 * x + y = 43518 <=> x = 169 /\ y = 254
          /\ (256 * x + y) \div 64 = 401 <=> x = 100 /\ y >= 64 /\ y <= 127
          /\ (256 * x + y) \div 4096 \in {14, 15} <=> x >= 224
    OBVIOUS
  <2>5. /\ top \div 16 = 2753 <=> b0 = 172 /\ b1 >= 16 /\ b1 <= 31
        /\ top = 49320 <=> b0 = 192 /\ b1 = 168
        /\ top = 43518 <=> b0 = 169 /\ b1 = 254
        /\ top \div 64 = 401 <=> b0 = 100 /\ b1 >= 64 /\ b1 <= 127
        /\ top \div 4096 \in {14, 15} <=> b0 >= 224
    <3> HIDE DEF b0, b1
    <3> QED
      BY <2>2, <2>4
  <2>6. InCidrs(PrivateRanges, addr) <=> InSomeRange(top)
    BY Ranges DEF top
  <2>7. top \div 256 = b0
    OBVIOUS
  <2> HIDE DEF b0, b1
  <2> QED
    BY <2>3, <2>5, <2>6, <2>7 DEF AddrAgrees, InSomeRange
<1> QED
  BY <1>1, LeadingBits

(* So it is for the destinations and entries that the runs ask about.      *)
THEOREM DestinationsAgreeAlways == DSpec => []DestinationsAgree
<1>1. DestinationsAgree
  BY EveryDestinationAgrees, DetectionAssumption DEF DestinationsAgree, AddrsThatDiffer
<1> QED
  BY <1>1, PTL
=============================================================================
