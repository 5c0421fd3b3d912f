-------------------------- MODULE IntegrityProofs --------------------------
(***************************************************************************)
(* Proofs about Enforcement and Integrity, for any lists, any set of       *)
(* detectors and any number of replaced files.  Integrity is first shown   *)
(* to take only steps of Enforcement, so that what is proved of the hooks  *)
(* holds under the check too; the hooks' inductive invariant says how far  *)
(* the list of the hook at hand has been filled in, and that the hooks     *)
(* after it have not been touched.                                         *)
(***************************************************************************)
EXTENDS Integrity, FiniteSetTheorems, TLAPS

(* The usable entries among the first n of a list.                         *)
First(h, n) == {Allowlist[h][i] : i \in 1..n} \cap Usable

Untouched(h) == h \notin attached /\ (h \in CommHook => allowed[h] = {})

InTurn ==
  /\ pc = "selfprotect" => Untouched("bpf") /\ Untouched("kmod")
  /\ pc = "bpf" => Untouched("kmod")
  /\ step = "load" /\ pc \in Hook => Untouched(pc) /\ index = 1

FilledSoFar ==
  step = "fill" /\ pc \in Hook =>
    /\ pc \in attached
    /\ pc \in CommHook => /\ index \in 1 .. Len(Allowlist[pc]) + 1
                          /\ allowed[pc] = First(pc, index - 1)

EInv == TypeOK /\ InTurn /\ FilledSoFar /\ EnforcedOnlyWhole

-----------------------------------------------------------------------------
LEMMA ListLength == ASSUME NEW h \in CommHook PROVE Len(Allowlist[h]) \in Nat
  BY EnforcementAssumption

(* A list is whole when its last entry has been gone through.              *)
LEMMA FirstAll ==
  ASSUME NEW h \in CommHook
  PROVE  First(h, 0) = {} /\ First(h, Len(Allowlist[h])) = Listed(h)
<1>1. 1..0 = {}
  OBVIOUS
<1> QED BY <1>1 DEF First, Listed

(* What one more entry adds.                                               *)
LEMMA FirstNext ==
  ASSUME NEW h \in CommHook, NEW n \in 1 .. Len(Allowlist[h])
  PROVE  First(h, n) = First(h, n - 1) \cup ({Allowlist[h][n]} \cap Usable)
<1> DEFINE L == Allowlist[h]
<1>1. 1..n = 1..(n - 1) \cup {n}
  BY ListLength
<1>2. {L[i] : i \in 1..n} = {L[i] : i \in 1..(n - 1)} \cup {L[n]}
  <2> HIDE DEF L
  <2> QED BY <1>1
<1> QED BY <1>2, Zenon DEF First

LEMMA InitEInv == Init => EInv
<1> SUFFICES ASSUME Init PROVE EInv
  OBVIOUS
<1>1. TypeOK
  <2>1. \A h \in CommHook : Cardinality(allowed[h]) <= MapMax
    BY FS_EmptySet, EnforcementAssumption DEF Init
  <2>2. det \in [Detector -> {"none", "spawned", "running", "failed", "denied"}]
    BY DEF Init
  <2>3. allowed \in [CommHook -> SUBSET Usable]
    BY DEF Init
  <2>4. /\ enabled \subseteq Hook /\ pc \in Hook /\ attached \subseteq enabled
        /\ step = "load" /\ index = 1 /\ armed \in BOOLEAN
    BY DEF Init, Hook
  <2> QED BY <2>1, <2>2, <2>3, <2>4 DEF TypeOK
<1> QED BY <1>1 DEF Init, EInv, InTurn, FilledSoFar, EnforcedOnlyWhole, Untouched,
                    CommHook

(* Going on to the next hook starts it afresh.                             *)
LEMMA GoOnStarts ==
  ASSUME pc \in Hook, GoOn
  PROVE  /\ pc' \in Hook \cup {"spawn"} /\ pc' # pc
         /\ step' = "load" /\ index' = 1
         /\ pc' = "bpf" <=> pc = "selfprotect"
         /\ pc' = "kmod" <=> pc = "bpf"
         /\ pc' = "spawn" <=> pc = "kmod"
         /\ pc' # "selfprotect"
  BY DEF GoOn, After, Hook

LEMMA SkipKeeps == EInv /\ Skip => EInv'
<1> SUFFICES ASSUME EInv, Skip PROVE EInv'
  OBVIOUS
<1> USE DEF EInv, Skip
<1>1. TypeOK'
  BY GoOnStarts DEF TypeOK
<1>2. InTurn' /\ FilledSoFar'
  BY GoOnStarts DEF InTurn, FilledSoFar, Untouched, Hook
<1>3. EnforcedOnlyWhole'
  BY GoOnStarts DEF EnforcedOnlyWhole, Filling
<1> QED BY <1>1, <1>2, <1>3

LEMMA LoadFailsKeeps == EInv /\ LoadFails => EInv'
<1> SUFFICES ASSUME EInv, LoadFails PROVE EInv'
  OBVIOUS
<1> USE DEF EInv, LoadFails
<1>0. pc \in Hook
  BY DEF TypeOK
<1>1. TypeOK'
  BY <1>0, GoOnStarts DEF TypeOK
<1>2. InTurn' /\ FilledSoFar'
  BY <1>0, GoOnStarts DEF InTurn, FilledSoFar, Untouched, Hook
<1>3. EnforcedOnlyWhole'
  BY <1>0, GoOnStarts DEF EnforcedOnlyWhole, Filling
<1> QED BY <1>1, <1>2, <1>3

LEMMA LoadKeeps == EInv /\ Load => EInv'
<1> SUFFICES ASSUME EInv, Load PROVE EInv'
  OBVIOUS
<1> USE DEF EInv, Load
<1>0. pc \in Hook /\ Untouched(pc) /\ index = 1
  BY DEF TypeOK, InTurn
<1>1. TypeOK'
  BY <1>0 DEF TypeOK
<1>2. InTurn'
  BY <1>0 DEF InTurn, Untouched, Hook
<1>3. FilledSoFar'
  <2>1. CASE pc \in CommHook
    <3>0. First(pc, 0) = {}
      BY <2>1, FirstAll
    <3>1. allowed[pc] = First(pc, 1 - 1)
      BY <1>0, <2>1, <3>0 DEF Untouched
    <3>2. 1 \in 1 .. Len(Allowlist[pc]) + 1
      BY <2>1, ListLength
    <3> QED BY <1>0, <3>1, <3>2 DEF FilledSoFar
  <2>2. CASE pc \notin CommHook
    BY <2>2 DEF FilledSoFar
  <2> QED BY <2>1, <2>2
<1>4. EnforcedOnlyWhole'
  BY <1>0 DEF EnforcedOnlyWhole, Filling
<1> QED BY <1>1, <1>2, <1>3, <1>4

LEMMA ArmKeeps == EInv /\ Arm => EInv'
<1> SUFFICES ASSUME EInv, Arm PROVE EInv'
  OBVIOUS
<1> USE DEF EInv, Arm
<1>0. pc \in Hook
  BY DEF Hook
<1>1. TypeOK'
  BY <1>0, GoOnStarts DEF TypeOK
<1>2. InTurn' /\ FilledSoFar'
  BY <1>0, GoOnStarts DEF InTurn, FilledSoFar, Untouched, Hook
<1>3. EnforcedOnlyWhole'
  BY <1>0, GoOnStarts DEF EnforcedOnlyWhole, Filling
<1> QED BY <1>1, <1>2, <1>3

LEMMA FillFailsKeeps == EInv /\ FillFails => EInv'
<1> SUFFICES ASSUME EInv, FillFails PROVE EInv'
  OBVIOUS
<1> USE DEF EInv, FillFails
<1>1. TypeOK'
  <2>1. allowed' \in [CommHook -> SUBSET Usable]
    BY DEF TypeOK
  <2>2. \A h \in CommHook : allowed'[h] = allowed[h] \/ allowed'[h] = {}
    BY DEF TypeOK
  <2>3. \A h \in CommHook : Cardinality(allowed'[h]) <= MapMax
    BY <2>2, FS_EmptySet, EnforcementAssumption DEF TypeOK
  <2> QED BY <2>1, <2>3, GoOnStarts DEF TypeOK
<1>2. InTurn' /\ FilledSoFar'
  BY GoOnStarts DEF TypeOK, InTurn, FilledSoFar, Untouched, Hook, CommHook
<1>3. EnforcedOnlyWhole'
  BY GoOnStarts DEF TypeOK, EnforcedOnlyWhole, Filling
<1> QED BY <1>1, <1>2, <1>3

LEMMA RefuseKeeps == EInv /\ Refuse => EInv'
<1> SUFFICES ASSUME EInv, Refuse PROVE EInv'
  OBVIOUS
<1> USE DEF EInv, Refuse, AtEntry
<1>0. pc \in Hook /\ index \in 1 .. Len(Allowlist[pc])
  BY ListLength DEF TypeOK, Hook, CommHook
<1>1. TypeOK'
  BY DEF TypeOK
<1>2. InTurn' /\ EnforcedOnlyWhole'
  BY DEF InTurn, EnforcedOnlyWhole, Untouched, Filling
<1>3. FilledSoFar'
  <2>0. pc \in CommHook /\ {Allowlist[pc][index]} \cap Usable = {}
    OBVIOUS
  <2>1. First(pc, index) = First(pc, index - 1)
    <3>1. First(pc, index) = First(pc, index - 1)
                               \cup ({Allowlist[pc][index]} \cap Usable)
      BY <1>0, <2>0, FirstNext
    <3> QED BY <2>0, <3>1
  <2>2. index' - 1 = index /\ index' \in 1 .. Len(Allowlist[pc]) + 1
    BY <1>0, ListLength
  <2> QED BY <1>0, <2>1, <2>2 DEF FilledSoFar
<1> QED BY <1>1, <1>2, <1>3

LEMMA InsertKeeps == EInv /\ Insert => EInv'
<1> SUFFICES ASSUME EInv, Insert PROVE EInv'
  OBVIOUS
<1> USE DEF EInv, AtEntry
<1>0. /\ pc \in CommHook /\ step = "fill" /\ pc \in Hook
      /\ index \in 1 .. Len(Allowlist[pc]) /\ index' = index + 1
  BY ListLength DEF Insert, TypeOK, Hook, CommHook
<1> DEFINE filled == allowed[pc] \cup {Allowlist[pc][index]}
<1>1. /\ allowed' = [allowed EXCEPT ![pc] = filled]
      /\ Cardinality(filled) <= MapMax
      /\ Allowlist[pc][index] \in Usable
      /\ UNCHANGED <<enabled, pc, step, attached, armed, det>>
  BY DEF Insert
<1>2. allowed \in [CommHook -> SUBSET Usable] /\ filled \subseteq Usable
  BY <1>0, <1>1 DEF TypeOK
<1> HIDE DEF filled
<1>3. TypeOK'
  <2>1. allowed' \in [CommHook -> SUBSET Usable]
    BY <1>1, <1>2
  <2>2. \A h \in CommHook : Cardinality(allowed'[h]) <= MapMax
    BY <1>1, <1>2 DEF TypeOK
  <2>3. index' \in Nat \ {0}
    BY <1>0, ListLength
  <2> QED BY <1>1, <2>1, <2>2, <2>3 DEF TypeOK
<1>4. InTurn' /\ EnforcedOnlyWhole'
  BY <1>0, <1>1, <1>2 DEF InTurn, EnforcedOnlyWhole, Untouched, Filling, Hook, CommHook
<1>5. FilledSoFar'
  <2>1. First(pc, index) = First(pc, index - 1) \cup ({Allowlist[pc][index]} \cap Usable)
    BY <1>0, FirstNext
  <2>2. filled = First(pc, index)
    BY <1>0, <1>1, <2>1 DEF filled, FilledSoFar
  <2>3. index' - 1 = index /\ index' \in 1 .. Len(Allowlist[pc]) + 1
    BY <1>0, ListLength
  <2> QED BY <1>0, <1>1, <1>2, <2>2, <2>3 DEF FilledSoFar
<1> QED BY <1>3, <1>4, <1>5

LEMMA FilledKeeps == EInv /\ Filled => EInv'
<1> SUFFICES ASSUME EInv, Filled PROVE EInv'
  OBVIOUS
<1> USE DEF EInv, Filled
<1>0. pc \in Hook
  BY DEF Hook, CommHook
<1>1. TypeOK'
  BY <1>0, GoOnStarts DEF TypeOK
<1>2. InTurn' /\ FilledSoFar'
  BY <1>0, GoOnStarts DEF InTurn, FilledSoFar, Untouched, Hook
<1>3. EnforcedOnlyWhole'
  <2>1. index = Len(Allowlist[pc]) + 1
    BY <1>0, ListLength DEF FilledSoFar
  <2>2. allowed[pc] = Listed(pc)
    BY <1>0, <2>1, FirstAll, ListLength DEF FilledSoFar
  <2> QED BY <1>0, <2>2, GoOnStarts DEF EnforcedOnlyWhole, Filling, CommHook
<1> QED BY <1>1, <1>2, <1>3

(* What happens after the hooks are installed leaves them as they are, and *)
(* the end of the daemon takes them all down.                              *)
LEMMA RestKeeps ==
  ASSUME EInv,
         \/ Spawn \/ Exit \/ UNCHANGED vars
         \/ \E d \in Detector : LoadDetector(d) \/ DetectorFails(d)
         \/ \E sender \in {"init", "self", "other"} : Kill(sender)
  PROVE  EInv'
<1> USE DEF EInv
<1>1. CASE Spawn
  <2>1. TypeOK'
    <3>1. det' \in [Detector -> {"none", "spawned", "running", "failed", "denied"}]
      BY <1>1 DEF Spawn
    <3> QED BY <1>1, <3>1 DEF Spawn, TypeOK
  <2>2. InTurn' /\ FilledSoFar' /\ EnforcedOnlyWhole'
    BY <1>1 DEF Spawn, TypeOK, InTurn, FilledSoFar, EnforcedOnlyWhole, Filling, Hook
  <2> QED BY <2>1, <2>2
<1>2. CASE Exit \/ \E sender \in {"init", "self", "other"} : Kill(sender)
  <2>1. /\ pc' = "down" /\ attached' = {} /\ armed' = FALSE
        /\ UNCHANGED <<enabled, step, index, allowed, det>>
    BY <1>2 DEF Exit, Kill
  <2>2. TypeOK'
    BY <2>1 DEF TypeOK
  <2>3. InTurn' /\ FilledSoFar' /\ EnforcedOnlyWhole'
    BY <2>1 DEF InTurn, FilledSoFar, EnforcedOnlyWhole, Hook
  <2> QED BY <2>2, <2>3
<1>3. CASE \E d \in Detector : LoadDetector(d) \/ DetectorFails(d)
  <2>1. UNCHANGED <<enabled, pc, step, index, attached, allowed, armed>>
    BY <1>3 DEF LoadDetector, DetectorFails
  <2>2. det' \in [Detector -> {"none", "spawned", "running", "failed", "denied"}]
    BY <1>3 DEF LoadDetector, DetectorFails, TypeOK
  <2>3. TypeOK'
    BY <2>1, <2>2 DEF TypeOK
  <2>4. InTurn' /\ FilledSoFar' /\ EnforcedOnlyWhole'
    BY <2>1 DEF InTurn, FilledSoFar, EnforcedOnlyWhole, Filling, Untouched
  <2> QED BY <2>3, <2>4
<1>4. CASE UNCHANGED vars
  BY <1>4 DEF vars, TypeOK, InTurn, FilledSoFar, EnforcedOnlyWhole, Filling, Untouched
<1> QED BY <1>1, <1>2, <1>3, <1>4

LEMMA StepEInv == EInv /\ [Next]_vars => EInv'
  BY SkipKeeps, LoadFailsKeeps, LoadKeeps, ArmKeeps, FillFailsKeeps, RefuseKeeps,
     InsertKeeps, FilledKeeps, RestKeeps DEF Next, Install

(* The strengthened invariant of the installation, without the checks of   *)
(* the files, holds in every state of it.                                  *)
THEOREM EnforcementInvariance == Spec => []EInv
  BY InitEInv, StepEInv, PTL DEF Spec

-----------------------------------------------------------------------------
(* Integrity takes only steps of Enforcement: the check of the bytes adds  *)
(* no way to attach a program, to fill its list, or to leave it behind.    *)
THEOREM CheckedIsEnforcement == ISpec => Spec
<1>1. IInit => Init
  BY DEF IInit
<1>2. [INext]_ivars => [Next]_vars
  <2> SUFFICES ASSUME [INext]_ivars PROVE [Next]_vars
    OBVIOUS
  <2>1. CASE Boot \/ \E o \in Object, content \in Content \cup {Missing} : Replace(o, content)
    BY <2>1 DEF Boot, Replace
  <2>2. CASE Otherwise \/ Dropped
    BY <2>2 DEF Otherwise, Dropped, Next, Install
  <2>3. CASE \E o \in Object : Read(o)
    BY <2>3 DEF Read
  <2>4. CASE \E o \in Object : LoadChecked(o) \/ LoadStops(o)
    BY <2>4 DEF LoadChecked, LoadStops, Next, Install
  <2>5. CASE UNCHANGED ivars
    BY <2>5 DEF ivars
  <2> QED BY <2>1, <2>2, <2>3, <2>4, <2>5 DEF INext
<1> QED BY <1>1, <1>2, PTL DEF ISpec, Spec

(* A program that stays attached has its whole allowlist, or its TGID,     *)
(* whatever failed on the way and whoever replaced the files (lsm.rs       *)
(* install, populate_comm_allowlist).                                      *)
THEOREM EnforcedWhole == ISpec => []EnforcedOnlyWhole
<1>1. EInv => EnforcedOnlyWhole
  BY DEF EInv
<1> QED BY <1>1, EnforcementInvariance, CheckedIsEnforcement, PTL

(* A process on a list is denied at most while the hook is being set up    *)
(* (enforce_bpf.bpf.c, enforce_kmod.bpf.c).                                *)
THEOREM ListedGranted == ISpec => []ListedNeverDenied
<1>1. EnforcedOnlyWhole => ListedNeverDenied
  BY DEF EnforcedOnlyWhole, ListedNeverDenied, Grants, CommHook
<1> QED BY <1>1, EnforcedWhole, PTL

-----------------------------------------------------------------------------
(* The check.  In strict mode a load that was not refused holds the bytes  *)
(* of the table; no load begins before the mode is set.                    *)
Bytes == Content \cup {Missing}

ITypeOK ==
  /\ table \in [Object -> Bytes] /\ disk \in [Object -> Bytes]
  /\ read \in [Object -> Bytes] /\ loaded \in [Object -> Bytes]
  /\ configured \in BOOLEAN /\ strict \in BOOLEAN /\ booted \in BOOLEAN
  /\ refused \subseteq Object

ModeFirst ==
  /\ booted => strict = configured
  /\ ~booted => /\ step = "load" /\ pc \in {"selfprotect", "down"}
                /\ Running = {} /\ refused = {}
                /\ \A o \in Object : read[o] = Missing

ReadChecked ==
  configured =>
    \A o \in Object : read[o] # Missing /\ o \notin refused => read[o] = table[o]

IInv ==
  /\ ITypeOK /\ ModeFirst /\ ReadChecked
  /\ RunsWhatWasBuilt /\ RelaxedRefusesNone

LEMMA RunningIsObject == EInv => Running \subseteq Object
  BY DEF EInv, TypeOK, Running, Object

LEMMA InitIInv == IInit => IInv
<1> SUFFICES ASSUME IInit PROVE IInv
  OBVIOUS
<1>1. Running = {}
  BY DEF IInit, Init, Running
<1>2. ITypeOK
  BY DEF IInit, ITypeOK, Bytes, Content, Missing
<1> QED BY <1>1, <1>2 DEF IInit, Init, IInv, ModeFirst, ReadChecked,
          RunsWhatWasBuilt, RelaxedRefusesNone

(* A step that reads, refuses and loads nothing, and after which no more   *)
(* objects run than before, disturbs nothing.                              *)
LEMMA QuietKeeps ==
  ASSUME EInv, IInv, booted, UNCHANGED <<files, check>>, Running' \subseteq Running
  PROVE  IInv'
<1> USE DEF IInv, files, check
<1>1. ITypeOK' /\ ModeFirst' /\ ReadChecked' /\ RelaxedRefusesNone'
  BY DEF ITypeOK, ModeFirst, ReadChecked, RelaxedRefusesNone
<1>2. RunsWhatWasBuilt'
  BY DEF RunsWhatWasBuilt
<1> QED BY <1>1, <1>2

LEMMA BootKeeps == EInv /\ IInv /\ Boot => IInv'
<1> SUFFICES ASSUME EInv, IInv, Boot PROVE IInv'
  OBVIOUS
<1> USE DEF IInv, Boot, files
<1>1. Running = {} /\ Running' = {}
  BY DEF ModeFirst, Running, vars
<1>2. ITypeOK' /\ ModeFirst' /\ ReadChecked'
  BY <1>1 DEF ITypeOK, ModeFirst, ReadChecked, vars
<1>3. RunsWhatWasBuilt' /\ RelaxedRefusesNone'
  BY <1>1 DEF RunsWhatWasBuilt, RelaxedRefusesNone
<1> QED BY <1>2, <1>3

LEMMA ReadKeeps == ASSUME NEW o \in Object, EInv, IInv, Read(o) PROVE IInv'
<1> USE DEF IInv, files
<1>0. /\ read' = [read EXCEPT ![o] = disk[o]]
      /\ refused' = IF Verified(o, disk[o]) THEN refused ELSE refused \cup {o}
      /\ booted /\ strict = configured
      /\ UNCHANGED <<vars, table, disk, configured, strict, booted, loaded>>
  BY DEF Read, ModeFirst
<1>1. ITypeOK' /\ ModeFirst'
  BY <1>0 DEF ITypeOK, ModeFirst
<1>2. ReadChecked'
  <2> SUFFICES ASSUME configured, NEW p \in Object, read'[p] # Missing, p \notin refused'
               PROVE  read'[p] = table[p]
    BY <1>0 DEF ReadChecked
  <2>1. CASE p = o
    BY <1>0, <2>1 DEF Verified, ITypeOK
  <2>2. CASE p # o
    BY <1>0, <2>2 DEF ReadChecked, ITypeOK
  <2> QED BY <2>1, <2>2
<1>3. RunsWhatWasBuilt'
  BY <1>0 DEF RunsWhatWasBuilt, Running, vars
<1>4. RelaxedRefusesNone'
  BY <1>0 DEF RelaxedRefusesNone, Verified
<1> QED BY <1>1, <1>2, <1>3, <1>4

(* Only the object that was loaded runs in addition, with the bytes that   *)
(* were checked.                                                           *)
LEMMA LoadCheckedKeeps ==
  ASSUME NEW o \in Object, EInv, EInv', IInv, LoadChecked(o) PROVE IInv'
<1> USE DEF IInv, files
<1>0. /\ read[o] # Missing /\ o \notin refused
      /\ UNCHANGED <<table, disk, configured, strict, booted, read, refused>>
  BY DEF LoadChecked
<1>1. booted
  BY <1>0 DEF ModeFirst
<1>2. loaded' = loaded \/ loaded' = [loaded EXCEPT ![o] = read[o]]
  BY DEF LoadChecked, BytesFor
<1>3. \A p \in Running' \ {o} : p \in Running
  BY DEF LoadChecked, Load, LoadDetector, Running, EInv, TypeOK
<1>4. o \in Running' => loaded' = [loaded EXCEPT ![o] = read[o]]
  <2>1. CASE o = pc /\ Load
    BY <2>1 DEF Load, LoadChecked, BytesFor
  <2>2. CASE o \in Detector /\ LoadDetector(o)
    BY <2>2 DEF LoadChecked, BytesFor, Running
  <2> QED BY <2>1, <2>2 DEF LoadChecked
<1>5. Running' \subseteq Object
  BY DEF EInv, TypeOK, Running, Object
<1>6. ITypeOK' /\ ModeFirst' /\ ReadChecked' /\ RelaxedRefusesNone'
  BY <1>0, <1>1, <1>2 DEF ITypeOK, ModeFirst, ReadChecked, RelaxedRefusesNone
<1>7. RunsWhatWasBuilt'
  <2> SUFFICES ASSUME configured, NEW p \in Running'
               PROVE  loaded'[p] = table[p] /\ table[p] # Missing
    BY <1>0 DEF RunsWhatWasBuilt
  <2>1. read[o] = table[o]
    BY <1>0 DEF ReadChecked
  <2>2. CASE p = o
    BY <1>0, <1>4, <2>1, <2>2 DEF ITypeOK
  <2>3. CASE p # o
    BY <1>2, <1>3, <1>5, <2>3 DEF RunsWhatWasBuilt, ITypeOK
  <2> QED BY <2>2, <2>3
<1> QED BY <1>6, <1>7

LEMMA DroppedKeeps == EInv /\ IInv /\ Dropped => IInv'
<1> SUFFICES ASSUME EInv, IInv, Dropped PROVE IInv'
  OBVIOUS
<1> USE DEF IInv, files
<1>0. /\ loaded' = [o \in Object |->
                     IF pc' = "down" \/ (o \in Hook /\ o \notin attached')
                     THEN Missing ELSE loaded[o]]
      /\ UNCHANGED <<table, disk, configured, strict, booted, read, refused>>
  BY DEF Dropped
<1>1. \/ FillFails
      \/ pc' = "down" /\ attached' = {} /\ step' = step
  BY DEF Dropped, Exit, Kill
<1>2. Running' \subseteq Running
  <2>1. CASE FillFails
    BY <2>1, GoOnStarts DEF FillFails, Running, Hook
  <2>2. CASE pc' = "down" /\ attached' = {}
    BY <2>2 DEF Running
  <2> QED BY <1>1, <2>1, <2>2
<1>3. ITypeOK' /\ ReadChecked' /\ RelaxedRefusesNone'
  BY <1>0 DEF ITypeOK, ReadChecked, RelaxedRefusesNone, Bytes
<1>4. ModeFirst'
  BY <1>0, <1>1, <1>2 DEF ModeFirst, FillFails
<1>5. RunsWhatWasBuilt'
  <2> SUFFICES ASSUME configured, NEW p \in Running'
               PROVE  loaded'[p] = table[p] /\ table[p] # Missing
    BY <1>0 DEF RunsWhatWasBuilt
  <2>1. p \in Object
    BY <1>2, RunningIsObject
  <2>2. pc' # "down" /\ (p \in attached' \/ p \in Detector)
    BY <1>1, GoOnStarts DEF Running, FillFails, Hook
  <2>3. loaded'[p] = loaded[p]
    BY <1>0, <2>1, <2>2, IntegrityAssumption
  <2> QED BY <1>2, <2>3 DEF RunsWhatWasBuilt
<1> QED BY <1>3, <1>4, <1>5

LEMMA StepIInv == EInv /\ EInv' /\ IInv /\ [INext]_ivars => IInv'
<1> SUFFICES ASSUME EInv, EInv', IInv, [INext]_ivars PROVE IInv'
  OBVIOUS
<1>1. ASSUME NEW o \in Object, LoadStops(o) PROVE IInv'
  <2>1. Running' \subseteq Running
    BY <1>1, GoOnStarts DEF LoadStops, LoadFails, DetectorFails, Running, EInv,
       TypeOK, Hook
  <2> QED BY <1>1, <2>1, QuietKeeps DEF LoadStops
<1>2. CASE Otherwise
  <2>1. Running' \subseteq Running
    BY <1>2, GoOnStarts DEF Otherwise, Skip, Arm, Refuse, Insert, Filled, Spawn,
       AtEntry, Running, Hook, CommHook
  <2> QED BY <1>2, <2>1, QuietKeeps DEF Otherwise
<1>3. ASSUME NEW o \in Object, NEW content \in Content \cup {Missing},
             Replace(o, content)
      PROVE  IInv'
  <2>1. Running' = Running
    BY <1>3 DEF Replace, Running, vars
  <2>2. disk' \in [Object -> Bytes]
    BY <1>3 DEF Replace, IInv, ITypeOK, Bytes
  <2> QED BY <1>3, <2>1, <2>2 DEF Replace, check, IInv, ITypeOK, ModeFirst, vars,
          ReadChecked, RunsWhatWasBuilt, RelaxedRefusesNone
<1>4. CASE UNCHANGED ivars
  BY <1>4 DEF ivars, vars, files, check, IInv, ITypeOK, ModeFirst, Running,
     ReadChecked, RunsWhatWasBuilt, RelaxedRefusesNone
<1> QED BY <1>1, <1>2, <1>3, <1>4, BootKeeps, ReadKeeps, LoadCheckedKeeps,
           DroppedKeeps DEF INext

(* With the checks, what is read, refused and loaded stays in step with    *)
(* the installation.                                                       *)
THEOREM Invariance == ISpec => []IInv
<1>1. ISpec => []EInv
  BY EnforcementInvariance, CheckedIsEnforcement, PTL
<1> QED BY <1>1, InitIInv, StepIInv, PTL DEF ISpec

(* In strict mode every attached program and every running detector is the *)
(* one that was built, whenever its file is replaced (integrity.rs verify, *)
(* runtime.rs TracepointDetector::load, lsm.rs load_lsm).                  *)
THEOREM RunsBuilt == ISpec => []RunsWhatWasBuilt
<1>1. IInv => RunsWhatWasBuilt
  BY DEF IInv
<1> QED BY <1>1, Invariance, PTL

(* In relaxed mode no object is refused for its bytes (bootstrap.rs        *)
(* init_runtime_services sets the mode before the first load).             *)
THEOREM RelaxedRefuses == ISpec => []RelaxedRefusesNone
<1>1. IInv => RelaxedRefusesNone
  BY DEF IInv
<1> QED BY <1>1, Invariance, PTL
=============================================================================
