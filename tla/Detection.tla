----------------------------- MODULE Detection -----------------------------
(***************************************************************************)
(* One system call at a time on its way from the kernel to a verdict: the  *)
(* BPF program's filter (Matching, Syscalls), then the detector's handler  *)
(* (kernelradar-detectors fim.rs, cred.rs, network.rs, privesc.rs, ...),   *)
(* which learns the executable from two reads of /proc (util.rs            *)
(* read_exe_path_verified) while the process goes on, executes other       *)
(* programs, ends, or leaves its pid to another one, and while a reload    *)
(* (Reload) replaces the lists that the handler reads.  The ring between   *)
(* the two is EventRing's, what becomes of an alert AlertPipeline's.       *)
(***************************************************************************)
EXTENDS Reload, Matching, Syscalls

CONSTANTS
  SysCall,  \* system calls: [kind, path or addr or what Syscalls says]
  Image,    \* what another process can be: [comm, exe]
  Own,      \* the daemon as it loads its objects, on a worker thread
  FileName, \* FileName[e]: the last component of the path e
  Asked     \* the calls, paths, addrs and cidrs, used or not, that the
            \* invariants ask about whose names end with Agree

Addr == 0 .. Word - 1

(* An entry of a CIDR list, with any number after the slash.               *)
CidrText == [addr : Addr, len : Nat]

Texts == {Defaults} \cup {Parsed[t] : t \in DOMAIN Parsed}

ASSUME DetectionAssumption ==
  /\ \A c \in SysCall : c.kind \in Detector
  /\ Asked.calls \subseteq Call /\ Asked.paths \subseteq Seq(Token)
  /\ Asked.addrs \subseteq Addr /\ Asked.cidrs \subseteq CidrText
  /\ \A t \in Texts : \A d \in DOMAIN t.detectors : IsFiniteSet(t.detectors[d].list)

VARIABLES
  step,    \* where the event is
  call,    \* the system call
  comm,    \* the comm that the event carries
  exe,     \* the executable the handler has read
  proc,    \* the process that has the pid now
  verdict, \* what became of the call
  ran,     \* history: executables that ran under the pid and that comm
  swapped  \* history: the process changed between the two reads

event == <<step, call, comm, exe, proc, verdict, ran, swapped>>
dvars == <<vars, event>>

None == "none"
Gone == [comm |-> None, exe |-> None]

NoCall == [kind |-> None]

DInit ==
  /\ Init
  /\ step = "idle" /\ comm = None /\ exe = None /\ proc = Gone
  /\ call = NoCall /\ verdict = None
  /\ ran = {} /\ swapped = FALSE

(* The event is over.                                                      *)
Over(result) ==
  /\ verdict' = result
  /\ step' = "idle" /\ call' = NoCall
  /\ comm' = None /\ exe' = None /\ proc' = Gone
  /\ ran' = {} /\ swapped' = FALSE

-----------------------------------------------------------------------------
(* The kernel.                                                             *)

FileKinds == {"fim", "cred"}
Loader == "bpf-loader"

(* What the program on the tracepoint lets pass.                           *)
Passes(c) ==
  CASE c.kind = Net -> ~Private(c.addr)
    [] c.kind \in FileKinds -> KernelPasses(c.kind, Visible(c.path))
    [] OTHER -> SyscallEvents(c) # {}

Passed == {c \in SysCall : Passes(c)}

(* The detectors that were started: no reload starts or stops one.         *)
Watched == {c \in SysCall : DetectorEnabled(Settings(first), c.kind)}

(* A process makes a call; the event carries its comm.  The daemon loads   *)
(* its objects.                                                            *)
Trace(c, image) ==
  /\ up /\ step = "idle" /\ c \in Passed \cap Watched
  /\ image = Own => c.kind = Loader
  /\ call' = c /\ proc' = image /\ comm' = image.comm
  /\ step' = "queued" /\ ran' = {image.exe} /\ verdict' = None
  /\ UNCHANGED <<vars, exe, swapped>>

(* The same, of a call that is none of the programs' business.             *)
Filter(c) ==
  /\ up /\ step = "idle" /\ c \in Watched \ Passed
  /\ verdict' = "filtered"
  /\ UNCHANGED <<vars, step, call, comm, exe, proc, ran, swapped>>

(* The process becomes another image by execve or prctl, or the pid is     *)
(* that of another process; the daemon's stays its own.                    *)
Become(image) ==
  /\ up /\ step # "idle" /\ proc \notin {image, Own}
  /\ proc' = image
  /\ ran' = IF image.comm = comm THEN ran \cup {image.exe} ELSE ran
  /\ swapped' = (swapped \/ step = "exe")
  /\ UNCHANGED <<vars, step, call, comm, exe, verdict>>

-----------------------------------------------------------------------------
(* The handlers.                                                           *)

(* The network detector asks the CIDR list first.                          *)
LookUpAddr ==
  /\ step = "queued" /\ call.kind = Net
  /\ ReadCidrs
  /\ step' = IF InCidrs(Settings(cidrs).cidrs, call.addr) THEN "exempt" ELSE "comm"
  /\ UNCHANGED <<call, comm, exe, proc, verdict, ran, swapped>>

(* BpfLoaderDetector::handle drops what comes from the daemon's own tgid.  *)
FromOwn == call.kind = Loader /\ proc = Own

DropOwn ==
  /\ up /\ step = "queued" /\ FromOwn
  /\ Over("own")
  /\ UNCHANGED vars

AtComm == step = "comm" \/ (step = "queued" /\ call.kind # Net /\ ~FromOwn)

(* Faulty variant: the executable is read of whatever process there is.    *)
ReadCommUnverified ==
  /\ up /\ AtComm
  /\ step' = IF proc = Gone THEN "list" ELSE "exe"
  /\ UNCHANGED <<vars, call, comm, exe, proc, verdict, ran, swapped>>

(* /proc/<pid>/comm: another one, or none, and the executable is unknown.  *)
ReadComm ==
  /\ up /\ AtComm
  /\ step' = IF proc.comm # comm THEN "list" ELSE "exe"
  /\ UNCHANGED <<vars, call, comm, exe, proc, verdict, ran, swapped>>

(* /proc/<pid>/exe.                                                        *)
ReadExe ==
  /\ up /\ step = "exe"
  /\ exe' = proc.exe
  /\ step' = "list"
  /\ UNCHANGED <<vars, call, comm, proc, verdict, ran, swapped>>

(* The names of an executable that an entry may give.                      *)
ExeNames(e) == IF e = None THEN {} ELSE {e, FileName[e]}

(* The list of a configuration, as SharedAllowlist holds it.               *)
Compiled(c) == Build(AllowlistFor(Settings(c), call.kind))

Exempt(c) == IsAllowed(Compiled(c), comm, ExeNames(exe))

(* The network detector takes the allowlist's snapshot ...                 *)
LookUpProcess ==
  /\ step = "list" /\ call.kind = Net
  /\ ReadAllowlist
  /\ step' = IF Exempt(allow[Net]) THEN "exempt" ELSE "report"
  /\ UNCHANGED <<call, comm, exe, proc, verdict, ran, swapped>>

(* ... and its handler returns, with an alert or without.                  *)
Return ==
  /\ step \in {"exempt", "report"}
  /\ Judge
  /\ Over(IF step = "exempt" THEN "exempt" ELSE "reported")

Unruled(c) == c.kind \in FileKinds /\ Severity(c.kind, Visible(c.path)) = 0

(* The other detectors: the list first, then the rules, if it has some.    *)
Decide ==
  /\ up /\ step = "list" /\ call.kind # Net
  /\ Over(IF Exempt(allow[call.kind]) THEN "exempt"
          ELSE IF Unruled(call) THEN "unwatched" ELSE "reported")
  /\ UNCHANGED vars

Handler == \/ LookUpAddr \/ ReadComm \/ ReadExe \/ LookUpProcess \/ Return
           \/ Decide \/ DropOwn

Kernel == \/ \E c \in SysCall : Filter(c) \/ \E image \in Image \cup {Own} : Trace(c, image)
          \/ \E image \in Image \cup {Gone} : Become(image)

(* The rest of the daemon; an event in its hands is gone with the process. *)
Around == \/ (ReloadStep \/ Edit) /\ UNCHANGED event
          \/ Hangup /\ IF up' THEN UNCHANGED event ELSE Over(None)
          \/ Start /\ UNCHANGED event

DNext == Kernel \/ Handler \/ Around

DSpec == DInit /\ [][DNext]_dvars

(* The fairness of Reload.                                                 *)
DFairSpec == DSpec /\ WF_vars(ReloadStep)

-----------------------------------------------------------------------------
(* An event is let go by the allowlist in force only on the strength of a  *)
(* name of the comm that made the call, or of an executable that ran under *)
(* that comm and pid since, whatever becomes of the process and of its pid *)
(* meanwhile, unless they change between the two reads of /proc            *)
(* (util.rs:121-128: another process "can still slip through" by its comm, *)
(* never another comm).                                                    *)
Names == {comm} \cup UNION {ExeNames(e) : e \in ran}

Listed == AllowlistFor(Settings(allow[call.kind]), call.kind)

ListedNow(n) == \E e \in Listed : n \in e.names

ExemptionHasGround ==
  [][step = "list" /\ (verdict' = "exempt" \/ step' = "exempt")
       => swapped \/ \E n \in Names : ListedNow(n)]_dvars

(* And once a reload has put a configuration in force, a call by a name it *)
(* lists for the detector is let go, whatever else is on that list: only a *)
(* list too long for one set may lose entries (allowlist.rs:55-56, "Bad    *)
(* regex was already caught by Config::validate").                         *)
ListedIsExempt ==
  [][step = "list" /\ (verdict' \in {"unwatched", "reported"} \/ step' = "report")
       => \/ allow[call.kind] = first \/ ~HasList(Settings(allow[call.kind]), call.kind)
          \/ Cardinality({e \in Listed : e.rx}) > SetLimit
          \/ ~\E n \in {comm} \cup ExeNames(exe) : ListedNow(n)]_dvars

(* The three stages of a file detector agree with its rules: the prefix    *)
(* filter in the kernel lets all through that some rule matches, and the   *)
(* window of 32 bytes costs no report but of paths whose watched part is   *)
(* longer than it ("Long indirect paths", docs/threat-model.md:75; by      *)
(* cred.rs:86 they begin at a user name of nine bytes): where the path     *)
(* fits, what comes of it is what the rules say, and where a watched part  *)
(* of it fits, it is reported.                                             *)
OpenAgrees(kind, path) ==
  /\ Bytes(path) <= WindowBytes => OpenReport(kind, path) = Severity(kind, path)
  /\ Match(kind, path) > 0
       /\ (\E n \in 0 .. Len(path) : LET part == SubSeq(path, 1, n)
                                     IN  Match(kind, part) > 0 /\ Bytes(part) <= WindowBytes)
       => OpenReport(kind, path) > 0

OpensThatDiffer ==
  {open \in FileKinds \X Asked.paths : ~OpenAgrees(open[1], open[2])}

OpensAgree == up => OpensThatDiffer = {}

(* The ranges that network.bpf.c:36-43 names in its comments.              *)
Octets(b0, b1, len) == [addr |-> Shl(256 * b0 + b1)[AddrBits - 16], len |-> len]

PrivateRanges ==
  {Octets(127, 0, 8), Octets(10, 0, 8), Octets(172, 16, 12), Octets(192, 168, 16),
   Octets(169, 254, 16), Octets(100, 64, 10), Octets(224, 0, 4), Octets(240, 0, 4),
   Octets(0, 0, 8)}

LeadingBitsAgree(c, addr) ==
  LET rest == AddrBits - c.len IN Shr(addr)[rest] = Shr(c.addr)[rest]

(* The kernel's comparisons of octets leave out exactly the ranges they    *)
(* are commented with, and the mask arithmetic of the CIDR list compares   *)
(* leading bits, for every length, the empty and the full one included,    *)
(* and passes over an entry that is too long.                              *)
AddrAgrees(addr) == Private(addr) <=> InCidrs(PrivateRanges, addr)

CidrAgrees(c, addr) ==
  InCidrs({c}, addr) <=> c.len <= AddrBits /\ LeadingBitsAgree(c, addr)

AddrsThatDiffer ==
  {addr \in Asked.addrs : ~AddrAgrees(addr) \/ \E c \in Asked.cidrs : ~CidrAgrees(c, addr)}

DestinationsAgree == up => AddrsThatDiffer = {}

(* The numbers that the C programs put into an event and the Rust handlers *)
(* take out, which no header shares, agree, whatever the arguments of the  *)
(* call: setuid, setgid, unshare, setns, ptrace, process_vm_writev,        *)
(* init_module, finit_module and bpf.                                      *)
CallsThatDiffer == {c \in Asked.calls : ~CallAgrees(c)}

CallsAgree == up => CallsThatDiffer = {}
=============================================================================
