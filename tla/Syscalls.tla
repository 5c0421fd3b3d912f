------------------------------ MODULE Syscalls ------------------------------
(***************************************************************************)
(* The detectors whose filter is a few comparisons: privesc, container,    *)
(* injection, kmod and bpf-loader.  The BPF program on the tracepoint      *)
(* (crates/kernelradar-bpf/src/*.bpf.c) makes an event of a call, or none; *)
(* the handler (crates/kernelradar-detectors/src/*.rs) has only the        *)
(* numbers in the event to say what the call was.                          *)
(*                                                                         *)
(* A call is [kind, call] and what its program looks at: from and to, the  *)
(* ids before and after; flags, a set of names; request; cmd.  A ptrace    *)
(* goes by the name of its request.                                        *)
(***************************************************************************)
EXTENDS Integers

Warning == 1
Alert == 2
Critical == 3

(* data is the first word of the payload, where the handler looks at it.   *)
EventOf(type, severity, data) == [type |-> type, severity |-> severity, data |-> data]
Event(type, severity) == EventOf(type, severity, 0)

-----------------------------------------------------------------------------
(* The programs: the events of a call, at most one.                        *)

(* kr_tp_setuid and kr_tp_setgid: root gained by one who is not root.      *)
PrivescEvents(c) ==
  IF c.to = 0 /\ c.from # 0 THEN {Event(IF c.call = "setuid" THEN 1 ELSE 2, Alert)} ELSE {}

NsFlags == {"NEWNS", "NEWUSER", "NEWPID", "NEWNET", "NEWIPC", "NEWUTS", "NEWCGROUP"}

ContainerEvents(c) ==
  IF c.call = "setns" THEN {Event(2, Warning)}
  ELSE IF c.flags \cap NsFlags # {} THEN {Event(1, Warning)} ELSE {}

AttachRequests == {16, 16902}  \* PTRACE_ATTACH, PTRACE_SEIZE
PokeRequests == 4 .. 6         \* PTRACE_POKETEXT, _POKEDATA, _POKEUSER

Writev == "process_vm_writev"

(* Faulty variant: the event of a poke is that of a write.                 *)
InjectionEventsMixed(c) ==
  IF c.call = Writev THEN {Event(3, Critical)}
  ELSE IF c.request \in AttachRequests THEN {EventOf(1, Alert, c.request)}
  ELSE IF c.request \in PokeRequests THEN {EventOf(3, Critical, c.request)} ELSE {}

InjectionEvents(c) ==
  IF c.call = Writev THEN {Event(3, Critical)}
  ELSE IF c.request \in AttachRequests THEN {EventOf(1, Alert, c.request)}
  ELSE IF c.request \in PokeRequests THEN {EventOf(2, Critical, c.request)} ELSE {}

KmodEvents(c) ==
  {IF c.call = "init_module" THEN Event(2, Alert) ELSE Event(1, Warning)}

ProgLoad == 5

LoaderEvents(c) == IF c.cmd = ProgLoad THEN {Event(1, Warning)} ELSE {}

SyscallEvents(c) ==
  CASE c.kind = "privesc"    -> PrivescEvents(c)
    [] c.kind = "container"  -> ContainerEvents(c)
    [] c.kind = "injection"  -> InjectionEvents(c)
    [] c.kind = "kmod"       -> KmodEvents(c)
    [] c.kind = "bpf-loader" -> LoaderEvents(c)

-----------------------------------------------------------------------------
(* The handlers: what the alert of an event calls the call.  All of them   *)
(* but one report whatever event they are given.                           *)

PrivescTitles(e) == {IF e.type = 1 THEN "setuid" ELSE "setgid"}

ContainerTitles(e) == {IF e.type = 1 THEN "unshare" ELSE "setns"}

RequestName(request) ==
  CASE request = 4 -> "PTRACE_POKETEXT" [] request = 5 -> "PTRACE_POKEDATA"
    [] request = 6 -> "PTRACE_POKEUSER" [] request = 16 -> "PTRACE_ATTACH"
    [] request = 16902 -> "PTRACE_SEIZE" [] OTHER -> "PTRACE_OTHER"

(* `_ => return`: an event of another type is dropped.                     *)
InjectionTitles(e) ==
  CASE e.type \in {1, 2} -> {RequestName(e.data)}
    [] e.type = 3 -> {Writev}
    [] OTHER -> {}

KmodTitles(e) == {IF e.type = 2 THEN "init_module" ELSE "finit_module"}

LoaderTitles(e) == {"bpf"}

Titles(kind, e) ==
  CASE kind = "privesc"    -> PrivescTitles(e)
    [] kind = "container"  -> ContainerTitles(e)
    [] kind = "injection"  -> InjectionTitles(e)
    [] kind = "kmod"       -> KmodTitles(e)
    [] kind = "bpf-loader" -> LoaderTitles(e)

(* make_alert: a severity beyond the last one is the last.                 *)
Graded(severity) == IF severity < Critical THEN severity ELSE Critical

AlertOf(title, severity) == [title |-> title, severity |-> severity]

(* The alerts of a call, on its way through the program and the handler.   *)
Alerts(c) ==
  UNION {{AlertOf(title, Graded(e.severity)) : title \in Titles(c.kind, e)} :
           e \in SyscallEvents(c)}

-----------------------------------------------------------------------------
(* The calls there are, and which of them are watched.                     *)

(* ptrace(2): the requests to attach to a process and to write to it.      *)
Requests ==
  [PTRACE_POKETEXT |-> 4, PTRACE_POKEDATA |-> 5, PTRACE_POKEUSER |-> 6,
   PTRACE_ATTACH |-> 16, PTRACE_SEIZE |-> 16902]

Call ==
  [kind : {"privesc"}, call : {"setuid", "setgid"}, from : Nat, to : Nat]
    \cup [kind : {"container"}, call : {"unshare", "setns"}, flags : SUBSET STRING]
    \cup {c \in [kind : {"injection"}, call : STRING \ {Writev}, request : Int] :
            \A n \in DOMAIN Requests : c.call = n <=> c.request = Requests[n]}
    \cup [kind : {"injection"}, call : {Writev}, request : {0}]
    \cup [kind : {"kmod"}, call : {"init_module", "finit_module"}]
    \cup [kind : {"bpf-loader"}, call : {"bpf"}, cmd : Int]

(* README.md:254-260.                                                      *)
Watches(c) ==
  CASE c.kind = "privesc"    -> c.from # 0 /\ c.to = 0
    [] c.kind = "container"  -> c.call = "setns" \/ c.flags \cap NsFlags # {}
    [] c.kind = "injection"  -> c.call \in DOMAIN Requests \cup {Writev}
    [] c.kind = "kmod"       -> TRUE
    [] c.kind = "bpf-loader" -> c.cmd = ProgLoad

(* The severities that a call may be reported with: those of privesc and  *)
(* container are in docs/integrations/prometheus.md:29-31, that of a       *)
(* module from memory in kmod.bpf.c:52; nothing is said of the others.     *)
Stated(c) ==
  CASE c.kind = "privesc" \/ c.call = "init_module" -> {Alert}
    [] c.kind = "container" -> {Warning}
    [] OTHER -> {Warning, Alert, Critical}

(* A watched call is reported, once, under its own name and with a         *)
(* severity that is stated of it, and no other is.                         *)
CallAgrees(c) ==
  IF Watches(c) THEN \E severity \in Stated(c) : Alerts(c) = {AlertOf(c.call, severity)}
  ELSE Alerts(c) = {}
=============================================================================
