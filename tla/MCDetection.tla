---------------------------- MODULE MCDetection ----------------------------
(* Detection for TLC, with what MCMatching compares.                       *)
EXTENDS Detection, MCMatching

MCOrder == <<"bpf-loader", "fim", "network">>
MCKnown == {"bpf-loader", "fim", "network"}

(* Files, watched or not, a load of a program, and two destinations.       *)
MCSysCall ==
  {[kind |-> "fim", path |-> <<"/etc/", "shadow">>],
   [kind |-> "fim", path |-> <<"/etc/", "name3">>],
   [kind |-> "fim", path |-> <<"/srv/", "name3">>],
   [kind |-> "fim", path |-> <<"/srv/", "..">>],
   [kind |-> "bpf-loader", call |-> "bpf", cmd |-> 5],
   [kind |-> "network", addr |-> Octets(8, 5, 0).addr],
   [kind |-> "network", addr |-> Octets(10, 0, 0).addr]}

(* The caller, what it may execute under its name, and a listed stranger.  *)
MCImage ==
  {[comm |-> "sh", exe |-> "/bin/sh"], [comm |-> "sh", exe |-> "/opt/sh"],
   [comm |-> "apt", exe |-> "/usr/bin/apt"]}

MCOwn == [comm |-> "tokio-rt-worker", exe |-> "/usr/bin/kernelradar"]

MCFileName == "/bin/sh" :> "sh" @@ "/opt/sh" :> "sh" @@ "/usr/bin/apt" :> "apt"

Name(n) == [rx |-> FALSE, ok |-> TRUE, names |-> {n}]
Pattern(ns) == [rx |-> TRUE, ok |-> TRUE, names |-> ns]
BadPattern == [rx |-> TRUE, ok |-> FALSE, names |-> {}]
Section(list) == [enabled |-> TRUE, list |-> list]

MCFallback == {Name("apt")}

(* A file that says nothing, and files that say more.                      *)
MCDefaults ==
  [format |-> "auto", level |-> "info",
   alpha |-> [finite |-> TRUE, cents |-> 10], score |-> [finite |-> TRUE, cents |-> 300],
   webhook |-> [enabled |-> FALSE, url |-> "", private |-> FALSE, timeout |-> 5],
   exporter |-> [enabled |-> FALSE, addr |-> "127.0.0.1"],
   number |-> [s \in Positive |-> 1], detectors |-> <<>>, cidrs |-> {}]

Says(sections, nets) == [MCDefaults EXCEPT !.detectors = sections, !.cidrs = nets]

(* First a file with a bad pattern and a bad CIDR, which nothing validates *)
(* at the start, or a detector disabled; then patterns and a network, or   *)
(* the bad file as an edit; then a list too long for one set, a number of  *)
(* zero, a section of no detector, or a text that does not parse.          *)
MCTextOf ==
  0 :> {"unchecked", "disabled"} @@ 1 :> {"patterns", "unchecked"} @@ 2 :> {"long", "zero", "unknown", "broken"}

MCParsed ==
  [unchecked |-> Says("fim" :> Section({Name("apt"), BadPattern, Pattern({"/opt/sh"})}),
                      {Octets(8, 0, 8), Octets(10, 0, AddrBits + 1)}),
   disabled |-> Says("network" :> [enabled |-> FALSE, list |-> {}], {}),
   patterns |-> Says([d \in {"fim", "network"} |->
                        Section({Name("/bin/sh"), Pattern({"apt", "/usr/bin/apt"})})],
                     {Octets(8, 0, 8)}),
   zero |-> [MCDefaults EXCEPT !.number["keys_max"] = 0],
   long |-> Says("bpf-loader" :> Section({Pattern({n}) : n \in {"/opt/sh", "/bin/sh", "apt"}}), {}),
   unknown |-> Says("flow" :> Section({Name("sh")}), {Octets(0, 0, 0)})]

(* The calls that are watched, and calls like them.                        *)
MCCall ==
  [kind : {"privesc"}, call : {"setuid", "setgid"}, from : {0, 1, 1000}, to : {0, 1000}]
    \cup [kind : {"container"}, call : {"unshare"},
          flags : {{f} : f \in NsFlags} \cup {{}, {"FILES"}, {"FILES", "NEWNS"}}]
    \cup [kind : {"container"}, call : {"setns"}, flags : {{}}]
    \cup {[kind |-> "injection", call |-> n, request |-> Requests[n]] : n \in DOMAIN Requests}
    \cup [kind : {"injection"}, call : {"PTRACE_PEEKTEXT", "PTRACE_CONT"}, request : {1, 3, 7, 17}]
    \cup [kind : {"injection"}, call : {Writev}, request : {0}]
    \cup [kind : {"kmod"}, call : {"init_module", "finit_module"}]
    \cup [kind : {"bpf-loader"}, call : {"bpf"}, cmd : {0, 4, ProgLoad, 6}]

MCAsked == [calls |-> MCCall, paths |-> MCPath, addrs |-> MCAddr, cidrs |-> MCCidr]
=============================================================================
