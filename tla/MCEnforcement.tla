---------------------------- MODULE MCEnforcement ----------------------------
(* Enforcement for TLC: lists with an entry that is refused in front of    *)
(* the others, one of them larger than its map.                            *)
EXTENDS Enforcement

MCAllowlist ==
  [h \in CommHook |-> IF h = "bpf" THEN <<"", "kernelradar", "bpftrace">>
                                   ELSE <<"modprobe", "a name too long", "kmod", "insmod">>]

MCUsable ==
  {"kernelradar", "bpftrace", "modprobe", "kmod", "insmod", "tokio-rt-worker"}

MCEntry == MCUsable \cup {"", "a name too long"}
=============================================================================
