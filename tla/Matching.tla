------------------------------ MODULE Matching ------------------------------
(***************************************************************************)
(* What the filters of kernelradar match: the BPF programs' on the 32      *)
(* bytes of a path they read (kernelradar-bpf/src/fim.bpf.c, cred.bpf.c)   *)
(* and on a destination (network.bpf.c), and the detectors' rules, CIDR    *)
(* lists and allowlists (kernelradar-detectors fim.rs, cred.rs, cidr.rs,   *)
(* allowlist.rs).                                                          *)
(*                                                                         *)
(* A path is a sequence of tokens, cut where some pattern of the code      *)
(* begins or ends; a token has a width in bytes, and so may be seen only   *)
(* in part.  An address is a word of AddrBits bits.                        *)
(***************************************************************************)
EXTENDS Validation, Sequences, SequencesExt, FiniteSetsExt, TLC

CONSTANT SetLimit  \* bound: how many patterns compile into one set

ASSUME MatchingAssumption == SetLimit \in Nat

(* The tokens by their width in bytes; the names are those of users and    *)
(* files, that no pattern gives and that begin with neither s nor g.  A    *)
(* token with a slash before other text is the first of its path.          *)
Tokens(width) ==
  CASE width = 1  -> {"/", "name1"}
    [] width = 2  -> {".."}
    [] width = 3  -> {".d/", "id_", "gh/", "name3"}
    [] width = 4  -> {"ssh/"}
    [] width = 5  -> {"/etc/", "/root", "/var/", "/srv/", "/tmp/", "/sys/", "/run/", ".ssh/", ".aws/",
                      "group"}
    [] width = 6  -> {"/home/", "/proc/", "shadow", "passwd", "pam.d/"}
    [] width = 7  -> {"sudoers", ".bashrc", "gshadow", "cron.d/", "init.d/"}
    [] width = 8  -> {".profile", ".config/", "systemd/", "name8"}
    [] width = 9  -> {"name9"}
    [] width = 11 -> {"credentials", "cron.daily/"}
    [] width = 12 -> {"cron.hourly/"}
    [] width = 15 -> {"authorized_keys"}
    [] width = 16 -> {"name16"}
    [] width = 17 -> {"name17"}
    [] width = 18 -> {"name18"}
    [] OTHER -> {}

Token == UNION {Tokens(width) : width \in 1 .. 18}

Width == [t \in Token |-> CHOOSE width \in 1 .. 18 : t \in Tokens(width)]

(* Tokens that end with a slash, and such as begin with s or g.            *)
Slashed == {"/", "/etc/", "/var/", "/home/", "/srv/", "/tmp/", "/sys/", "/run/", "/proc/",
            ".ssh/", ".aws/", ".config/", "ssh/", "gh/", ".d/", "pam.d/", "cron.d/",
            "cron.daily/", "cron.hourly/", "init.d/", "systemd/"}

SgFile == {"shadow", "gshadow", "group", "sudoers", "ssh/", "systemd/", "gh/"}

WindowBytes == 31  \* char path[32], with its NUL

-----------------------------------------------------------------------------
(* Paths.                                                                  *)

(* Where each of its tokens ends.                                          *)
Ends(path) ==
  LET end[i \in 0 .. Len(path)] == IF i = 0 THEN 0 ELSE end[i - 1] + Width[path[i]]
  IN  end

Bytes(path) == Ends(path)[Len(path)]

(* bpf_probe_read_user_str: the tokens that fit, and a mark for the part   *)
(* of the next one that fits too.                                          *)
Visible(path) ==
  IF Bytes(path) <= WindowBytes THEN path
  ELSE LET n == CHOOSE i \in 0 .. Len(path) - 1 :
                  /\ Bytes(SubSeq(path, 1, i)) <= WindowBytes
                  /\ Bytes(SubSeq(path, 1, i + 1)) > WindowBytes
           seen == SubSeq(path, 1, n)
       IN  IF Bytes(seen) = WindowBytes THEN seen ELSE Append(seen, "cut")

(* Faulty variant: the directories whose prefix ends without a slash are   *)
(* forgotten.                                                              *)
CandidateWithSlash(kind, path) ==
  /\ path # <<>>
  /\ \/ path[1] = "/home/"
     \/ path[1] = "/etc/" /\ (kind = "fim" \/ (Len(path) > 1 /\ path[2] \in SgFile))

(* is_sensitive_prefix and is_cred_candidate.                              *)
Candidate(kind, path) ==
  /\ path # <<>>
  /\ \/ path[1] \in {"/root", "/home/"}
     \/ path[1] = "/etc/" /\ (kind = "fim" \/ (Len(path) > 1 /\ path[2] \in SgFile))

(* contains_dotdot: a parent reference between slashes, or at the end of   *)
(* what was read, outside of the runtime and scratch directories.          *)
Dotdot(path) ==
  /\ path # <<>> /\ path[1] \notin {"/sys/", "/proc/", "/var/", "/tmp/", "/run/"}
  /\ \E i \in 2 .. Len(path) :
       /\ path[i - 1] \in Slashed /\ path[i] = ".."
       /\ i < Len(path) => path[i + 1] = "/"

(* The rule tables: the paths whose rules are critical, and those of the   *)
(* alerts.  The rules below /home come first.                              *)
Rules(critical, alerts) ==
  [p \in critical \cup alerts |-> IF p \in critical THEN 3 ELSE 2]

FimExact ==
  Rules({<<"/etc/", f>> : f \in {"shadow", "gshadow", "sudoers"}},
        {<<"/etc/", f>> : f \in {"passwd", "group"}}
          \cup {<<"/root", "/", f>> : f \in {".bashrc", ".profile"}})

FimPrefix ==
  Rules({<<"/etc/", "sudoers", ".d/">>, <<"/root", "/", ".ssh/">>},
        {<<"/etc/", d>> : d \in {"ssh/", "pam.d/", "cron.d/", "cron.daily/",
                                 "cron.hourly/", "init.d/", "systemd/"}})

CredExact ==
  Rules({<<"/etc/", f>> : f \in {"shadow", "gshadow"}},
        {<<"/root", "/", ".ssh/", "authorized_keys">>})

CredPrefix ==
  Rules({<<"/root", "/", ".ssh/", "id_">>},
        {<<"/root", "/", ".aws/">>, <<"/root", "/", ".config/", "gh/">>,
         <<"/etc/", "sudoers">>})

(* What follows /home/<user>/, where the user is all up to the next slash. *)
AfterUser(path) ==
  LET slashes == {i \in 2 .. Len(path) : path[i] \in Slashed}
  IN  IF slashes # {} /\ path[1] = "/home/"
      THEN SubSeq(path, Min(slashes) + 1, Len(path)) ELSE <<>>

HomeRule(kind, rest) ==
  IF kind = "fim"
  THEN IsPrefix(<<".ssh/">>, rest) \/ rest \in {<<".bashrc">>, <<".profile">>}
  ELSE IsPrefix(<<".ssh/", "id_">>, rest) \/ IsPrefix(<<".aws/", "credentials">>, rest)

(* match_path and match_cred: the severity of the rule that matches, or 0. *)
Match(kind, path) ==
  LET exact  == IF kind = "fim" THEN FimExact ELSE CredExact
      prefix == IF kind = "fim" THEN FimPrefix ELSE CredPrefix
      hits   == {exact[p] : p \in {q \in DOMAIN exact : q = path}}
                  \cup {prefix[p] : p \in {q \in DOMAIN prefix : IsPrefix(q, path)}}
  IN  IF HomeRule(kind, AfterUser(path)) THEN 3
      ELSE IF hits = {} THEN 0 ELSE Max(hits)

-----------------------------------------------------------------------------
(* Destinations.                                                           *)

(* Words of AddrBits bits: shifted down and up by any number of bits, of   *)
(* which those are lost that leave the word, and their bitwise and.        *)
Powers ==
  LET power[n \in 0 .. AddrBits] == IF n = 0 THEN 1 ELSE 2 * power[n - 1]
  IN  power

Word == Powers[AddrBits]

Shr(x) ==
  LET shifted[n \in 0 .. AddrBits] == IF n = 0 THEN x ELSE shifted[n - 1] \div 2
  IN  shifted

Double(x) == IF 2 * x < Word THEN 2 * x ELSE 2 * x - Word

Shl(x) ==
  LET shifted[n \in 0 .. AddrBits] == IF n = 0 THEN x ELSE Double(shifted[n - 1])
  IN  shifted

Both(a, b, i) == IF Shr(a)[i] % 2 = 1 /\ Shr(b)[i] % 2 = 1 THEN 1 ELSE 0

And(a, b) ==
  LET upper[n \in 0 .. AddrBits] ==
        IF n = 0 THEN 0 ELSE 2 * upper[n - 1] + Both(a, b, AddrBits - n)
  IN  upper[AddrBits]

(* Faulty variant: the last /16 of 172.16/12 is left out.                  *)
PrivateShort(addr) ==
  LET b0 == Shr(addr)[AddrBits - 8]
      b1 == Shr(addr)[AddrBits - 16] % 256
  IN  \/ b0 \in {0, 10, 127} \/ b0 >= 224
      \/ b0 = 172 /\ b1 >= 16 /\ b1 < 31
      \/ b0 = 192 /\ b1 = 168
      \/ b0 = 169 /\ b1 = 254
      \/ b0 = 100 /\ b1 >= 64 /\ b1 <= 127

(* is_private_ipv4, of the first two octets.                               *)
Private(addr) ==
  LET b0 == Shr(addr)[AddrBits - 8]
      b1 == Shr(addr)[AddrBits - 16] % 256
  IN  \/ b0 \in {0, 10, 127} \/ b0 >= 224
      \/ b0 = 172 /\ b1 >= 16 /\ b1 <= 31
      \/ b0 = 192 /\ b1 = 168
      \/ b0 = 169 /\ b1 = 254
      \/ b0 = 100 /\ b1 >= 64 /\ b1 <= 127

(* Cidr::parse of "addr/len".                                              *)
Parse(c) ==
  LET mask == IF c.len = 0 THEN 0 ELSE Shl(Word - 1)[AddrBits - c.len]
  IN  [network |-> And(c.addr, mask), mask |-> mask]

CidrContains(cidr, addr) == And(addr, cidr.mask) = cidr.network

(* parse_all and SharedCidrList::contains: what cannot be parsed is        *)
(* skipped.                                                                *)
InCidrs(items, addr) ==
  \E c \in items : Parsable(c) /\ CidrContains(Parse(c), addr)

-----------------------------------------------------------------------------
(* Allowlists.                                                             *)

(* The patterns go into one RegexSet, which has a limit of its size.       *)
SetCompiles(list) ==
  LET patterns == {e \in list : e.rx}
  IN  (\A e \in patterns : e.ok) /\ Cardinality(patterns) <= SetLimit

(* CompiledAllowlist::build: when the set does not compile, none of the    *)
(* patterns is in force.                                                   *)
Build(list) == {e \in list : e.rx => SetCompiles(list)}

(* is_allowed, for the comm and what is known of the executable: nothing,  *)
(* or its path and its file name.                                          *)
IsAllowed(compiled, comm, exe) ==
  \E e \in compiled : ({comm} \cup exe) \cap e.names # {}

-----------------------------------------------------------------------------
(* What an open of a path comes to, through the BPF filter and the rules,  *)
(* by a process on no list: a severity, or 0 for no report.  A parent      *)
(* reference is reported as it is.                                         *)
KernelPasses(kind, path) == Candidate(kind, path) \/ Dotdot(path)

Severity(kind, path) == IF Dotdot(path) THEN 3 ELSE Match(kind, path)

OpenReport(kind, path) ==
  IF KernelPasses(kind, Visible(path)) THEN Severity(kind, Visible(path)) ELSE 0
=============================================================================
