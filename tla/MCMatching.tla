----------------------------- MODULE MCMatching -----------------------------
(* What Matching comes to, compared with what the rules, the comments and  *)
(* the notation of CIDRs say, over all the paths that its tokens make      *)
(* below the directories the filters know, with users on both sides of     *)
(* every length that the window of 32 bytes decides.                       *)
EXTENDS Matching

Users == {"name1", "name3", "name8", "name9", "name16", "name17", "name18"}

Tails ==
  {<<>>, <<".bashrc">>, <<".bashrc", "name3">>, <<".profile">>, <<".ssh/">>,
   <<".ssh/", "id_", "name3">>, <<".ssh/", "authorized_keys">>, <<".aws/", "credentials">>,
   <<".config/", "gh/", "name3">>, <<"..">>, <<"..", "/", "shadow">>, <<"name3">>}

EtcFiles ==
  {<<"shadow">>, <<"shadow", "name3">>, <<"gshadow">>, <<"group">>, <<"passwd">>,
   <<"sudoers">>, <<"sudoers", ".d/", "name3">>, <<"ssh/", "name3">>,
   <<"pam.d/", "name3">>, <<"gh/", "name3">>, <<"systemd/", "name3">>,
   <<"cron.hourly/", "name18">>, <<"..">>, <<"name3">>}

MCPath ==
  {<<"/etc/">> \o f : f \in EtcFiles}
    \cup {<<top>> \o t : top \in {"/srv/", "/var/", "/root"}, t \in Tails}
    \cup {<<"/root", "/">> \o t : t \in Tails}
    \cup {<<"/home/", u>> \o t : u \in Users, t \in {<<>>, <<".bashrc">>}}
    \cup {<<"/home/", u, "/">> \o t : u \in Users, t \in Tails}
    \cup {<<"/home/">> \o u \o t :
            u \in {<<"/">>, <<".ssh/">>, <<"name3", ".aws/">>, <<"name8", "name9", "/">>},
            t \in Tails}

(* The first two octets on both sides of every limit, and the first and    *)
(* the last address that begins with them.                                 *)
MCAddr ==
  {Shl(256 * b[1] + b[2])[AddrBits - 16] + low :
     b \in {0, 8, 10, 11, 100, 127, 128, 169, 172, 192, 223, 224, 239, 240, 255}
             \X {0, 15, 16, 31, 32, 63, 64, 127, 128, 167, 168, 254, 255},
     low \in {0, Powers[AddrBits - 16] - 1}}

MCCidr ==
  {[addr |-> Shl(a)[AddrBits - 16], len |-> l] :
     a \in {0, 2053, 43264, 44048, 49320, 65535}, l \in 0 .. AddrBits + 1}
=============================================================================
