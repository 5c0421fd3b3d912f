----------------------------- MODULE Validation -----------------------------
(***************************************************************************)
(* Configurations (crates/kernelradar-core/src/config.rs): what they say,  *)
(* which of them Config::validate finds no issue with, and what the daemon *)
(* takes from one for a detector.                                          *)
(*                                                                         *)
(* A configuration is what its file says after parsing, with the defaults  *)
(* of what it leaves out:                                                  *)
(*   format, level   the output format and the log filter                  *)
(*   webhook         [enabled, url, private, timeout]; a url is "", or     *)
(*                   one the address guard objects to, or another          *)
(*   exporter        [enabled, addr]                                       *)
(*   number          the settings that must be positive                    *)
(*   alpha, score    the two floats: [finite, cents]                       *)
(*   detectors       detectors[d], for the sections there are: [enabled,   *)
(*                   list], where the entries of a list are [rx, ok,       *)
(*                   names]: whether it is a pattern between slashes and   *)
(*                   compiles, and the names it matches                    *)
(*   cidrs           destinations: [addr, len]; one that is malformed      *)
(*                   has more bits than an address                         *)
(***************************************************************************)
EXTENDS Integers, FiniteSets

CONSTANTS
  AddrBits, \* the bits of an IPv4 address: 32 in the code
  Known,    \* the detectors that validate knows
  Guarded,  \* the urls that need allow_private_destinations
  Fallback  \* the list of the command line, for detectors without one

ASSUME AddrAssumption == AddrBits \in Nat /\ AddrBits >= 16

Formats == {"auto", "plain", "json", "journald", "falco"}

(* "filter" stands for any text with an '=' or a ','.                      *)
Levels == {"trace", "debug", "info", "warn", "error", "off", "filter"}

Positive ==
  {"learning_secs", "save_interval_secs", "pairs_max", "keys_max",
   "window_secs", "burst_window_secs"}

-----------------------------------------------------------------------------
(* Config::validate finds no issue.                                        *)

WebhookOk(w) ==
  w.enabled => w.url # "" /\ (w.url \in Guarded => w.private) /\ w.timeout > 0

(* Comparisons with NaN are false, so the floats are asked to be finite.   *)
NumbersOk(t) ==
  /\ \A s \in Positive : t.number[s] > 0
  /\ t.alpha.finite /\ t.alpha.cents \in 1 .. 100
  /\ t.score.finite /\ t.score.cents > 0

(* Regex::new of every entry between slashes, by itself.                   *)
PatternsOk(t) ==
  \A d \in DOMAIN t.detectors : \A e \in t.detectors[d].list : e.rx => e.ok

(* is_valid_ipv4_cidr.                                                     *)
CidrsOk(t) == \A c \in t.cidrs : c.len <= AddrBits

(* Faulty variant: the sections are taken for what they say they are.      *)
ValidOfAnyDetector(t) ==
  /\ t.format \in Formats /\ t.level \in Levels
  /\ WebhookOk(t.webhook)
  /\ t.exporter.enabled => t.exporter.addr # ""
  /\ PatternsOk(t) /\ CidrsOk(t) /\ NumbersOk(t)

Valid(t) ==
  /\ t.format \in Formats /\ t.level \in Levels
  /\ WebhookOk(t.webhook)
  /\ t.exporter.enabled => t.exporter.addr # ""
  /\ DOMAIN t.detectors \subseteq Known
  /\ PatternsOk(t) /\ CidrsOk(t) /\ NumbersOk(t)

-----------------------------------------------------------------------------
(* What is taken from a configuration, valid or not.                       *)

(* allowlist_for: an empty list is none.                                   *)
HasList(t, d) == d \in DOMAIN t.detectors /\ t.detectors[d].list # {}

AllowlistFor(t, d) == IF HasList(t, d) THEN t.detectors[d].list ELSE Fallback

(* A detector without a section is enabled.                                *)
DetectorEnabled(t, d) == d \in DOMAIN t.detectors => t.detectors[d].enabled

(* Cidr::parse makes something of an entry.                                *)
Parsable(c) == c.len <= AddrBits
=============================================================================
