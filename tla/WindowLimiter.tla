--------------------------- MODULE WindowLimiter ---------------------------
(***************************************************************************)
(* What the alert rate limiter of kernelradar promises, without the        *)
(* machinery of crates/kernelradar-detectors/src/dedup.rs: per key, a      *)
(* fixed ("tumbling") window that opens at the first event seen after the  *)
(* previous one ended, and that admits at most WindowMax events.  There is *)
(* no burst detection, no backoff and no eviction policy: the limiter may  *)
(* forget any other key whenever it is asked about one.                    *)
(***************************************************************************)
EXTENDS Integers

CONSTANTS
  Key,         \* (detector, comm, event_type) triples
  Window,      \* length of the window, in clock ticks
  WindowMax    \* admissions per key and window

VARIABLES
  now,         \* the monotonic clock
  win,         \* open windows: a function from the remembered keys
  admitted     \* whether the last request was admitted

wvars == <<now, win, admitted>>

WInit ==
  /\ now = 0
  /\ win = [k \in {} |-> [start |-> 0, count |-> 0]]
  /\ admitted = FALSE

(* Time moves forward, by any amount. *)
Advance ==
  /\ now' \in Nat
  /\ now' >= now
  /\ UNCHANGED <<win, admitted>>

(* The window of k as a request finds it: opened now if there is none or   *)
(* if the previous one is over.                                            *)
Current(k) ==
  IF k \in DOMAIN win /\ now - win[k].start < Window
  THEN win[k]
  ELSE [start |-> now, count |-> 0]

(* A request for k, which may make the limiter forget other keys.          *)
Request(k) ==
  /\ UNCHANGED now
  /\ admitted' = (Current(k).count < WindowMax)
  /\ \E kept \in SUBSET (DOMAIN win \ {k}) :
       win' = [x \in kept \cup {k} |->
                 IF x # k THEN win[x]
                 ELSE IF Current(k).count < WindowMax
                      THEN [Current(k) EXCEPT !.count = @ + 1]
                      ELSE Current(k)]

WNext == Advance \/ \E k \in Key : Request(k)

WSpec == WInit /\ [][WNext]_wvars
=============================================================================
