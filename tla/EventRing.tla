------------------------------ MODULE EventRing ------------------------------
(***************************************************************************)
(* From a tracepoint to the detector's handler: the BPF program of a       *)
(* detector (crates/kernelradar-bpf/src/*.bpf.c, one after the other the   *)
(* same: filter, count, reserve, fill in, submit), its counters            *)
(* (include/stats.h), and the drain loop that consumes the ring buffer     *)
(* (crates/kernelradar-detectors/src/runtime.rs run).                      *)
(*                                                                         *)
(* The program runs on several CPUs at once.  The kernel wakes the reader  *)
(* only for a record the reader had caught up with, and does so after the  *)
(* record is submitted; a record that is reserved and not yet submitted    *)
(* hides the ones behind it.  The runtime turns wake-ups into readiness,   *)
(* and clear_ready keeps readiness that arrived after the guard was taken. *)
(* Those three are the library's and the kernel's, and are here because    *)
(* the loop relies on them.                                                *)
(*                                                                         *)
(* Positions in the ring are counted in records.  The run of the program   *)
(* that dies with its process loses what it was doing.                     *)
(***************************************************************************)
EXTENDS Integers, FiniteSets

CONSTANTS
  Cpu,        \* CPUs that run the tracepoint program
  Capacity,   \* records that fit into the ring buffer
  MaxEvents,  \* bound: events observed while the detector runs
  MaxStarts   \* bound: starts of the detector

ASSUME EventRingAssumption ==
  /\ IsFiniteSet(Cpu)
  /\ Capacity \in Nat \ {0} /\ MaxEvents \in Nat /\ MaxStarts \in Nat

VARIABLES
  cpu,      \* cpu[c]: where the program is on c
  rec,      \* rec[c]: position of the record it has reserved
  prod,     \* producer position: where the next record goes
  cons,     \* consumer position: the record the reader reads next
  busy,     \* positions that are reserved and not submitted
  stats,    \* kr_stats: the OBSERVED and DROPPED slots
  woken,    \* the kernel has woken the ring's file descriptor
  ready,    \* AsyncFd's readiness
  renewed,  \* readiness came after the guard was taken
  task,     \* where the detector is in its loop
  handled,  \* history: events that the handler was called with
  starts    \* history: starts of the detector (for MaxStarts)

program == <<cpu, rec>>
ring == <<prod, cons, busy>>
reactor == <<woken, ready, renewed>>

vars == <<program, ring, stats, reactor, task, handled, starts>>

Init ==
  /\ cpu = [c \in Cpu |-> "idle"] /\ rec = [c \in Cpu |-> 0]
  /\ prod = 0 /\ cons = 0 /\ busy = {}
  /\ stats = [observed |-> 0, dropped |-> 0]
  /\ woken = FALSE /\ ready = FALSE /\ renewed = FALSE
  /\ task = "down"
  /\ handled = 0
  /\ starts = 0

-----------------------------------------------------------------------------
(* The tracepoint program on one CPU.                                      *)

(* An event passes the filter and is counted.                              *)
Observe(c) ==
  /\ task # "down" /\ cpu[c] = "idle"
  /\ stats.observed < MaxEvents
  /\ stats' = [stats EXCEPT !.observed = @ + 1]
  /\ cpu' = [cpu EXCEPT ![c] = "observed"]
  /\ UNCHANGED <<rec, ring, reactor, task, handled, starts>>

(* Faulty variant: an event that finds no room is not counted.             *)
ReserveSilently(c) ==
  /\ task # "down" /\ cpu[c] = "observed"
  /\ IF prod - cons < Capacity
     THEN /\ rec' = [rec EXCEPT ![c] = prod]
          /\ busy' = busy \cup {prod}
          /\ prod' = prod + 1
          /\ cpu' = [cpu EXCEPT ![c] = "filling"]
     ELSE /\ cpu' = [cpu EXCEPT ![c] = "idle"]
          /\ UNCHANGED <<rec, busy, prod>>
  /\ UNCHANGED <<cons, stats, reactor, task, handled, starts>>

(* bpf_ringbuf_reserve; without room the event is counted as dropped.      *)
Reserve(c) ==
  /\ task # "down" /\ cpu[c] = "observed"
  /\ IF prod - cons < Capacity
     THEN /\ rec' = [rec EXCEPT ![c] = prod]
          /\ busy' = busy \cup {prod}
          /\ prod' = prod + 1
          /\ cpu' = [cpu EXCEPT ![c] = "filling"]
          /\ UNCHANGED stats
     ELSE /\ stats' = [stats EXCEPT !.dropped = @ + 1]
          /\ cpu' = [cpu EXCEPT ![c] = "idle"]
          /\ UNCHANGED <<rec, busy, prod>>
  /\ UNCHANGED <<cons, reactor, task, handled, starts>>

(* bpf_ringbuf_submit: the record is complete ...                          *)
Submit(c) ==
  /\ task # "down" /\ cpu[c] = "filling"
  /\ busy' = busy \ {rec[c]}
  /\ cpu' = [cpu EXCEPT ![c] = "submitted"]
  /\ UNCHANGED <<rec, prod, cons, stats, reactor, task, handled, starts>>

(* ... and the reader is woken if this is the record it stands at.         *)
Notify(c) ==
  /\ task # "down" /\ cpu[c] = "submitted"
  /\ woken' = (woken \/ cons = rec[c])
  /\ cpu' = [cpu EXCEPT ![c] = "idle"]
  /\ UNCHANGED <<rec, ring, stats, ready, renewed, task, handled, starts>>

Program(c) == Reserve(c) \/ Submit(c) \/ Notify(c)

-----------------------------------------------------------------------------
(* The detector.                                                           *)

(* TracepointDetector::load and attach_tracepoint: new maps, counted from  *)
(* 0.                                                                      *)
Start ==
  /\ task = "down" /\ starts < MaxStarts
  /\ starts' = starts + 1
  /\ cpu' = [c \in Cpu |-> "idle"] /\ rec' = [c \in Cpu |-> 0]
  /\ prod' = 0 /\ cons' = 0 /\ busy' = {}
  /\ stats' = [observed |-> 0, dropped |-> 0]
  /\ woken' = FALSE /\ ready' = FALSE /\ renewed' = FALSE
  /\ handled' = 0
  /\ task' = "attached"

(* AsyncFd::with_interest looks at the ring once, whatever woke it before. *)
Register ==
  /\ task = "attached"
  /\ woken' = TRUE
  /\ task' = "waiting"
  /\ UNCHANGED <<program, ring, stats, ready, renewed, handled, starts>>

(* The reactor turns a wake-up into readiness, if there is anything in the *)
(* ring, submitted or not.                                                 *)
Readiness ==
  /\ task # "down" /\ woken
  /\ woken' = FALSE
  /\ ready' = (ready \/ prod > cons)
  /\ renewed' = (renewed \/ prod > cons)
  /\ UNCHANGED <<program, ring, stats, task, handled, starts>>

(* readable_mut gives a guard.                                             *)
Wake ==
  /\ task = "waiting" /\ ready
  /\ renewed' = FALSE
  /\ task' = "draining"
  /\ UNCHANGED <<program, ring, stats, woken, ready, handled, starts>>

(* There is a record, and it is complete.                                  *)
Readable == prod > cons /\ cons \notin busy

(* Faulty variant: one event is handled per wake-up.                       *)
HandleOne ==
  /\ task = "draining" /\ Readable
  /\ handled' = handled + 1
  /\ cons' = cons + 1
  /\ task' = "clearing"
  /\ UNCHANGED <<program, prod, busy, stats, reactor, starts>>

(* ring.next() and handle(&ev); the record is given back after the call.   *)
(* The programs reserve whole events, so none is too short to be handled.  *)
HandleNext ==
  /\ task = "draining" /\ Readable
  /\ handled' = handled + 1
  /\ cons' = cons + 1
  /\ UNCHANGED <<program, prod, busy, stats, reactor, task, starts>>

(* ring.next() is None: the loop ends.                                     *)
Drained ==
  /\ task = "draining" /\ ~Readable
  /\ task' = "clearing"
  /\ UNCHANGED <<program, ring, stats, reactor, handled, starts>>

(* guard.clear_ready().                                                    *)
ClearReady ==
  /\ task = "clearing"
  /\ ready' = renewed
  /\ task' = "waiting"
  /\ UNCHANGED <<program, ring, stats, woken, renewed, handled, starts>>

Drain == Wake \/ HandleNext \/ Drained \/ ClearReady

(* The process ends, with its maps and programs.                           *)
Stop ==
  /\ task # "down"
  /\ task' = "down"
  /\ UNCHANGED <<program, ring, stats, reactor, handled, starts>>

Step == Register \/ Readiness \/ Drain \/ \E c \in Cpu : Program(c)

Next == Start \/ Stop \/ Step \/ \E c \in Cpu : Observe(c)

Spec == Init /\ [][Next]_vars

(* Programs run to their end, and the runtime runs the reactor and every   *)
(* task that can go on.  Nothing obliges an event to happen or the process *)
(* to start or to stop.                                                    *)
FairSpec ==
  /\ Spec
  /\ WF_vars(Register) /\ WF_vars(Readiness) /\ WF_vars(Drain)
  /\ \A c \in Cpu : WF_vars(Program(c))
-----------------------------------------------------------------------------
TypeOK ==
  /\ cpu \in [Cpu -> {"idle", "observed", "filling", "submitted"}]
  /\ rec \in [Cpu -> Nat]
  /\ prod \in Nat /\ cons \in 0 .. prod /\ prod - cons <= Capacity
  /\ busy \subseteq cons .. prod - 1
  /\ stats \in [observed : Nat, dropped : Nat]
  /\ woken \in BOOLEAN /\ ready \in BOOLEAN /\ renewed \in BOOLEAN
  /\ task \in {"down", "attached", "waiting", "draining", "clearing"}
  /\ handled \in Nat /\ starts \in Nat

(* "Missed events still show up as kr_stats_<det>_dropped_total rather     *)
(* than as silent loss" (runtime.rs:79-81): while the detector runs, every *)
(* observed event is with the handler, in the ring, dropped and counted as *)
(* such, or in a program that has not reserved its record yet.             *)
LossIsCounted ==
  task # "down" =>
    stats.observed = handled + stats.dropped + (prod - cons)
                       + Cardinality({c \in Cpu : cpu[c] = "observed"})

(* The detector does not sleep over an event: while a record is there to   *)
(* be read and the loop waits, a wake-up is on its way, in the reactor, in *)
(* the kernel, or in the program that has yet to notify it.                *)
NoSleepOverWork ==
  (task = "waiting" /\ Readable) =>
     \/ ready \/ woken
     \/ \E c \in Cpu : cpu[c] = "submitted" /\ rec[c] = cons

(* Every event that got a record is handled, unless the detector goes down *)
(* first ("Tasks wake on epoll-ready", docs/architecture.md:205-206).      *)
EventsAreHandled ==
  \A n \in 1 .. MaxEvents : (prod >= n) ~> (handled >= n \/ task = "down")
=============================================================================
