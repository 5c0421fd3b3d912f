------------------------------- MODULE Permits -------------------------------
(***************************************************************************)
(* The two outlets of kernelradar that talk to strangers, each behind a    *)
(* semaphore and a timeout.  The webhook                                   *)
(* (crates/kernelradar-detectors/src/webhook.rs): submit is called by the  *)
(* detectors' threads, once per alert, and never waits; the delivery is a  *)
(* task of its own, and the collector may answer or say nothing.  The      *)
(* metrics exporter (prometheus.rs spawn_server): a loop accepts, a task   *)
(* per connection reads once, renders and writes, and the client may send  *)
(* nothing, hang up, read nothing and come back.  A permit must come back  *)
(* on every way out.                                                       *)
(*                                                                         *)
(* Time is counted in ticks and stands still while a timer is due: timers  *)
(* are as punctual as the runtime.  A connection is accepted in the step   *)
(* in which it arrives; failures of accept() are skipped by the loop.      *)
(***************************************************************************)
EXTENDS Integers, FiniteSets

CONSTANTS
  AlertId,     \* alerts handed to submit
  Conn,        \* clients of the exporter
  MaxInflight, \* permits: MAX_INFLIGHT and MAX_INFLIGHT_REQUESTS, by outlet
  Timeout      \* timeout_secs, which may be 0 and is over at once then,
               \* and REQUEST_READ_TIMEOUT, by outlet

Outlet == {"webhook", "exporter"}
User == AlertId \cup Conn

ASSUME PermitsAssumption ==
  /\ IsFiniteSet(User) /\ AlertId \cap Conn = {}
  /\ MaxInflight \in [Outlet -> Nat \ {0}] /\ Timeout \in [Outlet -> Nat]

VARIABLES
  at,      \* at[u]: how far an alert or a connection has come
  permits, \* permits[o]: what is left of the semaphore
  age,     \* age[u]: ticks since its present deadline was set
  held     \* history: ticks since its first deadline was set; both are 0
           \* before and after

vars == <<at, permits, age, held>>

OutletOf(u) == IF u \in AlertId THEN "webhook" ELSE "exporter"

Init ==
  /\ at = [u \in User |-> IF u \in AlertId THEN "new" ELSE "closed"]
  /\ permits = MaxInflight
  /\ age = [u \in User |-> 0] /\ held = age

To(u, stage) == at' = [at EXCEPT ![u] = stage]

(* try_acquire_owned.                                                      *)
Take(u) ==
  /\ permits[OutletOf(u)] > 0
  /\ permits' = [permits EXCEPT ![OutletOf(u)] = @ - 1]

Give(u) == permits' = [permits EXCEPT ![OutletOf(u)] = @ + 1]

-----------------------------------------------------------------------------
(* submit.                                                                 *)

(* Disabled, or below the severity that is forwarded.                      *)
Filter(a) == at[a] = "new" /\ To(a, "filtered") /\ UNCHANGED <<permits, age, held>>

Admit(a) == at[a] = "new" /\ To(a, "admitted") /\ Take(a) /\ UNCHANGED <<age, held>>

(* Faulty variant: an alert that cannot be serialised keeps its permit.    *)
SerialiseKeeps(a) ==
  /\ at[a] = "admitted"
  /\ \E stage \in {"spawned", "over"} : To(a, stage)
  /\ UNCHANGED <<permits, age, held>>

(* serde_json::to_string, and the task; or drop(permit).                   *)
Serialise(a) ==
  /\ at[a] = "admitted"
  /\ \/ To(a, "spawned") /\ UNCHANGED permits
     \/ To(a, "over") /\ Give(a)
  /\ UNCHANGED <<age, held>>

(* send, which has the client's timeout.                                   *)
Send(a) ==
  /\ at[a] = "spawned" /\ To(a, "sending")
  /\ UNCHANGED <<permits, age, held>>

-----------------------------------------------------------------------------
(* The exporter.                                                           *)

Outside(c) == at[c] \in {"closed", "refused"}

Accept(c) ==
  /\ Outside(c) /\ To(c, "reading") /\ Take(c)
  /\ UNCHANGED <<age, held>>

(* Faulty variant: the read goes on, and every piece renews its deadline.  *)
RequestByPieces(c) ==
  /\ at[c] = "reading"
  /\ \E stage \in {"reading", "writing"} : To(c, stage)
  /\ age' = [age EXCEPT ![c] = 0]
  /\ UNCHANGED <<permits, held>>

(* Something was read; the write of the response has a new deadline.       *)
Request(c) ==
  /\ at[c] = "reading" /\ To(c, "writing")
  /\ age' = [age EXCEPT ![c] = 0]
  /\ UNCHANGED <<permits, held>>

-----------------------------------------------------------------------------
(* Both.                                                                   *)

(* Over the cap: the alert or the stream is dropped.                       *)
Refuse(u) ==
  /\ permits[OutletOf(u)] = 0
  /\ \/ at[u] = "new" /\ To(u, "dropped")
     \/ u \in Conn /\ Outside(u) /\ To(u, "refused")
  /\ UNCHANGED <<permits, age, held>>

Timed == {u \in User : at[u] \in {"sending", "reading", "writing"}}

(* An answer, the end of a response, a hang-up, or an error.               *)
Finish(u) == u \in Timed /\ To(u, "leaving") /\ UNCHANGED <<permits, age, held>>

Due(u) == u \in Timed /\ age[u] >= Timeout[OutletOf(u)]

(* Faulty variant: a response may take as long as it likes to be read.     *)
ExpireExceptWrites(u) ==
  Due(u) /\ at[u] # "writing" /\ To(u, "leaving") /\ UNCHANGED <<permits, age, held>>

(* One of the timeouts.                                                    *)
Expire(u) == Due(u) /\ To(u, "leaving") /\ UNCHANGED <<permits, age, held>>

(* drop(permit).                                                           *)
Leave(u) ==
  /\ at[u] = "leaving" /\ To(u, IF u \in AlertId THEN "over" ELSE "closed")
  /\ Give(u)
  /\ age' = [age EXCEPT ![u] = 0] /\ held' = [held EXCEPT ![u] = 0]

Tick ==
  /\ Timed # {} /\ \A u \in User : ~Due(u)
  /\ age' = [u \in User |-> IF u \in Timed THEN age[u] + 1 ELSE age[u]]
  /\ held' = [u \in User |-> IF u \in Timed THEN held[u] + 1 ELSE held[u]]
  /\ UNCHANGED <<at, permits>>

Next ==
  \/ \E a \in AlertId : Filter(a) \/ Admit(a) \/ Serialise(a) \/ Send(a)
  \/ \E c \in Conn : Accept(c) \/ Request(c)
  \/ \E u \in User : Refuse(u) \/ Finish(u) \/ Expire(u) \/ Leave(u)
  \/ Tick

(* The runtime runs what has begun and fires its timers, and time passes;  *)
(* collectors and clients need not do anything.                            *)
Spec ==
  /\ Init /\ [][Next]_vars
  /\ WF_vars(Tick)
  /\ \A a \in AlertId : WF_vars(Serialise(a)) /\ WF_vars(Send(a))
  /\ \A u \in User : WF_vars(Expire(u)) /\ WF_vars(Leave(u))

-----------------------------------------------------------------------------
TypeOK ==
  /\ at \in [User -> {"new", "filtered", "dropped", "admitted", "spawned",
                      "sending", "over", "closed", "refused", "reading",
                      "writing", "leaving"}]
  /\ permits \in [Outlet -> Nat]
  /\ \A o \in Outlet : permits[o] <= MaxInflight[o]
  /\ age \in [User -> Nat] /\ held \in [User -> Nat]

Holders(o) ==
  {u \in User : /\ OutletOf(u) = o
                /\ at[u] \in {"admitted", "spawned", "sending", "reading",
                              "writing", "leaving"}}

(* Whatever a collector or a client does or does not do, it costs a permit *)
(* for one timeout, or two for a connection that reads and writes          *)
(* (prometheus.rs:26-28, 105-106).                                         *)
HeldBounded ==
  \A u \in User : held[u] <= (IF u \in Conn THEN 2 ELSE 1) * Timeout[OutletOf(u)]

(* The refinement mapping: who holds a permit and who was turned away.     *)
Refused == {u \in User : at[u] \in {"dropped", "refused"}}

WebhookPool == INSTANCE PermitPool
  WITH User <- AlertId, Permits <- MaxInflight["webhook"],
       holders <- Holders("webhook"), refused <- Refused \cap AlertId

ExporterPool == INSTANCE PermitPool
  WITH User <- Conn, Permits <- MaxInflight["exporter"],
       holders <- Holders("exporter"), refused <- Refused \cap Conn

(* Never more than the cap are served at once, and one is refused only     *)
(* while that many others are, so no way out of a delivery or a connection *)
(* loses a permit (webhook.rs:20-24, prometheus.rs:31-33): each outlet is  *)
(* a pool of permits.                                                      *)
OutletsArePools == WebhookPool!PSpec /\ ExporterPool!PSpec

(* However many collectors and clients hang, each outlet has room again    *)
(* and again.                                                              *)
RoomAgain == \A o \in Outlet : []<>(permits[o] > 0)
=============================================================================
