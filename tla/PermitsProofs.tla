--------------------------- MODULE PermitsProofs ---------------------------
(***************************************************************************)
(* Proofs about Permits for any number of alerts and connections, any caps *)
(* and any timeouts.  Every step but the passage of time moves one alert   *)
(* or one connection to its next stage, so what a step does to the two     *)
(* pools is said once, of such a move (Move).  HeldBounded is not          *)
(* inductive as it stands: how long a permit may still be held depends on  *)
(* the deadline that is running (AgeKept).                                 *)
(***************************************************************************)
EXTENDS Permits, FiniteSetTheorems, TLAPS

Users(o) == {u \in User : OutletOf(u) = o}

Turned(o) == Refused \cap Users(o)

Holding == {"admitted", "spawned", "sending", "reading", "writing", "leaving"}

(* Alerts and connections go through stages of their own.                  *)
StagesKept ==
  /\ \A a \in AlertId : at[a] \in {"new", "filtered", "dropped", "admitted",
                                   "spawned", "sending", "leaving", "over"}
  /\ \A c \in Conn : at[c] \in {"closed", "refused", "reading", "writing",
                                "leaving"}

(* No permit is lost and none is made.                                     *)
PermitsCounted ==
  \A o \in Outlet : permits[o] + Cardinality(Holders(o)) = MaxInflight[o]

(* The clocks of a user at a stage: a is its age, h how long it was timed. *)
AgeKept(u, stage, a, h) ==
  LET T == Timeout[OutletOf(u)]
  IN  /\ a <= T
      /\ stage \in {"sending", "reading"} => h <= a
      /\ stage = "writing" => h <= T + a
      /\ stage = "leaving" => h <= (IF u \in Conn THEN 2 ELSE 1) * T
      /\ stage \notin {"sending", "reading", "writing", "leaving"} => a = 0 /\ h = 0

AgesKept == \A u \in User : AgeKept(u, at[u], age[u], held[u])

(* The inductive invariant.                                                *)
IInv == TypeOK /\ StagesKept /\ PermitsCounted /\ AgesKept

LEMMA Constants ==
  /\ IsFiniteSet(User) /\ AlertId \cap Conn = {} /\ User = AlertId \cup Conn
  /\ \A o \in Outlet : MaxInflight[o] \in Nat /\ Timeout[o] \in Nat
  /\ \A u \in User : OutletOf(u) \in Outlet
  BY PermitsAssumption DEF PermitsAssumption, User, Outlet, OutletOf

LEMMA HoldersFinite ==
  ASSUME NEW o
  PROVE  IsFiniteSet(Holders(o)) /\ Cardinality(Holders(o)) \in Nat
<1>1. Holders(o) \subseteq User
  BY DEF Holders
<1>2. QED
  BY <1>1, Constants, FS_Subset, FS_CardinalityType

(* What moving a user to another stage does to the pools.                  *)
LEMMA Move ==
  ASSUME TypeOK, NEW u \in User, NEW s, To(u, s), NEW o \in Outlet
  PROVE  /\ OutletOf(u) # o => Holders(o)' = Holders(o) /\ Turned(o)' = Turned(o)
         /\ OutletOf(u) = o =>
              /\ Holders(o)' = IF s \in Holding THEN Holders(o) \cup {u}
                                                ELSE Holders(o) \ {u}
              /\ Turned(o)' = IF s \in {"dropped", "refused"}
                              THEN Turned(o) \cup {u} ELSE Turned(o) \ {u}
              /\ u \in Holders(o) <=> at[u] \in Holding
              /\ u \in Turned(o) <=> at[u] \in {"dropped", "refused"}
<1>1. \A w \in User : at'[w] = IF w = u THEN s ELSE at[w]
  BY DEF To, TypeOK
<1>2. \A w : /\ w \in Holders(o) <=> w \in User /\ OutletOf(w) = o /\ at[w] \in Holding
             /\ w \in Holders(o)' <=> w \in User /\ OutletOf(w) = o /\ at'[w] \in Holding
  BY DEF Holders, Holding
<1>3. \A w : /\ w \in Turned(o) <=>
                  w \in User /\ OutletOf(w) = o /\ at[w] \in {"dropped", "refused"}
             /\ w \in Turned(o)' <=>
                  w \in User /\ OutletOf(w) = o /\ at'[w] \in {"dropped", "refused"}
  BY DEF Turned, Users, Refused
<1>4. ASSUME OutletOf(u) # o
      PROVE  Holders(o)' = Holders(o) /\ Turned(o)' = Turned(o)
  <2>1. \A w : w \in Holders(o)' <=> w \in Holders(o)
    BY <1>1, <1>2, <1>4
  <2>2. \A w : w \in Turned(o)' <=> w \in Turned(o)
    BY <1>1, <1>3, <1>4
  <2>3. Holders(o)' = Holders(o)
    BY <2>1 DEF Holders
  <2>4. Turned(o)' = Turned(o)
    BY <2>2 DEF Turned
  <2>5. QED
    BY <2>3, <2>4
<1>5. ASSUME OutletOf(u) = o
      PROVE  Holders(o)' = IF s \in Holding THEN Holders(o) \cup {u} ELSE Holders(o) \ {u}
  <2> DEFINE after == IF s \in Holding THEN Holders(o) \cup {u} ELSE Holders(o) \ {u}
  <2>1. \A w : w \in Holders(o)' <=> w \in after
    BY <1>1, <1>2, <1>5
  <2>2. Holders(o)' \subseteq after /\ after \subseteq Holders(o)'
    BY <2>1
  <2>3. QED
    BY <2>2
<1>6. ASSUME OutletOf(u) = o
      PROVE  Turned(o)' = IF s \in {"dropped", "refused"}
                          THEN Turned(o) \cup {u} ELSE Turned(o) \ {u}
  <2> DEFINE after == IF s \in {"dropped", "refused"}
                      THEN Turned(o) \cup {u} ELSE Turned(o) \ {u}
  <2>1. \A w : w \in Turned(o)' <=> w \in after
    BY <1>1, <1>3, <1>6
  <2>2. Turned(o)' \subseteq after /\ after \subseteq Turned(o)'
    BY <2>1
  <2>3. QED
    BY <2>2
<1>7. QED
  BY <1>2, <1>3, <1>4, <1>5, <1>6

(* A move that keeps, takes or gives back a permit keeps the count.        *)
LEMMA MoveCounts ==
  ASSUME TypeOK, PermitsCounted, NEW u \in User, NEW s, To(u, s),
         \/ (at[u] \in Holding <=> s \in Holding) /\ UNCHANGED permits
         \/ at[u] \notin Holding /\ s \in Holding /\ Take(u)
         \/ at[u] \in Holding /\ s \notin Holding /\ Give(u)
  PROVE  PermitsCounted' /\ permits' \in [Outlet -> Nat]
<1> DEFINE p == OutletOf(u)
<1>1. p \in Outlet
  BY Constants
<1>2. /\ \A o \in Outlet : permits[o] \in Nat /\ MaxInflight[o] \in Nat
      /\ permits = [o \in Outlet |-> permits[o]]
  BY Constants DEF TypeOK
<1>3. ASSUME NEW o \in Outlet, o # p
      PROVE  permits'[o] = permits[o] /\ Holders(o)' = Holders(o)
  <2>1. permits'[o] = permits[o]
    BY <1>2, <1>3 DEF Take, Give
  <2>2. QED
    BY <1>3, <2>1, Move
<1>4. /\ Holders(p)' = IF s \in Holding THEN Holders(p) \cup {u} ELSE Holders(p) \ {u}
      /\ u \in Holders(p) <=> at[u] \in Holding
  BY <1>1, Move
<1>5. IsFiniteSet(Holders(p)) /\ Cardinality(Holders(p)) \in Nat
  BY HoldersFinite
<1>6. permits[p] + Cardinality(Holders(p)) = MaxInflight[p]
  BY <1>1 DEF PermitsCounted
<1> HIDE DEF p
<1>7. /\ permits'[p] + Cardinality(Holders(p)') = MaxInflight[p]
      /\ permits'[p] \in Nat
  <2>1. CASE (at[u] \in Holding <=> s \in Holding) /\ UNCHANGED permits
    <3>1. Holders(p)' = Holders(p)
      BY <1>4, <2>1
    <3>2. QED
      BY <1>1, <1>2, <1>6, <2>1, <3>1
  <2>2. CASE at[u] \notin Holding /\ s \in Holding /\ Take(u)
    <3>1. permits[p] > 0 /\ permits'[p] = permits[p] - 1
      BY <1>1, <1>2, <2>2 DEF Take, p
    <3>2. Holders(p)' = Holders(p) \cup {u} /\ u \notin Holders(p)
      BY <1>4, <2>2
    <3>3. Cardinality(Holders(p)') = Cardinality(Holders(p)) + 1
      BY <1>5, <3>2, FS_AddElement
    <3>4. QED
      BY <1>1, <1>2, <1>5, <1>6, <3>1, <3>3
  <2>3. CASE at[u] \in Holding /\ s \notin Holding /\ Give(u)
    <3>1. permits'[p] = permits[p] + 1
      BY <1>1, <1>2, <2>3 DEF Give, p
    <3>2. Holders(p)' = Holders(p) \ {u} /\ u \in Holders(p)
      BY <1>4, <2>3
    <3>3. Cardinality(Holders(p)') = Cardinality(Holders(p)) - 1
      BY <1>5, <3>2, FS_RemoveElement
    <3>4. QED
      BY <1>1, <1>2, <1>5, <1>6, <3>1, <3>3
  <2>4. QED
    BY <2>1, <2>2, <2>3
<1>8. \A o \in Outlet : permits'[o] \in Nat /\ permits'[o] + Cardinality(Holders(o)') = MaxInflight[o]
  BY <1>2, <1>3, <1>7 DEF PermitsCounted
<1>9. permits' = [o \in Outlet |-> permits'[o]]
  BY <1>2 DEF Take, Give
<1>10. QED
  BY <1>8, <1>9 DEF PermitsCounted

(* The rest of the invariant after a move that leaves the clocks of the    *)
(* others alone.                                                           *)
LEMMA MoveIInv ==
  ASSUME IInv, NEW u \in User, NEW s, To(u, s),
         \/ (at[u] \in Holding <=> s \in Holding) /\ UNCHANGED permits
         \/ at[u] \notin Holding /\ s \in Holding /\ Take(u)
         \/ at[u] \in Holding /\ s \notin Holding /\ Give(u),
         u \in AlertId => s \in {"new", "filtered", "dropped", "admitted",
                                 "spawned", "sending", "leaving", "over"},
         u \in Conn => s \in {"closed", "refused", "reading", "writing", "leaving"},
         NEW a \in Nat, NEW h \in Nat, AgeKept(u, s, a, h),
         age' = [age EXCEPT ![u] = a], held' = [held EXCEPT ![u] = h]
  PROVE  IInv'
<1> USE DEF IInv
<1>1. PermitsCounted' /\ permits' \in [Outlet -> Nat]
  BY MoveCounts
<1>2. \A w \in User : at'[w] = IF w = u THEN s ELSE at[w]
  BY DEF To, TypeOK
<1>3. StagesKept'
  BY <1>2, Constants DEF StagesKept
<1>4. AgesKept'
  <2>1. \A w \in User : /\ age'[w] = IF w = u THEN a ELSE age[w]
                        /\ held'[w] = IF w = u THEN h ELSE held[w]
    BY DEF TypeOK
  <2>2. \A w \in User : AgeKept(w, at[w], age[w], held[w])
    BY DEF AgesKept
  <2>3. \A w \in User : AgeKept(w, at'[w], age'[w], held'[w])
    BY <1>2, <2>1, <2>2
  <2>4. QED
    BY <2>3 DEF AgesKept
<1>5. TypeOK'
  <2>1. at' \in [User -> {"new", "filtered", "dropped", "admitted", "spawned",
                          "sending", "over", "closed", "refused", "reading",
                          "writing", "leaving"}]
    BY Constants DEF To, TypeOK
  <2>2. age' \in [User -> Nat] /\ held' \in [User -> Nat]
    BY DEF TypeOK
  <2>3. \A o \in Outlet : permits'[o] <= MaxInflight[o]
    <3> TAKE o \in Outlet
    <3>1. permits'[o] \in Nat /\ MaxInflight[o] \in Nat
      BY <1>1, Constants
    <3>2. Cardinality(Holders(o)') \in Nat
      <4>1. Holders(o)' \subseteq User
        BY DEF Holders
      <4>2. QED
        BY <4>1, Constants, FS_Subset, FS_CardinalityType
    <3>3. permits'[o] + Cardinality(Holders(o)') = MaxInflight[o]
      BY <1>1 DEF PermitsCounted
    <3>4. QED
      BY <3>1, <3>2, <3>3
  <2>4. QED
    BY <1>1, <2>1, <2>2, <2>3 DEF TypeOK
<1>6. QED
  BY <1>1, <1>3, <1>4, <1>5
(* The steps of an alert or a connection, one by one.                      *)
LEMMA UserIInv ==
  ASSUME IInv, NEW u \in User,
         \/ u \in AlertId /\ (Filter(u) \/ Admit(u) \/ Serialise(u) \/ Send(u))
         \/ u \in Conn /\ (Accept(u) \/ Request(u))
         \/ Refuse(u) \/ Finish(u) \/ Expire(u) \/ Leave(u)
  PROVE  IInv'
<1> DEFINE T == Timeout[OutletOf(u)]
<1>1. /\ age[u] \in Nat /\ held[u] \in Nat /\ T \in Nat
      /\ AgeKept(u, at[u], age[u], held[u])
      /\ age = [age EXCEPT ![u] = age[u]] /\ held = [held EXCEPT ![u] = held[u]]
  BY Constants DEF IInv, TypeOK, AgesKept
<1>2. /\ u \in AlertId => at[u] \in {"new", "filtered", "dropped", "admitted",
                                     "spawned", "sending", "leaving", "over"}
      /\ u \in Conn => at[u] \in {"closed", "refused", "reading", "writing", "leaving"}
      /\ u \in AlertId \/ u \in Conn
      /\ ~(u \in AlertId /\ u \in Conn)
  BY Constants DEF IInv, StagesKept
<1>3. CASE u \in AlertId /\ Filter(u)
  <2>1. AgeKept(u, "filtered", age[u], held[u])
    BY <1>1, <1>3 DEF Filter, AgeKept
  <2>2. QED
    BY <1>1, <1>2, <1>3, <2>1, MoveIInv DEF Filter, Holding
<1>4. CASE u \in AlertId /\ Admit(u)
  <2>1. AgeKept(u, "admitted", age[u], held[u])
    BY <1>1, <1>4 DEF Admit, AgeKept
  <2>2. QED
    BY <1>1, <1>2, <1>4, <2>1, MoveIInv DEF Admit, Holding
<1>5. CASE u \in AlertId /\ Serialise(u)
  <2>1. AgeKept(u, "spawned", age[u], held[u]) /\ AgeKept(u, "over", age[u], held[u])
    BY <1>1, <1>5 DEF Serialise, AgeKept
  <2>2. CASE To(u, "spawned") /\ UNCHANGED permits
    BY <1>1, <1>2, <1>5, <2>1, <2>2, MoveIInv DEF Serialise, Holding
  <2>3. CASE To(u, "over") /\ Give(u)
    BY <1>1, <1>2, <1>5, <2>1, <2>3, MoveIInv DEF Serialise, Holding
  <2>4. QED
    BY <1>5, <2>2, <2>3 DEF Serialise
<1>6. CASE u \in AlertId /\ Send(u)
  <2>1. AgeKept(u, "sending", age[u], held[u])
    BY <1>1, <1>6 DEF Send, AgeKept
  <2>2. QED
    BY <1>1, <1>2, <1>6, <2>1, MoveIInv DEF Send, Holding
<1>7. CASE u \in Conn /\ Accept(u)
  <2>1. AgeKept(u, "reading", age[u], held[u])
    BY <1>1, <1>7 DEF Accept, Outside, AgeKept
  <2>2. QED
    BY <1>1, <1>2, <1>7, <2>1, MoveIInv DEF Accept, Outside, Holding
<1>8. CASE u \in Conn /\ Request(u)
  <2>1. AgeKept(u, "writing", 0, held[u])
    BY <1>1, <1>8 DEF Request, AgeKept
  <2>2. QED
    BY <1>1, <1>2, <1>8, <2>1, MoveIInv DEF Request, Holding
<1>9. CASE Refuse(u)
  <2>1. CASE at[u] = "new" /\ To(u, "dropped")
    <3>1. AgeKept(u, "dropped", age[u], held[u])
      BY <1>1, <2>1 DEF AgeKept
    <3>2. QED
      BY <1>1, <1>2, <1>9, <2>1, <3>1, MoveIInv DEF Refuse, Holding
  <2>2. CASE u \in Conn /\ Outside(u) /\ To(u, "refused")
    <3>1. AgeKept(u, "refused", age[u], held[u])
      BY <1>1, <2>2 DEF AgeKept, Outside
    <3>2. QED
      BY <1>1, <1>2, <1>9, <2>2, <3>1, MoveIInv DEF Refuse, Outside, Holding
  <2>3. QED
    BY <1>9, <2>1, <2>2 DEF Refuse
<1>10. CASE Finish(u) \/ Expire(u)
  <2>1. /\ at[u] \in {"sending", "reading", "writing"} /\ To(u, "leaving")
        /\ UNCHANGED <<permits, age, held>>
    BY <1>10 DEF Finish, Expire, Due, Timed
  <2>2. AgeKept(u, "leaving", age[u], held[u])
    BY <1>1, <1>2, <2>1 DEF AgeKept
  <2>3. QED
    BY <1>1, <1>2, <2>1, <2>2, MoveIInv DEF Holding
<1>11. CASE Leave(u)
  <2> DEFINE s == IF u \in AlertId THEN "over" ELSE "closed"
  <2>1. AgeKept(u, s, 0, 0)
    BY <1>1 DEF AgeKept
  <2>2. /\ u \in AlertId => s = "over"
        /\ u \in Conn => s = "closed"
        /\ s \notin Holding
    BY <1>2 DEF Holding
  <2>3. /\ at[u] = "leaving" /\ To(u, s) /\ Give(u)
        /\ age' = [age EXCEPT ![u] = 0] /\ held' = [held EXCEPT ![u] = 0]
    BY <1>11 DEF Leave
  <2> HIDE DEF s
  <2>4. QED
    BY <1>2, <2>1, <2>2, <2>3, MoveIInv DEF Holding
<1>12. QED
  BY <1>3, <1>4, <1>5, <1>6, <1>7, <1>8, <1>9, <1>10, <1>11

(* Time passes only while no deadline is due.                              *)
LEMMA TickIInv ==
  ASSUME IInv, Tick
  PROVE  IInv'
<1>1. /\ at' = at /\ permits' = permits
      /\ \A u \in User : ~Due(u)
      /\ age' = [u \in User |-> IF u \in Timed THEN age[u] + 1 ELSE age[u]]
      /\ held' = [u \in User |-> IF u \in Timed THEN held[u] + 1 ELSE held[u]]
  BY DEF Tick
<1>2. TypeOK' /\ StagesKept' /\ PermitsCounted'
  BY <1>1 DEF IInv, TypeOK, StagesKept, PermitsCounted, Holders
<1>3. ASSUME NEW u \in User
      PROVE  AgeKept(u, at'[u], age'[u], held'[u])
  <2>1. /\ age[u] \in Nat /\ held[u] \in Nat /\ Timeout[OutletOf(u)] \in Nat
        /\ AgeKept(u, at[u], age[u], held[u])
    BY Constants DEF IInv, TypeOK, AgesKept
  <2>2. CASE u \in Timed
    <3>1. ~(age[u] >= Timeout[OutletOf(u)])
      BY <1>1, <2>2 DEF Due
    <3>2. at[u] \in {"sending", "reading", "writing"}
      BY <2>2 DEF Timed
    <3>3. age'[u] = age[u] + 1 /\ held'[u] = held[u] + 1
      BY <1>1, <2>2
    <3>4. QED
      BY <1>1, <2>1, <3>1, <3>2, <3>3 DEF AgeKept
  <2>3. CASE u \notin Timed
    BY <1>1, <2>1, <2>3
  <2>4. QED
    BY <2>2, <2>3
<1>4. QED
  BY <1>2, <1>3 DEF IInv, AgesKept

LEMMA InitIInv == Init => IInv
<1> SUFFICES ASSUME Init PROVE IInv
  OBVIOUS
<1>1. \A u \in User : at[u] = IF u \in AlertId THEN "new" ELSE "closed"
  BY DEF Init
<1>2. \A u \in User : age[u] = 0 /\ held[u] = 0
  BY DEF Init
<1>3. TypeOK
  BY PermitsAssumption, Constants DEF Init, TypeOK, PermitsAssumption
<1>4. StagesKept
  BY <1>1, Constants DEF StagesKept
<1>5. PermitsCounted
  <2> SUFFICES ASSUME NEW o \in Outlet
               PROVE  permits[o] + Cardinality(Holders(o)) = MaxInflight[o]
    BY DEF PermitsCounted
  <2>1. Holders(o) = {}
    BY <1>1 DEF Holders
  <2>2. Cardinality(Holders(o)) = 0
    BY <2>1, FS_EmptySet
  <2>3. QED
    BY <2>2, Constants DEF Init
<1>6. AgesKept
  <2> SUFFICES ASSUME NEW u \in User PROVE AgeKept(u, at[u], age[u], held[u])
    BY DEF AgesKept
  <2>1. Timeout[OutletOf(u)] \in Nat
    BY Constants
  <2>2. QED
    BY <1>1, <1>2, <2>1 DEF AgeKept
<1>7. QED
  BY <1>3, <1>4, <1>5, <1>6 DEF IInv

LEMMA StepIInv == IInv /\ [Next]_vars => IInv'
<1> SUFFICES ASSUME IInv, [Next]_vars PROVE IInv'
  OBVIOUS
<1>1. ASSUME NEW u \in AlertId, Filter(u) \/ Admit(u) \/ Serialise(u) \/ Send(u)
      PROVE  IInv'
  BY <1>1, UserIInv DEF User
<1>2. ASSUME NEW u \in Conn, Accept(u) \/ Request(u) PROVE IInv'
  BY <1>2, UserIInv DEF User
<1>3. ASSUME NEW u \in User, Refuse(u) \/ Finish(u) \/ Expire(u) \/ Leave(u)
      PROVE  IInv'
  BY <1>3, UserIInv
<1>4. CASE Tick
  BY <1>4, TickIInv
<1>5. CASE UNCHANGED vars
  BY <1>5 DEF vars, IInv, TypeOK, StagesKept, PermitsCounted, Holders, AgesKept
<1>6. QED
  BY <1>1, <1>2, <1>3, <1>4, <1>5 DEF Next

(* The inductive invariant holds in every behaviour.                       *)
THEOREM Invariance == Spec => []IInv
<1>1. QED
  BY InitIInv, StepIInv, PTL DEF Spec

(* webhook.rs:89-104, prometheus.rs:105-133: an alert costs a permit of the*)
(* webhook one timeout at most, a connection costs one of the exporter two *)
(* at most, whatever the other end does.                                   *)
THEOREM PermitsHeldBriefly == Spec => []HeldBounded
<1>1. IInv => HeldBounded
  <2> SUFFICES ASSUME IInv, NEW u \in User
               PROVE  held[u] <= (IF u \in Conn THEN 2 ELSE 1) * Timeout[OutletOf(u)]
    BY DEF HeldBounded
  <2>1. /\ age[u] \in Nat /\ held[u] \in Nat /\ Timeout[OutletOf(u)] \in Nat
        /\ AgeKept(u, at[u], age[u], held[u])
    BY Constants DEF IInv, TypeOK, AgesKept
  <2>2. at[u] = "writing" => u \in Conn
    BY Constants DEF IInv, StagesKept
  <2>3. QED
    BY <2>1, <2>2 DEF AgeKept
<1>2. QED
  BY <1>1, Invariance, PTL

-----------------------------------------------------------------------------
(* The refinement: a step moves at most one user into or out of its pool.  *)

PoolStep(o) ==
  \/ \E u \in Users(o) :
       \/ /\ u \notin Holders(o) /\ Cardinality(Holders(o)) < MaxInflight[o]
          /\ Holders(o)' = Holders(o) \cup {u}
          /\ Turned(o)' = Turned(o) \ {u}
       \/ /\ u \notin Holders(o) /\ Cardinality(Holders(o)) >= MaxInflight[o]
          /\ Turned(o)' = Turned(o) \cup {u}
          /\ Holders(o)' = Holders(o)
       \/ /\ u \in Holders(o)
          /\ Holders(o)' = Holders(o) \ {u}
          /\ Turned(o)' = Turned(o)
  \/ Holders(o)' = Holders(o) /\ Turned(o)' = Turned(o)

LEMMA MovePool ==
  ASSUME IInv, NEW u \in User, NEW s, To(u, s), NEW o \in Outlet,
         \/ /\ at[u] \in Holding <=> s \in Holding
            /\ at[u] \in {"dropped", "refused"} <=> s \in {"dropped", "refused"}
         \/ at[u] \notin Holding /\ s \in Holding /\ Take(u)
         \/ at[u] \notin Holding /\ s \in {"dropped", "refused"} /\ permits[OutletOf(u)] = 0
         \/ at[u] \in Holding /\ s \notin Holding /\ s \notin {"dropped", "refused"}
  PROVE  PoolStep(o)
<1>1. CASE OutletOf(u) # o
  BY <1>1, Move DEF PoolStep, IInv
<1>2. CASE OutletOf(u) = o
  <2>1. /\ Holders(o)' = IF s \in Holding THEN Holders(o) \cup {u} ELSE Holders(o) \ {u}
        /\ Turned(o)' = IF s \in {"dropped", "refused"}
                        THEN Turned(o) \cup {u} ELSE Turned(o) \ {u}
        /\ u \in Holders(o) <=> at[u] \in Holding
        /\ u \in Turned(o) <=> at[u] \in {"dropped", "refused"}
    BY <1>2, Move DEF IInv
  <2>2. u \in Users(o) /\ \A x \in Holding : x \notin {"dropped", "refused"}
    BY <1>2 DEF Users, Holding
  <2>3. /\ permits[o] + Cardinality(Holders(o)) = MaxInflight[o]
        /\ permits[o] \in Nat /\ MaxInflight[o] \in Nat
        /\ Cardinality(Holders(o)) \in Nat
    BY HoldersFinite, Constants DEF IInv, TypeOK, PermitsCounted
  <2>4. CASE /\ at[u] \in Holding <=> s \in Holding
             /\ at[u] \in {"dropped", "refused"} <=> s \in {"dropped", "refused"}
    <3>1. Holders(o)' = Holders(o) /\ Turned(o)' = Turned(o)
      BY <2>1, <2>4
    <3>2. QED
      BY <3>1 DEF PoolStep
  <2>5. CASE at[u] \notin Holding /\ s \in Holding /\ Take(u)
    <3>1. permits[o] > 0
      BY <1>2, <2>5 DEF Take
    <3>2. Cardinality(Holders(o)) < MaxInflight[o]
      BY <2>3, <3>1
    <3>3. /\ u \notin Holders(o) /\ Holders(o)' = Holders(o) \cup {u}
          /\ Turned(o)' = Turned(o) \ {u}
      BY <2>1, <2>2, <2>5
    <3>4. QED
      BY <2>2, <3>2, <3>3 DEF PoolStep
  <2>6. CASE at[u] \notin Holding /\ s \in {"dropped", "refused"} /\ permits[OutletOf(u)] = 0
    <3>1. Cardinality(Holders(o)) >= MaxInflight[o]
      BY <1>2, <2>3, <2>6
    <3>2. /\ u \notin Holders(o) /\ Holders(o)' = Holders(o)
          /\ Turned(o)' = Turned(o) \cup {u}
      BY <2>1, <2>2, <2>6
    <3>3. QED
      BY <2>2, <3>1, <3>2 DEF PoolStep
  <2>7. CASE at[u] \in Holding /\ s \notin Holding /\ s \notin {"dropped", "refused"}
    <3>1. /\ u \in Holders(o) /\ Holders(o)' = Holders(o) \ {u}
          /\ Turned(o)' = Turned(o)
      BY <2>1, <2>2, <2>7
    <3>2. QED
      BY <2>2, <3>1 DEF PoolStep
  <2>8. QED
    BY <2>4, <2>5, <2>6, <2>7
<1>3. QED
  BY <1>1, <1>2

LEMMA StepPools ==
  ASSUME IInv, [Next]_vars, NEW o \in Outlet
  PROVE  PoolStep(o)
<1> USE DEF Holding
<1>1. ASSUME NEW u \in AlertId, Filter(u) \/ Admit(u) \/ Serialise(u) \/ Send(u)
      PROVE  PoolStep(o)
  <2>1. u \in User
    BY DEF User
  <2>2. QED
    BY <1>1, <2>1, MovePool DEF Filter, Admit, Serialise, Send
<1>2. ASSUME NEW u \in Conn, Accept(u) \/ Request(u) PROVE PoolStep(o)
  <2>1. u \in User
    BY DEF User
  <2>2. QED
    BY <1>2, <2>1, MovePool DEF Accept, Outside, Request
<1>3. ASSUME NEW u \in User, Refuse(u) \/ Finish(u) \/ Expire(u) \/ Leave(u)
      PROVE  PoolStep(o)
  <2>1. CASE Refuse(u)
    BY <2>1, MovePool DEF Refuse, Outside
  <2>2. CASE Finish(u) \/ Expire(u)
    BY <2>2, MovePool DEF Finish, Expire, Due, Timed
  <2>3. CASE Leave(u)
    BY <2>3, MovePool DEF Leave
  <2>4. QED
    BY <1>3, <2>1, <2>2, <2>3
<1>4. CASE Tick \/ UNCHANGED vars
  <2>1. at' = at
    BY <1>4 DEF Tick, vars
  <2>2. QED
    BY <2>1 DEF PoolStep, Holders, Turned, Refused
<1>5. QED
  BY <1>1, <1>2, <1>3, <1>4 DEF Next

LEMMA UsersOf == Users("webhook") = AlertId /\ Users("exporter") = Conn
<1>1. \A u : u \in Users("webhook") <=> u \in AlertId
  BY Constants DEF Users, OutletOf
<1>2. \A u : u \in Users("exporter") <=> u \in Conn
  BY Constants DEF Users, OutletOf
<1>3. QED
  BY <1>1, <1>2

LEMMA InitPools == Init => WebhookPool!PInit /\ ExporterPool!PInit
<1> SUFFICES ASSUME Init PROVE WebhookPool!PInit /\ ExporterPool!PInit
  OBVIOUS
<1>1. \A u \in User : at[u] \in {"new", "closed"}
  BY DEF Init
<1>2. Holders("webhook") = {} /\ Holders("exporter") = {} /\ Refused = {}
  BY <1>1 DEF Holders, Refused
<1>3. QED
  BY <1>2 DEF WebhookPool!PInit, ExporterPool!PInit

LEMMA StepWebhook == IInv /\ [Next]_vars => [WebhookPool!PNext]_(WebhookPool!pvars)
<1> SUFFICES ASSUME IInv, [Next]_vars PROVE [WebhookPool!PNext]_(WebhookPool!pvars)
  OBVIOUS
<1>1. PoolStep("webhook")
  BY StepPools DEF Outlet
<1>2. /\ Turned("webhook") = Refused \cap AlertId
      /\ Turned("webhook")' = (Refused \cap AlertId)'
      /\ Users("webhook") = AlertId
  BY UsersOf DEF Turned
<1>3. \A S : WebhookPool!Cardinality(S) = Cardinality(S)
  BY DEF WebhookPool!Cardinality, Cardinality
<1>4. QED
  BY <1>1, <1>2, <1>3 DEF PoolStep, WebhookPool!PNext, WebhookPool!pvars,
       WebhookPool!Enter, WebhookPool!Refuse, WebhookPool!Leave

LEMMA StepExporter == IInv /\ [Next]_vars => [ExporterPool!PNext]_(ExporterPool!pvars)
<1> SUFFICES ASSUME IInv, [Next]_vars PROVE [ExporterPool!PNext]_(ExporterPool!pvars)
  OBVIOUS
<1>1. PoolStep("exporter")
  BY StepPools DEF Outlet
<1>2. /\ Turned("exporter") = Refused \cap Conn
      /\ Turned("exporter")' = (Refused \cap Conn)'
      /\ Users("exporter") = Conn
  BY UsersOf DEF Turned
<1>3. \A S : ExporterPool!Cardinality(S) = Cardinality(S)
  BY DEF ExporterPool!Cardinality, Cardinality
<1>4. QED
  BY <1>1, <1>2, <1>3 DEF PoolStep, ExporterPool!PNext, ExporterPool!pvars,
       ExporterPool!Enter, ExporterPool!Refuse, ExporterPool!Leave

(* webhook.rs:20-24, prometheus.rs:31-33: the two semaphores are pools of  *)
(* permits, from which no way out of a delivery or a connection loses one. *)
THEOREM Refinement == Spec => OutletsArePools
<1>1. QED
  BY InitPools, StepWebhook, StepExporter, Invariance, PTL
     DEF Spec, OutletsArePools, WebhookPool!PSpec, ExporterPool!PSpec
=============================================================================
