----------------------------- MODULE PermitPool -----------------------------
(***************************************************************************)
(* What the two semaphores of kernelradar promise: no more than Permits    *)
(* users at once, each of them for a while, and a user is turned away only *)
(* when that many others are there.  Permits implements it, once for each. *)
(***************************************************************************)
EXTENDS Integers, FiniteSets

CONSTANTS User, Permits

VARIABLES
  holders,  \* the users that hold a permit
  refused   \* the users that were turned away

pvars == <<holders, refused>>

PInit == holders = {} /\ refused = {}

Enter(u) ==
  /\ u \notin holders /\ Cardinality(holders) < Permits
  /\ holders' = holders \cup {u}
  /\ refused' = refused \ {u}

Refuse(u) ==
  /\ u \notin holders /\ Cardinality(holders) >= Permits
  /\ refused' = refused \cup {u}
  /\ UNCHANGED holders

Leave(u) ==
  /\ u \in holders
  /\ holders' = holders \ {u}
  /\ UNCHANGED refused

PNext == \E u \in User : Enter(u) \/ Refuse(u) \/ Leave(u)

PSpec == PInit /\ [][PNext]_pvars
=============================================================================
