----------------------------- MODULE AtomicFile -----------------------------
(***************************************************************************)
(* What the baseline file promises its readers: it is absent or holds one  *)
(* whole value, it is replaced in one step, and a power loss leaves it as  *)
(* it is or as it was when the file system last committed.                 *)
(***************************************************************************)
CONSTANT Value

VARIABLES content, committed

avars == <<content, committed>>

Absent == [kind |-> "absent"]
Whole(v) == [kind |-> "whole", value |-> v]

AInit ==
  /\ content \in {Absent} \cup {Whole(v) : v \in Value}
  /\ committed = content

Publish ==
  /\ \E v \in Value : content' = Whole(v)
  /\ UNCHANGED committed

Clear ==
  /\ content' = Absent
  /\ UNCHANGED committed

Commit ==
  /\ committed' = content
  /\ UNCHANGED content

PowerLoss ==
  /\ content' \in {content, committed}
  /\ committed' = content'

ANext == Publish \/ Clear \/ Commit \/ PowerLoss

ASpec == AInit /\ [][ANext]_avars
=============================================================================
