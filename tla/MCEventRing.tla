---------------------------- MODULE MCEventRing ----------------------------
(* EventRing for TLC.                                                      *)
EXTENDS EventRing, TLC

MCSymmetry == Permutations(Cpu)
=============================================================================
