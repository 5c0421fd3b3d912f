---------------------------- MODULE MCIntegrity ----------------------------
(* Integrity for TLC.                                                      *)
EXTENDS Integrity, MCEnforcement
=============================================================================
