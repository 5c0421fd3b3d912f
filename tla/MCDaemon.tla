------------------------------ MODULE MCDaemon ------------------------------
(* Daemon for TLC.                                                         *)
EXTENDS Daemon, TLC

MCSymmetry == Permutations(Detector)
=============================================================================
