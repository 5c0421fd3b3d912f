-------------------------- MODULE MCAlertPipeline --------------------------
(* AlertPipeline for TLC: workers are interchangeable.                     *)
EXTENDS AlertPipeline, TLC

MCSymmetry == Permutations(Worker)
=============================================================================
