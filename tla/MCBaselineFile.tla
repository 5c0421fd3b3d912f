--------------------------- MODULE MCBaselineFile ---------------------------
(* BaselineFile for TLC.                                                   *)
EXTENDS BaselineFile
=============================================================================
