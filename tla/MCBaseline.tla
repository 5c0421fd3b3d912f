----------------------------- MODULE MCBaseline -----------------------------
(* Baseline for TLC: pairs are model values and interchangeable.           *)
EXTENDS Baseline, TLC

MCSymmetry == Permutations(Pair)
=============================================================================
