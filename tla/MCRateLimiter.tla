--------------------------- MODULE MCRateLimiter ---------------------------
(* RateLimiterHistory for TLC: keys are model values and interchangeable.  *)
EXTENDS RateLimiterHistory, TLC

MCSymmetry == Permutations(Key)
=============================================================================
