----------------------------- MODULE MCRateLimits -----------------------------
(* Instances of RateLimits for TLC: the code's delays (60, 300, 1800, 7200 s; *)
(* 15 to 60 s) in their order, scaled down.                                   *)
EXTENDS RateLimits, TLC

MCDefaultDelay == [reason \in Reasons \ {"QUOTA_EXHAUSTED"} |->
                     IF reason = "UNKNOWN" THEN 2 ELSE 1]
MCQuotaLadder == <<2, 3, 4, 4>>

Symmetry == Permutations(Keys)
=============================================================================
