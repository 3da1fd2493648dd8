--------------------------- MODULE MCProxyAttempts ----------------------------
(* Instances of ProxyAttempts for TLC: one backend, durations scaled down to  *)
(* one or two ticks in their order.                                           *)
EXTENDS ProxyAttempts, TLC

MCFreezeDuration == [c \in Categories |-> IF c = "auth" THEN 2 ELSE 1]
MCDefaultDelay == [reason \in Reasons \ {"QUOTA_EXHAUSTED"} |-> 1]
MCQuotaLadder == [rung \in 1..4 |-> 1]

MCAsked == {[sep |-> "-", date |-> "none"]}
MCNames == MCAsked \cup {[sep |-> "-", date |-> "default"], [sep |-> ".", date |-> "none"]}
MCKeys == {BackendId} \cup {AccountId(s) : s \in BOOLEAN}
          \cup {ModelAccountId(s, n) : s \in BOOLEAN, n \in MCNames}

=============================================================================
