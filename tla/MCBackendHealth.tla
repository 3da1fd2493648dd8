--------------------------- MODULE MCBackendHealth ---------------------------
(* Instances of CredentialProbe for TLC.  Durations keep the order of the     *)
(* code's: rate_limit < timeout < server < connection < auth, scaled down.    *)
EXTENDS CredentialProbe, TLC

MCFreezeDuration ==
    [c \in Categories |-> CASE c = "rate_limit" -> 1
                            [] c = "auth" -> 3
                            [] OTHER -> 2]

=============================================================================
