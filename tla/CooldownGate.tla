---------------------------- MODULE CooldownGate ----------------------------
(* What the router expects of a circuit breaker, without its three states:   *)
(* once it trips, no request is admitted until a whole cool-down has passed, *)
(* unless an operator lifts it.  CircuitBreaker implements this.             *)
EXTENDS Naturals

CONSTANTS Requests, Cooldown

VARIABLES remaining, \* ticks left during which nothing is admitted
          admitted   \* requests let through that have not finished yet

vars == <<remaining, admitted>>

Init == remaining = 0 /\ admitted = {}

Admit(r) ==
    /\ remaining = 0
    /\ r \notin admitted
    /\ admitted' = admitted \cup {r}
    /\ UNCHANGED remaining

\* A request ends; its outcome may start the cool-down, or start it afresh.
Finish(r) ==
    /\ r \in admitted
    /\ admitted' = admitted \ {r}
    /\ remaining' \in {remaining, Cooldown}

Lift == remaining' = 0 /\ UNCHANGED admitted

Tick == remaining > 0 /\ remaining' = remaining - 1 /\ UNCHANGED admitted

Next == Lift \/ Tick \/ \E r \in Requests : Admit(r) \/ Finish(r)

Spec == Init /\ [][Next]_vars
=============================================================================
