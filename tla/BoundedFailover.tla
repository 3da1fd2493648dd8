---------------------------- MODULE BoundedFailover ---------------------------
(* What route_request_with_fallback promises one request (proxy.py:4123-4126  *)
(* and SEC-9, proxy.py:80-82): it is answered by the last backend it was sent *)
(* to, or it fails after some; it was sent to MaxCalls of them at most; and   *)
(* one of the two happens.                                                    *)
EXTENDS Naturals

CONSTANT MaxCalls

VARIABLES calls, outcome

vars == <<calls, outcome>>

Init == calls = 0 /\ outcome = "none"

(* A request arrives; it fails at once where no backend can take it.          *)
Arrive == /\ outcome # "pending"
          /\ \/ calls' = 1 /\ outcome' = "pending"
             \/ calls' = 0 /\ outcome' = "failed"

Resend == /\ outcome = "pending" /\ calls < MaxCalls
          /\ calls' = calls + 1 /\ UNCHANGED outcome

Answer == outcome = "pending" /\ outcome' = "answered" /\ UNCHANGED calls
Fail   == outcome = "pending" /\ outcome' = "failed" /\ UNCHANGED calls

Next == Arrive \/ Resend \/ Answer \/ Fail

Spec == Init /\ [][Next]_vars
FairSpec == Spec /\ WF_vars(Resend \/ Answer \/ Fail)
===============================================================================
