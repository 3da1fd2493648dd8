--------------------------- MODULE CircuitBreaker ---------------------------
(* gateway/circuit_breaker.py: one BackendCircuitBreaker and the concurrent  *)
(* requests that consult it.  Every method body runs under self._lock, so    *)
(* each is one action; what interleaves is the time between a request's      *)
(* is_available() and the outcome it reports, during which other requests    *)
(* may have moved the state.                                                 *)
EXTENDS Naturals

CONSTANTS Requests,          \* requests that may be in flight at once
          FailureThreshold,  \* failure_threshold of the backend
          RecoveryTimeout,   \* recovery_timeout, in ticks
          SuccessThreshold,  \* success_threshold
          MaxFailures        \* bound on failures recorded without a success

ASSUME BreakerAssumption ==
    /\ FailureThreshold \in Nat \ {0}
    /\ RecoveryTimeout \in Nat \ {0}
    /\ SuccessThreshold \in Nat \ {0}
    /\ MaxFailures \in Nat

VARIABLES state,          \* _state
          failure_count,  \* _failure_count
          success_count,  \* _success_count
          elapsed,        \* time.time() - _last_failure_time, up to RecoveryTimeout
          inflight,       \* requests admitted, outcome not reported yet
          run,            \* history: failures reported since a success or reset
          streak          \* history: successes reported since a failure or a
                          \*          change of state

breaker == <<state, failure_count, success_count, elapsed>>
history == <<run, streak>>
breakerVars == <<state, failure_count, success_count, elapsed, inflight,
                 run, streak>>

States == {"CLOSED", "OPEN", "HALF_OPEN"}

BreakerTypeOK ==
    /\ state \in States
    /\ failure_count \in Nat
    /\ success_count \in Nat
    /\ elapsed \in 0..RecoveryTimeout
    /\ inflight \subseteq Requests
    /\ run \in Nat
    /\ streak \in Nat

\* _last_failure_time starts at 0.0, the epoch: any timeout is long over.
BreakerInit ==
    /\ state = "CLOSED"
    /\ failure_count = 0
    /\ success_count = 0
    /\ elapsed = RecoveryTimeout
    /\ inflight = {}
    /\ run = 0
    /\ streak = 0
-----------------------------------------------------------------------------
(* is_available(): the call that finds the timeout over opens the half-open  *)
(* phase; a refused caller changes nothing.                                  *)
\* Mutant: one tick too early.
RecoveryDueEarly == elapsed + 1 >= RecoveryTimeout

RecoveryDue == elapsed >= RecoveryTimeout

\* Mutant: a refused caller restarts the recovery timeout.
IsAvailableRestarts(r) ==
    /\ r \notin inflight
    /\ \/ /\ state = "OPEN" /\ ~RecoveryDue
          /\ elapsed' = 0
          /\ UNCHANGED <<state, success_count, streak, inflight>>
       \/ /\ state = "OPEN" => RecoveryDue
          /\ inflight' = inflight \cup {r}
          /\ state' = IF state = "OPEN" THEN "HALF_OPEN" ELSE state
          /\ success_count' = IF state = "OPEN" THEN 0 ELSE success_count
          /\ streak' = IF state = "OPEN" THEN 0 ELSE streak
          /\ UNCHANGED elapsed
    /\ UNCHANGED <<failure_count, run>>

IsAvailable(r) ==
    /\ r \notin inflight
    /\ state = "OPEN" => RecoveryDue
    /\ inflight' = inflight \cup {r}
    /\ state' = IF state = "OPEN" THEN "HALF_OPEN" ELSE state
    /\ success_count' = IF state = "OPEN" THEN 0 ELSE success_count
    /\ streak' = IF state = "OPEN" THEN 0 ELSE streak
    /\ UNCHANGED <<failure_count, elapsed, run>>

(* record_failure(): counts in every state, OPEN included, where it only     *)
(* restarts the recovery timeout.                                            *)
\* Mutant: the failure before the threshold trips.
TripsOneEarly == \/ state = "HALF_OPEN"
                 \/ state = "CLOSED" /\ failure_count + 2 >= FailureThreshold

Trips == \/ state = "HALF_OPEN"
         \/ state = "CLOSED" /\ failure_count + 1 >= FailureThreshold

RecordFailure(r) ==
    /\ r \in inflight
    /\ failure_count < MaxFailures
    /\ inflight' = inflight \ {r}
    /\ failure_count' = failure_count + 1
    /\ success_count' = 0
    /\ elapsed' = 0
    /\ state' = IF Trips THEN "OPEN" ELSE state
    /\ run' = run + 1
    /\ streak' = 0

(* record_success(): closes a half-open breaker at the success threshold,    *)
(* whichever phase the reporting request was admitted in.                    *)
\* Mutant: one success too few closes the breaker.
ClosesOneEarly == state = "HALF_OPEN" /\ success_count + 2 >= SuccessThreshold

Closes == state = "HALF_OPEN" /\ success_count + 1 >= SuccessThreshold

SuccessCountAfterSuccess ==
    IF state = "CLOSED" \/ Closes THEN 0
    ELSE success_count + (IF state = "HALF_OPEN" THEN 1 ELSE 0)

RecordSuccess(r) ==
    /\ r \in inflight
    /\ inflight' = inflight \ {r}
    /\ failure_count' = 0
    /\ success_count' = SuccessCountAfterSuccess
    /\ state' = IF Closes THEN "CLOSED" ELSE state
    /\ run' = 0
    /\ streak' = IF state = "HALF_OPEN" THEN streak + 1 ELSE 0
    /\ UNCHANGED elapsed

(* A caller that reports nothing: the proxy reports only its 402s.           *)
Abandon(r) ==
    /\ r \in inflight
    /\ inflight' = inflight \ {r}
    /\ UNCHANGED <<breaker, run, streak>>

(* reset(), from the panel or reset_all_circuit_breakers().                  *)
Reset ==
    /\ state' = "CLOSED"
    /\ failure_count' = 0
    /\ success_count' = 0
    /\ run' = 0
    /\ streak' = 0
    /\ UNCHANGED <<elapsed, inflight>>

Tick ==
    /\ elapsed < RecoveryTimeout
    /\ elapsed' = elapsed + 1
    /\ UNCHANGED <<state, failure_count, success_count, inflight, history>>

BreakerNext ==
    \/ Reset
    \/ Tick
    \/ \E r \in Requests : \/ IsAvailable(r)
                           \/ RecordFailure(r)
                           \/ RecordSuccess(r)
                           \/ Abandon(r)

BreakerSpec == BreakerInit /\ [][BreakerNext]_breakerVars

(* Time passes, every client that is not being served asks again sooner or   *)
(* later, and every request ends, whether it reports anything or not.  No    *)
(* caller is promised to report a success: the gateway's never do.           *)
Ends(r) == RecordFailure(r) \/ RecordSuccess(r) \/ Abandon(r)

FairBreakerSpec == /\ BreakerSpec
                   /\ WF_breakerVars(Tick)
                   /\ \A r \in Requests : /\ WF_breakerVars(IsAvailable(r))
                                          /\ WF_breakerVars(Ends(r))

-----------------------------------------------------------------------------
(* A closed breaker has seen fewer failures in a row than its threshold: the *)
(* count left over from an outage must not survive the way back to CLOSED,   *)
(* or the first later failure would trip it (record_success, reset).         *)
ClosedBelowThreshold == state = "CLOSED" => failure_count < FailureThreshold

(* CLOSED -> OPEN needs failure_threshold failures with no success between   *)
(* them ("连续失败多少次后开启熔断", circuit_breaker.py:51).                 *)
TripsOnlyOnRun ==
    [][state = "CLOSED" /\ state' = "OPEN" => run' >= FailureThreshold]_breakerVars

(* HALF_OPEN -> CLOSED needs success_threshold successes in a row, all       *)
(* reported in this half-open phase, or an operator's reset (line 53).       *)
ClosesOnlyOnStreak ==
    [][state = "HALF_OPEN" /\ state' = "CLOSED"
         => Reset \/ streak' >= SuccessThreshold]_breakerVars

(* The breaker implements the cool-down gate: nothing passes before a whole  *)
(* recovery timeout since the last failure it heard of while open.           *)
Gate == INSTANCE CooldownGate WITH
    Cooldown <- RecoveryTimeout,
    remaining <- IF state = "OPEN" THEN RecoveryTimeout - elapsed ELSE 0,
    admitted <- inflight
GateSpec == Gate!Spec

(* Once failures stop being reported, the breaker stops refusing for good,   *)
(* although nothing but a caller moves it out of OPEN and the callers that   *)
(* come too early are turned away: neither they nor requests that end        *)
(* without a report may put the way out off.  It need not close: that takes  *)
(* successes, and with callers that report none it stays HALF_OPEN for ever, *)
(* where a single failure opens it again.                                    *)
RefusalsEnd ==
    <>[][\A r \in Requests : ~RecordFailure(r)]_breakerVars => <>[](state # "OPEN")
=============================================================================
