---------------------------- MODULE BackendHealth ----------------------------
(* gateway/health.py: the manager as a state machine.  Any method may be      *)
(* called for any backend at any time: requests, the credential watchers and  *)
(* the panel call them independently.                                         *)
EXTENDS HealthRecord

CONSTANT CredentialFreeze  \* _CREDENTIAL_FREEZE_DURATION of proxy.py

ASSUME FreezeAssumption == CredentialFreeze \in Nat \ {0}

VARIABLES health,  \* the manager
          run      \* history: failures since the last success, up to Threshold

healthVars == <<health, run>>

HealthTypeOK == /\ health \in Healths
                /\ run \in [Backends -> 0..Threshold]

HealthInit == /\ health = NewHealth
              /\ run = [b \in Backends |-> 0]

RecordSuccess(b) ==
    /\ health' \in Succeeded(health, b)
    /\ run' = [run EXCEPT ![b] = 0]

RecordFailure(b) ==
    /\ health' \in Failed(health, b)
    /\ run' = [run EXCEPT ![b] = AtMost(@ + 1, Threshold)]

RecordHttpFailure(b, category) ==
    /\ health' \in HttpFailed(health, b, category)
    /\ UNCHANGED run

FreezeBackend(b, duration) ==
    /\ health' \in Freeze(health, b, duration)
    /\ UNCHANGED run

CheckFrozen(b) ==
    /\ health' = Purged(health, b)
    /\ UNCHANGED run

UnfreezeBackend(b) ==
    /\ health' = Unfrozen(health, b)
    /\ UNCHANGED run

HealthTick == health' = Elapsed(health) /\ UNCHANGED run

Freezes(b) ==
    \/ \E c \in Categories : RecordHttpFailure(b, c)
    \/ \E d \in {DefaultFreeze, CredentialFreeze} : FreezeBackend(b, d)

HealthNext ==
    \/ HealthTick
    \/ \E b \in Backends : \/ RecordSuccess(b)
                           \/ RecordFailure(b)
                           \/ Freezes(b)
                           \/ CheckFrozen(b)
                           \/ UnfreezeBackend(b)

HealthSpec == HealthInit /\ [][HealthNext]_healthVars
-----------------------------------------------------------------------------
(* _frozen_backends never outgrows its limit, whatever is frozen while        *)
(* earlier freezes have expired but were not purged (lines 83-87).            *)
FrozenBounded == Cardinality(health.frozen) <= MaxFrozenBackends

(* A freeze count belongs to a backend that is known or listed as frozen:     *)
(* otherwise it would stay for ever and lengthen an unrelated later freeze    *)
(* ("清理孤儿 freeze_count", line 249).                                       *)
NoOrphanCount ==
    \A b \in Backends :
        health.multiplier[b] > 1 => b \in health.known \cup health.frozen

(* Only a run of Threshold failures without a success may freeze a backend    *)
(* automatically: a shorter run, or one interrupted by a success, may not.    *)
AutoFreezeNeedsRun ==
    [][\A b \in Backends, c \in Categories :
          RecordHttpFailure(b, c) /\ health'.left[b] > health.left[b]
             => run[b] >= Threshold]_healthVars
=============================================================================
