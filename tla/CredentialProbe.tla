--------------------------- MODULE CredentialProbe ---------------------------
(* gateway/proxy.py around the health manager: a backend whose answer says it *)
(* has no usable credential is frozen and watched by a background task, which *)
(* asks it once a minute and lifts the freeze at the first other answer; and  *)
(* before any route is served every backend is probed once and frozen if it   *)
(* does not answer well.                                                      *)
EXTENDS BackendHealth

CONSTANTS Gated,         \* _CREDENTIAL_GATE_BACKENDS
          ProbeAttempts  \* _CREDENTIAL_PROBE_MAX_ATTEMPTS

ASSUME ProbeAssumption == Gated \subseteq Backends /\ ProbeAttempts \in Nat \ {0}

(* A watcher's task is created, asleep between two probes, waiting for an     *)
(* answer, or has lifted the freeze and is closing its HTTP client: until     *)
(* that is done, its task is not done().  left: the probes it may still send, *)
(* the one under way included.                                                *)
Watchers == [pc   : {"none", "created", "sleeping", "asking", "leaving"},
             left : 0..ProbeAttempts]
NoWatcher == [pc |-> "none", left |-> 0]

VARIABLES probe,    \* _credential_probe_tasks
          starting, \* the backends the startup probe has yet to look at
          watched   \* history: frozen for lack of credentials, with a watcher
                    \* to tell when that is over, and frozen ever since

probeVars == <<probe, starting, watched>>
allVars == <<healthVars, probeVars>>

ProbeTypeOK == /\ HealthTypeOK
               /\ probe \in [Gated -> Watchers]
               /\ starting \subseteq Backends
               /\ watched \subseteq Gated

ProbeInit == /\ HealthInit
             /\ probe = [b \in Gated |-> NoWatcher]
             /\ starting = Backends
             /\ watched = {}

StillFrozen(S) == {b \in S : IsFrozen(health', b)}
-----------------------------------------------------------------------------
(* probe_backends_on_startup, for one backend: it is disabled, has no         *)
(* address, is the gateway itself, or answers; or it answers 404 or 5xx, or   *)
(* not at all, and is frozen for STARTUP_PROBE_FREEZE_DURATION.               *)
StartupPasses(b) ==
    /\ b \in starting
    /\ starting' = starting \ {b}
    /\ UNCHANGED <<healthVars, probe, watched>>

StartupFreezes(b) ==
    /\ b \in starting
    /\ starting' = starting \ {b}
    /\ FreezeBackend(b, DefaultFreeze)
    /\ UNCHANGED <<probe, watched>>

(* _schedule_credential_probe: no second watcher while the first one's task   *)
(* is not done.                                                               *)
\* Mutant: a refusal gives the watcher that runs all its probes again.
ScheduledAnew(p) == [pc |-> IF p.pc = "none" THEN "created" ELSE p.pc,
                     left |-> ProbeAttempts]

Scheduled(p) == IF p.pc = "none" THEN [pc |-> "created", left |-> ProbeAttempts]
                ELSE p

(* proxy_request_with_retry and the streaming path, on an answer that         *)
(* _is_no_credential_error recognises.  A watcher that is leaving is taken    *)
(* for one that watches: this freeze has none.                                *)
NoCredentials(b) ==
    /\ starting = {}
    /\ FreezeBackend(b, CredentialFreeze)
    /\ probe' = [probe EXCEPT ![b] = Scheduled(@)]
    /\ watched' = StillFrozen(IF probe[b].pc = "leaving" THEN watched
                                                         ELSE watched \cup {b})
    /\ UNCHANGED starting

(* _credential_probe_loop.  The task starts; it aborts when the panel emptied *)
(* the backend's base_url since the refused request was sent.                 *)
ProbeStarts(b) ==
    /\ probe[b].pc = "created"
    /\ probe' = [probe EXCEPT ![b].pc = "sleeping"]
    /\ UNCHANGED <<healthVars, starting, watched>>

ProbeAborts(b) ==
    /\ probe[b].pc = "created"
    /\ probe' = [probe EXCEPT ![b] = NoWatcher]
    /\ watched' = watched \ {b}
    /\ UNCHANGED <<healthVars, starting>>

(* It wakes: a backend no longer frozen needs no watcher (is_frozen purges an *)
(* expired freeze), any other is asked.                                       *)
ProbeWakes(b) ==
    /\ probe[b].pc = "sleeping"
    /\ CheckFrozen(b)
    /\ probe' = [probe EXCEPT ![b] = IF IsFrozen(health, b)
                                       THEN [@ EXCEPT !.pc = "asking"]
                                       ELSE NoWatcher]
    /\ UNCHANGED <<starting, watched>>

(* The same refusal, no connection or any error: it sleeps again, or gives up *)
(* when that was the last probe.                                              *)
\* Mutant: a probe that finds no connection ends the loop with its error.
ProbeRefusedForGood(b) ==
    /\ probe[b].pc = "asking"
    /\ probe' = [probe EXCEPT ![b] = NoWatcher]
    /\ UNCHANGED <<healthVars, starting, watched>>

ProbeRefused(b) ==
    /\ probe[b].pc = "asking"
    /\ LET n == probe[b].left - 1
       IN /\ probe' = [probe EXCEPT ![b] = IF n > 0
                                             THEN [pc |-> "sleeping", left |-> n]
                                             ELSE NoWatcher]
          /\ watched' = IF n > 0 THEN watched ELSE watched \ {b}
    /\ UNCHANGED <<healthVars, starting>>

(* Any other answer: whatever freezes the backend by now is lifted.           *)
ProbeAnswered(b) ==
    /\ probe[b].pc = "asking"
    /\ UnfreezeBackend(b)
    /\ probe' = [probe EXCEPT ![b] = [pc |-> "leaving", left |-> 0]]
    /\ watched' = StillFrozen(watched)
    /\ UNCHANGED starting

ProbeEnds(b) ==
    /\ probe[b].pc = "leaving"
    /\ probe' = [probe EXCEPT ![b] = NoWatcher]
    /\ UNCHANGED <<healthVars, starting, watched>>

(* Everything else that happens to the health manager.                        *)
Requests ==
    /\ starting = {}
    /\ \E b \in Backends : \/ RecordSuccess(b)
                           \/ RecordFailure(b)
                           \/ \E c \in Categories : RecordHttpFailure(b, c)
                           \/ FreezeBackend(b, DefaultFreeze)
                           \/ CheckFrozen(b)
                           \/ UnfreezeBackend(b)
    /\ watched' = StillFrozen(watched)
    /\ UNCHANGED <<probe, starting>>

TimePasses ==
    /\ HealthTick
    /\ watched' = StillFrozen(watched)
    /\ UNCHANGED <<probe, starting>>

WatcherStep(b) == \/ ProbeStarts(b)
                  \/ ProbeAborts(b)
                  \/ ProbeWakes(b)
                  \/ ProbeRefused(b)
                  \/ ProbeAnswered(b)
                  \/ ProbeEnds(b)

ProbeNext ==
    \/ TimePasses
    \/ Requests
    \/ \E b \in Backends : StartupPasses(b) \/ StartupFreezes(b)
    \/ \E b \in Gated : NoCredentials(b) \/ WatcherStep(b)

ProbeSpec == ProbeInit /\ [][ProbeNext]_allVars

(* A watcher's task goes on: its sleep ends, and the POST of a probe ends by  *)
(* an answer, an error or its time-out of 10 s.                               *)
ProbeFairSpec == ProbeSpec /\ \A b \in Gated : WF_allVars(WatcherStep(b))
-----------------------------------------------------------------------------
(* "实际由探测任务驱动解冻" (proxy.py:128): a backend frozen for lack of        *)
(* credentials has a running watcher for as long as it stays frozen, whatever *)
(* else freezes it again, purges or lifts its freeze meanwhile and however    *)
(* many earlier watchers came and went.  Excepted are a watcher that has used *)
(* up its probes, one that finds no base_url when it starts, and a refusal    *)
(* that comes while the last watcher leaves.                                  *)
WatchedWhileFrozen ==
    \A b \in watched : /\ IsFrozen(health, b)
                       /\ probe[b].pc \in {"created", "sleeping", "asking"}

(* No watcher asks for ever ("24小时 = 1440 * 60s", proxy.py:131): it ends      *)
(* after its own probes however often requests are refused again while it     *)
(* runs and whoever renews or lifts the freeze, so that the next refusal can  *)
(* start another.                                                             *)
WatchersEnd == \A b \in Gated : []<>(probe[b].pc = "none")
=============================================================================
