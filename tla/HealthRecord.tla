---------------------------- MODULE HealthRecord -----------------------------
(* gateway/health.py: BackendHealthManager.  Its methods run under one        *)
(* asyncio.Lock that is never held across another await, so a method is one   *)
(* step, and two methods awaited in a row with nothing else between them are  *)
(* one step too.  Methods are therefore operators from a health record to the *)
(* set of records they may leave, and callers compose them.                   *)
(*                                                                            *)
(* Times are ticks.  Three counters of the code only grow: they are kept up   *)
(* to the value from which the code cannot tell them apart.                   *)
EXTENDS Naturals, FiniteSets

CONSTANTS Backends,
          MaxHealthEntries,   \* MAX_HEALTH_ENTRIES
          MaxFrozenBackends,  \* MAX_FROZEN_BACKENDS
          MaxFreeze,          \* the 1800 s ceiling of a freeze
          DefaultFreeze,      \* DEFAULT_FREEZE_DURATION
          FreezeDuration,     \* HTTP_FREEZE_DURATION_MAP
          Threshold,          \* circuit_breaker_threshold
          MaxIdle             \* idle times from here on are not told apart

Categories == {"auth", "server", "timeout", "connection", "rate_limit"}

ASSUME HealthAssumption ==
    /\ IsFiniteSet(Backends)
    /\ MaxHealthEntries \in Nat
    /\ MaxFrozenBackends \in Nat
    /\ MaxFreeze \in Nat \ {0}
    /\ DefaultFreeze \in Nat \ {0}
    /\ FreezeDuration \in [Categories -> Nat \ {0}]
    /\ Threshold \in Nat \ {0}
    /\ MaxIdle \in Nat

(* known:       keys of _health_data                                          *)
(* idle:        ticks since last_success or last_failure, whichever is later  *)
(* consecutive: consecutive_failures, up to Threshold                         *)
(* multiplier:  2^_freeze_count, not doubled from MaxFreeze on; a missing     *)
(*              count is 2^0                                                  *)
(* frozen:      keys of _frozen_backends, expired ones included               *)
(* left:        ticks until the freeze expires; 0 once it has                 *)
Healths == [known       : SUBSET Backends,
            idle        : [Backends -> 0..MaxIdle],
            consecutive : [Backends -> 0..Threshold],
            multiplier  : [Backends -> Nat \ {0}],
            frozen      : SUBSET Backends,
            left        : [Backends -> 0..MaxFreeze]]

NewHealth == [known       |-> {},
              idle        |-> [b \in Backends |-> MaxIdle],
              consecutive |-> [b \in Backends |-> 0],
              multiplier  |-> [b \in Backends |-> 1],
              frozen      |-> {},
              left        |-> [b \in Backends |-> 0]]

AtMost(n, bound) == IF n < bound THEN n ELSE bound
-----------------------------------------------------------------------------
(* Dropping a backend's freeze, its count, or everything known of it.         *)
DropFreeze(h, b) == [h EXCEPT !.frozen = @ \ {b}, !.left[b] = 0]
DropCount(h, b) == [h EXCEPT !.multiplier[b] = 1]

Forget(h, b) ==
    [DropCount(DropFreeze(h, b), b) EXCEPT !.known = @ \ {b},
                                           !.idle[b] = MaxIdle,
                                           !.consecutive[b] = 0]

(* _get_or_create: a new key first evicts one of the least recently active    *)
(* entries, with its freeze, when there are more than MaxHealthEntries.       *)
LeastActive(h) == {k \in h.known : \A o \in h.known : h.idle[o] <= h.idle[k]}

GetOrCreate(h, b) ==
    IF b \in h.known
      THEN {h}
      ELSE {[g EXCEPT !.known = @ \cup {b}] :
              g \in IF Cardinality(h.known) > MaxHealthEntries
                      THEN {Forget(h, k) : k \in LeastActive(h)}
                      ELSE {h}}

(* _freeze_backend_locked: the duration doubles with every freeze not yet     *)
(* forgiven; a new freeze replaces the expiry of a running one; beyond        *)
(* MaxFrozenBackends the entry closest to its expiry goes, with its count.    *)
FreezeFor(h, b, duration) == AtMost(duration * h.multiplier[b], MaxFreeze)

Refrozen(h, b, duration) ==
    [h EXCEPT !.frozen = @ \cup {b},
              !.left[b] = FreezeFor(h, b, duration),
              !.multiplier[b] = IF @ < MaxFreeze THEN 2 * @ ELSE @]

SoonestToExpire(h) == {k \in h.frozen : \A o \in h.frozen : h.left[k] <= h.left[o]}

\* Mutant: the size check comes one entry late.
FreezeEvictsLate(h, b, duration) ==
    LET g == Refrozen(h, b, duration)
    IN IF Cardinality(g.frozen) > MaxFrozenBackends + 1
         THEN {DropCount(DropFreeze(g, k), k) : k \in SoonestToExpire(g)}
         ELSE {g}

Freeze(h, b, duration) ==
    LET g == Refrozen(h, b, duration)
    IN IF Cardinality(g.frozen) > MaxFrozenBackends
         THEN {DropCount(DropFreeze(g, k), k) : k \in SoonestToExpire(g)}
         ELSE {g}

(* record_success: forgives the count, but leaves a running freeze in place.  *)
\* Mutant: the run of failures goes on through a success.
SucceededKeepsRun(h, b) ==
    {[DropCount(g, b) EXCEPT !.idle[b] = 0] : g \in GetOrCreate(h, b)}

Succeeded(h, b) ==
    {[DropCount(g, b) EXCEPT !.idle[b] = 0, !.consecutive[b] = 0] :
        g \in GetOrCreate(h, b)}

(* record_failure *)
Failed(h, b) ==
    {[g EXCEPT !.idle[b] = 0, !.consecutive[b] = AtMost(@ + 1, Threshold)] :
        g \in GetOrCreate(h, b)}

(* record_http_failure: freezes at the threshold, by category.                *)
HttpFailed(h, b, category) ==
    UNION {IF g.consecutive[b] < Threshold
             THEN {g}
             ELSE Freeze(g, b, FreezeDuration[category]) : g \in GetOrCreate(h, b)}

(* is_frozen: the answer, and what the call leaves behind.  An expired freeze *)
(* is purged; its count stays unless nothing else is known of the backend.    *)
IsFrozen(h, b) == b \in h.frozen /\ h.left[b] > 0

\* Mutant: the count of a backend nothing is known of outlives its freeze.
PurgedKeepingOrphan(h, b) ==
    IF b \in h.frozen /\ ~IsFrozen(h, b) THEN DropFreeze(h, b) ELSE h

Purged(h, b) ==
    IF b \notin h.frozen \/ IsFrozen(h, b) THEN h
    ELSE IF b \in h.known THEN DropFreeze(h, b)
    ELSE DropCount(DropFreeze(h, b), b)

(* get_freeze_remaining *)
FreezeRemaining(h, b) == IF b \in h.frozen THEN h.left[b] ELSE 0

(* unfreeze_backend: the count is reset only if the freeze is still listed.   *)
Unfrozen(h, b) == IF b \in h.frozen THEN DropCount(DropFreeze(h, b), b) ELSE h

Elapsed(h) ==
    [h EXCEPT !.idle = [b \in Backends |-> AtMost(h.idle[b] + 1, MaxIdle)],
              !.left = [b \in Backends |-> IF h.left[b] > 0 THEN h.left[b] - 1
                                                            ELSE 0]]

(* classify_http_error, on the classes of status it tells apart; "none" is a  *)
(* failure with no status, told by its message.                               *)
Classify(status, message) ==
    CASE status \in {401, 403} -> "auth"
      [] status = 408 -> "timeout"
      [] status = 429 -> "rate_limit"
      [] status = 0 /\ message = "timeout" -> "timeout"
      [] status = 0 /\ message = "refused" -> "connection"
      [] OTHER -> "server"
=============================================================================
