-------------------------- MODULE RateLimitTracker ---------------------------
(* gateway/rate_limit_handler.py: RateLimitTracker, as operators on a record, *)
(* because the proxy updates several keys in one uninterrupted step (nothing  *)
(* here awaits).  Keys are account, account+model and backend identifiers.    *)
EXTENDS Naturals

CONSTANTS Keys,
          MinDelay,      \* the 2 s floor of every limit
          DefaultDelay,  \* _get_default_retry_delay for the plain reasons
          QuotaLadder,   \* the four lock-outs of an exhausted quota
          MaxDelay,      \* longest limit a response may ask for
          CountExpiry    \* _failure_count_expiry

Reasons == {"QUOTA_EXHAUSTED", "RATE_LIMIT_EXCEEDED", "MODEL_CAPACITY_EXHAUSTED",
            "SERVER_ERROR", "UNKNOWN"}

\* A response that names no delay, in its Retry-After header or its body.
NoHint == MaxDelay + 1

ASSUME TrackerAssumption ==
    /\ MinDelay \in 1..MaxDelay
    /\ MaxDelay \in Nat
    /\ DefaultDelay \in [Reasons \ {"QUOTA_EXHAUSTED"} -> 1..MaxDelay]
    /\ QuotaLadder \in [1..4 -> 1..MaxDelay]
    /\ \A i, j \in 1..4 : i <= j => QuotaLadder[i] <= QuotaLadder[j]
    /\ CountExpiry \in Nat

(* wait:  ticks until reset_time; 0 once it has passed or without an entry    *)
(* count: _failure_counts, up to 4: the ladder has no further rung            *)
(* age:   ticks since the count was last raised, up to just past its expiry   *)
Trackers == [wait  : [Keys -> 0..MaxDelay],
             count : [Keys -> 0..4],
             age   : [Keys -> 0..(CountExpiry + 1)]]

NewTracker == [wait  |-> [k \in Keys |-> 0],
               count |-> [k \in Keys |-> 0],
               age   |-> [k \in Keys |-> 0]]

Limited(t, k) == t.wait[k] > 0
-----------------------------------------------------------------------------
(* _get_failure_count raises the count it reads, from zero if it has expired. *)
\* Mutant: an expired count is raised all the same.
RaisedWithoutExpiry(t, k) == IF t.count[k] < 4 THEN t.count[k] + 1 ELSE 4

RaisedCount(t, k) ==
    LET old == IF t.age[k] > CountExpiry THEN 0 ELSE t.count[k]
    IN IF old < 4 THEN old + 1 ELSE 4

(* _get_default_retry_delay                                                   *)
DefaultRetryDelay(reason, count) ==
    IF reason = "QUOTA_EXHAUSTED" THEN QuotaLadder[count] ELSE DefaultDelay[reason]

AtLeast(n, bound) == IF n > bound THEN n ELSE bound

(* parse_from_error: a delay named by the response is taken as it is; without *)
(* one the default is, and only then is the failure counted.  The new limit   *)
(* replaces the old one.                                                      *)
Parsed(t, k, reason, hint) ==
    IF hint # NoHint
      THEN [t EXCEPT !.wait[k] = AtLeast(hint, MinDelay)]
      ELSE LET count == RaisedCount(t, k)
               delay == AtLeast(DefaultRetryDelay(reason, count), MinDelay)
           IN [wait  |-> [t.wait EXCEPT ![k] = delay],
               count |-> [t.count EXCEPT ![k] = count],
               age   |-> [t.age EXCEPT ![k] = 0]]

(* mark_success drops the count and the limit.                                *)
Succeeds(t, k) == [wait  |-> [t.wait EXCEPT ![k] = 0],
                   count |-> [t.count EXCEPT ![k] = 0],
                   age   |-> [t.age EXCEPT ![k] = 0]]

(* set_lockout_until, given the ticks until reset_time, none if it is past.   *)
LockedUntil(t, k, ticks) == [t EXCEPT !.wait[k] = ticks]

(* clear                                                                      *)
\* Mutant: the failure count goes with the limit.
ClearedWithCount(t, k) == Succeeds(t, k)

Cleared(t, k) == [t EXCEPT !.wait[k] = 0]

WaitElapsed(t) ==
    [wait  |-> [k \in Keys |-> IF t.wait[k] > 0 THEN t.wait[k] - 1 ELSE 0],
     count |-> t.count,
     age   |-> [k \in Keys |-> IF t.count[k] > 0 /\ t.age[k] <= CountExpiry
                                THEN t.age[k] + 1 ELSE t.age[k]]]
=============================================================================
