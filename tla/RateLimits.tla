------------------------------ MODULE RateLimits ------------------------------
(* The rate-limit tracker on its own: its methods called in any order for any *)
(* keys, as requests to several backends and accounts do.                     *)
EXTENDS RateLimitTracker

VARIABLES tracker,  \* RateLimitTracker
          last,    \* history: the last lock-out for an exhausted quota that no
                   \* hint decided, 0 if there was none since a success
          since    \* history: ticks since a failure without a hint, past
                   \* CountExpiry if there was none since a success

limitsVars == <<tracker, last, since>>

LimitsTypeOK == /\ tracker \in Trackers
                /\ last \in [Keys -> 0..MaxDelay]
                /\ since \in [Keys -> 0..(CountExpiry + 1)]

LimitsInit == /\ tracker = NewTracker
              /\ last = [k \in Keys |-> 0]
              /\ since = [k \in Keys |-> CountExpiry + 1]

Parse(k, reason, hint) ==
    /\ tracker' = Parsed(tracker, k, reason, hint)
    /\ last' = [last EXCEPT ![k] =
                   CASE hint # NoHint -> @
                     [] hint = NoHint /\ reason = "QUOTA_EXHAUSTED" -> tracker'.wait[k]
                     [] OTHER -> IF since[k] > CountExpiry THEN 0 ELSE @]
    /\ since' = [since EXCEPT ![k] = IF hint = NoHint THEN 0 ELSE @]

MarkSuccess(k) == /\ tracker' = Succeeds(tracker, k)
                  /\ last' = [last EXCEPT ![k] = 0]
                  /\ since' = [since EXCEPT ![k] = CountExpiry + 1]

SetLockoutUntil(k, ticks) == /\ tracker' = LockedUntil(tracker, k, ticks)
                             /\ UNCHANGED <<last, since>>

Clear(k) == /\ Limited(tracker, k)
            /\ tracker' = Cleared(tracker, k)
            /\ UNCHANGED <<last, since>>

LimitsTick == /\ tracker' = WaitElapsed(tracker)
              /\ since' = [k \in Keys |-> IF since[k] <= CountExpiry THEN since[k] + 1
                                                                     ELSE since[k]]
              /\ UNCHANGED last

LimitsNext ==
    \/ LimitsTick
    \/ \E k \in Keys :
          \/ \E reason \in Reasons, hint \in 0..NoHint : Parse(k, reason, hint)
          \/ MarkSuccess(k)
          \/ \E ticks \in 0..MaxDelay : SetLockoutUntil(k, ticks)
          \/ Clear(k)

LimitsSpec == LimitsInit /\ [][LimitsNext]_limitsVars
-----------------------------------------------------------------------------
(* "根据连续失败次数动态调整锁定时间" (rate_limit_handler.py:322): while a key *)
(* keeps failing, each lock-out for an exhausted quota is at least as long as *)
(* the one before, whatever limits were set, cleared or expired in between.   *)
QuotaLadderClimbs ==
    [][\A k \in Keys : Parse(k, "QUOTA_EXHAUSTED", NoHint) /\ since[k] <= CountExpiry
                       => tracker'.wait[k] >= last[k]]_limitsVars

(* After a success, or once the count has expired, the next lock-out is the   *)
(* shortest again ("从最短的锁定时间开始", line 87), on this key alone.       *)
FreshRunStartsShort ==
    [][\A k \in Keys : Parse(k, "QUOTA_EXHAUSTED", NoHint) /\ since[k] > CountExpiry
                       => tracker'.wait[k] = AtLeast(QuotaLadder[1], MinDelay)]_limitsVars
=============================================================================
