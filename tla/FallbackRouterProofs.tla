-------------------------- MODULE FallbackRouterProofs --------------------------
(* The router's promise, for any backends, configurations and budget, its      *)
(* stops, and what it calls.  The first two do not depend on what the chain    *)
(* holds; the second half is about that.  The circuit breaker's proofs are at  *)
(* the end.                                                                    *)
EXTENDS FallbackRouter, CircuitBreaker, SelectionProofs, SequenceTheorems, TLAPS

(* The trail is a sequence, whatever its calls hold.                           *)
IsTrail(t) == \E S : t \in Seq(S)

(* What is known when the router looks for the next call: a call for each      *)
(* attempt, or a budget that is spent.                                         *)
Within(t, n) == /\ IsTrail(t) /\ n \in Nat
                /\ Len(t) <= MAX_FALLBACK_ATTEMPTS /\ Len(t) <= n

(* Nothing is counted for the final fallback, so the last conjunct is needed   *)
(* where the loop or the cross-model call fails and the final one follows.     *)
CountInv == /\ IsTrail(trail) /\ attempts \in Nat
            /\ phase \in {"none"} \cup Pending \cup Ended
            /\ Len(trail) <= MAX_FALLBACK_ATTEMPTS
            /\ phase = "none" => Len(trail) = 0
            /\ phase \in Pending => Len(trail) >= 1
            /\ phase \in {"chain", "cross"} => Len(trail) <= attempts

LEMMA EmptyTrail == IsTrail(<<>>) /\ Len(<<>>) = 0
  BY DEF IsTrail

LEMMA TrailGrows ==
  ASSUME NEW t, IsTrail(t), NEW e
  PROVE  IsTrail(Append(t, e)) /\ Len(Append(t, e)) = Len(t) + 1 /\ Len(t) \in Nat
  <1>1. PICK S : t \in Seq(S)  BY DEF IsTrail
  <1>2. t \in Seq(S \cup {e})  BY <1>1
  <1>3. /\ Append(t, e) \in Seq(S \cup {e})
        /\ Len(Append(t, e)) = Len(t) + 1 /\ Len(t) \in Nat  BY <1>2
  <1>  QED  BY <1>3 DEF IsTrail

LEMMA TrailAnswered ==
  ASSUME IsTrail(trail), Len(trail) >= 1, NEW f
  PROVE  /\ IsTrail(With(f)) /\ Len(With(f)) = Len(trail)
         /\ DOMAIN With(f) = DOMAIN trail
  <1> DEFINE n == Len(trail)
             last == [trail[n] EXCEPT !.answer = f]
  <1>1. PICK S : trail \in Seq(S)  BY DEF IsTrail
  <1>2. With(f) = [i \in 1..n |-> IF i = n THEN last ELSE trail[i]]
    BY <1>1 DEF With
  <1>3. \A i \in 1..n : trail[i] \in S  BY <1>1
  <1>4. With(f) \in [1..n -> S \cup {last}]  BY <1>2, <1>3
  <1>5. n \in Nat /\ DOMAIN trail = 1..n  BY <1>1
  <1>6. With(f) \in Seq(S \cup {last}) /\ Len(With(f)) = n
    BY <1>4, <1>5
  <1>  QED  BY <1>2, <1>5, <1>6 DEF IsTrail
-----------------------------------------------------------------------------
(* Where a request goes after t: nowhere, or to one more backend within the    *)
(* budget.  The new call is the last of the trail and has no answer yet.       *)
NewCall(stage, c) == \E b, m : c = [stage |-> stage, backend |-> b, model |-> m,
                                    answer |-> NoAnswer]
Sent(t) == /\ phase' \in Pending
           /\ \E c : trail' = Append(t, c) /\ NewCall(phase', c)
           /\ Len(trail') = Len(t) + 1 /\ Len(trail') <= MAX_FALLBACK_ATTEMPTS
           /\ phase' \in {"chain", "cross"} => Len(trail') <= attempts'
Refused(t) == phase' = "refused" /\ trail' = t
Moves(t) == /\ IsTrail(trail') /\ attempts' \in Nat /\ Len(t) \in Nat
            /\ Sent(t) \/ Refused(t)

LEMMA SendMoves ==
  ASSUME NEW t, NEW n, Within(t, n), NEW stage \in Pending, NEW b, NEW m,
         Send(stage, b, m, t, n), Len(t) < MAX_FALLBACK_ATTEMPTS,
         stage # "final" => Len(t) < n
  PROVE  Moves(t)
  <1> DEFINE c == [stage |-> stage, backend |-> b, model |-> SentAs(b, m), answer |-> NoAnswer]
  <1>1. /\ trail' = Append(t, c) /\ phase' = stage /\ attempts' = n
    BY DEF Send
  <1>2. /\ IsTrail(trail') /\ Len(trail') = Len(t) + 1 /\ Len(t) \in Nat
    BY <1>1, TrailGrows DEF Within
  <1>3. NewCall(phase', c)  BY <1>1 DEF NewCall
  <1>4. Len(trail') <= MAX_FALLBACK_ATTEMPTS
    BY <1>2, RouterAssumption DEF RouterAssumption
  <1>5. phase' \in {"chain", "cross"} => Len(trail') <= attempts'
    BY <1>1, <1>2 DEF Within
  <1>6. Sent(t)  BY <1>1, <1>2, <1>3, <1>4, <1>5 DEF Sent
  <1>  QED  BY <1>1, <1>2, <1>6 DEF Moves, Within

LEMMA RefuseMoves ==
  ASSUME NEW t, NEW n, Within(t, n), EndAs("refused", t, n)
  PROVE  Moves(t)
  <1>1. Len(t) \in Nat  BY TrailGrows DEF Within
  <1>  QED  BY <1>1 DEF Moves, Refused, EndAs, Within

LEMMA FinalMoves ==
  ASSUME NEW t, NEW n, Within(t, n), TryFinal(t, n)
  PROVE  Moves(t)
  <1>1. CASE FinalUsable /\ n < MAX_FALLBACK_ATTEMPTS
    <2>1. Send("final", config.final.backend, model, t, n)  BY <1>1 DEF TryFinal
    <2>2. Len(t) < MAX_FALLBACK_ATTEMPTS
      BY <1>1, TrailGrows, RouterAssumption DEF Within, RouterAssumption
    <2>  QED  BY <2>1, <2>2, SendMoves DEF Pending
  <1>2. CASE ~(FinalUsable /\ n < MAX_FALLBACK_ATTEMPTS)
    BY <1>2, RefuseMoves DEF TryFinal
  <1>  QED  BY <1>1, <1>2

LEMMA OneMore ==
  ASSUME NEW t, NEW n, Within(t, n)
  PROVE  /\ Within(t, n + 1) /\ Len(t) < n + 1
         /\ n + 1 <= MAX_FALLBACK_ATTEMPTS => Len(t) < MAX_FALLBACK_ATTEMPTS
  <1>1. Len(t) \in Nat  BY TrailGrows DEF Within
  <1>  QED  BY <1>1, RouterAssumption DEF Within, RouterAssumption

LEMMA CrossMoves ==
  ASSUME NEW t, NEW n, Within(t, n), TryCross(t, n)
  PROVE  Moves(t)
  <1>1. CASE ~CrossUsable
    BY <1>1, FinalMoves DEF TryCross
  <1>2. CASE CrossUsable /\ n + 1 > MAX_FALLBACK_ATTEMPTS
    <2>1. TryFinal(t, n + 1)  BY <1>2 DEF TryCross
    <2>  QED  BY <2>1, OneMore, FinalMoves
  <1>3. CASE CrossUsable /\ ~(n + 1 > MAX_FALLBACK_ATTEMPTS)
    <2>1. Send("cross", config.cross.backend, config.cross.model, t, n + 1)
      BY <1>3 DEF TryCross
    <2>2. n + 1 <= MAX_FALLBACK_ATTEMPTS
      BY <1>3, RouterAssumption DEF Within, RouterAssumption
    <2>  QED  BY <2>1, <2>2, OneMore, SendMoves DEF Pending
  <1>  QED  BY <1>1, <1>2, <1>3

LEMMA ChainMoves ==
  ASSUME NEW chain, NEW t, NEW n, Within(t, n), TryChain(chain, t, n)
  PROVE  Moves(t)
  <1> DEFINE usable == {i \in DOMAIN chain : ~Skipped(chain[i])}
             next == CHOOSE i \in usable : \A j \in usable : i <= j
  <1>1. CASE usable = {}
    BY <1>1, CrossMoves DEF TryChain
  <1>2. CASE usable # {} /\ n + 1 > MAX_FALLBACK_ATTEMPTS
    <2>1. TryCross(t, n + 1)  BY <1>2 DEF TryChain
    <2>  QED  BY <2>1, OneMore, CrossMoves
  <1>3. CASE usable # {} /\ ~(n + 1 > MAX_FALLBACK_ATTEMPTS)
    <2>1. Send("chain", chain[next].backend, chain[next].model, t, n + 1)
      BY <1>3 DEF TryChain
    <2>2. n + 1 <= MAX_FALLBACK_ATTEMPTS
      BY <1>3, RouterAssumption DEF Within, RouterAssumption
    <2>  QED  BY <2>1, <2>2, OneMore, SendMoves DEF Pending
  <1>  QED  BY <1>1, <1>2, <1>3
-----------------------------------------------------------------------------
(* One lemma for the steps that look for a next call after a failure.          *)
LEMMA FailureMoves ==
  ASSUME CountInv, NEW f,
         \/ ChainFails(f) \/ ChainStops(f) \/ CrossFails(f) \/ FinalFails(f)
  PROVE  /\ Moves(With(f)) /\ Len(With(f)) = Len(trail)
         /\ phase \in Pending /\ UNCHANGED policy
  <1>1. phase \in Pending
    BY DEF ChainFails, ChainStops, CrossFails, FinalFails, Pending
  <1>2. IsTrail(With(f)) /\ Len(With(f)) = Len(trail)
    BY <1>1, TrailAnswered DEF CountInv
  <1>3. phase # "final" => Within(With(f), attempts)
    BY <1>1, <1>2 DEF CountInv, Within, Pending
  <1>4. CASE ChainFails(f)
    <2>1. TryChain(rest, With(f), attempts) /\ phase = "chain"
      BY <1>4 DEF ChainFails
    <2>  QED  BY <1>1, <1>2, <1>3, <1>4, <2>1, ChainMoves DEF ChainFails
  <1>5. CASE ChainStops(f)
    <2>1. TryFinal(With(f), attempts) /\ phase = "chain"
      BY <1>5 DEF ChainStops
    <2>  QED  BY <1>1, <1>2, <1>3, <1>5, <2>1, FinalMoves DEF ChainStops
  <1>6. CASE CrossFails(f)
    <2>1. TryFinal(With(f), attempts) /\ phase = "cross"
      BY <1>6 DEF CrossFails
    <2>  QED  BY <1>1, <1>2, <1>3, <1>6, <2>1, FinalMoves DEF CrossFails
  <1>7. CASE FinalFails(f)
    <2>1. EndAs("refused", With(f), attempts)  BY <1>7 DEF FinalFails
    <2>2. Moves(With(f))
      BY <1>2, <2>1, TrailGrows DEF EndAs, Moves, Refused, CountInv
    <2>  QED  BY <1>1, <1>2, <1>7, <2>2 DEF FinalFails
  <1>  QED  BY <1>4, <1>5, <1>6, <1>7

LEMMA RouteMoves ==
  ASSUME NEW limited, Route(limited)
  PROVE  /\ phase \notin Pending
         /\ Moves(<<>>) \/ (phase' = "raised" /\ trail' = <<>> /\ attempts' = 0)
  <1>1. CASE RuleChainRaises
    BY <1>1 DEF Route, EndAs
  <1>2. CASE ~RuleChainRaises
    <2>1. TryChain(WithoutLimited(BuiltChain, limited), <<>>, 0) /\ phase \notin Pending
      BY <1>2 DEF Route
    <2>2. Within(<<>>, 0)
      BY EmptyTrail, RouterAssumption DEF Within, RouterAssumption
    <2>  QED  BY <2>1, <2>2, ChainMoves
  <1>  QED  BY <1>1, <1>2

LEMMA MovesKeepCount ==
  ASSUME NEW t, Moves(t), Len(t) <= MAX_FALLBACK_ATTEMPTS
  PROVE  CountInv'
  <1>1. CASE Sent(t)
    <2>1. Len(trail') >= 1  BY <1>1 DEF Sent, Moves
    <2>  QED  BY <1>1, <2>1 DEF Sent, Moves, CountInv, Pending
  <1>2. CASE Refused(t)
    BY <1>2 DEF Refused, Moves, CountInv, Pending, Ended
  <1>  QED  BY <1>1, <1>2 DEF Moves

LEMMA CountStep ==
  ASSUME CountInv, [Next]_vars
  PROVE  CountInv'
  <1>1. ASSUME NEW limited \in SUBSET Backends, Route(limited) PROVE CountInv'
    <2>1. CASE Moves(<<>>)
      BY <2>1, MovesKeepCount, EmptyTrail, RouterAssumption DEF RouterAssumption
    <2>2. CASE phase' = "raised" /\ trail' = <<>> /\ attempts' = 0
      BY <2>2, EmptyTrail, RouterAssumption DEF CountInv, Ended, Pending, RouterAssumption
    <2>  QED  BY <1>1, <2>1, <2>2, RouteMoves
  <1>2. CASE Answered
    <2>1. phase \in Pending /\ EndAs("answered", With(Success), attempts)
      BY <1>2 DEF Answered
    <2>2. IsTrail(With(Success)) /\ Len(With(Success)) = Len(trail)
      BY <2>1, TrailAnswered DEF CountInv
    <2>  QED  BY <2>1, <2>2 DEF EndAs, CountInv, Ended, Pending
  <1>3. CASE Fails
    <2>1. PICK f : \/ ChainFails(f) \/ ChainStops(f) \/ CrossFails(f) \/ FinalFails(f)
      BY <1>3 DEF Fails
    <2>  QED  BY <2>1, FailureMoves, MovesKeepCount DEF CountInv
  <1>4. CASE World
    BY <1>4 DEF World, Freeze, Thaw, Trip, Untrip, CountInv
  <1>5. CASE UNCHANGED vars
    BY <1>5 DEF vars, CountInv
  <1>  QED  BY <1>1, <1>2, <1>3, <1>4, <1>5 DEF Next

LEMMA CountStart == Init => CountInv
  BY EmptyTrail, RouterAssumption DEF Init, CountInv, RouterAssumption, Pending

LEMMA CountHolds == Spec => []CountInv
  <1>  QED  BY CountStart, CountStep, PTL DEF Spec

(* SEC-9 and the router's docstring (proxy.py:80, 4123): for any backends,     *)
(* configurations and budget, the calls of a request stay within the budget,   *)
(* none follows its answer, and it ends once; every step of the router is a    *)
(* step of BoundedFailover or none of its business.                            *)
THEOREM RouterKeepsItsPromise == Spec => Promise!Spec
  <1>1. Init => Promise!Init
    BY EmptyTrail DEF Init, Promise!Init, Pending
  <1>2. ASSUME CountInv, [Next]_vars
        PROVE  [Promise!Next]_(Promise!vars)
    <2>1. ASSUME NEW limited \in SUBSET Backends, Route(limited)
          PROVE  Promise!Arrive
      <3>1. CASE Moves(<<>>) /\ Sent(<<>>)
        BY <1>2, <2>1, <3>1, RouteMoves, EmptyTrail DEF Sent, Promise!Arrive, CountInv, Ended
      <3>2. CASE Moves(<<>>) /\ Refused(<<>>)
        BY <1>2, <2>1, <3>2, RouteMoves, EmptyTrail
           DEF Refused, Promise!Arrive, CountInv, Ended, Pending
      <3>3. CASE phase' = "raised" /\ trail' = <<>>
        BY <1>2, <2>1, <3>3, RouteMoves, EmptyTrail
           DEF Promise!Arrive, CountInv, Ended, Pending
      <3>  QED  BY <2>1, <3>1, <3>2, <3>3, RouteMoves DEF Moves
    <2>2. CASE Answered
      <3>1. phase \in Pending /\ EndAs("answered", With(Success), attempts)
        BY <2>2 DEF Answered
      <3>2. Len(With(Success)) = Len(trail)
        BY <1>2, <3>1, TrailAnswered DEF CountInv
      <3>3. Promise!Answer
        BY <3>1, <3>2 DEF EndAs, Promise!Answer, Pending
      <3>  QED  BY <3>3 DEF Promise!Next
    <2>3. CASE Fails
      <3>1. PICK f : \/ ChainFails(f) \/ ChainStops(f) \/ CrossFails(f) \/ FinalFails(f)
        BY <2>3 DEF Fails
      <3>2. /\ Moves(With(f)) /\ Len(With(f)) = Len(trail) /\ phase \in Pending
        BY <1>2, <3>1, FailureMoves
      <3>3. CASE Sent(With(f))
        BY <3>2, <3>3, RouterAssumption
           DEF Sent, Moves, Promise!Resend, Promise!Next, RouterAssumption
      <3>4. CASE Refused(With(f))
        BY <3>2, <3>4 DEF Refused, Promise!Fail, Promise!Next, Pending
      <3>  QED  BY <3>2, <3>3, <3>4 DEF Moves
    <2>4. CASE World
      BY <2>4 DEF World, Freeze, Thaw, Trip, Untrip, Promise!vars
    <2>5. CASE UNCHANGED vars
      BY <2>5 DEF vars, Promise!vars
    <2>  QED  BY <1>2, <2>1, <2>2, <2>3, <2>4, <2>5 DEF Next, Promise!Next
  <1>  QED  BY <1>1, <1>2, CountHolds, PTL DEF Spec, Promise!Spec
-----------------------------------------------------------------------------
(* StopIsKept speaks of calls that have been answered; the call under way must *)
(* be known to be of the stage the router is in.                               *)
StopInv == /\ phase \in Pending => NewCall(phase, trail[Len(trail)])
           /\ StopIsKept

Unlisted(c) == c.stage = "chain" /\ policy # {} /\ c.answer.shown \cap policy = {}

LEMMA AppendedCalls ==
  ASSUME NEW t, IsTrail(t), NEW c
  PROVE  /\ Append(t, c)[Len(t) + 1] = c
         /\ \A i \in 1..Len(t) : Append(t, c)[i] = t[i]
  <1>1. PICK S : t \in Seq(S)  BY DEF IsTrail
  <1>2. t \in Seq(S \cup {c})  BY <1>1
  <1>  QED  BY <1>2

LEMMA AnsweredCalls ==
  ASSUME CountInv, phase \in Pending, NewCall(phase, trail[Len(trail)]), NEW f
  PROVE  /\ \A i \in 1..(Len(trail) - 1) : With(f)[i] = trail[i]
         /\ With(f)[Len(trail)].stage = phase
         /\ With(f)[Len(trail)].answer = f
         /\ \A i \in 1..Len(trail) : With(f)[i].stage = trail[i].stage
         /\ Len(trail) \in Nat \ {0}
  <1>1. PICK n : n = Len(trail)  OBVIOUS
  <1>2. PICK S : trail \in Seq(S)  BY DEF IsTrail, CountInv
  <1>3. n \in Nat /\ n >= 1 /\ DOMAIN trail = 1..n
    BY <1>1, <1>2 DEF CountInv
  <1>4. PICK b, m : trail[n] = [stage |-> phase, backend |-> b, model |-> m,
                                answer |-> NoAnswer]
    BY <1>1 DEF NewCall
  <1> DEFINE last == [stage |-> phase, backend |-> b, model |-> m, answer |-> f]
  <1>5. [trail[n] EXCEPT !.answer = f] = last
    BY <1>4
  <1>6. With(f) = [i \in 1..n |-> IF i = n THEN last ELSE trail[i]]
    BY <1>1, <1>3, <1>5 DEF With
  <1>7. With(f)[n] = last
    BY <1>3, <1>6
  <1>8. ASSUME NEW i \in 1..(n - 1) PROVE With(f)[i] = trail[i]
    <2>1. i \in 1..n /\ i # n  BY <1>3
    <2>  QED  BY <1>6, <2>1
  <1>9. ASSUME NEW i \in 1..n PROVE With(f)[i].stage = trail[i].stage
    <2>1. CASE i = n  BY <1>4, <1>7, <2>1
    <2>2. CASE i # n
      <3>1. i \in 1..(n - 1)  BY <1>3, <2>2
      <3>  QED  BY <1>8, <3>1
    <2>  QED  BY <2>1, <2>2
  <1>  QED  BY <1>1, <1>3, <1>7, <1>8, <1>9

LEMMA FinalOnly ==
  ASSUME NEW t, NEW n, TryFinal(t, n)
  PROVE  phase' \in {"final", "refused"}
  BY DEF TryFinal, Send, EndAs

LEMMA FailureKeepsStops ==
  ASSUME CountInv, StopInv, NEW f,
         \/ ChainFails(f) \/ ChainStops(f) \/ CrossFails(f) \/ FinalFails(f)
  PROVE  StopInv'
  <1> DEFINE n == Len(trail)
             t == With(f)
  <1>1. /\ Moves(t) /\ Len(t) = n /\ phase \in Pending /\ policy' = policy
    BY FailureMoves
  <1>2. IsTrail(t)
    BY <1>1, TrailAnswered DEF CountInv
  <1>3. /\ \A i \in 1..(n - 1) : t[i] = trail[i]
        /\ t[n].stage = phase /\ t[n].answer = f
        /\ \A i \in 1..n : t[i].stage = trail[i].stage
        /\ n \in Nat \ {0}
    BY <1>1, AnsweredCalls DEF StopInv
  <1>4. \A i \in 1..(n - 1) : Unlisted(t[i]) => t[i + 1].stage = "final"
    <2>1. \A i \in 1..(n - 1) : Unlisted(trail[i]) => trail[i + 1].stage = "final"
      BY DEF StopInv, StopIsKept, Unlisted
    <2>  HIDE DEF t
    <2>2. ASSUME NEW i \in 1..(n - 1), Unlisted(t[i])
          PROVE  t[i + 1].stage = "final"
      <3>1. t[i] = trail[i] /\ i + 1 \in 1..n
        BY <1>3
      <3>2. trail[i + 1].stage = "final"
        BY <2>1, <2>2, <3>1
      <3>  QED  BY <1>3, <3>1, <3>2
    <2>  QED  BY <2>2
  <1>5. Unlisted(t[n]) => phase' \in {"final", "refused"}
    <2>1. SUFFICES ASSUME Unlisted(t[n]) PROVE phase' \in {"final", "refused"}
      OBVIOUS
    <2>2. phase = "chain" /\ ~Continues(f)
      BY <1>3, <2>1 DEF Unlisted, Continues
    <2>3. ChainStops(f)
      BY <2>2 DEF ChainFails, CrossFails, FinalFails
    <2>  QED  BY <2>3, FinalOnly DEF ChainStops
  <1>6. CASE Refused(t)
    <2>1. Len(trail') = n /\ trail' = t /\ phase' = "refused"
      BY <1>1, <1>6 DEF Refused
    <2>2. StopIsKept'
      BY <1>1, <1>4, <2>1 DEF StopIsKept, Unlisted
    <2>  QED  BY <2>1, <2>2 DEF StopInv, Pending
  <1>7. CASE Sent(t)
    <2>1. PICK c : trail' = Append(t, c) /\ NewCall(phase', c)
      BY <1>7 DEF Sent
    <2>2. /\ Len(trail') = n + 1 /\ phase' \in Pending /\ trail'[n + 1] = c
          /\ \A i \in 1..n : trail'[i] = t[i]
      BY <1>1, <1>2, <1>7, <2>1, AppendedCalls DEF Sent
    <2>3. c.stage = phase'  BY <2>1 DEF NewCall
    <2>4. \A i \in 1..n : Unlisted(trail'[i]) => trail'[i + 1].stage = "final"
      <3>1. TAKE i \in 1..n
      <3>2. CASE i = n
        BY <1>5, <2>2, <2>3, <3>2 DEF Pending
      <3>3. CASE i # n
        <4>1. i \in 1..(n - 1) /\ i + 1 \in 1..n  BY <1>3, <3>1, <3>3
        <4>  QED  BY <1>4, <2>2, <4>1
      <3>  QED  BY <3>2, <3>3
    <2>5. StopIsKept'
      BY <1>1, <1>3, <2>2, <2>4 DEF StopIsKept, Unlisted
    <2>6. NewCall(phase', trail'[Len(trail')])
      BY <2>1, <2>2
    <2>  QED  BY <2>5, <2>6 DEF StopInv
  <1>  QED  BY <1>1, <1>6, <1>7 DEF Moves

LEMMA StopStep ==
  ASSUME CountInv, StopInv, [Next]_vars
  PROVE  StopInv'
  <1>1. ASSUME NEW limited \in SUBSET Backends, Route(limited) PROVE StopInv'
    <2>1. CASE Moves(<<>>) /\ Sent(<<>>)
      <3>1. PICK c : trail' = Append(<<>>, c) /\ NewCall(phase', c)
        BY <2>1 DEF Sent
      <3>2. Len(trail') = 1 /\ trail'[1] = c
        BY <3>1, EmptyTrail, AppendedCalls, TrailGrows
      <3>  QED  BY <3>1, <3>2 DEF StopInv, StopIsKept
    <2>2. CASE Moves(<<>>) /\ Refused(<<>>)
      BY <2>2, EmptyTrail DEF Refused, StopInv, StopIsKept, Pending
    <2>3. CASE phase' = "raised" /\ trail' = <<>>
      BY <2>3, EmptyTrail DEF StopInv, StopIsKept, Pending
    <2>  QED  BY <1>1, <2>1, <2>2, <2>3, RouteMoves DEF Moves
  <1>2. CASE Answered
    <2>1. /\ phase \in Pending /\ EndAs("answered", With(Success), attempts)
          /\ policy' = policy
      BY <1>2 DEF Answered
    <2>2. Len(With(Success)) = Len(trail)
      BY <2>1, TrailAnswered DEF CountInv
    <2>3. /\ trail' = With(Success) /\ phase' = "answered"
          /\ Len(trail') = Len(trail)
      BY <2>1, <2>2 DEF EndAs
    <2>4. /\ \A i \in 1..(Len(trail) - 1) : With(Success)[i] = trail[i]
          /\ \A i \in 1..Len(trail) : With(Success)[i].stage = trail[i].stage
          /\ Len(trail) \in Nat \ {0}
      BY <2>1, AnsweredCalls DEF StopInv
    <2>5. StopIsKept'
      BY <2>1, <2>3, <2>4 DEF StopInv, StopIsKept
    <2>  QED  BY <2>3, <2>5 DEF StopInv, Pending
  <1>3. CASE Fails
    <2>1. PICK f : \/ ChainFails(f) \/ ChainStops(f) \/ CrossFails(f) \/ FinalFails(f)
      BY <1>3 DEF Fails
    <2>  QED  BY <2>1, FailureKeepsStops
  <1>4. CASE World
    BY <1>4 DEF World, Freeze, Thaw, Trip, Untrip, StopInv, StopIsKept, NewCall
  <1>5. CASE UNCHANGED vars
    BY <1>5 DEF vars, StopInv, StopIsKept, NewCall
  <1>  QED  BY <1>1, <1>2, <1>3, <1>4, <1>5 DEF Next

(* [FIX 2026-03-16] (proxy.py:4641-4654), for any chain, conditions and        *)
(* backends: a failure of the chain that active_fallback_on does not list is   *)
(* followed by the final fallback or by nothing.                               *)
THEOREM StopsAreKept == Spec => []StopIsKept
  <1>1. Init => StopInv
    BY EmptyTrail DEF Init, StopInv, StopIsKept, Pending
  <1>2. StopInv => StopIsKept
    BY DEF StopInv
  <1>  QED  BY <1>1, <1>2, StopStep, CountHolds, PTL DEF Spec
-----------------------------------------------------------------------------
(* What the chain holds.                                                       *)
LEMMA ConfigIs ==
  ASSUME config \in Configs
  PROVE  /\ config.rule.chain \in Seq(Entries) /\ config.priority \in Seq(Backends)
         /\ config.default.chain \in Seq(Backends)
         /\ config.catch_all.chain \in Seq(Backends)
         /\ config.rule.fallback_on \subseteq Conditions
         /\ config.default.fallback_on \subseteq Conditions
         /\ config.catch_all.fallback_on \subseteq Conditions
         /\ config.cross.backend \in Backends \cup {NoBackend}
         /\ config.cross.model \in Models
         /\ config.final.backend \in Backends
  <1>1. config \in Config
    BY RouterAssumption
  <1>  QED  BY <1>1 DEF Config

LEMMA RuleChainIs ==
  ASSUME config \in Configs
  PROVE  /\ RuleChain \in Seq(Entries)
         /\ RuleChain # <<>> => config.rule.enabled
         /\ \A i \in DOMAIN RuleChain : \E j \in DOMAIN config.rule.chain :
               RuleChain[i] = config.rule.chain[j] /\ RuleAdmits(config.rule.chain[j])
         /\ config.rule.enabled => \A j \in DOMAIN config.rule.chain :
               RuleAdmits(config.rule.chain[j]) =>
                  \E i \in DOMAIN RuleChain : RuleChain[i] = config.rule.chain[j]
  <1> DEFINE s == config.rule.chain
             chosen == {j \in DOMAIN s : RuleAdmits(s[j])}
             r == Selected(s, chosen)
  <1>1. s \in Seq(Entries)
    BY ConfigIs
  <1>2. RuleChain = IF config.rule.enabled THEN r ELSE <<>>
    BY DEF RuleChain, Filtered
  <1>3. \A j \in DOMAIN s : j \in chosen <=> RuleAdmits(s[j])
    OBVIOUS
  <1> HIDE DEF s, chosen
  <1>4. /\ \A i \in DOMAIN r : \E j \in chosen \cap DOMAIN s : r[i] = s[j]
        /\ \A j \in chosen \cap DOMAIN s : \E i \in DOMAIN r : r[i] = s[j]
    BY <1>1, SelectedElements
  <1>5. r \in Seq(Entries)
    BY <1>1, SelectedIs
  <1> HIDE DEF r
  <1>6. /\ \A i \in DOMAIN r : \E j \in DOMAIN s : r[i] = s[j] /\ RuleAdmits(s[j])
        /\ \A j \in DOMAIN s : RuleAdmits(s[j]) => \E i \in DOMAIN r : r[i] = s[j]
    BY <1>3, <1>4
  <1>7. CASE config.rule.enabled
    BY <1>2, <1>5, <1>6, <1>7 DEF s
  <1>8. CASE ~config.rule.enabled
    BY <1>2, <1>8
  <1>  QED  BY <1>7, <1>8

OfModel(chain) == chain \in Seq(Entries) /\ \A i \in DOMAIN chain : chain[i].model = model

LEMMA ForModelIs ==
  ASSUME NEW list \in Seq(Backends)
  PROVE  OfModel(ForModel(list))
  <1>1. \A i \in 1..Len(list) : list[i] \in Backends
    OBVIOUS
  <1>2. ForModel(list) = [i \in 1..Len(list) |-> [backend |-> list[i], model |-> model]]
    BY DEF ForModel
  <1>3. Len(list) \in Nat
    OBVIOUS
  <1>4. ForModel(list) \in [1..Len(list) -> Entries]
    BY <1>1, <1>2, RouterAssumption DEF Entries
  <1>5. ForModel(list) \in Seq(Entries) /\ DOMAIN ForModel(list) = 1..Len(list)
    BY <1>3, <1>4
  <1>  QED  BY <1>2, <1>5 DEF OfModel

LEMMA ListChainIs ==
  ASSUME NEW list, list.chain \in Seq(Backends)
  PROVE  OfModel(ListChain(list))
  BY SelectedIs, ForModelIs DEF ListChain, Filtered

LEMMA PriorityChainIs ==
  ASSUME config \in Configs
  PROVE  OfModel(PriorityChain)
  <1> DEFINE s == config.priority
             first == {i \in DOMAIN s : s[i] \in Specified}
             second == {i \in DOMAIN s : ~(s[i] \in Specified)}
             r == Selected(s, first) \o Selected(s, second)
             able == {i \in DOMAIN r : Supports(r[i])}
             unable == {i \in DOMAIN r : ~Supports(r[i])}
  <1>1. PriorityChain = ForModel(Selected(r, able) \o Selected(r, unable))
    BY DEF PriorityChain, SplitBy, Filtered
  <1>2. s \in Seq(Backends)
    BY ConfigIs
  <1> HIDE DEF s, first, second, able, unable
  <1>3. r \in Seq(Backends)
    <2>1. Selected(s, first) \in Seq(Backends) /\ Selected(s, second) \in Seq(Backends)
      BY <1>2, SelectedIs
    <2>  QED  BY <2>1
  <1> HIDE DEF r
  <1>4. Selected(r, able) \in Seq(Backends) /\ Selected(r, unable) \in Seq(Backends)
    BY <1>3, SelectedIs
  <1>5. Selected(r, able) \o Selected(r, unable) \in Seq(Backends)
    BY <1>4
  <1>  QED  BY <1>1, <1>5, ForModelIs

(* An entry of a rule with another model makes _is_cross_model_entry raise,    *)
(* so what is left of a rule names the model that was asked for.               *)
LEMMA BuiltChainIs ==
  ASSUME config \in Configs
  PROVE  /\ BuiltChain \in Seq(Entries)
         /\ RuleChain # <<>> => BuiltChain = RuleChain
         /\ ~RuleChainRaises /\ ~request.crossPool => OfModel(BuiltChain)
  <1>1. CASE RuleChain # <<>>
    <2>1. Source = "rule"
      BY <1>1 DEF Source
    <2>2. BuiltChain = RuleChain
      BY <2>1 DEF BuiltChain
    <2>3. ASSUME ~RuleChainRaises, ~request.crossPool PROVE OfModel(RuleChain)
      BY <1>1, <2>3, RuleChainIs DEF RuleChainRaises, OfModel
    <2>  QED  BY <2>2, <2>3, RuleChainIs
  <1>2. CASE RuleChain = <<>>
    <2>1. Source \in {"default", "catch_all", "priority"}
      BY <1>2 DEF Source
    <2>2. OfModel(ListChain(config.default)) /\ OfModel(ListChain(config.catch_all))
      BY ConfigIs, ListChainIs
    <2>3. OfModel(BuiltChain)
      <3>1. CASE Source = "default"
        BY <2>2, <3>1 DEF BuiltChain
      <3>2. CASE Source = "catch_all"
        BY <2>2, <3>2 DEF BuiltChain
      <3>3. CASE Source = "priority"
        BY <3>3, PriorityChainIs DEF BuiltChain
      <3>  QED  BY <2>1, <3>1, <3>2, <3>3
    <2>  QED  BY <1>2, <2>3 DEF OfModel
  <1>  QED  BY <1>1, <1>2

LEMMA WithoutLimitedIs ==
  ASSUME NEW chain \in Seq(Entries), NEW limited
  PROVE  /\ WithoutLimited(chain, limited) \in Seq(Entries)
         /\ OfModel(chain) => OfModel(WithoutLimited(chain, limited))
         /\ \A i \in DOMAIN chain : chain[i].backend \notin limited =>
               \E j \in DOMAIN WithoutLimited(chain, limited) :
                  WithoutLimited(chain, limited)[j] = chain[i]
  <1> DEFINE chosen == {i \in DOMAIN chain : chain[i].backend \notin limited}
             free == Selected(chain, chosen)
  <1>1. WithoutLimited(chain, limited) = IF free = <<>> THEN chain ELSE free
    BY DEF WithoutLimited, Filtered
  <1>2. \A i \in DOMAIN chain : chain[i].backend \notin limited => i \in chosen
    OBVIOUS
  <1> HIDE DEF chosen
  <1>3. /\ \A i \in DOMAIN free : \E j \in chosen \cap DOMAIN chain : free[i] = chain[j]
        /\ \A j \in chosen \cap DOMAIN chain : \E i \in DOMAIN free : free[i] = chain[j]
    <2> DEFINE s == chain
    <2>1. s \in Seq(Entries)
      OBVIOUS
    <2> HIDE DEF s
    <2>2. /\ \A i \in DOMAIN Selected(s, chosen) :
               \E j \in chosen \cap DOMAIN s : Selected(s, chosen)[i] = s[j]
          /\ \A j \in chosen \cap DOMAIN s :
               \E i \in DOMAIN Selected(s, chosen) : Selected(s, chosen)[i] = s[j]
      BY <2>1, SelectedElements
    <2>  QED  BY <2>2 DEF s
  <1>4. free \in Seq(Entries)
    BY SelectedIs
  <1> HIDE DEF free
  <1>5. CASE free = <<>>
    BY <1>1, <1>5 DEF OfModel
  <1>6. CASE free # <<>>
    BY <1>1, <1>2, <1>3, <1>4, <1>6 DEF OfModel
  <1>  QED  BY <1>5, <1>6
-----------------------------------------------------------------------------
(* Where a request goes after t, once more, now with what the calls and what   *)
(* is left of the chain hold.                                                  *)
MayCall(stage, b) ==
    /\ b \notin frozen
    /\ Tripped(b) => stage = "final" /\ ~config.final.respect_circuit_breaker

KeepsAll(s) == ~request.crossPool => \A i \in DOMAIN s : s[i].model = model
Asks(c) == ~request.crossPool => c.model = SentAs(c.backend, model)
AsksAll(t) == ~request.crossPool =>
                 \A i \in DOMAIN t : t[i].model = SentAs(t[i].backend, model)

SentOn(t) ==
    /\ phase' \in Pending /\ attempts' \in 0..MAX_FALLBACK_ATTEMPTS
    /\ rest' \in Seq(Entries) /\ KeepsAll(rest')
    /\ \E c \in Calls : /\ trail' = Append(t, c)
                        /\ c.stage = phase' /\ c.answer = NoAnswer
                        /\ MayCall(phase', c.backend) /\ Asks(c)

GivenUp(t) ==
    /\ phase' = "refused" /\ trail' = t /\ rest' = <<>>
    /\ attempts' \in 0..(MAX_FALLBACK_ATTEMPTS + 2)

GoesOn(t) == SentOn(t) \/ GivenUp(t)

LEMMA BudgetIs == MAX_FALLBACK_ATTEMPTS \in Nat /\ MAX_FALLBACK_ATTEMPTS > 0
  BY RouterAssumption

LEMMA NothingLeft == <<>> \in Seq(Entries) /\ KeepsAll(<<>>)
  BY DEF KeepsAll

LEMMA SendGoes ==
  ASSUME NEW stage \in Pending, NEW b \in Backends, NEW m \in Models, NEW t,
         NEW n \in 0..MAX_FALLBACK_ATTEMPTS,
         Send(stage, b, m, t, n), MayCall(stage, b), ~request.crossPool => m = model,
         rest' \in Seq(Entries), KeepsAll(rest')
  PROVE  SentOn(t)
  <1> DEFINE c == [stage |-> stage, backend |-> b, model |-> SentAs(b, m), answer |-> NoAnswer]
  <1>1. c \in Calls
    <2>1. SentAs(b, m) \in Models
      BY RouterAssumption DEF SentAs
    <2>  QED  BY <2>1 DEF Calls
  <1>2. /\ c.stage = stage /\ c.answer = NoAnswer /\ c.backend = b
        /\ c.model = SentAs(b, m)
        /\ trail' = Append(t, c) /\ phase' = stage /\ attempts' = n
    BY DEF Send
  <1> HIDE DEF c
  <1>3. Asks(c)
    BY <1>2 DEF Asks
  <1>  QED  BY <1>1, <1>2, <1>3 DEF SentOn

LEMMA FinalGoes ==
  ASSUME config \in Configs, NEW t, NEW n \in 0..(MAX_FALLBACK_ATTEMPTS + 2), TryFinal(t, n)
  PROVE  /\ GoesOn(t)
         /\ n >= MAX_FALLBACK_ATTEMPTS => phase' = "refused" /\ attempts' = n
  <1>1. CASE FinalUsable /\ n < MAX_FALLBACK_ATTEMPTS
    <2>1. Send("final", config.final.backend, model, t, n) /\ rest' = <<>>
      BY <1>1 DEF TryFinal
    <2>2. MayCall("final", config.final.backend)
      BY <1>1 DEF MayCall, FinalUsable, Tripped
    <2>3. n \in 0..MAX_FALLBACK_ATTEMPTS /\ ~(n >= MAX_FALLBACK_ATTEMPTS)
      BY <1>1, BudgetIs
    <2>  QED  BY <2>1, <2>2, <2>3, SendGoes, ConfigIs, NothingLeft, RouterAssumption
              DEF Pending, GoesOn
  <1>2. CASE ~(FinalUsable /\ n < MAX_FALLBACK_ATTEMPTS)
    BY <1>2 DEF TryFinal, EndAs, GoesOn, GivenUp
  <1>  QED  BY <1>1, <1>2

LEMMA CrossGoes ==
  ASSUME config \in Configs, NEW t, NEW n \in 0..(MAX_FALLBACK_ATTEMPTS + 1), TryCross(t, n)
  PROVE  /\ GoesOn(t)
         /\ n >= MAX_FALLBACK_ATTEMPTS => phase' = "refused" /\ attempts' >= n
  <1> USE BudgetIs
  <1>1. CASE ~CrossUsable
    BY <1>1, FinalGoes DEF TryCross
  <1>2. CASE CrossUsable /\ n + 1 > MAX_FALLBACK_ATTEMPTS
    <2>1. TryFinal(t, n + 1)
      BY <1>2 DEF TryCross
    <2>2. n + 1 \in 0..(MAX_FALLBACK_ATTEMPTS + 2)
      OBVIOUS
    <2>  QED  BY <2>1, <2>2, FinalGoes
  <1>3. CASE CrossUsable /\ ~(n + 1 > MAX_FALLBACK_ATTEMPTS)
    <2>1. Send("cross", config.cross.backend, config.cross.model, t, n + 1) /\ rest' = <<>>
      BY <1>3 DEF TryCross
    <2>2. MayCall("cross", config.cross.backend) /\ request.crossPool
          /\ config.cross.backend # NoBackend
      BY <1>3 DEF MayCall, CrossUsable
    <2>3. n + 1 \in 0..MAX_FALLBACK_ATTEMPTS /\ ~(n >= MAX_FALLBACK_ATTEMPTS)
      BY <1>3
    <2>4. config.cross.backend \in Backends /\ config.cross.model \in Models
      BY <2>2, ConfigIs
    <2>  QED  BY <2>1, <2>2, <2>3, <2>4, SendGoes, NothingLeft DEF Pending, GoesOn
  <1>  QED  BY <1>1, <1>2, <1>3

Tried(t, e) == \E j \in DOMAIN t : /\ t[j].backend = e.backend
                                   /\ t[j].model = SentAs(e.backend, e.model)
Left(s, e) == \E j \in DOMAIN s : s[j] = e

(* The loop passes over no entry it could use: its backend is called now, or   *)
(* the entry is still ahead, unless the budget ends the request.               *)
LEMMA ChainGoes ==
  ASSUME config \in Configs, NEW t \in Seq(Calls), NEW n \in 0..MAX_FALLBACK_ATTEMPTS,
         NEW chain \in Seq(Entries), KeepsAll(chain), TryChain(chain, t, n)
  PROVE  /\ GoesOn(t)
         /\ phase' = "refused" => \/ attempts' >= MAX_FALLBACK_ATTEMPTS
                                  \/ \A i \in DOMAIN chain : Skipped(chain[i])
         /\ phase' \in Pending => \A i \in DOMAIN chain : ~Skipped(chain[i]) =>
                \/ Tried(trail', chain[i])
                \/ phase' = "chain" /\ Left(rest', chain[i])
  <1> USE BudgetIs
  <1> DEFINE usable == {i \in DOMAIN chain : ~Skipped(chain[i])}
             next == CHOOSE i \in usable : \A j \in usable : i <= j
  <1>0. /\ n + 1 \in 0..(MAX_FALLBACK_ATTEMPTS + 1) /\ n \in 0..(MAX_FALLBACK_ATTEMPTS + 1)
        /\ DOMAIN chain = 1..Len(chain) /\ Len(chain) \in Nat
        /\ \A i \in 1..Len(chain) : chain[i] \in Entries
    OBVIOUS
  <1>1. CASE usable = {}
    <2>1. TryCross(t, n)
      BY <1>1 DEF TryChain
    <2>2. \A i \in DOMAIN chain : Skipped(chain[i])
      BY <1>1
    <2>  QED  BY <1>0, <2>1, <2>2, CrossGoes
  <1>2. CASE usable # {} /\ n + 1 > MAX_FALLBACK_ATTEMPTS
    <2>1. TryCross(t, n + 1)
      BY <1>2 DEF TryChain
    <2>2. GoesOn(t) /\ phase' = "refused" /\ attempts' >= n + 1
      BY <1>0, <1>2, <2>1, CrossGoes
    <2>3. attempts' >= MAX_FALLBACK_ATTEMPTS /\ phase' \notin Pending
      BY <1>2, <2>2 DEF GoesOn, GivenUp, SentOn, Pending
    <2>  QED  BY <2>2, <2>3
  <1>3. CASE usable # {} /\ ~(n + 1 > MAX_FALLBACK_ATTEMPTS)
    <2>1. /\ Send("chain", chain[next].backend, chain[next].model, t, n + 1)
          /\ rest' = SubSeq(chain, next + 1, Len(chain))
      BY <1>3 DEF TryChain
    <2>2. next \in usable /\ \A j \in usable : next <= j
      <3>1. usable \in SUBSET Nat
        BY <1>0
      <3>  QED  BY <1>3, <3>1, Least
    <2> DEFINE k == next
    <2>3. /\ k \in 1..Len(chain) /\ chain[k] \in Entries /\ ~Skipped(chain[k])
          /\ \A j \in 1..Len(chain) : ~Skipped(chain[j]) => k <= j
      BY <1>0, <2>2
    <2>4. /\ Send("chain", chain[k].backend, chain[k].model, t, n + 1)
          /\ rest' = SubSeq(chain, k + 1, Len(chain))
      BY <2>1
    <2> HIDE DEF k, next, usable
    <2>5. /\ rest' \in Seq(Entries) /\ DOMAIN rest' = 1..(Len(chain) - k)
          /\ \A j \in 1..(Len(chain) - k) : rest'[j] = chain[k + j]
      BY <2>3, <2>4
    <2>6. KeepsAll(rest')
      <3>1. ASSUME ~request.crossPool, NEW j \in 1..(Len(chain) - k)
            PROVE  rest'[j].model = model
        <4>1. k + j \in 1..Len(chain)
          BY <1>0, <2>3
        <4>2. chain[k + j].model = model
          BY <3>1, <4>1 DEF KeepsAll
        <4>  QED  BY <2>5, <3>1, <4>2
      <3>  QED  BY <2>5, <3>1 DEF KeepsAll
    <2>7. MayCall("chain", chain[k].backend) /\ (~request.crossPool => chain[k].model = model)
      BY <1>0, <2>3 DEF MayCall, Skipped, KeepsAll
    <2>8. SentOn(t)
      BY <1>3, <2>3, <2>4, <2>5, <2>6, <2>7, SendGoes DEF Pending, Entries
    <2>9. phase' = "chain"
      BY <2>4 DEF Send
    <2>10. ASSUME NEW i \in DOMAIN chain, ~Skipped(chain[i])
           PROVE  Tried(trail', chain[i]) \/ Left(rest', chain[i])
      <3>1. CASE i = k
        <4> DEFINE c == [stage |-> "chain", backend |-> chain[k].backend,
                         model |-> SentAs(chain[k].backend, chain[k].model),
                         answer |-> NoAnswer]
        <4>1. trail' = Append(t, c)
          BY <2>4 DEF Send
        <4>2. c \in Calls
          <5>1. SentAs(chain[k].backend, chain[k].model) \in Models
            BY <2>3, RouterAssumption DEF SentAs, Entries
          <5>  QED  BY <2>3, <5>1 DEF Calls, Entries, Pending
        <4>3. /\ c.backend = chain[k].backend
              /\ c.model = SentAs(chain[k].backend, chain[k].model)
          OBVIOUS
        <4> HIDE DEF c
        <4>4. Len(t) + 1 \in DOMAIN trail' /\ trail'[Len(t) + 1] = c
          BY <4>1, <4>2
        <4>  QED  BY <3>1, <4>3, <4>4 DEF Tried
      <3>2. CASE i # k
        <4>1. i - k \in 1..(Len(chain) - k) /\ k + (i - k) = i
          BY <1>0, <2>3, <2>10, <3>2
        <4>2. rest'[i - k] = chain[i]
          BY <2>5, <4>1
        <4>  QED  BY <2>5, <4>1, <4>2 DEF Left
      <3>  QED  BY <3>1, <3>2
    <2>  QED  BY <2>8, <2>9, <2>10 DEF GoesOn
  <1>  QED  BY <1>1, <1>2, <1>3
-----------------------------------------------------------------------------
(* The invariant.  A call that has no answer yet stops nothing; an entry of    *)
(* the rule that the request can use has been called or is still ahead.        *)
Ahead(t, s, e) == Tried(t, e) \/ (phase = "chain" /\ Left(s, e))

Unstopped == \A i \in 1..(IF phase = "refused" THEN Len(trail) ELSE Len(trail) - 1) :
                ~Unlisted(trail[i])

Covered ==
    /\ phase \in Pending \cup {"refused"} /\ config.rule.enabled /\ Unstopped
    /\ phase = "refused" => attempts < MAX_FALLBACK_ATTEMPTS
    => \A i \in DOMAIN config.rule.chain :
          Reachable(config.rule.chain[i]) => Ahead(trail, rest, config.rule.chain[i])

CallPending ==
    phase \in Pending => /\ Len(trail) >= 1 /\ attempts <= MAX_FALLBACK_ATTEMPTS
                         /\ trail[Len(trail)].stage = phase

Steady == steady \cap frozen = {} /\ (copilot \in steady => ~open)

RouteInv == /\ TypeOK /\ CallPending /\ Steady /\ Covered
            /\ KeepsAll(rest) /\ AsksAll(trail)

LEMMA AnswerIs ==
  ASSUME trail \in Seq(Calls), Len(trail) >= 1, NEW f \in Failures \cup {Success}
  PROVE  /\ With(f) \in Seq(Calls) /\ Len(With(f)) = Len(trail) /\ Len(trail) \in Nat
         /\ \A i \in 1..Len(trail) : /\ With(f)[i].stage = trail[i].stage
                                     /\ With(f)[i].backend = trail[i].backend
                                     /\ With(f)[i].model = trail[i].model
         /\ \A i \in 1..(Len(trail) - 1) : With(f)[i] = trail[i]
         /\ With(f)[Len(trail)].answer = f
  <1> DEFINE n == Len(trail)
             last == [trail[n] EXCEPT !.answer = f]
  <1>1. n \in Nat /\ n >= 1 /\ DOMAIN trail = 1..n /\ \A i \in 1..n : trail[i] \in Calls
    OBVIOUS
  <1>2. /\ last \in Calls /\ last.answer = f /\ last.stage = trail[n].stage
        /\ last.backend = trail[n].backend /\ last.model = trail[n].model
    BY <1>1 DEF Calls
  <1>3. With(f) = [i \in 1..n |-> IF i = n THEN last ELSE trail[i]]
    BY <1>1 DEF With
  <1> HIDE DEF last, n
  <1>4. With(f) \in [1..n -> Calls]
    BY <1>1, <1>2, <1>3
  <1>5. With(f) \in Seq(Calls) /\ Len(With(f)) = n
    BY <1>1, <1>4
  <1>6. With(f)[n] = last
    BY <1>1, <1>3
  <1>7. \A i \in 1..(n - 1) : i \in 1..n /\ i # n /\ With(f)[i] = trail[i]
    BY <1>1, <1>3
  <1>8. \A i \in 1..n : i = n \/ i \in 1..(n - 1)
    BY <1>1
  <1>9. \A i \in 1..n : /\ With(f)[i].stage = trail[i].stage
                        /\ With(f)[i].backend = trail[i].backend
                        /\ With(f)[i].model = trail[i].model
    BY <1>2, <1>6, <1>7, <1>8
  <1>  QED  BY <1>1, <1>2, <1>5, <1>6, <1>7, <1>9 DEF n

LEMMA FailureIs ==
  ASSUME NEW b, NEW f \in FailuresOf(b)
  PROVE  f \in Failures
  <1>1. ASSUME NEW c \in Statuses \cup {"timeout", "connection_error", "unavailable"},
               NEW s \in Shows(c)
        PROVE  s \subseteq Conditions /\ c \in Conditions
    <2>1. CASE c = "timeout"
      BY <1>1, <2>1 DEF Shows, Conditions
    <2>2. CASE c = "connection_error"
      BY <1>1, <2>2 DEF Shows, Conditions
    <2>3. CASE c = "unavailable"
      BY <1>1, <2>3 DEF Shows, Conditions
    <2>4. CASE c \notin {"timeout", "connection_error", "unavailable"}
      <3>1. Shows(c) = IF request.stream \/ c = "403" THEN {{}, {c}} ELSE {{}}
        BY <2>4 DEF Shows
      <3>  QED  BY <1>1, <2>4, <3>1 DEF Conditions
    <2>  QED  BY <2>1, <2>2, <2>3, <2>4
  <1>2. CASE b \in config.registered
    <2>1. PICK c \in Statuses \cup {"timeout", "connection_error", "unavailable"} :
             \E s \in Shows(c) : f = [happened |-> c, shown |-> s]
      BY <1>2 DEF FailuresOf
    <2>2. PICK s \in Shows(c) : f = [happened |-> c, shown |-> s]
      BY <2>1
    <2>  QED  BY <1>1, <2>2 DEF Failures
  <1>3. CASE b \notin config.registered
    BY <1>3 DEF FailuresOf, Failures, Conditions
  <1>  QED  BY <1>2, <1>3

(* What GoesOn keeps of the invariant, all but Covered.                        *)
LEMMA GoesOnKeeps ==
  ASSUME RouteInv, NEW t \in Seq(Calls), AsksAll(t), GoesOn(t),
         UNCHANGED <<config, request, world>>,
         policy' \subseteq Conditions, steady' \subseteq Backends, Steady'
  PROVE  TypeOK' /\ CallPending' /\ KeepsAll(rest)' /\ AsksAll(trail)'
  <1>1. CASE SentOn(t)
    <2>1. PICK c \in Calls : /\ trail' = Append(t, c) /\ c.stage = phase' /\ Asks(c)
      BY <1>1 DEF SentOn
    <2>2. /\ trail' \in Seq(Calls) /\ Len(trail') = Len(t) + 1 /\ Len(t) \in Nat
          /\ trail'[Len(t) + 1] = c /\ \A i \in 1..Len(t) : trail'[i] = t[i]
      BY <2>1
    <2>3. AsksAll(trail')
      BY <2>1, <2>2 DEF AsksAll, Asks
    <2>4. CallPending'
      BY <1>1, <2>1, <2>2, BudgetIs DEF CallPending, SentOn
    <2>5. TypeOK'
      BY <1>1, <2>2, BudgetIs DEF RouteInv, TypeOK, SentOn, world, Pending
    <2>  QED  BY <1>1, <2>3, <2>4, <2>5 DEF SentOn, KeepsAll, AsksAll
  <1>2. CASE GivenUp(t)
    <2>1. TypeOK'
      BY <1>2, NothingLeft DEF RouteInv, TypeOK, GivenUp, world, Ended
    <2>  QED  BY <1>2, <2>1 DEF GivenUp, KeepsAll, AsksAll, CallPending, Pending
  <1>  QED  BY <1>1, <1>2 DEF GoesOn

LEMMA UsableIsNotSkipped ==
  ASSUME Steady, NEW e, e.backend \in steady
  PROVE  ~Skipped(e)
  BY DEF Steady, Skipped, Tripped

LEMMA PolicyIs == config \in Configs => ActiveFallbackOn \subseteq Conditions
  BY ConfigIs DEF ActiveFallbackOn

LEMMA RouteKeeps ==
  ASSUME RouteInv, NEW limited \in SUBSET Backends, Route(limited)
  PROVE  RouteInv'
  <1> DEFINE chain == WithoutLimited(BuiltChain, limited)
  <1>0. /\ config \in Configs /\ UNCHANGED <<config, request, frozen, open>>
        /\ steady' = Backends \ (frozen \cup limited \cup {b \in Backends : Tripped(b)})
    BY DEF RouteInv, TypeOK, Route, world
  <1>1. Steady' /\ steady' \subseteq Backends
    BY <1>0, RouterAssumption DEF Steady, Tripped
  <1>2. CASE RuleChainRaises
    <2>1. EndAs("raised", <<>>, 0) /\ policy' = {} /\ UNCHANGED world
      BY <1>2 DEF Route
    <2>2. TypeOK'
      BY <1>0, <1>1, <2>1, NothingLeft, BudgetIs DEF RouteInv, TypeOK, EndAs, Ended
    <2>  QED  BY <1>1, <2>1, <2>2
         DEF RouteInv, EndAs, KeepsAll, AsksAll, CallPending, Covered, Pending
  <1>3. CASE ~RuleChainRaises
    <2>1. TryChain(chain, <<>>, 0) /\ policy' = ActiveFallbackOn /\ UNCHANGED world
      BY <1>3 DEF Route
    <2>2. chain \in Seq(Entries) /\ KeepsAll(chain)
      BY <1>0, <1>3, BuiltChainIs, WithoutLimitedIs DEF OfModel, KeepsAll
    <2>3. <<>> \in Seq(Calls) /\ AsksAll(<<>>) /\ 0 \in 0..MAX_FALLBACK_ATTEMPTS
      BY BudgetIs DEF AsksAll
    <2> HIDE DEF chain
    <2>4. /\ GoesOn(<<>>)
          /\ phase' = "refused" => \/ attempts' >= MAX_FALLBACK_ATTEMPTS
                                   \/ \A i \in DOMAIN chain : Skipped(chain[i])
          /\ phase' \in Pending => \A i \in DOMAIN chain : ~Skipped(chain[i]) =>
                \/ Tried(trail', chain[i])
                \/ phase' = "chain" /\ Left(rest', chain[i])
      BY <1>0, <2>1, <2>2, <2>3, ChainGoes
    <2>5. TypeOK' /\ CallPending' /\ KeepsAll(rest)' /\ AsksAll(trail)'
      BY <1>0, <1>1, <2>1, <2>3, <2>4, PolicyIs, GoesOnKeeps
    <2>6. ASSUME config.rule.enabled, NEW j \in DOMAIN config.rule.chain,
                 Reachable(config.rule.chain[j])'
          PROVE  \E i \in DOMAIN chain : chain[i] = config.rule.chain[j] /\ ~Skipped(chain[i])
      <3> DEFINE e == config.rule.chain[j]
      <3>1. /\ e.backend \in config.registered \cap config.enabled \cap steady'
            /\ <<e.backend, e.model>> \in config.capable
        BY <1>0, <2>6 DEF Reachable
      <3>2. e.backend \notin frozen /\ e.backend \notin limited /\ ~Tripped(e.backend)
        BY <1>0, <3>1
      <3>3. RuleAdmits(e)
        BY <3>1, <3>2 DEF RuleAdmits, Running
      <3>4. PICK i \in DOMAIN RuleChain : RuleChain[i] = e
        BY <1>0, <2>6, <3>3, RuleChainIs
      <3>5. BuiltChain = RuleChain /\ BuiltChain \in Seq(Entries)
        BY <1>0, <3>4, BuiltChainIs
      <3>6. \E k \in DOMAIN chain : chain[k] = e
        BY <3>2, <3>4, <3>5, WithoutLimitedIs DEF chain
      <3>  QED  BY <3>2, <3>6 DEF Skipped
    <2>7. Covered'
      <3> SUFFICES ASSUME phase' \in Pending \cup {"refused"}, config.rule.enabled,
                          phase' = "refused" => attempts' < MAX_FALLBACK_ATTEMPTS,
                          NEW j \in DOMAIN config.rule.chain,
                          Reachable(config.rule.chain[j])'
                   PROVE  \/ Tried(trail', config.rule.chain[j])
                          \/ phase' = "chain" /\ Left(rest', config.rule.chain[j])
        BY <1>0 DEF Covered, Ahead, Tried, Left, Reachable
      <3>1. PICK i \in DOMAIN chain :
              chain[i] = config.rule.chain[j] /\ ~Skipped(chain[i])
        BY <2>6
      <3>2. phase' = "refused" => ~(attempts' >= MAX_FALLBACK_ATTEMPTS)
        BY <2>5, BudgetIs DEF TypeOK
      <3>  QED  BY <2>4, <3>1, <3>2
    <2>  QED  BY <1>1, <2>5, <2>7 DEF RouteInv
  <1>  QED  BY <1>2, <1>3

LEMMA FailureKeeps ==
  ASSUME RouteInv, phase \in Pending, NEW f \in Failures,
         \/ ChainFails(f) \/ ChainStops(f) \/ CrossFails(f) \/ FinalFails(f)
  PROVE  RouteInv'
  <1> DEFINE t == With(f)
             n == Len(trail)
  <1>0. /\ config \in Configs /\ trail \in Seq(Calls) /\ n >= 1
        /\ attempts \in 0..MAX_FALLBACK_ATTEMPTS /\ attempts \in 0..(MAX_FALLBACK_ATTEMPTS + 2)
        /\ rest \in Seq(Entries) /\ KeepsAll(rest) /\ trail[n].stage = phase
    BY BudgetIs DEF RouteInv, TypeOK, CallPending
  <1>1. UNCHANGED <<config, request, frozen, open, policy, steady>> /\ UNCHANGED world
    BY DEF ChainFails, ChainStops, CrossFails, FinalFails, world
  <1>2. /\ t \in Seq(Calls) /\ Len(t) = n /\ n \in Nat
        /\ \A i \in 1..n : /\ t[i].stage = trail[i].stage
                           /\ t[i].backend = trail[i].backend /\ t[i].model = trail[i].model
        /\ \A i \in 1..(n - 1) : t[i] = trail[i]
        /\ t[n].answer = f
    BY <1>0, AnswerIs
  <1>3. DOMAIN trail = 1..n /\ DOMAIN t = 1..n /\ n \in 1..n
    BY <1>0, <1>2
  <1> HIDE DEF t, n
  <1>4. AsksAll(t) /\ \A e : Tried(trail, e) => Tried(t, e)
    BY <1>2, <1>3 DEF AsksAll, RouteInv, Tried
  <1>5. /\ GoesOn(t)
        /\ phase # "chain" => rest' = <<>> \/ phase' = "refused"
    <2>1. CASE ChainFails(f)
      BY <1>0, <1>2, <2>1, ChainGoes DEF ChainFails, t
    <2>2. CASE ChainStops(f)
      BY <1>0, <2>2, FinalGoes DEF ChainStops, t
    <2>3. CASE CrossFails(f)
      BY <1>0, <2>3, FinalGoes DEF CrossFails, TryFinal, EndAs, t
    <2>4. CASE FinalFails(f)
      BY <1>0, <2>4 DEF FinalFails, EndAs, GoesOn, GivenUp, t
    <2>  QED  BY <2>1, <2>2, <2>3, <2>4
  <1>6. TypeOK' /\ CallPending' /\ KeepsAll(rest)' /\ AsksAll(trail)' /\ Steady'
    <2>1. Steady' /\ policy' \subseteq Conditions /\ steady' \subseteq Backends
      BY <1>1 DEF RouteInv, Steady, TypeOK
    <2>  QED  BY <1>1, <1>2, <1>4, <1>5, <2>1, GoesOnKeeps
  (* The answered calls are among those that Unstopped speaks of afterwards.   *)
  <1>7. /\ \A i \in 1..n : \E j \in 1..(IF phase' = "refused" THEN Len(trail') ELSE Len(trail') - 1) :
               trail'[j] = t[i]
        /\ \A e : Tried(t, e) => Tried(trail', e)
    <2>1. CASE SentOn(t)
      <3>1. PICK c \in Calls : trail' = Append(t, c)
        BY <2>1 DEF SentOn
      <3>2. /\ Len(trail') = n + 1 /\ DOMAIN trail' = 1..(n + 1)
            /\ \A i \in 1..n : trail'[i] = t[i]
        BY <1>2, <3>1
      <3>3. phase' # "refused"
        BY <2>1 DEF SentOn, Pending
      <3>4. Len(trail') - 1 = n /\ \A i \in 1..n : i \in DOMAIN trail'
        BY <1>2, <3>2
      <3>5. \A e : Tried(t, e) => Tried(trail', e)
        BY <1>3, <3>2, <3>4 DEF Tried
      <3>  QED  BY <3>2, <3>3, <3>4, <3>5
    <2>2. CASE GivenUp(t)
      BY <1>2, <1>3, <2>2 DEF GivenUp, Tried
    <2>  QED  BY <1>5, <2>1, <2>2 DEF GoesOn
  <1>8. Covered'
    <2> SUFFICES ASSUME phase' \in Pending \cup {"refused"}, config.rule.enabled,
                        Unstopped',
                        phase' = "refused" => attempts' < MAX_FALLBACK_ATTEMPTS,
                        NEW j \in DOMAIN config.rule.chain,
                        Reachable(config.rule.chain[j])
                 PROVE  \/ Tried(trail', config.rule.chain[j])
                        \/ phase' = "chain" /\ Left(rest', config.rule.chain[j])
      BY <1>1 DEF Covered, Ahead, Tried, Left, Reachable
    <2> DEFINE e == config.rule.chain[j]
    <2>1. \A i \in 1..n : ~Unlisted(t[i])
      BY <1>1, <1>7 DEF Unstopped, Unlisted
    <2>2. Unstopped
      <3>1. phase # "refused"
        BY DEF Pending
      <3>2. \A i \in 1..(n - 1) : i \in 1..n
        BY <1>2
      <3>  QED  BY <1>2, <2>1, <3>1, <3>2 DEF Unstopped, n
    <2>3. Tried(trail, e) \/ (phase = "chain" /\ Left(rest, e))
      BY <2>2 DEF RouteInv, Covered, Ahead, Pending
    <2>4. CASE Tried(trail, e)
      BY <1>4, <1>7, <2>4
    <2>5. CASE phase = "chain" /\ Left(rest, e)
      <3>1. ~ChainStops(f) /\ ChainFails(f)
        <4>1. ASSUME ChainStops(f) PROVE Unlisted(t[n])
          BY <1>0, <1>2, <1>3, <2>5, <4>1 DEF ChainStops, Continues, Unlisted
        <4>  QED  BY <1>3, <2>1, <2>5, <4>1 DEF CrossFails, FinalFails
      <3>2. TryChain(rest, t, attempts)
        BY <3>1 DEF ChainFails, t
      <3>3. PICK i \in DOMAIN rest : rest[i] = e
        BY <2>5 DEF Left
      <3>4. ~Skipped(rest[i])
        BY <3>3, UsableIsNotSkipped DEF RouteInv, Reachable
      <3>5. phase' = "refused" => ~(attempts' >= MAX_FALLBACK_ATTEMPTS)
        BY <1>6, BudgetIs DEF TypeOK
      <3>6. /\ phase' = "refused" => \/ attempts' >= MAX_FALLBACK_ATTEMPTS
                                     \/ \A k \in DOMAIN rest : Skipped(rest[k])
            /\ phase' \in Pending => \A k \in DOMAIN rest : ~Skipped(rest[k]) =>
                  \/ Tried(trail', rest[k])
                  \/ phase' = "chain" /\ Left(rest', rest[k])
        BY <1>0, <1>2, <3>2, ChainGoes
      <3>  QED  BY <3>3, <3>4, <3>5, <3>6
    <2>  QED  BY <2>3, <2>4, <2>5
  <1>  QED  BY <1>6, <1>8 DEF RouteInv

LEMMA AnsweredKeeps ==
  ASSUME RouteInv, Answered
  PROVE  RouteInv'
  <1>1. /\ phase \in Pending /\ UNCHANGED <<config, request, frozen, open, policy, steady>>
        /\ phase' = "answered" /\ attempts' = attempts /\ rest' = <<>>
        /\ trail' = With(Success)
    BY DEF Answered, EndAs, world
  <1>2. /\ trail' \in Seq(Calls) /\ Len(trail') = Len(trail) /\ Len(trail) \in Nat
        /\ \A i \in 1..Len(trail) : /\ trail'[i].model = trail[i].model
                                    /\ trail'[i].backend = trail[i].backend
    BY <1>1, AnswerIs DEF RouteInv, TypeOK, CallPending
  <1>3. AsksAll(trail')
    <2>1. DOMAIN trail = 1..Len(trail) /\ DOMAIN trail' = 1..Len(trail)
      BY <1>2 DEF RouteInv, TypeOK
    <2>  QED  BY <1>1, <1>2, <2>1 DEF RouteInv, AsksAll
  <1>4. TypeOK'
    BY <1>1, <1>2, NothingLeft DEF RouteInv, TypeOK, Ended
  <1>  QED  BY <1>1, <1>3, <1>4
       DEF RouteInv, KeepsAll, CallPending, AsksAll, Covered, Pending, Steady

(* The world takes backends away from those that could be used all along, and  *)
(* never gives one back.                                                       *)
LEMMA WorldKeeps ==
  ASSUME RouteInv, World
  PROVE  RouteInv'
  <1>1. /\ UNCHANGED <<config, request, phase, rest, policy, attempts, trail>>
        /\ frozen' \subseteq Backends /\ open' \in BOOLEAN /\ steady' \subseteq steady
        /\ Steady'
    <2>1. /\ frozen \subseteq Backends /\ open \in BOOLEAN /\ steady \subseteq Backends
          /\ steady \cap frozen = {} /\ (copilot \in steady => ~open)
      BY DEF RouteInv, TypeOK, Steady
    <2>2. ASSUME NEW b \in Backends, Freeze(b)
          PROVE  /\ frozen' \subseteq Backends /\ steady' \subseteq steady /\ open' = open
                 /\ Steady'
      BY <2>1, <2>2 DEF Freeze, Steady
    <2>3. ASSUME NEW b \in Backends, Thaw(b)
          PROVE  /\ frozen' \subseteq Backends /\ steady' = steady /\ open' = open
                 /\ Steady'
      BY <2>1, <2>3 DEF Thaw, Steady
    <2>4. CASE Trip
      <3>1. frozen' = frozen /\ steady' = steady \ {copilot} /\ open' = TRUE
        BY <2>4 DEF Trip
      <3>2. UNCHANGED <<config, request, phase, rest, policy, attempts, trail>>
        BY <2>4 DEF Trip
      <3>3. Steady'
        BY <2>1, <3>1 DEF Steady
      <3>  QED  BY <2>1, <3>1, <3>2, <3>3
    <2>5. CASE Untrip
      <3>1. frozen' = frozen /\ steady' = steady /\ open' = FALSE
        BY <2>5 DEF Untrip
      <3>2. UNCHANGED <<config, request, phase, rest, policy, attempts, trail>>
        BY <2>5 DEF Untrip
      <3>3. Steady'
        BY <2>1, <3>1 DEF Steady
      <3>  QED  BY <2>1, <3>1, <3>2, <3>3
    <2>6. UNCHANGED <<config, request, phase, rest, policy, attempts, trail>>
      BY DEF World, Freeze, Thaw, Trip, Untrip
    <2>  QED  BY <2>1, <2>2, <2>3, <2>4, <2>5, <2>6 DEF World
  <1>2. TypeOK'
    BY <1>1 DEF RouteInv, TypeOK
  <1>3. CallPending' /\ KeepsAll(rest)' /\ AsksAll(trail)'
    BY <1>1 DEF RouteInv, CallPending, KeepsAll, AsksAll
  <1>4. Covered'
    <2>1. \A j \in DOMAIN config.rule.chain :
            Reachable(config.rule.chain[j])' => Reachable(config.rule.chain[j])
      BY <1>1 DEF Reachable
    <2>  QED  BY <1>1, <2>1 DEF RouteInv, Covered, Ahead, Unstopped, Unlisted, Tried, Left
  <1>  QED  BY <1>1, <1>2, <1>3, <1>4 DEF RouteInv

LEMMA FailsIs ==
  ASSUME RouteInv, Fails
  PROVE  /\ phase \in Pending
         /\ \E f \in Failures : ChainFails(f) \/ ChainStops(f) \/ CrossFails(f) \/ FinalFails(f)
  BY FailureIs DEF Fails

LEMMA NextKeepsRoute == RouteInv /\ [Next]_vars => RouteInv'
  <1>  SUFFICES ASSUME RouteInv, [Next]_vars PROVE RouteInv'
    OBVIOUS
  <1>1. CASE UNCHANGED vars
    <2>1. UNCHANGED <<config, request, frozen, open, phase, rest, policy, attempts, trail, steady>>
      BY <1>1 DEF vars, world
    <2>2. TypeOK' /\ CallPending' /\ KeepsAll(rest)' /\ AsksAll(trail)' /\ Steady'
      BY <2>1 DEF RouteInv, TypeOK, CallPending, KeepsAll, AsksAll, Steady
    <2>3. Covered'
      BY <2>1 DEF RouteInv, Covered, Ahead, Unstopped, Unlisted, Tried, Left, Reachable
    <2>  QED  BY <2>2, <2>3 DEF RouteInv
  <1>2. CASE Fails
    BY <1>2, FailsIs, FailureKeeps
  <1>  QED  BY <1>1, <1>2, RouteKeeps, AnsweredKeeps, WorldKeeps DEF Next

LEMMA RouteHolds == Spec => []RouteInv
  <1>1. ASSUME Init PROVE RouteInv
    <2>1. TypeOK
      <3>1. <<>> \in Seq(Calls) /\ 0 \in 0..(MAX_FALLBACK_ATTEMPTS + 2)
        BY BudgetIs
      <3>  QED  BY <1>1, <3>1, NothingLeft DEF Init, TypeOK
    <2>  QED  BY <1>1, <2>1
         DEF Init, RouteInv, CallPending, Steady, Covered, KeepsAll, AsksAll, Pending
  <1>  QED  BY <1>1, NextKeepsRoute, PTL DEF Spec

(* Every variable keeps its type.                                              *)
THEOREM TypeCorrect == Spec => []TypeOK
  <1>1. RouteInv => TypeOK
    BY DEF RouteInv
  <1>  QED  BY <1>1, RouteHolds, PTL

(* Every way through the rules, the priorities and the two fallbacks sends a   *)
(* client of an IDE on with the model it asked for, and to Copilot with the    *)
(* name map_model_for_copilot has for that one, whatever that mapping is.      *)
THEOREM IdeGetsItsModel == Spec => []IdeKeepsModel
  <1>1. RouteInv => IdeKeepsModel
    BY DEF RouteInv, IdeKeepsModel, AsksAll
  <1>  QED  BY <1>1, RouteHolds, PTL

(* A request is refused only after every entry of its rule that could take it  *)
(* all along has had it, unless a failure or the budget stopped the chain.     *)
THEOREM RefusedOnlyAfterAll == Spec => []NobodyForgotten
  <1>1. ASSUME RouteInv PROVE NobodyForgotten
    <2>  SUFFICES ASSUME phase = "refused", config.rule.enabled, ~Stopped,
                         attempts < MAX_FALLBACK_ATTEMPTS,
                         NEW i \in DOMAIN config.rule.chain,
                         Reachable(config.rule.chain[i])
                  PROVE  Tried(trail, config.rule.chain[i])
      BY DEF NobodyForgotten, Tried
    <2>1. \A k \in 1..Len(trail) : ~Unlisted(trail[k])
      <3>1. DOMAIN trail = 1..Len(trail)
        BY <1>1 DEF RouteInv, TypeOK
      <3>  QED  BY <3>1 DEF Stopped, Unlisted
    <2>2. Ahead(trail, rest, config.rule.chain[i])
      BY <1>1, <2>1 DEF RouteInv, Covered, Unstopped
    <2>  QED  BY <2>2 DEF Ahead
  <1>  QED  BY <1>1, RouteHolds, PTL

(* No call goes to a backend that is frozen at that moment, nor to Copilot     *)
(* with an open breaker, but for a final fallback that is told not to look.    *)
THEOREM CallsAreUsable == Spec => CallsUsable
  <1> DEFINE Calling == Len(trail') > Len(trail) \/ (phase \notin Pending /\ phase' \in Pending)
             Usable == LET b == trail'[Len(trail')].backend
                       IN  /\ b \notin frozen
                           /\ b = copilot /\ open =>
                                 phase' = "final" /\ ~config.final.respect_circuit_breaker
  <1>1. ASSUME NEW t \in Seq(Calls), SentOn(t) PROVE Usable
    <2>1. PICK c \in Calls : trail' = Append(t, c) /\ MayCall(phase', c.backend)
      BY <1>1 DEF SentOn
    <2>2. trail'[Len(trail')] = c
      BY <2>1
    <2>  QED  BY <2>1, <2>2 DEF MayCall, Tripped
  <1>2. ASSUME RouteInv, [Next]_vars, Calling PROVE Usable
    <2>1. ASSUME NEW limited \in SUBSET Backends, Route(limited) PROVE Usable
      <3>1. config \in Configs /\ trail \in Seq(Calls) /\ Len(<<>>) = 0
        BY <1>2 DEF RouteInv, TypeOK
      <3>2. CASE RuleChainRaises
        BY <1>2, <2>1, <3>1, <3>2 DEF Route, EndAs, Pending
      <3>3. CASE ~RuleChainRaises
        <4> DEFINE chain == WithoutLimited(BuiltChain, limited)
        <4>1. TryChain(chain, <<>>, 0)
          BY <2>1, <3>3 DEF Route
        <4>2. chain \in Seq(Entries) /\ KeepsAll(chain)
          BY <3>1, <3>3, BuiltChainIs, WithoutLimitedIs DEF OfModel, KeepsAll
        <4>3. <<>> \in Seq(Calls) /\ 0 \in 0..MAX_FALLBACK_ATTEMPTS
          BY BudgetIs
        <4> HIDE DEF chain
        <4>4. GoesOn(<<>>)
          BY <3>1, <4>1, <4>2, <4>3, ChainGoes
        <4>5. CASE GivenUp(<<>>)
          BY <1>2, <3>1, <4>5 DEF GivenUp, Pending
        <4>  QED  BY <1>1, <4>3, <4>4, <4>5 DEF GoesOn
      <3>  QED  BY <3>2, <3>3
    <2>2. CASE Fails
      <3>1. PICK f \in Failures : ChainFails(f) \/ ChainStops(f) \/ CrossFails(f) \/ FinalFails(f)
        BY <1>2, <2>2, FailsIs
      <3>2. phase \in Pending
        BY <1>2, <2>2, FailsIs
      <3> DEFINE t == With(f)
      <3>3. /\ t \in Seq(Calls) /\ Len(t) = Len(trail) /\ Len(trail) \in Nat
            /\ config \in Configs /\ rest \in Seq(Entries) /\ KeepsAll(rest)
            /\ attempts \in 0..MAX_FALLBACK_ATTEMPTS
            /\ attempts \in 0..(MAX_FALLBACK_ATTEMPTS + 2)
        BY <1>2, <3>2, AnswerIs, BudgetIs DEF RouteInv, TypeOK, CallPending
      <3>4. GoesOn(t)
        BY <3>1, <3>3, ChainGoes, FinalGoes
           DEF ChainFails, ChainStops, CrossFails, FinalFails, EndAs, GoesOn, GivenUp
      <3> HIDE DEF t
      <3>5. CASE GivenUp(t)
        BY <1>2, <3>2, <3>3, <3>5 DEF GivenUp
      <3>  QED  BY <1>1, <3>3, <3>4, <3>5 DEF GoesOn
    <2>3. CASE Answered
      <3>1. Len(trail') = Len(trail) /\ phase \in Pending
        BY <1>2, <2>3, AnswerIs DEF Answered, EndAs, RouteInv, TypeOK, CallPending
      <3>2. Len(trail) \in Nat
        BY <1>2 DEF RouteInv, TypeOK
      <3>  QED  BY <1>2, <3>1, <3>2
    <2>4. CASE World \/ UNCHANGED vars
      <3>1. trail' = trail /\ phase' = phase /\ Len(trail) \in Nat
        BY <1>2, <2>4 DEF World, Freeze, Thaw, Trip, Untrip, vars, RouteInv, TypeOK
      <3>  QED  BY <1>2, <3>1
    <2>  QED  BY <1>2, <2>1, <2>2, <2>3, <2>4 DEF Next
  <1>3. RouteInv /\ [Next]_vars => [Calling => Usable]_vars
    BY <1>2
  <1>  QED  BY <1>3, RouteHolds, PTL DEF Spec, CallsUsable
-------------------------------------------------------------------------------
(* The circuit breaker, for every set of requests, thresholds and recovery     *)
(* timeout.                                                                    *)

(* What the history variables say of the counters: the failure count is the  *)
(* run of failures, and in a half-open phase the success count is the streak.*)
BreakerCountersAgree ==
    /\ run = failure_count
    /\ state = "HALF_OPEN" => streak = success_count

BreakerInv == BreakerTypeOK /\ BreakerCountersAgree /\ ClosedBelowThreshold

(* Every reachable state of the breaker is well typed.                       *)
LEMMA BreakerInitInv == BreakerInit => BreakerInv
  BY BreakerAssumption
  DEF BreakerInit, BreakerInv, BreakerTypeOK, States, BreakerCountersAgree, ClosedBelowThreshold

(* Each method of the breaker, and each step of its callers, keeps BreakerInv.     *)
LEMMA BreakerNextInv == BreakerInv /\ [BreakerNext]_breakerVars => BreakerInv'
<1> SUFFICES ASSUME BreakerInv, [BreakerNext]_breakerVars PROVE BreakerInv'
    OBVIOUS
<1> USE BreakerAssumption
    DEF BreakerInv, BreakerTypeOK, States, BreakerCountersAgree, ClosedBelowThreshold
<1>1. CASE Reset
  BY <1>1 DEF Reset
<1>2. CASE Tick
  BY <1>2 DEF Tick, history
<1>3. ASSUME NEW r \in Requests, IsAvailable(r) PROVE BreakerInv'
  BY <1>3 DEF IsAvailable, RecoveryDue
<1>4. ASSUME NEW r \in Requests, RecordFailure(r) PROVE BreakerInv'
  <2>1. BreakerTypeOK'
    BY <1>4 DEF RecordFailure
  <2>2. BreakerCountersAgree'
    BY <1>4 DEF RecordFailure, Trips
  <2>3. ClosedBelowThreshold'
    BY <1>4 DEF RecordFailure, Trips
  <2> QED BY <2>1, <2>2, <2>3
<1>5. ASSUME NEW r \in Requests, RecordSuccess(r) PROVE BreakerInv'
  <2>1. SuccessCountAfterSuccess \in Nat
    BY DEF SuccessCountAfterSuccess, Closes
  <2>2. BreakerTypeOK'
    BY <1>5, <2>1 DEF RecordSuccess
  <2>3. BreakerCountersAgree'
    BY <1>5 DEF RecordSuccess, SuccessCountAfterSuccess, Closes
  <2>4. ClosedBelowThreshold'
    BY <1>5 DEF RecordSuccess
  <2> QED BY <2>2, <2>3, <2>4
<1>6. ASSUME NEW r \in Requests, Abandon(r) PROVE BreakerInv'
  BY <1>6 DEF Abandon, breaker
<1>7. CASE UNCHANGED breakerVars
  BY <1>7 DEF breakerVars
<1> QED BY <1>1, <1>2, <1>3, <1>4, <1>5, <1>6, <1>7 DEF BreakerNext

(* The invariant holds in every reachable state.                             *)
LEMMA BreakerInvariant == BreakerSpec => []BreakerInv
  BY BreakerInitInv, BreakerNextInv, PTL DEF BreakerSpec

(* Type correctness of the breaker, for all parameters.                      *)
THEOREM BreakerTypeCorrect == BreakerSpec => []BreakerTypeOK
<1>1. BreakerInv => BreakerTypeOK
  BY DEF BreakerInv
<1> QED BY BreakerInvariant, <1>1, PTL

(* A closed breaker is always below its threshold: no outage leaves a count  *)
(* behind that would trip it early (record_failure, record_success, reset).  *)
THEOREM ClosedIsBelowThreshold == BreakerSpec => []ClosedBelowThreshold
<1>1. BreakerInv => ClosedBelowThreshold
  BY DEF BreakerInv
<1> QED BY BreakerInvariant, <1>1, PTL

(* The breaker trips only on failure_threshold failures in a row.            *)
THEOREM TripNeedsRun == BreakerSpec => TripsOnlyOnRun
<1> DEFINE Good == state = "CLOSED" /\ state' = "OPEN" => run' >= FailureThreshold
<1>1. BreakerInv /\ [BreakerNext]_breakerVars => [Good]_breakerVars
  <2> SUFFICES ASSUME BreakerInv, BreakerNext, state = "CLOSED", state' = "OPEN"
               PROVE  run' >= FailureThreshold
      OBVIOUS
  <2>1. PICK r \in Requests : RecordFailure(r)
    BY DEF BreakerNext, Reset, Tick, history, IsAvailable, RecordSuccess, Abandon,
           breaker, Closes
  <2> QED BY <2>1 DEF RecordFailure, Trips, BreakerInv, BreakerCountersAgree
<1> QED BY BreakerInvariant, <1>1, PTL DEF BreakerSpec, TripsOnlyOnRun

(* The breaker closes only on success_threshold successes in a row, reported *)
(* in one half-open phase, or by an operator's reset.                        *)
THEOREM CloseNeedsStreak == BreakerSpec => ClosesOnlyOnStreak
<1> DEFINE Good == state = "HALF_OPEN" /\ state' = "CLOSED"
                     => Reset \/ streak' >= SuccessThreshold
<1>1. BreakerInv /\ [BreakerNext]_breakerVars => [Good]_breakerVars
  <2> SUFFICES ASSUME BreakerInv, BreakerNext, state = "HALF_OPEN", state' = "CLOSED", ~Reset
               PROVE  streak' >= SuccessThreshold
      OBVIOUS
  <2>1. PICK r \in Requests : RecordSuccess(r)
    BY DEF BreakerNext, Tick, history, IsAvailable, RecordFailure, Trips, Abandon,
           breaker
  <2> QED BY <2>1 DEF RecordSuccess, Closes, BreakerInv, BreakerCountersAgree
<1> QED BY BreakerInvariant, <1>1, PTL DEF BreakerSpec, ClosesOnlyOnStreak
-----------------------------------------------------------------------------
(* Every step of the breaker is a step of the gate or a stutter.             *)
LEMMA StepImplementsGate == BreakerInv /\ [BreakerNext]_breakerVars => [Gate!Next]_(Gate!vars)
<1> SUFFICES ASSUME BreakerInv, [BreakerNext]_breakerVars PROVE [Gate!Next]_(Gate!vars)
    OBVIOUS
<1> USE BreakerAssumption DEF BreakerInv, BreakerTypeOK, States, Gate!vars
<1>1. CASE Reset
  BY <1>1 DEF Reset, Gate!Next, Gate!Lift
<1>2. CASE Tick
  <2>1. CASE state = "OPEN"
    BY <1>2, <2>1 DEF Tick, history, Gate!Next, Gate!Tick
  <2>2. CASE state # "OPEN"
    BY <1>2, <2>2 DEF Tick, history
  <2> QED BY <2>1, <2>2
<1>3. ASSUME NEW r \in Requests, IsAvailable(r) PROVE Gate!Admit(r)
  BY <1>3 DEF IsAvailable, RecoveryDue, Gate!Admit
<1>4. ASSUME NEW r \in Requests, RecordFailure(r) PROVE Gate!Finish(r)
  BY <1>4 DEF RecordFailure, Trips, Gate!Finish
<1>5. ASSUME NEW r \in Requests, RecordSuccess(r) PROVE Gate!Finish(r)
  BY <1>5 DEF RecordSuccess, Closes, Gate!Finish
<1>6. ASSUME NEW r \in Requests, Abandon(r) PROVE Gate!Finish(r)
  BY <1>6 DEF Abandon, breaker, Gate!Finish
<1>7. CASE UNCHANGED breakerVars
  BY <1>7 DEF breakerVars
<1> QED BY <1>1, <1>2, <1>3, <1>4, <1>5, <1>6, <1>7 DEF BreakerNext, Gate!Next

(* The breaker implements the cool-down gate: between the last failure heard *)
(* while open and the next admission lies a whole recovery timeout.          *)
THEOREM ImplementsGate == BreakerSpec => GateSpec
<1>1. BreakerInit => Gate!Init
  BY DEF BreakerInit, Gate!Init
<1> QED BY <1>1, BreakerInvariant, StepImplementsGate, PTL DEF BreakerSpec, GateSpec, Gate!Spec
===============================================================================
