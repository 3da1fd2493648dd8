------------------------- MODULE ProxyAttemptsProofs --------------------------
(* Proofs about ProxyAttempts, for every set of requests, number of permits   *)
(* and retries, and every behaviour of the backend; then those about the rate *)
(* limits, for every ladder of delays.                                        *)
EXTENDS ProxyAttempts, RateLimits, FiniteSetTheorems, TLAPS

(* The shape of a request's record, without the bounds of its counters, which *)
(* the permits do not depend on.                                              *)
Shape == [pc : Places, stream : BOOLEAN, attempt : Nat, status : Nat,
          name : Spellings, tried : SUBSET Spellings, profile : Nat]

Inside == {r \in Requests : req[r].pc \in InPermit}

IInv == /\ req \in [Requests -> Shape]
        /\ free \in Nat
        /\ PermitsConserved

(* What a step may do to a request: stay on its side of the permit, give it   *)
(* back on the way out, or take it on the way in.                             *)
StaysOnSide(r, record) ==
    /\ record.pc \in InPermit <=> req[r].pc \in InPermit
    /\ free' = free
StepsOut(r, record) ==
    /\ req[r].pc \in InPermit /\ record.pc \notin InPermit
    /\ free' = free + 1
StepsIn(r, record) ==
    /\ req[r].pc \notin InPermit /\ record.pc \in InPermit
    /\ free > 0 /\ free' = free - 1

Moves(r) ==
    \E record \in Shape :
       /\ req' = [req EXCEPT ![r] = record]
       /\ StaysOnSide(r, record) \/ StepsOut(r, record) \/ StepsIn(r, record)

(* A move keeps the permits' balance.                                         *)
LEMMA MoveKeepsIInv ==
  ASSUME IInv, NEW r \in Requests, Moves(r)
  PROVE  IInv'
<1> USE AttemptsAssumption
<1>1. PICK record \in Shape :
        /\ req' = [req EXCEPT ![r] = record]
        /\ StaysOnSide(r, record) \/ StepsOut(r, record) \/ StepsIn(r, record)
  BY DEF Moves
<1>2. req' \in [Requests -> Shape]
  BY <1>1 DEF IInv
<1>3. /\ req'[r] = record
      /\ \A q \in Requests \ {r} : req'[q] = req[q]
  BY <1>1 DEF IInv
<1>4. IsFiniteSet(Inside) /\ Cardinality(Inside) \in Nat
  BY FS_Subset, FS_CardinalityType DEF Inside
<1>5. free + Cardinality(Inside) = PermitLimit
  BY DEF IInv, PermitsConserved, Inside
<1>6. CASE StaysOnSide(r, record)
  <2>1. Inside' = Inside
    BY <1>3, <1>6 DEF Inside, StaysOnSide
  <2> QED BY <1>2, <1>5, <1>6, <2>1 DEF IInv, PermitsConserved, Inside, StaysOnSide
<1>7. CASE StepsOut(r, record)
  <2>1. Inside' = Inside \ {r} /\ r \in Inside
    BY <1>3, <1>7 DEF Inside, StepsOut
  <2>2. Cardinality(Inside') = Cardinality(Inside) - 1
    BY <1>4, <2>1, FS_RemoveElement
  <2>3. free' \in Nat /\ free' + Cardinality(Inside') = PermitLimit
    BY <1>4, <1>5, <1>7, <2>2 DEF StepsOut, IInv
  <2> QED BY <1>2, <2>3 DEF IInv, PermitsConserved, Inside
<1>8. CASE StepsIn(r, record)
  <2>1. Inside' = Inside \cup {r} /\ r \notin Inside
    BY <1>3, <1>8 DEF Inside, StepsIn
  <2>2. Cardinality(Inside') = Cardinality(Inside) + 1
    BY <1>4, <2>1, FS_AddElement
  <2>3. free' \in Nat /\ free' + Cardinality(Inside') = PermitLimit
    BY <1>4, <1>5, <1>8, <2>2 DEF StepsIn, IInv
  <2> QED BY <1>2, <2>3 DEF IInv, PermitsConserved, Inside
<1> QED BY <1>1, <1>6, <1>7, <1>8

(* A request's record, when it starts, streams and is over.                   *)
LEMMA FreshShape ==
  ASSUME NEW pc \in Places, NEW stream \in BOOLEAN, NEW name \in Spellings
  PROVE  Fresh(pc, stream, name) \in Shape /\ Fresh(pc, stream, name).pc = pc
  BY DEF Fresh, Shape

LEMMA IdleShape == Idle \in Shape /\ Idle.pc = "idle"
<1>1. [sep |-> "-", date |-> "none"] \in Spellings /\ "idle" \in Places
  BY DEF Spellings, Places
<1> QED BY <1>1, FreshShape DEF Idle

(* Every return from the attempt loop is a move.                              *)
LEMMA LeavesMoves ==
  ASSUME IInv, NEW r \in Requests, Leaves(r)
  PROVE  Moves(r)
<1>1. req' = [req EXCEPT ![r] = Idle]
  BY DEF Leaves
<1>2. StaysOnSide(r, Idle) \/ StepsOut(r, Idle)
  BY IdleShape DEF Leaves, Release, StaysOnSide, StepsOut, InPermit
<1> QED BY <1>1, <1>2, IdleShape DEF Moves

(* So is every way back to the head of the loop.                              *)
LEMMA TriesAgainMoves ==
  ASSUME IInv, NEW r \in Requests, NEW next \in Shape, NEW status \in Nat,
         TriesAgain(r, next, status)
  PROVE  Moves(r)
<1> DEFINE record == [next EXCEPT !.pc = "delay", !.status = status,
                                  !.attempt = req[r].attempt + 1]
<1>1. record \in Shape /\ record.pc = "delay"
  <2>1. "delay" \in Places
    BY DEF Places
  <2>2. req[r].attempt + 1 \in Nat
    BY DEF IInv, Shape
  <2> QED BY <2>1, <2>2 DEF Shape
<1>2. req' = [req EXCEPT ![r] = record]
  BY DEF TriesAgain
<1>3. StaysOnSide(r, record) \/ StepsOut(r, record)
  BY <1>1 DEF TriesAgain, Release, StaysOnSide, StepsOut, InPermit
<1> QED BY <1>1, <1>2, <1>3 DEF Moves

(* A switched request is a request.                                           *)
LEMMA SwitchedShape ==
  ASSUME IInv, NEW r \in Requests, NEW status, NEW complaint,
         NEW next \in Switched(r, status, complaint)
  PROVE  next \in Shape
<1>1. req[r] \in Shape
  BY DEF IInv
<1>2. CASE next = [req[r] EXCEPT !.profile = @ + 1]
  <2>1. req[r].profile + 1 \in Nat
    BY <1>1 DEF Shape
  <2> QED BY <1>1, <1>2, <2>1 DEF Shape
<1>3. ASSUME NEW n \in UntriedNames(r),
             next = [req[r] EXCEPT !.name = n, !.tried = @ \cup {n}]
      PROVE  next \in Shape
  <2>1. \A i \in 1..4 : Candidates(req[r].name)[i] \in Spellings
    BY <1>1 DEF Candidates, Spellings, Shape
  <2>2. n \in Spellings
    BY <2>1 DEF UntriedNames
  <2> QED BY <1>1, <1>3, <2>2 DEF Shape
<1> QED BY <1>2, <1>3 DEF Switched

(* And the end of the loop, whatever it does to the health record.            *)
LEMMA AfterLoopMoves ==
  ASSUME IInv, NEW r \in Requests, NEW h, NEW status, NEW message,
         AfterLoop(r, h, status, message)
  PROVE  Moves(r)
  BY LeavesMoves DEF AfterLoop

(* A stream that fails to start goes one of these two ways.                   *)
LEMMA StreamFailsMoves ==
  ASSUME IInv, NEW r \in Requests, NEW h, NEW l, NEW status \in Nat, NEW complaint,
         NEW quotaExhausted, NEW retryable,
         StreamFails(r, h, l, status, complaint, quotaExhausted, retryable)
  PROVE  Moves(r)
<1> DEFINE switched == Switched(r, status, complaint)
           next == IF switched # {} THEN switched ELSE {req[r]}
<1>1. next \subseteq Shape
  BY SwitchedShape DEF IInv
<1>2. \/ \E n \in next : TriesAgain(r, n, status)
      \/ \E message \in Messages : AfterLoop(r, h, status, message)
  BY DEF StreamFails
<1> HIDE DEF next
<1> QED BY <1>1, <1>2, TriesAgainMoves, AfterLoopMoves

(* What a request does on its way to an answer is a move.                     *)
LEMMA ProceedsMoves ==
  ASSUME IInv, NEW r \in Requests, Proceeds(r)
  PROVE  Moves(r)
<1>1. req[r] \in Shape /\ req[r].status \in Nat /\ req[r].name \in Spellings
  BY DEF IInv, Shape
<1>2. /\ \A status \in Statuses : status \in Nat
      /\ 400 \in Nat /\ 429 \in Nat /\ 502 \in Nat /\ 503 \in Nat /\ 504 \in Nat
  BY AttemptsAssumption
<1>places. /\ "waiting" \in Places /\ "gap" \in Places /\ "sent" \in Places
      /\ "backoff" \in Places /\ "body" \in Places
  BY DEF Places, InPermit
<1>3. ASSUME GetsTurn(r) \/ SleepEnds(r) PROVE Moves(r)
  <2> DEFINE record == [req[r] EXCEPT !.pc = "waiting"]
  <2>1. record \in Shape
    BY <1>places, <1>1 DEF Shape
  <2>2. req' = [req EXCEPT ![r] = record] /\ StaysOnSide(r, record)
    BY <1>3, <1>1 DEF GetsTurn, SleepEnds, StaysOnSide, InPermit, IInv, Shape
  <2> QED BY <2>1, <2>2 DEF Moves
<1>4. ASSUME GetsPermit(r) PROVE Moves(r)
  <2> DEFINE record == [req[r] EXCEPT
                          !.pc = IF req[r].stream THEN "gap" ELSE "sent"]
  <2>1. record \in Shape
    BY <1>places, <1>1 DEF Shape
  <2>2. req' = [req EXCEPT ![r] = record]
    BY <1>4, <1>1 DEF GetsPermit, IInv, Shape
  <2>3. StepsIn(r, record)
    BY <1>4, <1>1 DEF GetsPermit, StepsIn, InPermit, Shape
  <2> QED BY <2>1, <2>2, <2>3 DEF Moves
<1>5. ASSUME TurnsStreamAway(r) PROVE Moves(r)
  <2> DEFINE status == IF Limited(limits, BackendId) THEN 503 ELSE 429
  <2>1. StreamFails(r, health, limits, status, "other", FALSE, FALSE) /\ status \in Nat
    BY <1>5, <1>2 DEF TurnsStreamAway
  <2> QED BY <2>1, StreamFailsMoves
<1>6. ASSUME PermitTimeout(r) PROVE Moves(r)
  BY <1>6, <1>1, AfterLoopMoves DEF PermitTimeout
<1>7. ASSUME SendsStream(r) PROVE Moves(r)
  <2> DEFINE record == [req[r] EXCEPT !.pc = "sent"]
  <2>1. record \in Shape
    BY <1>places, <1>1 DEF Shape
  <2>2. req' = [req EXCEPT ![r] = record] /\ StaysOnSide(r, record)
    BY <1>7, <1>1 DEF SendsStream, StaysOnSide, InPermit, IInv, Shape
  <2> QED BY <2>1, <2>2 DEF Moves
<1>8. ASSUME Answered(r) \/ AnsweredHtml(r) PROVE Moves(r)
  BY <1>8, LeavesMoves DEF Answered, AnsweredHtml
<1>9. ASSUME RejectedSignature(r) PROVE Moves(r)
  <2> DEFINE record == [req[r] EXCEPT !.pc = "backoff", !.status = 400]
  <2>1. CASE req[r].attempt < MaxRetries
    <3>1. record \in Shape
      <4>1. 400 \in Nat
        OBVIOUS
      <4> QED BY <1>places, <1>1, <4>1 DEF Shape
    <3>2. req' = [req EXCEPT ![r] = record] /\ StaysOnSide(r, record)
      BY <1>9, <1>1, <2>1
      DEF RejectedSignature, AwaitsAnswer, StaysOnSide, InPermit, IInv, Shape
    <3> QED BY <3>1, <3>2 DEF Moves
  <2>2. CASE ~(req[r].attempt < MaxRetries)
    BY <1>9, <1>1, <2>2, LeavesMoves DEF RejectedSignature
  <2> QED BY <2>1, <2>2
<1>10. ASSUME RejectedForbidden(r) PROVE Moves(r)
  BY <1>10, LeavesMoves DEF RejectedForbidden
<1>11. ASSUME NEW status \in Statuses, Rejected(r, status) PROVE Moves(r)
  <2> DEFINE record == [req[r] EXCEPT !.pc = "backoff", !.status = status]
  <2>1. PICK complaint \in Complaints : \E l : GoesOn(r, l, status, complaint)
    BY <1>11 DEF Rejected
  <2>2. \/ \E next \in Switched(r, status, complaint) : TriesAgain(r, next, status)
        \/ Leaves(r)
        \/ /\ req' = [req EXCEPT ![r].pc = "backoff", ![r].status = status]
           /\ UNCHANGED free
    BY <2>1 DEF GoesOn
  <2>3. CASE \E next \in Switched(r, status, complaint) : TriesAgain(r, next, status)
    BY <1>2, <2>3, SwitchedShape, TriesAgainMoves
  <2>4. CASE /\ req' = [req EXCEPT ![r].pc = "backoff", ![r].status = status]
             /\ UNCHANGED free
    <3>1. record \in Shape
      <4>1. status \in Nat
        BY <1>2
      <4> QED BY <1>places, <1>1, <4>1 DEF Shape
    <3>2. req' = [req EXCEPT ![r] = record]
      BY <1>1, <2>4 DEF IInv, Shape
    <3>3. StaysOnSide(r, record)
      BY <1>11, <1>1, <2>4
      DEF Rejected, AwaitsAnswer, StaysOnSide, InPermit, Shape
    <3> QED BY <3>1, <3>2, <3>3 DEF Moves
  <2> QED BY <2>2, <2>3, <2>4, LeavesMoves
<1>12. ASSUME NEW status \in Statuses, RejectedUnparsed(r, status) PROVE Moves(r)
  BY <1>12, AfterLoopMoves DEF RejectedUnparsed
<1>13. ASSUME BackoffOver(r) PROVE Moves(r)
  BY <1>13, <1>1, TriesAgainMoves DEF BackoffOver, Shape
<1>14. ASSUME NEW message, GetsNoAnswer(r, message) PROVE Moves(r)
  BY <1>14, <1>1, TriesAgainMoves, AfterLoopMoves DEF GetsNoAnswer, Shape
<1>15. ASSUME ConnectRefused(r) \/ Raised(r) PROVE Moves(r)
  BY <1>15, <1>1, AfterLoopMoves DEF ConnectRefused, Raised
<1>16. ASSUME StreamStarts(r) PROVE Moves(r)
  <2> DEFINE record == Fresh("body", TRUE, req[r].name)
  <2>1. record \in Shape /\ record.pc = "body"
    BY <1>places, <1>1, FreshShape
  <2>2. req' = [req EXCEPT ![r] = record]
    BY <1>16 DEF StreamStarts
  <2>3. StepsOut(r, record)
    BY <1>16, <1>1, <2>1 DEF StreamStarts, AwaitsStream, Release, StepsOut, InPermit, Shape
  <2> QED BY <2>1, <2>2, <2>3 DEF Moves
<1>17. ASSUME NEW status \in Statuses, StreamRejected(r, status) PROVE Moves(r)
  BY <1>17, <1>2, StreamFailsMoves DEF StreamRejected
<1>18. ASSUME StreamTimedOut(r) \/ StreamConnectFailed(r) \/ StreamBroken(r)
       PROVE  Moves(r)
  <2>1. \E status \in Nat : \E h, retryable :
           StreamFails(r, h, limits, status, "other", FALSE, retryable)
    <3>1. CASE StreamTimedOut(r)
      BY <3>1, <1>2 DEF StreamTimedOut
    <3>2. CASE StreamConnectFailed(r)
      BY <3>2, <1>2 DEF StreamConnectFailed
    <3>3. CASE StreamBroken(r)
      <4>1. PICK status \in {0, 200}, retryable \in BOOLEAN :
              StreamFails(r, health, limits, status, "other", FALSE, retryable)
        BY <3>3 DEF StreamBroken
      <4>2. status \in Nat
        OBVIOUS
      <4> QED BY <4>1, <4>2
    <3> QED BY <1>18, <3>1, <3>2, <3>3
  <2> QED BY <2>1, StreamFailsMoves
<1> QED
  BY <1>3, <1>4, <1>5, <1>6, <1>7, <1>8, <1>9, <1>10, <1>11, <1>12, <1>13, <1>14,
     <1>15, <1>16, <1>17, <1>18
  DEF Proceeds

(* Every step keeps the permits' balance.                                     *)
LEMMA NextIInv == IInv /\ [Next]_vars => IInv'
<1> SUFFICES ASSUME IInv, [Next]_vars PROVE IInv'
  OBVIOUS
<1>1. CASE Tick \/ UNCHANGED vars
  BY <1>1 DEF Tick, vars, IInv, PermitsConserved
<1>2. ASSUME NEW r \in Requests, NEW stream \in Streaming, NEW name \in Asked,
             Start(r, stream, name)
      PROVE  IInv'
  <2> DEFINE record == IF AnyLimited(FALSE, name) THEN Idle
                       ELSE Fresh("spacing", stream, name)
  <2>1. stream \in BOOLEAN /\ name \in Spellings /\ "spacing" \in Places
    BY AttemptsAssumption DEF Places
  <2>2. record \in Shape /\ record.pc \in {"idle", "spacing"}
    BY <2>1, FreshShape, IdleShape
  <2>3. req' = [req EXCEPT ![r] = record] /\ StaysOnSide(r, record)
    BY <1>2, <2>2 DEF Start, StaysOnSide, InPermit
  <2>4. Moves(r)
    BY <2>2, <2>3 DEF Moves
  <2> QED BY <2>4, MoveKeepsIInv
<1>3. ASSUME NEW r \in Requests, Proceeds(r) PROVE IInv'
  BY <1>3, ProceedsMoves, MoveKeepsIInv
<1>4. ASSUME NEW r \in Requests, Cancel(r) \/ StreamConsumed(r) \/ StreamBreaksOff(r)
      PROVE  IInv'
  <2>1. Leaves(r)
    BY <1>4 DEF Cancel, StreamConsumed, StreamBreaksOff
  <2> QED BY <2>1, LeavesMoves, MoveKeepsIInv
<1> QED BY <1>1, <1>2, <1>3, <1>4 DEF Next

(* A permit of the backend is free or held by one request, always, for any    *)
(* number of requests, retries and permits: no path out of an attempt, not    *)
(* even a cancellation, loses or duplicates one.                              *)
THEOREM PermitsAreConserved == Spec => []PermitsConserved
<1>1. Init => IInv
  <2> SUFFICES ASSUME Init PROVE IInv
    OBVIOUS
  <2>1. req \in [Requests -> Shape]
    BY IdleShape DEF Init
  <2>2. {r \in Requests : req[r].pc \in InPermit} = {}
    BY IdleShape DEF Init, InPermit
  <2>3. free = PermitLimit /\ PermitLimit \in Nat /\ Cardinality({}) = 0
    BY AttemptsAssumption, FS_EmptySet DEF Init
  <2> QED BY <2>1, <2>2, <2>3 DEF IInv, PermitsConserved
<1>2. IInv => PermitsConserved
  BY DEF IInv
<1> QED BY <1>1, <1>2, NextIInv, PTL DEF Spec
-------------------------------------------------------------------------------
(* The rate-limit tracker on its own, for all keys and delays: why its lock-  *)
(* outs climb while a key keeps failing and start over after a success.      *)

(* The count and its age follow the failures without a hint: while the last    *)
(* one is recent it is counted, and once it is not the count has expired; the  *)
(* last lock-out was no longer than the rung the count stands on.              *)
RunsCounted ==
    \A k \in Keys :
       /\ since[k] <= CountExpiry =>
             /\ tracker.count[k] > 0 /\ tracker.age[k] = since[k]
             /\ \/ last[k] = 0
                \/ last[k] <= AtLeast(QuotaLadder[tracker.count[k]], MinDelay)
       /\ since[k] > CountExpiry =>
             tracker.count[k] = 0 \/ tracker.age[k] > CountExpiry

LimitsInv == LimitsTypeOK /\ RunsCounted

LEMMA LimitsStart == LimitsInit => LimitsInv
  BY TrackerAssumption
     DEF LimitsInit, LimitsInv, LimitsTypeOK, RunsCounted, NewTracker, Trackers

(* A limit that is set changes nothing else.                                   *)
LEMMA WaitChanges ==
  ASSUME NEW t \in Trackers, NEW k \in Keys, NEW n \in 0..MaxDelay, NEW u,
         u = [t EXCEPT !.wait[k] = n]
  PROVE  /\ u \in Trackers /\ u.count = t.count /\ u.age = t.age
         /\ u.wait[k] = n
  BY DEF Trackers

LEMMA AtLeastIs ==
  ASSUME NEW n \in 0..MaxDelay
  PROVE  AtLeast(n, MinDelay) \in 1..MaxDelay
  BY TrackerAssumption DEF AtLeast

(* A higher rung is no shorter, whatever the floor.                            *)
LEMMA LadderClimbs ==
  ASSUME NEW i \in 1..4, NEW j \in 1..4, i <= j
  PROVE  AtLeast(QuotaLadder[i], MinDelay) <= AtLeast(QuotaLadder[j], MinDelay)
  BY TrackerAssumption DEF AtLeast

LEMMA RaisedIs ==
  ASSUME NEW t \in Trackers, NEW k \in Keys
  PROVE  /\ RaisedCount(t, k) \in 1..4
         /\ t.count[k] \in 0..4
         /\ t.age[k] <= CountExpiry => RaisedCount(t, k) >= t.count[k]
         /\ t.count[k] = 0 \/ t.age[k] > CountExpiry => RaisedCount(t, k) = 1
<1>1. t.count[k] \in 0..4 /\ t.age[k] \in 0..(CountExpiry + 1)
  BY DEF Trackers
<1> QED BY <1>1, TrackerAssumption DEF RaisedCount

(* A failure without a hint.                                                   *)
LEMMA ParsedIs ==
  ASSUME NEW t \in Trackers, NEW k \in Keys, NEW reason \in Reasons
  PROVE  LET u == Parsed(t, k, reason, NoHint)
             count == RaisedCount(t, k)
         IN  /\ u \in Trackers
             /\ u.wait[k] = AtLeast(DefaultRetryDelay(reason, count), MinDelay)
             /\ u.count = [t.count EXCEPT ![k] = count]
             /\ u.age = [t.age EXCEPT ![k] = 0]
<1> DEFINE count == RaisedCount(t, k)
           delay == AtLeast(DefaultRetryDelay(reason, count), MinDelay)
           u == Parsed(t, k, reason, NoHint)
<1>1. count \in 1..4
  BY RaisedIs
<1>2. DefaultRetryDelay(reason, count) \in 0..MaxDelay
  BY <1>1, TrackerAssumption DEF DefaultRetryDelay
<1>3. delay \in 0..MaxDelay
  BY <1>2, AtLeastIs, TrackerAssumption
<1>4. u = [wait  |-> [t.wait EXCEPT ![k] = delay],
           count |-> [t.count EXCEPT ![k] = count],
           age   |-> [t.age EXCEPT ![k] = 0]]
  BY DEF Parsed
<1> HIDE DEF count, delay, u
<1>5. u \in Trackers /\ u.wait[k] = delay
  BY <1>1, <1>3, <1>4, TrackerAssumption DEF Trackers
<1>6. u.count = [t.count EXCEPT ![k] = count] /\ u.age = [t.age EXCEPT ![k] = 0]
  BY <1>4
<1> QED BY <1>5, <1>6 DEF count, delay, u

(* Each method of the tracker, and time, keep the invariant.                  *)
LEMMA ParseKeeps ==
  ASSUME LimitsInv, NEW k \in Keys, NEW reason \in Reasons, NEW hint \in 0..NoHint,
         Parse(k, reason, hint)
  PROVE  LimitsInv'
<1> USE DEF LimitsInv, LimitsTypeOK
<1>1. CASE hint # NoHint
  <2>1. hint \in 0..MaxDelay
    BY <1>1, TrackerAssumption DEF NoHint
  <2>2. AtLeast(hint, MinDelay) \in 0..MaxDelay
    BY <2>1, AtLeastIs, TrackerAssumption
  <2>3. tracker' = [tracker EXCEPT !.wait[k] = AtLeast(hint, MinDelay)]
    BY <1>1 DEF Parse, Parsed
  <2>4. tracker' \in Trackers /\ tracker'.count = tracker.count /\ tracker'.age = tracker.age
    BY <2>2, <2>3, WaitChanges
  <2>5. last' = last /\ since' = since
    BY <1>1 DEF Parse
  <2> QED BY <2>4, <2>5 DEF RunsCounted
<1>2. CASE hint = NoHint
  <2> DEFINE count == RaisedCount(tracker, k)
             delay == AtLeast(DefaultRetryDelay(reason, count), MinDelay)
  <2>1. /\ tracker' \in Trackers /\ tracker'.wait[k] = delay
        /\ tracker'.count = [tracker.count EXCEPT ![k] = count]
        /\ tracker'.age = [tracker.age EXCEPT ![k] = 0]
    BY <1>2, ParsedIs DEF Parse
  <2>2. /\ count \in 1..4 /\ tracker.count[k] \in 0..4
        /\ tracker.age[k] <= CountExpiry => count >= tracker.count[k]
    BY RaisedIs
  <2>3. delay = AtLeast(QuotaLadder[count], MinDelay) \/ reason # "QUOTA_EXHAUSTED"
    BY DEF DefaultRetryDelay
  <2>4. since' = [since EXCEPT ![k] = 0]
    BY <1>2 DEF Parse
  <2>5. last' = [last EXCEPT ![k] = IF reason = "QUOTA_EXHAUSTED" THEN tracker'.wait[k]
                                    ELSE IF since[k] > CountExpiry THEN 0 ELSE last[k]]
    BY <1>2 DEF Parse
  <2>6. tracker'.wait[k] \in 0..MaxDelay
    BY <2>1 DEF Trackers
  <2>7. /\ tracker.count \in [Keys -> 0..4] /\ tracker.age \in [Keys -> 0..(CountExpiry + 1)]
    BY DEF Trackers
  <2> HIDE DEF count, delay
  <2>8. LimitsTypeOK'
    BY <2>1, <2>4, <2>5, <2>6, TrackerAssumption
  <2>9. ASSUME NEW q \in Keys \ {k}
        PROVE  /\ since'[q] = since[q] /\ last'[q] = last[q]
               /\ tracker'.count[q] = tracker.count[q] /\ tracker'.age[q] = tracker.age[q]
    BY <2>1, <2>4, <2>5, <2>7
  <2>10. since'[k] = 0 /\ tracker'.count[k] = count /\ tracker'.age[k] = 0
    BY <2>1, <2>4, <2>7
  <2>11. last'[k] = 0 \/ last'[k] <= AtLeast(QuotaLadder[count], MinDelay)
    <3>1. CASE reason = "QUOTA_EXHAUSTED"
      <4>1. last'[k] = AtLeast(QuotaLadder[count], MinDelay)
        BY <2>1, <2>3, <2>5, <3>1
      <4>2. AtLeast(QuotaLadder[count], MinDelay) \in Nat
        BY <4>1, <2>1, <2>3, <2>6, <3>1
      <4> QED BY <4>1, <4>2
    <3>2. CASE reason # "QUOTA_EXHAUSTED" /\ since[k] > CountExpiry
      BY <2>5, <3>2
    <3>3. CASE reason # "QUOTA_EXHAUSTED" /\ since[k] <= CountExpiry
      <4>1. last'[k] = last[k]
        BY <2>5, <3>3, TrackerAssumption
      <4>2. /\ tracker.count[k] > 0 /\ tracker.age[k] = since[k]
            /\ last[k] = 0 \/ last[k] <= AtLeast(QuotaLadder[tracker.count[k]], MinDelay)
        BY <3>3 DEF RunsCounted
      <4>3. tracker.count[k] \in 1..4 /\ tracker.count[k] <= count
        BY <2>2, <3>3, <4>2
      <4>4. AtLeast(QuotaLadder[tracker.count[k]], MinDelay)
              <= AtLeast(QuotaLadder[count], MinDelay)
        BY <2>2, <4>3, LadderClimbs
      <4>5. /\ QuotaLadder[count] \in 0..MaxDelay
            /\ QuotaLadder[tracker.count[k]] \in 0..MaxDelay
        BY <2>2, <4>3, TrackerAssumption
      <4>6. /\ AtLeast(QuotaLadder[tracker.count[k]], MinDelay) \in 1..MaxDelay
            /\ AtLeast(QuotaLadder[count], MinDelay) \in 1..MaxDelay
            /\ last[k] \in 0..MaxDelay
        BY <4>5, AtLeastIs
      <4> QED BY <4>1, <4>2, <4>4, <4>6
    <3>4. since[k] <= CountExpiry \/ since[k] > CountExpiry
      BY TrackerAssumption
    <3> QED BY <3>1, <3>2, <3>3, <3>4
  <2>12. RunsCounted'
    <3>1. ASSUME NEW q \in Keys
          PROVE  /\ since'[q] <= CountExpiry =>
                       /\ tracker'.count[q] > 0 /\ tracker'.age[q] = since'[q]
                       /\ \/ last'[q] = 0
                          \/ last'[q] <= AtLeast(QuotaLadder[tracker'.count[q]], MinDelay)
                 /\ since'[q] > CountExpiry =>
                       tracker'.count[q] = 0 \/ tracker'.age[q] > CountExpiry
      <4>1. CASE q = k
        BY <2>2, <2>10, <2>11, <4>1, TrackerAssumption
      <4>2. CASE q # k
        BY <2>9, <4>2 DEF RunsCounted
      <4> QED BY <4>1, <4>2
    <3> QED BY <3>1 DEF RunsCounted
  <2> QED BY <2>8, <2>12
<1> QED BY <1>1, <1>2

LEMMA SuccessKeeps ==
  ASSUME LimitsInv, NEW k \in Keys, MarkSuccess(k)
  PROVE  LimitsInv'
<1> USE TrackerAssumption DEF LimitsInv, LimitsTypeOK
<1>1. tracker' = [wait  |-> [tracker.wait EXCEPT ![k] = 0],
                  count |-> [tracker.count EXCEPT ![k] = 0],
                  age   |-> [tracker.age EXCEPT ![k] = 0]]
  BY DEF MarkSuccess, Succeeds
<1>2. tracker' \in Trackers
  BY <1>1 DEF Trackers
<1>3. last' = [last EXCEPT ![k] = 0] /\ since' = [since EXCEPT ![k] = CountExpiry + 1]
  BY DEF MarkSuccess
<1>4. tracker'.count[k] = 0 /\ since'[k] = CountExpiry + 1
  BY <1>1, <1>3 DEF Trackers
<1>5. ASSUME NEW q \in Keys \ {k}
      PROVE  /\ since'[q] = since[q] /\ last'[q] = last[q]
             /\ tracker'.count[q] = tracker.count[q] /\ tracker'.age[q] = tracker.age[q]
  BY <1>1, <1>3 DEF Trackers
<1>6. RunsCounted'
  BY <1>4, <1>5 DEF RunsCounted
<1> QED BY <1>2, <1>3, <1>6

LEMMA LimitKeeps ==
  ASSUME LimitsInv, NEW k \in Keys, NEW ticks \in 0..MaxDelay,
         tracker' = [tracker EXCEPT !.wait[k] = ticks], last' = last, since' = since
  PROVE  LimitsInv'
<1>1. tracker' \in Trackers /\ tracker'.count = tracker.count /\ tracker'.age = tracker.age
  BY WaitChanges DEF LimitsInv, LimitsTypeOK
<1> QED BY <1>1 DEF LimitsInv, LimitsTypeOK, RunsCounted

LEMMA TickKeeps ==
  ASSUME LimitsInv, LimitsTick
  PROVE  LimitsInv'
<1> USE TrackerAssumption DEF LimitsInv, LimitsTypeOK
<1> DEFINE older(k) == IF tracker.count[k] > 0 /\ tracker.age[k] <= CountExpiry
                         THEN tracker.age[k] + 1 ELSE tracker.age[k]
<1>1. tracker' = [wait  |-> [k \in Keys |-> IF tracker.wait[k] > 0
                                              THEN tracker.wait[k] - 1 ELSE 0],
                  count |-> tracker.count,
                  age   |-> [k \in Keys |-> older(k)]]
  BY DEF LimitsTick, WaitElapsed
<1>2. tracker' \in Trackers
  BY <1>1 DEF Trackers
<1>3. /\ last' = last
      /\ since' = [k \in Keys |-> IF since[k] <= CountExpiry THEN since[k] + 1
                                                             ELSE since[k]]
  BY DEF LimitsTick
<1>4. since' \in [Keys -> 0..(CountExpiry + 1)]
  BY <1>3
<1>5. \A k \in Keys : tracker'.count[k] = tracker.count[k] /\ tracker'.age[k] = older(k)
  BY <1>1
<1>6. RunsCounted'
  <2>1. ASSUME NEW k \in Keys
        PROVE  /\ since'[k] <= CountExpiry =>
                     /\ tracker.count[k] > 0 /\ older(k) = since'[k]
                     /\ \/ last[k] = 0
                        \/ last[k] <= AtLeast(QuotaLadder[tracker.count[k]], MinDelay)
               /\ since'[k] > CountExpiry =>
                     tracker.count[k] = 0 \/ older(k) > CountExpiry
    <3>1. /\ tracker.count[k] \in 0..4 /\ tracker.age[k] \in 0..(CountExpiry + 1)
          /\ since[k] \in 0..(CountExpiry + 1)
      BY DEF Trackers
    <3>2. CASE since[k] <= CountExpiry
      <4>1. /\ tracker.count[k] > 0 /\ tracker.age[k] = since[k]
            /\ \/ last[k] = 0
               \/ last[k] <= AtLeast(QuotaLadder[tracker.count[k]], MinDelay)
        BY <3>2 DEF RunsCounted
      <4>2. older(k) = since[k] + 1 /\ since'[k] = since[k] + 1
        BY <1>3, <3>2, <4>1
      <4> QED BY <3>1, <4>1, <4>2
    <3>3. CASE since[k] > CountExpiry
      <4>1. tracker.count[k] = 0 \/ tracker.age[k] > CountExpiry
        BY <3>3 DEF RunsCounted
      <4>2. older(k) = tracker.age[k] /\ since'[k] = since[k]
        BY <1>3, <3>1, <3>3, <4>1
      <4> QED BY <3>1, <3>3, <4>1, <4>2
    <3> QED BY <3>1, <3>2, <3>3
  <2> HIDE DEF older
  <2>2. \A k \in Keys : tracker'.count[k] = tracker.count[k] /\ tracker'.age[k] = older(k) /\ last'[k] = last[k]
    BY <1>3, <1>5
  <2> QED BY <2>1, <2>2 DEF RunsCounted
<1> QED BY <1>2, <1>3, <1>4, <1>6

LEMMA LimitsStep == LimitsInv /\ [LimitsNext]_limitsVars => LimitsInv'
<1> SUFFICES ASSUME LimitsInv, [LimitsNext]_limitsVars PROVE LimitsInv'
    OBVIOUS
<1>1. CASE LimitsTick
  BY <1>1, TickKeeps
<1>2. ASSUME NEW k \in Keys, NEW reason \in Reasons, NEW hint \in 0..NoHint,
             Parse(k, reason, hint)
      PROVE  LimitsInv'
  BY <1>2, ParseKeeps
<1>3. ASSUME NEW k \in Keys, MarkSuccess(k) PROVE LimitsInv'
  BY <1>3, SuccessKeeps
<1>4. ASSUME NEW k \in Keys, NEW ticks \in 0..MaxDelay, SetLockoutUntil(k, ticks)
      PROVE  LimitsInv'
  BY <1>4, LimitKeeps DEF SetLockoutUntil, LockedUntil
<1>5. ASSUME NEW k \in Keys, Clear(k) PROVE LimitsInv'
  <2>1. 0 \in 0..MaxDelay
    BY TrackerAssumption
  <2> QED BY <1>5, <2>1, LimitKeeps DEF Clear, Cleared
<1>6. CASE UNCHANGED limitsVars
  BY <1>6 DEF limitsVars, LimitsInv, LimitsTypeOK, RunsCounted
<1> QED BY <1>1, <1>2, <1>3, <1>4, <1>5, <1>6 DEF LimitsNext

LEMMA LimitsAlways == LimitsSpec => []LimitsInv
  BY LimitsStart, LimitsStep, PTL DEF LimitsSpec

(* The tracker is well typed, for all keys, delays and expiries.              *)
THEOREM LimitsTypeCorrect == LimitsSpec => []LimitsTypeOK
<1>1. LimitsInv => LimitsTypeOK
  BY DEF LimitsInv
<1> QED BY LimitsAlways, <1>1, PTL

(* A quota failure without a hint locks the key out for the rung it climbs to. *)
LEMMA QuotaLockout ==
  ASSUME LimitsInv, NEW k \in Keys, Parse(k, "QUOTA_EXHAUSTED", NoHint)
  PROVE  tracker'.wait[k] = AtLeast(QuotaLadder[RaisedCount(tracker, k)], MinDelay)
<1>1. "QUOTA_EXHAUSTED" \in Reasons /\ tracker \in Trackers
  BY DEF Reasons, LimitsInv, LimitsTypeOK
<1>2. tracker'.wait[k]
        = AtLeast(DefaultRetryDelay("QUOTA_EXHAUSTED", RaisedCount(tracker, k)), MinDelay)
  BY <1>1, ParsedIs DEF Parse
<1> QED BY <1>2 DEF DefaultRetryDelay

(* While a key keeps failing, its lock-outs for an exhausted quota do not get *)
(* shorter: the count that chooses the rung outlives hints, clears, set limits *)
(* and the failures of other kinds (_get_failure_count, clear).               *)
THEOREM LadderIsClimbed == LimitsSpec => QuotaLadderClimbs
<1> DEFINE Good == \A k \in Keys :
                      Parse(k, "QUOTA_EXHAUSTED", NoHint) /\ since[k] <= CountExpiry
                        => tracker'.wait[k] >= last[k]
<1>1. LimitsInv /\ [LimitsNext]_limitsVars => [Good]_limitsVars
  <2> SUFFICES ASSUME LimitsInv, NEW k \in Keys,
                      Parse(k, "QUOTA_EXHAUSTED", NoHint), since[k] <= CountExpiry
               PROVE  tracker'.wait[k] >= last[k]
      OBVIOUS
  <2> DEFINE count == RaisedCount(tracker, k)
             old == tracker.count[k]
  <2>1. tracker'.wait[k] = AtLeast(QuotaLadder[count], MinDelay)
    BY QuotaLockout
  <2>2. /\ old > 0 /\ tracker.age[k] = since[k]
        /\ last[k] = 0 \/ last[k] <= AtLeast(QuotaLadder[old], MinDelay)
    BY DEF LimitsInv, RunsCounted
  <2>3. /\ count \in 1..4 /\ old \in 0..4
        /\ tracker.age[k] <= CountExpiry => count >= old
    BY RaisedIs DEF LimitsInv, LimitsTypeOK
  <2> HIDE DEF count, old
  <2>4. old \in 1..4 /\ old <= count
    BY <2>2, <2>3
  <2>5. AtLeast(QuotaLadder[old], MinDelay) <= AtLeast(QuotaLadder[count], MinDelay)
    BY <2>3, <2>4, LadderClimbs
  <2>6. QuotaLadder[old] \in 0..MaxDelay /\ QuotaLadder[count] \in 0..MaxDelay
    BY <2>3, <2>4, TrackerAssumption
  <2>7. /\ AtLeast(QuotaLadder[old], MinDelay) \in 1..MaxDelay
        /\ AtLeast(QuotaLadder[count], MinDelay) \in 1..MaxDelay
    BY <2>6, AtLeastIs
  <2>8. last[k] \in 0..MaxDelay
    BY DEF LimitsInv, LimitsTypeOK
  <2> QED BY <2>1, <2>2, <2>5, <2>7, <2>8
<1> QED BY <1>1, LimitsAlways, PTL DEF LimitsSpec, QuotaLadderClimbs

(* After a success, or once the count has expired, the ladder is climbed from *)
(* its first rung, whatever happened to the other keys (mark_success).        *)
THEOREM FreshRunIsShort == LimitsSpec => FreshRunStartsShort
<1> DEFINE Good == \A k \in Keys :
                      Parse(k, "QUOTA_EXHAUSTED", NoHint) /\ since[k] > CountExpiry
                        => tracker'.wait[k] = AtLeast(QuotaLadder[1], MinDelay)
<1>1. LimitsInv /\ [LimitsNext]_limitsVars => [Good]_limitsVars
  <2> SUFFICES ASSUME LimitsInv, NEW k \in Keys,
                      Parse(k, "QUOTA_EXHAUSTED", NoHint), since[k] > CountExpiry
               PROVE  tracker'.wait[k] = AtLeast(QuotaLadder[1], MinDelay)
      OBVIOUS
  <2>1. tracker'.wait[k] = AtLeast(QuotaLadder[RaisedCount(tracker, k)], MinDelay)
    BY QuotaLockout
  <2>2. tracker.count[k] = 0 \/ tracker.age[k] > CountExpiry
    BY DEF LimitsInv, RunsCounted
  <2>3. RaisedCount(tracker, k) = 1
    BY <2>2, RaisedIs DEF LimitsInv, LimitsTypeOK
  <2> QED BY <2>1, <2>3
<1> QED BY <1>1, LimitsAlways, PTL DEF LimitsSpec, FreshRunStartsShort
===============================================================================
