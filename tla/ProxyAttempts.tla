---------------------------- MODULE ProxyAttempts -----------------------------
(* gateway/proxy.py: proxy_request_to_backend and the streaming request it    *)
(* calls, for concurrent requests to one backend, with the backend's health   *)
(* record, the rate-limit tracker and the concurrency permits they share.     *)
(* The backend has one address, so that no public station's rotation is seen, *)
(* and none of its answers is about credentials (see CredentialProbe).  If it *)
(* is AnyRouter, and Cursor asks it, a refused request is tried again under   *)
(* another profile or another name of its model.                              *)
(*                                                                            *)
(* asyncio runs a request up to its next suspension, so an action is what     *)
(* happens between two of them.  A request is suspended while it waits        *)
(*   "spacing"  for its turn at the keyed rate limiter, before the first try; *)
(*   "waiting"  for a permit;                                                 *)
(*   "gap"      for its turn at the limiter again, as a stream, in the permit;*)
(*   "sent"     for the backend's answer, in the permit;                      *)
(*   "backoff"  in the sleep after a retryable answer, still in the permit;   *)
(*   "delay"    in the sleep before the next try;                             *)
(*   "body"     for the client to consume the stream, the permit given back.  *)
EXTENDS HealthRecord, RateLimitTracker, Sequences

CONSTANTS Requests,
          backend,      \* the one member of Backends
          Names,        \* the names of the model that are in use ...
          Asked,        \* ... and those clients ask for
          Streaming,    \* the kinds of request there are: a subset of BOOLEAN
          MaxRetries,   \* max_retries; AnyRouter's is raised, to 4 for Cursor
          PermitLimit,  \* permits of the backend's semaphore
          Statuses,     \* statuses >= 400 the backend answers with
          Hints,        \* delays its answers name, NoHint for none
          UseCurlCffi,  \* _GATEWAY_USE_CURL_CFFI: tells 403s apart
          AnyRouter,    \* the backend is AnyRouter, and the client is Cursor
          LastProfile   \* the last of _ANYROUTER_CURSOR_PROFILE_NAMES, 4 of 0..4

(* The identifiers limits are kept under.  A stream computes its account from *)
(* the headers it sends, a request from those it received: _get_header_value  *)
(* finds "authorization" in the one and not "Authorization" in the other, so  *)
(* the two are different accounts.                                            *)
BackendId == <<"backend">>
AccountId(stream) == IF stream THEN <<"outgoing">> ELSE <<"incoming">>
ModelAccountId(stream, name) == AccountId(stream) \o <<name>>

(* A name of AnyRouter's Opus 4.6: its version has a dash or a dot, and a     *)
(* date may follow; "default" is _ANYROUTER_OPUS46_DEFAULT_DATE.              *)
Spellings == [sep : {"-", "."}, date : {"none", "default", "other"}]

\* _build_anyrouter_model_fallback_candidates: the names to try instead.
Candidates(name) ==
    LET dashed(date) == [sep |-> "-", date |-> date]
    IN  <<dashed("none"), dashed("default"), dashed(name.date),
          [sep |-> ".", date |-> "none"]>>

ASSUME AttemptsAssumption ==
    /\ Backends = {backend}
    /\ IsFiniteSet(Requests)
    /\ Streaming \subseteq BOOLEAN
    /\ MaxRetries \in Nat
    /\ PermitLimit \in Nat \ {0}
    /\ Statuses \subseteq 400..599
    /\ Hints \subseteq 0..NoHint
    /\ UseCurlCffi \in BOOLEAN
    /\ AnyRouter \in BOOLEAN
    /\ LastProfile \in Nat /\ (AnyRouter => LastProfile <= MaxRetries)
    /\ Asked \subseteq Names /\ Names \subseteq Spellings
    /\ \A n \in Names, i \in 1..4 : Candidates(n)[i] \in Names
    /\ Keys = {BackendId} \cup {AccountId(s) : s \in BOOLEAN}
              \cup {ModelAccountId(s, n) : s \in BOOLEAN, n \in Names}

VARIABLES req,     \* the requests, as the records below
          free,    \* the semaphore's value
          health,  \* BackendHealthManager
          limits   \* RateLimitTracker

vars == <<req, free, health, limits>>

InPermit == {"gap", "sent", "backoff"}
Places == InPermit \cup {"idle", "spacing", "waiting", "delay", "body"}

(* attempt: the loop variable; status: last_status_code, 0 for none; name:    *)
(* the model in the body; tried: _anyrouter_tried_models; profile:            *)
(* _anyrouter_cursor_profile_stage.                                           *)
ReqType == [pc : Places, stream : BOOLEAN, attempt : 0..MaxRetries,
            status : {0, 200, 429, 502, 503, 504} \cup Statuses,
            name : Spellings, tried : SUBSET Spellings, profile : 0..LastProfile]

TypeOK == /\ req \in [Requests -> ReqType]
          /\ free \in 0..PermitLimit
          /\ health \in Healths
          /\ limits \in Trackers

Fresh(pc, stream, name) ==
    [pc |-> pc, stream |-> stream, attempt |-> 0, status |-> 0,
     name |-> name, tried |-> {name}, profile |-> 0]

\* A request that is not under way has no record of its own.
Idle == Fresh("idle", FALSE, [sep |-> "-", date |-> "none"])

Init == /\ req = [r \in Requests |-> Idle]
        /\ free = PermitLimit
        /\ health = NewHealth
        /\ limits = NewTracker
-----------------------------------------------------------------------------
(* The limits looked at before a request, and again inside a stream.          *)
AnyLimited(stream, name) ==
    \E k \in {BackendId, AccountId(stream), ModelAccountId(stream, name)} :
       Limited(limits, k)

Release(r) == free' = IF req[r].pc \in InPermit THEN free + 1 ELSE free

Leaves(r) ==
    /\ req' = [req EXCEPT ![r] = Idle]
    /\ Release(r)

\* Mutant: the loop variable is not advanced.
TriesAgainForEver(r, next, status) ==
    /\ req' = [req EXCEPT ![r] = [next EXCEPT !.pc = "delay", !.status = status]]
    /\ Release(r)

\* next: the request as the next attempt sends it.
TriesAgain(r, next, status) ==
    /\ req' = [req EXCEPT ![r] = [next EXCEPT !.pc = "delay", !.status = status,
                                              !.attempt = req[r].attempt + 1]]
    /\ Release(r)

(* After the loop: one more failure, and the HTTP circuit breaker, which      *)
(* classifies by the last status or, without one, by the text of the error.   *)
Messages == {"timeout", "refused", "other"}

AfterLoop(r, h, status, message) ==
    /\ Leaves(r)
    /\ health' \in UNION {HttpFailed(g, backend, Classify(status, message)) :
                            g \in Failed(h, backend)}

(* What AnyRouter's refusal is about: the profile ("invalid claude code       *)
(* request"), the model, or anything else.  A stream's error may have no      *)
(* status.  The next profile is tried even if it changes nothing              *)
(* (ANYROUTER_CURSOR_PROFILE_FORCE_ADVANCE); of the names, the first one not  *)
(* tried yet.                                                                 *)
Complaints == IF AnyRouter THEN {"profile", "model", "other"} ELSE {"other"}

AboutProfile(status, complaint) ==
    complaint = "profile" /\ status \in {0, 400, 422, 500}

UntriedNames(r) ==
    LET names == Candidates(req[r].name)
    IN  {names[i] : i \in {i \in 1..4 : /\ names[i] \notin req[r].tried
                                        /\ \A j \in 1..i - 1 : names[j] \in req[r].tried}}

Switched(r, status, complaint) ==
    {[req[r] EXCEPT !.profile = @ + 1] :
       p \in {p \in {req[r].profile} : AboutProfile(status, complaint) /\ p < LastProfile}}
    \cup {[req[r] EXCEPT !.name = n, !.tried = @ \cup {n}] :
            n \in {n \in UntriedNames(r) : complaint = "model" /\ status \in {400, 404, 500}}}

(* _mark_rate_limit_for_response: which identifiers an answer puts under a    *)
(* limit.                                                                     *)
LimitStatuses == {429, 500, 503, 529}
ReasonsOf(status) ==
    IF status = 429 THEN Reasons \ {"SERVER_ERROR"} ELSE {"SERVER_ERROR"}

Marked(r, status, complaint) ==
    LET stream == req[r].stream
        account == AccountId(stream)
        model == ModelAccountId(stream, req[r].name)
    IN CASE AboutProfile(status, complaint) -> {limits}
         [] status = 429 ->
              {Parsed(Parsed(limits, account, reason, hint), model, reason, hint) :
                 reason \in ReasonsOf(status), hint \in Hints}
         [] status \in LimitStatuses \ {429} ->
              {Parsed(limits, BackendId, "SERVER_ERROR", hint) : hint \in Hints}
         [] OTHER -> {limits}

(* calculate_retry_delay reads the delay out of the answer the way the        *)
(* tracker does, so what was not marked before, a refused profile, is now.    *)
Delayed(l, status) ==
    IF status \in LimitStatuses
      THEN {Parsed(l, IF status = 429 THEN AccountId(FALSE) ELSE BackendId, reason, hint) :
              reason \in ReasonsOf(status), hint \in Hints}
      ELSE {l}

(* should_retry: asks for the account of the request, also for a stream.      *)
ShouldRetry(r, l, status, quotaExhausted) ==
    /\ req[r].attempt < MaxRetries
    /\ ~Limited(l, AccountId(FALSE)) /\ ~Limited(l, BackendId)
    /\ \/ status = 429 /\ ~quotaExhausted
       \/ status \in {500, 502, 503, 504, 529}
-----------------------------------------------------------------------------
(* The checks before the loop: a limited identifier turns the request away,   *)
(* and nothing is recorded.                                                   *)
Start(r, stream, name) ==
    /\ req[r].pc = "idle"
    /\ req' = [req EXCEPT ![r] = IF AnyLimited(FALSE, name) THEN Idle
                                 ELSE Fresh("spacing", stream, name)]
    /\ UNCHANGED <<free, health, limits>>

GetsTurn(r) ==
    /\ req[r].pc = "spacing"
    /\ req' = [req EXCEPT ![r].pc = "waiting"]
    /\ UNCHANGED <<free, health, limits>>

SleepEnds(r) ==
    /\ req[r].pc = "delay"
    /\ req' = [req EXCEPT ![r].pc = "waiting"]
    /\ UNCHANGED <<free, health, limits>>

(* What the loop does with a stream that failed to start: switch, retry, or   *)
(* leave the loop.  retryable: should_retry said no, or was not asked for     *)
(* want of a status, and the text of the error says yes.                      *)
StreamFails(r, h, l, status, complaint, quotaExhausted, retryable) ==
    /\ limits' = l
    /\ LET switched == Switched(r, status, complaint)
           next == IF switched # {} THEN switched ELSE {req[r]}
       IN IF /\ req[r].attempt < MaxRetries
             /\ \/ switched # {} \/ retryable
                \/ ShouldRetry(r, l, status, quotaExhausted)
            THEN (\E n \in next : TriesAgain(r, n, status)) /\ health' = h
            ELSE \E message \in Messages : AfterLoop(r, h, status, message)

(* The permit is there.  A stream's first try looks at its limits now, and a  *)
(* limit found is treated as an answer with status 503 or 429.                *)
DeniedStream(r) ==
    /\ req[r].stream /\ req[r].attempt = 0 /\ AnyLimited(TRUE, req[r].name)

GetsPermit(r) ==
    /\ req[r].pc = "waiting"
    /\ free > 0
    /\ ~DeniedStream(r)
    /\ free' = free - 1
    /\ req' = [req EXCEPT ![r].pc = IF req[r].stream THEN "gap" ELSE "sent"]
    /\ UNCHANGED <<health, limits>>

TurnsStreamAway(r) ==
    /\ req[r].pc = "waiting"
    /\ free > 0
    /\ DeniedStream(r)
    /\ StreamFails(r, health, limits, IF Limited(limits, BackendId) THEN 503 ELSE 429,
                   "other", FALSE, FALSE)

(* PermitAcquireTimeout: no retry, but the backend is charged with a failure. *)
PermitTimeout(r) ==
    /\ req[r].pc = "waiting"
    /\ free = 0
    /\ AfterLoop(r, health, req[r].status, "timeout")
    /\ UNCHANGED limits

SendsStream(r) ==
    /\ req[r].pc = "gap"
    /\ req' = [req EXCEPT ![r].pc = "sent"]
    /\ UNCHANGED <<free, health, limits>>
-----------------------------------------------------------------------------
(* Answers to a request that does not stream.                                 *)
AwaitsAnswer(r) == req[r].pc = "sent" /\ ~req[r].stream
AwaitsStream(r) == req[r].pc = "sent" /\ req[r].stream

(* A 2xx answer counts as a success before its body is looked at, and the     *)
(* request may still fail for that body.                                      *)
Answered(r) ==
    /\ AwaitsAnswer(r)
    /\ health' \in Succeeded(health, backend)
    /\ limits' = Succeeds(Succeeds(limits, AccountId(FALSE)),
                          ModelAccountId(FALSE, req[r].name))
    /\ Leaves(r)

AnsweredHtml(r) ==
    /\ AwaitsAnswer(r)
    /\ Leaves(r)
    /\ UNCHANGED <<health, limits>>

(* A signature 400 is retried with a repaired body, and recorded nowhere.     *)
RejectedSignature(r) ==
    /\ AwaitsAnswer(r)
    /\ 400 \in Statuses
    /\ IF req[r].attempt < MaxRetries
         THEN /\ req' = [req EXCEPT ![r].pc = "backoff", ![r].status = 400]
              /\ UNCHANGED free
         ELSE Leaves(r)
    /\ UNCHANGED <<health, limits>>

(* A 403 that is told apart ends the request; only a quota one is recorded.   *)
RejectedForbidden(r) ==
    /\ AwaitsAnswer(r)
    /\ UseCurlCffi /\ 403 \in Statuses
    /\ health' \in {health} \cup Failed(health, backend)
    /\ Leaves(r)
    /\ UNCHANGED limits

(* After any other error the request to AnyRouter is switched and tried again *)
(* at once; another that should be retried sleeps in the permit first; all    *)
(* others end.                                                                *)
GoesOn(r, l, status, complaint) ==
    LET switched == Switched(r, status, complaint)
    IN IF switched # {} /\ req[r].attempt < MaxRetries
         THEN (\E next \in switched : TriesAgain(r, next, status)) /\ limits' = l
         ELSE \E quotaExhausted \in BOOLEAN :
                 IF ShouldRetry(r, l, status, quotaExhausted)
                   THEN /\ req' = [req EXCEPT ![r].pc = "backoff", ![r].status = status]
                        /\ limits' \in Delayed(l, status)
                        /\ UNCHANGED free
                   ELSE Leaves(r) /\ limits' = l

(* The error is recorded, and may limit the account, the model or the backend.*)
Rejected(r, status) ==
    /\ AwaitsAnswer(r)
    /\ ~(UseCurlCffi /\ status = 403)
    /\ health' \in Failed(health, backend)
    /\ \E complaint \in Complaints : \E l \in Marked(r, status, complaint) :
          GoesOn(r, l, status, complaint)

(* The parser raises on the body of a limiting answer: on a 429 whose JSON is *)
(* not of the expected shape, as the except clause for it nests a tuple in a  *)
(* tuple, and on a body that is JSON but no object.  That ends the loop.      *)
RejectedUnparsed(r, status) ==
    /\ AwaitsAnswer(r)
    /\ status \in LimitStatuses
    /\ \E h \in Failed(health, backend) :
          AfterLoop(r, h, status, "other")
    /\ UNCHANGED limits

BackoffOver(r) ==
    /\ req[r].pc = "backoff"
    /\ TriesAgain(r, req[r], req[r].status)
    /\ UNCHANGED <<health, limits>>

(* httpx.TimeoutException and httpx.ConnectError.  last_status_code keeps the *)
(* status of an earlier attempt, and the classification goes by it.           *)
GetsNoAnswer(r, message) ==
    /\ AwaitsAnswer(r)
    /\ UNCHANGED limits
    /\ IF req[r].attempt < MaxRetries
         THEN TriesAgain(r, req[r], req[r].status) /\ UNCHANGED health
         ELSE AfterLoop(r, health, req[r].status, message)

(* The text of the refusal is dropped from last_error, so the end of the loop *)
(* no longer knows that the connection was refused.                           *)
ConnectRefused(r) ==
    /\ AwaitsAnswer(r)
    /\ \E h \in Freeze(health, backend, DefaultFreeze) :
          AfterLoop(r, h, req[r].status, "other")
    /\ UNCHANGED limits

\* Any other exception leaves the loop.
Raised(r) ==
    /\ AwaitsAnswer(r)
    /\ \E message \in Messages :
          AfterLoop(r, health, req[r].status, message)
    /\ UNCHANGED limits
-----------------------------------------------------------------------------
(* Answers to a request that streams.  Once the stream has started the permit *)
(* is given back, the loop has returned, and the caller has its answer;       *)
(* health hears nothing of it.                                                *)
StreamStarts(r) ==
    /\ AwaitsStream(r)
    /\ req' = [req EXCEPT ![r] = Fresh("body", TRUE, req[r].name)]
    /\ Release(r)
    /\ UNCHANGED <<health, limits>>

StreamRejected(r, status) ==
    /\ AwaitsStream(r)
    /\ \E complaint \in Complaints, quotaExhausted, retryable \in BOOLEAN :
          \E l \in Marked(r, status, complaint) :
             StreamFails(r, health, l, status, complaint, quotaExhausted, retryable)

StreamTimedOut(r) ==
    AwaitsStream(r) /\ StreamFails(r, health, limits, 504, "other", FALSE, FALSE)

StreamConnectFailed(r) ==
    /\ AwaitsStream(r)
    /\ \E h \in {health} \cup Freeze(health, backend, DefaultFreeze) :
          StreamFails(r, h, limits, 502, "other", FALSE, FALSE)

\* An HTML page with status 200, or an exception, known by its text alone.
StreamBroken(r) ==
    /\ AwaitsStream(r)
    /\ \E status \in {0, 200}, retryable \in BOOLEAN :
          StreamFails(r, health, limits, status, "other", FALSE, retryable)

(* stream_generator, run by whoever consumes it: to its end, or until it      *)
(* breaks off.                                                                *)
StreamConsumed(r) ==
    /\ req[r].pc = "body"
    /\ Leaves(r)
    /\ limits' = Succeeds(Succeeds(limits, AccountId(TRUE)),
                          ModelAccountId(TRUE, req[r].name))
    /\ UNCHANGED health

StreamBreaksOff(r) ==
    /\ req[r].pc = "body"
    /\ Leaves(r)
    /\ UNCHANGED <<health, limits>>

(* CancelledError, at any suspension: __aexit__ gives the permit back.        *)
\* Mutant: a cancelled request keeps its permit.
CancelKeepingPermit(r) ==
    /\ req[r].pc # "idle"
    /\ req' = [req EXCEPT ![r] = Idle]
    /\ UNCHANGED <<free, health, limits>>

Cancel(r) ==
    /\ req[r].pc # "idle"
    /\ Leaves(r)
    /\ UNCHANGED <<health, limits>>

Tick == /\ health' = Elapsed(health)
        /\ limits' = WaitElapsed(limits)
        /\ UNCHANGED <<req, free>>

Proceeds(r) ==
    \/ GetsTurn(r) \/ SleepEnds(r) \/ GetsPermit(r) \/ TurnsStreamAway(r)
    \/ PermitTimeout(r) \/ SendsStream(r) \/ Answered(r) \/ AnsweredHtml(r)
    \/ RejectedSignature(r) \/ RejectedForbidden(r)
    \/ \E status \in Statuses : Rejected(r, status) \/ RejectedUnparsed(r, status)
    \/ BackoffOver(r)
    \/ \E message \in {"timeout", "other"} : GetsNoAnswer(r, message)
    \/ ConnectRefused(r) \/ Raised(r) \/ StreamStarts(r)
    \/ \E status \in Statuses : StreamRejected(r, status)
    \/ StreamTimedOut(r) \/ StreamConnectFailed(r) \/ StreamBroken(r)

Next ==
    \/ Tick
    \/ \E r \in Requests : \/ \E stream \in Streaming, name \in Asked : Start(r, stream, name)
                           \/ Proceeds(r) \/ Cancel(r)
                           \/ StreamConsumed(r) \/ StreamBreaksOff(r)

Spec == Init /\ [][Next]_vars

(* Every suspension of a request before its answer ends: sleeps do, and the   *)
(* waits for a permit and for the backend have timeouts.                      *)
FairSpec == Spec /\ \A r \in Requests : WF_vars(Proceeds(r))
-----------------------------------------------------------------------------
(* Every permit is either free or held by exactly one request that is inside  *)
(* its `async with BackendPermit`, on all the ways out of it: answers,        *)
(* retries, early returns, exceptions and cancellation (proxy.py:2684-3250).  *)
PermitsConserved ==
    free + Cardinality({r \in Requests : req[r].pc \in InPermit}) = PermitLimit

(* However often it is retried, a request that was started gets an answer:    *)
(* its caller has a result, an error or a stream (proxy.py:2640-3343).        *)
EveryRequestAnswered ==
    \A r \in Requests : req[r].pc # "idle" ~> req[r].pc \in {"idle", "body"}
=============================================================================
