---------------------------- MODULE FallbackRouter ----------------------------
(* gateway/proxy.py: route_request_with_fallback, from the chain it builds    *)
(* for a request to the cross-model and the final fallback.  One request at a *)
(* time: requests meet only in the health of the backends, in their rate      *)
(* limits and in Copilot's circuit breaker, and those change here at any time *)
(* and in any way.  The router suspends while a backend has the request and   *)
(* nowhere else, so a step runs from one answer to the next call.             *)
EXTENDS Selection, FiniteSets

CONSTANTS Backends, copilot,  \* the backends, and the one with the breaker
          NoBackend,
          Models,             \* model names, taken up to normalisation
          model,              \* the one that is asked for
          CopilotName,        \* map_model_for_copilot
          Configs,            \* gateway.yaml, as the records below
          Statuses,           \* HTTP statuses a backend fails with, as strings
          MAX_FALLBACK_ATTEMPTS

Conditions == Statuses \cup {"403", "502", "503", "504",
                             "timeout", "connection_error", "unavailable"}
Entries == [backend : Backends, model : Models]

(* What gateway.yaml and the backends' registry say of the model.  A rule     *)
(* that does not exist has an empty chain.                                    *)
Config ==
    [registered : SUBSET Backends,             \* BACKENDS, those with an URL
     enabled : SUBSET Backends,
     capable : SUBSET (Backends \X Models),    \* is_backend_capable
     discovered : SUBSET (Backends \X Models), \* by the model registry
     priority : Seq(Backends),                 \* get_sorted_backends
     rule : [enabled : BOOLEAN, chain : Seq(Entries),
             fallback_on : SUBSET Conditions],
     default : [chain : Seq(Backends), fallback_on : SUBSET Conditions],
     catch_all : [chain : Seq(Backends), fallback_on : SUBSET Conditions],
     cross : [backend : Backends \cup {NoBackend}, model : Models],
     final : [enabled : BOOLEAN, backend : Backends,
              respect_circuit_breaker : BOOLEAN]]

ASSUME RouterAssumption ==
    /\ copilot \in Backends /\ NoBackend \notin Backends
    /\ model \in Models
    /\ CopilotName \in [Models -> Models]
    /\ Configs \subseteq Config
    /\ MAX_FALLBACK_ATTEMPTS \in Nat \ {0}

VARIABLES config,    \* the configuration in force
          request,   \* what sort of client asks, and for a stream or not
          frozen,    \* backends whose is_frozen() holds
          open,      \* is_copilot_circuit_open()
          phase,     \* the loop or fallback whose call is under way
          rest,      \* entries of the chain the loop has not come to
          policy,    \* active_fallback_on
          attempts,  \* _fallback_attempt_count
          trail,     \* history: the calls, with the answers they got
          steady     \* history: backends the request could use all along

world == <<frozen, open>>
vars == <<config, request, world, phase, rest, policy, attempts, trail, steady>>

Pending == {"chain", "cross", "final"}
Ended == {"answered", "refused", "raised"}

(* A failure: what happened, and what the router finds in the text about it.  *)
Failures == [happened : Conditions, shown : SUBSET Conditions]
NoAnswer == [happened |-> "none", shown |-> {}]
Success == [happened |-> "success", shown |-> {}]
Calls == [stage : Pending, backend : Backends, model : Models,
          answer : Failures \cup {NoAnswer, Success}]

TypeOK == /\ config \in Configs
          /\ request \in [crossPool : BOOLEAN, stream : BOOLEAN]
          /\ frozen \subseteq Backends
          /\ open \in BOOLEAN
          /\ phase \in {"none"} \cup Pending \cup Ended
          /\ rest \in Seq(Entries)
          /\ policy \subseteq Conditions
          /\ attempts \in 0..(MAX_FALLBACK_ATTEMPTS + 2)
          /\ trail \in Seq(Calls)
          /\ steady \subseteq Backends

Init == /\ config \in Configs
        /\ request \in [crossPool : BOOLEAN, stream : BOOLEAN]
        /\ frozen = {} /\ open = FALSE
        /\ phase = "none" /\ rest = <<>> /\ policy = {}
        /\ attempts = 0 /\ trail = <<>> /\ steady = Backends
-----------------------------------------------------------------------------
(* The chain of a request: the model's rule, or the default rule, or the      *)
(* catch-all, or every backend by priority, the first that is not empty.      *)
Running(b) == b \in config.registered /\ b \in config.enabled /\ b \notin frozen

Supports(b) == <<b, model>> \in config.capable \cup config.discovered

RuleAdmits(e) == Running(e.backend) /\ <<e.backend, e.model>> \in config.capable

(* _is_cross_model_entry calls get_model_pool, which is None, once the names  *)
(* differ; only an ImportError is caught.                                     *)
RuleChainRaises ==
    /\ config.rule.enabled /\ ~request.crossPool
    /\ \E i \in DOMAIN config.rule.chain :
          RuleAdmits(config.rule.chain[i]) /\ config.rule.chain[i].model # model

RuleChain == IF config.rule.enabled THEN Filtered(config.rule.chain, RuleAdmits)
                                    ELSE <<>>

ForModel(backends) == [i \in DOMAIN backends |-> [backend |-> backends[i], model |-> model]]

ListChain(list) ==
    ForModel(Filtered(list.chain, LAMBDA b : Running(b) /\ Supports(b)))

(* get_backend_for_model: it looks neither for frozen nor for missing backends *)
Enabled(b) == b \in config.enabled \/ b \notin config.registered
Firsts(candidates) == IF candidates = <<>> THEN {} ELSE {Head(candidates)}
FirstOf(sets) == LET some == {i \in DOMAIN sets : sets[i] # {}}
                 IN  sets[CHOOSE i \in some : \A j \in some : i <= j]

Specified ==
    LET usable(b) == Enabled(b) /\ Supports(b)
        ruled == Filtered(config.rule.chain, LAMBDA e : Enabled(e.backend))
    IN  FirstOf(<<IF config.rule.enabled /\ ruled # <<>>
                  THEN {ruled[1].backend} ELSE {},
                  Firsts(Filtered(config.default.chain, usable)),
                  Firsts(Filtered(config.catch_all.chain, usable)),
                  Firsts(Filtered(config.catch_all.chain, Enabled)),
                  {IF config.final.enabled THEN config.final.backend ELSE copilot}>>)

SplitBy(list, Test(_)) ==
    Filtered(list, Test) \o Filtered(list, LAMBDA b : ~Test(b))

PriorityChain ==
    ForModel(SplitBy(SplitBy(config.priority, LAMBDA b : b \in Specified), Supports))

Source == CASE RuleChain # <<>> -> "rule"
            [] RuleChain = <<>> /\ ListChain(config.default) # <<>> -> "default"
            [] RuleChain = <<>> /\ ListChain(config.default) = <<>>
               /\ ListChain(config.catch_all) # <<>> -> "catch_all"
            [] OTHER -> "priority"

BuiltChain == CASE Source = "rule" -> RuleChain
                [] Source = "default" -> ListChain(config.default)
                [] Source = "catch_all" -> ListChain(config.catch_all)
                [] Source = "priority" -> PriorityChain

(* The rule's own conditions count even where its chain came out empty.       *)
ActiveFallbackOn ==
    IF config.rule.enabled /\ config.rule.fallback_on # {}
    THEN config.rule.fallback_on
    ELSE CASE Source = "default" -> config.default.fallback_on
           [] Source = "catch_all" -> config.catch_all.fallback_on
           [] OTHER -> {}

(* Backends that are rate limited are left out, unless all of them are.       *)
WithoutLimited(chain, limited) ==
    LET free == Filtered(chain, LAMBDA e : e.backend \notin limited)
    IN  IF free = <<>> THEN chain ELSE free
-----------------------------------------------------------------------------
(* Where the request goes next: t is its trail, n its attempts so far.        *)
(* Copilot is sent the name its mapping has for the model, which may be       *)
(* another model's; the trail holds what was sent.                            *)
SentAs(b, m) == IF b = copilot THEN CopilotName[m] ELSE m

Send(stage, b, m, t, n) ==
    /\ phase' = stage
    /\ attempts' = n
    /\ trail' = Append(t, [stage |-> stage, backend |-> b, model |-> SentAs(b, m),
                           answer |-> NoAnswer])

Tripped(b) == b = copilot /\ open

EndAs(outcome, t, n) == phase' = outcome /\ attempts' = n /\ trail' = t /\ rest' = <<>>

FinalUsable == /\ config.final.enabled
               /\ Enabled(config.final.backend)
               /\ config.final.backend \notin frozen
               /\ ~(config.final.respect_circuit_breaker /\ open)

\* Mutant: the final fallback is tried whatever the budget.
TryFinalAlways(t, n) ==
    IF FinalUsable
    THEN Send("final", config.final.backend, model, t, n) /\ rest' = <<>>
    ELSE EndAs("refused", t, n)

TryFinal(t, n) ==
    IF FinalUsable /\ n < MAX_FALLBACK_ATTEMPTS
    THEN Send("final", config.final.backend, model, t, n) /\ rest' = <<>>
    ELSE EndAs("refused", t, n)

\* Mutant: nobody asks whether the client may cross models.
CrossUsableToAll == /\ config.cross.backend # NoBackend
                    /\ Enabled(config.cross.backend)
                    /\ config.cross.backend \notin frozen
                    /\ ~Tripped(config.cross.backend)

CrossUsable == /\ request.crossPool
               /\ config.cross.backend # NoBackend
               /\ Enabled(config.cross.backend)
               /\ config.cross.backend \notin frozen
               /\ ~Tripped(config.cross.backend)

TryCross(t, n) ==
    IF ~CrossUsable THEN TryFinal(t, n)
    ELSE IF n + 1 > MAX_FALLBACK_ATTEMPTS THEN TryFinal(t, n + 1)
    ELSE /\ Send("cross", config.cross.backend, config.cross.model, t, n + 1)
         /\ rest' = <<>>

\* Mutant: frozen backends are left out only when the chain is built.
SkippedWhenBuilt(e) == Tripped(e.backend)

Skipped(e) == e.backend \in frozen \/ Tripped(e.backend)

\* Mutant: the loop ends at the first entry it cannot use.
TryChainUpToSkipped(chain, t, n) ==
    IF chain = <<>> THEN TryCross(t, n)
    ELSE IF Skipped(chain[1]) \/ n + 1 > MAX_FALLBACK_ATTEMPTS THEN TryCross(t, n)
    ELSE /\ Send("chain", chain[1].backend, chain[1].model, t, n + 1)
         /\ rest' = Tail(chain)

TryChain(chain, t, n) ==
    LET usable == {i \in DOMAIN chain : ~Skipped(chain[i])}
        next == CHOOSE i \in usable : \A j \in usable : i <= j
    IN  IF usable = {} THEN TryCross(t, n)
        ELSE IF n + 1 > MAX_FALLBACK_ATTEMPTS THEN TryCross(t, n + 1)
        ELSE /\ Send("chain", chain[next].backend, chain[next].model, t, n + 1)
             /\ rest' = SubSeq(chain, next + 1, Len(chain))
-----------------------------------------------------------------------------
(* A request arrives and is sent to its first backend.                        *)
Route(limited) ==
    /\ phase \notin Pending
    /\ steady' = Backends \ (frozen \cup limited \cup {b \in Backends : Tripped(b)})
    /\ IF RuleChainRaises
       THEN EndAs("raised", <<>>, 0) /\ policy' = {}
       ELSE /\ TryChain(WithoutLimited(BuiltChain, limited), <<>>, 0)
            /\ policy' = ActiveFallbackOn
    /\ UNCHANGED <<config, request, world>>

(* What proxy_request_to_backend can return instead of an answer, and what    *)
(* the router makes out of it: it looks for "status NNN", "HTTP/x NNN", a     *)
(* leading number, "timeout" and "connection".  "Backend error: NNN" has none *)
(* of them, "403: ..." and, in streams, "... (status=NNN)" have.              *)
Shows(condition) ==
    CASE condition = "timeout" ->
             {{"timeout"} \cup IF request.stream THEN {"504"} ELSE {}}
      [] condition = "connection_error" ->
             {{"connection_error"} \cup IF request.stream THEN {"502"} ELSE {}}
      [] condition = "unavailable" ->
             IF request.stream THEN {{}, {"503"}} ELSE {{}}
      [] OTHER ->
             IF request.stream \/ condition = "403" THEN {{}, {condition}} ELSE {{}}

(* A backend that is not registered is "not found" at once.                   *)
FailuresOf(b) ==
    IF b \in config.registered
    THEN UNION {{[happened |-> c, shown |-> t] : t \in Shows(c)} :
                c \in Statuses \cup {"timeout", "connection_error", "unavailable"}}
    ELSE {[happened |-> "unavailable", shown |-> {}]}

Called == trail[Len(trail)]
With(f) == [trail EXCEPT ![Len(trail)].answer = f]

Answered == /\ phase \in Pending
            /\ Called.backend \in config.registered
            /\ EndAs("answered", With(Success), attempts)
            /\ UNCHANGED <<config, request, world, policy, steady>>

Continues(f) == policy = {} \/ f.shown \cap policy # {}

ChainFails(f) == /\ phase = "chain" /\ Continues(f)
                 /\ TryChain(rest, With(f), attempts)
                 /\ UNCHANGED <<config, request, world, policy, steady>>

\* Mutant: the stop ends the loop and nothing else.
ChainStopsShort(f) == /\ phase = "chain" /\ ~Continues(f)
                      /\ TryCross(With(f), attempts)
                      /\ UNCHANGED <<config, request, world, policy, steady>>

ChainStops(f) == /\ phase = "chain" /\ ~Continues(f)
                 /\ TryFinal(With(f), attempts)
                 /\ UNCHANGED <<config, request, world, policy, steady>>

CrossFails(f) == /\ phase = "cross"
                 /\ TryFinal(With(f), attempts)
                 /\ UNCHANGED <<config, request, world, policy, steady>>

FinalFails(f) == /\ phase = "final"
                 /\ EndAs("refused", With(f), attempts)
                 /\ UNCHANGED <<config, request, world, policy, steady>>

(* Other requests, probes and time: any backend freezes and thaws, and        *)
(* Copilot's breaker opens and closes.                                        *)
Freeze(b) == /\ b \notin frozen
             /\ frozen' = frozen \cup {b} /\ steady' = steady \ {b}
             /\ UNCHANGED <<config, request, open, phase, rest, policy, attempts, trail>>

Thaw(b) == /\ b \in frozen
           /\ frozen' = frozen \ {b}
           /\ UNCHANGED <<config, request, open, phase, rest, policy, attempts, trail, steady>>

Trip == /\ ~open /\ open' = TRUE /\ steady' = steady \ {copilot}
        /\ UNCHANGED <<config, request, frozen, phase, rest, policy, attempts, trail>>

Untrip == /\ open /\ open' = FALSE
          /\ UNCHANGED <<config, request, frozen, phase, rest, policy, attempts, trail, steady>>

Fails == /\ phase \in Pending
         /\ \E f \in FailuresOf(Called.backend) :
            ChainFails(f) \/ ChainStops(f) \/ CrossFails(f) \/ FinalFails(f)

World == \/ \E b \in Backends : Freeze(b) \/ Thaw(b)
         \/ Trip \/ Untrip

Next == \/ \E limited \in SUBSET Backends : Route(limited)
        \/ Answered \/ Fails \/ World

Spec == Init /\ [][Next]_vars

(* Every call comes back: proxy_request_to_backend has timeouts.              *)
FairSpec == Spec /\ WF_vars(Answered \/ Fails)
-----------------------------------------------------------------------------
(* SEC-9 (proxy.py:80): a request is multiplied by at most                    *)
(* MAX_FALLBACK_ATTEMPTS over the chain and both fallbacks, nothing is called *)
(* after an answer, and the request ends: it keeps what BoundedFailover       *)
(* promises.                                                                  *)
Promise == INSTANCE BoundedFailover WITH
    MaxCalls <- MAX_FALLBACK_ATTEMPTS,
    calls <- Len(trail),
    outcome <- IF phase \in Pending THEN "pending"
               ELSE IF phase \in {"refused", "raised"} THEN "failed"
               ELSE phase
Promised == Promise!FairSpec

(* [FIX 2026-02-02] (proxy.py:4165, 4341): no rule and no fallback turns the  *)
(* request of an IDE's client into one for another model.  What is sent is    *)
(* the name it asked for, except to Copilot: that is sent what                *)
(* map_model_for_copilot makes of the name it asked for, and of no other, and *)
(* there the model itself may change (Sonnet 4.6 is sent as Sonnet 4).        *)
IdeKeepsModel ==
    ~request.crossPool =>
        \A i \in DOMAIN trail : trail[i].model = SentAs(trail[i].backend, model)

(* [FIX 2026-03-16] (proxy.py:4641-4654): after a failure the conditions in   *)
(* force do not list, only the final fallback is left, not the chain and not  *)
(* another model.                                                             *)
StopIsKept ==
    \A i \in 1..(Len(trail) - 1) :
        (trail[i].stage = "chain" /\ policy # {} /\ trail[i].answer.shown \cap policy = {})
            => trail[i + 1].stage = "final"

(* The checks before a call are made for that call (proxy.py:4546, 4664,      *)
(* 4732): a backend that froze while another one had the request is not       *)
(* called, and Copilot neither while its breaker is open.                     *)
CallsUsable ==
    [][Len(trail') > Len(trail) \/ (phase \notin Pending /\ phase' \in Pending)
          => LET b == trail'[Len(trail')].backend
             IN  /\ b \notin frozen
                 /\ b = copilot /\ open =>
                       phase' = "final" /\ ~config.final.respect_circuit_breaker]_vars

(* A request is refused only after every entry of its rule has had it that    *)
(* could take it all along, unless a failure or the budget stopped the chain: *)
(* what is frozen, limited or tripped before it costs an entry nothing.       *)
Reachable(e) == /\ e.backend \in config.registered \cap config.enabled \cap steady
                /\ <<e.backend, e.model>> \in config.capable
Stopped == policy # {} /\ \E i \in DOMAIN trail :
              trail[i].stage = "chain" /\ trail[i].answer.shown \cap policy = {}
NobodyForgotten ==
    phase = "refused" /\ config.rule.enabled /\ ~Stopped /\ attempts < MAX_FALLBACK_ATTEMPTS
        => \A i \in DOMAIN config.rule.chain :
              Reachable(config.rule.chain[i]) =>
                 \E j \in DOMAIN trail :
                    LET e == config.rule.chain[i]
                    IN  /\ trail[j].backend = e.backend
                        /\ trail[j].model = SentAs(e.backend, e.model)

===============================================================================
