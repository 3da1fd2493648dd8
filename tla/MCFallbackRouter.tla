--------------------------- MODULE MCFallbackRouter ---------------------------
(* Three backends, a model that Copilot is asked for under the name of       *)
(* another, a third to cross over to, and a budget of three calls.  The      *)
(* configurations vary what gateway.yaml varies: a rule whose chain names    *)
(* four entries, one backend twice and another model at its end; a rule that *)
(* is switched off; a default rule and a catch-all; backends that are        *)
(* missing, disabled or not capable; and either fallback.                    *)
EXTENDS FallbackRouter

E(b, m) == [backend |-> b, model |-> m]

MCBackends == {"kiro", "tools", "copilot"}
MCModels == {"sonnet-4.6", "sonnet-4", "gemini"}
MCCopilotName == [m \in MCModels |-> IF m = "sonnet-4.6" THEN "sonnet-4" ELSE m]

Every == MCBackends \X MCModels
Listed == {"403", "503", "timeout"}

None == [chain |-> <<>>, fallback_on |-> {}]
Off == [enabled |-> FALSE, chain |-> <<>>, fallback_on |-> {}]
Rule(chain, conditions) ==
    [enabled |-> TRUE, chain |-> chain, fallback_on |-> conditions]
List(chain, conditions) == [chain |-> chain, fallback_on |-> conditions]

NoCross == E("none", "gemini")
ToGemini == E("kiro", "gemini")
Final(b, respects) == [enabled |-> TRUE, backend |-> b,
                       respect_circuit_breaker |-> respects]
NoFinal == [Final("copilot", TRUE) EXCEPT !.enabled = FALSE]

Base == [registered |-> MCBackends, enabled |-> MCBackends,
         capable |-> Every, discovered |-> {},
         priority |-> <<"kiro", "tools", "copilot">>,
         rule |-> Off, default |-> None, catch_all |-> None,
         cross |-> NoCross, final |-> NoFinal]

ThreeBackends == <<E("kiro", "sonnet-4.6"), E("tools", "sonnet-4.6"),
                   E("copilot", "sonnet-4.6")>>

MCConfigs ==
    { \* a rule, its conditions, and the two fallbacks
      [Base EXCEPT !.rule = Rule(ThreeBackends, Listed), !.cross = ToGemini,
                   !.final = Final("copilot", FALSE)],
      \* an entry with another model, and one backend twice
      [Base EXCEPT !.rule = Rule(Append(ThreeBackends, E("kiro", "gemini")), {}),
                   !.final = Final("copilot", TRUE)],
      \* a short chain, so that there is budget for both fallbacks
      [Base EXCEPT !.rule = Rule(<<E("tools", "sonnet-4.6")>>, {}), !.cross = ToGemini,
                   !.final = Final("copilot", TRUE)],
      \* a rule whose entries are missing, disabled or not capable
      [Base EXCEPT !.rule = Rule(ThreeBackends, Listed),
                   !.registered = {"kiro", "tools"}, !.enabled = {"tools", "copilot"},
                   !.capable = Every \ {<<"tools", "sonnet-4.6">>},
                   !.priority = <<"tools">>,
                   !.default = List(<<"tools", "copilot">>, {}),
                   !.final = Final("copilot", TRUE)],
      \* a default rule with conditions, behind a rule that is off
      [Base EXCEPT !.rule = [Rule(ThreeBackends, {}) EXCEPT !.enabled = FALSE],
                   !.default = List(<<"kiro", "copilot">>, Listed), !.cross = ToGemini,
                   !.final = Final("tools", TRUE)],
      \* a catch-all, and a model the registry has discovered
      [Base EXCEPT !.catch_all = List(<<"tools", "kiro">>, {"connection_error"}),
                   !.capable = {}, !.discovered = {<<"kiro", "sonnet-4.6">>},
                   !.cross = ToGemini],
      \* nothing but the priorities
      [Base EXCEPT !.capable = {<<"copilot", "sonnet-4.6">>, <<"tools", "gemini">>},
                   !.final = Final("kiro", TRUE)] }
===============================================================================
