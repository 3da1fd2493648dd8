--------------------------- MODULE MCControlPanel ---------------------------
(* Two backends of the code and one that is added, one of them with a URL     *)
(* from the environment; one rule; files with and without each section.       *)
EXTENDS ControlPanel, TLC

MCBuiltin == {"copilot", "ruoli"}
MCBackends == MCBuiltin \cup {"added"}
MCRouteNames == {Plain("opus", "4.6", "."), Plain("sonnet", "4.5", "-"),
                 Plain("gpt-4o", "none", ".")}
MCTails == {<<>>, <<"high">>, <<"thinking">>, <<"high", "thinking">>, <<"date">>,
            <<"latest">>, <<"date", "thinking">>, <<"thinking", "date">>}
MCChains == {<<"copilot">>, <<"ruoli", "copilot">>}

Listed(keys) == [enabled |-> TRUE, priority |-> 1, url |-> Reference, listed |-> TRUE,
                 keys |-> keys, models |-> {"m1"}]
Single == [enabled |-> FALSE, priority |-> 2, url |-> "plain", listed |-> FALSE,
           keys |-> {"k1"}, models |-> Everything]

Written(on) ==
    [backends |-> ("ruoli" :> Single) @@ ("copilot" :> Listed({})),
     routing |-> Plain("opus", "4.6", ".") :> [enabled |-> on, chain |-> <<"copilot">>],
     sections |-> ("cross" :> [enabled |-> on, rules |-> 1]) @@
                  ("default" :> [enabled |-> TRUE, rules |-> 1]) @@
                  ("copilot" :> [enabled |-> TRUE, rules |-> 1])]

MCContents == {Written(TRUE), Written(FALSE)}

MCHandWritten ==
    {[Written(TRUE) EXCEPT !.sections = [s \in {"final", "default"} |-> [enabled |-> TRUE, rules |-> 3]],
                           !.backends = [b \in {"added", "ruoli"} |-> Listed({"k2"})]]}

(* The panel and its saves, and the registry under a panel that edits once.   *)
MCOffers == {{"m1"}, {"m2"}, {"m3"}}
MCBudgets ==
    {[reads |-> 2, edits |-> 2, saves |-> 1, hand |-> 0, restarts |-> 0, refreshes |-> 0],
     [reads |-> 1, edits |-> 1, saves |-> 2, hand |-> 0, restarts |-> 0, refreshes |-> 0],
     [reads |-> 2, edits |-> 1, saves |-> 1, hand |-> 1, restarts |-> 1, refreshes |-> 0],
     [reads |-> 0, edits |-> 1, saves |-> 0, hand |-> 0, restarts |-> 0, refreshes |-> 1]}
=============================================================================
