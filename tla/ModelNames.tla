----------------------------- MODULE ModelNames -----------------------------
(* The names a client may call a model by, and how the gateway sees that two  *)
(* of them are one model: converters/model_config.py, config_loader.py and    *)
(* config.py.  A Claude name tells its version before its tier or behind it,  *)
(* writes it with a dot or a dash, and may end in suffixes: claude-opus-4-6,  *)
(* claude-4.6-opus-high-thinking.  "gpt-4o" stands for the other names the    *)
(* table maps to a Claude model, "gemini-3-pro" for those it maps to one of   *)
(* their own kind.                                                            *)
EXTENDS Naturals, Sequences, SequencesExt

CONSTANT Tails    \* bound: the sequences of suffixes names end in

Claude == {"opus", "sonnet", "haiku"} \X {"4.5", "4.6"}

ClaudeName == [tier : {"opus", "sonnet", "haiku"}, version : {"4.5", "4.6"},
               first : {"tier", "version"}, sep : {".", "-"}, tail : Tails]
OtherName == [tier : {"gpt-4o", "gemini-3-pro"}, version : {"none"},
              first : {"tier"}, sep : {"."}, tail : Tails]
Name == ClaudeName \cup OtherName

Plain(tier, version, sep) ==
    [tier |-> tier, version |-> version, first |-> "tier", sep |-> sep, tail |-> <<>>]
-----------------------------------------------------------------------------
(* model_mapping(): a table of names as they are written.  What it knows of   *)
(* Claude becomes a name with the tier first and a dash.                      *)
Efforts == {<<>>, <<"high">>, <<"thinking">>, <<"high", "thinking">>}

Tabled(n) ==
    \/ /\ n.tier = "opus" /\ n.version = "4.6"
       /\ \/ n.first = "version" /\ n.tail \in Efforts
          \/ n.first = "tier" /\ n.tail = <<>>
          \/ n.first = "tier" /\ n.sep = "-" /\ n.tail \in {<<"high">>, <<"high", "thinking">>}
    \/ /\ n.tier \in {"opus", "sonnet"} /\ n.version = "4.5"
       /\ \/ n.first = "version" /\ n.sep = "." /\ n.tail \in Efforts
          \/ n.first = "tier" /\ n.sep = "-" /\ n.tail \in {<<"high">>, <<"high", "thinking">>}
    \/ n = Plain("opus", "4.5", "-")
    \/ n = [Plain("sonnet", "4.5", "-") EXCEPT !.tail = <<"thinking">>]
    \/ n.tier = "gpt-4o" /\ n.tail = <<>>
    \/ n.tier = "gemini-3-pro" /\ n.tail \in {<<>>, <<"preview">>}

(* Opus 4.6 always thinks, and so does Opus 4.5 if its name is plain already. *)
Thinks(n) == \/ n.tier = "opus" /\ n.version = "4.6"
             \/ n = Plain("opus", "4.5", "-")
             \/ /\ Contains(n.tail, "thinking")
                /\ n # [Plain("sonnet", "4.5", "-") EXCEPT !.tail = <<"thinking">>]

ModelMapping(n) ==
    IF ~Tabled(n) THEN n
    ELSE IF n.tier = "gpt-4o" THEN Plain("sonnet", "4.5", "-")
    ELSE IF n.tier = "gemini-3-pro" THEN [n EXCEPT !.tail = <<"high">>]
    ELSE [Plain(n.tier, n.version, "-") EXCEPT !.tail = IF Thinks(n) THEN <<"thinking">> ELSE <<>>]

(* One suffix goes, then a date.                                              *)
WithoutLast(n, suffixes) ==
    IF n.tail # <<>> /\ Last(n.tail) \in suffixes THEN [n EXCEPT !.tail = Front(@)] ELSE n

Stripped(n) ==
    WithoutLast(WithoutLast(n, {"thinking", "extended", "preview", "latest"}), {"date"})

(* A lookup that knows of no other way to write the version.                  *)
CandidatesAsWritten ==
    [n \in Name |-> LET mapped == ModelMapping(n)
                        plain == Stripped(mapped)
                    IN  <<mapped, plain, plain, plain>>]

(* get_model_routing_rule(): the names a rule is looked for under, in order.  *)
Candidates ==
    [n \in Name |-> LET mapped == ModelMapping(n)
                        plain == Stripped(mapped)
                    IN  <<mapped, plain, [plain EXCEPT !.sep = "."], [plain EXCEPT !.sep = "-"]>>]

(* Of the names there are rules for, the one whose rule a request goes by.    *)
RuleFor(keys, n) ==
    LET found == {i \in 1..4 : Candidates[n][i] \in keys}
    IN  IF found = {} THEN {} ELSE {Candidates[n][Min(found)]}

(* normalize_model_for_comparison(): how an entry of a rule is told to be for *)
(* another model than the one that was asked for.                             *)
Comparable == [n \in Name |-> [Stripped(ModelMapping(n)) EXCEPT !.sep = "."]]

-----------------------------------------------------------------------------
(* map_model_for_copilot(): what Copilot is asked for.  The table has Sonnet  *)
(* 4.5 with a dot only; every other Sonnet is Sonnet 4 there.                 *)
CopilotVersion(n) ==
    IF n.tier = "sonnet" /\ ~(n.version = "4.5" /\ n.sep = ".") THEN "4"
    ELSE IF n.tier = "haiku" THEN "4.5" ELSE n.version

MapModelForCopilot(n) == <<n.tier, CopilotVersion(n)>>
=============================================================================
