----------------------------- MODULE MessageFormats -----------------------------
(* The shapes a history takes on its way: normalize_messages() of               *)
(* gateway/normalization.py makes OpenAI messages of whatever a client has      *)
(* sent, _convert_openai_to_anthropic_body() of gateway/conversion.py makes     *)
(* Anthropic messages of those, and gateway/thinking_recovery.py takes the      *)
(* thinking out of a body whose signatures a backend has refused.               *)
EXTENDS Histories

(* sanitize_message_content(): calls and results leave the content, and         *)
(* thinking that says nothing.                                                  *)
Kept(content) ==
    Filtered(content, LAMBDA b : /\ b.type \notin {"tool_use", "tool_result"}
                                 /\ IsThinking(b) => b.text # None)
UseIds(m) == LET uses == Filtered(m.content, LAMBDA b : b.type = "tool_use")
             IN  [i \in DOMAIN uses |-> uses[i].id]
ResultIds(m) == LET results == Filtered(m.content, LAMBDA b : b.type = "tool_result")
                IN  [i \in DOMAIN results |-> results[i].id]

(* normalize_messages(): the calls of assistant messages that follow each other *)
(* are collected into one message, and what those messages say is dropped.      *)
Flushed(acc) == IF acc.pending = <<>> THEN acc.done ELSE Append(acc.done, Calls(acc.pending))

NormalizeMessage(acc, m) ==
    LET content == [m EXCEPT !.content = Kept(@)]
        said == IF content.content = <<>> THEN <<>> ELSE <<content>>
        results == ResultIds(m)
        normalized ==
            IF UseIds(m) # <<>> /\ m.role = "assistant"
            THEN <<[content EXCEPT !.tool_calls = UseIds(m)]>>
            ELSE IF UseIds(m) # <<>> THEN said \o <<Calls(UseIds(m))>>
            ELSE IF results # <<>> THEN said \o [i \in DOMAIN results |-> Answers(results[i])]
            ELSE <<content>>
    IN  IF m.role = "assistant" /\ m.tool_calls # <<>>
        THEN [acc EXCEPT !.pending = @ \o m.tool_calls]
        ELSE [done |-> Flushed(acc) \o normalized, pending |-> <<>>]
NormalizeMessages(h) == Flushed(Folded(NormalizeMessage, [done |-> <<>>, pending |-> <<>>], h))
-----------------------------------------------------------------------------
(* _convert_openai_to_anthropic_body(): the results that follow each other      *)
(* become one user message; of a content only the texts are left.               *)
ConvertContent(content) == Filtered(content, LAMBDA b : b.type \in {"text", "tagged"})
UsesOf(m) == [i \in DOMAIN m.tool_calls |-> ToolUse(m.tool_calls[i], None)]
FlushToolResults(acc) ==
    IF acc.results = <<>> THEN acc.done
    ELSE Append(acc.done, Message("user", [i \in DOMAIN acc.results |-> ToolResult(acc.results[i])]))
ConvertMessage(acc, m) ==
    LET uses == IF m.role = "assistant" THEN UsesOf(m) ELSE <<>>
    IN  CASE m.role = "tool" ->
               IF m.tool_call_id = None THEN acc
               ELSE [acc EXCEPT !.results = Append(@, m.tool_call_id)]
          [] m.role \in {"user", "assistant"} ->
               [done |-> Append(FlushToolResults(acc), Message(m.role, ConvertContent(m.content) \o uses)),
                results |-> <<>>]
          [] OTHER -> [done |-> FlushToolResults(acc), results |-> <<>>]
ConvertOpenaiToAnthropic(h) ==
    LET converted == FlushToolResults(Folded(ConvertMessage, [done |-> <<>>, results |-> <<>>], h))
    IN  IF converted = <<>> THEN <<Says("user", "Empty message list")>> ELSE converted
-----------------------------------------------------------------------------
(* is_in_tool_loop(): one of the last four messages has to do with a tool.      *)
IsInToolLoop(h) ==
    \E i \in DOMAIN h : /\ i + 4 > Len(h)
                        /\ \/ h[i].role = "tool"
                           \/ h[i].role = "assistant" /\ h[i].tool_calls # <<>>
                           \/ \E k \in DOMAIN h[i].content : h[i].content[k].type \in {"tool_use", "tool_result"}

\* Mutant: only the last message that thinks is stripped.
StripLastThinking(h) ==
    LET thinks == {i \in DOMAIN h : Blocks(h[i], "thinking") # {}}
    IN  [i \in DOMAIN h |->
           IF i \in thinks /\ \A j \in thinks : j <= i
           THEN [h[i] EXCEPT !.content = Filtered(@, LAMBDA b : ~IsThinking(b))] ELSE h[i]]

(* strip_all_thinking_blocks(): a message that has only thinking goes, and its  *)
(* calls with it.                                                               *)
StripAllThinkingBlocks(h) ==
    LET Stripped(m) == [m EXCEPT !.content = Filtered(@, LAMBDA b : ~IsThinking(b))]
    IN  FlattenSeq([i \in DOMAIN h |->
            IF h[i].role # "assistant" \/ h[i].content = <<>> THEN <<h[i]>>
            ELSE IF Stripped(h[i]).content = <<>> THEN <<>> ELSE <<Stripped(h[i])>>])

(* close_tool_loop_for_thinking(), _inject_repair_prompt(),                     *)
(* prepare_signature_retry_body()                                               *)
Repair == Text("[System Recovery]")
CloseToolLoopForThinking(h) ==
    StripAllThinkingBlocks(h)
    \o <<Says("assistant", "[Tool execution completed.]"), Says("user", "[Continue]")>>
InjectRepairPrompt(h) ==
    LET users == {i \in DOMAIN h : h[i].role = "user"}
    IN  IF h = <<>> THEN h
        ELSE IF users = {} THEN Append(h, Message("user", <<Repair>>))
        ELSE [h EXCEPT ![Max(users)].content = Append(@, Repair)]
PrepareSignatureRetryBody(h) ==
    InjectRepairPrompt(IF IsInToolLoop(h) THEN CloseToolLoopForThinking(h)
                       ELSE StripAllThinkingBlocks(h))
=============================================================================
