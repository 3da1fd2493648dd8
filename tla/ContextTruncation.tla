--------------------------- MODULE ContextTruncation ---------------------------
(* context_truncation.py: how a history that would fill too much of a model's   *)
(* context is made shorter, in layers, before the request is sent.  What a text *)
(* weighs is a constant; tool_use and tool_result blocks inside a content weigh *)
(* nothing, as in the code.  Left out: images, and what the module has and      *)
(* nothing calls (truncate_messages_smart() and what is around it).             *)
EXTENDS Histories, FiniteSets

CONSTANTS Weight,               \* tokens of a text
          SafeLimit,            \* get_dynamic_target_limit()
          MaxResult,            \* MAX_TOOL_RESULT_CHARS, in tokens
          KeepRounds,           \* LAYER1_KEEP_TOOL_ROUNDS
          KeepRoundsLast,       \* the 3 rounds of the third layer
          KeepThoughts,         \* LAYER2_PROTECTED_LAST_N
          KeepThoughtsLast,     \* the 2 messages of the third layer
          KeepUsers,            \* keep_last_n_user_messages
          LookBack              \* the 3 rounds the last resort looks at

ASSUME TruncationAssumption ==
    {SafeLimit, MaxResult, KeepRounds, KeepRoundsLast, KeepThoughts, KeepThoughtsLast,
     KeepUsers, LookBack} \subseteq Nat \ {0}

(* LAYER1_, LAYER2_ and LAYER3_PRESSURE_THRESHOLD, in percent.                  *)
Layer1 == 60
Layer2 == 75
Layer3 == 90

(* estimate_message_tokens(), estimate_messages_tokens()                        *)
EstimateMessageTokens(m) ==
    LET n == FoldSeq(LAMBDA b, sum :
                        sum + (IF b.type \in {"text", "tagged", "thinking"} THEN Weight[b.text] ELSE 0),
                     Len(m.tool_calls), m.content)
    IN  IF n = 0 THEN 1 ELSE n
EstimateMessagesTokens(h) == FoldSeq(LAMBDA m, sum : sum + EstimateMessageTokens(m), 0, h)

(* calculate_context_pressure(): whether it has reached a layer.                *)
Pressed(h, layer) == EstimateMessagesTokens(h) * 100 >= layer * SafeLimit

(* compress_tool_results_in_messages(): of a tool message, a text that is too   *)
(* long keeps its beginning and its end.                                        *)
Cut == "[... Content truncated ...]"
CompressToolResult(m) ==
    IF m.role = "tool" /\ EstimateMessageTokens(m) > MaxResult
    THEN [m EXCEPT !.content = <<Text(Cut)>>] ELSE m
CompressToolResultsInMessages(h) == [i \in DOMAIN h |-> CompressToolResult(h[i])]
-----------------------------------------------------------------------------
(* identify_tool_rounds(): an assistant message with calls and the messages     *)
(* with results behind it, until there are as many as calls, the user says      *)
(* something else, or the assistant calls again.  The round that is open is the *)
(* one element of a sequence, which is empty when there is none.                *)
CountToolUses(m) == Len(m.tool_calls) + Len(Filtered(m.content, LAMBDA b : b.type = "tool_use"))
CountToolResults(m) ==
    IF m.role = "tool" THEN 1
    ELSE Len(Filtered(m.content, LAMBDA b : b.type = "tool_result"))
HasToolResult(m) == m.role = "tool" \/ Blocks(m, "tool_result") # {}

Round(i, expected) == [indices |-> {i}, expected |-> expected, collected |-> 0]
IsComplete(round) == round.collected >= round.expected
Closed(acc) == acc.done \o acc.current

NextRound(acc, i, m) ==
    LET n == CountToolResults(m)
        grown == [acc.current[1] EXCEPT !.indices = @ \cup {i}, !.collected = @ + n]
    IN  IF m.role = "assistant"
        THEN IF CountToolUses(m) = 0 THEN acc
             ELSE [done |-> Closed(acc), current |-> <<Round(i, CountToolUses(m))>>]
        ELSE IF m.role \notin {"user", "tool"} \/ acc.current = <<>> THEN acc
        ELSE IF n = 0
        THEN IF m.role = "user" THEN [done |-> Closed(acc), current |-> <<>>] ELSE acc
        ELSE IF IsComplete(grown) THEN [done |-> Append(acc.done, grown), current |-> <<>>]
        ELSE [acc EXCEPT !.current = <<grown>>]
IdentifyToolRounds(h) ==
    Closed(Folded(LAMBDA acc, i : NextRound(acc, i, h[i]), [done |-> <<>>, current |-> <<>>],
                  [i \in DOMAIN h |-> i]))

IndicesOf(rounds) == UNION {rounds[k].indices : k \in DOMAIN rounds}

(* trim_tool_messages()                                                         *)
TrimToolMessages(h, keep) ==
    LET rounds == IdentifyToolRounds(h)
    IN  IF Len(rounds) <= keep THEN h
        ELSE Selected(h, DOMAIN h \ IndicesOf(SubSeq(rounds, 1, Len(rounds) - keep)))

(* compress_thinking_preserve_signature(): a signed thought that is not among   *)
(* the last messages is left with three dots.                                   *)
Dots == "..."
CompressThought(b) == IF IsThinking(b) /\ b.sig # None THEN [b EXCEPT !.text = Dots] ELSE b
CompressThinkingPreserveSignature(h, protected) ==
    [i \in DOMAIN h |->
       IF h[i].role = "assistant" /\ i + protected <= Len(h)
       THEN [h[i] EXCEPT !.content = [k \in DOMAIN @ |-> CompressThought(@[k])]] ELSE h[i]]

(* truncate_messages_aggressive(): the system's messages, all from one of the   *)
(* last things the user said, and the rounds that reach into that or are open.  *)
LastUsers(h) ==
    LET said == {i \in DOMAIN h : h[i].role = "user" /\ ~HasToolResult(h[i])}
    IN  {i \in said : Cardinality({j \in said : j > i}) < KeepUsers}
KeptRounds(h, kept) ==
    LET rounds == IdentifyToolRounds(h)
        last == {k \in DOMAIN rounds : k + LookBack > Len(rounds)}
    IN  UNION {rounds[k].indices :
                 k \in {j \in last : ~IsComplete(rounds[j]) \/ rounds[j].indices \cap kept # {}}}
CallsBefore(h, i) == {j \in 1..(i - 1) : CountToolUses(h[j]) > 0}
ResultsAfter(h, i) ==
    {j \in (i + 1)..Len(h) :
       /\ HasToolResult(h[j])
       /\ \A k \in (i + 1)..(j - 1) : h[k].role = "user" => HasToolResult(h[k])}
Completed(h, kept) ==
    kept
    \cup {Max(CallsBefore(h, i)) : i \in {j \in kept : HasToolResult(h[j]) /\ CallsBefore(h, j) # {}}}
    \cup UNION {ResultsAfter(h, i) : i \in {j \in kept : CountToolUses(h[j]) > 0}}
TruncateMessagesAggressive(h) ==
    LET said == LastUsers(h)
        kept == {i \in DOMAIN h : h[i].role = "system"}
                \cup (IF said = {} THEN {} ELSE Min(said)..Len(h))
    IN  Selected(h, Completed(h, kept \cup KeptRounds(h, kept)))
-----------------------------------------------------------------------------
(* detect_ide_pre_compression(), has_conflict(): a history that the client has  *)
(* shortened itself is left alone.                                              *)
ThoughtsIn(h) ==
    Filtered(FlattenSeq([i \in DOMAIN h |-> h[i].content]), IsThinking)
HasConflict(h) ==
    LET thoughts == ThoughtsIn(h)
        unsigned == Filtered(thoughts, LAMBDA b : b.sig = None)
        short == Filtered(thoughts, LAMBDA b : b.text = Dots)
    IN  \/ AllCalls(h) # AllResults(h)
        \/ 2 * Len(unsigned) > Len(thoughts)
        \/ 10 * Len(short) > 3 * Len(thoughts)

(* progressive_context_compression(): each layer looks at what the one before   *)
(* it has left.                                                                 *)
FirstLayer(h) == TrimToolMessages(h, KeepRounds)
SecondLayer(h) ==
    IF Pressed(h, Layer2) THEN CompressThinkingPreserveSignature(h, KeepThoughts) ELSE h
ThirdLayer(h) ==
    LET thoughts == CompressThinkingPreserveSignature(h, KeepThoughtsLast)
        rounds == IF Pressed(thoughts, Layer3) THEN TrimToolMessages(thoughts, KeepRoundsLast)
                  ELSE thoughts
    IN  IF ~Pressed(h, Layer3) THEN h
        ELSE IF Pressed(rounds, Layer3) THEN TruncateMessagesAggressive(rounds)
        ELSE rounds
ProgressiveContextCompression(h) ==
    IF HasConflict(h) \/ ~Pressed(h, Layer1) THEN h
    ELSE ThirdLayer(SecondLayer(FirstLayer(h)))

(* apply_pcc_before_request()                                                   *)
ApplyPccBeforeRequest(h) == ProgressiveContextCompression(CompressToolResultsInMessages(h))
=============================================================================
