------------------------------- MODULE Histories -------------------------------
(* The message histories that clients send and the gateway repairs.  A message  *)
(* has a role, a content, which is a sequence of blocks, and beside it the      *)
(* calls of an OpenAI assistant message (tool_calls) and the call that a tool   *)
(* message answers (tool_call_id).  A block is a text, a thinking block with or *)
(* without a signature, or, as Anthropic writes them, a tool_use or tool_result *)
(* inside the content.  A content that is a string is a sequence of one text,   *)
(* or of one "tagged" block if it holds a <think> tag.                          *)
(*                                                                              *)
(* What a text says is a name.  A signature is one of Real, Short and Skip, or  *)
(* None: one of more than 50 characters, one of 10 to 50, and the placeholder   *)
(* skip_thought_signature_validator.  Left out: Gemini's parts, names and       *)
(* arguments of tools, images.                                                  *)
EXTENDS Naturals, SequencesExt, Selection

CONSTANTS None,
          Real                  \* the signatures that models have given out

ASSUME NoneAssumption == None \notin Nat    \* the calls' numbers

Short == "short"
Skip == "skip_thought_signature_validator"

Block(type, text, id, sig) == [type |-> type, text |-> text, id |-> id, sig |-> sig]
Text(t) == Block("text", t, None, None)
Tagged(t) == Block("tagged", t, None, None)
Thinking(t, sig) == Block("thinking", t, None, sig)
ToolUse(id, sig) == Block("tool_use", None, id, sig)
ToolResult(id) == Block("tool_result", None, id, None)

Message(role, content) ==
    [role |-> role, content |-> content, tool_calls |-> <<>>, tool_call_id |-> None]
Says(role, t) == Message(role, <<Text(t)>>)
Calls(ids) == [Message("assistant", <<>>) EXCEPT !.tool_calls = ids]
Answers(id) == [Message("tool", <<Text("result")>>) EXCEPT !.tool_call_id = id]

(* What a content loses that is left without blocks.                            *)
Ellipsis == Text("...")

IsThinking(b) == b.type = "thinking"
Blocks(m, type) == {m.content[i] : i \in {j \in DOMAIN m.content : m.content[j].type = type}}
Ids(blocks) == {b.id : b \in blocks}
Uses(m) == Ids(Blocks(m, "tool_use"))
Messages(h) == {h[i] : i \in DOMAIN h}
Roles(h, role) == Filtered(h, LAMBDA m : m.role = role)

(* The calls of a message, its answers, and those of a history: _extract_       *)
(* tool_calls() and _extract_tool_results().                                    *)
ToolCalls(m) == Uses(m) \cup ToSet(m.tool_calls)
ToolResults(m) == Ids(Blocks(m, "tool_result"))
                  \cup (IF m.tool_call_id = None THEN {} ELSE {m.tool_call_id})
AllCalls(h) == UNION {ToolCalls(m) : m \in Messages(h)}
AllResults(h) == UNION {ToolResults(m) : m \in Messages(h)}

(* is_valid_signature(), has_valid_thoughtsignature() and the test for more     *)
(* than 50 characters.  They differ: the second one takes the placeholder, and  *)
(* the first one and the second one take what the third does not.               *)
IsValidSignature(sig) == sig \in Real \cup {Short}
HasValidThoughtsignature(b) == IsThinking(b) => b.sig # None
IsLong(sig) == sig \in Real
=============================================================================
