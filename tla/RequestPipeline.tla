---------------------------- MODULE RequestPipeline ----------------------------
(* What becomes of a conversation on its way to a backend.  A client sends the  *)
(* whole of it with each request: through IDECompatMiddleware, then either      *)
(* through chat_completions(), which normalizes, merges, sanitizes and selects, *)
(* or through anthropic_messages(), which may compress; and for each backend    *)
(* through proxy_request_to_backend(), which converts it for some and takes the *)
(* thinking out when the backend refuses a signature.                           *)
(*                                                                              *)
(* Neither endpoint awaits anything between taking a body and routing it, so    *)
(* each is one step, and one conversation at a time is enough: what requests    *)
(* share, the caches of signatures and of conversations apart, is Conversations'*)
(* subject.  Left out: what fails for other reasons (ProxyAttempts), names of   *)
(* models and tools, and everything of a body that is not its messages.         *)
EXTENDS Sanitizer, HistorySelection, ContextTruncation, MessageFormats

CONSTANTS Clients,              \* who may be talking, and how
          KnownCaches,          \* what the signature caches may know
          Signed,               \* what a client may send back of a signature
          Scid,                 \* the conversation
          MaxMessages,          \* HISTORY_CACHE_MAX_MESSAGES_DEFAULT
          MaxMessagesTool,      \* HISTORY_CACHE_MAX_MESSAGES_TOOL
          CompressAbove,        \* the 7 messages that are never compressed
          Backends,             \* length of the chain
          MaxRetries,           \* of one backend
          MaxTurns              \* bound: requests of the conversation

ASSUME PipelineAssumption ==
    /\ \A c \in Clients :
         /\ c.endpoint \in {"chat", "messages"} /\ c.blocks \in BOOLEAN
         /\ c.endpoint = "messages" => c.blocks     \* Anthropic's messages are of blocks
         /\ c.kind \in {"stateful", "stateless", "claude_code", "plain", "undetected"}
    /\ KnownCaches \subseteq Caches /\ Signed \subseteq Real \cup {None}
    /\ {MaxMessages, MaxMessagesTool, Backends} \subseteq Nat \ {0}
    /\ {CompressAbove, MaxRetries, MaxTurns} \subseteq Nat

VARIABLES client,
          chat,         \* the conversation as the client has it
          turns,        \* history: requests so far
          stage,        \* where the request is
          body,         \* its messages, as the endpoint has them
          sent,         \* its messages, as the backend has got them
          backend,      \* which of the chain that is
          attempt,      \* how often it has refused a signature
          auth,         \* the conversation as the gateway has kept it
          anchors, cache

kept == <<auth, anchors, cache>>
vars == <<client, chat, turns, stage, body, sent, backend, attempt, kept>>

Sanitized == client.kind \in {"stateful", "stateless"}

Empty == [history |-> <<>>, sig |-> None]
Init == /\ client \in Clients
        /\ chat = (IF client.blocks THEN <<>> ELSE <<Says("system", "definitions")>>)
        /\ turns = 0 /\ stage = "idle" /\ body = <<>>
        /\ sent = <<>> /\ backend = 0 /\ attempt = 0
        /\ auth = Empty
        /\ anchors = [s \in {Scid} |-> <<>>] /\ cache = <<>>
-----------------------------------------------------------------------------
(* The client answers the calls that have come, or says something.              *)
CallId(turn, k) == 10 * turn + k
Asked(turn) == Message("user", <<Block("text", "ask", turn, None)>>)
OpenCalls == IF chat = <<>> THEN <<>> ELSE Last(chat).tool_calls \o UseIds(Last(chat))
Results == IF client.blocks
           THEN <<Message("user", [i \in DOMAIN OpenCalls |-> ToolResult(OpenCalls[i])])>>
           ELSE [i \in DOMAIN OpenCalls |-> Answers(OpenCalls[i])]
Ask ==
    /\ stage = "idle" /\ turns < MaxTurns
    /\ chat' = chat \o (IF OpenCalls # <<>> THEN Results ELSE <<Asked(turns + 1)>>)
    /\ turns' = turns + 1 /\ stage' = "arrived" /\ body' = chat'
    /\ UNCHANGED <<client, sent, backend, attempt, kept>>

(* The client shortens its conversation: what it has said last begins it.       *)
Forget ==
    /\ stage = "idle"
    /\ LET said == {i \in DOMAIN chat : chat[i].role = "user" /\ ToolResults(chat[i]) = {}}
       IN  /\ said # {} /\ Max(said) > 1
           /\ chat' = SubSeq(chat, Max(said), Len(chat))
    /\ UNCHANGED <<client, turns, stage, body, sent, backend, attempt, kept>>

(* IDECompatMiddleware.dispatch().  Whether the endpoint reads the body that it *)
(* has rewritten or the one that came is up to the framework.                   *)
Dispatch ==
    /\ stage = "arrived" /\ stage' = "read"
    /\ \/ /\ Sanitized
          /\ \E caches \in KnownCaches, thinking \in BOOLEAN :
               body' = Sanitize(body, thinking, None, caches).messages
       \/ body' = body
    /\ UNCHANGED <<client, chat, turns, sent, backend, attempt, kept>>

(* chat_completions().  Claude Code gets its signatures back and no more; a     *)
(* client without a conversation is not merged, but selected from.              *)
Loaded(h) == IF ShouldResetStaleScidState(auth.history, h) THEN Empty ELSE auth
ApplyScidAndSanitization(h, caches) ==
    CASE client.kind = "claude_code" -> RecoverSignaturesForClaudeCode(h, FALSE, caches).messages
      [] client.kind = "stateful"    -> Prepare(h, Loaded(h).history, Loaded(h).sig, FALSE, caches)
      [] client.kind = "stateless"   -> Prepare(h, <<>>, None, FALSE, caches)
      [] OTHER                       -> h
SelectLimit(h) == IF HasToolContext(h) THEN MaxMessagesTool ELSE MaxMessages
ChatCompletions ==
    /\ stage = "read" /\ client.endpoint = "chat" /\ stage' = "ready"
    /\ auth' = IF client.kind = "stateful" THEN Loaded(NormalizeMessages(body)) ELSE auth
    /\ \E caches \in KnownCaches :
         LET h == ApplyScidAndSanitization(NormalizeMessages(body), caches)
             stored == StoreFullHistory(anchors, cache, Scid, h)
         IN  IF client.kind = "claude_code"
             THEN body' = h /\ UNCHANGED <<anchors, cache>>
             ELSE /\ anchors' = stored.anchors /\ cache' = stored.cache
                  /\ body' = SelectForBackend(stored.anchors, stored.cache, Scid, SelectLimit(h))
    /\ UNCHANGED <<client, chat, turns, sent, backend, attempt>>

(* anthropic_messages().  The compression is given the kind of the client as an *)
(* enumeration, fails at once on it, and the messages stay as they are; it only *)
(* works when the client could not be told.                                     *)
Compressed(h) ==
    IF /\ Len(h) > CompressAbove /\ client.kind = "undetected"
       /\ EstimateMessagesTokens(ApplyPccBeforeRequest(h)) < EstimateMessagesTokens(h)
    THEN ApplyPccBeforeRequest(h) ELSE h
AnthropicMessages ==
    /\ stage = "read" /\ client.endpoint = "messages" /\ stage' = "ready"
    /\ body' = Compressed(body)
    /\ UNCHANGED <<client, chat, turns, sent, backend, attempt, kept>>
-----------------------------------------------------------------------------
(* proxy_request_to_backend(): each backend of the chain gets what the endpoint *)
(* has made, and some want Anthropic messages.                                  *)
Send ==
    /\ stage = "ready" /\ backend < Backends
    /\ \/ sent' = body
       \/ client.endpoint = "chat" /\ sent' = ConvertOpenaiToAnthropic(body)
    /\ stage' = "sent" /\ backend' = backend + 1 /\ attempt' = 0
    /\ UNCHANGED <<client, chat, turns, body, kept>>

(* _handle_signature_400_recovery()                                             *)
RefuseSignature ==
    /\ stage = "sent" /\ attempt < MaxRetries
    /\ sent' = PrepareSignatureRetryBody(sent) /\ attempt' = attempt + 1
    /\ UNCHANGED <<client, chat, turns, stage, body, backend, kept>>

(* The backend has failed; when it was the last, so has the request, and the    *)
(* client may say something more.                                               *)
Done == /\ stage' = "idle" /\ body' = <<>> /\ sent' = <<>> /\ backend' = 0 /\ attempt' = 0
BackendFails ==
    /\ stage = "sent"
    /\ IF backend < Backends
       THEN stage' = "ready" /\ UNCHANGED <<body, sent, backend, attempt>>
       ELSE Done
    /\ UNCHANGED <<client, chat, turns, kept>>

(* The answer: thinking or none, then a text or calls.  What the gateway keeps  *)
(* of it is OpenAI's; what the client keeps has the signature, or has lost it.  *)
Thought(sig) == IF sig = None THEN <<>> ELSE <<Thinking("thought", sig)>>
Recorded(thought, ids) ==
    IF ids = <<>> THEN Message("assistant", thought \o <<Block("text", "answer", turns, None)>>)
    ELSE [Calls(ids) EXCEPT !.content = thought]
AsClientHasIt(m) ==
    IF client.blocks /\ m.tool_calls # <<>>
    THEN Message("assistant", m.content \o [i \in DOMAIN m.tool_calls |-> ToolUse(m.tool_calls[i], None)])
    ELSE m
Answer ==
    /\ stage = "sent"
    /\ \E sig \in Real \cup {None}, calls \in 0..2, left \in Signed :
         LET ids == [k \in 1..calls |-> CallId(turns, k)]
             m == Recorded(Thought(sig), ids)
             kepts == [m EXCEPT !.content =
                         [i \in DOMAIN @ |-> IF IsThinking(@[i]) THEN [@[i] EXCEPT !.sig = left] ELSE @[i]]]
         IN  /\ chat' = Append(chat, AsClientHasIt(kepts))
             /\ auth' = IF client.kind = "stateful" /\ client.endpoint = "chat"
                        THEN UpdateAuthoritativeHistory(auth, NewUserMessages(body), m, sig)
                        ELSE auth
    /\ Done
    /\ UNCHANGED <<client, turns, anchors, cache>>

Next == \/ Ask \/ Forget \/ Dispatch \/ ChatCompletions \/ AnthropicMessages
        \/ Send \/ RefuseSignature \/ BackendFails \/ Answer

Spec == Init /\ [][Next]_vars
-----------------------------------------------------------------------------
TypeOK ==
    /\ client \in Clients /\ turns \in 0..MaxTurns
    /\ stage \in {"idle", "arrived", "read", "ready", "sent"}
    /\ backend \in 0..Backends /\ attempt \in 0..MaxRetries
    /\ \A h \in {chat, body, sent, auth.history} : \A m \in Messages(h) :
         m.role \in {"system", "user", "assistant", "tool"}

(* Every call is answered right behind the message that makes it, and nothing   *)
(* else is answered there.                                                      *)
AnswersTo(h, i) ==
    {j \in (i + 1)..Len(h) : \A k \in (i + 1)..j : ToolResults(h[k]) # {}}
ChainsIntact(h) ==
    /\ \A i \in DOMAIN h : ToolResults(h[i]) = {} =>
         ToolCalls(h[i]) = UNION {ToolResults(h[j]) : j \in AnswersTo(h, i)}
    /\ h # <<>> => ToolResults(h[1]) = {}

(* Whatever the gateway takes out of a conversation, it takes calls and their   *)
(* results out together.  It does not when a refused signature was on thinking  *)
(* with nothing but calls beside it, which is then taken out with them: that is *)
(* so when blocks have been normalized.                                         *)
CallsGoWithThinking == attempt > 0 /\ client.endpoint = "chat" /\ client.blocks
ChainsStayIntact ==
    stage = "sent" /\ client.kind # "stateful" /\ ~CallsGoWithThinking => ChainsIntact(sent)

(* What the client has said last, and all the results it has brought at once,   *)
(* reach the backend: it is never only older messages that do.  Two sorts of    *)
(* requests are excepted.  A client whose history is merged must send more than *)
(* what has been kept, else its newest message gives way to an old one.  And    *)
(* where the selector cuts a history (smart_selector.py:118), recent_count      *)
(* results or more fill the window of recent messages without the call they     *)
(* answer, and all of them are dropped as orphans.                              *)
SendsLess == client.kind = "stateful" /\ Len(chat) <= Len(auth.history)
Brought == UNION {ToolResults(chat[i]) :
                    i \in {i \in DOMAIN chat : \A j \in i..Len(chat) : ToolResults(chat[j]) # {}}}
FillsWindow == /\ client.endpoint = "chat" /\ client.kind # "claude_code"
               /\ Len(Lookup(cache, Scid)) > MaxMessagesTool
               /\ Cardinality(Brought) >= RecentCount
NewestReaches ==
    stage = "sent" /\ ~SendsLess =>
      LET texts == UNION {Blocks(m, "text") : m \in Messages(sent)}
      IN  /\ Blocks(Last(chat), "text") \subseteq texts \cup {Text("result")}
          /\ ~FillsWindow => Brought \subseteq AllResults(sent)

(* The chains of a client whose history is merged with the one that the gateway *)
(* keeps stay whole too.                                                        *)
MergeKeepsChains ==
    stage = "sent" /\ client.kind = "stateful" /\ attempt = 0 /\ ~SendsLess => ChainsIntact(sent)

(* Of a client that is sanitized at the endpoint, no thinking is sent that      *)
(* nobody has signed; and after a refusal, none at all.                         *)
ThoughtsFit ==
    stage = "sent" =>
      \A m \in Messages(Roles(sent, "assistant")) : \A b \in Blocks(m, "thinking") :
        /\ attempt = 0
        /\ client.endpoint = "chat" /\ client.kind \notin {"plain", "undetected"} => b.sig # None
=============================================================================
