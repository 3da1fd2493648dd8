----------------------------- MODULE HistoryMerge -----------------------------
(* What ConversationStateManager of ide_compat/state_manager.py makes of the    *)
(* history a client sends and the one the gateway has kept.  A state has the    *)
(* authoritative history and the tool results it has seen, by call.  Results    *)
(* are not shortened: that is off unless an environment variable is set.        *)
EXTENDS Histories

CONSTANTS MaxIncoming,          \* SCID_STALE_INCOMING_MAX_MESSAGES
          MinAuth,              \* SCID_STALE_AUTH_MIN_MESSAGES
          MinToolEvents,        \* SCID_STALE_AUTH_MIN_TOOL_EVENTS
          MismatchMin           \* SCID_STALE_MISMATCH_MIN_AUTH_MESSAGES

ASSUME MergeAssumption ==
    {MaxIncoming, MinAuth, MinToolEvents, MismatchMin} \subseteq Nat \ {0}

(* update_authoritative_history(): of its messages, those that the history does *)
(* not have yet, whichever of the places in the conversation they come from.    *)
MessageExistsInHistory(m, h) == m \in Messages(h)
AppendNew(h, ms) ==
    h \o Selected(ms, {i \in DOMAIN ms : /\ ~MessageExistsInHistory(ms[i], h)
                                         /\ \A j \in 1..(i - 1) : ms[j] # ms[i]})

(* Of the request, only the user's last message is new.                         *)
NewUserMessages(h) ==
    LET last == {i \in DOMAIN h : /\ h[i].role = "user"
                                  /\ \A j \in DOMAIN h : h[j].role = "user" => j <= i}
    IN  IF last = {} THEN <<>> ELSE <<h[CHOOSE i \in last : TRUE]>>

\* Mutant: only the turn is kept.
KeepTurnOnly(state, new, response, sig) ==
    [history |-> AppendNew(<<>>, Append(new, response)),
     sig |-> IF sig = None THEN state.sig ELSE sig]

(* update_authoritative_history()                                               *)
UpdateAuthoritativeHistory(state, new, response, sig) ==
    [history |-> AppendNew(state.history, Append(new, response)),
     sig |-> IF sig = None THEN state.sig ELSE sig]

(* _cache_tool_results_from_messages(): the first message with a result.        *)
CacheToolResults(cache, ms) ==
    [id \in DOMAIN cache |->
       IF cache[id] # None \/ id \notin AllResults(ms) THEN cache[id]
       ELSE ms[CHOOSE i \in DOMAIN ms : /\ id \in ToolResults(ms[i])
                                        /\ \A j \in 1..(i - 1) : id \notin ToolResults(ms[j])]]

(* Puts behind each message what is known of the calls in it that have no       *)
(* result, a call at a time: in whichever order the set gives them.             *)
Complete(h, orphans, known) ==
    FlattenSeq([i \in DOMAIN h |->
        LET found == {id \in ToolCalls(h[i]) \cap orphans : known[id] # None}
            ids == SetToSeq(found)
        IN  <<h[i]>> \o [k \in DOMAIN ids |-> known[ids[k]]]])

(* _recover_tool_results_from_cache()                                           *)
RecoverFromCache(cache, orphans, h) == Complete(h, orphans, cache)

(* The last message of the authoritative history with a result for each call.   *)
AuthResults(auth, ids) ==
    [id \in ids |->
       LET with == {i \in DOMAIN auth : id \in ToolResults(auth[i])}
       IN  IF with = {} THEN None ELSE auth[CHOOSE i \in with : \A j \in with : j <= i]]

(* _attempt_orphan_tool_retry(): behind the first assistant message with the    *)
(* call, and behind the results that follow it, goes one that says the tool was *)
(* interrupted.                                                                 *)
Placeholder(id) == Message("user", <<ToolResult(id)>>)
Holder(h, id) ==
    LET with == {i \in DOMAIN h : h[i].role = "assistant" /\ id \in ToolCalls(h[i])}
    IN  IF with = {} THEN None ELSE CHOOSE i \in with : \A j \in with : i <= j
AfterResults(h, i) ==
    CHOOSE k \in (i + 1)..(Len(h) + 1) :
      /\ \A j \in (i + 1)..(k - 1) : h[j].role = "user" /\ Blocks(h[j], "tool_result") # {}
      /\ k <= Len(h) => ~(h[k].role = "user" /\ Blocks(h[k], "tool_result") # {})
InsertPlaceholder(h, id) ==
    IF Holder(h, id) = None THEN h
    ELSE InsertAt(h, AfterResults(h, Holder(h, id)), Placeholder(id))
AttemptOrphanToolRetry(h, orphans) ==
    Folded(InsertPlaceholder, h, SetToSeq(orphans))

(* _filter_orphan_tool_uses(), when no assistant has made any of the calls.     *)
WithoutCalls(m, orphans) ==
    IF m.tool_calls # <<>>
    THEN LET kept == Filtered(m.tool_calls, LAMBDA id : id \notin orphans)
         IN  IF kept # <<>> \/ m.content # <<>>
             THEN <<[m EXCEPT !.tool_calls = kept]>> ELSE <<>>
    ELSE LET kept == Filtered(m.content, LAMBDA b : b.type = "tool_use" => b.id \notin orphans)
         IN  IF kept = m.content THEN <<m>>
             ELSE IF kept # <<>> THEN <<[m EXCEPT !.content = kept]>> ELSE <<>>
FilterOrphanToolUses(h, orphans) ==
    FlattenSeq([i \in DOMAIN h |-> WithoutCalls(h[i], orphans)])

(* _merge_with_tool_chain_recovery()                                            *)
MergeWithToolChainRecovery(client, auth, orphans) ==
    LET merged == Complete(client, orphans, AuthResults(auth, orphans))
        missing == orphans \ AllResults(merged)
    IN  IF \E id \in missing : Holder(merged, id) # None
        THEN AttemptOrphanToolRetry(merged, missing)
        ELSE FilterOrphanToolUses(merged, missing)

(* The merge by position: of two messages with one role the authoritative one   *)
(* is taken, an assistant's beside a tool's are both, and else it is the        *)
(* client's; then comes what only the longer one has.                           *)
MergeAt(a, c) ==
    IF a.role = c.role THEN <<a>>
    ELSE IF {a.role, c.role} = {"assistant", "tool"} THEN <<a, c>>
    ELSE <<c>>
MergeByPosition(client, auth) ==
    LET n == IF Len(client) < Len(auth) THEN Len(client) ELSE Len(auth)
        longer == IF Len(client) > Len(auth) THEN client ELSE auth
    IN  FlattenSeq([i \in 1..n |-> MergeAt(auth[i], client[i])])
        \o SubSeq(longer, n + 1, Len(longer))

(* merge_with_client_history(), for a client with a state of its own.           *)
MergeWithClientHistory(client, auth, cache) ==
    LET orphans == AllCalls(client) \ AllResults(client)
        known == [id \in orphans |-> IF id \in DOMAIN cache THEN cache[id] ELSE None]
        merged == RecoverFromCache(known, orphans, client)
        remaining == orphans \ AllResults(merged)
    IN  IF auth = <<>> THEN client
        ELSE IF orphans = {} THEN MergeByPosition(client, auth)
        ELSE IF remaining = {} THEN merged
        ELSE MergeWithToolChainRecovery(merged, auth, remaining)

(* _should_reset_stale_scid_state(): a few messages without any tool that begin *)
(* another conversation, or that a history with tools has left far behind.      *)
HasToolContext(h) == \E m \in Messages(h) : m.role = "tool" \/ ToolCalls(m) # {} \/ ToolResults(m) # {}
CountToolEvents(h) ==
    FoldSeq(LAMBDA m, n : n + (IF m.role = "tool" THEN 1 ELSE 0) + Len(m.tool_calls)
                + Len(Filtered(m.content, LAMBDA b : b.type \in {"tool_use", "tool_result"})),
            0, h)
FirstUserText(h) ==
    LET with == {i \in DOMAIN h : h[i].role = "user" /\ Blocks(h[i], "text") # {}}
    IN  IF with = {} THEN None
        ELSE LET m == h[CHOOSE i \in with : \A j \in with : i <= j]
             IN  Filtered(m.content, LAMBDA b : b.type = "text")
AnotherFirstUser(auth, client) ==
    /\ \A m \in Messages(client) : m.role = "user"
    /\ FirstUserText(client) # None /\ FirstUserText(auth) # None
    /\ FirstUserText(client) # FirstUserText(auth)
ShouldResetStaleScidState(auth, client) ==
    /\ Len(client) \in 1..MaxIncoming /\ ~HasToolContext(client)
    /\ \/ Len(auth) >= MismatchMin /\ AnotherFirstUser(auth, client)
       \/ Len(auth) >= MinAuth /\ CountToolEvents(auth) >= MinToolEvents
=============================================================================
