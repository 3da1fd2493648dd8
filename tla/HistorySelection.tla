--------------------------- MODULE HistorySelection ---------------------------
(* The history cache of the OpenAI endpoint: HistoryCacheManager of             *)
(* ide_compat/history_cache.py over an LRU of conversations, with the tool      *)
(* definitions of a conversation beside it, and what SmartSelectionStrategy     *)
(* makes of a history that has too many messages for the backend.               *)
EXTENDS Histories, FiniteSets

CONSTANTS RecentCount,          \* recent_count
          MaxConversations,     \* max_cache_size
          Definitions,          \* texts of system messages that define tools
          Length                \* of a text

ASSUME SelectionAssumption == {RecentCount, MaxConversations} \subseteq Nat \ {0}

(* LRUCacheBackend: the conversations, the one used last at the end.            *)
Without(cache, scid) == Filtered(cache, LAMBDA e : e.scid # scid)
Has(cache, scid) == \E i \in DOMAIN cache : cache[i].scid = scid
StoreInLru(cache, scid, h) ==
    LET room == IF ~Has(cache, scid) /\ Len(cache) >= MaxConversations THEN Tail(cache) ELSE cache
    IN  Append(Without(room, scid), [scid |-> scid, history |-> h])
Lookup(cache, scid) ==
    IF Has(cache, scid) THEN Filtered(cache, LAMBDA e : e.scid = scid)[1].history ELSE <<>>

(* store_full_history(): the definitions of tools are pinned, and stay until    *)
(* there are others.                                                            *)
IsToolDefinition(m) == m.role = "system" /\ \E b \in Blocks(m, "text") : b.text \in Definitions
Pinned(h) == Filtered(h, IsToolDefinition)
Regular(h) == Filtered(h, LAMBDA m : ~IsToolDefinition(m))
StoreFullHistory(anchors, cache, scid, h) ==
    [anchors |-> IF Pinned(h) = <<>> THEN anchors ELSE [anchors EXCEPT ![scid] = Pinned(h)],
     cache |-> IF h = <<>> THEN cache ELSE StoreInLru(cache, scid, Regular(h))]
-----------------------------------------------------------------------------
(* _ensure_tool_chain_integrity(), _clean_message_orphans(): calls without a    *)
(* result and results without a call go, and a message that is left empty.      *)
CleanMessageOrphans(m, calls, results) ==
    LET cleaned == [m EXCEPT
            !.tool_calls = Filtered(@, LAMBDA id : id \notin calls),
            !.content = Filtered(@, LAMBDA b :
                /\ m.role = "assistant" /\ b.type = "tool_use" => b.id \notin calls
                /\ m.role = "user" /\ b.type = "tool_result" => b.id \notin results)]
    IN  IF m.role = "tool" THEN IF m.tool_call_id \in results THEN <<>> ELSE <<m>>
        ELSE IF /\ cleaned.content = <<>> /\ cleaned.tool_calls = <<>>
                /\ m.role = "assistant" \/ m.content # <<>>
        THEN <<>> ELSE <<cleaned>>
\* Mutant: the chains that the selection cuts are left open.
KeepOrphans(h) == h

CloseChains(h) ==
    LET calls == AllCalls(h) \ AllResults(h)
        results == AllResults(h) \ AllCalls(h)
    IN  IF calls = {} /\ results = {} THEN h
        ELSE FlattenSeq([i \in DOMAIN h |-> CleanMessageOrphans(h[i], calls, results)])

(* _select_important_messages(): the longest that the user said.                *)
ContentLength(m) == FoldSeq(LAMBDA b, n : n + (IF b.text = None THEN 1 ELSE Length[b.text]), 0, m.content)
SelectImportantMessages(h, quota) ==
    LET users == {i \in DOMAIN h : h[i].role = "user"}
        Before(i) == {j \in users : \/ ContentLength(h[j]) > ContentLength(h[i])
                                    \/ ContentLength(h[j]) = ContentLength(h[i]) /\ j < i}
    IN  Selected(h, {i \in users : Cardinality(Before(i)) < quota})

\* Mutant: the window begins one message late.
RecentMessagesShort(h, n) == SubSeq(h, Len(h) - n + 2, Len(h))

RecentMessages(h, n) == SubSeq(h, Len(h) - n + 1, Len(h))

(* select(): the system's messages, wherever they are; then some from the       *)
(* middle, taken to begin behind as many messages; then the latest.             *)
Select(h, max) ==
    LET systems == Roles(h, "system")
        room == IF Len(systems) >= max THEN 0 ELSE max - Len(systems)
        recent == IF RecentCount < room THEN RecentCount ELSE room
        middle == SubSeq(h, Len(systems) + 1, Len(h) - recent)
        important == SelectImportantMessages(middle, room - recent)
    IN  IF Len(h) <= max THEN h
        ELSE CloseChains(systems \o important \o RecentMessages(h, recent))

(* select_for_backend()                                                         *)
SelectForBackend(anchors, cache, scid, max) ==
    anchors[scid] \o (IF Lookup(cache, scid) = <<>> THEN <<>> ELSE Select(Lookup(cache, scid), max))
=============================================================================
