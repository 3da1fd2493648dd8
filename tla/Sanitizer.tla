------------------------------- MODULE Sanitizer -------------------------------
(* AnthropicSanitizer of ide_compat/sanitizer.py, the signature recovery of     *)
(* converters/signature_recovery.py that it calls, and what gateway/scid.py     *)
(* does to thinking blocks around it.  The caches that a recovery asks are one  *)
(* record: what they have for a thinking text, for the session and for a call,  *)
(* and the last signature they were given.                                      *)
EXTENDS HistoryMerge

CONSTANTS Thoughts, CallIds,
          ThoughtSigned   \* signatures that blocks bring as "thoughtSignature", the
                          \*   others as "signature"

Signatures == Real \cup {Short, Skip}
Caches == [text : [Thoughts -> Real \cup {None}], session : Real \cup {None},
           tool : [CallIds -> Real \cup {None}], last : Real \cup {None}]

FirstValid(sigs) ==
    LET valid == Filtered(sigs, IsValidSignature) IN IF valid = <<>> THEN None ELSE valid[1]

(* recover_signature_for_thinking(), recover_signature_for_tool_use(): a block  *)
(* keeps its own, then takes that of the thinking before it.                    *)
RecoverSignatureForThinking(b, context, caches) ==
    FirstValid(<<b.sig, context, IF b.text = None THEN None ELSE caches.text[b.text],
                 caches.session, caches.last>>)
RecoverSignatureForToolUse(b, context, caches) ==
    LET sig == FirstValid(<<b.sig, context, caches.session, caches.tool[b.id], caches.last>>)
    IN  IF sig = None THEN Skip ELSE sig

(* _cache_recovered_signature(), unless it came from the last layer.            *)
IsGuess(b, context, caches) ==
    FirstValid(<<b.sig, context, IF b.text = None THEN None ELSE caches.text[b.text],
                 caches.session>>) = None
Cached(b, sig, caches) ==
    IF sig \notin Real THEN caches
    ELSE [caches EXCEPT !.session = sig, !.last = sig,
                        !.text = IF b.text = None THEN @ ELSE [@ EXCEPT ![b.text] = sig]]

(* _downgrade_thinking_to_text()                                                *)
DowngradeThinkingToText(b) == IF b.text = None THEN <<>> ELSE <<Text(b.text)>>

(* _validate_thinking_block() and what becomes of the block.  acc is what has   *)
(* become of the ones before it, the signature of the last of them, the caches; *)
(* of a block's own signature only a "thoughtSignature" goes on to the next.    *)
AcceptThinking(acc, b) ==
    LET sig == RecoverSignatureForThinking(b, acc.context, acc.caches)
    IN  IF HasValidThoughtsignature(b)
        THEN [acc EXCEPT !.done = Append(@, b),
                          !.context = IF b.sig \in ThoughtSigned THEN b.sig ELSE @]
        ELSE IF sig = None
        THEN [acc EXCEPT !.done = @ \o DowngradeThinkingToText(b)]
        ELSE [done |-> Append(acc.done, [b EXCEPT !.sig = sig]), context |-> sig,
              caches |-> IF IsGuess(b, acc.context, acc.caches) THEN acc.caches
                         ELSE Cached(b, sig, acc.caches)]
SanitizeBlock(acc, b) ==
    IF IsThinking(b) THEN AcceptThinking(acc, b)
    ELSE IF b.type = "tool_use"
    THEN [acc EXCEPT !.done = Append(@,
              [b EXCEPT !.sig = RecoverSignatureForToolUse(b, acc.context, acc.caches)])]
    ELSE [acc EXCEPT !.done = Append(@, b)]

\* Mutant: a block that nobody has signed is kept as it is.
KeepUnsigned(acc, b) ==
    IF b.type = "tool_use"
    THEN [acc EXCEPT !.done = Append(@,
              [b EXCEPT !.sig = RecoverSignatureForToolUse(b, acc.context, acc.caches)])]
    ELSE [acc EXCEPT !.done = Append(@, b)]

OrEllipsis(content) == IF content = <<>> THEN <<Ellipsis>> ELSE content

(* _validate_and_recover_thinking_blocks()                                      *)
SanitizeMessage(acc, m) ==
    IF m.role # "assistant" \/ m.content = <<>> THEN [acc EXCEPT !.done = Append(@, m)]
    ELSE LET r == Folded(SanitizeBlock, [acc EXCEPT !.done = <<>>], m.content)
         IN  [r EXCEPT !.done = Append(acc.done, [m EXCEPT !.content = OrEllipsis(r.done)])]
ValidateAndRecover(h, thinking, context, caches) ==
    LET start == [done |-> <<>>, context |-> context, caches |-> caches]
    IN  IF thinking THEN Folded(SanitizeMessage, start, h) ELSE [start EXCEPT !.done = h]

(* _ensure_tool_chain_integrity(): of the calls inside the contents, those that *)
(* no tool_result block answers are taken out.                                  *)
OrphanUses(h) == (UNION {Uses(m) : m \in Messages(h)})
                 \ (UNION {Ids(Blocks(m, "tool_result")) : m \in Messages(h)})
WithoutUses(m, orphans) ==
    [m EXCEPT !.content =
       IF Uses(m) \cap orphans = {} THEN @
       ELSE OrEllipsis(Filtered(@, LAMBDA b : b.type = "tool_use" => b.id \notin orphans))]
EnsureToolChainIntegrity(h) ==
    LET orphans == OrphanUses(h)
    IN  [i \in DOMAIN h |-> WithoutUses(h[i], orphans)]

(* sanitize_messages().  _sync_thinking_config() leaves thinking as it was.     *)
Sanitize(h, thinking, context, caches) ==
    LET r == ValidateAndRecover(h, thinking, context, caches)
    IN  [messages |-> EnsureToolChainIntegrity(r.done), caches |-> r.caches]
-----------------------------------------------------------------------------
(* gateway/scid.py.  _strip_orphan_thinking_blocks(): thinking without a        *)
(* signature of full length goes, and what a <think> tag encloses.              *)
StripBlock(b) == IF IsThinking(b) /\ ~IsLong(b.sig) THEN <<>>
                 ELSE IF b.type = "tagged" THEN <<Text(b.text)>> ELSE <<b>>
StripMessage(m) ==
    IF m.role # "assistant" \/ m.content = <<>> THEN m
    ELSE [m EXCEPT !.content =
            OrEllipsis(FlattenSeq([i \in DOMAIN m.content |-> StripBlock(m.content[i])]))]
StripOrphanThinkingBlocks(h) == [i \in DOMAIN h |-> StripMessage(h[i])]

HasThinking(h) == \E m \in Messages(Roles(h, "assistant")) :
                    \E i \in DOMAIN m.content : m.content[i].type \in {"thinking", "tagged"}

(* The signature of the last assistant message: that of its last signed block,  *)
(* or what the cache has for what its tags enclose.                             *)
SignatureOfLast(h, caches) ==
    LET said == Roles(h, "assistant")
        signed == Filtered(Last(said).content, LAMBDA b : IsThinking(b) /\ IsLong(b.sig))
        tagged == Filtered(Last(said).content, LAMBDA b : b.type = "tagged")
    IN  IF said = <<>> THEN None
        ELSE IF signed # <<>> THEN Last(signed).sig
        ELSE IF tagged # <<>> THEN caches.text[Last(tagged).text]
        ELSE None

(* _recover_signatures_for_claude_code(): the last signature of all.            *)
SignaturesIn(h) ==
    Filtered(FlattenSeq([i \in DOMAIN Roles(h, "assistant") |->
                            Roles(h, "assistant")[i].content]),
              LAMBDA b : IsThinking(b) /\ IsLong(b.sig))
RecoverSignaturesForClaudeCode(h, thinking, caches) ==
    LET signed == SignaturesIn(h)
        blocks == \E m \in Messages(Roles(h, "assistant")) : Blocks(m, "thinking") # {}
        context == IF signed = <<>> THEN None ELSE Last(signed).sig
    IN  IF blocks \/ thinking THEN Sanitize(h, TRUE, context, caches)
        ELSE [messages |-> h, caches |-> caches]

(* The merged history, sanitized if it has thinking or is to have.              *)
Prepare(client, auth, sig, thinking, caches) ==
    LET merged == MergeWithClientHistory(client, auth, [id \in CallIds |-> None])
        context == IF sig # None THEN sig ELSE SignatureOfLast(merged, caches)
    IN  IF thinking \/ HasThinking(merged)
        THEN Sanitize(merged, TRUE, context, caches).messages
        ELSE merged
=============================================================================
