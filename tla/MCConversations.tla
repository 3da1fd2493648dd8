--------------------------- MODULE MCConversations ---------------------------
(* Two chats under one conversation id: one with a tool, and another one that  *)
(* begins anew.                                                                 *)
EXTENDS Conversations, TLC

CONSTANT call

Sends(kind, stream, ms) == [kind |-> kind, stream |-> stream, header |-> "h",
    conversation |-> None, ip |-> None, messages |-> ms, thinking |-> FALSE]
Asks == Says("user", "ask")
Thinks == <<Asks, Message("assistant", <<Thinking("thought", None)>>), Says("user", "more")>>
MCSent == {Sends("stateful", TRUE, <<Asks, Calls(<<call>>)>>),
           Sends("stateful", FALSE, Thinks),
           Sends("stateful", FALSE, <<Says("user", "anew")>>),
           Sends("stateless", TRUE, Thinks),
           Sends("claude_code", FALSE, Thinks)}
NoCaches == [text |-> [t \in Thoughts |-> None], session |-> None,
             tool |-> [id \in CallIds |-> None], last |-> None]
MCKnownCaches == {NoCaches}
Symmetry == Permutations(Requests)
=============================================================================
