--------------------------- MODULE MCRequestPipeline ---------------------------
(* Short texts and long ones, and limits that a few turns reach.                *)
EXTENDS RequestPipeline

Client(endpoint, kind, blocks) == [endpoint |-> endpoint, kind |-> kind, blocks |-> blocks]
MCClients ==
    {Client("chat", kind, blocks) :
       kind \in {"stateful", "stateless", "claude_code", "plain"}, blocks \in BOOLEAN}
    \cup {Client("messages", kind, TRUE) : kind \in {"stateless", "claude_code", "undetected"}}

MCTexts == {"ask", "answer", "thought", "result", "definitions", "...", Cut, "Empty message list",
            "[Tool execution completed.]", "[Continue]", "[System Recovery]"}
MCLength == [t \in MCTexts |-> IF t = "..." THEN 0 ELSE 1]
MCWeight == [t \in MCTexts |-> IF t = "..." THEN 0 ELSE IF t = "thought" THEN 3 ELSE 1]
MCCallIds == {CallId(turn, k) : turn \in 1..MaxTurns, k \in 1..2}
NoCaches == [text |-> [t \in Thoughts |-> None], session |-> None,
             tool |-> [id \in CallIds |-> None], last |-> None]
MCKnownCaches == {NoCaches} \cup {[NoCaches EXCEPT !.session = sig] : sig \in Real}
MCSigned == Real \cup {None}
=============================================================================
