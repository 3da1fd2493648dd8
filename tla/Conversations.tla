---------------------------- MODULE Conversations ----------------------------
(* The conversations that the gateway keeps for clients without a state of      *)
(* their own: apply_scid_and_sanitization(), wrap_stream_with_writeback() and   *)
(* writeback_non_streaming_response() of gateway/scid.py over the managers of   *)
(* ide_compat/state_manager.py and two tables of the database.                  *)
(*                                                                              *)
(* A request is prepared in one go, waits for its backend, is streamed chunk by *)
(* chunk, and at its end writes its turn back.  It has a manager of its own,    *)
(* and so a copy of the conversation and of its checkpoint; only the database   *)
(* is shared.  The manager through which a stream saves its checkpoints is a    *)
(* common one, but nobody reads what that one has in memory.                    *)
(*                                                                              *)
(* A response says the number of its request.  The caches of signatures are     *)
(* SignatureStore's; what they answer is a choice here.                         *)
EXTENDS Sanitizer, FiniteSets

CONSTANTS Sent,                 \* what clients may send, and what kind they are taken for
          KnownCaches,          \* what the signature caches may know
          Requests,             \* requests that are served at the same time
          ChunkKinds,           \* what a chunk of a stream may bring
          TTL,                  \* of the rows of both tables: later ticks they live for
          MaxRequests,          \* bound: requests
          MaxChunks,            \* bound: chunks of a stream
          MaxFailures,          \* bound: calls whose transactions fail
          MaxTime               \* bound: ticks

ASSUME ConversationAssumption ==
    /\ \A q \in Sent : q.kind \in {"stateful", "stateless", "claude_code"} /\ q.stream \in BOOLEAN
    /\ KnownCaches \subseteq Caches
    /\ ChunkKinds \subseteq {"text", "thinking", "call", "error", "finish"}
    /\ TTL \in Nat /\ MaxTime \in Nat \ {0}
    /\ {MaxRequests, MaxChunks, MaxFailures} \subseteq Nat
    /\ None \notin Nat

(* extract_or_generate_scid(): a header, the body's conversation, the address   *)
(* and what the user said first, that alone, the address and the hour.          *)
ExtractOrGenerateScid(q) ==
    LET first == FirstUserText(q.messages)
    IN  IF q.header # None THEN <<"header", q.header>>
        ELSE IF q.conversation # None THEN <<"body", q.conversation>>
        ELSE IF q.ip # None /\ first # None THEN <<"ip", q.ip, first>>
        ELSE IF first # None THEN <<"first", first>>
        ELSE IF q.ip # None THEN <<"time", q.ip>>
        ELSE <<"random">>
Scids == {ExtractOrGenerateScid(q) : q \in Sent}

VARIABLES now,
          states,       \* conversation_state
          points,       \* session_checkpoints
          requests,
          served,       \* history: requests so far
          failures,     \* history: calls whose transactions failed
          writes,       \* history: how often a conversation was written
          forgotten,    \* history: the last request before its last reset
          ended         \* history: how its last stream ended

tables == <<states, points>>
history == <<writes, forgotten, ended>>
vars == <<now, tables, requests, served, failures, history>>

\* A place for a request that is free.
Idle == [kind |-> "none"]

Empty == [history |-> <<>>, sig |-> None]
Stored(state) == [history |-> state.history, sig |-> state.sig, expires |-> now + TTL]

(* get_conversation_state(), get_checkpoint(): a row that has expired is        *)
(* deleted.  store_conversation_state(), save_checkpoint().                     *)
Live(t, s) == t[s] # None /\ now <= t[s].expires
Get(t, s) == IF Live(t, s) THEN t[s] ELSE None
AfterGet(t, s) == IF Live(t, s) THEN t ELSE [t EXCEPT ![s] = None]
Put(t, s, row) == [t EXCEPT ![s] = row]
DeleteRow(t, s) == [t EXCEPT ![s] = None]

(* A call is made with the database up or not; a manager survives that it is    *)
(* not.                                                                         *)
Database(up) == /\ up \/ failures < MaxFailures
                /\ failures' = IF up THEN failures ELSE failures + 1

Init == /\ now = 1
        /\ states = [s \in Scids |-> None] /\ points = [s \in Scids |-> None]
        /\ requests = [r \in Requests |-> Idle]
        /\ served = 0 /\ failures = 0
        /\ writes = [s \in Scids |-> 0] /\ forgotten = [s \in Scids |-> 0]
        /\ ended = [s \in Scids |-> "never"]
-----------------------------------------------------------------------------
(* get_or_create_state()                                                        *)
LoadState(s, up) ==
    LET row == IF up THEN Get(states, s) ELSE None
    IN  IF row = None THEN Empty ELSE [history |-> row.history, sig |-> row.sig]
AfterLoad(s, up) ==
    IF ~up \/ Live(states, s) THEN states ELSE Put(states, s, Stored(Empty))

(* reset_state_for_new_chat() and clear_checkpoint()                            *)
\* Mutant: the reset stays in memory.
ResetInMemory(t, s, up) == t

ResetStateForNewChat(t, s, up) == IF up THEN Put(t, s, Stored(Empty)) ELSE t

\* Mutant: the checkpoint of what has ended is left.
ClearInMemory(t, s, up) == t

ClearCheckpoint(t, s, up) == IF up THEN DeleteRow(t, s) ELSE t

(* What an interrupted session left to sign with, when the conversation has no  *)
(* signature.                                                                   *)
Resumed(sig, point, caches) ==
    IF point = None \/ sig # None THEN sig
    ELSE FirstValid(<<point.sig, caches.session, caches.last>>)

Request(q, state, point, messages) ==
    LET s == ExtractOrGenerateScid(q)
    IN  [s |-> s, kind |-> q.kind, state |-> state, point |-> point,
         new |-> NewUserMessages(messages),
         stream |-> q.stream, number |-> served + 1, seen |-> writes[s],
         content |-> <<>>, calls |-> <<>>, sig |-> None, chunks |-> 0,
         finished |-> FALSE, failed |-> FALSE]

(* apply_scid_and_sanitization() for a client whose conversation the gateway    *)
(* keeps.                                                                       *)
ApplyStateful(r, q, up, caches) ==
    LET s == ExtractOrGenerateScid(q)
        loaded == LoadState(s, up)
        reset == ShouldResetStaleScidState(loaded.history, q.messages)
        state == IF reset THEN Empty ELSE loaded
        left == IF reset THEN ClearCheckpoint(points, s, up) ELSE points
        point == IF up THEN Get(left, s) ELSE None
        sig == Resumed(state.sig, point, caches)
        client == IF point # None /\ sig = None THEN StripOrphanThinkingBlocks(q.messages)
                  ELSE q.messages
        out == Prepare(client, state.history, sig, q.thinking, caches)
    IN  /\ states' = IF reset THEN ResetStateForNewChat(AfterLoad(s, up), s, up)
                     ELSE AfterLoad(s, up)
        /\ points' = IF up THEN AfterGet(left, s) ELSE left
        /\ writes' = IF reset /\ up THEN [writes EXCEPT ![s] = @ + 1] ELSE writes
        /\ forgotten' = IF reset /\ up THEN [forgotten EXCEPT ![s] = served] ELSE forgotten
        /\ ended' = IF reset /\ up THEN [ended EXCEPT ![s] = "written"] ELSE ended
        /\ requests' = [requests EXCEPT ![r] =
              [Request(q, state, point, out)
                 EXCEPT !.seen = IF ~up THEN None ELSE IF reset THEN @ + 1 ELSE @]]

(* For one with a state of its own: get_or_create_state() makes an empty one    *)
(* that is not kept, and the merge takes the client's messages.                 *)
ApplyStateless(r, q, up, caches) ==
    LET s == ExtractOrGenerateScid(q)
        point == IF up THEN Get(points, s) ELSE None
        sig == Resumed(None, point, caches)
        client == IF point # None /\ sig = None THEN StripOrphanThinkingBlocks(q.messages)
                  ELSE q.messages
        out == Prepare(client, <<>>, sig, q.thinking, caches)
    IN  /\ points' = IF up THEN AfterGet(points, s) ELSE points
        /\ requests' = [requests EXCEPT ![r] = Request(q, None, point, out)]
        /\ UNCHANGED <<states, history>>

(* Claude Code gets its signatures back, and nothing is written afterwards.     *)
ApplyClaudeCode(r, q, caches) ==
    LET out == RecoverSignaturesForClaudeCode(q.messages, q.thinking, caches).messages
    IN  /\ requests' = [requests EXCEPT ![r] = Request(q, None, None, out)]
        /\ UNCHANGED <<tables, history>>

Receive(r) ==
    /\ requests[r] = Idle
    /\ served < MaxRequests /\ served' = served + 1
    /\ \E q \in Sent, up \in BOOLEAN :
         /\ Database(up)
         /\ \E caches \in KnownCaches :
              CASE q.kind = "stateful" -> ApplyStateful(r, q, up, caches)
                [] q.kind = "stateless" -> ApplyStateless(r, q, up, caches)
                [] q.kind = "claude_code" -> ApplyClaudeCode(r, q, caches)
    /\ UNCHANGED now
-----------------------------------------------------------------------------
(* save_intermediate_state(), every few chunks and for each piece of a call.    *)
GetCheckpointInterval(n) == IF n < 50 THEN 2 ELSE IF n < 200 THEN 5 ELSE 10
ShouldSaveCheckpoint(n) == n > 0 /\ n % GetCheckpointInterval(n) = 0
Checkpoint(q, sig) ==
    [sig |-> sig, by |-> q.number, chunks |-> q.chunks, expires |-> now + TTL]

(* update_checkpoint_signature(), by the request's own manager: what that one   *)
(* has in memory goes over what the stream has saved since.                     *)
OwnPoint(q, up) ==
    IF q.point # None THEN q.point ELSE IF up THEN Get(points, q.s) ELSE None
Signs(q, up, sig) == OwnPoint(q, up) # None /\ OwnPoint(q, up).sig # sig
Signed(q, up, sig) == [OwnPoint(q, up) EXCEPT !.sig = sig, !.expires = now + TTL]

SaveIntermediateState(t, q, up) ==
    IF up THEN Put(t, q.s, Checkpoint(q, q.sig)) ELSE t

(* What a model says, with the number of the request.                           *)
Answer(n) == Block("text", "answer", n, None)

(* A chunk is handed to the client and then looked at.                          *)
Streams(r) == /\ requests[r] # Idle /\ requests[r].stream
              /\ requests[r].kind # "claude_code"
              /\ requests[r].chunks < MaxChunks

ContentChunk(r, b) ==
    /\ Streams(r)
    /\ \E up \in BOOLEAN :
         LET q == [requests[r] EXCEPT !.chunks = @ + 1, !.content = Append(@, b),
                                      !.sig = IF IsThinking(b) THEN b.sig ELSE @]
             signs == IsThinking(b) /\ Signs(q, up, b.sig)
             signed == Signed(q, up, b.sig)
             t == IF ~up \/ ~IsThinking(b) THEN points
                  ELSE IF signs THEN Put(points, q.s, signed)
                  ELSE IF q.point = None THEN AfterGet(points, q.s) ELSE points
         IN  /\ Database(up)
             /\ points' = IF ShouldSaveCheckpoint(q.chunks) THEN SaveIntermediateState(t, q, up)
                          ELSE t
             /\ requests' = [requests EXCEPT ![r] =
                   [q EXCEPT !.point = IF signs THEN signed
                                       ELSE IF IsThinking(b) THEN OwnPoint(q, up) ELSE @]]
    /\ UNCHANGED <<now, states, served, history>>

CallChunk(r, id) ==
    /\ Streams(r)
    /\ \E up \in BOOLEAN :
         LET q == [requests[r] EXCEPT !.chunks = @ + 1,
                     !.calls = IF Contains(@, id) THEN @ ELSE Append(@, id)]
         IN  /\ Database(up)
             /\ points' = SaveIntermediateState(points, q, up)
             /\ requests' = [requests EXCEPT ![r] = q]
    /\ UNCHANGED <<now, states, served, history>>

(* An error that comes as a chunk, and the chunk with the finish reason.        *)
LastChunk(r, failed) ==
    /\ Streams(r)
    /\ \E up \in BOOLEAN :
         LET q == [requests[r] EXCEPT !.chunks = @ + 1, !.failed = @ \/ failed,
                                      !.finished = @ \/ ~failed]
         IN  /\ Database(up)
             /\ points' = IF ShouldSaveCheckpoint(q.chunks) THEN SaveIntermediateState(points, q, up)
                          ELSE points
             /\ requests' = [requests EXCEPT ![r] = q]
    /\ UNCHANGED <<now, states, served, history>>

Chunk(r) ==
    /\ requests[r] # Idle
    /\ \/ \E b \in {Answer(requests[r].number)} \cup {Thinking(None, sig) : sig \in Real} :
            b.type \in ChunkKinds /\ ContentChunk(r, b)
       \/ "call" \in ChunkKinds /\ \E id \in CallIds : CallChunk(r, id)
       \/ \E failed \in BOOLEAN :
            (IF failed THEN "error" ELSE "finish") \in ChunkKinds /\ LastChunk(r, failed)
-----------------------------------------------------------------------------
WriteBack(q, response, up) ==
    LET state == UpdateAuthoritativeHistory(q.state, q.new, response, q.sig)
    IN  IF q.state = None \/ ~up THEN UNCHANGED <<states, writes, forgotten>>
        ELSE /\ states' = Put(states, q.s, Stored(state))
             /\ writes' = [writes EXCEPT ![q.s] = @ + 1]
             /\ forgotten' = IF q.number > forgotten[q.s] THEN forgotten
                             ELSE [forgotten EXCEPT ![q.s] = 0]

(* The end of wrap_stream_with_writeback(), however it is reached: the backend  *)
(* is done, it broke off, or the client has gone.                               *)
HasCollected(q) == q.content # <<>> \/ q.calls # <<>>
Response(q) == [Message("assistant", q.content) EXCEPT !.tool_calls = q.calls]
EndStream(r) ==
    /\ requests[r] # Idle /\ requests[r].stream
    /\ LET q == requests[r]
           writes_back == q.finished /\ ~q.failed /\ HasCollected(q) /\ q.kind # "claude_code"
       IN  IF writes_back
           THEN \E up \in BOOLEAN :
                  /\ Database(up)
                  /\ WriteBack(q, Response(q), up)
                  /\ points' = ClearCheckpoint(points, q.s, up)
                  /\ ended' = [ended EXCEPT ![q.s] = IF up THEN "written" ELSE "broken"]
           ELSE /\ ended' = IF q.kind = "claude_code" THEN ended
                            ELSE [ended EXCEPT ![q.s] = "broken"]
                /\ UNCHANGED <<tables, writes, forgotten, failures>>
    /\ requests' = [requests EXCEPT ![r] = Idle]
    /\ UNCHANGED <<now, served>>

(* writeback_non_streaming_response(), of a whole answer or an error.           *)
AnswerWhole(r) ==
    /\ requests[r] # Idle /\ ~requests[r].stream
    /\ \/ \E sig \in Real \cup {None}, up \in BOOLEAN :
            LET q == [requests[r] EXCEPT !.sig = sig]
            IN  /\ Database(up)
                /\ q.kind # "claude_code"
                /\ WriteBack(q, Message("assistant", <<Answer(q.number)>>), up)
       \/ UNCHANGED <<states, writes, forgotten, failures>>
    /\ requests' = [requests EXCEPT ![r] = Idle]
    /\ UNCHANGED <<now, points, served, ended>>

(* cleanup_expired_states(), cleanup_expired_checkpoints()                      *)
CleanupExpired ==
    /\ \E s \in Scids : states[s] # Get(states, s) \/ points[s] # Get(points, s)
    /\ states' = [s \in Scids |-> Get(states, s)]
    /\ points' = [s \in Scids |-> Get(points, s)]
    /\ UNCHANGED <<now, requests, served, failures, history>>

(* The process ends and starts again: the tables are left.                      *)
Restart ==
    /\ \E r \in Requests : requests[r] # Idle
    /\ requests' = [r \in Requests |-> Idle]
    /\ ended' = [s \in Scids |->
         IF \E r \in Requests : requests[r] # Idle /\ requests[r].s = s THEN "broken" ELSE ended[s]]
    /\ UNCHANGED <<now, tables, served, failures, writes, forgotten>>

Tick == /\ now < MaxTime /\ now' = now + 1
        /\ UNCHANGED <<tables, requests, served, failures, history>>

Next == \/ \E r \in Requests : Receive(r) \/ Chunk(r) \/ EndStream(r) \/ AnswerWhole(r)
        \/ CleanupExpired \/ Restart \/ Tick

Spec == Init /\ [][Next]_vars
-----------------------------------------------------------------------------
TypeOK ==
    /\ now \in 1..MaxTime /\ served \in 0..MaxRequests /\ failures \in 0..MaxFailures
    /\ \A s \in Scids :
         /\ states[s] # None => /\ states[s].sig \in Real \cup {None}
                                /\ states[s].expires \in 1..(MaxTime + TTL)
                                /\ \A m \in Messages(states[s].history) : m.role \in {"user", "assistant"}
         /\ points[s] # None => /\ points[s].sig \in Real \cup {None}
                                /\ points[s].by \in 1..MaxRequests
    /\ \A r \in Requests : requests[r] # Idle => requests[r].s \in Scids
    /\ ended \in [Scids -> {"never", "written", "broken"}]

(* A turn that was written stays: a conversation is only extended, unless it is *)
(* reset for a new chat, expires, or is written by a request that has read it   *)
(* before another one wrote, since each has a manager of its own (scid.py:1389),*)
(* or could not read it, since it then begins with an empty one and saves that  *)
(* (state_manager.py:232).                                                      *)
Writer(r, s) == requests[r] # Idle /\ requests'[r] = Idle /\ requests[r].s = s
TurnsAreKept ==
    [][\A s \in Scids :
         /\ Live(states, s) /\ states'[s] # None
         /\ ~IsPrefix(states[s].history, states'[s].history)
         => \/ forgotten'[s] # forgotten[s]
            \/ \E r \in Requests : Writer(r, s) /\ requests[r].seen # writes[s]]_vars

(* After a reset nothing of the chat before it is in the conversation: not from *)
(* the database and not by a later request, unless one from before the reset    *)
(* ends after it (state_manager.py:363).                                        *)
Number(m) == IF m.role = "assistant" /\ Blocks(m, "text") # {}
             THEN (CHOOSE b \in Blocks(m, "text") : TRUE).id ELSE None
ResetForgets == \A s \in Scids : states[s] # None =>
    \A m \in Messages(states[s].history) : Number(m) # None => Number(m) > forgotten[s]

(* The checkpoint of a stream does not outlive its completion: when the last    *)
(* stream of a conversation has been written back and none is on its way, the   *)
(* next request finds no interrupted session (scid.py:904).                     *)
CheckpointsEnd == \A s \in Scids :
    /\ ended[s] = "written"
    /\ ~\E r \in Requests : requests[r] # Idle /\ requests[r].s = s /\ requests[r].stream
    => points[s] = None
=============================================================================
