-------------------------- MODULE ConversationsProofs --------------------------
(* What holds of conversations, for all that clients may send and any number of *)
(* requests at the same time.                                                   *)
(*                                                                              *)
(* What is asked of a table depends on what requests on their way hold in their *)
(* copies: the inductive invariant says of each copy what it holds at least,    *)
(* when it was read after the last write (PrefixInv), and at most, when its     *)
(* request came after the last reset (CopiesInv).                               *)
(*                                                                              *)
(* Messages that clients send have no type, and need none: a history of the     *)
(* gateway's gets only messages of the user and responses.  Each action is      *)
(* first brought to one of three shapes (Joins, Updated, Left), then the        *)
(* invariant is shown to outlive the shape.                                     *)
EXTENDS Conversations, SelectionProofs, TLAPS

(* A history is a sequence, whatever clients put into its messages.            *)
IsHistory(h) == \E S : h \in Seq(S)

LEMMA SmallHistories ==
  /\ IsHistory(<<>>) /\ Messages(<<>>) = {}
  /\ \A m : IsHistory(<<m>>) /\ Messages(<<m>>) = {m}
<1>1. <<>> \in Seq({})
  OBVIOUS
<1>2. \A m : <<m>> \in Seq({m}) /\ Messages(<<m>>) = {m}
  BY DEF Messages
<1>3. Messages(<<>>) = {}
  BY DEF Messages
<1> QED BY <1>1, <1>2, <1>3 DEF IsHistory

LEMMA HistoryGrows ==
  ASSUME NEW h, IsHistory(h), NEW m
  PROVE  IsHistory(Append(h, m)) /\ Messages(Append(h, m)) = Messages(h) \cup {m}
<1>1. PICK S : h \in Seq(S)
  BY DEF IsHistory
<1>2. h \in Seq(S \cup {m}) /\ Append(h, m) \in Seq(S \cup {m})
  BY <1>1
<1>3. Messages(Append(h, m)) \subseteq Messages(h) \cup {m}
  BY <1>2 DEF Messages
<1>4. m \in Messages(Append(h, m))
  <2>1. Len(h) + 1 \in DOMAIN Append(h, m) /\ Append(h, m)[Len(h) + 1] = m
    BY <1>2
  <2> QED BY <2>1 DEF Messages
<1>5. Messages(h) \subseteq Messages(Append(h, m))
  <2>1. ASSUME NEW i \in DOMAIN h PROVE i \in DOMAIN Append(h, m) /\ Append(h, m)[i] = h[i]
    BY <1>2
  <2> QED BY <2>1 DEF Messages
<1> QED BY <1>2, <1>3, <1>4, <1>5 DEF IsHistory

LEMMA PrefixOfItself ==
  ASSUME NEW h, IsHistory(h)
  PROVE  IsPrefix(h, h) /\ IsPrefix(<<>>, h)
<1>1. PICK S : h \in Seq(S)
  BY DEF IsHistory
<1>2. SubSeq(<<>>, 1, 0) = SubSeq(h, 1, 0) /\ Len(<<>>) = 0
  BY <1>1
<1> QED BY <1>1, <1>2 DEF IsPrefix

LEMMA PrefixExtended ==
  ASSUME NEW U, NEW p \in Seq(U), NEW h \in Seq(U), NEW x \in Seq(U), IsPrefix(p, h)
  PROVE  IsPrefix(p, h \o x)
<1> DEFINE n == Len(p)
           g == h \o x
<1>1. g \in Seq(U) /\ Len(g) = Len(h) + Len(x) /\ Len(h) \in Nat /\ Len(x) \in Nat /\ n \in Nat
  OBVIOUS
<1>2. n <= Len(h) /\ SubSeq(p, 1, n) = SubSeq(h, 1, n)
  BY DEF IsPrefix
<1>3. \A i \in 1..n : g[i] = h[i]
  BY <1>1, <1>2
<1>4. SubSeq(g, 1, n) = SubSeq(h, 1, n)
  BY <1>1, <1>2, <1>3
<1>5. n <= Len(g)
  BY <1>1, <1>2
<1> QED BY <1>2, <1>4, <1>5 DEF IsPrefix

(* update_authoritative_history() only adds messages, at the end.              *)
LEMMA AppendsNew ==
  ASSUME NEW h, IsHistory(h), NEW ms, IsHistory(ms)
  PROVE  /\ IsHistory(AppendNew(h, ms))
         /\ Messages(AppendNew(h, ms)) \subseteq Messages(h) \cup Messages(ms)
         /\ \A p : IsHistory(p) /\ IsPrefix(p, h) => IsPrefix(p, AppendNew(h, ms))
<1> DEFINE chosen == {i \in DOMAIN ms : /\ ~MessageExistsInHistory(ms[i], h)
                                         /\ \A j \in 1..(i - 1) : ms[j] # ms[i]}
           x == Selected(ms, chosen)
<1>1. PICK S : h \in Seq(S)
  BY DEF IsHistory
<1>2. PICK T : ms \in Seq(T)
  BY DEF IsHistory
<1>3. AppendNew(h, ms) = h \o x
  BY DEF AppendNew
<1> HIDE DEF chosen
<1>4. x \in Seq(T) /\ \A j \in DOMAIN x : \E i \in chosen \cap DOMAIN ms : x[j] = ms[i]
  BY <1>2, SelectedIs, SelectedElements
<1> HIDE DEF x
<1>5. h \in Seq(S \cup T) /\ x \in Seq(S \cup T) /\ h \o x \in Seq(S \cup T)
  BY <1>1, <1>4
<1>6. Messages(h \o x) \subseteq Messages(h) \cup Messages(ms)
  <2>1. ASSUME NEW i \in DOMAIN (h \o x)
        PROVE  (h \o x)[i] \in Messages(h) \cup Messages(ms)
    <3>1. CASE i \in DOMAIN h
      <4>1. (h \o x)[i] = h[i]
        BY <1>5, <3>1
      <4> QED BY <3>1, <4>1 DEF Messages
    <3>2. CASE i \notin DOMAIN h
      <4>1. i - Len(h) \in DOMAIN x /\ (h \o x)[i] = x[i - Len(h)]
        BY <1>5, <3>2
      <4>2. PICK k \in DOMAIN ms : x[i - Len(h)] = ms[k]
        BY <1>4, <4>1
      <4> QED BY <4>1, <4>2 DEF Messages
    <3> QED BY <3>1, <3>2
  <2> QED BY <2>1 DEF Messages
<1>7. ASSUME NEW p, IsHistory(p), IsPrefix(p, h) PROVE IsPrefix(p, h \o x)
  <2>1. PICK P : p \in Seq(P)
    BY <1>7 DEF IsHistory
  <2>2. p \in Seq(S \cup T \cup P) /\ h \in Seq(S \cup T \cup P) /\ x \in Seq(S \cup T \cup P)
    BY <1>1, <1>4, <2>1
  <2> QED BY <1>7, <2>2, PrefixExtended
<1> QED BY <1>3, <1>5, <1>6, <1>7 DEF IsHistory

(* Of a request the user's last message is taken.                              *)
LEMMA NewMessages ==
  ASSUME NEW h
  PROVE  /\ IsHistory(NewUserMessages(h))
         /\ \A m \in Messages(NewUserMessages(h)) : m.role = "user"
<1> DEFINE last == {i \in DOMAIN h : /\ h[i].role = "user"
                                     /\ \A j \in DOMAIN h : h[j].role = "user" => j <= i}
           i0 == CHOOSE i \in last : TRUE
<1>1. CASE last = {}
  <2>1. NewUserMessages(h) = <<>>
    BY <1>1 DEF NewUserMessages
  <2> QED BY <2>1, SmallHistories
<1>2. CASE last # {}
  <2>1. NewUserMessages(h) = <<h[i0]>>
    BY <1>2 DEF NewUserMessages
  <2>2. i0 \in last
    BY <1>2
  <2>3. h[i0].role = "user"
    BY <2>2
  <2> HIDE DEF i0
  <2> QED BY <2>1, <2>3, SmallHistories
<1> QED BY <1>1, <1>2
-----------------------------------------------------------------------------
Fields == {"s", "kind", "state", "point", "new", "stream", "number", "seen",
           "content", "calls", "sig", "chunks", "finished", "failed"}

(* Every number in a history is above n.                                       *)
Above(h, n) == \A m \in Messages(h) : Number(m) # None => Number(m) \in Nat /\ Number(m) > n

IsKept(h) == /\ IsHistory(h) /\ Above(h, 0)
             /\ \A m \in Messages(h) : m.role \in {"user", "assistant"}

IsRow(row) == /\ IsKept(row.history) /\ row.sig \in Real \cup {None}
              /\ row.expires \in 1..(MaxTime + TTL)

IsPoint(p) == /\ DOMAIN p = {"sig", "by", "chunks", "expires"}
              /\ p.sig \in Real \cup {None} /\ p.by \in 1..MaxRequests

(* A request before n more have come.  What the client has sent is left open.  *)
IsRequest(q, n) ==
    /\ DOMAIN q = Fields
    /\ q.s \in Scids /\ q.kind \in {"stateful", "stateless", "claude_code"}
    /\ q.number \in 1..n
    /\ q.sig \in Real \cup {None} /\ q.seen \in Nat \cup {None}
    /\ q.point # None => IsPoint(q.point)
    /\ IsHistory(q.new) /\ \A m \in Messages(q.new) : m.role = "user"
    /\ IsHistory(q.content)
    /\ \A b \in Messages(q.content) : b.type = "text" => b.id = q.number
    /\ q.state # None => IsKept(q.state.history) /\ q.state.sig \in Real \cup {None}

Basics == /\ now \in 1..MaxTime /\ served \in 0..MaxRequests /\ failures \in 0..MaxFailures
          /\ DOMAIN states = Scids /\ DOMAIN points = Scids /\ DOMAIN requests = Requests
          /\ writes \in [Scids -> Nat] /\ forgotten \in [Scids -> Nat]
          /\ ended \in [Scids -> {"never", "written", "broken"}]

RowsInv == \A s \in Scids : /\ states[s] # None => IsRow(states[s])
                            /\ points[s] # None => IsPoint(points[s])

RequestsInv == \A r \in Requests : requests[r] # Idle => IsRequest(requests[r], served)

(* Resets and writes lie in the past, and with the first request the first row *)
(* is made.                                                                    *)
PastInv == /\ \A s \in Scids : forgotten[s] = 0 \/ forgotten[s] < served
           /\ served = 0 => \A s \in Scids : states[s] = None
           /\ \A r \in Requests : requests[r] # Idle /\ requests[r].seen # None
                                    => requests[r].seen <= writes[requests[r].s]

(* A copy that was read after the last reset holds nothing from before it.     *)
CopiesInv ==
    \A r \in Requests : LET q == requests[r] IN
       q # Idle /\ q.state # None /\ q.number > forgotten[q.s]
         => Above(q.state.history, forgotten[q.s])

(* A copy that was read after the last write holds all of the row.             *)
PrefixInv ==
    \A r \in Requests : LET q == requests[r] IN
       q # Idle /\ q.state # None /\ q.seen = writes[q.s] /\ states[q.s] # None
         => IsPrefix(states[q.s].history, q.state.history)

(* What CheckpointsEnd says, with only the streams that save checkpoints.      *)
Streaming(q, s) == q # Idle /\ q.s = s /\ q.stream /\ q.kind # "claude_code"
EndInv == \A s \in Scids : ended[s] = "written" /\ ~(\E r \in Requests : Streaming(requests[r], s))
                             => points[s] = None

ForgetInv == \A s \in Scids : states[s] # None => Above(states[s].history, forgotten[s])

IInv == /\ Basics /\ RowsInv /\ RequestsInv /\ PastInv /\ ForgetInv /\ CopiesInv
        /\ PrefixInv /\ EndInv

LEMMA StartsRight == Init => IInv
<1> SUFFICES ASSUME Init PROVE IInv
    OBVIOUS
<1> USE ConversationAssumption DEF Init
<1>1. Basics
  BY DEF Basics
<1>2. RowsInv /\ RequestsInv
  BY DEF RowsInv, RequestsInv
<1>3. PastInv /\ ForgetInv /\ CopiesInv /\ PrefixInv /\ EndInv
  BY DEF PastInv, ForgetInv, CopiesInv, PrefixInv, EndInv
<1> QED BY <1>1, <1>2, <1>3 DEF IInv
-----------------------------------------------------------------------------
(* A request that comes makes a row, finds one, empties one, or leaves it.     *)
Unread(q) == /\ UNCHANGED <<states, history>>
             /\ q.state = Empty /\ q.seen = None
Copyless(q) == /\ UNCHANGED <<states, history>>
               /\ q.state = None /\ q.seen = writes[q.s]
Loaded(q) == /\ UNCHANGED <<states, history>>
             /\ states[q.s] # None /\ q.seen = writes[q.s]
             /\ q.state = [history |-> states[q.s].history, sig |-> states[q.s].sig]
Created(q) == /\ UNCHANGED history
              /\ states' = [states EXCEPT ![q.s] = Stored(Empty)]
              /\ ~Live(states, q.s)
              /\ q.state = Empty /\ q.seen = writes[q.s]
ResetBy(q) == /\ states' = [states EXCEPT ![q.s] = Stored(Empty)]
              /\ points'[q.s] = None
              /\ writes' = [writes EXCEPT ![q.s] = @ + 1]
              /\ forgotten' = [forgotten EXCEPT ![q.s] = served]
              /\ ended' = [ended EXCEPT ![q.s] = "written"]
              /\ q.state = Empty /\ q.seen = writes[q.s] + 1

Joins(r, q) ==
    /\ requests[r] = Idle /\ requests' = [requests EXCEPT ![r] = q]
    /\ served < MaxRequests /\ served' = served + 1
    /\ now' = now /\ failures' \in 0..MaxFailures
    /\ IsRequest(q, served + 1) /\ q.number = served + 1
    /\ DOMAIN points' = Scids
    /\ \A s \in Scids : points'[s] = points[s] \/ points'[s] = None
    /\ Unread(q) \/ Copyless(q) \/ Loaded(q) \/ Created(q) \/ ResetBy(q)

LEMMA EmptyIsKept ==
  /\ IsKept(Empty.history) /\ Empty.sig \in Real \cup {None}
  /\ Empty.history = <<>> /\ \A n : Above(Empty.history, n)
  BY SmallHistories DEF Empty, IsKept, Above

LEMMA StoredEmpty ==
  ASSUME Basics
  PROVE  IsRow(Stored(Empty)) /\ Stored(Empty).history = <<>>
<1>1. /\ Stored(Empty).history = Empty.history /\ Stored(Empty).sig = Empty.sig
      /\ Stored(Empty).expires = now + TTL
  BY DEF Stored
<1>2. now + TTL \in 1..(MaxTime + TTL)
  BY ConversationAssumption DEF Basics
<1> QED BY <1>1, <1>2, EmptyIsKept DEF IsRow

LEMMA FieldsMakeRequest ==
  ASSUME Basics, NEW q \in Sent, NEW point, NEW out,
         point # None => IsPoint(point), NEW u,
         u.state # None => IsKept(u.state.history) /\ u.state.sig \in Real \cup {None},
         DOMAIN u = Fields, u.s = ExtractOrGenerateScid(q), u.kind = q.kind,
         u.point = point, u.new = NewUserMessages(out), u.number = served + 1,
         u.seen \in Nat \cup {None}, u.content = <<>>, u.sig = None
  PROVE  IsRequest(u, served + 1)
<1>1. u.s \in Scids /\ u.kind \in {"stateful", "stateless", "claude_code"}
  BY ConversationAssumption DEF Scids
<1>2. IsHistory(u.new) /\ \A m \in Messages(u.new) : m.role = "user"
  BY NewMessages
<1>3. IsHistory(u.content) /\ Messages(u.content) = {}
  BY SmallHistories
<1>4. served + 1 \in 1..(served + 1)
  BY DEF Basics
<1> QED BY <1>1, <1>2, <1>3, <1>4 DEF IsRequest

LEMMA RequestIs ==
  ASSUME Basics, NEW q \in Sent, NEW state, NEW point, NEW out,
         point # None => IsPoint(point),
         state # None => IsKept(state.history) /\ state.sig \in Real \cup {None},
         NEW u, u = Request(q, state, point, out)
  PROVE  /\ IsRequest(u, served + 1) /\ u.number = served + 1
         /\ u.s = ExtractOrGenerateScid(q) /\ u.state = state
         /\ u.seen = writes[ExtractOrGenerateScid(q)]
<1>1. /\ u.s = ExtractOrGenerateScid(q) /\ u.kind = q.kind /\ u.state = state
      /\ u.point = point /\ u.new = NewUserMessages(out) /\ u.number = served + 1
      /\ u.seen = writes[ExtractOrGenerateScid(q)] /\ u.content = <<>> /\ u.sig = None
      /\ DOMAIN u = Fields
  BY DEF Request, Fields
<1>2. u.seen \in Nat \cup {None}
  BY <1>1 DEF Scids, Basics
<1> QED BY <1>1, <1>2, FieldsMakeRequest

SeenRequest(q, state, point, out, seen) ==
    [Request(q, state, point, out) EXCEPT !.seen = seen]

LEMMA SeenRequestIs ==
  ASSUME Basics, NEW q \in Sent, NEW state, NEW point, NEW out,
         point # None => IsPoint(point),
         state # None => IsKept(state.history) /\ state.sig \in Real \cup {None},
         NEW seen \in Nat \cup {None},
         NEW u, u = SeenRequest(q, state, point, out, seen)
  PROVE  /\ IsRequest(u, served + 1) /\ u.number = served + 1
         /\ u.s = ExtractOrGenerateScid(q) /\ u.state = state /\ u.seen = seen
<1>1. /\ u.s = ExtractOrGenerateScid(q) /\ u.kind = q.kind /\ u.state = state
      /\ u.point = point /\ u.new = NewUserMessages(out) /\ u.number = served + 1
      /\ u.seen = seen /\ u.content = <<>> /\ u.sig = None /\ DOMAIN u = Fields
  BY DEF SeenRequest, Request, Fields
<1> QED BY <1>1, FieldsMakeRequest
-----------------------------------------------------------------------------
LEMMA GetIs ==
  ASSUME NEW t, NEW s
  PROVE  /\ Get(t, s) = None \/ (Get(t, s) = t[s] /\ Live(t, s))
         /\ ~Live(t, s) => Get(t, s) = None
  BY DEF Get

LEMMA AfterGetIs ==
  ASSUME NEW t, DOMAIN t = Scids, NEW s
  PROVE  /\ DOMAIN AfterGet(t, s) = Scids
         /\ \A x \in Scids : AfterGet(t, s)[x] = t[x] \/ AfterGet(t, s)[x] = None
  BY DEF AfterGet

LEMMA LoadStateIs ==
  ASSUME RowsInv, NEW s \in Scids, NEW up \in BOOLEAN
  PROVE  LET loaded == LoadState(s, up)
             row == [history |-> states[s].history, sig |-> states[s].sig]
         IN  /\ IsKept(loaded.history) /\ loaded.sig \in Real \cup {None}
             /\ loaded = Empty \/ (up /\ Live(states, s) /\ loaded = row)
             /\ up /\ Live(states, s) /\ states[s] # None => loaded = row
<1> DEFINE row == IF up THEN Get(states, s) ELSE None
           loaded == [history |-> states[s].history, sig |-> states[s].sig]
<1>1. CASE row = None
  <2>1. LoadState(s, up) = Empty
    BY <1>1 DEF LoadState
  <2>2. ~(up /\ Live(states, s) /\ states[s] # None)
    BY <1>1 DEF Get
  <2> QED BY <2>1, <2>2, EmptyIsKept
<1>2. CASE row # None
  <2>1. up /\ Live(states, s) /\ row = states[s] /\ states[s] # None
    BY <1>2 DEF Get
  <2>2. LoadState(s, up) = loaded
    BY <1>2, <2>1 DEF LoadState
  <2>3. loaded.history = states[s].history /\ loaded.sig = states[s].sig
    OBVIOUS
  <2>4. IsKept(states[s].history) /\ states[s].sig \in Real \cup {None}
    BY <2>1 DEF RowsInv, IsRow
  <2> HIDE DEF loaded
  <2>5. IsKept(loaded.history) /\ loaded.sig \in Real \cup {None}
    BY <2>3, <2>4
  <2>6. loaded = [history |-> states[s].history, sig |-> states[s].sig]
    BY DEF loaded
  <2> QED BY <2>1, <2>2, <2>5, <2>6
<1> QED BY <1>1, <1>2

(* apply_scid_and_sanitization(), for a conversation that is kept.             *)
LEMMA StatefulJoins ==
  ASSUME Basics, RowsInv, NEW r \in Requests, NEW q \in Sent, NEW up \in BOOLEAN,
         NEW caches, requests[r] = Idle, served < MaxRequests, served' = served + 1,
         now' = now, Database(up), ApplyStateful(r, q, up, caches)
  PROVE  \E u : Joins(r, u)
<1> DEFINE s == ExtractOrGenerateScid(q)
           loaded == LoadState(s, up)
           reset == ShouldResetStaleScidState(loaded.history, q.messages)
           state == IF reset THEN Empty ELSE loaded
           left == IF reset THEN ClearCheckpoint(points, s, up) ELSE points
           point == IF up THEN Get(left, s) ELSE None
           sig == Resumed(state.sig, point, caches)
           client == IF point # None /\ sig = None THEN StripOrphanThinkingBlocks(q.messages)
                     ELSE q.messages
           out == Prepare(client, state.history, sig, q.thinking, caches)
           plain == Request(q, state, point, out)
           seen == IF ~up THEN None ELSE IF reset THEN plain.seen + 1 ELSE plain.seen
           u == [plain EXCEPT !.seen = seen]
<1>1. /\ states' = IF reset THEN ResetStateForNewChat(AfterLoad(s, up), s, up)
                   ELSE AfterLoad(s, up)
      /\ points' = IF up THEN AfterGet(left, s) ELSE left
      /\ writes' = IF reset /\ up THEN [writes EXCEPT ![s] = @ + 1] ELSE writes
      /\ forgotten' = IF reset /\ up THEN [forgotten EXCEPT ![s] = served] ELSE forgotten
      /\ ended' = IF reset /\ up THEN [ended EXCEPT ![s] = "written"] ELSE ended
      /\ requests' = [requests EXCEPT ![r] = u]
  BY DEF ApplyStateful
<1>2. s \in Scids
  BY DEF Scids
<1>3. failures' \in 0..MaxFailures
  BY ConversationAssumption DEF Database, Basics
<1>4. /\ IsKept(loaded.history) /\ loaded.sig \in Real \cup {None}
      /\ \/ loaded = Empty
         \/ /\ up /\ Live(states, s)
            /\ loaded = [history |-> states[s].history, sig |-> states[s].sig]
  BY <1>2, LoadStateIs
<1>5. up /\ Live(states, s) /\ states[s] # None
        => loaded = [history |-> states[s].history, sig |-> states[s].sig]
  BY <1>2, LoadStateIs
<1>6. IsKept(state.history) /\ state.sig \in Real \cup {None}
  BY <1>4, EmptyIsKept
<1>7. /\ DOMAIN left = Scids
      /\ \A x \in Scids : left[x] = points[x] \/ left[x] = None
      /\ reset /\ up => left[s] = None
  BY <1>2 DEF Basics, ClearCheckpoint, DeleteRow
<1>8. point # None => IsPoint(point)
  <2>1. point = None \/ point = left[s]
    BY GetIs
  <2> QED BY <1>2, <1>7, <2>1 DEF RowsInv
<1>9. plain.seen = writes[s] /\ writes[s] \in Nat
  BY <1>2 DEF Request, Basics
<1>10. seen \in Nat \cup {None}
  BY <1>9
<1> HIDE DEF s, state, point, out, seen, left, loaded, reset
<1>a. u = SeenRequest(q, state, point, out, seen)
  BY DEF SeenRequest
<1> HIDE DEF u, plain
<1>11. /\ IsRequest(u, served + 1) /\ u.number = served + 1
       /\ u.s = s /\ u.state = state /\ u.seen = seen
  <2>1. /\ IsRequest(u, served + 1) /\ u.number = served + 1
        /\ u.s = ExtractOrGenerateScid(q) /\ u.state = state /\ u.seen = seen
    BY <1>6, <1>8, <1>10, <1>a, SeenRequestIs
  <2> QED BY <2>1 DEF s
<1>12. /\ DOMAIN points' = Scids
       /\ \A x \in Scids : points'[x] = points[x] \/ points'[x] = None
       /\ reset /\ up => points'[s] = None
  <2>1. /\ DOMAIN AfterGet(left, s) = Scids
        /\ \A x \in Scids : AfterGet(left, s)[x] = left[x] \/ AfterGet(left, s)[x] = None
    BY <1>7, AfterGetIs
  <2> QED BY <1>1, <1>2, <1>7, <2>1
<1>13. Unread(u) \/ Loaded(u) \/ Created(u) \/ ResetBy(u)
  <2>1. CASE ~up
    <3>1. state = Empty
      BY <1>4, <2>1 DEF state
    <3>2. states' = states /\ seen = None /\ UNCHANGED history
      BY <1>1, <2>1 DEF AfterLoad, ResetStateForNewChat, seen, history
    <3> QED BY <1>11, <3>1, <3>2 DEF Unread
  <2>2. CASE up /\ reset
    <3>1. states' = Put(AfterLoad(s, up), s, Stored(Empty))
      BY <1>1, <2>2 DEF ResetStateForNewChat
    <3>2. states' = [states EXCEPT ![s] = Stored(Empty)]
      BY <1>2, <3>1 DEF AfterLoad, Put, Basics
    <3>3. state = Empty /\ seen = writes[s] + 1
      BY <1>9, <2>2 DEF state, seen
    <3> QED BY <1>1, <1>11, <1>12, <2>2, <3>2, <3>3 DEF ResetBy
  <2>3. CASE up /\ ~reset
    <3>1. seen = writes[s] /\ state = loaded /\ UNCHANGED history
      BY <1>1, <1>9, <2>3 DEF state, seen, history
    <3>2. CASE Live(states, s)
      <4>1. states' = states
        BY <1>1, <2>3, <3>2 DEF AfterLoad
      <4>2. states[s] # None
        BY <3>2 DEF Live
      <4> QED BY <1>5, <1>11, <2>3, <3>1, <3>2, <4>1, <4>2 DEF Loaded
    <3>3. CASE ~Live(states, s)
      <4>1. states' = [states EXCEPT ![s] = Stored(Empty)]
        BY <1>1, <2>3, <3>3 DEF AfterLoad, Put
      <4> QED BY <1>4, <1>11, <3>1, <3>3, <4>1 DEF Created
    <3> QED BY <3>2, <3>3
  <2> QED BY <2>1, <2>2, <2>3
<1> QED BY <1>1, <1>3, <1>11, <1>12, <1>13 DEF Joins
(* The others read a checkpoint at most, and nothing is kept of them.          *)
LEMMA OthersJoin ==
  ASSUME Basics, RowsInv, NEW r \in Requests, NEW q \in Sent, NEW up \in BOOLEAN,
         NEW caches, requests[r] = Idle, served < MaxRequests, served' = served + 1,
         now' = now, Database(up),
         ApplyStateless(r, q, up, caches) \/ ApplyClaudeCode(r, q, caches)
  PROVE  \E u : Joins(r, u)
<1> DEFINE s == ExtractOrGenerateScid(q)
<1>1. s \in Scids /\ DOMAIN points = Scids
  BY DEF Scids, Basics
<1>2. failures' \in 0..MaxFailures
  BY ConversationAssumption DEF Database, Basics
<1>3. CASE ApplyStateless(r, q, up, caches)
  <2> DEFINE point == IF up THEN Get(points, s) ELSE None
             sig == Resumed(None, point, caches)
             client == IF point # None /\ sig = None THEN StripOrphanThinkingBlocks(q.messages)
                       ELSE q.messages
             out == Prepare(client, <<>>, sig, q.thinking, caches)
             u == Request(q, None, point, out)
  <2>1. /\ requests' = [requests EXCEPT ![r] = u] /\ UNCHANGED <<states, history>>
        /\ points' = IF up THEN AfterGet(points, s) ELSE points
    BY <1>3 DEF ApplyStateless
  <2>2. point # None => IsPoint(point)
    <3>1. point = None \/ point = points[s]
      BY GetIs
    <3> QED BY <1>1, <3>1 DEF RowsInv
  <2>3. /\ DOMAIN points' = Scids
        /\ \A x \in Scids : points'[x] = points[x] \/ points'[x] = None
    BY <1>1, <2>1, AfterGetIs
  <2> HIDE DEF s, point, out
  <2>4. u = Request(q, None, point, out)
    OBVIOUS
  <2> HIDE DEF u
  <2>5. /\ IsRequest(u, served + 1) /\ u.number = served + 1 /\ u.state = None
        /\ u.s = ExtractOrGenerateScid(q) /\ u.seen = writes[ExtractOrGenerateScid(q)]
    BY <2>2, <2>4, RequestIs
  <2>6. Copyless(u)
    BY <2>1, <2>5 DEF Copyless
  <2> QED BY <1>2, <2>1, <2>3, <2>5, <2>6 DEF Joins
<1>4. CASE ApplyClaudeCode(r, q, caches)
  <2> DEFINE out == RecoverSignaturesForClaudeCode(q.messages, q.thinking, caches).messages
             u == Request(q, None, None, out)
  <2>1. requests' = [requests EXCEPT ![r] = u] /\ UNCHANGED <<tables, history>>
    BY <1>4 DEF ApplyClaudeCode
  <2> HIDE DEF s, out
  <2>2. u = Request(q, None, None, out)
    OBVIOUS
  <2> HIDE DEF u
  <2>3. /\ IsRequest(u, served + 1) /\ u.number = served + 1 /\ u.state = None
        /\ u.s = ExtractOrGenerateScid(q) /\ u.seen = writes[ExtractOrGenerateScid(q)]
    BY <2>2, RequestIs
  <2>4. Copyless(u) /\ points' = points
    BY <2>1, <2>3 DEF Copyless, tables
  <2> QED BY <1>1, <1>2, <2>1, <2>3, <2>4 DEF Joins
<1> QED BY <1>3, <1>4

LEMMA ReceiveJoins ==
  ASSUME IInv, NEW r \in Requests, Receive(r)
  PROVE  \E u : Joins(r, u)
<1>1. PICK q \in Sent, up \in BOOLEAN :
        /\ Database(up)
        /\ \E caches \in KnownCaches :
              CASE q.kind = "stateful" -> ApplyStateful(r, q, up, caches)
                [] q.kind = "stateless" -> ApplyStateless(r, q, up, caches)
                [] q.kind = "claude_code" -> ApplyClaudeCode(r, q, caches)
  BY DEF Receive
<1>2. PICK caches \in KnownCaches :
        CASE q.kind = "stateful" -> ApplyStateful(r, q, up, caches)
          [] q.kind = "stateless" -> ApplyStateless(r, q, up, caches)
          [] q.kind = "claude_code" -> ApplyClaudeCode(r, q, caches)
  BY <1>1
<1>3. \/ ApplyStateful(r, q, up, caches) \/ ApplyStateless(r, q, up, caches)
      \/ ApplyClaudeCode(r, q, caches)
  <2>1. q.kind \in {"stateful", "stateless", "claude_code"}
    BY ConversationAssumption
  <2> QED BY <1>2, <2>1
<1>4. /\ Basics /\ RowsInv /\ requests[r] = Idle /\ served < MaxRequests
      /\ served' = served + 1 /\ now' = now
  BY DEF Receive, IInv
<1>5. CASE ApplyStateful(r, q, up, caches)
  BY <1>1, <1>4, <1>5, StatefulJoins
<1>6. CASE ApplyStateless(r, q, up, caches) \/ ApplyClaudeCode(r, q, caches)
  BY <1>1, <1>4, <1>6, OthersJoin
<1> QED BY <1>3, <1>5, <1>6
-----------------------------------------------------------------------------
(* Later requests leave what an earlier one is.                                *)
LEMMA RequestsStay ==
  ASSUME NEW q, NEW n \in Nat, NEW m \in Nat, n <= m, IsRequest(q, n)
  PROVE  IsRequest(q, m)
<1>1. q.number \in 1..m
  BY DEF IsRequest
<1> QED BY <1>1 DEF IsRequest

LEMMA JoinsKeeps ==
  ASSUME IInv, NEW r \in Requests, NEW q, Joins(r, q)
  PROVE  IInv'
<1> USE DEF IInv
<1>1. /\ q.s \in Scids /\ IsRequest(q, served + 1) /\ q.number = served + 1
      /\ served \in 0..MaxRequests /\ MaxRequests \in Nat
      /\ q # Idle /\ requests[r] = Idle
      /\ requests' = [requests EXCEPT ![r] = q] /\ DOMAIN requests = Requests
      /\ DOMAIN states = Scids
  <2>1. DOMAIN q = Fields /\ DOMAIN Idle = {"kind"}
    BY DEF Joins, IsRequest, Idle
  <2> QED BY <2>1, ConversationAssumption DEF Joins, IsRequest, Basics, Fields
<1>2. /\ requests'[r] = q
      /\ \A x \in Requests : x # r => requests'[x] = requests[x]
  BY <1>1
<1>3. \A s \in Scids :
        /\ states'[s] = states[s] \/ states'[s] = Stored(Empty)
        /\ writes[s] <= writes'[s]
        /\ \/ forgotten'[s] = forgotten[s] /\ ended'[s] = ended[s]
           \/ /\ s = q.s /\ forgotten'[s] = served
              /\ states'[s] = Stored(Empty) /\ points'[s] = None
  BY <1>1 DEF Joins, Unread, Copyless, Loaded, Created, ResetBy, history, Basics
<1>4. /\ DOMAIN states' = Scids /\ writes' \in [Scids -> Nat] /\ forgotten' \in [Scids -> Nat]
      /\ ended' \in [Scids -> {"never", "written", "broken"}]
  BY <1>1 DEF Joins, Unread, Copyless, Loaded, Created, ResetBy, history, Basics
<1>5. IsRow(Stored(Empty)) /\ Stored(Empty).history = <<>>
  BY StoredEmpty
<1>6. Basics'
  BY <1>1, <1>4 DEF Joins, Basics
<1>7. RowsInv'
  <2>1. \A s \in Scids : states'[s] # None => IsRow(states'[s])
    BY <1>3, <1>5 DEF RowsInv
  <2>2. \A s \in Scids : points'[s] # None => IsPoint(points'[s])
    BY DEF Joins, RowsInv
  <2> QED BY <2>1, <2>2 DEF RowsInv
<1>8. RequestsInv'
  <2>1. served' = served + 1
    BY DEF Joins
  <2>2. ASSUME NEW x \in Requests, x # r, requests[x] # Idle
        PROVE  IsRequest(requests[x], served + 1)
    BY <1>1, <2>2, RequestsStay DEF RequestsInv
  <2> QED BY <1>1, <1>2, <2>1, <2>2 DEF RequestsInv
<1>9. PastInv'
  <2>1. served' = served + 1
    BY DEF Joins
  <2>2. \A s \in Scids : forgotten'[s] = 0 \/ forgotten'[s] < served'
    BY <1>1, <1>3, <2>1 DEF PastInv, Basics
  <2>3. q.seen # None => q.seen <= writes'[q.s]
    BY <1>1 DEF Joins, Unread, Copyless, Loaded, Created, ResetBy, history, Basics
  <2>4. ASSUME NEW x \in Requests, x # r, requests[x] # Idle, requests[x].seen # None
        PROVE  requests[x].seen <= writes'[requests[x].s]
    <3>1. /\ requests[x].seen <= writes[requests[x].s] /\ requests[x].s \in Scids
          /\ requests[x].seen \in Nat
      BY <2>4 DEF PastInv, RequestsInv, IsRequest
    <3> QED BY <1>3, <1>4, <3>1 DEF Basics
  <2> QED BY <1>1, <1>2, <2>1, <2>2, <2>3, <2>4 DEF PastInv
<1>10. ForgetInv'
  <2>1. Above(<<>>, served) /\ \A s \in Scids : Above(<<>>, forgotten[s])
    BY EmptyIsKept
  <2> QED BY <1>3, <1>5, <2>1 DEF ForgetInv
<1>11. CopiesInv'
  <2>1. ASSUME q.state # None PROVE Above(q.state.history, forgotten'[q.s])
    <3>1. CASE q.state = Empty
      BY <3>1, EmptyIsKept
    <3>2. CASE Loaded(q)
      BY <1>1, <3>2 DEF Loaded, ForgetInv, history
    <3> QED BY <2>1, <3>1, <3>2 DEF Joins, Unread, Copyless, Created, ResetBy
  <2>2. ASSUME NEW x \in Requests, x # r, requests[x] # Idle, requests[x].state # None,
               requests[x].number > forgotten'[requests[x].s]
        PROVE  Above(requests[x].state.history, forgotten'[requests[x].s])
    <3>1. requests[x].s \in Scids /\ requests[x].number \in 1..served
      BY <2>2 DEF RequestsInv, IsRequest
    <3>2. forgotten'[requests[x].s] = forgotten[requests[x].s]
      BY <1>1, <1>3, <2>2, <3>1
    <3> QED BY <2>2, <3>2 DEF CopiesInv
  <2> QED BY <1>2, <2>1, <2>2 DEF CopiesInv
<1>12. PrefixInv'
  <2>1. ASSUME NEW x \in Requests, requests'[x] # Idle, requests'[x].state # None
        PROVE  IsPrefix(<<>>, requests'[x].state.history)
    <3>1. IsHistory(requests'[x].state.history)
      BY <1>8, <2>1 DEF RequestsInv, IsRequest, IsKept
    <3> QED BY <3>1, PrefixOfItself
  <2>2. ASSUME q.state # None, q.seen = writes'[q.s], states'[q.s] # None
        PROVE  IsPrefix(states'[q.s].history, q.state.history)
    <3>1. CASE Loaded(q)
      <4>1. q.state.history = states[q.s].history /\ states'[q.s] = states[q.s]
        BY <3>1 DEF Loaded
      <4>2. IsHistory(states[q.s].history)
        BY <1>1, <3>1 DEF Loaded, RowsInv, IsRow, IsKept
      <4> QED BY <4>1, <4>2, PrefixOfItself
    <3>2. CASE states'[q.s] = Stored(Empty)
      BY <1>1, <1>2, <1>5, <2>1, <2>2, <3>2
    <3>3. ~Unread(q) /\ ~Copyless(q)
      BY <1>1, <1>4, <2>2, ConversationAssumption DEF Unread, Copyless
    <3> QED BY <1>1, <3>1, <3>2, <3>3 DEF Joins, Created, ResetBy
  <2>3. ASSUME NEW x \in Requests, x # r, requests[x] # Idle, requests[x].state # None,
               requests[x].seen = writes'[requests[x].s], states'[requests[x].s] # None
        PROVE  IsPrefix(states'[requests[x].s].history, requests[x].state.history)
    <3> DEFINE s == requests[x].s
    <3>1. s \in Scids /\ requests[x].seen # None
      BY <1>4, <2>3, ConversationAssumption DEF RequestsInv, IsRequest
    <3>2. CASE states'[s] = Stored(Empty)
      BY <1>2, <1>5, <2>1, <2>3, <3>2
    <3>3. CASE states'[s] = states[s]
      <4>1. writes'[s] = writes[s]
        <5>1. writes[s] <= writes'[s] /\ requests[x].seen <= writes[s]
          BY <1>3, <2>3, <3>1 DEF PastInv
        <5> QED BY <1>4, <2>3, <3>1, <5>1 DEF Basics
      <4> QED BY <2>3, <3>3, <4>1 DEF PrefixInv
    <3> QED BY <1>3, <3>1, <3>2, <3>3
  <2> QED BY <1>2, <2>2, <2>3 DEF PrefixInv
<1>13. EndInv'
  <2>1. ASSUME NEW s \in Scids, ~(\E x \in Requests : Streaming(requests'[x], s))
        PROVE  ~(\E x \in Requests : Streaming(requests[x], s))
    BY <1>1, <1>2, <2>1 DEF Streaming
  <2> QED BY <1>3, <2>1 DEF EndInv, Joins
<1> QED BY <1>6, <1>7, <1>8, <1>9, <1>10, <1>11, <1>12, <1>13
-----------------------------------------------------------------------------
(* A chunk changes what a request has collected, and its checkpoint.           *)
SameRequest(q, u) ==
    /\ DOMAIN u = DOMAIN q /\ u.s = q.s /\ u.kind = q.kind /\ u.state = q.state
    /\ u.new = q.new /\ u.stream = q.stream /\ u.number = q.number /\ u.seen = q.seen

Updated(r, u) ==
    /\ requests[r] # Idle /\ SameRequest(requests[r], u)
    /\ requests[r].stream /\ requests[r].kind # "claude_code"
    /\ IsRequest(u, served) /\ requests' = [requests EXCEPT ![r] = u]
    /\ UNCHANGED <<now, states, served, history>> /\ failures' \in 0..MaxFailures
    /\ DOMAIN points' = Scids
    /\ \A s \in Scids : \/ points'[s] = points[s] \/ points'[s] = None
                        \/ s = u.s /\ IsPoint(points'[s])

LEMMA CheckpointIs ==
  ASSUME Basics, NEW q, NEW sig \in Real \cup {None}, q.number \in 1..served
  PROVE  IsPoint(Checkpoint(q, sig))
<1>1. q.number \in 1..MaxRequests
  BY ConversationAssumption DEF Basics
<1> QED BY <1>1 DEF Checkpoint, IsPoint

LEMMA OwnPointIs ==
  ASSUME RowsInv, NEW q, q.s \in Scids, NEW up, NEW sig \in Real,
         q.point # None => IsPoint(q.point)
  PROVE  /\ OwnPoint(q, up) # None => IsPoint(OwnPoint(q, up))
         /\ Signs(q, up, sig) => IsPoint(Signed(q, up, sig))
<1>1. Get(points, q.s) # None => IsPoint(Get(points, q.s))
  BY GetIs DEF RowsInv
<1>2. OwnPoint(q, up) # None => IsPoint(OwnPoint(q, up))
  BY <1>1 DEF OwnPoint
<1>3. ASSUME Signs(q, up, sig) PROVE IsPoint(Signed(q, up, sig))
  <2>1. IsPoint(OwnPoint(q, up))
    BY <1>2, <1>3 DEF Signs
  <2> DEFINE p == OwnPoint(q, up)
             signed == [p EXCEPT !.sig = sig, !.expires = now + TTL]
  <2>2. Signed(q, up, sig) = signed
    BY DEF Signed
  <2> HIDE DEF p
  <2>3. IsPoint(p)
    BY <2>1 DEF p
  <2>4. DOMAIN signed = DOMAIN p /\ signed.sig = sig /\ signed.by = p.by
    BY <2>3 DEF IsPoint
  <2> HIDE DEF signed
  <2> QED BY <2>2, <2>3, <2>4 DEF IsPoint
<1> QED BY <1>2, <1>3

LEMMA ContentUpdates ==
  ASSUME IInv, NEW r \in Requests, requests[r] # Idle,
         NEW b \in {Answer(requests[r].number)} \cup {Thinking(None, sig) : sig \in Real},
         ContentChunk(r, b)
  PROVE  \E u : Updated(r, u)
<1> DEFINE old == requests[r]
<1>1. PICK up \in BOOLEAN :
         LET q == [requests[r] EXCEPT !.chunks = @ + 1, !.content = Append(@, b),
                                      !.sig = IF IsThinking(b) THEN b.sig ELSE @]
             signs == IsThinking(b) /\ Signs(q, up, b.sig)
             signed == Signed(q, up, b.sig)
             t == IF ~up \/ ~IsThinking(b) THEN points
                  ELSE IF signs THEN Put(points, q.s, signed)
                  ELSE IF q.point = None THEN AfterGet(points, q.s) ELSE points
         IN  /\ Database(up)
             /\ points' = IF ShouldSaveCheckpoint(q.chunks) THEN SaveIntermediateState(t, q, up)
                          ELSE t
             /\ requests' = [requests EXCEPT ![r] =
                   [q EXCEPT !.point = IF signs THEN signed
                                       ELSE IF IsThinking(b) THEN OwnPoint(q, up) ELSE @]]
  BY DEF ContentChunk
<1> DEFINE q == [old EXCEPT !.chunks = @ + 1, !.content = Append(@, b),
                            !.sig = IF IsThinking(b) THEN b.sig ELSE @]
           signs == IsThinking(b) /\ Signs(q, up, b.sig)
           signed == Signed(q, up, b.sig)
           t == IF ~up \/ ~IsThinking(b) THEN points
                ELSE IF signs THEN Put(points, q.s, signed)
                ELSE IF q.point = None THEN AfterGet(points, q.s) ELSE points
           point == IF signs THEN signed ELSE IF IsThinking(b) THEN OwnPoint(q, up) ELSE q.point
           u == [q EXCEPT !.point = point]
<1>2. /\ Database(up) /\ requests' = [requests EXCEPT ![r] = u]
      /\ points' = IF ShouldSaveCheckpoint(q.chunks) THEN SaveIntermediateState(t, q, up) ELSE t
  BY <1>1
<1>3. /\ IsRequest(old, served) /\ DOMAIN old = Fields /\ DOMAIN points = Scids
      /\ Basics /\ RowsInv
  BY DEF IInv, RequestsInv, IsRequest, Basics
<1>4. /\ SameRequest(old, q) /\ q.point = old.point /\ q.content = Append(old.content, b)
      /\ q.sig = IF IsThinking(b) THEN b.sig ELSE old.sig
  BY <1>3 DEF SameRequest, Fields
<1>5. \/ b.type = "text" /\ b.id = old.number /\ ~IsThinking(b)
      \/ b.type = "thinking" /\ IsThinking(b) /\ b.sig \in Real
  BY DEF Answer, Thinking, Block, IsThinking
<1> HIDE DEF q
<1>6. /\ SameRequest(old, u) /\ u.point = point /\ u.content = q.content /\ u.sig = q.sig
  BY <1>3, <1>4 DEF SameRequest, Fields
<1>7. /\ q.s \in Scids /\ q.number \in 1..served /\ q.sig \in Real \cup {None}
      /\ q.point # None => IsPoint(q.point)
  BY <1>3, <1>4, <1>5 DEF SameRequest, IsRequest
<1>8. IsThinking(b) => /\ OwnPoint(q, up) # None => IsPoint(OwnPoint(q, up))
                       /\ signs => IsPoint(signed)
  BY <1>3, <1>5, <1>7, OwnPointIs
<1>9. point # None => IsPoint(point)
  BY <1>7, <1>8
<1>10. /\ IsHistory(q.content)
       /\ \A x \in Messages(q.content) : x.type = "text" => x.id = q.number
  <2>1. /\ IsHistory(old.content) /\ q.number = old.number
        /\ \A x \in Messages(old.content) : x.type = "text" => x.id = old.number
    BY <1>3, <1>4 DEF IsRequest, SameRequest
  <2>2. Messages(q.content) = Messages(old.content) \cup {b} /\ IsHistory(q.content)
    BY <1>4, <2>1, HistoryGrows
  <2> QED BY <1>5, <2>1, <2>2
<1> HIDE DEF old, u, point
<1>11. IsRequest(u, served)
  BY <1>3, <1>4, <1>6, <1>7, <1>9, <1>10 DEF SameRequest, IsRequest
<1>12. IsPoint(Checkpoint(q, q.sig))
  BY <1>3, <1>7, CheckpointIs
<1>13. /\ DOMAIN t = Scids
       /\ \A s \in Scids : \/ t[s] = points[s] \/ t[s] = None
                           \/ s = q.s /\ IsPoint(t[s])
  <2>1. DOMAIN AfterGet(points, q.s) = Scids /\ \A x \in Scids :
             AfterGet(points, q.s)[x] = points[x] \/ AfterGet(points, q.s)[x] = None
    BY <1>3, AfterGetIs
  <2> QED BY <1>3, <1>7, <1>8, <2>1 DEF Put
<1> HIDE DEF t
<1>14. /\ DOMAIN points' = Scids
       /\ \A s \in Scids : \/ points'[s] = points[s] \/ points'[s] = None
                           \/ s = u.s /\ IsPoint(points'[s])
  <2>1. u.s = q.s
    BY <1>4, <1>6 DEF SameRequest
  <2> QED BY <1>2, <1>7, <1>12, <1>13, <2>1 DEF SaveIntermediateState, Put
<1>15. failures' \in 0..MaxFailures
  BY <1>2, <1>3, ConversationAssumption DEF Database, Basics
<1> QED BY <1>2, <1>6, <1>11, <1>14, <1>15 DEF Updated, ContentChunk, Streams, old

(* The other chunks leave what a request says and signs with.                  *)
LEMMA SavedUpdates ==
  ASSUME IInv, NEW r \in Requests, Streams(r), NEW u, SameRequest(requests[r], u),
         u.content = requests[r].content, u.sig = requests[r].sig,
         u.point = requests[r].point, NEW up \in BOOLEAN, Database(up),
         points' = SaveIntermediateState(points, u, up) \/ points' = points,
         requests' = [requests EXCEPT ![r] = u],
         UNCHANGED <<now, states, served, history>>
  PROVE  Updated(r, u)
<1>1. IsRequest(requests[r], served) /\ Basics /\ DOMAIN points = Scids
  BY DEF IInv, RequestsInv, Basics, Streams
<1>2. IsRequest(u, served)
  BY <1>1 DEF SameRequest, IsRequest
<1>3. u.sig \in Real \cup {None} /\ u.number \in 1..served /\ u.s \in Scids
  BY <1>2 DEF IsRequest
<1>4. IsPoint(Checkpoint(u, u.sig))
  BY <1>1, <1>3, CheckpointIs
<1>5. /\ DOMAIN points' = Scids
      /\ \A s \in Scids : points'[s] = points[s] \/ (s = u.s /\ IsPoint(points'[s]))
  BY <1>1, <1>3, <1>4 DEF SaveIntermediateState, Put
<1>6. failures' \in 0..MaxFailures
  BY <1>1, ConversationAssumption DEF Database, Basics
<1> QED BY <1>2, <1>5, <1>6 DEF Updated, Streams

LEMMA ChunkUpdates ==
  ASSUME IInv, NEW r \in Requests, Chunk(r)
  PROVE  \E u : Updated(r, u)
<1> DEFINE old == requests[r]
<1>1. old # Idle /\ DOMAIN old = Fields
  BY DEF Chunk, IInv, RequestsInv, IsRequest
<1>2. ASSUME NEW b \in {Answer(requests[r].number)} \cup {Thinking(None, sig) : sig \in Real},
             ContentChunk(r, b)
      PROVE  \E u : Updated(r, u)
  BY <1>1, <1>2, ContentUpdates
<1>3. ASSUME NEW id, CallChunk(r, id)
      PROVE  \E u : Updated(r, u)
  <2> DEFINE u == [old EXCEPT !.chunks = @ + 1,
                              !.calls = IF Contains(@, id) THEN @ ELSE Append(@, id)]
  <2>1. PICK up \in BOOLEAN : /\ Database(up)
                              /\ points' = SaveIntermediateState(points, u, up)
                              /\ requests' = [requests EXCEPT ![r] = u]
    BY <1>3 DEF CallChunk
  <2>2. /\ SameRequest(requests[r], u) /\ u.content = requests[r].content
        /\ u.sig = requests[r].sig /\ u.point = requests[r].point
    BY <1>1 DEF SameRequest, Fields
  <2>3. Streams(r) /\ UNCHANGED <<now, states, served, history>>
    BY <1>3 DEF CallChunk
  <2> HIDE DEF u
  <2> QED BY <2>1, <2>2, <2>3, SavedUpdates
<1>4. ASSUME NEW failed \in BOOLEAN, LastChunk(r, failed)
      PROVE  \E u : Updated(r, u)
  <2> DEFINE u == [old EXCEPT !.chunks = @ + 1, !.failed = @ \/ failed,
                              !.finished = @ \/ ~failed]
  <2>1. PICK up \in BOOLEAN :
          /\ Database(up)
          /\ points' = IF ShouldSaveCheckpoint(u.chunks) THEN SaveIntermediateState(points, u, up)
                       ELSE points
          /\ requests' = [requests EXCEPT ![r] = u]
    BY <1>4 DEF LastChunk
  <2>2. /\ SameRequest(requests[r], u) /\ u.content = requests[r].content
        /\ u.sig = requests[r].sig /\ u.point = requests[r].point
    BY <1>1 DEF SameRequest, Fields
  <2>3. Streams(r) /\ UNCHANGED <<now, states, served, history>>
    BY <1>4 DEF LastChunk
  <2> HIDE DEF u
  <2> QED BY <2>1, <2>2, <2>3, SavedUpdates
<1> QED BY <1>2, <1>3, <1>4 DEF Chunk

LEMMA UpdatedKeeps ==
  ASSUME IInv, NEW r \in Requests, NEW q, Updated(r, q)
  PROVE  IInv'
<1> USE DEF IInv
<1>1. /\ q.s \in Scids /\ IsRequest(q, served) /\ q # Idle
      /\ requests'[r] = q /\ DOMAIN requests' = Requests
      /\ \A x \in Requests : x # r => requests'[x] = requests[x]
  <2>1. DOMAIN q = Fields /\ DOMAIN Idle = {"kind"}
    BY DEF Updated, IsRequest, Idle
  <2> QED BY <2>1 DEF Updated, IsRequest, Basics, Fields
<1>2. /\ now' = now /\ states' = states /\ served' = served /\ writes' = writes
      /\ forgotten' = forgotten /\ ended' = ended
  BY DEF Updated, history
<1>3. Basics'
  BY <1>1, <1>2 DEF Updated, Basics
<1>4. RowsInv' /\ RequestsInv'
  BY <1>1, <1>2 DEF Updated, RowsInv, RequestsInv
<1>5. PastInv' /\ ForgetInv'
  BY <1>1, <1>2 DEF PastInv, ForgetInv, Updated, SameRequest
<1>6. CopiesInv' /\ PrefixInv'
  BY <1>1, <1>2 DEF CopiesInv, PrefixInv, Updated, SameRequest
<1>7. EndInv'
  <2>1. ASSUME NEW s \in Scids, ~(\E x \in Requests : Streaming(requests'[x], s))
        PROVE  s # q.s /\ ~(\E x \in Requests : Streaming(requests[x], s))
    <3>1. q.stream /\ q.kind # "claude_code" /\ requests[r].s = q.s
      <4>1. requests[r].stream /\ q.stream = requests[r].stream
        BY DEF Updated, SameRequest
      <4> QED BY <4>1 DEF Updated, SameRequest
    <3>2. Streaming(requests'[r], q.s)
      BY <1>1, <3>1 DEF Streaming
    <3>3. s # q.s
      BY <2>1, <3>2
    <3>4. ASSUME NEW x \in Requests PROVE ~Streaming(requests[x], s)
      <4>1. CASE x = r
        BY <3>1, <3>3, <4>1 DEF Streaming
      <4>2. CASE x # r
        BY <1>1, <2>1, <4>2
      <4> QED BY <4>1, <4>2
    <3> QED BY <3>3, <3>4
  <2> QED BY <1>2, <2>1 DEF EndInv, Updated
<1> QED BY <1>3, <1>4, <1>5, <1>6, <1>7
-----------------------------------------------------------------------------
(* A request leaves: its turn is written behind its copy, or nothing is.       *)
Wrote(q) ==
    /\ q.state # None
    /\ \E row : /\ states' = [states EXCEPT ![q.s] = row] /\ IsRow(row)
                /\ \A p : IsHistory(p) /\ IsPrefix(p, q.state.history) => IsPrefix(p, row.history)
                /\ \A n \in Nat : n < q.number /\ Above(q.state.history, n) => Above(row.history, n)
    /\ writes' = [writes EXCEPT ![q.s] = @ + 1]
    /\ forgotten' = IF q.number > forgotten[q.s] THEN forgotten
                    ELSE [forgotten EXCEPT ![q.s] = 0]

Left(r, q) ==
    /\ requests[r] # Idle /\ SameRequest(requests[r], q)
    /\ requests' = [requests EXCEPT ![r] = Idle]
    /\ UNCHANGED <<now, served>> /\ failures' \in 0..MaxFailures
    /\ Wrote(q) \/ UNCHANGED <<states, writes, forgotten>>
    /\ DOMAIN points' = Scids
    /\ \A s \in Scids : points'[s] = points[s] \/ points'[s] = None
    /\ ended' \in [Scids -> {"never", "written", "broken"}]
    /\ \A s \in Scids : ended'[s] = "written"
         => points'[s] = None \/ (ended[s] = "written" /\ ~Streaming(requests[r], s))

LEMMA UpdateIs ==
  ASSUME NEW state, NEW new, NEW response, NEW sig, NEW g,
         g = UpdateAuthoritativeHistory(state, new, response, sig)
  PROVE  /\ g.history = AppendNew(state.history, Append(new, response))
         /\ g.sig = IF sig = None THEN state.sig ELSE sig
  BY DEF UpdateAuthoritativeHistory

LEMMA WriteBackWrites ==
  ASSUME Basics, NEW q, IsRequest(q, served), NEW up \in BOOLEAN, NEW response,
         response.role = "assistant", Number(response) \in {None, q.number},
         WriteBack(q, response, up)
  PROVE  Wrote(q) \/ UNCHANGED <<states, writes, forgotten>>
<1> SUFFICES ASSUME q.state # None, up PROVE Wrote(q)
    BY DEF WriteBack
<1> DEFINE ms == Append(q.new, response)
           g == UpdateAuthoritativeHistory(q.state, q.new, response, q.sig)
           h == AppendNew(q.state.history, ms)
           row == Stored(g)
<1>1. /\ states' = [states EXCEPT ![q.s] = row]
      /\ writes' = [writes EXCEPT ![q.s] = @ + 1]
      /\ forgotten' = IF q.number > forgotten[q.s] THEN forgotten
                      ELSE [forgotten EXCEPT ![q.s] = 0]
  BY DEF WriteBack, Put
<1>2. g.history = h /\ g.sig = IF q.sig = None THEN q.state.sig ELSE q.sig
  BY UpdateIs
<1>3. /\ IsKept(q.state.history) /\ q.state.sig \in Real \cup {None}
      /\ q.sig \in Real \cup {None} /\ q.number \in Nat /\ q.number > 0
      /\ IsHistory(q.new) /\ \A m \in Messages(q.new) : m.role = "user"
  BY DEF IsRequest
<1>4. IsHistory(ms) /\ Messages(ms) = Messages(q.new) \cup {response}
  BY <1>3, HistoryGrows
<1>5. /\ IsHistory(h) /\ Messages(h) \subseteq Messages(q.state.history) \cup Messages(ms)
      /\ \A p : IsHistory(p) /\ IsPrefix(p, q.state.history) => IsPrefix(p, h)
  BY <1>3, <1>4, AppendsNew DEF IsKept
<1> HIDE DEF ms, g, h
<1>6. ASSUME NEW m \in Messages(h)
      PROVE  \/ m \in Messages(q.state.history)
             \/ m.role \in {"user", "assistant"} /\ Number(m) \in {None, q.number}
  <2>1. m \in Messages(q.state.history) \/ m \in Messages(q.new) \/ m = response
    BY <1>4, <1>5
  <2>2. CASE m \in Messages(q.new)
    BY <1>3, <2>2 DEF Number
  <2> QED BY <2>1, <2>2
<1>7. ASSUME NEW n \in Nat, n < q.number, Above(q.state.history, n)
      PROVE  Above(h, n)
  BY <1>3, <1>6, <1>7 DEF Above
<1>8. IsKept(h)
  <2>1. Above(h, 0)
    BY <1>3, <1>7 DEF IsKept
  <2> QED BY <1>3, <1>5, <1>6, <2>1 DEF IsKept
<1>9. row.history = h /\ IsRow(row)
  <2>1. row.history = h /\ row.sig = g.sig /\ row.expires = now + TTL
    BY <1>2 DEF Stored
  <2>2. now + TTL \in 1..(MaxTime + TTL)
    BY ConversationAssumption DEF Basics
  <2> QED BY <1>2, <1>3, <1>8, <2>1, <2>2 DEF IsRow
<1> HIDE DEF row
<1> QED BY <1>1, <1>5, <1>7, <1>9 DEF Wrote

(* What a model has said has the number of its request.                        *)
LEMMA ResponseIs ==
  ASSUME NEW q, IsRequest(q, served)
  PROVE  Response(q).role = "assistant" /\ Number(Response(q)) \in {None, q.number}
<1> DEFINE m == Response(q)
<1>1. m.role = "assistant" /\ m.content = q.content
  BY DEF Response, Message
<1>2. ASSUME NEW b \in Blocks(m, "text") PROVE b.id = q.number
  <2>1. b \in Messages(q.content) /\ b.type = "text"
    BY <1>1 DEF Blocks, Messages
  <2> QED BY <2>1 DEF IsRequest
<1> HIDE DEF m
<1>3. Number(m) \in {None, q.number}
  BY <1>2 DEF Number
<1> QED BY <1>1, <1>3 DEF m

LEMMA AnswerIs ==
  ASSUME NEW n
  PROVE  LET m == Message("assistant", <<Answer(n)>>)
         IN  m.role = "assistant" /\ Number(m) \in {None, n}
<1> DEFINE m == Message("assistant", <<Answer(n)>>)
<1>1. m.role = "assistant" /\ m.content = <<Answer(n)>> /\ Answer(n).id = n
  BY DEF Message, Answer, Block
<1>2. ASSUME NEW b \in Blocks(m, "text") PROVE b.id = n
  BY <1>1 DEF Blocks
<1> HIDE DEF m
<1>3. Number(m) \in {None, n}
  BY <1>2 DEF Number
<1> QED BY <1>1, <1>3 DEF m

LEMMA EndLeaves ==
  ASSUME IInv, NEW r \in Requests, EndStream(r)
  PROVE  \E q : Left(r, q)
<1> DEFINE q == requests[r]
           writes_back == q.finished /\ ~q.failed /\ HasCollected(q) /\ q.kind # "claude_code"
<1>1. IsRequest(q, served) /\ q.s \in Scids /\ Basics
  BY DEF EndStream, IInv, RequestsInv, IsRequest
<1>2. SameRequest(q, q)
  BY DEF SameRequest
<1>3. CASE writes_back
  <2>1. PICK up \in BOOLEAN :
          /\ Database(up) /\ WriteBack(q, Response(q), up)
          /\ points' = ClearCheckpoint(points, q.s, up)
          /\ ended' = [ended EXCEPT ![q.s] = IF up THEN "written" ELSE "broken"]
    BY <1>3 DEF EndStream
  <2>2. Response(q).role = "assistant" /\ Number(Response(q)) \in {None, q.number}
    BY <1>1, ResponseIs
  <2>3. Wrote(q) \/ UNCHANGED <<states, writes, forgotten>>
    BY <1>1, <2>1, <2>2, WriteBackWrites
  <2>4. /\ DOMAIN points' = Scids
        /\ \A s \in Scids : points'[s] = points[s] \/ points'[s] = None
        /\ ended' \in [Scids -> {"never", "written", "broken"}]
        /\ \A s \in Scids : /\ s = q.s /\ ended'[s] = "written" => points'[s] = None
                            /\ s # q.s => ended'[s] = ended[s]
    BY <1>1, <2>1 DEF ClearCheckpoint, DeleteRow, Basics
  <2>5. failures' \in 0..MaxFailures
    BY <1>1, <2>1, ConversationAssumption DEF Database, Basics
  <2> QED BY <1>2, <2>3, <2>4, <2>5 DEF EndStream, Left, Streaming
<1>4. CASE ~writes_back
  <2>1. /\ ended' = IF q.kind = "claude_code" THEN ended ELSE [ended EXCEPT ![q.s] = "broken"]
        /\ UNCHANGED <<tables, writes, forgotten, failures>>
    BY <1>4 DEF EndStream
  <2>2. /\ ended' \in [Scids -> {"never", "written", "broken"}]
        /\ \A s \in Scids : ended'[s] = "written"
             => ended[s] = "written" /\ (s = q.s => q.kind = "claude_code")
    BY <1>1, <2>1 DEF Basics
  <2> QED BY <1>1, <1>2, <2>1, <2>2 DEF EndStream, Left, Streaming, tables, Basics
<1> QED BY <1>3, <1>4

LEMMA AnswerLeaves ==
  ASSUME IInv, NEW r \in Requests, AnswerWhole(r)
  PROVE  \E q : Left(r, q)
<1> DEFINE old == requests[r]
<1>1. IsRequest(old, served) /\ DOMAIN old = Fields /\ Basics
  BY DEF AnswerWhole, IInv, RequestsInv, IsRequest
<1>2. /\ old # Idle /\ ~old.stream /\ requests' = [requests EXCEPT ![r] = Idle]
      /\ UNCHANGED <<now, points, served, ended>>
  BY DEF AnswerWhole
<1>3. CASE UNCHANGED <<states, writes, forgotten, failures>>
  <2>1. SameRequest(old, old)
    BY DEF SameRequest
  <2> QED BY <1>1, <1>2, <1>3, <2>1 DEF Left, Streaming, Basics
<1>4. CASE \E sig \in Real \cup {None}, up \in BOOLEAN :
             LET q == [old EXCEPT !.sig = sig]
             IN  /\ Database(up)
                 /\ q.kind # "claude_code"
                 /\ WriteBack(q, Message("assistant", <<Answer(q.number)>>), up)
  <2>1. PICK sig \in Real \cup {None}, up \in BOOLEAN :
             LET q == [old EXCEPT !.sig = sig]
             IN  Database(up) /\ WriteBack(q, Message("assistant", <<Answer(q.number)>>), up)
    BY <1>4
  <2> DEFINE q == [old EXCEPT !.sig = sig]
             m == Message("assistant", <<Answer(q.number)>>)
  <2>2. Database(up) /\ WriteBack(q, m, up)
    BY <2>1
  <2>3. SameRequest(old, q) /\ q.sig = sig /\ q.point = old.point /\ q.content = old.content
    BY <1>1 DEF SameRequest, Fields
  <2> HIDE DEF q
  <2>4. IsRequest(q, served)
    BY <1>1, <2>3 DEF SameRequest, IsRequest
  <2>5. m.role = "assistant" /\ Number(m) \in {None, q.number}
    BY AnswerIs
  <2> HIDE DEF m
  <2>6. Wrote(q) \/ UNCHANGED <<states, writes, forgotten>>
    BY <1>1, <2>2, <2>4, <2>5, WriteBackWrites
  <2>7. failures' \in 0..MaxFailures
    BY <1>1, <2>2, ConversationAssumption DEF Database, Basics
  <2> QED BY <1>1, <1>2, <2>3, <2>6, <2>7 DEF Left, Streaming, Basics
<1> QED BY <1>3, <1>4 DEF AnswerWhole

LEMMA LeftKeeps ==
  ASSUME IInv, NEW r \in Requests, NEW q, Left(r, q)
  PROVE  IInv'
<1> USE DEF IInv
<1>1. /\ q.s \in Scids /\ IsRequest(requests[r], served) /\ SameRequest(requests[r], q)
      /\ requests'[r] = Idle /\ DOMAIN requests' = Requests
      /\ \A x \in Requests : x # r => requests'[x] = requests[x]
  <2>1. IsRequest(requests[r], served) /\ requests' = [requests EXCEPT ![r] = Idle]
    BY DEF Left, RequestsInv
  <2> QED BY <2>1 DEF Left, IsRequest, SameRequest, Basics
<1>2. /\ now' = now /\ served' = served /\ q.number \in 1..served
      /\ q.state # None => IsKept(q.state.history)
  BY <1>1 DEF Left, SameRequest, IsRequest
<1>3. \A s \in Scids :
        \/ states'[s] = states[s] /\ writes'[s] = writes[s] /\ forgotten'[s] = forgotten[s]
        \/ /\ s = q.s /\ Wrote(q) /\ writes'[s] = writes[s] + 1
           /\ IsRow(states'[s])
           /\ forgotten'[s] = IF q.number > forgotten[s] THEN forgotten[s] ELSE 0
  BY <1>1 DEF Left, Wrote, Basics
<1>4. /\ DOMAIN states' = Scids /\ writes' \in [Scids -> Nat] /\ forgotten' \in [Scids -> Nat]
  BY <1>1 DEF Left, Wrote, Basics
<1>5. Basics'
  BY <1>1, <1>2, <1>4 DEF Left, Basics
<1>6. RowsInv' /\ RequestsInv'
  BY <1>1, <1>2, <1>3 DEF Left, RowsInv, RequestsInv
<1>7. PastInv'
  <2>1. \A s \in Scids : forgotten'[s] = 0 \/ forgotten'[s] < served
    BY <1>3 DEF PastInv
  <2>2. served # 0
    BY <1>2 DEF Basics
  <2>3. ASSUME NEW x \in Requests, x # r, requests[x] # Idle, requests[x].seen # None
        PROVE  requests[x].seen <= writes'[requests[x].s]
    <3>1. /\ requests[x].seen <= writes[requests[x].s] /\ requests[x].s \in Scids
          /\ requests[x].seen \in Nat
      BY <2>3 DEF PastInv, RequestsInv, IsRequest
    <3> QED BY <1>3, <1>4, <3>1 DEF Basics
  <2> QED BY <1>1, <1>2, <2>1, <2>2, <2>3 DEF PastInv
<1>8. ForgetInv'
  <2>1. ASSUME Wrote(q) PROVE Above(states'[q.s].history, forgotten'[q.s])
    <3>1. PICK row : /\ states' = [states EXCEPT ![q.s] = row] /\ IsRow(row)
                     /\ \A n \in Nat : n < q.number /\ Above(q.state.history, n)
                                         => Above(row.history, n)
      BY <2>1 DEF Wrote
    <3>2. states'[q.s] = row
      BY <1>1, <3>1 DEF Basics
    <3>3. forgotten'[q.s] = IF q.number > forgotten[q.s] THEN forgotten[q.s] ELSE 0
      BY <1>1, <2>1 DEF Wrote, Basics
    <3>4. Above(row.history, 0)
      BY <3>1 DEF IsRow, IsKept
    <3>5. CASE q.number > forgotten[q.s]
      <4>1. Above(q.state.history, forgotten[q.s])
        BY <1>1, <2>1, <3>5 DEF CopiesInv, Left, SameRequest, Wrote
      <4> QED BY <1>1, <1>2, <3>1, <3>2, <3>3, <3>5, <4>1 DEF Basics
    <3> QED BY <3>2, <3>3, <3>4, <3>5
  <2> QED BY <1>3, <2>1 DEF ForgetInv
<1>9. CopiesInv'
  <2>1. ASSUME NEW x \in Requests, x # r, requests[x] # Idle, requests[x].state # None,
               requests[x].number > forgotten'[requests[x].s]
        PROVE  Above(requests[x].state.history, forgotten'[requests[x].s])
    <3>1. requests[x].s \in Scids /\ Above(requests[x].state.history, 0)
      BY <2>1 DEF RequestsInv, IsRequest, IsKept
    <3> QED BY <1>3, <2>1, <3>1 DEF CopiesInv
  <2> QED BY <1>1, <2>1 DEF CopiesInv
<1>10. PrefixInv'
  <2>1. ASSUME NEW x \in Requests, x # r, requests[x] # Idle, requests[x].state # None,
               requests[x].seen = writes'[requests[x].s], states'[requests[x].s] # None
        PROVE  IsPrefix(states'[requests[x].s].history, requests[x].state.history)
    <3>1. requests[x].s \in Scids /\ requests[x].seen # None
      BY <1>4, <2>1, ConversationAssumption DEF RequestsInv, IsRequest
    <3>2. requests[x].seen <= writes[requests[x].s]
      BY <2>1, <3>1 DEF PastInv
    <3>3. /\ states'[requests[x].s] = states[requests[x].s]
          /\ writes'[requests[x].s] = writes[requests[x].s]
      BY <1>3, <2>1, <3>1, <3>2 DEF Basics
    <3> QED BY <2>1, <3>3 DEF PrefixInv
  <2> QED BY <1>1, <2>1 DEF PrefixInv
<1>11. EndInv'
  <2>1. ASSUME NEW s \in Scids, ended'[s] = "written",
               ~(\E x \in Requests : Streaming(requests'[x], s)), points'[s] # None
        PROVE  FALSE
    <3>1. ended[s] = "written" /\ ~Streaming(requests[r], s) /\ points[s] # None
      BY <2>1 DEF Left
    <3>2. \A x \in Requests : ~Streaming(requests[x], s)
      BY <1>1, <2>1, <3>1
    <3> QED BY <3>1, <3>2 DEF EndInv
  <2> QED BY <2>1 DEF EndInv
<1> QED BY <1>5, <1>6, <1>7, <1>8, <1>9, <1>10, <1>11
-----------------------------------------------------------------------------
LEMMA CleanupKeeps == IInv /\ CleanupExpired => IInv'
<1> SUFFICES ASSUME IInv, CleanupExpired PROVE IInv'
    OBVIOUS
<1> USE DEF IInv
<1>1. /\ now' = now /\ requests' = requests /\ served' = served /\ failures' = failures
      /\ writes' = writes /\ forgotten' = forgotten /\ ended' = ended
  BY DEF CleanupExpired, history
<1>2. /\ DOMAIN states' = Scids /\ DOMAIN points' = Scids
      /\ \A s \in Scids : /\ states'[s] = states[s] \/ states'[s] = None
                          /\ points'[s] = points[s] \/ points'[s] = None
  BY GetIs DEF CleanupExpired
<1>3. Basics' /\ RowsInv' /\ RequestsInv'
  BY <1>1, <1>2 DEF Basics, RowsInv, RequestsInv
<1>4. PastInv' /\ ForgetInv' /\ CopiesInv'
  BY <1>1, <1>2 DEF PastInv, ForgetInv, CopiesInv
<1>5. PrefixInv'
  BY <1>1, <1>2 DEF PrefixInv, RequestsInv, IsRequest
<1>6. EndInv'
  BY <1>1, <1>2 DEF EndInv, Streaming
<1> QED BY <1>3, <1>4, <1>5, <1>6

LEMMA RestartKeeps == IInv /\ Restart => IInv'
<1> SUFFICES ASSUME IInv, Restart PROVE IInv'
    OBVIOUS
<1> USE DEF IInv
<1>1. /\ now' = now /\ states' = states /\ points' = points /\ served' = served
      /\ failures' = failures /\ writes' = writes /\ forgotten' = forgotten
      /\ DOMAIN requests' = Requests /\ \A r \in Requests : requests'[r] = Idle
  BY DEF Restart, tables
<1>2. /\ ended' \in [Scids -> {"never", "written", "broken"}]
      /\ \A s \in Scids : ended'[s] = "written"
           => ended[s] = "written" /\ ~(\E r \in Requests : Streaming(requests[r], s))
  BY DEF Restart, Basics, Streaming
<1>3. Basics' /\ RowsInv' /\ RequestsInv'
  BY <1>1, <1>2 DEF Basics, RowsInv, RequestsInv
<1>4. PastInv' /\ ForgetInv' /\ CopiesInv' /\ PrefixInv'
  BY <1>1 DEF PastInv, ForgetInv, CopiesInv, PrefixInv
<1>5. EndInv'
  BY <1>1, <1>2 DEF EndInv
<1> QED BY <1>3, <1>4, <1>5

LEMMA TickKeeps == IInv /\ (Tick \/ UNCHANGED vars) => IInv'
<1> SUFFICES ASSUME IInv, Tick \/ UNCHANGED vars PROVE IInv'
    OBVIOUS
<1> USE DEF IInv
<1>1. /\ states' = states /\ points' = points /\ requests' = requests /\ served' = served
      /\ failures' = failures /\ writes' = writes /\ forgotten' = forgotten /\ ended' = ended
  BY DEF Tick, vars, tables, history
<1>2. now' \in 1..MaxTime
  BY ConversationAssumption DEF Tick, vars, Basics
<1>3. Basics' /\ RowsInv' /\ RequestsInv'
  BY <1>1, <1>2 DEF Basics, RowsInv, RequestsInv
<1>4. PastInv' /\ ForgetInv' /\ CopiesInv' /\ PrefixInv' /\ EndInv'
  BY <1>1 DEF PastInv, ForgetInv, CopiesInv, PrefixInv, EndInv, Streaming
<1> QED BY <1>3, <1>4

LEMMA NextKeeps == IInv /\ [Next]_vars => IInv'
<1> SUFFICES ASSUME IInv, [Next]_vars PROVE IInv'
    OBVIOUS
<1>1. ASSUME NEW r \in Requests, Receive(r) PROVE IInv'
  BY <1>1, ReceiveJoins, JoinsKeeps
<1>2. ASSUME NEW r \in Requests, Chunk(r) PROVE IInv'
  BY <1>2, ChunkUpdates, UpdatedKeeps
<1>3. ASSUME NEW r \in Requests, EndStream(r) \/ AnswerWhole(r) PROVE IInv'
  BY <1>3, EndLeaves, AnswerLeaves, LeftKeeps
<1> QED BY <1>1, <1>2, <1>3, CleanupKeeps, RestartKeeps, TickKeeps DEF Next

LEMMA Invariant == Spec => []IInv
<1> QED BY StartsRight, NextKeeps, PTL DEF Spec
-----------------------------------------------------------------------------
(* The rows of both tables, the requests on their way and what is remembered   *)
(* of streams are what the managers write (TypeOK).                            *)
THEOREM TypeCorrect == Spec => []TypeOK
<1>1. IInv => TypeOK
  BY DEF IInv, Basics, RowsInv, IsRow, IsPoint, IsKept, RequestsInv, IsRequest, TypeOK
<1> QED BY <1>1, Invariant, PTL

(* What was said before a reset stays out of the conversation, in whatever     *)
(* order requests from before it and after it read and write                   *)
(* (ResetForgets).                                                             *)
THEOREM OldChatIsGone == Spec => []ResetForgets
<1>1. IInv => ResetForgets
  BY DEF IInv, ForgetInv, Above, ResetForgets
<1> QED BY <1>1, Invariant, PTL

(* No checkpoint is left behind by streams that have been written back         *)
(* (CheckpointsEnd).                                                           *)
THEOREM NothingToResume == Spec => []CheckpointsEnd
<1>1. ASSUME NEW s, NEW q, Streaming(q, s) PROVE q # Idle /\ q.s = s /\ q.stream
  BY <1>1 DEF Streaming
<1>2. IInv => CheckpointsEnd
  BY <1>1 DEF IInv, EndInv, CheckpointsEnd
<1> QED BY <1>2, Invariant, PTL

(* A step that writes a conversation extends it, or a reset or a writer with   *)
(* an old copy is the reason that it does not (TurnsAreKept).                  *)
Kept(s) ==
    /\ Live(states, s) /\ states'[s] # None
    /\ ~IsPrefix(states[s].history, states'[s].history)
    => \/ forgotten'[s] # forgotten[s]
       \/ \E r \in Requests : Writer(r, s) /\ requests[r].seen # writes[s]

LEMMA SameRowKept ==
  ASSUME IInv, NEW s \in Scids, states'[s] = states[s] \/ states'[s] = None
  PROVE  Kept(s)
<1>1. Live(states, s) => IsHistory(states[s].history)
  BY DEF Live, IInv, RowsInv, IsRow, IsKept
<1> QED BY <1>1, PrefixOfItself DEF Kept

LEMMA JoinsKeepsTurns ==
  ASSUME IInv, NEW r \in Requests, NEW q, Joins(r, q), NEW s \in Scids
  PROVE  Kept(s)
<1>1. q.s \in Scids /\ DOMAIN states = Scids /\ DOMAIN forgotten = Scids
  BY DEF Joins, IsRequest, IInv, Basics
<1>2. CASE Unread(q) \/ Copyless(q) \/ Loaded(q)
  BY <1>2, SameRowKept DEF Unread, Copyless, Loaded
<1>3. CASE Created(q)
  <2>1. CASE s = q.s
    BY <1>3, <2>1 DEF Created, Kept
  <2>2. CASE s # q.s
    BY <1>1, <1>3, <2>2, SameRowKept DEF Created
  <2> QED BY <2>1, <2>2
<1>4. CASE ResetBy(q)
  <2>1. CASE s = q.s
    <3>1. Live(states, s) => forgotten[s] < served
      BY DEF Live, IInv, PastInv, Basics
    <3>2. forgotten'[s] = served
      BY <1>1, <1>4, <2>1 DEF ResetBy
    <3>3. served \in Nat /\ forgotten[s] \in Nat
      BY ConversationAssumption DEF IInv, Basics
    <3> QED BY <3>1, <3>2, <3>3 DEF Kept
  <2>2. CASE s # q.s
    BY <1>1, <1>4, <2>2, SameRowKept DEF ResetBy
  <2> QED BY <2>1, <2>2
<1> QED BY <1>2, <1>3, <1>4 DEF Joins

LEMMA LeftKeepsTurns ==
  ASSUME IInv, NEW r \in Requests, NEW q, Left(r, q), NEW s \in Scids
  PROVE  Kept(s)
<1>1. q.s \in Scids /\ DOMAIN states = Scids /\ requests'[r] = Idle
  BY DEF Left, SameRequest, IInv, RequestsInv, IsRequest, Basics
<1>2. CASE UNCHANGED <<states, writes, forgotten>>
  BY <1>2, SameRowKept
<1>3. CASE Wrote(q) /\ s # q.s
  BY <1>1, <1>3, SameRowKept DEF Wrote
<1>4. CASE Wrote(q) /\ s = q.s
  <2>1. PICK row : /\ states' = [states EXCEPT ![q.s] = row]
                   /\ \A p : IsHistory(p) /\ IsPrefix(p, q.state.history)
                               => IsPrefix(p, row.history)
    BY <1>4 DEF Wrote
  <2>2. states'[s] = row
    BY <1>1, <1>4, <2>1
  <2>3. /\ requests[r] # Idle /\ requests[r].s = s /\ requests[r].state = q.state
        /\ q.state # None
    BY <1>4 DEF Left, SameRequest, Wrote
  <2>4. CASE requests[r].seen # writes[s]
    BY <1>1, <2>3, <2>4 DEF Kept, Writer
  <2>5. CASE requests[r].seen = writes[s]
    <3>1. ASSUME states[s] # None
          PROVE  IsPrefix(states[s].history, q.state.history) /\ IsHistory(states[s].history)
      BY <2>3, <2>5, <3>1 DEF IInv, PrefixInv, RowsInv, IsRow, IsKept
    <3> QED BY <2>1, <2>2, <3>1 DEF Kept, Live
  <2> QED BY <2>4, <2>5
<1> QED BY <1>2, <1>3, <1>4 DEF Left

LEMMA NextKeepsTurns == IInv /\ [Next]_vars => \A s \in Scids : Kept(s)
<1> SUFFICES ASSUME IInv, [Next]_vars, NEW s \in Scids PROVE Kept(s)
    OBVIOUS
<1>1. ASSUME NEW r \in Requests, Receive(r) PROVE Kept(s)
  BY <1>1, ReceiveJoins, JoinsKeepsTurns
<1>2. ASSUME NEW r \in Requests, Chunk(r) PROVE Kept(s)
  <2>1. states' = states
    BY <1>2, ChunkUpdates DEF Updated
  <2> QED BY <2>1, SameRowKept
<1>3. ASSUME NEW r \in Requests, EndStream(r) \/ AnswerWhole(r) PROVE Kept(s)
  BY <1>3, EndLeaves, AnswerLeaves, LeftKeepsTurns
<1>4. CASE CleanupExpired
  BY <1>4, GetIs, SameRowKept DEF CleanupExpired
<1>5. CASE Restart \/ Tick \/ UNCHANGED vars
  BY <1>5, SameRowKept DEF Restart, Tick, vars, tables
<1> QED BY <1>1, <1>2, <1>3, <1>4, <1>5 DEF Next

THEOREM TurnsOnlyAdded == Spec => TurnsAreKept
<1> DEFINE Good == \A s \in Scids : Kept(s)
<1>1. IInv /\ [Next]_vars => [Good]_vars
  BY NextKeepsTurns
<1>2. [Good]_vars => [\A s \in Scids :
         /\ Live(states, s) /\ states'[s] # None
         /\ ~IsPrefix(states[s].history, states'[s].history)
         => \/ forgotten'[s] # forgotten[s]
            \/ \E r \in Requests : Writer(r, s) /\ requests[r].seen # writes[s]]_vars
  BY DEF Kept
<1> QED BY <1>1, <1>2, Invariant, PTL DEF Spec, TurnsAreKept
=============================================================================
