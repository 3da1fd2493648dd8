------------------------- MODULE RequestPipelineProofs -------------------------
(* The thinking, and the calls and results, of a conversation on its way to a   *)
(* backend.  First what each operation makes of a message and a history, then   *)
(* an invariant of types and signatures; then, from "A history is read message  *)
(* by message" on, what the operations leave of the chains of calls and         *)
(* results, and the invariant of those.                                         *)
EXTENDS RequestPipeline, SelectionProofs, FiniteSetTheorems, TLAPS

-----------------------------------------------------------------------------
(* Sequences.                                                                   *)

(* A set of numbers up to some limit has a greatest one, or none.               *)
LEMMA Greatest ==
  ASSUME NEW n \in Nat, NEW T \in SUBSET (0..n), T # {}
  PROVE  \E m \in T : \A k \in T : k <= m
<1> DEFINE below == {j \in 0..n : n - j \in T}
<1>1. PICK t \in T : TRUE
  OBVIOUS
<1>2. n - t \in below /\ below \in SUBSET Nat
  BY <1>1
<1>3. PICK j \in below : \A k \in below : j <= k
  BY <1>2, Least
<1>4. n - j \in T
  BY <1>3
<1>5. ASSUME NEW k \in T PROVE k <= n - j
  <2>1. n - k \in below
    OBVIOUS
  <2> QED BY <1>3, <2>1
<1> QED BY <1>4, <1>5

LEMMA MaxIs ==
  ASSUME NEW n \in Nat, NEW T \in SUBSET (1..n), T # {}
  PROVE  Max(T) \in T /\ \A k \in T : k <= Max(T)
<1>1. PICK m \in T : \A k \in T : k <= m
  <2>1. T \in SUBSET (0..n)
    OBVIOUS
  <2> QED BY <2>1, Greatest
<1>2. \A k \in T : m >= k
  BY <1>1
<1>3. Max(T) \in T /\ \A k \in T : Max(T) >= k
  BY <1>2 DEF Max
<1> QED BY <1>3

(* What holds of the first of a row and of each that follows one of which it    *)
(* holds, holds of all.                                                         *)
LEMMA StaysIn ==
  ASSUME NEW n \in Nat, NEW f, NEW T, f[0] \in T,
         \A i \in 1..n : f[i - 1] \in T => f[i] \in T
  PROVE  \A i \in 0..n : f[i] \in T
<1> DEFINE bad == {i \in 0..n : f[i] \notin T}
<1>1. ASSUME bad # {} PROVE FALSE
  <2>1. bad \in SUBSET Nat
    OBVIOUS
  <2>2. PICK i \in bad : \A j \in bad : i <= j
    BY <1>1, <2>1, Least
  <2>3. i \in 1..n /\ i - 1 \in 0..n /\ i - 1 \notin bad
    BY <2>2
  <2> QED BY <2>2, <2>3
<1> QED BY <1>1

(* A row of which each is made from the one before.                             *)
Makes(G, Acc) == \A i \in Nat \ {0}, a \in Acc : G[i][a] \in Acc
IsRow(f, n, Acc, base, G) ==
  /\ f \in [0..n -> Acc]
  /\ f[0] = base /\ \A i \in 1..n : f[i] = G[i][f[i - 1]]

LEMMA RowExists ==
  ASSUME NEW Acc, NEW base, base \in Acc, NEW G, Makes(G, Acc), NEW k \in Nat
  PROVE  \E f : IsRow(f, k, Acc, base, G)
<1> USE DEF Makes
<1> DEFINE Made(n) == \E f \in [0..n -> Acc] : f[0] = base /\ \A i \in 1..n : f[i] = G[i][f[i - 1]]
           bad == {n \in Nat : ~Made(n)}
<1>1. Made(0)
  <2> DEFINE f == [i \in 0..0 |-> base]
  <2>1. f \in [0..0 -> Acc] /\ f[0] = base
    OBVIOUS
  <2> HIDE DEF f
  <2>2. \A i \in 1..0 : f[i] = G[i][f[i - 1]]
    OBVIOUS
  <2> QED BY <2>1, <2>2
<1>2. ASSUME NEW n \in Nat, Made(n) PROVE Made(n + 1)
  <2>1. PICK f \in [0..n -> Acc] : f[0] = base /\ \A i \in 1..n : f[i] = G[i][f[i - 1]]
    BY <1>2
  <2> DEFINE g == [i \in 0..(n + 1) |-> IF i <= n THEN f[i] ELSE G[n + 1][f[n]]]
  <2>2. \A i \in 0..n : g[i] = f[i] /\ f[i] \in Acc
    BY <2>1
  <2>3. g[n + 1] = G[n + 1][f[n]] /\ G[n + 1][f[n]] \in Acc
    BY <2>2
  <2>4. g \in [0..(n + 1) -> Acc]
    BY <2>2, <2>3
  <2> HIDE DEF g
  <2>5. ASSUME NEW i \in 1..(n + 1) PROVE g[i] = G[i][g[i - 1]]
    <3>1. CASE i = n + 1
      BY <2>2, <2>3, <3>1
    <3>2. CASE i \in 1..n
      BY <2>1, <2>2, <3>2
    <3> QED BY <3>1, <3>2
  <2> QED BY <2>1, <2>2, <2>4, <2>5
<1>3. ASSUME bad # {} PROVE FALSE
  <2>1. PICK m \in bad : \A j \in bad : m <= j
    BY <1>3, Least
  <2> HIDE DEF Made
  <2>2. m # 0 /\ m - 1 \in Nat /\ Made(m - 1)
    BY <1>1, <2>1
  <2>3. Made(m - 1 + 1)
    BY <1>2, <2>2
  <2> QED BY <2>1, <2>3
<1>4. Made(k)
  <2> HIDE DEF Made
  <2> QED BY <1>3
<1> QED BY <1>4 DEF IsRow

(* Sequences one after the other.                                               *)
FlattenStep(ss, f, i) == IF i = 1 THEN ss[i] ELSE f[i - 1] \o ss[i]

LEMMA FlattenRow ==
  ASSUME NEW S, NEW ss \in Seq(Seq(S))
  PROVE  \E row : /\ row[0] = <<>> /\ row[Len(ss)] = FlattenSeq(ss)
                  /\ \A i \in 0..Len(ss) : row[i] \in Seq(S)
                  /\ \A i \in 1..Len(ss) : row[i] = row[i - 1] \o ss[i]
<1>1. CASE Len(ss) = 0
  <2> DEFINE row == [i \in 0..0 |-> <<>>]
  <2>1. row[0] = <<>> /\ row[0] \in Seq(S) /\ FlattenSeq(ss) = <<>>
    BY <1>1 DEF FlattenSeq
  <2> HIDE DEF row
  <2>2. \A i \in 0..Len(ss) : row[i] \in Seq(S)
    <3>1. \A i \in 0..Len(ss) : i = 0
      BY <1>1
    <3> QED BY <2>1, <3>1
  <2>3. row[Len(ss)] = FlattenSeq(ss)
    BY <1>1, <2>1
  <2>4. \A i \in 1..Len(ss) : row[i] = row[i - 1] \o ss[i]
    <3>1. ASSUME NEW i \in 1..Len(ss) PROVE FALSE
      BY <1>1
    <3> QED BY <3>1
  <2> WITNESS row
  <2> QED BY <2>1, <2>2, <2>3, <2>4
<1>2. CASE Len(ss) # 0
  <2> DEFINE n == Len(ss)
             G == [i \in Nat \ {0} |-> [a \in Seq(S) |-> IF i \in 1..n THEN a \o ss[i] ELSE a]]
  <2>1. n \in Nat \ {0} /\ \A i \in 1..n : ss[i] \in Seq(S)
    BY <1>2
  <2>2. \A i \in Nat \ {0}, a \in Seq(S) : G[i][a] \in Seq(S)
    BY <2>1
  <2>3. PICK f \in [0..n -> Seq(S)] : f[0] = <<>> /\ \A i \in 1..n : f[i] = G[i][f[i - 1]]
    <3>1. <<>> \in Seq(S)
      OBVIOUS
    <3> DEFINE Acc == Seq(S)
               base == <<>>
    <3> HIDE DEF G, n, Acc, base
    <3>2. base \in Acc /\ Makes(G, Acc)
      BY <2>2, <3>1 DEF Acc, base, Makes
    <3>3. \E f : IsRow(f, n, Acc, base, G)
      BY <2>1, <3>2, RowExists
    <3> QED BY <3>3 DEF Acc, base, IsRow
  <2> HIDE DEF n
  <2>4. \A i \in 1..n : f[i] = f[i - 1] \o ss[i]
    <3> SUFFICES ASSUME NEW i \in 1..n PROVE f[i] = f[i - 1] \o ss[i]
      OBVIOUS
    <3>1. i - 1 \in 0..n /\ i \in Nat \ {0}
      BY <2>1
    <3>2. f[i - 1] \in Seq(S)
      BY <2>3, <3>1
    <3>3. G[i][f[i - 1]] = f[i - 1] \o ss[i]
      BY <3>1, <3>2
    <3> QED BY <2>3, <3>3
  <2> DEFINE g == [i \in 1..n |-> f[i]]
  <2> HIDE DEF n
  <2>5. \A i \in 1..n : g[i] = FlattenStep(ss, g, i)
    <3> SUFFICES ASSUME NEW i \in 1..n PROVE g[i] = FlattenStep(ss, g, i)
      OBVIOUS
    <3>1. CASE i = 1
      <4>1. f[1] = f[0] \o ss[1]
        <5>1. 1 \in 1..n /\ 1 - 1 = 0
          BY <2>1
        <5> QED BY <2>4, <5>1
      <4>2. ss[1] \in Seq(S) /\ f[0] = <<>>
        BY <2>1, <2>3, <3>1
      <4>3. <<>> \o ss[1] = ss[1]
        BY <4>2
      <4> QED BY <3>1, <4>1, <4>2, <4>3 DEF FlattenStep
    <3>2. CASE i # 1
      <4>1. i - 1 \in 1..n
        BY <2>1, <3>2
      <4> QED BY <2>4, <3>2, <4>1 DEF FlattenStep
    <3> QED BY <3>1, <3>2
  <2>6. \E h : h = [i \in 1..n |-> FlattenStep(ss, h, i)]
    <3>1. g = [i \in 1..n |-> g[i]]
      OBVIOUS
    <3> HIDE DEF g
    <3> QED BY <2>5, <3>1, Zenon
  <2> DEFINE h == CHOOSE h : h = [i \in 1..n |-> FlattenStep(ss, h, i)]
  <2>7. h = [i \in 1..n |-> FlattenStep(ss, h, i)]
    BY <2>6, Zenon
  <2>8. FlattenSeq(ss) = h[n]
    BY <1>2 DEF FlattenSeq, FlattenStep, n
  <2> HIDE DEF h
  <2>9. \A i \in 1..n : h[i] = FlattenStep(ss, h, i)
    BY <2>7
  <2> DEFINE row == [i \in 0..n |-> IF i = 0 THEN <<>> ELSE h[i]]
  <2>10. ASSUME NEW i \in 1..n, row[i - 1] \in Seq(S)
         PROVE  row[i] = row[i - 1] \o ss[i] /\ row[i] \in Seq(S)
    <3>1. row[i] = h[i] /\ ss[i] \in Seq(S)
      BY <2>1
    <3>2. CASE i = 1
      <4>1. row[i - 1] = <<>> /\ h[i] = ss[i]
        BY <2>1, <2>9, <3>2 DEF FlattenStep
      <4> HIDE DEF row
      <4>2. <<>> \o ss[i] = ss[i]
        BY <3>1
      <4> QED BY <3>1, <4>1, <4>2
    <3>3. CASE i # 1
      <4>1. row[i - 1] = h[i - 1]
        BY <2>1, <3>3
      <4>2. h[i] = h[i - 1] \o ss[i]
        BY <2>9, <3>3 DEF FlattenStep
      <4> HIDE DEF row
      <4>3. row[i - 1] \o ss[i] \in Seq(S)
        BY <2>10, <3>1
      <4> QED BY <3>1, <4>1, <4>2, <4>3
    <3> QED BY <3>2, <3>3
  <2>11. row[0] = <<>> /\ row[0] \in Seq(S) /\ row[n] = h[n]
    BY <2>1
  <2> HIDE DEF row
  <2>12. \A i \in 0..n : row[i] \in Seq(S)
    BY <2>1, <2>10, <2>11, StaysIn
  <2>13. \A i \in 1..n : row[i] = row[i - 1] \o ss[i]
    <3> SUFFICES ASSUME NEW i \in 1..n PROVE row[i] = row[i - 1] \o ss[i]
      OBVIOUS
    <3>1. i - 1 \in 0..n
      BY <2>1
    <3> QED BY <2>10, <2>12, <3>1
  <2> QED BY <2>8, <2>11, <2>12, <2>13 DEF n
<1> QED BY <1>1, <1>2

LEMMA FlattenIs ==
  ASSUME NEW S, NEW ss \in Seq(Seq(S))
  PROVE  FlattenSeq(ss) \in Seq(S)
<1>1. PICK row : row[Len(ss)] = FlattenSeq(ss) /\ \A i \in 0..Len(ss) : row[i] \in Seq(S)
  BY FlattenRow
<1> QED BY <1>1

(* A set put in some order.                                                     *)
LEMMA SetToSeqIs ==
  ASSUME NEW T, IsFiniteSet(T)
  PROVE  SetToSeq(T) \in Seq(T)
<1>1. PICK n \in Nat : ExistsBijection(1..n, T)
  BY FS_NatBijection
<1>2. Cardinality(T) = n
  BY <1>1, FS_CountingElements
<1>3. \E f \in [1..Cardinality(T) -> T] : IsInjective(f)
  BY <1>1, <1>2 DEF ExistsBijection, Bijection, Injection, IsInjective
<1>4. SetToSeq(T) \in [1..Cardinality(T) -> T]
  BY <1>3 DEF SetToSeq
<1> QED BY <1>2, <1>4
-----------------------------------------------------------------------------
(* Messages: what is said in them, and the number of a call.                    *)
Texts == {"ask", "answer", "thought", "result", "definitions", Dots, Cut, "Empty message list",
          "[Tool execution completed.]", "[Continue]", "[System Recovery]"}
Types == {"text", "tagged", "thinking", "tool_use", "tool_result"}
Numbers == Nat \cup {None}
AllBlocks == [type : Types, text : Texts \cup {None}, id : Numbers, sig : Signatures \cup {None}]
AllMessages == [role : {"system", "user", "assistant", "tool"}, content : Seq(AllBlocks),
                tool_calls : Seq(Numbers), tool_call_id : Numbers]

(* The histories in which an assistant's content has these blocks only: any,    *)
(* those whose thinking is signed, those without thinking.                      *)
MessagesOf(Bs) == {m \in AllMessages : m.role = "assistant" => m.content \in Seq(Bs)}
SignedBlocks == {b \in AllBlocks : IsThinking(b) => b.sig # None}
PlainBlocks == {b \in AllBlocks : ~IsThinking(b)}

LEMMA SeqIn ==
  ASSUME NEW S, NEW T, NEW s, s \in Seq(S), \A i \in 1..Len(s) : s[i] \in T
  PROVE  s \in Seq(T)
  OBVIOUS

LEMMA AnyMessages ==
  /\ MessagesOf(AllBlocks) = AllMessages
  /\ SignedBlocks \subseteq AllBlocks /\ PlainBlocks \subseteq SignedBlocks
  BY DEF MessagesOf, AllMessages, SignedBlocks, PlainBlocks

LEMMA BlocksAre ==
  /\ \A t \in Texts : Text(t) \in PlainBlocks
  /\ \A id \in Numbers : ToolUse(id, None) \in PlainBlocks /\ ToolResult(id) \in PlainBlocks
  /\ Ellipsis \in PlainBlocks
<1>1. ASSUME NEW t \in Texts PROVE Text(t) \in PlainBlocks
  BY DEF Text, Block, PlainBlocks, AllBlocks, IsThinking, Types, Numbers
<1>2. ASSUME NEW id \in Numbers
      PROVE  ToolUse(id, None) \in PlainBlocks /\ ToolResult(id) \in PlainBlocks
  BY DEF ToolUse, ToolResult, Block, PlainBlocks, AllBlocks, IsThinking, Types
<1>3. Dots \in Texts /\ Ellipsis = Text(Dots)
  BY DEF Texts, Ellipsis, Dots
<1> QED BY <1>1, <1>2, <1>3

LEMMA MessageIs ==
  ASSUME NEW Bs \in SUBSET AllBlocks, NEW c \in Seq(AllBlocks),
         NEW role \in {"system", "user", "assistant", "tool"},
         role = "assistant" => c \in Seq(Bs)
  PROVE  Message(role, c) \in MessagesOf(Bs)
<1>1. <<>> \in Seq(Numbers)
  OBVIOUS
<1> QED BY <1>1 DEF Message, MessagesOf, AllMessages, Numbers

LEMMA ContentReplaced ==
  ASSUME NEW Bs \in SUBSET AllBlocks, NEW m \in AllMessages, NEW c \in Seq(AllBlocks),
         m.role = "assistant" => c \in Seq(Bs)
  PROVE  [m EXCEPT !.content = c] \in MessagesOf(Bs)
  BY DEF MessagesOf, AllMessages

LEMMA CallsReplaced ==
  ASSUME NEW Bs \in SUBSET AllBlocks, NEW m \in MessagesOf(Bs), NEW ids \in Seq(Numbers)
  PROVE  [m EXCEPT !.tool_calls = ids] \in MessagesOf(Bs)
  BY DEF MessagesOf, AllMessages

LEMMA SaysIs ==
  ASSUME NEW t \in Texts, NEW role \in {"system", "user", "assistant", "tool"}
  PROVE  Says(role, t) \in MessagesOf(PlainBlocks)
<1>1. <<Text(t)>> \in Seq(PlainBlocks) /\ <<Text(t)>> \in Seq(AllBlocks)
  BY BlocksAre, AnyMessages
<1> QED BY <1>1, AnyMessages, MessageIs DEF Says

LEMMA CallsAre ==
  ASSUME NEW ids \in Seq(Numbers)
  PROVE  Calls(ids) \in MessagesOf(PlainBlocks)
<1>1. <<>> \in Seq(PlainBlocks) /\ <<>> \in Seq(AllBlocks)
  OBVIOUS
<1>2. Message("assistant", <<>>) \in MessagesOf(PlainBlocks)
  BY <1>1, AnyMessages, MessageIs
<1> QED BY <1>2, CallsReplaced, AnyMessages DEF Calls

LEMMA AnswersAre ==
  ASSUME NEW id \in Numbers
  PROVE  Answers(id) \in MessagesOf(PlainBlocks)
<1>1. Says("tool", "result") \in MessagesOf(PlainBlocks)
  BY SaysIs DEF Texts
<1> QED BY <1>1 DEF Answers, Says, MessagesOf, AllMessages

LEMMA FewerBlocks ==
  ASSUME NEW Bs, NEW Cs, Bs \subseteq Cs, Cs \subseteq AllBlocks
  PROVE  /\ Seq(Bs) \subseteq Seq(Cs)
         /\ MessagesOf(Bs) \subseteq MessagesOf(Cs)
         /\ Seq(MessagesOf(Bs)) \subseteq Seq(MessagesOf(Cs))
<1>1. Seq(Bs) \subseteq Seq(Cs)
  OBVIOUS
<1>2. MessagesOf(Bs) \subseteq MessagesOf(Cs)
  BY <1>1 DEF MessagesOf
<1>3. Seq(MessagesOf(Bs)) \subseteq Seq(MessagesOf(Cs))
  BY <1>2
<1> QED BY <1>1, <1>2, <1>3
-----------------------------------------------------------------------------
(* The sanitizer signs all thinking, or makes texts of it.                      *)
LEMMA FirstValidIs ==
  ASSUME NEW S, NEW sigs \in Seq(S)
  PROVE  FirstValid(sigs) \in Real \cup {Short, None}
<1> DEFINE chosen == {i \in DOMAIN sigs : IsValidSignature(sigs[i])}
           valid == Selected(sigs, chosen)
<1>1. FirstValid(sigs) = IF valid = <<>> THEN None ELSE valid[1]
  BY DEF FirstValid, Filtered
<1>2. valid \in Seq(S)
  BY SelectedIs
<1>3. \A j \in DOMAIN valid : \E i \in chosen \cap DOMAIN sigs : valid[j] = sigs[i]
  <2> HIDE DEF chosen
  <2> QED BY SelectedElements
<1> HIDE DEF valid
<1>4. CASE valid # <<>>
  <2>1. 1 \in DOMAIN valid
    BY <1>2, <1>4
  <2>2. PICK i \in chosen : valid[1] = sigs[i]
    BY <1>3, <2>1
  <2> QED BY <1>1, <1>4, <2>2 DEF IsValidSignature
<1> QED BY <1>1, <1>4

(* What goes with a sanitized content, or history, and what goes with it: the   *)
(* context is the one given, to begin with.                                     *)
Outcomes(S, context) ==
  [done : Seq(S), context : Signatures \cup {None, context}, caches : Caches]

LEMMA CachedIs ==
  ASSUME NEW caches \in Caches, NEW b, NEW sig
  PROVE  Cached(b, sig, caches) \in Caches
<1>1. CASE sig \notin Real
  BY <1>1 DEF Cached
<1>2. CASE sig \in Real
  <2>1. [caches.text EXCEPT ![b.text] = sig] \in [Thoughts -> Real \cup {None}]
    BY <1>2 DEF Caches
  <2>2. [caches EXCEPT !.session = sig, !.last = sig,
                       !.text = IF b.text = None THEN @ ELSE [@ EXCEPT ![b.text] = sig]] \in Caches
    BY <1>2, <2>1 DEF Caches
  <2> QED BY <1>2, <2>2 DEF Cached
<1> QED BY <1>1, <1>2

LEMMA ThinkingAccepted ==
  ASSUME NEW context, NEW acc \in Outcomes(SignedBlocks, context), NEW b \in AllBlocks,
         IsThinking(b)
  PROVE  AcceptThinking(acc, b) \in Outcomes(SignedBlocks, context)
<1> DEFINE sig == RecoverSignatureForThinking(b, acc.context, acc.caches)
<1>0. /\ acc.done \in Seq(SignedBlocks) /\ acc.caches \in Caches
      /\ acc.context \in Signatures \cup {None, context}
      /\ acc = [done |-> acc.done, context |-> acc.context, caches |-> acc.caches]
  BY DEF Outcomes
<1>1. sig \in Real \cup {Short, None}
  <2> DEFINE sigs == <<b.sig, acc.context, IF b.text = None THEN None ELSE acc.caches.text[b.text],
                       acc.caches.session, acc.caches.last>>
             S == {b.sig, acc.context, IF b.text = None THEN None ELSE acc.caches.text[b.text],
                   acc.caches.session, acc.caches.last}
  <2>1. sigs \in Seq(S)
    OBVIOUS
  <2> HIDE DEF sigs, S
  <2>2. FirstValid(sigs) \in Real \cup {Short, None}
    BY <2>1, FirstValidIs
  <2> QED BY <2>2 DEF RecoverSignatureForThinking, sigs
<1>2. b.sig \in Signatures \cup {None}
  BY DEF AllBlocks
<1> HIDE DEF sig
<1>3. CASE HasValidThoughtsignature(b)
  <2>1. b \in SignedBlocks
    BY <1>3 DEF HasValidThoughtsignature, SignedBlocks
  <2>2. Append(acc.done, b) \in Seq(SignedBlocks)
    BY <1>0, <2>1
  <2>3. [acc EXCEPT !.done = Append(@, b),
                    !.context = IF b.sig \in ThoughtSigned THEN b.sig ELSE @]
          \in Outcomes(SignedBlocks, context)
    BY <1>0, <1>2, <2>2 DEF Outcomes
  <2> QED BY <1>3, <2>3 DEF AcceptThinking
<1>4. CASE ~HasValidThoughtsignature(b) /\ sig = None
  <2>1. DowngradeThinkingToText(b) \in Seq(SignedBlocks)
    <3>1. b.text # None => Text(b.text) \in SignedBlocks
      BY BlocksAre, AnyMessages DEF AllBlocks
    <3> QED BY <3>1 DEF DowngradeThinkingToText
  <2>2. acc.done \o DowngradeThinkingToText(b) \in Seq(SignedBlocks)
    BY <1>0, <2>1
  <2>3. [acc EXCEPT !.done = @ \o DowngradeThinkingToText(b)] \in Outcomes(SignedBlocks, context)
    BY <1>0, <2>2 DEF Outcomes
  <2> QED BY <1>4, <2>3 DEF AcceptThinking, sig
<1>5. CASE ~HasValidThoughtsignature(b) /\ sig # None
  <2>1. [b EXCEPT !.sig = sig] \in SignedBlocks
    BY <1>1, <1>5 DEF SignedBlocks, AllBlocks, IsThinking, Signatures
  <2>2. Append(acc.done, [b EXCEPT !.sig = sig]) \in Seq(SignedBlocks)
    BY <1>0, <2>1
  <2> DEFINE caches == IF IsGuess(b, acc.context, acc.caches) THEN acc.caches
                       ELSE Cached(b, sig, acc.caches)
  <2>3. caches \in Caches
    BY <1>0, CachedIs
  <2> HIDE DEF caches
  <2>4. [done |-> Append(acc.done, [b EXCEPT !.sig = sig]), context |-> sig, caches |-> caches]
          \in Outcomes(SignedBlocks, context)
    BY <1>1, <2>2, <2>3 DEF Outcomes, Signatures
  <2> QED BY <1>5, <2>4 DEF AcceptThinking, sig, caches
<1> QED BY <1>3, <1>4, <1>5

LEMMA BlockSanitized ==
  ASSUME NEW context, NEW acc \in Outcomes(SignedBlocks, context), NEW b \in AllBlocks
  PROVE  SanitizeBlock(acc, b) \in Outcomes(SignedBlocks, context)
<1>0. /\ acc.done \in Seq(SignedBlocks) /\ acc.caches \in Caches
      /\ acc.context \in Signatures \cup {None, context}
      /\ acc = [done |-> acc.done, context |-> acc.context, caches |-> acc.caches]
  BY DEF Outcomes
<1>1. CASE IsThinking(b)
  BY <1>1, ThinkingAccepted DEF SanitizeBlock
<1>2. ASSUME ~IsThinking(b), NEW new \in SignedBlocks
      PROVE  [acc EXCEPT !.done = Append(@, new)] \in Outcomes(SignedBlocks, context)
  <2>1. Append(acc.done, new) \in Seq(SignedBlocks)
    BY <1>0, <1>2
  <2> QED BY <1>0, <2>1 DEF Outcomes
<1>3. CASE ~IsThinking(b) /\ b.type = "tool_use"
  <2> DEFINE sig == RecoverSignatureForToolUse(b, acc.context, acc.caches)
             sigs == <<b.sig, acc.context, acc.caches.session, acc.caches.tool[b.id],
                       acc.caches.last>>
             S == {b.sig, acc.context, acc.caches.session, acc.caches.tool[b.id], acc.caches.last}
  <2>1. sigs \in Seq(S)
    OBVIOUS
  <2> HIDE DEF sigs, S
  <2>2. FirstValid(sigs) \in Real \cup {Short, None}
    BY <2>1, FirstValidIs
  <2>3. sig \in Signatures
    BY <2>2 DEF RecoverSignatureForToolUse, sigs, Signatures
  <2> HIDE DEF sig
  <2>4. [b EXCEPT !.sig = sig] \in SignedBlocks
    BY <1>3, <2>3 DEF SignedBlocks, AllBlocks, IsThinking
  <2> QED BY <1>2, <1>3, <2>4 DEF SanitizeBlock, sig
<1>4. CASE ~IsThinking(b) /\ b.type # "tool_use"
  <2>1. b \in SignedBlocks
    BY <1>4 DEF SignedBlocks
  <2> QED BY <1>2, <1>4, <2>1 DEF SanitizeBlock
<1> QED BY <1>1, <1>3, <1>4

LEMMA BlocksRow ==
  ASSUME NEW context, NEW base \in Outcomes(SignedBlocks, context), NEW s \in Seq(AllBlocks)
  PROVE  \E g : /\ g[0] = base /\ g[Len(s)] = Folded(SanitizeBlock, base, s)
                /\ \A i \in 1..Len(s) : g[i] = SanitizeBlock(g[i - 1], s[i])
                /\ \A i \in 0..Len(s) : g[i] \in Outcomes(SignedBlocks, context)
<1> DEFINE Acc == Outcomes(SignedBlocks, context)
           n == Len(s)
           G == [i \in Nat \ {0} |-> [a \in Acc |-> IF i \in 1..n THEN SanitizeBlock(a, s[i]) ELSE a]]
           Step(f, i) == IF i = 0 THEN base ELSE SanitizeBlock(f[i - 1], s[i])
<1>1. n \in Nat /\ base \in Acc /\ \A i \in 1..n : s[i] \in AllBlocks
  OBVIOUS
<1>2. \A a \in Acc, i \in 1..n : SanitizeBlock(a, s[i]) \in Acc
  BY BlockSanitized
<1>3. Folded(SanitizeBlock, base, s) = (CHOOSE f : f = [i \in 0..n |-> Step(f, i)])[n]
  BY DEF Folded
<1> HIDE DEF Acc, n
<1>4. Makes(G, Acc)
  BY <1>2 DEF Makes
<1>5. PICK f : IsRow(f, n, Acc, base, G)
  <2> HIDE DEF G
  <2> QED BY <1>1, <1>4, RowExists
<1>6. f = [i \in 0..n |-> Step(f, i)]
  <2>1. f = [i \in 0..n |-> f[i]]
    BY <1>5 DEF IsRow
  <2>2. \A i \in 0..n : f[i] = Step(f, i)
    <3> SUFFICES ASSUME NEW i \in 1..n PROVE f[i] = Step(f, i)
      BY <1>1, <1>5 DEF IsRow
    <3>1. i - 1 \in 0..n
      BY <1>1
    <3>2. f[i] = G[i][f[i - 1]] /\ f[i - 1] \in Acc
      BY <1>5, <3>1 DEF IsRow
    <3> QED BY <1>1, <3>2
  <2> HIDE DEF Step
  <2> QED BY <2>1, <2>2, Zenon
<1> DEFINE g == CHOOSE f_1 : f_1 = [i \in 0..n |-> Step(f_1, i)]
<1>7. g = [i \in 0..n |-> Step(g, i)]
  <2> HIDE DEF Step
  <2> QED BY <1>6, Zenon
<1> HIDE DEF g
<1>8. \A i \in 0..n : g[i] = Step(g, i)
  BY <1>7
<1>9. g[0] \in Acc
  BY <1>1, <1>8
<1>10. \A i \in 1..n : g[i - 1] \in Acc => g[i] \in Acc
  BY <1>1, <1>2, <1>8
<1>11. \A i \in 0..n : g[i] \in Acc
  BY <1>1, <1>9, <1>10, StaysIn
<1>12. g[0] = base /\ \A i \in 1..n : g[i] = SanitizeBlock(g[i - 1], s[i])
  BY <1>1, <1>8
<1>13. g[n] = Folded(SanitizeBlock, base, s)
  BY <1>3 DEF g
<1> QED BY <1>11, <1>12, <1>13 DEF Acc, n

LEMMA BlocksSanitized ==
  ASSUME NEW context, NEW base \in Outcomes(SignedBlocks, context), NEW s \in Seq(AllBlocks)
  PROVE  Folded(SanitizeBlock, base, s) \in Outcomes(SignedBlocks, context)
<1>1. PICK g : g[Len(s)] = Folded(SanitizeBlock, base, s) /\ \A i \in 0..Len(s) : g[i] \in Outcomes(SignedBlocks, context)
  BY BlocksRow
<1> QED BY <1>1

LEMMA OrEllipsisIs ==
  ASSUME NEW Bs, Ellipsis \in Bs, NEW content \in Seq(Bs)
  PROVE  OrEllipsis(content) \in Seq(Bs)
  BY DEF OrEllipsis

LEMMA MessageSanitized ==
  ASSUME NEW context, NEW acc \in Outcomes(MessagesOf(SignedBlocks), context),
         NEW m \in AllMessages
  PROVE  SanitizeMessage(acc, m) \in Outcomes(MessagesOf(SignedBlocks), context)
<1> DEFINE base == [acc EXCEPT !.done = <<>>]
           r == Folded(SanitizeBlock, base, m.content)
<1>0. /\ acc.done \in Seq(MessagesOf(SignedBlocks)) /\ acc.caches \in Caches
      /\ acc.context \in Signatures \cup {None, context}
      /\ acc = [done |-> acc.done, context |-> acc.context, caches |-> acc.caches]
  BY DEF Outcomes
<1>1. CASE m.role # "assistant" \/ m.content = <<>>
  <2>1. m \in MessagesOf(SignedBlocks)
    <3>1. <<>> \in Seq(SignedBlocks)
      OBVIOUS
    <3> QED BY <1>1, <3>1 DEF MessagesOf
  <2>2. Append(acc.done, m) \in Seq(MessagesOf(SignedBlocks))
    BY <1>0, <2>1
  <2>3. [acc EXCEPT !.done = Append(@, m)] \in Outcomes(MessagesOf(SignedBlocks), context)
    BY <1>0, <2>2 DEF Outcomes
  <2> QED BY <1>1, <2>3 DEF SanitizeMessage
<1>2. CASE ~(m.role # "assistant" \/ m.content = <<>>)
  <2>1. base \in Outcomes(SignedBlocks, context)
    <3>1. <<>> \in Seq(SignedBlocks)
      OBVIOUS
    <3> QED BY <1>0, <3>1 DEF Outcomes
  <2>2. m.content \in Seq(AllBlocks)
    BY DEF AllMessages
  <2>3. r \in Outcomes(SignedBlocks, context)
    <3> HIDE DEF base
    <3> QED BY <2>1, <2>2, BlocksSanitized
  <2>4. SanitizeMessage(acc, m) =
          [r EXCEPT !.done = Append(acc.done, [m EXCEPT !.content = OrEllipsis(r.done)])]
    BY <1>2 DEF SanitizeMessage
  <2> HIDE DEF r
  <2>5. /\ r.done \in Seq(SignedBlocks) /\ r.caches \in Caches
        /\ r.context \in Signatures \cup {None, context}
        /\ r = [done |-> r.done, context |-> r.context, caches |-> r.caches]
    BY <2>3 DEF Outcomes
  <2>6. OrEllipsis(r.done) \in Seq(SignedBlocks) /\ OrEllipsis(r.done) \in Seq(AllBlocks)
    <3>1. Ellipsis \in SignedBlocks
      BY BlocksAre, AnyMessages
    <3> QED BY <2>5, <3>1, OrEllipsisIs, FewerBlocks, AnyMessages
  <2>7. [m EXCEPT !.content = OrEllipsis(r.done)] \in MessagesOf(SignedBlocks)
    BY <2>6, ContentReplaced, AnyMessages
  <2>8. Append(acc.done, [m EXCEPT !.content = OrEllipsis(r.done)]) \in Seq(MessagesOf(SignedBlocks))
    BY <1>0, <2>7
  <2> QED BY <2>4, <2>5, <2>8 DEF Outcomes
<1> QED BY <1>1, <1>2

LEMMA MessagesRow ==
  ASSUME NEW context, NEW base \in Outcomes(MessagesOf(SignedBlocks), context),
         NEW s \in Seq(AllMessages)
  PROVE  \E g : /\ g[0] = base /\ g[Len(s)] = Folded(SanitizeMessage, base, s)
                /\ \A i \in 1..Len(s) : g[i] = SanitizeMessage(g[i - 1], s[i])
                /\ \A i \in 0..Len(s) : g[i] \in Outcomes(MessagesOf(SignedBlocks), context)
<1> DEFINE Acc == Outcomes(MessagesOf(SignedBlocks), context)
           n == Len(s)
           G == [i \in Nat \ {0} |-> [a \in Acc |-> IF i \in 1..n THEN SanitizeMessage(a, s[i]) ELSE a]]
           Step(f, i) == IF i = 0 THEN base ELSE SanitizeMessage(f[i - 1], s[i])
<1>1. n \in Nat /\ base \in Acc /\ \A i \in 1..n : s[i] \in AllMessages
  OBVIOUS
<1>2. \A a \in Acc, i \in 1..n : SanitizeMessage(a, s[i]) \in Acc
  BY MessageSanitized
<1>3. Folded(SanitizeMessage, base, s) = (CHOOSE f : f = [i \in 0..n |-> Step(f, i)])[n]
  BY DEF Folded
<1> HIDE DEF Acc, n
<1>4. Makes(G, Acc)
  BY <1>2 DEF Makes
<1>5. PICK f : IsRow(f, n, Acc, base, G)
  <2> HIDE DEF G
  <2> QED BY <1>1, <1>4, RowExists
<1>6. f = [i \in 0..n |-> Step(f, i)]
  <2>1. f = [i \in 0..n |-> f[i]]
    BY <1>5 DEF IsRow
  <2>2. \A i \in 0..n : f[i] = Step(f, i)
    <3> SUFFICES ASSUME NEW i \in 1..n PROVE f[i] = Step(f, i)
      BY <1>1, <1>5 DEF IsRow
    <3>1. i - 1 \in 0..n
      BY <1>1
    <3>2. f[i] = G[i][f[i - 1]] /\ f[i - 1] \in Acc
      BY <1>5, <3>1 DEF IsRow
    <3> QED BY <1>1, <3>2
  <2> HIDE DEF Step
  <2> QED BY <2>1, <2>2, Zenon
<1> DEFINE g == CHOOSE f_1 : f_1 = [i \in 0..n |-> Step(f_1, i)]
<1>7. g = [i \in 0..n |-> Step(g, i)]
  <2> HIDE DEF Step
  <2> QED BY <1>6, Zenon
<1> HIDE DEF g
<1>8. \A i \in 0..n : g[i] = Step(g, i)
  BY <1>7
<1>9. g[0] \in Acc
  BY <1>1, <1>8
<1>10. \A i \in 1..n : g[i - 1] \in Acc => g[i] \in Acc
  BY <1>1, <1>2, <1>8
<1>11. \A i \in 0..n : g[i] \in Acc
  BY <1>1, <1>9, <1>10, StaysIn
<1>12. g[0] = base /\ \A i \in 1..n : g[i] = SanitizeMessage(g[i - 1], s[i])
  BY <1>1, <1>8
<1>13. g[n] = Folded(SanitizeMessage, base, s)
  BY <1>3 DEF g
<1> QED BY <1>11, <1>12, <1>13 DEF Acc, n

LEMMA MessagesSanitized ==
  ASSUME NEW context, NEW base \in Outcomes(MessagesOf(SignedBlocks), context),
         NEW s \in Seq(AllMessages)
  PROVE  Folded(SanitizeMessage, base, s) \in Outcomes(MessagesOf(SignedBlocks), context)
<1>1. PICK g : g[Len(s)] = Folded(SanitizeMessage, base, s) /\ \A i \in 0..Len(s) : g[i] \in Outcomes(MessagesOf(SignedBlocks), context)
  BY MessagesRow
<1> QED BY <1>1

LEMMA ChainsEnsured ==
  ASSUME NEW Bs \in SUBSET AllBlocks, Ellipsis \in Bs, NEW h \in Seq(MessagesOf(Bs))
  PROVE  EnsureToolChainIntegrity(h) \in Seq(MessagesOf(Bs))
<1> DEFINE orphans == OrphanUses(h)
<1>1. ASSUME NEW m \in MessagesOf(Bs) PROVE WithoutUses(m, orphans) \in MessagesOf(Bs)
  <2> DEFINE left == Filtered(m.content, LAMBDA b : b.type = "tool_use" => b.id \notin orphans)
  <2>1. m \in AllMessages /\ m.content \in Seq(AllBlocks)
        /\ (m.role = "assistant" => m.content \in Seq(Bs))
    BY DEF MessagesOf, AllMessages
  <2>2. left \in Seq(AllBlocks) /\ (m.role = "assistant" => left \in Seq(Bs))
    BY <2>1, SelectedIs DEF Filtered
  <2> HIDE DEF left
  <2>3. /\ OrEllipsis(left) \in Seq(AllBlocks)
        /\ m.role = "assistant" => OrEllipsis(left) \in Seq(Bs)
    BY <2>2, OrEllipsisIs
  <2>4. [m EXCEPT !.content = OrEllipsis(left)] \in MessagesOf(Bs)
    BY <2>1, <2>3, ContentReplaced
  <2>5. [m EXCEPT !.content = m.content] \in MessagesOf(Bs)
    BY <2>1, ContentReplaced
  <2> QED BY <2>4, <2>5 DEF WithoutUses, left
<1> HIDE DEF orphans
<1>2. \A i \in DOMAIN h : WithoutUses(h[i], orphans) \in MessagesOf(Bs)
  BY <1>1
<1>3. [i \in DOMAIN h |-> WithoutUses(h[i], orphans)] \in Seq(MessagesOf(Bs))
  BY <1>2
<1> QED BY <1>3 DEF EnsureToolChainIntegrity, orphans

(* Thinking that is sanitized is signed.                                        *)
LEMMA SanitizeSigns ==
  ASSUME NEW h \in Seq(AllMessages), NEW context, NEW caches \in Caches
  PROVE  /\ Sanitize(h, TRUE, context, caches).messages \in Seq(MessagesOf(SignedBlocks))
         /\ \A thinking \in BOOLEAN :
              Sanitize(h, thinking, context, caches).messages \in Seq(AllMessages)
<1> DEFINE start == [done |-> <<>>, context |-> context, caches |-> caches]
           r == ValidateAndRecover(h, TRUE, context, caches)
           u == ValidateAndRecover(h, FALSE, context, caches)
<1>1. start \in Outcomes(MessagesOf(SignedBlocks), context)
  BY DEF Outcomes
<1>2. r.done \in Seq(MessagesOf(SignedBlocks))
  <2>1. r = Folded(SanitizeMessage, start, h)
    BY DEF ValidateAndRecover
  <2> HIDE DEF start
  <2>2. r \in Outcomes(MessagesOf(SignedBlocks), context)
    BY <1>1, <2>1, MessagesSanitized
  <2> QED BY <2>2 DEF Outcomes
<1>3. u.done = h
  BY DEF ValidateAndRecover
<1> HIDE DEF r, u
<1>4. Ellipsis \in SignedBlocks /\ Ellipsis \in AllBlocks
  BY BlocksAre, AnyMessages
<1>5. EnsureToolChainIntegrity(r.done) \in Seq(MessagesOf(SignedBlocks))
  BY <1>2, <1>4, ChainsEnsured, AnyMessages
<1>6. EnsureToolChainIntegrity(h) \in Seq(AllMessages)
  BY <1>4, ChainsEnsured, AnyMessages
<1>7. Sanitize(h, TRUE, context, caches).messages = EnsureToolChainIntegrity(r.done)
  BY DEF Sanitize, r
<1>8. Sanitize(h, FALSE, context, caches).messages = EnsureToolChainIntegrity(u.done)
  BY DEF Sanitize, u
<1>9. Seq(MessagesOf(SignedBlocks)) \subseteq Seq(AllMessages)
  BY FewerBlocks, AnyMessages
<1> QED BY <1>3, <1>5, <1>6, <1>7, <1>8, <1>9

LEMMA ContentNarrowed ==
  ASSUME NEW Bs \in SUBSET AllBlocks, NEW m \in MessagesOf(Bs), NEW c \in Seq(AllBlocks),
         m.content \in Seq(Bs) => c \in Seq(Bs)
  PROVE  [m EXCEPT !.content = c] \in MessagesOf(Bs)
<1>1. m \in AllMessages /\ (m.role = "assistant" => c \in Seq(Bs))
  BY DEF MessagesOf
<1> QED BY <1>1, ContentReplaced

(* A message at each place gives a history, and so do some at each.             *)
LEMMA EachIs ==
  ASSUME NEW S, NEW T, NEW h \in Seq(S), NEW f, DOMAIN f = DOMAIN h,
         f = [i \in DOMAIN h |-> f[i]], \A i \in DOMAIN h : f[i] \in T
  PROVE  f \in Seq(T)
  OBVIOUS

LEMMA ManyAre ==
  ASSUME NEW S, NEW T, NEW h \in Seq(S), NEW f,
         f = [i \in DOMAIN h |-> f[i]], \A i \in DOMAIN h : f[i] \in Seq(T)
  PROVE  FlattenSeq(f) \in Seq(T)
<1>1. f \in Seq(Seq(T))
  OBVIOUS
<1> QED BY <1>1, FlattenIs
-----------------------------------------------------------------------------
(* The history cache and the selection from it take messages out, and blocks    *)
(* out of messages, and add none.                                               *)
Entries(H) == [scid : {Scid}, history : H]

LEMMA EntriesStored ==
  ASSUME NEW H, NEW lru \in Seq(Entries(H)), NEW h \in H
  PROVE  StoreInLru(lru, Scid, h) \in Seq(Entries(H))
<1> DEFINE room == IF ~Has(lru, Scid) /\ Len(lru) >= MaxConversations THEN Tail(lru) ELSE lru
<1>1. MaxConversations \in Nat \ {0}
  BY SelectionAssumption
<1>2. room \in Seq(Entries(H))
  <2>1. Len(lru) >= MaxConversations => lru # <<>>
    BY <1>1
  <2> QED BY <2>1
<1> HIDE DEF room
<1>3. Without(room, Scid) \in Seq(Entries(H))
  BY <1>2, SelectedIs DEF Without, Filtered
<1>4. [scid |-> Scid, history |-> h] \in Entries(H)
  BY DEF Entries
<1>5. Append(Without(room, Scid), [scid |-> Scid, history |-> h]) \in Seq(Entries(H))
  BY <1>3, <1>4
<1> QED BY <1>5 DEF StoreInLru, room

LEMMA EntryFound ==
  ASSUME NEW H, <<>> \in H, NEW lru \in Seq(Entries(H))
  PROVE  Lookup(lru, Scid) \in H
<1>1. CASE ~Has(lru, Scid)
  BY <1>1 DEF Lookup
<1>2. CASE Has(lru, Scid)
  <2> DEFINE chosen == {i \in DOMAIN lru : lru[i].scid = Scid}
             found == Selected(lru, chosen)
  <2>1. Lookup(lru, Scid) = found[1].history
    BY <1>2 DEF Lookup, Filtered
  <2>2. PICK i \in chosen \cap DOMAIN lru : TRUE
    BY <1>2 DEF Has
  <2> HIDE DEF chosen
  <2> DEFINE E == Entries(H)
  <2> HIDE DEF E
  <2>3. found \in Seq(E) /\ \E j \in DOMAIN found : found[j] = lru[i]
    <3>1. lru \in Seq(E)
      BY DEF E
    <3> QED BY <2>2, <3>1, SelectedIs, SelectedElements
  <2>4. found[1] \in E
    <3> HIDE DEF found
    <3> QED BY <2>3
  <2> QED BY <2>1, <2>4 DEF E, Entries
<1> QED BY <1>1, <1>2

LEMMA HistoryStored ==
  ASSUME NEW S, NEW pins \in [{Scid} -> Seq(S)], NEW lru \in Seq(Entries(Seq(S))), NEW h \in Seq(S)
  PROVE  LET stored == StoreFullHistory(pins, lru, Scid, h)
         IN  stored.anchors \in [{Scid} -> Seq(S)] /\ stored.cache \in Seq(Entries(Seq(S)))
<1>1. Pinned(h) \in Seq(S) /\ Regular(h) \in Seq(S)
  BY SelectedIs DEF Pinned, Regular, Filtered
<1>2. StoreInLru(lru, Scid, Regular(h)) \in Seq(Entries(Seq(S)))
  BY <1>1, EntriesStored
<1>3. [pins EXCEPT ![Scid] = Pinned(h)] \in [{Scid} -> Seq(S)]
  BY <1>1
<1> QED BY <1>2, <1>3 DEF StoreFullHistory

LEMMA OrphansCleaned ==
  ASSUME NEW Bs \in SUBSET AllBlocks, NEW m \in MessagesOf(Bs), NEW calls, NEW results
  PROVE  CleanMessageOrphans(m, calls, results) \in Seq(MessagesOf(Bs))
<1> DEFINE ids == Filtered(m.tool_calls, LAMBDA id : id \notin calls)
           left == Filtered(m.content, LAMBDA b :
                     /\ m.role = "assistant" /\ b.type = "tool_use" => b.id \notin calls
                     /\ m.role = "user" /\ b.type = "tool_result" => b.id \notin results)
           cleaned == [m EXCEPT !.tool_calls = ids, !.content = left]
<1>1. /\ m.content \in Seq(AllBlocks) /\ m.tool_calls \in Seq(Numbers) /\ m \in AllMessages
  BY DEF MessagesOf, AllMessages
<1>2. ids \in Seq(Numbers)
  BY <1>1, SelectedIs DEF Filtered
<1>3. left \in Seq(AllBlocks) /\ (m.content \in Seq(Bs) => left \in Seq(Bs))
  BY <1>1, SelectedIs DEF Filtered
<1>4. cleaned \in MessagesOf(Bs)
  <2> HIDE DEF ids, left
  <2>1. [m EXCEPT !.content = left] \in MessagesOf(Bs)
    BY <1>3, ContentNarrowed
  <2>2. [[m EXCEPT !.content = left] EXCEPT !.tool_calls = ids] \in MessagesOf(Bs)
    BY <1>2, <2>1, CallsReplaced
  <2>3. cleaned = [[m EXCEPT !.content = left] EXCEPT !.tool_calls = ids]
    BY <1>1 DEF AllMessages
  <2> QED BY <2>2, <2>3
<1>5. CleanMessageOrphans(m, calls, results) \in {<<>>, <<m>>, <<cleaned>>}
  <2> HIDE DEF cleaned
  <2> QED BY DEF CleanMessageOrphans, cleaned
<1> HIDE DEF cleaned
<1>6. {<<>>, <<m>>, <<cleaned>>} \subseteq Seq(MessagesOf(Bs))
  BY <1>4
<1> QED BY <1>5, <1>6

LEMMA ChainsClosed ==
  ASSUME NEW Bs \in SUBSET AllBlocks, NEW h \in Seq(MessagesOf(Bs))
  PROVE  CloseChains(h) \in Seq(MessagesOf(Bs))
<1> DEFINE calls == AllCalls(h) \ AllResults(h)
           results == AllResults(h) \ AllCalls(h)
           f == [i \in DOMAIN h |-> CleanMessageOrphans(h[i], calls, results)]
<1>1. \A i \in DOMAIN h : CleanMessageOrphans(h[i], calls, results) \in Seq(MessagesOf(Bs))
  <2> HIDE DEF calls, results
  <2> QED BY OrphansCleaned
<1>2. FlattenSeq(f) \in Seq(MessagesOf(Bs))
  <2>1. f = [i \in DOMAIN h |-> f[i]] /\ \A i \in DOMAIN h : f[i] \in Seq(MessagesOf(Bs))
    BY <1>1
  <2> HIDE DEF f
  <2> QED BY <2>1, ManyAre
<1> QED BY <1>2 DEF CloseChains

LEMMA HistorySelected ==
  ASSUME NEW Bs \in SUBSET AllBlocks, NEW h \in Seq(MessagesOf(Bs)), NEW max \in Nat
  PROVE  Select(h, max) \in Seq(MessagesOf(Bs))
<1> DEFINE systems == Roles(h, "system")
           room == IF Len(systems) >= max THEN 0 ELSE max - Len(systems)
           recent == IF RecentCount < room THEN RecentCount ELSE room
           middle == SubSeq(h, Len(systems) + 1, Len(h) - recent)
           important == SelectImportantMessages(middle, room - recent)
           latest == RecentMessages(h, recent)
<1>1. CASE Len(h) <= max
  BY <1>1 DEF Select
<1>2. CASE ~(Len(h) <= max)
  <2>1. systems \in Seq(MessagesOf(Bs))
    BY SelectedIs DEF Roles, Filtered
  <2> HIDE DEF systems
  <2>2. RecentCount \in Nat
    BY SelectionAssumption
  <2>3. recent \in Nat /\ recent <= Len(h)
    BY <1>2, <2>1, <2>2
  <2> HIDE DEF recent
  <2>4. middle \in Seq(MessagesOf(Bs))
    BY <2>1, <2>3
  <2>5. latest \in Seq(MessagesOf(Bs))
    BY <2>3 DEF RecentMessages
  <2> HIDE DEF middle, latest, room
  <2>6. important \in Seq(MessagesOf(Bs))
    BY <2>4, SelectedIs DEF SelectImportantMessages
  <2> HIDE DEF important
  <2>7. systems \o important \o latest \in Seq(MessagesOf(Bs))
    BY <2>1, <2>5, <2>6
  <2>8. CloseChains(systems \o important \o latest) \in Seq(MessagesOf(Bs))
    BY <2>7, ChainsClosed
  <2> QED BY <1>2, <2>8 DEF Select, systems, room, recent, middle, important, latest
<1> QED BY <1>1, <1>2

LEMMA SelectedForBackend ==
  ASSUME NEW Bs \in SUBSET AllBlocks, NEW pins \in [{Scid} -> Seq(MessagesOf(Bs))],
         NEW lru \in Seq(Entries(Seq(MessagesOf(Bs)))), NEW max \in Nat
  PROVE  SelectForBackend(pins, lru, Scid, max) \in Seq(MessagesOf(Bs))
<1>1. Lookup(lru, Scid) \in Seq(MessagesOf(Bs)) /\ pins[Scid] \in Seq(MessagesOf(Bs))
  <2>1. <<>> \in Seq(MessagesOf(Bs))
    OBVIOUS
  <2> QED BY <2>1, EntryFound
<1>2. Select(Lookup(lru, Scid), max) \in Seq(MessagesOf(Bs))
  BY <1>1, HistorySelected
<1> QED BY <1>1, <1>2 DEF SelectForBackend
-----------------------------------------------------------------------------
(* What has no thinking left.                                                   *)
LEMMA ThinkingStripped ==
  ASSUME NEW h \in Seq(AllMessages)
  PROVE  StripAllThinkingBlocks(h) \in Seq(MessagesOf(PlainBlocks))
<1> DEFINE left(m) == Filtered(m.content, LAMBDA b : ~IsThinking(b))
           f == [i \in DOMAIN h |->
                   IF h[i].role # "assistant" \/ h[i].content = <<>> THEN <<h[i]>>
                   ELSE IF [h[i] EXCEPT !.content = left(h[i])].content = <<>> THEN <<>>
                   ELSE <<[h[i] EXCEPT !.content = left(h[i])]>>]
<1>1. ASSUME NEW i \in DOMAIN h PROVE f[i] \in Seq(MessagesOf(PlainBlocks))
  <2> DEFINE m == h[i]
             chosen == {j \in DOMAIN m.content : ~IsThinking(m.content[j])}
             kepts == Selected(m.content, chosen)
  <2>1. m \in AllMessages /\ m.content \in Seq(AllBlocks)
    <3>1. m \in AllMessages
      OBVIOUS
    <3> HIDE DEF m
    <3> QED BY <3>1 DEF AllMessages
  <2>2. left(m) = kepts
    BY DEF Filtered
  <2>3. kepts \in Seq(AllBlocks)
    BY <2>1, SelectedIs
  <2>4. kepts \in Seq(PlainBlocks)
    <3>1. \A j \in DOMAIN kepts : kepts[j] \in PlainBlocks
      <4> SUFFICES ASSUME NEW j \in DOMAIN kepts PROVE kepts[j] \in PlainBlocks
        OBVIOUS
      <4> HIDE DEF m
      <4>1. PICK k \in chosen \cap DOMAIN m.content : kepts[j] = m.content[k]
        <5> HIDE DEF chosen
        <5> QED BY <2>1, SelectedElements
      <4> QED BY <2>1, <4>1 DEF PlainBlocks
    <3> HIDE DEF kepts
    <3> QED BY <2>3, <3>1, SeqIn
  <2>5. [m EXCEPT !.content = kepts] \in MessagesOf(PlainBlocks)
    <3> HIDE DEF kepts, m
    <3> QED BY <2>1, <2>3, <2>4, ContentReplaced DEF PlainBlocks
  <2>6. CASE m.role # "assistant" \/ m.content = <<>>
    <3>1. <<>> \in Seq(PlainBlocks)
      OBVIOUS
    <3>2. m \in MessagesOf(PlainBlocks)
      BY <2>1, <2>6, <3>1 DEF MessagesOf
    <3> QED BY <2>6, <3>2
  <2>7. CASE ~(m.role # "assistant" \/ m.content = <<>>)
    <3>1. f[i] \in {<<>>, <<[m EXCEPT !.content = kepts]>>}
      BY <2>2, <2>7
    <3> HIDE DEF f, kepts, m
    <3>2. <<>> \in Seq(MessagesOf(PlainBlocks))
          /\ <<[m EXCEPT !.content = kepts]>> \in Seq(MessagesOf(PlainBlocks))
      BY <2>5
    <3> QED BY <3>1, <3>2
  <2> QED BY <2>6, <2>7
<1>2. f = [i \in DOMAIN h |-> f[i]]
  OBVIOUS
<1>3. StripAllThinkingBlocks(h) = FlattenSeq(f)
  BY DEF StripAllThinkingBlocks
<1> HIDE DEF f
<1> QED BY <1>1, <1>2, <1>3, ManyAre

LEMMA RepairInjected ==
  ASSUME NEW h \in Seq(MessagesOf(PlainBlocks))
  PROVE  InjectRepairPrompt(h) \in Seq(MessagesOf(PlainBlocks))
<1> DEFINE users == {i \in DOMAIN h : h[i].role = "user"}
<1>0. Repair \in PlainBlocks /\ Repair \in AllBlocks
  BY BlocksAre, AnyMessages DEF Repair, Texts
<1>1. CASE users = {}
  <2>1. <<Repair>> \in Seq(AllBlocks)
    BY <1>0
  <2>2. Message("user", <<Repair>>) \in MessagesOf(PlainBlocks)
    BY <2>1, MessageIs, AnyMessages
  <2>3. Append(h, Message("user", <<Repair>>)) \in Seq(MessagesOf(PlainBlocks))
    BY <2>2
  <2> QED BY <1>1, <2>3 DEF InjectRepairPrompt
<1>2. CASE users # {}
  <2> DEFINE i == Max(users)
  <2>1. i \in DOMAIN h
    <3>1. users \in SUBSET (1..Len(h)) /\ Len(h) \in Nat /\ DOMAIN h = 1..Len(h)
      OBVIOUS
    <3> HIDE DEF users
    <3>2. Max(users) \in users
      BY <1>2, <3>1, MaxIs
    <3> QED BY <3>1, <3>2
  <2> HIDE DEF i
  <2>2. h[i] \in MessagesOf(PlainBlocks) /\ h[i] \in AllMessages /\ h[i].content \in Seq(AllBlocks)
    BY <2>1 DEF MessagesOf, AllMessages
  <2>3. Append(h[i].content, Repair) \in Seq(AllBlocks)
        /\ (h[i].content \in Seq(PlainBlocks) => Append(h[i].content, Repair) \in Seq(PlainBlocks))
    BY <1>0, <2>2
  <2>4. [h[i] EXCEPT !.content = Append(h[i].content, Repair)] \in MessagesOf(PlainBlocks)
    BY <2>2, <2>3, ContentNarrowed, AnyMessages
  <2>5. [h EXCEPT ![i] = [h[i] EXCEPT !.content = Append(h[i].content, Repair)]]
          \in Seq(MessagesOf(PlainBlocks))
    BY <2>1, <2>4
  <2>6. [h EXCEPT ![i].content = Append(@, Repair)]
          = [h EXCEPT ![i] = [h[i] EXCEPT !.content = Append(h[i].content, Repair)]]
    OBVIOUS
  <2> QED BY <1>2, <2>5, <2>6 DEF InjectRepairPrompt, i
<1> QED BY <1>1, <1>2

LEMMA RetryPrepared ==
  ASSUME NEW h \in Seq(AllMessages)
  PROVE  PrepareSignatureRetryBody(h) \in Seq(MessagesOf(PlainBlocks))
<1>1. StripAllThinkingBlocks(h) \in Seq(MessagesOf(PlainBlocks))
  BY ThinkingStripped
<1>2. CloseToolLoopForThinking(h) \in Seq(MessagesOf(PlainBlocks))
  <2> DEFINE done == Says("assistant", "[Tool execution completed.]")
             more == Says("user", "[Continue]")
  <2>1. done \in MessagesOf(PlainBlocks) /\ more \in MessagesOf(PlainBlocks)
    BY SaysIs DEF Texts
  <2> HIDE DEF done, more
  <2>2. StripAllThinkingBlocks(h) \o <<done, more>> \in Seq(MessagesOf(PlainBlocks))
    BY <1>1, <2>1
  <2> QED BY <2>2 DEF CloseToolLoopForThinking, done, more
<1> QED BY <1>1, <1>2, RepairInjected DEF PrepareSignatureRetryBody
-----------------------------------------------------------------------------
(* The compression before a request.                                            *)
LEMMA ResultsCompressed ==
  ASSUME NEW h \in Seq(AllMessages)
  PROVE  CompressToolResultsInMessages(h) \in Seq(AllMessages)
<1>1. ASSUME NEW m \in AllMessages PROVE CompressToolResult(m) \in AllMessages
  <2>1. <<Text(Cut)>> \in Seq(AllBlocks)
    <3>1. Cut \in Texts
      BY DEF Texts
    <3>2. Text(Cut) \in AllBlocks
      BY <3>1, BlocksAre, AnyMessages
    <3> QED BY <3>2
  <2>2. [m EXCEPT !.content = <<Text(Cut)>>] \in AllMessages
    BY <2>1, ContentReplaced, AnyMessages
  <2> QED BY <2>2 DEF CompressToolResult
<1>2. [i \in DOMAIN h |-> CompressToolResult(h[i])] \in Seq(AllMessages)
  BY <1>1
<1> QED BY <1>2 DEF CompressToolResultsInMessages

LEMMA ThinkingCompressed ==
  ASSUME NEW h \in Seq(AllMessages), NEW protected
  PROVE  CompressThinkingPreserveSignature(h, protected) \in Seq(AllMessages)
<1>1. ASSUME NEW b \in AllBlocks PROVE CompressThought(b) \in AllBlocks
  BY DEF CompressThought, AllBlocks, Texts
<1>2. ASSUME NEW m \in AllMessages
      PROVE  [m EXCEPT !.content = [k \in DOMAIN m.content |-> CompressThought(m.content[k])]]
               \in AllMessages
  <2>1. m.content \in Seq(AllBlocks)
    BY DEF AllMessages
  <2>2. [k \in DOMAIN m.content |-> CompressThought(m.content[k])] \in Seq(AllBlocks)
    BY <1>1, <2>1
  <2> QED BY <2>2, ContentReplaced, AnyMessages
<1> DEFINE f == [i \in DOMAIN h |->
       IF h[i].role = "assistant" /\ i + protected <= Len(h)
       THEN [h[i] EXCEPT !.content = [k \in DOMAIN h[i].content |-> CompressThought(h[i].content[k])]]
       ELSE h[i]]
<1>3. \A i \in DOMAIN h : f[i] \in AllMessages
  BY <1>2
<1>4. f \in Seq(AllMessages)
  <2>1. DOMAIN f = DOMAIN h /\ f = [i \in DOMAIN h |-> f[i]]
    OBVIOUS
  <2> HIDE DEF f
  <2> QED BY <1>3, <2>1, EachIs
<1> QED BY <1>4 DEF CompressThinkingPreserveSignature

LEMMA Truncated ==
  ASSUME NEW h \in Seq(AllMessages)
  PROVE  /\ \A keep \in Nat : TrimToolMessages(h, keep) \in Seq(AllMessages)
         /\ TruncateMessagesAggressive(h) \in Seq(AllMessages)
<1>1. \A chosen : Selected(h, chosen) \in Seq(AllMessages)
  BY SelectedIs
<1> QED BY <1>1 DEF TrimToolMessages, TruncateMessagesAggressive

LEMMA PccApplied ==
  ASSUME NEW h \in Seq(AllMessages)
  PROVE  Compressed(h) \in Seq(AllMessages)
<1> DEFINE g == CompressToolResultsInMessages(h)
<1>0. KeepRounds \in Nat /\ KeepRoundsLast \in Nat
  BY TruncationAssumption
<1>1. g \in Seq(AllMessages)
  BY ResultsCompressed
<1> HIDE DEF g
<1>2. FirstLayer(g) \in Seq(AllMessages)
  BY <1>0, <1>1, Truncated DEF FirstLayer
<1>3. SecondLayer(FirstLayer(g)) \in Seq(AllMessages)
  BY <1>2, ThinkingCompressed DEF SecondLayer
<1>4. ASSUME NEW u \in Seq(AllMessages) PROVE ThirdLayer(u) \in Seq(AllMessages)
  <2> DEFINE thoughts == CompressThinkingPreserveSignature(u, KeepThoughtsLast)
             rounds == IF Pressed(thoughts, Layer3) THEN TrimToolMessages(thoughts, KeepRoundsLast)
                       ELSE thoughts
  <2>1. thoughts \in Seq(AllMessages)
    BY ThinkingCompressed
  <2> HIDE DEF thoughts
  <2>2. rounds \in Seq(AllMessages)
    BY <1>0, <2>1, Truncated
  <2> HIDE DEF rounds
  <2>3. TruncateMessagesAggressive(rounds) \in Seq(AllMessages)
    BY <2>2, Truncated
  <2> QED BY <2>2, <2>3 DEF ThirdLayer, rounds, thoughts
<1>5. ThirdLayer(SecondLayer(FirstLayer(g))) \in Seq(AllMessages)
  BY <1>3, <1>4
<1>6. ApplyPccBeforeRequest(h) \in Seq(AllMessages)
  BY <1>1, <1>5 DEF ApplyPccBeforeRequest, ProgressiveContextCompression, g
<1> QED BY <1>6 DEF Compressed
-----------------------------------------------------------------------------
(* Normalizing gives messages, and converting gives such without thinking.      *)
Normalizing == [done : Seq(AllMessages), pending : Seq(Numbers)]
Converting == [done : Seq(MessagesOf(PlainBlocks)), results : Seq(Numbers)]

LEMMA IdsAre ==
  ASSUME NEW m \in AllMessages
  PROVE  UseIds(m) \in Seq(Numbers) /\ ResultIds(m) \in Seq(Numbers)
<1>1. m.content \in Seq(AllBlocks)
  BY DEF AllMessages
<1>2. \A chosen : Selected(m.content, chosen) \in Seq(AllBlocks)
  BY <1>1, SelectedIs
<1>3. ASSUME NEW bs \in Seq(AllBlocks) PROVE [i \in DOMAIN bs |-> bs[i].id] \in Seq(Numbers)
  <2>1. \A i \in DOMAIN bs : bs[i].id \in Numbers
    <3>1. \A b \in AllBlocks : b.id \in Numbers
      BY DEF AllBlocks
    <3> QED BY <3>1
  <2> QED BY <2>1
<1> QED BY <1>2, <1>3 DEF UseIds, ResultIds, Filtered

LEMMA PendingFlushed ==
  ASSUME NEW acc \in Normalizing
  PROVE  Flushed(acc) \in Seq(AllMessages)
<1>1. acc.done \in Seq(AllMessages) /\ acc.pending \in Seq(Numbers)
  BY DEF Normalizing
<1>2. Calls(acc.pending) \in AllMessages
  BY <1>1, CallsAre DEF MessagesOf
<1> QED BY <1>1, <1>2 DEF Flushed

LEMMA MessageNormalized ==
  ASSUME NEW acc \in Normalizing, NEW m \in AllMessages
  PROVE  NormalizeMessage(acc, m) \in Normalizing
<1> DEFINE content == [m EXCEPT !.content = Kept(m.content)]
           said == IF content.content = <<>> THEN <<>> ELSE <<content>>
           results == ResultIds(m)
           answers == [i \in DOMAIN results |-> Answers(results[i])]
           normalized ==
             IF UseIds(m) # <<>> /\ m.role = "assistant"
             THEN <<[content EXCEPT !.tool_calls = UseIds(m)]>>
             ELSE IF UseIds(m) # <<>> THEN said \o <<Calls(UseIds(m))>>
             ELSE IF results # <<>> THEN said \o answers
             ELSE <<content>>
<1>0. /\ acc.done \in Seq(AllMessages) /\ acc.pending \in Seq(Numbers)
      /\ acc = [done |-> acc.done, pending |-> acc.pending]
  BY DEF Normalizing
<1>1. m.content \in Seq(AllBlocks) /\ m.tool_calls \in Seq(Numbers)
  BY DEF AllMessages
<1>2. Kept(m.content) \in Seq(AllBlocks)
  BY <1>1, SelectedIs DEF Kept, Filtered
<1>3. content \in AllMessages
  BY <1>2, ContentReplaced, AnyMessages
<1> HIDE DEF content
<1>4. UseIds(m) \in Seq(Numbers) /\ results \in Seq(Numbers)
  BY IdsAre
<1>5. [content EXCEPT !.tool_calls = UseIds(m)] \in AllMessages
  BY <1>3, <1>4, CallsReplaced, AnyMessages
<1>6. Calls(UseIds(m)) \in AllMessages
  BY <1>4, CallsAre DEF MessagesOf
<1>7. answers \in Seq(AllMessages)
  <2> HIDE DEF results
  <2>1. \A i \in DOMAIN results : Answers(results[i]) \in AllMessages
    BY <1>4, AnswersAre DEF MessagesOf
  <2> QED BY <1>4, <2>1
<1>8. said \in Seq(AllMessages)
  BY <1>3
<1> HIDE DEF said, answers, results
<1>9. normalized \in Seq(AllMessages)
  BY <1>3, <1>5, <1>6, <1>7, <1>8
<1>10. Flushed(acc) \o normalized \in Seq(AllMessages)
  <2> HIDE DEF normalized
  <2> QED BY <1>9, PendingFlushed
<1>11. [done |-> Flushed(acc) \o normalized, pending |-> <<>>] \in Normalizing
  <2> HIDE DEF normalized
  <2> QED BY <1>10 DEF Normalizing
<1>12. [acc EXCEPT !.pending = acc.pending \o m.tool_calls] \in Normalizing
  <2>1. acc.pending \o m.tool_calls \in Seq(Numbers)
    BY <1>0, <1>1
  <2> HIDE DEF normalized
  <2> QED BY <1>0, <2>1 DEF Normalizing
<1>13. NormalizeMessage(acc, m) =
         IF m.role = "assistant" /\ m.tool_calls # <<>>
         THEN [acc EXCEPT !.pending = acc.pending \o m.tool_calls]
         ELSE [done |-> Flushed(acc) \o normalized, pending |-> <<>>]
  BY DEF NormalizeMessage, content, said, results, answers
<1> HIDE DEF normalized
<1> QED BY <1>11, <1>12, <1>13

LEMMA NormalizedRow ==
  ASSUME NEW base \in Normalizing, NEW s \in Seq(AllMessages)
  PROVE  \E g : /\ g[0] = base /\ g[Len(s)] = Folded(NormalizeMessage, base, s)
                /\ \A i \in 1..Len(s) : g[i] = NormalizeMessage(g[i - 1], s[i])
                /\ \A i \in 0..Len(s) : g[i] \in Normalizing
<1> DEFINE Acc == Normalizing
           n == Len(s)
           G == [i \in Nat \ {0} |-> [a \in Acc |-> IF i \in 1..n THEN NormalizeMessage(a, s[i]) ELSE a]]
           Step(f, i) == IF i = 0 THEN base ELSE NormalizeMessage(f[i - 1], s[i])
<1>1. n \in Nat /\ base \in Acc /\ \A i \in 1..n : s[i] \in AllMessages
  OBVIOUS
<1>2. \A a \in Acc, i \in 1..n : NormalizeMessage(a, s[i]) \in Acc
  BY MessageNormalized
<1>3. Folded(NormalizeMessage, base, s) = (CHOOSE f : f = [i \in 0..n |-> Step(f, i)])[n]
  BY DEF Folded
<1> HIDE DEF Acc, n
<1>4. Makes(G, Acc)
  BY <1>2 DEF Makes
<1>5. PICK f : IsRow(f, n, Acc, base, G)
  <2> HIDE DEF G
  <2> QED BY <1>1, <1>4, RowExists
<1>6. f = [i \in 0..n |-> Step(f, i)]
  <2>1. f = [i \in 0..n |-> f[i]]
    BY <1>5 DEF IsRow
  <2>2. \A i \in 0..n : f[i] = Step(f, i)
    <3> SUFFICES ASSUME NEW i \in 1..n PROVE f[i] = Step(f, i)
      BY <1>1, <1>5 DEF IsRow
    <3>1. i - 1 \in 0..n
      BY <1>1
    <3>2. f[i] = G[i][f[i - 1]] /\ f[i - 1] \in Acc
      BY <1>5, <3>1 DEF IsRow
    <3> QED BY <1>1, <3>2
  <2> HIDE DEF Step
  <2> QED BY <2>1, <2>2, Zenon
<1> DEFINE g == CHOOSE f_1 : f_1 = [i \in 0..n |-> Step(f_1, i)]
<1>7. g = [i \in 0..n |-> Step(g, i)]
  <2> HIDE DEF Step
  <2> QED BY <1>6, Zenon
<1> HIDE DEF g
<1>8. \A i \in 0..n : g[i] = Step(g, i)
  BY <1>7
<1>9. g[0] \in Acc
  BY <1>1, <1>8
<1>10. \A i \in 1..n : g[i - 1] \in Acc => g[i] \in Acc
  BY <1>1, <1>2, <1>8
<1>11. \A i \in 0..n : g[i] \in Acc
  BY <1>1, <1>9, <1>10, StaysIn
<1>12. g[0] = base /\ \A i \in 1..n : g[i] = NormalizeMessage(g[i - 1], s[i])
  BY <1>1, <1>8
<1>13. g[n] = Folded(NormalizeMessage, base, s)
  BY <1>3 DEF g
<1> QED BY <1>11, <1>12, <1>13 DEF Acc, n

LEMMA AllNormalized ==
  ASSUME NEW base \in Normalizing, NEW s \in Seq(AllMessages)
  PROVE  Folded(NormalizeMessage, base, s) \in Normalizing
<1>1. PICK g : g[Len(s)] = Folded(NormalizeMessage, base, s) /\ \A i \in 0..Len(s) : g[i] \in Normalizing
  BY NormalizedRow
<1> QED BY <1>1

LEMMA Normalized ==
  ASSUME NEW h \in Seq(AllMessages)
  PROVE  NormalizeMessages(h) \in Seq(AllMessages)
<1>1. [done |-> <<>>, pending |-> <<>>] \in Normalizing
  BY DEF Normalizing
<1>2. Folded(NormalizeMessage, [done |-> <<>>, pending |-> <<>>], h) \in Normalizing
  BY <1>1, AllNormalized
<1> QED BY <1>2, PendingFlushed DEF NormalizeMessages

LEMMA ResultsFlushed ==
  ASSUME NEW acc \in Converting
  PROVE  FlushToolResults(acc) \in Seq(MessagesOf(PlainBlocks))
<1> DEFINE content == [i \in DOMAIN acc.results |-> ToolResult(acc.results[i])]
<1>1. acc.done \in Seq(MessagesOf(PlainBlocks)) /\ acc.results \in Seq(Numbers)
  BY DEF Converting
<1>2. content \in Seq(AllBlocks)
  <2>1. \A i \in DOMAIN acc.results : ToolResult(acc.results[i]) \in AllBlocks
    BY <1>1, BlocksAre, AnyMessages
  <2> QED BY <1>1, <2>1
<1> HIDE DEF content
<1>3. Message("user", content) \in MessagesOf(PlainBlocks)
  BY <1>2, MessageIs, AnyMessages
<1> QED BY <1>1, <1>3 DEF FlushToolResults, content

LEMMA ContentConverted ==
  ASSUME NEW c \in Seq(AllBlocks)
  PROVE  ConvertContent(c) \in Seq(PlainBlocks)
<1> DEFINE chosen == {j \in DOMAIN c : c[j].type \in {"text", "tagged"}}
           left == Selected(c, chosen)
<1>1. left \in Seq(AllBlocks)
  BY SelectedIs
<1>2. \A j \in DOMAIN left : left[j] \in PlainBlocks
  <2> SUFFICES ASSUME NEW j \in DOMAIN left PROVE left[j] \in PlainBlocks
    OBVIOUS
  <2>1. PICK k \in chosen \cap DOMAIN c : left[j] = c[k]
    <3> HIDE DEF chosen
    <3> QED BY SelectedElements
  <2> QED BY <2>1 DEF PlainBlocks, IsThinking
<1> HIDE DEF left
<1>3. left \in Seq(PlainBlocks)
  BY <1>1, <1>2, SeqIn
<1> QED BY <1>3 DEF left, ConvertContent, Filtered

LEMMA MessageConverted ==
  ASSUME NEW acc \in Converting, NEW m \in AllMessages
  PROVE  ConvertMessage(acc, m) \in Converting
<1> DEFINE uses == IF m.role = "assistant" THEN UsesOf(m) ELSE <<>>
           content == ConvertContent(m.content) \o uses
           done == FlushToolResults(acc)
<1>0. /\ acc.done \in Seq(MessagesOf(PlainBlocks)) /\ acc.results \in Seq(Numbers)
      /\ acc = [done |-> acc.done, results |-> acc.results]
      /\ done \in Seq(MessagesOf(PlainBlocks))
  BY ResultsFlushed DEF Converting
<1> HIDE DEF done
<1>1. /\ m.content \in Seq(AllBlocks) /\ m.tool_calls \in Seq(Numbers)
      /\ m.tool_call_id \in Numbers /\ m.role \in {"system", "user", "assistant", "tool"}
  BY DEF AllMessages
<1>2. CASE m.role = "tool"
  <2>1. [acc EXCEPT !.results = Append(acc.results, m.tool_call_id)] \in Converting
    <3>1. Append(acc.results, m.tool_call_id) \in Seq(Numbers)
      BY <1>0, <1>1
    <3> QED BY <1>0, <3>1 DEF Converting
  <2> QED BY <1>2, <2>1 DEF ConvertMessage
<1>3. CASE m.role \in {"user", "assistant"}
  <2>1. uses \in Seq(PlainBlocks)
    <3>1. \A i \in DOMAIN m.tool_calls : ToolUse(m.tool_calls[i], None) \in PlainBlocks
      BY <1>1, BlocksAre
    <3>2. UsesOf(m) \in Seq(PlainBlocks)
      BY <1>1, <3>1 DEF UsesOf
    <3> QED BY <3>2
  <2> HIDE DEF uses
  <2>2. content \in Seq(PlainBlocks)
    BY <1>1, <2>1, ContentConverted
  <2> HIDE DEF content
  <2>3. content \in Seq(AllBlocks)
    BY <2>2, FewerBlocks, AnyMessages
  <2>4. Message(m.role, content) \in MessagesOf(PlainBlocks)
    BY <1>1, <2>2, <2>3, MessageIs, AnyMessages
  <2>5. [done |-> Append(done, Message(m.role, content)), results |-> <<>>] \in Converting
    BY <1>0, <2>4 DEF Converting
  <2>6. ConvertMessage(acc, m) = [done |-> Append(done, Message(m.role, content)), results |-> <<>>]
    BY <1>3 DEF ConvertMessage, done, content, uses
  <2> QED BY <2>5, <2>6
<1>4. CASE m.role = "system"
  <2>1. [done |-> done, results |-> <<>>] \in Converting
    BY <1>0 DEF Converting
  <2> QED BY <1>4, <2>1 DEF ConvertMessage, done
<1> QED BY <1>1, <1>2, <1>3, <1>4

LEMMA ConvertedRow ==
  ASSUME NEW base \in Converting, NEW s \in Seq(AllMessages)
  PROVE  \E g : /\ g[0] = base /\ g[Len(s)] = Folded(ConvertMessage, base, s)
                /\ \A i \in 1..Len(s) : g[i] = ConvertMessage(g[i - 1], s[i])
                /\ \A i \in 0..Len(s) : g[i] \in Converting
<1> DEFINE Acc == Converting
           n == Len(s)
           G == [i \in Nat \ {0} |-> [a \in Acc |-> IF i \in 1..n THEN ConvertMessage(a, s[i]) ELSE a]]
           Step(f, i) == IF i = 0 THEN base ELSE ConvertMessage(f[i - 1], s[i])
<1>1. n \in Nat /\ base \in Acc /\ \A i \in 1..n : s[i] \in AllMessages
  OBVIOUS
<1>2. \A a \in Acc, i \in 1..n : ConvertMessage(a, s[i]) \in Acc
  BY MessageConverted
<1>3. Folded(ConvertMessage, base, s) = (CHOOSE f : f = [i \in 0..n |-> Step(f, i)])[n]
  BY DEF Folded
<1> HIDE DEF Acc, n
<1>4. Makes(G, Acc)
  BY <1>2 DEF Makes
<1>5. PICK f : IsRow(f, n, Acc, base, G)
  <2> HIDE DEF G
  <2> QED BY <1>1, <1>4, RowExists
<1>6. f = [i \in 0..n |-> Step(f, i)]
  <2>1. f = [i \in 0..n |-> f[i]]
    BY <1>5 DEF IsRow
  <2>2. \A i \in 0..n : f[i] = Step(f, i)
    <3> SUFFICES ASSUME NEW i \in 1..n PROVE f[i] = Step(f, i)
      BY <1>1, <1>5 DEF IsRow
    <3>1. i - 1 \in 0..n
      BY <1>1
    <3>2. f[i] = G[i][f[i - 1]] /\ f[i - 1] \in Acc
      BY <1>5, <3>1 DEF IsRow
    <3> QED BY <1>1, <3>2
  <2> HIDE DEF Step
  <2> QED BY <2>1, <2>2, Zenon
<1> DEFINE g == CHOOSE f_1 : f_1 = [i \in 0..n |-> Step(f_1, i)]
<1>7. g = [i \in 0..n |-> Step(g, i)]
  <2> HIDE DEF Step
  <2> QED BY <1>6, Zenon
<1> HIDE DEF g
<1>8. \A i \in 0..n : g[i] = Step(g, i)
  BY <1>7
<1>9. g[0] \in Acc
  BY <1>1, <1>8
<1>10. \A i \in 1..n : g[i - 1] \in Acc => g[i] \in Acc
  BY <1>1, <1>2, <1>8
<1>11. \A i \in 0..n : g[i] \in Acc
  BY <1>1, <1>9, <1>10, StaysIn
<1>12. g[0] = base /\ \A i \in 1..n : g[i] = ConvertMessage(g[i - 1], s[i])
  BY <1>1, <1>8
<1>13. g[n] = Folded(ConvertMessage, base, s)
  BY <1>3 DEF g
<1> QED BY <1>11, <1>12, <1>13 DEF Acc, n

LEMMA AllConverted ==
  ASSUME NEW base \in Converting, NEW s \in Seq(AllMessages)
  PROVE  Folded(ConvertMessage, base, s) \in Converting
<1>1. PICK g : g[Len(s)] = Folded(ConvertMessage, base, s) /\ \A i \in 0..Len(s) : g[i] \in Converting
  BY ConvertedRow
<1> QED BY <1>1

LEMMA Converted ==
  ASSUME NEW h \in Seq(AllMessages)
  PROVE  ConvertOpenaiToAnthropic(h) \in Seq(MessagesOf(PlainBlocks))
<1> DEFINE start == [done |-> <<>>, results |-> <<>>]
           converted == FlushToolResults(Folded(ConvertMessage, start, h))
<1>1. start \in Converting
  BY DEF Converting
<1>2. Folded(ConvertMessage, start, h) \in Converting
  <2> HIDE DEF start
  <2> QED BY <1>1, AllConverted
<1>3. converted \in Seq(MessagesOf(PlainBlocks))
  BY <1>2, ResultsFlushed
<1> DEFINE empty == Says("user", "Empty message list")
<1>4. empty \in MessagesOf(PlainBlocks)
  BY SaysIs DEF Texts
<1> HIDE DEF empty
<1>5. <<empty>> \in Seq(MessagesOf(PlainBlocks))
  BY <1>4
<1> QED BY <1>3, <1>5 DEF ConvertOpenaiToAnthropic, empty
-----------------------------------------------------------------------------
(* Merging gives messages.                                                      *)
LEMMA ImageIsFinite ==
  ASSUME NEW n \in Nat, NEW D \in SUBSET (1..n), NEW f
  PROVE  IsFiniteSet({f[i] : i \in D})
<1> DEFINE T == {f[i] : i \in D}
           g == [i \in D |-> f[i]]
<1>1. IsFiniteSet(D)
  <2>1. IsFiniteSet(1..n)
    BY FS_Interval
  <2> QED BY <2>1, FS_Subset
<1>2. g \in [D -> T] /\ \A t \in T : \E i \in D : g[i] = t
  OBVIOUS
<1> HIDE DEF g, T
<1>3. g \in Surjection(D, T)
  BY <1>2 DEF Surjection
<1>4. IsFiniteSet(T)
  BY <1>1, <1>3, FS_Surjection
<1> QED BY <1>4 DEF T

LEMMA CallsOfMessage ==
  ASSUME NEW m \in AllMessages
  PROVE  ToolCalls(m) \in SUBSET Numbers /\ IsFiniteSet(ToolCalls(m))
<1> DEFINE D == {i \in DOMAIN m.content : m.content[i].type = "tool_use"}
           f == [i \in D |-> m.content[i].id]
<1>1. m.content \in Seq(AllBlocks) /\ m.tool_calls \in Seq(Numbers)
  BY DEF AllMessages
<1>2. Uses(m) = {f[i] : i \in D}
  BY DEF Uses, Ids, Blocks
<1>3. D \in SUBSET (1..Len(m.content)) /\ Len(m.content) \in Nat
  BY <1>1
<1>4. \A i \in D : f[i] \in Numbers
  <2>1. \A b \in AllBlocks : b.id \in Numbers
    BY DEF AllBlocks
  <2> QED BY <1>1, <2>1
<1> HIDE DEF D, f
<1>5. IsFiniteSet(Uses(m)) /\ Uses(m) \in SUBSET Numbers
  BY <1>2, <1>3, <1>4, ImageIsFinite
<1>6. ToSet(m.tool_calls) = {m.tool_calls[i] : i \in DOMAIN m.tool_calls}
  BY DEF ToSet
<1>7. IsFiniteSet(ToSet(m.tool_calls)) /\ ToSet(m.tool_calls) \in SUBSET Numbers
  <2>1. DOMAIN m.tool_calls \in SUBSET (1..Len(m.tool_calls)) /\ Len(m.tool_calls) \in Nat
    BY <1>1
  <2>2. IsFiniteSet({m.tool_calls[i] : i \in DOMAIN m.tool_calls})
    BY <2>1, ImageIsFinite
  <2> QED BY <1>1, <1>6, <2>2
<1> QED BY <1>5, <1>7, FS_Union DEF ToolCalls

LEMMA CallsOfHistory ==
  ASSUME NEW h \in Seq(AllMessages)
  PROVE  AllCalls(h) \in SUBSET Numbers /\ IsFiniteSet(AllCalls(h))
<1> DEFINE f == [i \in DOMAIN h |-> ToolCalls(h[i])]
           sets == {f[i] : i \in DOMAIN h}
<1>1. AllCalls(h) = UNION sets
  BY DEF AllCalls, Messages
<1>2. \A T \in sets : T \in SUBSET Numbers /\ IsFiniteSet(T)
  BY CallsOfMessage
<1>3. IsFiniteSet(sets)
  <2>1. DOMAIN h \in SUBSET (1..Len(h)) /\ Len(h) \in Nat
    OBVIOUS
  <2> HIDE DEF f
  <2> QED BY <2>1, ImageIsFinite
<1> HIDE DEF sets
<1> QED BY <1>1, <1>2, <1>3, FS_UNION

LEMMA CompleteIs ==
  ASSUME NEW h \in Seq(AllMessages), NEW orphans, NEW known,
         \A id \in orphans : known[id] # None => known[id] \in AllMessages
  PROVE  Complete(h, orphans, known) \in Seq(AllMessages)
<1> DEFINE found(m) == {id \in ToolCalls(m) \cap orphans : known[id] # None}
           f == [i \in DOMAIN h |-> <<h[i]>> \o [k \in DOMAIN SetToSeq(found(h[i])) |->
                                                   known[SetToSeq(found(h[i]))[k]]]]
<1>1. ASSUME NEW m \in AllMessages
      PROVE  <<m>> \o [k \in DOMAIN SetToSeq(found(m)) |-> known[SetToSeq(found(m))[k]]]
               \in Seq(AllMessages)
  <2> DEFINE ids == SetToSeq(found(m))
  <2>1. IsFiniteSet(found(m))
    <3>1. found(m) \in SUBSET ToolCalls(m)
      OBVIOUS
    <3> QED BY <3>1, CallsOfMessage, FS_Subset
  <2>2. ids \in Seq(found(m))
    <3> HIDE DEF found
    <3> QED BY <2>1, SetToSeqIs
  <2> HIDE DEF ids
  <2>3. \A k \in DOMAIN ids : known[ids[k]] \in AllMessages
    BY <2>2
  <2>4. [k \in DOMAIN ids |-> known[ids[k]]] \in Seq(AllMessages)
    BY <2>2, <2>3
  <2>5. <<m>> \o [k \in DOMAIN ids |-> known[ids[k]]] \in Seq(AllMessages)
    BY <2>4
  <2> QED BY <2>5 DEF ids
<1>2. \A i \in DOMAIN h : f[i] \in Seq(AllMessages)
  <2> HIDE DEF found
  <2> QED BY <1>1
<1>3. f = [i \in DOMAIN h |-> f[i]]
  OBVIOUS
<1>4. Complete(h, orphans, known) = FlattenSeq(f)
  BY DEF Complete
<1> HIDE DEF f
<1> QED BY <1>2, <1>3, <1>4, ManyAre

LEMMA AuthResultsAre ==
  ASSUME NEW history \in Seq(AllMessages), NEW ids
  PROVE  \A id \in ids : AuthResults(history, ids)[id] # None
                           => AuthResults(history, ids)[id] \in AllMessages
<1> SUFFICES ASSUME NEW id \in ids, AuthResults(history, ids)[id] # None
             PROVE  AuthResults(history, ids)[id] \in AllMessages
  OBVIOUS
<1> DEFINE with == {i \in DOMAIN history : id \in ToolResults(history[i])}
           last == CHOOSE i \in with : \A j \in with : j <= i
<1>1. AuthResults(history, ids)[id] = IF with = {} THEN None ELSE history[last]
  BY DEF AuthResults
<1>2. with # {}
  BY <1>1
<1>3. last \in with
  <2>1. with \in SUBSET (0..Len(history)) /\ Len(history) \in Nat
    OBVIOUS
  <2> HIDE DEF with
  <2>2. \E i \in with : \A j \in with : j <= i
    BY <1>2, <2>1, Greatest
  <2> QED BY <2>2
<1> HIDE DEF last
<1> QED BY <1>1, <1>2, <1>3

LEMMA InsertedAt ==
  ASSUME NEW S, NEW h \in Seq(S), NEW k \in 1..(Len(h) + 1), NEW e \in S
  PROVE  InsertAt(h, k, e) \in Seq(S)
<1>1. SubSeq(h, 1, k - 1) \in Seq(S) /\ SubSeq(h, k, Len(h)) \in Seq(S)
  OBVIOUS
<1>2. SubSeq(h, 1, k - 1) \o <<e>> \o SubSeq(h, k, Len(h)) \in Seq(S)
  BY <1>1
<1> QED BY <1>2 DEF InsertAt

LEMMA PlaceholderInserted ==
  ASSUME NEW h \in Seq(AllMessages), NEW id \in Numbers
  PROVE  InsertPlaceholder(h, id) \in Seq(AllMessages)
<1> DEFINE with == {i \in DOMAIN h : h[i].role = "assistant" /\ id \in ToolCalls(h[i])}
           first == Holder(h, id)
           Brings(j) == h[j].role = "user" /\ Blocks(h[j], "tool_result") # {}
           k == AfterResults(h, first)
           open == {j \in (first + 1)..(Len(h) + 1) : j <= Len(h) => ~Brings(j)}
<1>1. CASE first = None
  BY <1>1 DEF InsertPlaceholder
<1>2. CASE first # None
  <2>1. with # {} /\ first = CHOOSE i \in with : \A j \in with : i <= j
    BY <1>2 DEF Holder
  <2>2. first \in with
    <3>1. with \in SUBSET Nat
      OBVIOUS
    <3> HIDE DEF with, first
    <3>2. \E i \in with : \A j \in with : i <= j
      BY <2>1, <3>1, Least
    <3> QED BY <2>1, <3>2
  <2>3. first \in 1..Len(h) /\ Len(h) \in Nat
    <3> HIDE DEF first
    <3> QED BY <2>2
  <2> HIDE DEF first, with
  <2>4. k \in (first + 1)..(Len(h) + 1)
    <3>1. open \in SUBSET Nat /\ Len(h) + 1 \in open
      BY <2>3
    <3>2. PICK j \in open : \A l \in open : j <= l
      <4> HIDE DEF open
      <4> QED BY <3>1, Least
    <3>3. j \in (first + 1)..(Len(h) + 1) /\ (j <= Len(h) => ~Brings(j))
      BY <3>2
    <3>4. ASSUME NEW l \in (first + 1)..(j - 1) PROVE Brings(l)
      <4>1. l \notin open
        <5> HIDE DEF open
        <5> QED BY <2>3, <3>2, <3>3
      <4> QED BY <2>3, <3>3, <4>1
    <3> QED BY <3>3, <3>4 DEF AfterResults
  <2> HIDE DEF k
  <2>5. Placeholder(id) \in AllMessages
    <3>1. ToolResult(id) \in AllBlocks
      BY BlocksAre, AnyMessages
    <3>2. <<ToolResult(id)>> \in Seq(AllBlocks)
      BY <3>1
    <3> QED BY <3>2, MessageIs, AnyMessages DEF Placeholder
  <2>6. k \in 1..(Len(h) + 1)
    BY <2>3, <2>4
  <2>7. InsertAt(h, k, Placeholder(id)) \in Seq(AllMessages)
    BY <2>5, <2>6, InsertedAt
  <2> QED BY <1>2, <2>7 DEF InsertPlaceholder, k, first
<1> QED BY <1>1, <1>2

LEMMA AllInserted ==
  ASSUME NEW base \in Seq(AllMessages), NEW s \in Seq(Numbers)
  PROVE  Folded(InsertPlaceholder, base, s) \in Seq(AllMessages)
<1> DEFINE Acc == Seq(AllMessages)
           n == Len(s)
           G == [i \in Nat \ {0} |-> [a \in Acc |-> IF i \in 1..n THEN InsertPlaceholder(a, s[i]) ELSE a]]
           Step(f, i) == IF i = 0 THEN base ELSE InsertPlaceholder(f[i - 1], s[i])
<1>1. n \in Nat /\ base \in Acc /\ \A i \in 1..n : s[i] \in Numbers
  OBVIOUS
<1>2. \A a \in Acc, i \in 1..n : InsertPlaceholder(a, s[i]) \in Acc
  BY PlaceholderInserted
<1>3. Folded(InsertPlaceholder, base, s) = (CHOOSE f : f = [i \in 0..n |-> Step(f, i)])[n]
  BY DEF Folded
<1> HIDE DEF Acc, n
<1>4. Makes(G, Acc)
  BY <1>2 DEF Makes
<1>5. PICK f : IsRow(f, n, Acc, base, G)
  <2> HIDE DEF G
  <2> QED BY <1>1, <1>4, RowExists
<1>6. f = [i \in 0..n |-> Step(f, i)]
  <2>1. f = [i \in 0..n |-> f[i]]
    BY <1>5 DEF IsRow
  <2>2. \A i \in 0..n : f[i] = Step(f, i)
    <3> SUFFICES ASSUME NEW i \in 1..n PROVE f[i] = Step(f, i)
      BY <1>1, <1>5 DEF IsRow
    <3>1. i - 1 \in 0..n
      BY <1>1
    <3>2. f[i] = G[i][f[i - 1]] /\ f[i - 1] \in Acc
      BY <1>5, <3>1 DEF IsRow
    <3> QED BY <1>1, <3>2
  <2> HIDE DEF Step
  <2> QED BY <2>1, <2>2, Zenon
<1> DEFINE g == CHOOSE f_1 : f_1 = [i \in 0..n |-> Step(f_1, i)]
<1>7. g = [i \in 0..n |-> Step(g, i)]
  <2> HIDE DEF Step
  <2> QED BY <1>6, Zenon
<1> HIDE DEF g
<1>8. \A i \in 0..n : g[i] = Step(g, i)
  BY <1>7
<1>9. g[0] \in Acc
  BY <1>1, <1>8
<1>10. \A i \in 1..n : g[i - 1] \in Acc => g[i] \in Acc
  BY <1>1, <1>2, <1>8
<1>11. \A i \in 0..n : g[i] \in Acc
  BY <1>1, <1>9, <1>10, StaysIn
<1> QED BY <1>1, <1>3, <1>11 DEF Acc, g

LEMMA CallsLeftOut ==
  ASSUME NEW m \in AllMessages, NEW orphans
  PROVE  WithoutCalls(m, orphans) \in Seq(AllMessages)
<1> DEFINE ids == Filtered(m.tool_calls, LAMBDA id : id \notin orphans)
           left == Filtered(m.content, LAMBDA b : b.type = "tool_use" => b.id \notin orphans)
           one == [m EXCEPT !.tool_calls = ids]
           other == [m EXCEPT !.content = left]
<1>1. m.content \in Seq(AllBlocks) /\ m.tool_calls \in Seq(Numbers)
  BY DEF AllMessages
<1>2. ids \in Seq(Numbers) /\ left \in Seq(AllBlocks)
  BY <1>1, SelectedIs DEF Filtered
<1> HIDE DEF ids, left
<1>3. one \in AllMessages /\ other \in AllMessages
  BY <1>2, CallsReplaced, ContentReplaced, AnyMessages
<1> HIDE DEF one, other
<1>4. WithoutCalls(m, orphans) \in {<<>>, <<m>>, <<one>>, <<other>>}
  BY DEF WithoutCalls, ids, left, one, other
<1>5. {<<>>, <<m>>, <<one>>, <<other>>} \subseteq Seq(AllMessages)
  BY <1>3
<1> QED BY <1>4, <1>5

LEMMA OrphansRecovered ==
  ASSUME NEW h \in Seq(AllMessages), NEW history \in Seq(AllMessages),
         NEW orphans \in SUBSET Numbers, IsFiniteSet(orphans)
  PROVE  MergeWithToolChainRecovery(h, history, orphans) \in Seq(AllMessages)
<1> DEFINE merged == Complete(h, orphans, AuthResults(history, orphans))
           missing == orphans \ AllResults(merged)
           f == [i \in DOMAIN merged |-> WithoutCalls(merged[i], missing)]
<1>1. merged \in Seq(AllMessages)
  <2>1. \A id \in orphans : AuthResults(history, orphans)[id] # None
                              => AuthResults(history, orphans)[id] \in AllMessages
    BY AuthResultsAre
  <2> QED BY <2>1, CompleteIs
<1> HIDE DEF merged
<1>2. missing \in SUBSET Numbers /\ IsFiniteSet(missing)
  BY FS_Subset
<1> HIDE DEF missing
<1>3. AttemptOrphanToolRetry(merged, missing) \in Seq(AllMessages)
  <2>1. SetToSeq(missing) \in Seq(Numbers)
    BY <1>2, SetToSeqIs
  <2> QED BY <1>1, <2>1, AllInserted DEF AttemptOrphanToolRetry
<1>4. FilterOrphanToolUses(merged, missing) \in Seq(AllMessages)
  <2>1. f = [i \in DOMAIN merged |-> f[i]] /\ \A i \in DOMAIN merged : f[i] \in Seq(AllMessages)
    BY <1>1, CallsLeftOut
  <2>2. FilterOrphanToolUses(merged, missing) = FlattenSeq(f)
    BY DEF FilterOrphanToolUses
  <2> HIDE DEF f
  <2> QED BY <1>1, <2>1, <2>2, ManyAre
<1> QED BY <1>3, <1>4 DEF MergeWithToolChainRecovery, merged, missing

LEMMA PositionsMerged ==
  ASSUME NEW h \in Seq(AllMessages), NEW history \in Seq(AllMessages)
  PROVE  MergeByPosition(h, history) \in Seq(AllMessages)
<1> DEFINE n == IF Len(h) < Len(history) THEN Len(h) ELSE Len(history)
           longer == IF Len(h) > Len(history) THEN h ELSE history
           f == [i \in 1..n |-> MergeAt(history[i], h[i])]
<1>1. n \in Nat /\ n <= Len(h) /\ n <= Len(history) /\ n <= Len(longer)
      /\ longer \in Seq(AllMessages)
  OBVIOUS
<1> HIDE DEF n, longer
<1>2. ASSUME NEW a \in AllMessages, NEW c \in AllMessages
      PROVE  MergeAt(a, c) \in Seq(AllMessages)
  <2>1. MergeAt(a, c) \in {<<a>>, <<a, c>>, <<c>>}
    BY DEF MergeAt
  <2>2. {<<a>>, <<a, c>>, <<c>>} \subseteq Seq(AllMessages)
    OBVIOUS
  <2> QED BY <2>1, <2>2
<1>3. \A i \in 1..n : history[i] \in AllMessages /\ h[i] \in AllMessages
  BY <1>1
<1>4. f \in Seq(Seq(AllMessages))
  <2>1. \A i \in 1..n : MergeAt(history[i], h[i]) \in Seq(AllMessages)
    BY <1>2, <1>3
  <2> QED BY <1>1, <2>1
<1> HIDE DEF f
<1>5. FlattenSeq(f) \in Seq(AllMessages)
  BY <1>4, FlattenIs
<1>6. SubSeq(longer, n + 1, Len(longer)) \in Seq(AllMessages)
  BY <1>1
<1>7. FlattenSeq(f) \o SubSeq(longer, n + 1, Len(longer)) \in Seq(AllMessages)
  BY <1>5, <1>6
<1> QED BY <1>7 DEF MergeByPosition, n, longer, f

LEMMA Merged ==
  ASSUME NEW h \in Seq(AllMessages), NEW history \in Seq(AllMessages)
  PROVE  MergeWithClientHistory(h, history, [id \in CallIds |-> None]) \in Seq(AllMessages)
<1> DEFINE orphans == AllCalls(h) \ AllResults(h)
           results == [id \in CallIds |-> None]
           known == [id \in orphans |-> IF id \in DOMAIN results THEN results[id] ELSE None]
           merged == RecoverFromCache(known, orphans, h)
           remaining == orphans \ AllResults(merged)
<1>1. orphans \in SUBSET Numbers /\ IsFiniteSet(orphans)
  BY CallsOfHistory, FS_Subset
<1>2. \A id \in orphans : known[id] = None
  OBVIOUS
<1> HIDE DEF orphans, known
<1>3. merged \in Seq(AllMessages)
  BY <1>2, CompleteIs DEF RecoverFromCache
<1> HIDE DEF merged
<1>4. remaining \in SUBSET Numbers /\ IsFiniteSet(remaining)
  BY <1>1, FS_Subset
<1> HIDE DEF remaining
<1>5. MergeWithToolChainRecovery(merged, history, remaining) \in Seq(AllMessages)
  BY <1>3, <1>4, OrphansRecovered
<1>6. MergeByPosition(h, history) \in Seq(AllMessages)
  BY PositionsMerged
<1> QED BY <1>3, <1>5, <1>6 DEF MergeWithClientHistory, orphans, known, merged, remaining
-----------------------------------------------------------------------------
(* What the chat endpoint does for a client that it sanitizes leaves no         *)
(* thinking without a signature: it is sanitized, or there was none.            *)
LEMMA Said ==
  ASSUME NEW h \in Seq(AllMessages), NEW m
  PROVE  m \in Messages(Roles(h, "assistant")) <=> m \in Messages(h) /\ m.role = "assistant"
<1> DEFINE chosen == {i \in DOMAIN h : h[i].role = "assistant"}
           r == Selected(h, chosen)
<1>1. Roles(h, "assistant") = r
  BY DEF Roles, Filtered
<1>2. \A j \in DOMAIN r : \E i \in chosen : r[j] = h[i]
  <2> HIDE DEF chosen
  <2> QED BY SelectedElements
<1>3. ASSUME NEW i \in chosen \cap DOMAIN h PROVE \E j \in DOMAIN r : r[j] = h[i]
  <2> HIDE DEF chosen
  <2>1. \A k \in chosen \cap DOMAIN h : \E l \in DOMAIN r : r[l] = h[k]
    BY SelectedElements
  <2> QED BY <2>1
<1> HIDE DEF r
<1>4. m \in Messages(r) => m \in Messages(h) /\ m.role = "assistant"
  BY <1>2 DEF Messages
<1>5. m \in Messages(h) /\ m.role = "assistant" => m \in Messages(r)
  BY <1>3 DEF Messages
<1> QED BY <1>1, <1>4, <1>5

LEMMA NothingThought ==
  ASSUME NEW h \in Seq(AllMessages),
         \A m \in Messages(Roles(h, "assistant")) : Blocks(m, "thinking") = {}
  PROVE  h \in Seq(MessagesOf(PlainBlocks))
<1>1. ASSUME NEW i \in DOMAIN h PROVE h[i] \in MessagesOf(PlainBlocks)
  <2>1. h[i] \in AllMessages
    OBVIOUS
  <2>2. ASSUME h[i].role = "assistant" PROVE h[i].content \in Seq(PlainBlocks)
    <3>1. h[i] \in Messages(h)
      BY DEF Messages
    <3>2. Blocks(h[i], "thinking") = {}
      BY <2>2, <3>1, Said
    <3>3. h[i].content \in Seq(AllBlocks)
      BY <2>1 DEF AllMessages
    <3>4. \A j \in DOMAIN h[i].content : h[i].content[j].type # "thinking"
      BY <3>2 DEF Blocks
    <3>5. \A j \in 1..Len(h[i].content) : h[i].content[j] \in PlainBlocks
      BY <3>3, <3>4 DEF PlainBlocks, IsThinking
    <3> QED BY <3>3, <3>5, SeqIn
  <2> QED BY <2>1, <2>2 DEF MessagesOf
<1> QED BY <1>1

LEMMA SignaturesRecovered ==
  ASSUME NEW h \in Seq(AllMessages), NEW thinking \in BOOLEAN, NEW caches \in Caches
  PROVE  RecoverSignaturesForClaudeCode(h, thinking, caches).messages
           \in Seq(MessagesOf(SignedBlocks))
<1> DEFINE signed == SignaturesIn(h)
           context == IF signed = <<>> THEN None ELSE Last(signed).sig
           blocks == \E m \in Messages(Roles(h, "assistant")) : Blocks(m, "thinking") # {}
<1>1. Sanitize(h, TRUE, context, caches).messages \in Seq(MessagesOf(SignedBlocks))
  <2> HIDE DEF context
  <2> QED BY SanitizeSigns
<1>2. ~blocks => h \in Seq(MessagesOf(SignedBlocks))
  BY NothingThought, FewerBlocks, AnyMessages
<1> HIDE DEF blocks, context
<1> QED BY <1>1, <1>2 DEF RecoverSignaturesForClaudeCode, blocks, context

LEMMA Prepared ==
  ASSUME NEW h \in Seq(AllMessages), NEW history \in Seq(AllMessages), NEW sig,
         NEW thinking \in BOOLEAN, NEW caches \in Caches
  PROVE  Prepare(h, history, sig, thinking, caches) \in Seq(MessagesOf(SignedBlocks))
<1> DEFINE merged == MergeWithClientHistory(h, history, [id \in CallIds |-> None])
           context == IF sig # None THEN sig ELSE SignatureOfLast(merged, caches)
<1>1. merged \in Seq(AllMessages)
  BY Merged
<1> HIDE DEF merged
<1>2. Sanitize(merged, TRUE, context, caches).messages \in Seq(MessagesOf(SignedBlocks))
  <2> HIDE DEF context
  <2> QED BY <1>1, SanitizeSigns
<1>3. ~HasThinking(merged) => merged \in Seq(MessagesOf(SignedBlocks))
  <2>1. ~HasThinking(merged) =>
          \A m \in Messages(Roles(merged, "assistant")) : Blocks(m, "thinking") = {}
    BY DEF HasThinking, Blocks
  <2> QED BY <1>1, <2>1, NothingThought, FewerBlocks, AnyMessages
<1> HIDE DEF context
<1> QED BY <1>2, <1>3 DEF Prepare, merged, context
-----------------------------------------------------------------------------
(* The inductive invariant.  Fit is what a client may be answered with: when    *)
(* the gateway repairs its thinking, what is kept for it and what the endpoint  *)
(* makes of it is signed.                                                       *)
Repaired == client.endpoint = "chat" /\ client.kind \notin {"plain", "undetected"}
Fit == IF Repaired THEN SignedBlocks ELSE AllBlocks

Records == [history : Seq(AllMessages), sig : Signatures \cup {None}]
Typed ==
  /\ client \in Clients /\ turns \in 0..MaxTurns
  /\ stage \in {"idle", "arrived", "read", "ready", "sent"}
  /\ backend \in 0..Backends /\ attempt \in 0..MaxRetries
  /\ chat \in Seq(AllMessages) /\ body \in Seq(AllMessages) /\ sent \in Seq(AllMessages)
  /\ auth \in Records
KeptFits == /\ anchors \in [{Scid} -> Seq(MessagesOf(Fit))]
            /\ cache \in Seq(Entries(Seq(MessagesOf(Fit))))
BodyFits == stage \in {"ready", "sent"} => body \in Seq(MessagesOf(Fit))
SentFits == stage = "sent" =>
              sent \in Seq(MessagesOf(IF attempt = 0 THEN Fit ELSE PlainBlocks))
IInv == Typed /\ KeptFits /\ BodyFits /\ SentFits

LEMMA FitIs ==
  /\ Fit \in SUBSET AllBlocks /\ PlainBlocks \subseteq Fit
  /\ Repaired => Fit = SignedBlocks
  /\ client.endpoint = "messages" => Fit = AllBlocks
  BY AnyMessages DEF Fit, Repaired

LEMMA FitMessages ==
  /\ Seq(MessagesOf(Fit)) \subseteq Seq(AllMessages)
  /\ Seq(MessagesOf(PlainBlocks)) \subseteq Seq(MessagesOf(Fit))
  /\ Seq(MessagesOf(PlainBlocks)) \subseteq Seq(AllMessages)
<1>1. Fit \subseteq AllBlocks /\ PlainBlocks \subseteq Fit /\ PlainBlocks \subseteq AllBlocks
  BY FitIs, AnyMessages
<1> QED BY <1>1, FewerBlocks, AnyMessages

LEMMA TypesStart == Init => IInv
<1> SUFFICES ASSUME Init PROVE IInv
  OBVIOUS
<1>1. Says("system", "definitions") \in AllMessages
  BY SaysIs DEF Texts, MessagesOf
<1>2. chat \in Seq(AllMessages)
  <2> DEFINE definitions == Says("system", "definitions")
  <2>1. <<definitions>> \in Seq(AllMessages) /\ <<>> \in Seq(AllMessages)
    <3>1. definitions \in AllMessages
      BY <1>1
    <3> HIDE DEF definitions
    <3> QED BY <3>1
  <2>2. chat \in {<<>>, <<definitions>>}
    BY DEF Init
  <2> HIDE DEF definitions
  <2> QED BY <2>1, <2>2
<1>3. auth \in Records
  BY DEF Init, Empty, Records
<1>4. Typed
  BY <1>2, <1>3, PipelineAssumption DEF Typed, Init
<1>5. KeptFits
  BY DEF KeptFits, Init
<1> QED BY <1>4, <1>5 DEF IInv, BodyFits, SentFits, Init
-----------------------------------------------------------------------------
(* Steps of the client.                                                         *)
LEMMA OpenCallsAre ==
  ASSUME chat \in Seq(AllMessages)
  PROVE  OpenCalls \in Seq(Numbers)
<1>1. CASE chat = <<>>
  BY <1>1 DEF OpenCalls
<1>2. CASE chat # <<>>
  <2> DEFINE m == Last(chat)
  <2>1. m \in AllMessages
    BY <1>2 DEF Last
  <2> HIDE DEF m
  <2>2. m.tool_calls \in Seq(Numbers) /\ UseIds(m) \in Seq(Numbers)
    BY <2>1, IdsAre DEF AllMessages
  <2>3. m.tool_calls \o UseIds(m) \in Seq(Numbers)
    BY <2>2
  <2> QED BY <1>2, <2>3 DEF OpenCalls, m
<1> QED BY <1>1, <1>2

LEMMA ResultsAre ==
  ASSUME chat \in Seq(AllMessages)
  PROVE  Results \in Seq(AllMessages)
<1> DEFINE calls == OpenCalls
           content == [i \in DOMAIN calls |-> ToolResult(calls[i])]
           answers == [i \in DOMAIN calls |-> Answers(calls[i])]
<1>1. calls \in Seq(Numbers)
  BY OpenCallsAre
<1> HIDE DEF calls
<1>2. content \in Seq(AllBlocks)
  <2>1. \A i \in DOMAIN calls : ToolResult(calls[i]) \in AllBlocks
    BY <1>1, BlocksAre, AnyMessages
  <2> QED BY <1>1, <2>1
<1>3. answers \in Seq(AllMessages)
  <2>1. \A i \in DOMAIN calls : Answers(calls[i]) \in AllMessages
    BY <1>1, AnswersAre DEF MessagesOf
  <2> QED BY <1>1, <2>1
<1> HIDE DEF content, answers
<1>4. Message("user", content) \in AllMessages
  BY <1>2, MessageIs, AnyMessages
<1>5. <<Message("user", content)>> \in Seq(AllMessages)
  BY <1>4
<1> QED BY <1>3, <1>5 DEF Results, calls, content, answers

LEMMA AskedIs ==
  ASSUME NEW turn \in Nat
  PROVE  Asked(turn) \in AllMessages
<1>1. Block("text", "ask", turn, None) \in AllBlocks
  BY DEF Block, AllBlocks, Types, Texts, Numbers
<1>2. <<Block("text", "ask", turn, None)>> \in Seq(AllBlocks)
  BY <1>1
<1> QED BY <1>2, MessageIs, AnyMessages DEF Asked

LEMMA AskKeeps == ASSUME IInv, Ask PROVE IInv'
<1> USE DEF IInv
<1>1. /\ turns' \in 0..MaxTurns /\ turns + 1 \in Nat
      /\ stage' = "arrived" /\ body' = chat'
      /\ UNCHANGED <<client, sent, backend, attempt, kept>>
  BY PipelineAssumption DEF Ask, Typed
<1>2. chat' \in Seq(AllMessages)
  <2>1. Results \in Seq(AllMessages) /\ Asked(turns + 1) \in AllMessages
        /\ chat \in Seq(AllMessages)
    BY <1>1, ResultsAre, AskedIs DEF Typed
  <2> DEFINE more == IF OpenCalls # <<>> THEN Results ELSE <<Asked(turns + 1)>>
  <2>2. more \in Seq(AllMessages) /\ chat' = chat \o more
    BY <2>1 DEF Ask
  <2> HIDE DEF more
  <2> QED BY <2>1, <2>2
<1>3. Fit' = Fit /\ anchors' = anchors /\ cache' = cache /\ auth' = auth
  BY <1>1 DEF Fit, Repaired, kept
<1> QED BY <1>1, <1>2, <1>3 DEF Typed, KeptFits, BodyFits, SentFits

LEMMA ForgetKeeps == ASSUME IInv, Forget PROVE IInv'
<1> USE DEF IInv
<1> DEFINE said == {i \in DOMAIN chat : chat[i].role = "user" /\ ToolResults(chat[i]) = {}}
<1>1. /\ said # {} /\ chat' = SubSeq(chat, Max(said), Len(chat))
      /\ stage = "idle" /\ stage' = stage
      /\ UNCHANGED <<client, turns, body, sent, backend, attempt, kept>>
  BY DEF Forget
<1>2. chat \in Seq(AllMessages)
  BY DEF Typed
<1>3. said \in SUBSET (1..Len(chat)) /\ Len(chat) \in Nat
  BY <1>2
<1> HIDE DEF said
<1>4. Max(said) \in 1..Len(chat)
  BY <1>1, <1>3, MaxIs
<1>5. chat' \in Seq(AllMessages)
  BY <1>1, <1>2, <1>4
<1>6. Fit' = Fit /\ anchors' = anchors /\ cache' = cache /\ auth' = auth
  BY <1>1 DEF Fit, Repaired, kept
<1> QED BY <1>1, <1>5, <1>6 DEF Typed, KeptFits, BodyFits, SentFits
-----------------------------------------------------------------------------
(* Steps of the gateway.                                                        *)
LEMMA DispatchKeeps == ASSUME IInv, Dispatch PROVE IInv'
<1> USE DEF IInv
<1>1. /\ stage' = "read"
      /\ UNCHANGED <<client, chat, turns, sent, backend, attempt, kept>>
  BY DEF Dispatch
<1>2. body' \in Seq(AllMessages)
  <2>1. body \in Seq(AllMessages)
    BY DEF Typed
  <2>2. ASSUME NEW caches \in KnownCaches, NEW thinking \in BOOLEAN
        PROVE  Sanitize(body, thinking, None, caches).messages \in Seq(AllMessages)
    <3>1. caches \in Caches
      BY PipelineAssumption
    <3> QED BY <2>1, <3>1, SanitizeSigns
  <2> QED BY <2>1, <2>2 DEF Dispatch
<1>3. Fit' = Fit /\ anchors' = anchors /\ cache' = cache /\ auth' = auth
  BY <1>1 DEF Fit, Repaired, kept
<1> QED BY <1>1, <1>2, <1>3 DEF Typed, KeptFits, BodyFits, SentFits

LEMMA LoadedIs ==
  ASSUME auth \in Records, NEW h
  PROVE  Loaded(h) \in Records
  BY DEF Loaded, Empty, Records

(* A client whose thinking is not repaired is answered with any.                *)
LEMMA AppliedFits ==
  ASSUME Typed, client.endpoint = "chat", NEW h \in Seq(AllMessages), NEW caches \in Caches
  PROVE  ApplyScidAndSanitization(h, caches) \in Seq(MessagesOf(Fit))
<1> DEFINE record == Loaded(h)
<1>0. record \in Records
  BY LoadedIs DEF Typed
<1>1. client.kind \in {"stateful", "stateless", "claude_code", "plain", "undetected"}
  BY PipelineAssumption DEF Typed
<1>2. record.history \in Seq(AllMessages)
  BY <1>0 DEF Records
<1> HIDE DEF record
<1>3. CASE client.kind = "claude_code"
  <2>1. Fit = SignedBlocks
    BY <1>3, FitIs DEF Repaired
  <2>2. RecoverSignaturesForClaudeCode(h, FALSE, caches).messages \in Seq(MessagesOf(SignedBlocks))
    BY SignaturesRecovered
  <2> QED BY <1>3, <2>1, <2>2 DEF ApplyScidAndSanitization
<1>4. CASE client.kind = "stateful"
  <2>1. Fit = SignedBlocks
    BY <1>4, FitIs DEF Repaired
  <2>2. Prepare(h, record.history, record.sig, FALSE, caches) \in Seq(MessagesOf(SignedBlocks))
    BY <1>2, Prepared
  <2> QED BY <1>4, <2>1, <2>2 DEF ApplyScidAndSanitization, record
<1>5. CASE client.kind = "stateless"
  <2>1. Fit = SignedBlocks
    BY <1>5, FitIs DEF Repaired
  <2>2. <<>> \in Seq(AllMessages)
    OBVIOUS
  <2>3. Prepare(h, <<>>, None, FALSE, caches) \in Seq(MessagesOf(SignedBlocks))
    BY <2>2, Prepared
  <2> QED BY <1>5, <2>1, <2>3 DEF ApplyScidAndSanitization
<1>6. CASE client.kind \in {"plain", "undetected"}
  <2>1. Fit = AllBlocks
    BY <1>6 DEF Fit, Repaired
  <2> QED BY <1>6, <2>1, AnyMessages DEF ApplyScidAndSanitization
<1> QED BY <1>1, <1>3, <1>4, <1>5, <1>6

LEMMA ChatKeeps == ASSUME IInv, ChatCompletions PROVE IInv'
<1> USE DEF IInv
<1> DEFINE normalized == NormalizeMessages(body)
<1>1. /\ client.endpoint = "chat" /\ stage' = "ready"
      /\ auth' \in {Loaded(normalized), auth}
      /\ UNCHANGED <<client, chat, turns, sent, backend, attempt>>
  BY DEF ChatCompletions
<1>2. PICK caches \in KnownCaches :
        LET h == ApplyScidAndSanitization(normalized, caches)
            stored == StoreFullHistory(anchors, cache, Scid, h)
        IN  IF client.kind = "claude_code"
            THEN body' = h /\ UNCHANGED <<anchors, cache>>
            ELSE /\ anchors' = stored.anchors /\ cache' = stored.cache
                 /\ body' = SelectForBackend(stored.anchors, stored.cache, Scid, SelectLimit(h))
  BY DEF ChatCompletions
<1> DEFINE h == ApplyScidAndSanitization(normalized, caches)
           stored == StoreFullHistory(anchors, cache, Scid, h)
<1>3. normalized \in Seq(AllMessages)
  BY Normalized DEF Typed
<1> HIDE DEF normalized
<1>4. h \in Seq(MessagesOf(Fit))
  <2>1. caches \in Caches
    BY PipelineAssumption
  <2> QED BY <1>1, <1>3, <2>1, AppliedFits
<1>5. auth' \in Records
  BY <1>1, LoadedIs DEF Typed
<1> HIDE DEF h
<1>6. /\ stored.anchors \in [{Scid} -> Seq(MessagesOf(Fit))]
      /\ stored.cache \in Seq(Entries(Seq(MessagesOf(Fit))))
  BY <1>4, HistoryStored DEF KeptFits
<1> HIDE DEF stored
<1>7. SelectForBackend(stored.anchors, stored.cache, Scid, SelectLimit(h)) \in Seq(MessagesOf(Fit))
  <2>1. SelectLimit(h) \in Nat
    BY PipelineAssumption DEF SelectLimit
  <2> QED BY <1>6, <2>1, FitIs, SelectedForBackend
<1>8. Fit' = Fit
  BY <1>1 DEF Fit, Repaired
<1>9. CASE client.kind = "claude_code"
  <2>1. body' = h /\ UNCHANGED <<anchors, cache>>
    BY <1>2, <1>9 DEF h
  <2> QED BY <1>1, <1>4, <1>5, <1>8, <2>1, FitMessages DEF Typed, KeptFits, BodyFits, SentFits
<1>10. CASE client.kind # "claude_code"
  <2>1. /\ anchors' = stored.anchors /\ cache' = stored.cache
        /\ body' = SelectForBackend(stored.anchors, stored.cache, Scid, SelectLimit(h))
    BY <1>2, <1>10 DEF h, stored
  <2> QED BY <1>1, <1>5, <1>6, <1>7, <1>8, <2>1, FitMessages DEF Typed, KeptFits, BodyFits, SentFits
<1> QED BY <1>9, <1>10

LEMMA MessagesKeeps == ASSUME IInv, AnthropicMessages PROVE IInv'
<1> USE DEF IInv
<1>1. /\ client.endpoint = "messages" /\ stage' = "ready" /\ body' = Compressed(body)
      /\ UNCHANGED <<client, chat, turns, sent, backend, attempt, kept>>
  BY DEF AnthropicMessages
<1>2. body' \in Seq(AllMessages)
  BY <1>1, PccApplied DEF Typed
<1>3. Fit' = Fit /\ anchors' = anchors /\ cache' = cache /\ auth' = auth
  BY <1>1 DEF Fit, Repaired, kept
<1>4. MessagesOf(Fit) = AllMessages
  BY <1>1, FitIs, AnyMessages
<1> QED BY <1>1, <1>2, <1>3, <1>4 DEF Typed, KeptFits, BodyFits, SentFits

LEMMA SendKeeps == ASSUME IInv, Send PROVE IInv'
<1> USE DEF IInv
<1>1. /\ stage = "ready" /\ stage' = "sent" /\ backend' = backend + 1 /\ attempt' = 0
      /\ sent' \in {body, ConvertOpenaiToAnthropic(body)} /\ backend < Backends
      /\ UNCHANGED <<client, chat, turns, body, kept>>
  BY DEF Send
<1>2. body \in Seq(MessagesOf(Fit)) /\ body \in Seq(AllMessages)
  BY <1>1 DEF BodyFits, Typed
<1>3. ConvertOpenaiToAnthropic(body) \in Seq(MessagesOf(Fit))
  BY <1>2, Converted, FitMessages
<1>4. sent' \in Seq(MessagesOf(Fit)) /\ sent' \in Seq(AllMessages)
  BY <1>1, <1>2, <1>3, FitMessages
<1>5. Fit' = Fit /\ anchors' = anchors /\ cache' = cache /\ auth' = auth
  BY <1>1 DEF Fit, Repaired, kept
<1>6. backend' \in 0..Backends /\ attempt' \in 0..MaxRetries
  BY <1>1, PipelineAssumption DEF Typed
<1> QED BY <1>1, <1>2, <1>4, <1>5, <1>6 DEF Typed, KeptFits, BodyFits, SentFits

LEMMA RefuseKeeps == ASSUME IInv, RefuseSignature PROVE IInv'
<1> USE DEF IInv
<1>1. /\ stage = "sent" /\ attempt < MaxRetries /\ attempt' = attempt + 1
      /\ sent' = PrepareSignatureRetryBody(sent)
      /\ UNCHANGED <<client, chat, turns, stage, body, backend, kept>>
  BY DEF RefuseSignature
<1>2. sent' \in Seq(MessagesOf(PlainBlocks)) /\ sent' \in Seq(AllMessages)
  BY <1>1, RetryPrepared, FitMessages DEF Typed
<1>3. attempt' \in 1..MaxRetries
  BY <1>1, PipelineAssumption DEF Typed
<1>4. Fit' = Fit /\ anchors' = anchors /\ cache' = cache /\ auth' = auth
  BY <1>1 DEF Fit, Repaired, kept
<1>5. SentFits'
  BY <1>2, <1>3 DEF SentFits
<1> QED BY <1>1, <1>2, <1>3, <1>4, <1>5 DEF Typed, KeptFits, BodyFits

LEMMA DoneIs ==
  ASSUME Typed, Done
  PROVE  /\ stage' = "idle" /\ body' \in Seq(AllMessages) /\ sent' \in Seq(AllMessages)
         /\ backend' \in 0..Backends /\ attempt' \in 0..MaxRetries
  BY PipelineAssumption DEF Done

LEMMA FailsKeeps == ASSUME IInv, BackendFails PROVE IInv'
<1> USE DEF IInv
<1>1. stage = "sent" /\ UNCHANGED <<client, chat, turns, kept>>
  BY DEF BackendFails
<1>2. Fit' = Fit /\ anchors' = anchors /\ cache' = cache /\ auth' = auth
  BY <1>1 DEF Fit, Repaired, kept
<1>3. CASE backend < Backends
  <2>1. stage' = "ready" /\ UNCHANGED <<body, sent, backend, attempt>>
    BY <1>3 DEF BackendFails
  <2> QED BY <1>1, <1>2, <2>1 DEF Typed, KeptFits, BodyFits, SentFits
<1>4. CASE ~(backend < Backends)
  <2>1. Done
    BY <1>4 DEF BackendFails
  <2> QED BY <1>1, <1>2, <2>1, DoneIs DEF Typed, KeptFits, BodyFits, SentFits
<1> QED BY <1>3, <1>4
-----------------------------------------------------------------------------
(* The answer, what the gateway keeps of it and what the client does.           *)
LEMMA RecordedIs ==
  ASSUME NEW sig \in Real \cup {None}, NEW ids \in Seq(Numbers), turns \in Nat
  PROVE  Recorded(Thought(sig), ids) \in AllMessages
<1> DEFINE thought == Thought(sig)
           answer == Block("text", "answer", turns, None)
<1>1. thought \in Seq(AllBlocks)
  <2>1. Thinking("thought", sig) \in AllBlocks
    BY DEF Thinking, Block, AllBlocks, Types, Texts, Numbers, Signatures
  <2> DEFINE block == Thinking("thought", sig)
  <2>2. block \in AllBlocks
    BY <2>1
  <2> HIDE DEF block
  <2>3. {<<>>, <<block>>} \subseteq Seq(AllBlocks)
    BY <2>2
  <2>4. thought \in {<<>>, <<block>>}
    BY DEF Thought, block
  <2> QED BY <2>3, <2>4
<1>2. answer \in AllBlocks
  BY DEF Block, AllBlocks, Types, Texts, Numbers
<1> HIDE DEF thought, answer
<1>3. thought \o <<answer>> \in Seq(AllBlocks)
  BY <1>1, <1>2
<1>4. Message("assistant", thought \o <<answer>>) \in AllMessages
  BY <1>3, MessageIs, AnyMessages
<1>5. Calls(ids) \in AllMessages
  BY CallsAre DEF MessagesOf
<1>6. [Calls(ids) EXCEPT !.content = thought] \in AllMessages
  BY <1>1, <1>5, ContentReplaced, AnyMessages
<1> QED BY <1>4, <1>6 DEF Recorded, thought, answer

LEMMA ClientHasIt ==
  ASSUME NEW m \in AllMessages
  PROVE  AsClientHasIt(m) \in AllMessages
<1> DEFINE uses == [i \in DOMAIN m.tool_calls |-> ToolUse(m.tool_calls[i], None)]
<1>1. m.tool_calls \in Seq(Numbers) /\ m.content \in Seq(AllBlocks)
  BY DEF AllMessages
<1>2. uses \in Seq(AllBlocks)
  <2>1. \A i \in DOMAIN m.tool_calls : ToolUse(m.tool_calls[i], None) \in AllBlocks
    BY <1>1, BlocksAre, AnyMessages
  <2> QED BY <1>1, <2>1
<1> HIDE DEF uses
<1>3. m.content \o uses \in Seq(AllBlocks)
  BY <1>1, <1>2
<1>4. Message("assistant", m.content \o uses) \in AllMessages
  BY <1>3, MessageIs, AnyMessages
<1> QED BY <1>4 DEF AsClientHasIt, uses

LEMMA SignatureLeft ==
  ASSUME NEW m \in AllMessages, NEW left \in Signatures \cup {None}
  PROVE  [m EXCEPT !.content =
            [i \in DOMAIN m.content |->
               IF IsThinking(m.content[i]) THEN [m.content[i] EXCEPT !.sig = left]
               ELSE m.content[i]]] \in AllMessages
<1> DEFINE content == [i \in DOMAIN m.content |->
                         IF IsThinking(m.content[i]) THEN [m.content[i] EXCEPT !.sig = left]
                         ELSE m.content[i]]
<1>1. m.content \in Seq(AllBlocks)
  BY DEF AllMessages
<1>2. ASSUME NEW b \in AllBlocks PROVE [b EXCEPT !.sig = left] \in AllBlocks
  BY DEF AllBlocks
<1>3. content \in Seq(AllBlocks)
  BY <1>1, <1>2
<1> HIDE DEF content
<1>4. [m EXCEPT !.content = content] \in AllMessages
  BY <1>3, ContentReplaced, AnyMessages
<1> QED BY <1>4 DEF content

LEMMA HistoryUpdated ==
  ASSUME NEW record \in Records, NEW h \in Seq(AllMessages), NEW m \in AllMessages,
         NEW sig \in Signatures \cup {None}
  PROVE  UpdateAuthoritativeHistory(record, NewUserMessages(h), m, sig) \in Records
<1> DEFINE new == NewUserMessages(h)
           last == {i \in DOMAIN h : /\ h[i].role = "user"
                                     /\ \A j \in DOMAIN h : h[j].role = "user" => j <= i}
           k == CHOOSE i \in last : TRUE
<1>1. new \in Seq(AllMessages)
  <2>1. CASE last = {}
    BY <2>1 DEF NewUserMessages
  <2>2. CASE last # {}
    <3>1. k \in last
      <4> HIDE DEF last
      <4> QED BY <2>2
    <3> HIDE DEF k
    <3>2. <<h[k]>> \in Seq(AllMessages)
      BY <3>1
    <3> QED BY <2>2, <3>2 DEF NewUserMessages, k
  <2> QED BY <2>1, <2>2
<1> HIDE DEF new
<1>2. record.history \in Seq(AllMessages) /\ record.sig \in Signatures \cup {None}
  BY DEF Records
<1>3. Append(new, m) \in Seq(AllMessages)
  BY <1>1
<1>4. AppendNew(record.history, Append(new, m)) \in Seq(AllMessages)
  <2>1. \A chosen : Selected(Append(new, m), chosen) \in Seq(AllMessages)
    BY <1>3, SelectedIs
  <2> QED BY <1>2, <2>1 DEF AppendNew
<1> QED BY <1>2, <1>4 DEF UpdateAuthoritativeHistory, Records, new

LEMMA AnswerKeeps == ASSUME IInv, Answer PROVE IInv'
<1> USE DEF IInv
<1>1. Done /\ UNCHANGED <<client, turns, anchors, cache>>
  BY DEF Answer
<1>2. PICK sig \in Real \cup {None}, calls \in 0..2, left \in Signed :
        LET ids == [k \in 1..calls |-> CallId(turns, k)]
            m == Recorded(Thought(sig), ids)
            kepts == [m EXCEPT !.content =
                        [i \in DOMAIN m.content |->
                           IF IsThinking(m.content[i]) THEN [m.content[i] EXCEPT !.sig = left]
                           ELSE m.content[i]]]
        IN  /\ chat' = Append(chat, AsClientHasIt(kepts))
            /\ auth' = IF client.kind = "stateful" /\ client.endpoint = "chat"
                       THEN UpdateAuthoritativeHistory(auth, NewUserMessages(body), m, sig)
                       ELSE auth
  BY DEF Answer
<1> DEFINE ids == [k \in 1..calls |-> CallId(turns, k)]
           m == Recorded(Thought(sig), ids)
           kepts == [m EXCEPT !.content =
                       [i \in DOMAIN m.content |->
                          IF IsThinking(m.content[i]) THEN [m.content[i] EXCEPT !.sig = left]
                          ELSE m.content[i]]]
<1>3. turns \in Nat /\ auth \in Records /\ chat \in Seq(AllMessages) /\ body \in Seq(AllMessages)
  BY PipelineAssumption DEF Typed
<1>4. sig \in Signatures \cup {None} /\ left \in Signatures \cup {None}
  BY PipelineAssumption DEF Signatures
<1>5. ids \in Seq(Numbers)
  BY <1>3 DEF CallId, Numbers
<1> HIDE DEF ids
<1>6. m \in AllMessages
  BY <1>3, <1>5, RecordedIs
<1> HIDE DEF m
<1>7. kepts \in AllMessages
  BY <1>4, <1>6, SignatureLeft
<1> HIDE DEF kepts
<1>8. chat' = Append(chat, AsClientHasIt(kepts))
  BY <1>2 DEF ids, m, kepts
<1>9. auth' \in {UpdateAuthoritativeHistory(auth, NewUserMessages(body), m, sig), auth}
  BY <1>2 DEF ids, m
<1>10. chat' \in Seq(AllMessages)
  BY <1>3, <1>7, <1>8, ClientHasIt
<1>11. auth' \in Records
  <2>1. UpdateAuthoritativeHistory(auth, NewUserMessages(body), m, sig) \in Records
    BY <1>3, <1>4, <1>6, HistoryUpdated
  <2> QED BY <1>3, <1>9, <2>1
<1>12. Fit' = Fit
  BY <1>1 DEF Fit, Repaired
<1> QED BY <1>1, <1>10, <1>11, <1>12, DoneIs DEF Typed, KeptFits, BodyFits, SentFits
-----------------------------------------------------------------------------
LEMMA NextKeeps == ASSUME IInv, [Next]_vars PROVE IInv'
<1>1. CASE Next
  BY <1>1, AskKeeps, ForgetKeeps, DispatchKeeps, ChatKeeps, MessagesKeeps, SendKeeps,
     RefuseKeeps, FailsKeeps, AnswerKeeps DEF Next
<1>2. CASE UNCHANGED vars
  BY <1>2 DEF vars, kept, IInv, Typed, KeptFits, BodyFits, SentFits, Fit, Repaired
<1> QED BY <1>1, <1>2

LEMMA Invariant == Spec => []IInv
  BY TypesStart, NextKeeps, PTL DEF Spec

LEMMA RolesOf ==
  ASSUME NEW h \in Seq(AllMessages), NEW m \in Messages(h)
  PROVE  m.role \in {"system", "user", "assistant", "tool"}
<1>1. m \in AllMessages
  BY DEF Messages
<1> QED BY <1>1 DEF AllMessages

LEMMA InvariantTypes == IInv => TypeOK
<1> SUFFICES ASSUME IInv PROVE TypeOK
  OBVIOUS
<1>1. {chat, body, sent, auth.history} \subseteq Seq(AllMessages)
  BY DEF IInv, Typed, Records
<1>2. \A h \in {chat, body, sent, auth.history} : \A m \in Messages(h) :
        m.role \in {"system", "user", "assistant", "tool"}
  BY <1>1, RolesOf
<1> QED BY <1>2 DEF IInv, Typed, TypeOK

LEMMA InvariantFits == IInv => ThoughtsFit
<1> SUFFICES ASSUME IInv, stage = "sent",
                    NEW m \in Messages(Roles(sent, "assistant")), NEW b \in Blocks(m, "thinking")
             PROVE  attempt = 0 /\ (Repaired => b.sig # None)
  BY DEF ThoughtsFit, Repaired
<1> DEFINE Bs == IF attempt = 0 THEN Fit ELSE PlainBlocks
<1>1. sent \in Seq(MessagesOf(Bs)) /\ sent \in Seq(AllMessages)
  BY DEF IInv, SentFits, Typed
<1>2. m \in Messages(sent) /\ m.role = "assistant"
  BY <1>1, Said
<1> HIDE DEF Bs
<1>3. m \in MessagesOf(Bs)
  BY <1>1, <1>2 DEF Messages
<1>4. m.content \in Seq(Bs)
  BY <1>2, <1>3 DEF MessagesOf
<1>5. b \in Bs /\ IsThinking(b)
  BY <1>4 DEF Blocks, IsThinking
<1>6. attempt = 0
  BY <1>5 DEF Bs, PlainBlocks
<1>7. Repaired => b.sig # None
  BY <1>5, <1>6, FitIs DEF Bs, SignedBlocks
<1> QED BY <1>6, <1>7

(* Whatever a client sends and forgets and however often it is refused, every   *)
(* message of every history on its way has one of the four roles, and no retry  *)
(* goes beyond its limit.                                                       *)
THEOREM TypeCorrect == Spec => []TypeOK
  BY Invariant, InvariantTypes, PTL

(* Of a client whose thinking the chat endpoint repairs, none is sent that      *)
(* nobody has signed, whether it was merged, taken from the history cache,      *)
(* selected or converted; and none at all once a signature has been refused.    *)
THEOREM ThoughtsAreFit == Spec => []ThoughtsFit
  BY Invariant, InvariantFits, PTL
-----------------------------------------------------------------------------

(* A history is read message by message.  What is known then: the calls that    *)
(* are open, which the next messages have to answer, at most which calls there  *)
(* have been, and whether one message answers all the calls of another.         *)
Turn(s, m, t) ==
    /\ s.made \subseteq t.made /\ t.open \subseteq t.made
    /\ s.one = t.one /\ (t.one => t.open = ToolCalls(m))
    /\ \/ /\ ToolResults(m) = {} /\ s.open = {} /\ ToolCalls(m) \cap s.made = {}
          /\ t.open = ToolCalls(m)
       \/ /\ ToolResults(m) # {} /\ ToolCalls(m) = {} /\ ToolResults(m) \subseteq s.open
          /\ t.open = s.open \ ToolResults(m)

Within(s, t) == s.open = t.open /\ s.made \subseteq t.made /\ s.one = t.one

IsReading(h, s, t, f) ==
    /\ Within(s, f[0]) /\ Within(f[Len(h)], t)
    /\ \A i \in 0..Len(h) : f[i].open \subseteq f[i].made
    /\ \A i \in 1..Len(h) : Turn(f[i - 1], h[i], f[i])

Leads(h, s, t) == \E f : IsReading(h, s, t, f)
State(open, made, one) == [open |-> open, made |-> made, one |-> one]
Start(one) == State({}, {}, one)
Whole(h, one) == \E t : t.open = {} /\ Leads(h, Start(one), t)

LEMMA TurnMore ==
  ASSUME NEW s, NEW t, NEW u, NEW m, Turn(s, m, t), Within(t, u)
  PROVE  Turn(s, m, u)
  BY DEF Turn, Within

LEMMA TurnLess ==
  ASSUME NEW s, NEW t, NEW u, NEW m, Turn(s, m, t), Within(u, s)
  PROVE  Turn(u, m, t)
  BY DEF Turn, Within

LEMMA LeadsNowhere ==
  ASSUME NEW s, NEW t, Within(s, t), s.open \subseteq s.made
  PROVE  Leads(<<>>, s, t)
<1> DEFINE f == [i \in 0..0 |-> s]
<1>1. IsReading(<<>>, s, t, f)
  BY DEF IsReading, Within
<1> QED BY <1>1 DEF Leads

LEMMA LeadsOne ==
  ASSUME NEW s, NEW t, NEW m, Turn(s, m, t), s.open \subseteq s.made
  PROVE  Leads(<<m>>, s, t)
<1> DEFINE f == [i \in 0..1 |-> IF i = 0 THEN s ELSE t]
<1>1. f[0] = s /\ f[1] = t
  OBVIOUS
<1>2. Len(<<m>>) = 1 /\ <<m>>[1] = m
  OBVIOUS
<1>3. t.open \subseteq t.made
  BY DEF Turn
<1> HIDE DEF f
<1>4. \A i \in 1..1 : Turn(f[i - 1], <<m>>[i], f[i])
  BY <1>1, <1>2
<1>5. IsReading(<<m>>, s, t, f)
  BY <1>1, <1>2, <1>3, <1>4 DEF IsReading, Within
<1> QED BY <1>5 DEF Leads

LEMMA LeadsOn ==
  ASSUME NEW S, NEW h \in Seq(S), NEW k \in Seq(S), NEW s, NEW t, NEW u,
         Leads(h, s, t), Leads(k, t, u)
  PROVE  Leads(h \o k, s, u)
<1> DEFINE n == Len(h)
           l == Len(k)
<1>1. PICK f : IsReading(h, s, t, f)
  BY DEF Leads
<1>2. PICK g : IsReading(k, t, u, g)
  BY DEF Leads
<1> DEFINE e == [i \in 0..(n + l) |-> IF i < n THEN f[i] ELSE g[i - n]]
<1>3. n \in Nat /\ l \in Nat /\ Len(h \o k) = n + l
  OBVIOUS
<1>4. /\ \A i \in 1..n : (h \o k)[i] = h[i]
      /\ \A i \in (n + 1)..(n + l) : (h \o k)[i] = k[i - n]
  OBVIOUS
<1>5. /\ \A i \in 0..(n - 1) : e[i] = f[i]
      /\ \A i \in n..(n + l) : e[i] = g[i - n]
  BY <1>3
<1> HIDE DEF e
<1>6. Within(s, e[0])
  <2>1. CASE n = 0
    BY <1>1, <1>2, <1>3, <1>5, <2>1 DEF IsReading, Within
  <2>2. CASE n # 0
    BY <1>1, <1>3, <1>5, <2>2 DEF IsReading
  <2> QED BY <2>1, <2>2
<1>7. Within(e[n + l], u)
  BY <1>2, <1>3, <1>5 DEF IsReading
<1> HIDE DEF n, l
<1>8. Within(f[n], g[0])
  BY <1>1, <1>2 DEF IsReading, Within, n
<1>9. ASSUME NEW i \in 0..(n + l) PROVE e[i].open \subseteq e[i].made
  <2>1. CASE i \in 0..(n - 1)
    <3>1. i \in 0..Len(h)
      BY <1>3, <2>1 DEF n
    <3> QED BY <1>1, <1>5, <2>1, <3>1 DEF IsReading
  <2>2. CASE i \in n..(n + l)
    <3>1. i - n \in 0..Len(k)
      BY <1>3, <2>2 DEF l
    <3> QED BY <1>2, <1>5, <2>2, <3>1 DEF IsReading
  <2> QED BY <1>3, <2>1, <2>2
<1>10. ASSUME NEW i \in 1..(n + l) PROVE Turn(e[i - 1], (h \o k)[i], e[i])
  <2>1. CASE i \in 1..(n - 1)
    <3>1. i \in 1..Len(h) /\ i - 1 \in 0..(n - 1) /\ i \in 0..(n - 1)
      BY <1>3, <2>1 DEF n
    <3>2. Turn(f[i - 1], h[i], f[i])
      BY <1>1, <3>1 DEF IsReading
    <3> QED BY <1>4, <1>5, <3>1, <3>2 DEF n
  <2>2. CASE i = n
    <3>1. i \in 1..Len(h) /\ i - 1 \in 0..(n - 1) /\ i \in n..(n + l) /\ i - n = 0
      BY <1>3, <2>2 DEF n
    <3>2. Turn(f[i - 1], h[i], f[i])
      BY <1>1, <3>1 DEF IsReading
    <3>3. Turn(f[i - 1], h[i], g[0])
      BY <1>8, <2>2, <3>2, TurnMore
    <3> QED BY <1>4, <1>5, <3>1, <3>3 DEF n
  <2>3. CASE i \in (n + 1)..(n + l)
    <3>1. /\ i - n \in 1..Len(k) /\ i - 1 \in n..(n + l) /\ i \in n..(n + l)
          /\ (i - 1) - n = (i - n) - 1
      BY <1>3, <2>3 DEF l
    <3>2. Turn(g[(i - n) - 1], k[i - n], g[i - n])
      BY <1>2, <3>1 DEF IsReading
    <3>3. e[i - 1] = g[(i - n) - 1] /\ e[i] = g[i - n]
      BY <1>5, <3>1
    <3> QED BY <1>4, <2>3, <3>2, <3>3
  <2> QED BY <1>3, <2>1, <2>2, <2>3
<1>11. IsReading(h \o k, s, u, e)
  BY <1>3, <1>6, <1>7, <1>9, <1>10 DEF IsReading, n, l
<1> QED BY <1>11 DEF Leads

(* What is true at the first of a row and passes from each to the next is true  *)
(* of all.                                                                      *)
LEMMA TrueOn ==
  ASSUME NEW n \in Nat, NEW f, f[0] = TRUE,
         \A i \in 1..n : f[i - 1] = TRUE => f[i] = TRUE
  PROVE  \A i \in 0..n : f[i] = TRUE
<1> DEFINE T == {TRUE}
<1>1. f[0] \in T /\ \A i \in 1..n : f[i - 1] \in T => f[i] \in T
  OBVIOUS
<1> HIDE DEF T
<1>2. \A i \in 0..n : f[i] \in T
  BY <1>1, StaysIn
<1> QED BY <1>2 DEF T

LEMMA LeadsWeaker ==
  ASSUME NEW h, NEW s, NEW t, NEW u, NEW v, Leads(h, s, t), Within(u, s), Within(t, v)
  PROVE  Leads(h, u, v)
<1>1. PICK f : IsReading(h, s, t, f)
  BY DEF Leads
<1>2. IsReading(h, u, v, f)
  BY <1>1 DEF IsReading, Within
<1> QED BY <1>2 DEF Leads

(* Only the calls and results of the messages matter.                           *)
SameCalls(m, k) == ToolCalls(m) = ToolCalls(k) /\ ToolResults(m) = ToolResults(k)

LEMMA LeadsSame ==
  ASSUME NEW h, NEW k, NEW s, NEW t, Len(k) = Len(h), Leads(h, s, t),
         \A i \in 1..Len(h) : SameCalls(h[i], k[i])
  PROVE  Leads(k, s, t)
<1>1. PICK f : IsReading(h, s, t, f)
  BY DEF Leads
<1>2. ASSUME NEW i \in 1..Len(h) PROVE Turn(f[i - 1], k[i], f[i])
  <2>1. Turn(f[i - 1], h[i], f[i])
    BY <1>1 DEF IsReading
  <2> QED BY <2>1 DEF Turn, SameCalls
<1>3. IsReading(k, s, t, f)
  BY <1>1, <1>2 DEF IsReading
<1> QED BY <1>3 DEF Leads

(* What there has been grows.                                                   *)
LEMMA MadeGrows ==
  ASSUME NEW h, Len(h) \in Nat, NEW s, NEW t, NEW f, IsReading(h, s, t, f), NEW k \in 0..Len(h)
  PROVE  \A i \in k..Len(h) : f[k].made \subseteq f[i].made /\ f[i].one = f[k].one
<1> DEFINE g == [j \in 0..(Len(h) - k) |-> f[k].made \subseteq f[k + j].made /\ f[k + j].one = f[k].one]
           l == Len(h) - k
<1>1. l \in Nat /\ g[0] = TRUE
  <2>1. l \in Nat /\ k + 0 = k /\ 0 \in 0..l
    OBVIOUS
  <2>2. g[0] = (f[k].made \subseteq f[k].made /\ f[k].one = f[k].one)
    BY <2>1
  <2> QED BY <2>1, <2>2
<1>2. ASSUME NEW j \in 1..l, g[j - 1] = TRUE PROVE g[j] = TRUE
  <2>1. k + j \in 1..Len(h) /\ k + (j - 1) = (k + j) - 1 /\ j - 1 \in 0..l /\ j \in 0..l
    OBVIOUS
  <2>2. Turn(f[(k + j) - 1], h[k + j], f[k + j])
    BY <2>1 DEF IsReading
  <2>3. f[k].made \subseteq f[(k + j) - 1].made /\ f[(k + j) - 1].one = f[k].one
    BY <1>2, <2>1
  <2>4. f[k].made \subseteq f[k + j].made /\ f[k + j].one = f[k].one
    BY <2>2, <2>3 DEF Turn
  <2> QED BY <2>1, <2>4
<1> HIDE DEF g
<1>3. \A j \in 0..l : g[j] = TRUE
  BY <1>1, <1>2, TrueOn
<1>4. ASSUME NEW i \in k..Len(h) PROVE f[k].made \subseteq f[i].made /\ f[i].one = f[k].one
  <2>1. i - k \in 0..l /\ k + (i - k) = i
    OBVIOUS
  <2>2. g[i - k] = (f[k].made \subseteq f[k + (i - k)].made /\ f[k + (i - k)].one = f[k].one)
    BY <2>1 DEF g
  <2> QED BY <1>3, <2>1, <2>2
<1> QED BY <1>4

(* A history can be cut before a message that answers nothing.                  *)
LEMMA LeadsFrom ==
  ASSUME NEW S, NEW h \in Seq(S), NEW k \in 1..Len(h), ToolResults(h[k]) = {},
         NEW s, NEW t, Leads(h, s, t)
  PROVE  Leads(SubSeq(h, k, Len(h)), Start(s.one), t)
<1>1. PICK f : IsReading(h, s, t, f)
  BY DEF Leads
<1> DEFINE p == SubSeq(h, k, Len(h))
           l == Len(h) - k + 1
           e == [i \in 0..l |-> f[(k - 1) + i]]
<1>2. l \in Nat /\ Len(p) = l /\ \A i \in 1..l : p[i] = h[(k - 1) + i]
  OBVIOUS
<1> HIDE DEF p, l
<1>3. ASSUME NEW i \in 1..l PROVE Turn(e[i - 1], p[i], e[i])
  <2>1. (k - 1) + i \in 1..Len(h) /\ (k - 1) + (i - 1) = ((k - 1) + i) - 1
    BY DEF l
  <2>2. e[i - 1] = f[((k - 1) + i) - 1] /\ e[i] = f[(k - 1) + i]
    BY <1>2, <2>1
  <2>3. Turn(f[((k - 1) + i) - 1], h[(k - 1) + i], f[(k - 1) + i])
    BY <1>1, <2>1 DEF IsReading
  <2> QED BY <1>2, <2>2, <2>3
<1>4. Within(Start(s.one), e[0])
  <2>1. e[0] = f[k - 1] /\ k - 1 \in 0..Len(h) /\ 0 \in 0..Len(h)
    BY <1>2
  <2>2. Turn(f[k - 1], h[k], f[k])
    BY <1>1 DEF IsReading
  <2>3. f[k - 1].open = {}
    BY <2>2 DEF Turn
  <2>4. f[k - 1].one = f[0].one
    <3>1. Len(h) \in Nat /\ k - 1 \in 0..Len(h) /\ 0 \in 0..Len(h)
      OBVIOUS
    <3>2. \A i \in 0..Len(h) : f[i].one = f[0].one
      BY <1>1, <3>1, MadeGrows
    <3> QED BY <3>1, <3>2
  <2>5. f[0].one = s.one
    BY <1>1 DEF IsReading, Within
  <2> QED BY <2>1, <2>3, <2>4, <2>5 DEF Within, Start, State
<1>5. Within(e[l], t)
  <2>1. e[l] = f[Len(h)]
    BY <1>2 DEF l
  <2> QED BY <1>1, <2>1 DEF IsReading
<1>6. \A i \in 0..l : e[i].open \subseteq e[i].made
  <2>1. \A i \in 0..l : (k - 1) + i \in 0..Len(h)
    BY DEF l
  <2> QED BY <1>1, <2>1 DEF IsReading
<1> HIDE DEF e
<1>7. IsReading(p, Start(s.one), t, e)
  BY <1>2, <1>3, <1>4, <1>5, <1>6 DEF IsReading
<1> QED BY <1>7 DEF Leads, p

(* Histories that lead on from each other, one after the other.                 *)
LEMMA FlattenLeads ==
  ASSUME NEW S, NEW ss \in Seq(Seq(S)), NEW e, e[0].open \subseteq e[0].made,
         \A i \in 1..Len(ss) : Leads(ss[i], e[i - 1], e[i])
  PROVE  Leads(FlattenSeq(ss), e[0], e[Len(ss)])
<1> DEFINE n == Len(ss)
<1>1. PICK row : /\ row[0] = <<>> /\ row[n] = FlattenSeq(ss)
                 /\ \A i \in 0..n : row[i] \in Seq(S)
                 /\ \A i \in 1..n : row[i] = row[i - 1] \o ss[i]
  BY FlattenRow
<1> DEFINE g == [i \in 0..n |-> Leads(row[i], e[0], e[i])]
<1>2. n \in Nat /\ \A i \in 1..n : ss[i] \in Seq(S)
  OBVIOUS
<1>3. g[0] = TRUE
  <2>1. Leads(<<>>, e[0], e[0])
    BY LeadsNowhere DEF Within
  <2> QED BY <1>1, <1>2, <2>1
<1>4. ASSUME NEW i \in 1..n, g[i - 1] = TRUE PROVE g[i] = TRUE
  <2>1. i - 1 \in 0..n /\ i \in 0..n
    BY <1>2
  <2>2. Leads(row[i - 1], e[0], e[i - 1])
    BY <1>4, <2>1
  <2>3. Leads(row[i - 1] \o ss[i], e[0], e[i])
    BY <1>1, <1>2, <2>1, <2>2, LeadsOn
  <2> QED BY <1>1, <2>1, <2>3
<1> HIDE DEF g
<1>5. \A i \in 0..n : g[i] = TRUE
  BY <1>2, <1>3, <1>4, TrueOn
<1>6. g[n] = Leads(row[n], e[0], e[n])
  BY <1>2 DEF g
<1> QED BY <1>1, <1>2, <1>5, <1>6

(* Messages can be left out whose turn changes nothing once others are.         *)
LEMMA SelectedLeads ==
  ASSUME NEW S, NEW h \in Seq(S), NEW C, NEW e, e[0].open \subseteq e[0].made,
         \A i \in 1..Len(h) : IF i \in C THEN Turn(e[i - 1], h[i], e[i]) ELSE Within(e[i - 1], e[i]),
         \A i \in 0..Len(h) : e[i].open \subseteq e[i].made
  PROVE  Leads(Selected(h, C), e[0], e[Len(h)])
<1> DEFINE n == Len(h)
           r == UpTo(h, C)
           g == [i \in 0..n |-> Leads(r[i], e[0], e[i])]
<1>1. n \in Nat /\ \A i \in 1..n : h[i] \in S
  OBVIOUS
<1>2. r = [i \in 0..n |-> UpToStep(h, C, r, i)]
  BY <1>1, UpToIs
<1>3. \A i \in 0..n : r[i] \in Seq(S)
  BY <1>1, SelectsUpTo DEF IsSelection
<1> HIDE DEF r
<1>4. \A i \in 0..n : r[i] = UpToStep(h, C, r, i)
  BY <1>2
<1>5. g[0] = TRUE
  <2>1. r[0] = <<>>
    BY <1>1, <1>4 DEF UpToStep
  <2>2. Leads(<<>>, e[0], e[0])
    BY LeadsNowhere DEF Within
  <2> QED BY <1>1, <2>1, <2>2
<1>6. ASSUME NEW i \in 1..n, g[i - 1] = TRUE PROVE g[i] = TRUE
  <2>1. i - 1 \in 0..n /\ i \in 0..n
    BY <1>1
  <2>2. Leads(r[i - 1], e[0], e[i - 1])
    BY <1>6, <2>1
  <2>3. Leads(r[i], e[0], e[i])
    <3>1. CASE i \in C
      <4>1. r[i] = Append(r[i - 1], h[i])
        <5>1. r[i] = UpToStep(h, C, r, i) /\ i # 0
          BY <1>1, <1>4, <2>1
        <5> QED BY <3>1, <5>1 DEF UpToStep
      <4>2. Leads(<<h[i]>>, e[i - 1], e[i])
        BY <2>1, <3>1, LeadsOne
      <4>3. <<h[i]>> \in Seq(S) /\ r[i - 1] \in Seq(S)
        BY <1>1, <1>3, <2>1
      <4>4. Leads(r[i - 1] \o <<h[i]>>, e[0], e[i])
        BY <2>2, <4>2, <4>3, LeadsOn
      <4>5. Append(r[i - 1], h[i]) = r[i - 1] \o <<h[i]>>
        BY <1>1, <4>3
      <4> QED BY <4>1, <4>4, <4>5
    <3>2. CASE i \notin C
      <4>1. r[i] = r[i - 1]
        BY <1>4, <2>1, <3>2 DEF UpToStep
      <4>2. Within(e[i - 1], e[i]) /\ Within(e[0], e[0])
        BY <3>2 DEF Within
      <4> QED BY <2>2, <4>1, <4>2, LeadsWeaker
    <3> QED BY <3>1, <3>2
  <2> QED BY <2>1, <2>3
<1> HIDE DEF g
<1>7. \A i \in 0..n : g[i] = TRUE
  BY <1>1, <1>5, <1>6, TrueOn
<1>8. g[n] = Leads(r[n], e[0], e[n])
  BY <1>1 DEF g
<1> QED BY <1>1, <1>7, <1>8 DEF Selected, r

(* A call that is open when all is answered in the end has its result in        *)
(* between, and the messages up to it are results.                              *)
LEMMA AnswerComes ==
  ASSUME NEW h, Len(h) \in Nat, NEW s, NEW t, NEW f, IsReading(h, s, t, f), t.open = {},
         NEW k \in 0..Len(h), NEW id \in f[k].open
  PROVE  \E j \in (k + 1)..Len(h) :
           /\ id \in ToolResults(h[j])
           /\ \A i \in (k + 1)..j : ToolResults(h[i]) # {}
<1> DEFINE gone == {j \in (k + 1)..Len(h) : id \notin f[j].open}
<1>1. f[Len(h)].open = {}
  BY DEF IsReading, Within
<1>2. Len(h) \in gone
  <2>1. k # Len(h)
    BY <1>1
  <2> QED BY <1>1, <2>1
<1>3. PICK j \in gone : \A i \in gone : j <= i
  <2>1. gone \in SUBSET Nat /\ gone # {}
    BY <1>2
  <2> HIDE DEF gone
  <2> QED BY <2>1, Least
<1>4. ASSUME NEW i \in (k + 1)..j PROVE id \in f[i - 1].open /\ ToolResults(h[i]) # {}
  <2>1. i \in 1..Len(h) /\ (i - 1 = k \/ i - 1 \in (k + 1)..Len(h)) /\ i - 1 < j
    BY <1>3
  <2>2. id \in f[i - 1].open
    BY <1>3, <2>1
  <2>3. Turn(f[i - 1], h[i], f[i])
    BY <2>1 DEF IsReading
  <2> QED BY <2>2, <2>3 DEF Turn
<1>5. j \in (k + 1)..Len(h) /\ j \in (k + 1)..j /\ id \notin f[j].open
  BY <1>3
<1>6. id \in ToolResults(h[j])
  <2>1. j \in 1..Len(h)
    BY <1>5
  <2>2. Turn(f[j - 1], h[j], f[j])
    BY <2>1 DEF IsReading
  <2>3. id \in f[j - 1].open
    BY <1>4, <1>5
  <2> QED BY <1>5, <2>2, <2>3 DEF Turn
<1> QED BY <1>4, <1>5, <1>6

(* So the calls of a whole history are all answered.                            *)
LEMMA CallsAnswered ==
  ASSUME NEW h, Len(h) \in Nat, DOMAIN h = 1..Len(h), NEW s, NEW t, Leads(h, s, t), t.open = {}
  PROVE  AllCalls(h) \subseteq AllResults(h)
<1>1. PICK f : IsReading(h, s, t, f)
  BY DEF Leads
<1>2. ASSUME NEW i \in 1..Len(h), NEW id \in ToolCalls(h[i]) PROVE id \in AllResults(h)
  <2>1. Turn(f[i - 1], h[i], f[i])
    BY <1>1 DEF IsReading
  <2>2. id \in f[i].open
    BY <2>1 DEF Turn
  <2>3. i \in 0..Len(h)
    OBVIOUS
  <2>4. PICK j \in (i + 1)..Len(h) : id \in ToolResults(h[j])
    BY <1>1, <2>2, <2>3, AnswerComes
  <2>5. j \in 1..Len(h)
    OBVIOUS
  <2> QED BY <2>4, <2>5 DEF AllResults, Messages
<1> QED BY <1>2 DEF AllCalls, Messages

(* And what is whole is what the property asks for.                             *)
LEMMA WholeIsIntact ==
  ASSUME NEW S, NEW h \in Seq(S), NEW one, Whole(h, one)
  PROVE  ChainsIntact(h)
<1>1. PICK t : t.open = {} /\ Leads(h, Start(one), t)
  BY DEF Whole
<1>2. PICK f : IsReading(h, Start(one), t, f)
  BY <1>1 DEF Leads
<1>3. Len(h) \in Nat /\ DOMAIN h = 1..Len(h)
  OBVIOUS
<1>4. h # <<>> => ToolResults(h[1]) = {}
  <2> SUFFICES ASSUME h # <<>> PROVE ToolResults(h[1]) = {}
    OBVIOUS
  <2>1. 1 \in 1..Len(h) /\ 1 - 1 = 0
    BY <1>3
  <2>2. Turn(f[0], h[1], f[1])
    BY <1>2, <2>1 DEF IsReading
  <2>3. f[0].open = {}
    BY <1>2 DEF IsReading, Within, Start, State
  <2> QED BY <2>2, <2>3 DEF Turn
<1>5. ASSUME NEW i \in 1..Len(h), ToolResults(h[i]) = {}
      PROVE  ToolCalls(h[i]) = UNION {ToolResults(h[j]) : j \in AnswersTo(h, i)}
  <2>0. i \in 0..Len(h)
    OBVIOUS
  <2>1. f[i].open = ToolCalls(h[i])
    <3>1. Turn(f[i - 1], h[i], f[i])
      BY <1>2 DEF IsReading
    <3> QED BY <1>5, <3>1 DEF Turn
  <2>2. ASSUME NEW id \in ToolCalls(h[i])
        PROVE  \E j \in AnswersTo(h, i) : id \in ToolResults(h[j])
    <3> DEFINE s == Start(one)
    <3>0. id \in f[i].open /\ IsReading(h, s, t, f)
      BY <1>2, <2>1
    <3> HIDE DEF s
    <3>1. \E j \in (i + 1)..Len(h) : /\ id \in ToolResults(h[j])
                                     /\ \A k \in (i + 1)..j : ToolResults(h[k]) # {}
      BY <1>1, <1>3, <2>0, <3>0, AnswerComes
    <3> QED BY <3>1 DEF AnswersTo
  <2>3. ASSUME NEW j \in AnswersTo(h, i) PROVE ToolResults(h[j]) \subseteq ToolCalls(h[i])
    <3> DEFINE l == j - i
               g == [k \in 0..l |-> f[i + k].open \subseteq ToolCalls(h[i])]
    <3>1. j \in (i + 1)..Len(h) /\ \A k \in (i + 1)..j : ToolResults(h[k]) # {}
      BY DEF AnswersTo
    <3>2. l \in Nat /\ g[0] = TRUE
      <4>1. l \in Nat /\ 0 \in 0..l /\ i + 0 = i
        BY <3>1
      <4>2. g[0] = (f[i].open \subseteq ToolCalls(h[i]))
        BY <4>1
      <4> QED BY <2>1, <4>1, <4>2
    <3>3. ASSUME NEW k \in 1..l
          PROVE  /\ f[i + k].open \subseteq f[i + (k - 1)].open
                 /\ ToolResults(h[i + k]) \subseteq f[i + (k - 1)].open
      <4>1. i + k \in 1..Len(h) /\ i + (k - 1) = (i + k) - 1 /\ i + k \in (i + 1)..j
        BY <3>1
      <4>2. Turn(f[(i + k) - 1], h[i + k], f[i + k])
        BY <1>2, <4>1 DEF IsReading
      <4> QED BY <3>1, <4>1, <4>2 DEF Turn
    <3>4. ASSUME NEW k \in 1..l, g[k - 1] = TRUE PROVE g[k] = TRUE
      <4>1. k - 1 \in 0..l /\ k \in 0..l
        BY <3>2
      <4> QED BY <3>3, <3>4, <4>1
    <3>5. l \in 1..l /\ l - 1 \in 0..l /\ i + l = j
      BY <3>1
    <3>6. g[l - 1] = (f[i + (l - 1)].open \subseteq ToolCalls(h[i]))
      BY <3>5
    <3> HIDE DEF g, l
    <3>7. \A k \in 0..l : g[k] = TRUE
      BY <3>2, <3>4, TrueOn
    <3> QED BY <3>3, <3>5, <3>6, <3>7
  <2> QED BY <2>2, <2>3
<1> QED BY <1>3, <1>4, <1>5 DEF ChainsIntact

(* Answers one by one.                                                          *)
LEMMA AnswerIs ==
  ASSUME NEW id, id # None
  PROVE  ToolCalls(Answers(id)) = {} /\ ToolResults(Answers(id)) = {id}
<1>1. /\ Answers(id).content = <<Text("result")>> /\ Answers(id).tool_calls = <<>>
      /\ Answers(id).tool_call_id = id
  BY DEF Answers, Message
<1>2. Text("result").type = "text"
  BY DEF Text, Block
<1>3. \A type : type # "text" => Blocks(Answers(id), type) = {}
  BY <1>1, <1>2 DEF Blocks
<1>4. ToSet(<<>>) = {}
  BY DEF ToSet
<1> QED BY <1>1, <1>3, <1>4 DEF ToolCalls, ToolResults, Uses, Ids

Injective(s) == \A i, j \in DOMAIN s : s[i] = s[j] => i = j

LEMMA AnswersLead ==
  ASSUME NEW ids \in Seq(Nat), Injective(ids), NEW s, ToSet(ids) \subseteq s.open,
         s.open \subseteq s.made, s.one = FALSE
  PROVE  Leads([i \in DOMAIN ids |-> Answers(ids[i])], s, State(s.open \ ToSet(ids), s.made, FALSE))
<1> DEFINE n == Len(ids)
           h == [i \in DOMAIN ids |-> Answers(ids[i])]
           open(i) == s.open \ {ids[j] : j \in 1..i}
           e == [i \in 0..n |-> State(open(i), s.made, FALSE)]
<1>1. n \in Nat /\ DOMAIN ids = 1..n /\ Len(h) = n /\ \A i \in 1..n : h[i] = Answers(ids[i])
  OBVIOUS
<1>2. \A i \in 0..n : e[i].open = open(i) /\ e[i].made = s.made /\ e[i].one = FALSE
  BY DEF State
<1> HIDE DEF e, n, h
<1>3. ASSUME NEW i \in 1..n PROVE Turn(e[i - 1], h[i], e[i])
  <2>1. i - 1 \in 0..n /\ i \in 0..n /\ i \in DOMAIN ids
    BY <1>1
  <2>2. ids[i] \in s.open /\ ids[i] # None
    BY <1>1, NoneAssumption DEF ToSet
  <2>3. ToolCalls(h[i]) = {} /\ ToolResults(h[i]) = {ids[i]}
    BY <1>1, <2>2, AnswerIs
  <2>4. \A j \in 1..(i - 1) : ids[j] # ids[i]
    <3>1. \A j \in 1..(i - 1) : j \in DOMAIN ids /\ j # i
      BY <1>1
    <3> QED BY <2>1, <3>1 DEF Injective
  <2>5. ids[i] \in open(i - 1)
    BY <2>2, <2>4
  <2>6. open(i) = open(i - 1) \ {ids[i]}
    <3>1. {ids[j] : j \in 1..i} = {ids[j] : j \in 1..(i - 1)} \cup {ids[i]}
      <4>1. 1..i = 1..(i - 1) \cup {i}
        BY <1>1
      <4> QED BY <4>1
    <3> QED BY <3>1
  <2>7. open(i) \subseteq s.made
    OBVIOUS
  <2> HIDE DEF open
  <2> QED BY <1>2, <2>1, <2>3, <2>5, <2>6, <2>7 DEF Turn
<1>4. open(0) = s.open
  OBVIOUS
<1>5. open(n) = s.open \ ToSet(ids)
  BY <1>1 DEF ToSet
<1>6. \A i \in 0..n : open(i) \subseteq s.made
  OBVIOUS
<1> HIDE DEF open
<1>7. Within(s, e[0]) /\ Within(e[n], State(s.open \ ToSet(ids), s.made, FALSE))
  <2>1. 0 \in 0..n /\ n \in 0..n
    BY <1>1
  <2>2. Within(s, e[0])
    BY <1>2, <1>4, <2>1 DEF Within
  <2>3. Within(e[n], State(s.open \ ToSet(ids), s.made, FALSE))
    BY <1>2, <1>5, <2>1 DEF Within, State
  <2> QED BY <2>2, <2>3
<1>8. IsReading(h, s, State(s.open \ ToSet(ids), s.made, FALSE), e)
  BY <1>1, <1>2, <1>3, <1>6, <1>7 DEF IsReading
<1> QED BY <1>8 DEF Leads, h
-----------------------------------------------------------------------------
(* More about selections: one that takes all from some place on, and two that   *)
(* take the same of sequences that are alike.                                   *)
LEMMA SelectedTail ==
  ASSUME NEW S, NEW s \in Seq(S), NEW C, NEW k \in 0..Len(s),
         \A i \in 1..Len(s) : i \in C <=> i > k
  PROVE  Selected(s, C) = SubSeq(s, k + 1, Len(s))
<1> DEFINE n == Len(s)
           r == UpTo(s, C)
           g == [i \in 0..n |-> r[i] = SubSeq(s, k + 1, i)]
<1>1. n \in Nat /\ k \in Nat
  OBVIOUS
<1>2. r = [i \in 0..n |-> UpToStep(s, C, r, i)]
  BY <1>1, UpToIs
<1> HIDE DEF r
<1>3. \A i \in 0..n : r[i] = UpToStep(s, C, r, i)
  BY <1>2
<1>4. \A i \in 0..n : i <= k => SubSeq(s, k + 1, i) = <<>>
  BY <1>1
<1>5. g[0] = TRUE
  <2>1. r[0] = <<>> /\ SubSeq(s, k + 1, 0) = <<>> /\ 0 \in 0..n
    BY <1>1, <1>3, <1>4 DEF UpToStep
  <2> QED BY <2>1
<1>6. ASSUME NEW i \in 1..n, g[i - 1] = TRUE PROVE g[i] = TRUE
  <2>1. i - 1 \in 0..n /\ i \in 0..n /\ i # 0
    BY <1>1
  <2>2. r[i - 1] = SubSeq(s, k + 1, i - 1)
    BY <1>6, <2>1
  <2>3. r[i] = IF i \in C THEN Append(r[i - 1], s[i]) ELSE r[i - 1]
    BY <1>3, <2>1 DEF UpToStep
  <2>4. r[i] = SubSeq(s, k + 1, i)
    <3>1. CASE i > k
      <4>1. Append(SubSeq(s, k + 1, i - 1), s[i]) = SubSeq(s, k + 1, i)
        BY <1>1, <3>1
      <4> QED BY <2>2, <2>3, <3>1, <4>1
    <3>2. CASE i <= k
      <4>1. i \notin C
        BY <1>1, <3>2
      <4>2. SubSeq(s, k + 1, i) = <<>> /\ SubSeq(s, k + 1, i - 1) = <<>>
        BY <1>1, <1>4, <2>1, <3>2
      <4> QED BY <2>2, <2>3, <4>1, <4>2
    <3> QED BY <1>1, <3>1, <3>2
  <2> QED BY <2>1, <2>4
<1> HIDE DEF g
<1>7. \A i \in 0..n : g[i] = TRUE
  BY <1>1, <1>5, <1>6, TrueOn
<1>8. n \in 0..n /\ g[n] = (r[n] = SubSeq(s, k + 1, n))
  BY <1>1 DEF g
<1>9. r[n] = SubSeq(s, k + 1, n)
  BY <1>7, <1>8
<1> QED BY <1>9 DEF Selected, r

LEMMA SelectedAll ==
  ASSUME NEW S, NEW s \in Seq(S), NEW C, \A i \in 1..Len(s) : i \in C
  PROVE  Selected(s, C) = s
<1>1. 0 \in 0..Len(s) /\ \A i \in 1..Len(s) : i \in C <=> i > 0
  OBVIOUS
<1>2. Selected(s, C) = SubSeq(s, 0 + 1, Len(s))
  BY <1>1, SelectedTail
<1> QED BY <1>2

LEMMA SelectedAlike ==
  ASSUME NEW S, NEW s \in Seq(S), NEW u \in Seq(S), Len(s) = Len(u), NEW C,
         \A i \in 1..Len(s) : i \in C => s[i].id = u[i].id
  PROVE  /\ Len(Selected(s, C)) = Len(Selected(u, C))
         /\ \A j \in DOMAIN Selected(s, C) : Selected(s, C)[j].id = Selected(u, C)[j].id
<1> DEFINE n == Len(s)
           p == UpTo(s, C)
           q == UpTo(u, C)
           Alike(x, y) == Len(x) = Len(y) /\ \A j \in 1..Len(x) : x[j].id = y[j].id
           g == [i \in 0..n |-> Alike(p[i], q[i])]
<1>1. n \in Nat /\ Len(u) = n
  OBVIOUS
<1>2. /\ p = [i \in 0..n |-> UpToStep(s, C, p, i)]
      /\ q = [i \in 0..n |-> UpToStep(u, C, q, i)]
  BY <1>1, UpToIs
<1>3. \A i \in 0..n : p[i] \in Seq(S) /\ q[i] \in Seq(S)
  BY <1>1, SelectsUpTo DEF IsSelection
<1> HIDE DEF p, q
<1>4. \A i \in 0..n : p[i] = UpToStep(s, C, p, i) /\ q[i] = UpToStep(u, C, q, i)
  BY <1>2
<1>5. g[0] = TRUE
  <2>1. 0 \in 0..n /\ p[0] = <<>> /\ q[0] = <<>>
    BY <1>1, <1>4 DEF UpToStep
  <2>2. Alike(p[0], q[0])
    BY <2>1
  <2> QED BY <2>1, <2>2
<1>6. ASSUME NEW i \in 1..n, g[i - 1] = TRUE PROVE g[i] = TRUE
  <2>1. i - 1 \in 0..n /\ i \in 0..n /\ i # 0
    BY <1>1
  <2>2. Alike(p[i - 1], q[i - 1])
    BY <1>6, <2>1
  <2>3. /\ p[i] = IF i \in C THEN Append(p[i - 1], s[i]) ELSE p[i - 1]
        /\ q[i] = IF i \in C THEN Append(q[i - 1], u[i]) ELSE q[i - 1]
    BY <1>4, <2>1 DEF UpToStep
  <2>4. Alike(p[i], q[i])
    <3>1. CASE i \in C
      <4>1. s[i].id = u[i].id /\ p[i - 1] \in Seq(S) /\ q[i - 1] \in Seq(S)
        BY <1>3, <2>1, <3>1
      <4> QED BY <2>2, <2>3, <3>1, <4>1
    <3>2. CASE i \notin C
      BY <2>2, <2>3, <3>2
    <3> QED BY <3>1, <3>2
  <2> HIDE DEF Alike
  <2> QED BY <2>1, <2>4
<1> HIDE DEF g
<1>7. \A i \in 0..n : g[i] = TRUE
  BY <1>1, <1>5, <1>6, TrueOn
<1>8. n \in 0..n /\ g[n] = Alike(p[n], q[n])
  BY <1>1 DEF g
<1> HIDE DEF Alike
<1>9. Alike(p[n], q[n])
  BY <1>7, <1>8
<1>10. Alike(p[n], q[n]) /\ p[n] \in Seq(S)
  BY <1>3, <1>8, <1>9
<1> USE DEF Alike
<1> QED BY <1>1, <1>10 DEF Selected, p, q

(* Of what is distinct there are as many as places.                             *)
LEMMA CountDistinct ==
  ASSUME NEW S, NEW s \in Seq(S), Injective(s)
  PROVE  Len(s) = Cardinality(ToSet(s))
<1>1. Len(s) \in Nat /\ DOMAIN s = 1..Len(s) /\ s \in [1..Len(s) -> ToSet(s)]
  BY DEF ToSet
<1>2. s \in Bijection(1..Len(s), ToSet(s))
  BY <1>1 DEF Injective, ToSet, Bijection, Injection, Surjection, IsInjective
<1>3. ExistsBijection(1..Len(s), ToSet(s))
  BY <1>2 DEF ExistsBijection
<1> QED BY <1>1, <1>3, FS_CountingElements
-----------------------------------------------------------------------------
(* The calls and results of messages.                                           *)
IdsIn(c, type) == {c[i].id : i \in {j \in DOMAIN c : c[j].type = type}}

LEMMA IdsOf ==
  ASSUME NEW m, NEW type
  PROVE  Ids(Blocks(m, type)) = IdsIn(m.content, type)
  BY DEF Ids, Blocks, IdsIn

LEMMA CallsAndResults ==
  ASSUME NEW m
  PROVE  /\ ToolCalls(m) = IdsIn(m.content, "tool_use") \cup ToSet(m.tool_calls)
         /\ ToolResults(m) = IdsIn(m.content, "tool_result")
                             \cup (IF m.tool_call_id = None THEN {} ELSE {m.tool_call_id})
  BY IdsOf DEF ToolCalls, ToolResults, Uses

LEMMA IdsListed ==
  ASSUME NEW m \in AllMessages
  PROVE  /\ ToSet(UseIds(m)) = IdsIn(m.content, "tool_use")
         /\ ToSet(ResultIds(m)) = IdsIn(m.content, "tool_result")
         /\ Len(UseIds(m)) = Len(Filtered(m.content, LAMBDA b : b.type = "tool_use"))
         /\ Len(ResultIds(m)) = Len(Filtered(m.content, LAMBDA b : b.type = "tool_result"))
<1> DEFINE c == m.content
           of(type) == {i \in DOMAIN c : c[i].type = type}
           r(type) == Selected(c, of(type))
<1>1. c \in Seq(AllBlocks)
  BY DEF AllMessages
<1> HIDE DEF c
<1>2. ASSUME NEW type PROVE ToSet([i \in DOMAIN r(type) |-> r(type)[i].id]) = IdsIn(c, type)
  <2> DEFINE C == of(type)
             u == Selected(c, C)
  <2> HIDE DEF C
  <2>1. /\ \A j \in DOMAIN u : \E i \in C \cap DOMAIN c : u[j] = c[i]
        /\ \A i \in C \cap DOMAIN c : \E j \in DOMAIN u : u[j] = c[i]
    BY <1>1, SelectedElements
  <2> HIDE DEF u
  <2>2. ToSet([i \in DOMAIN u |-> u[i].id]) = IdsIn(c, type)
    BY <2>1 DEF ToSet, IdsIn, C
  <2> QED BY <2>2 DEF u, C
<1>3. ASSUME NEW type PROVE Len([i \in DOMAIN r(type) |-> r(type)[i].id]) = Len(r(type))
  <2>1. r(type) \in Seq(AllBlocks)
    BY <1>1, SelectedIs
  <2> HIDE DEF r
  <2> QED BY <2>1
<1>4. /\ UseIds(m) = [i \in DOMAIN r("tool_use") |-> r("tool_use")[i].id]
      /\ ResultIds(m) = [i \in DOMAIN r("tool_result") |-> r("tool_result")[i].id]
  BY DEF UseIds, ResultIds, Filtered, c
<1>5. /\ Len(Filtered(m.content, LAMBDA b : b.type = "tool_use")) = Len(r("tool_use"))
      /\ Len(Filtered(m.content, LAMBDA b : b.type = "tool_result")) = Len(r("tool_result"))
  BY DEF Filtered, c
<1> HIDE DEF r
<1> QED BY <1>2, <1>3, <1>4, <1>5 DEF c

LEMMA NoneListed ==
  ASSUME NEW S, NEW s \in Seq(S)
  PROVE  s = <<>> <=> ToSet(s) = {}
  BY DEF ToSet

(* A client that has its calls inside the contents, and one beside them.        *)
Inside(m) ==
    /\ m.tool_calls = <<>> /\ m.tool_call_id = None /\ m.role # "tool"
    /\ m.role # "assistant" => IdsIn(m.content, "tool_use") = {}
    /\ IdsIn(m.content, "tool_result") # {} =>
         m.role = "user" /\ \A i \in DOMAIN m.content : m.content[i].type = "tool_result"
    /\ Injective(ResultIds(m)) /\ ResultIds(m) \in Seq(Nat)
Beside(m) ==
    /\ \A i \in DOMAIN m.content : m.content[i].type \notin {"tool_use", "tool_result"}
    /\ m.role # "assistant" => m.tool_calls = <<>>
    /\ m.tool_call_id # None <=> m.role = "tool"
InsideMessages == {m \in AllMessages : Inside(m)}
BesideMessages == {m \in AllMessages : Beside(m)}

(* The calls of the second come without a thought, once normalized.             *)
BareMessages == {m \in BesideMessages : m.tool_calls # <<>> => m.content = <<>>}

LEMMA InsideIs ==
  ASSUME NEW m \in InsideMessages
  PROVE  /\ ToolCalls(m) = IdsIn(m.content, "tool_use")
         /\ ToolResults(m) = IdsIn(m.content, "tool_result")
         /\ m.role # "assistant" => ToolCalls(m) = {}
         /\ m.role # "user" => ToolResults(m) = {}
         /\ ToolCalls(m) = {} \/ ToolResults(m) = {}
<1>1. ToSet(<<>>) = {}
  BY DEF ToSet
<1> QED BY <1>1, CallsAndResults DEF InsideMessages, Inside

LEMMA BesideIs ==
  ASSUME NEW m \in BesideMessages
  PROVE  /\ ToolCalls(m) = ToSet(m.tool_calls)
         /\ ToolResults(m) = IF m.tool_call_id = None THEN {} ELSE {m.tool_call_id}
         /\ m.role # "assistant" => ToolCalls(m) = {}
         /\ m.role # "tool" <=> ToolResults(m) = {}
         /\ m.tool_calls = <<>> <=> ToolCalls(m) = {}
<1>1. ToSet(<<>>) = {}
  BY DEF ToSet
<1>2. IdsIn(m.content, "tool_use") = {} /\ IdsIn(m.content, "tool_result") = {}
  BY DEF BesideMessages, Beside, IdsIn
<1>3. m.tool_calls \in Seq(Numbers)
  BY DEF BesideMessages, AllMessages
<1>4. m.tool_calls = <<>> <=> ToSet(m.tool_calls) = {}
  BY <1>3, NoneListed
<1> QED BY <1>1, <1>2, <1>4, CallsAndResults DEF BesideMessages, Beside
-----------------------------------------------------------------------------
(* The sanitizer leaves the calls and results as they are.                      *)
CallTypes == {"tool_use", "tool_result"}

LEMMA IdsAppended ==
  ASSUME NEW c \in Seq(AllBlocks), NEW b \in AllBlocks, NEW type
  PROVE  IdsIn(Append(c, b), type) = IdsIn(c, type) \cup (IF b.type = type THEN {b.id} ELSE {})
<1> DEFINE d == Append(c, b)
<1>1. /\ DOMAIN d = DOMAIN c \cup {Len(c) + 1} /\ d[Len(c) + 1] = b
      /\ \A i \in DOMAIN c : d[i] = c[i]
  OBVIOUS
<1> HIDE DEF d
<1> QED BY <1>1 DEF IdsIn, d

LEMMA IdsOfNone ==
  ASSUME NEW c, NEW type
  PROVE  /\ IdsIn(c, type) = {} <=> \A i \in DOMAIN c : c[i].type # type
         /\ IdsIn(<<>>, type) = {}
<1>1. IdsIn(c, type) = {} <=> \A i \in DOMAIN c : c[i].type # type
  BY DEF IdsIn
<1>2. DOMAIN <<>> = {}
  OBVIOUS
<1>3. IdsIn(<<>>, type) = {}
  BY <1>2 DEF IdsIn
<1> QED BY <1>1, <1>3

LEMMA BlockKeepsIds ==
  ASSUME NEW context, NEW acc \in Outcomes(SignedBlocks, context), NEW b \in AllBlocks,
         NEW type \in CallTypes
  PROVE  IdsIn(SanitizeBlock(acc, b).done, type)
           = IdsIn(acc.done, type) \cup (IF b.type = type THEN {b.id} ELSE {})
<1> DEFINE Added(d) == /\ d \in AllBlocks
                       /\ d.type = b.type \/ (IsThinking(b) /\ d.type = "text")
                       /\ d.id = b.id \/ IsThinking(b)
           e == SanitizeBlock(acc, b).done
<1>0. acc.done \in Seq(AllBlocks)
  BY AnyMessages, FewerBlocks DEF Outcomes
<1>1. (e = acc.done /\ IsThinking(b)) \/ \E d : e = Append(acc.done, d) /\ Added(d)
  <2>1. CASE IsThinking(b)
    <3> DEFINE sig == RecoverSignatureForThinking(b, acc.context, acc.caches)
    <3>1. CASE HasValidThoughtsignature(b)
      <4>1. e = Append(acc.done, b)
        BY <2>1, <3>1 DEF SanitizeBlock, AcceptThinking, Outcomes
      <4>2. Added(b)
        OBVIOUS
      <4> HIDE DEF e, Added
      <4> QED BY <4>1, <4>2
    <3>2. CASE ~HasValidThoughtsignature(b) /\ sig = None
      <4>1. e = acc.done \o DowngradeThinkingToText(b)
        BY <2>1, <3>2 DEF SanitizeBlock, AcceptThinking, Outcomes
      <4>2. CASE b.text = None
        <5>1. e = acc.done
          BY <1>0, <4>1, <4>2 DEF DowngradeThinkingToText
        <5> QED BY <2>1, <5>1
      <4>3. CASE b.text # None
        <5>1. e = Append(acc.done, Text(b.text))
          BY <1>0, <4>1, <4>3 DEF DowngradeThinkingToText
        <5>2. Text(b.text) \in AllBlocks /\ Text(b.text).type = "text"
          BY <4>3 DEF Text, Block, AllBlocks, Types, Numbers
        <5> QED BY <2>1, <5>1, <5>2
      <4> QED BY <4>2, <4>3
    <3>3. CASE ~HasValidThoughtsignature(b) /\ sig # None
      <4>1. e = Append(acc.done, [b EXCEPT !.sig = sig])
        BY <2>1, <3>3 DEF SanitizeBlock, AcceptThinking
      <4>2. sig \in Real \cup {Short, None}
        <5> DEFINE sigs == <<b.sig, acc.context, IF b.text = None THEN None ELSE acc.caches.text[b.text],
                             acc.caches.session, acc.caches.last>>
                   S == {b.sig, acc.context, IF b.text = None THEN None ELSE acc.caches.text[b.text],
                         acc.caches.session, acc.caches.last}
        <5>1. sigs \in Seq(S)
          OBVIOUS
        <5> HIDE DEF sigs, S
        <5>2. FirstValid(sigs) \in Real \cup {Short, None}
          BY <5>1, FirstValidIs
        <5> QED BY <5>2 DEF RecoverSignatureForThinking, sigs
      <4> HIDE DEF sig
      <4>3. [b EXCEPT !.sig = sig] \in AllBlocks
        BY <4>2 DEF AllBlocks, Signatures
      <4>4. [b EXCEPT !.sig = sig].type = b.type
        BY DEF AllBlocks
      <4> DEFINE d == [b EXCEPT !.sig = sig]
      <4>5. Added(d)
        BY <2>1, <4>3, <4>4
      <4> HIDE DEF e, d, Added
      <4>6. e = Append(acc.done, d)
        BY <4>1 DEF d
      <4> QED BY <4>5, <4>6
    <3> QED BY <3>1, <3>2, <3>3
  <2>2. CASE ~IsThinking(b) /\ b.type = "tool_use"
    <3> DEFINE sig == RecoverSignatureForToolUse(b, acc.context, acc.caches)
    <3>1. e = Append(acc.done, [b EXCEPT !.sig = sig])
      BY <2>2 DEF SanitizeBlock, Outcomes
    <3>2. sig \in Signatures
      <4> DEFINE sigs == <<b.sig, acc.context, acc.caches.session, acc.caches.tool[b.id], acc.caches.last>>
                 S == {b.sig, acc.context, acc.caches.session, acc.caches.tool[b.id], acc.caches.last}
      <4>1. sigs \in Seq(S)
        OBVIOUS
      <4> HIDE DEF sigs, S
      <4>2. FirstValid(sigs) \in Real \cup {Short, None}
        BY <4>1, FirstValidIs
      <4> QED BY <4>2 DEF RecoverSignatureForToolUse, sigs, Signatures
    <3> HIDE DEF sig
    <3>3. [b EXCEPT !.sig = sig] \in AllBlocks
      BY <3>2 DEF AllBlocks
    <3>4. [b EXCEPT !.sig = sig].type = b.type /\ [b EXCEPT !.sig = sig].id = b.id
      BY DEF AllBlocks
    <3> DEFINE d == [b EXCEPT !.sig = sig]
    <3>5. Added(d)
      BY <3>3, <3>4
    <3> HIDE DEF e, d, Added
    <3>6. e = Append(acc.done, d)
      BY <3>1 DEF d
    <3> QED BY <3>5, <3>6
  <2>3. CASE ~IsThinking(b) /\ b.type # "tool_use"
    <3>1. e = Append(acc.done, b)
      BY <2>3 DEF SanitizeBlock, Outcomes
    <3>2. Added(b)
      OBVIOUS
    <3> HIDE DEF e, Added
    <3> QED BY <3>1, <3>2
  <2> QED BY <2>1, <2>2, <2>3
<1>2. IsThinking(b) => b.type # type
  BY DEF IsThinking, CallTypes
<1>3. "text" # type
  BY DEF CallTypes
<1> HIDE DEF e
<1>4. ASSUME NEW d, e = Append(acc.done, d), Added(d)
      PROVE  IdsIn(e, type) = IdsIn(acc.done, type) \cup (IF b.type = type THEN {b.id} ELSE {})
  <2>1. IdsIn(e, type) = IdsIn(acc.done, type) \cup (IF d.type = type THEN {d.id} ELSE {})
    BY <1>0, <1>4, IdsAppended
  <2> QED BY <1>2, <1>3, <1>4, <2>1
<1>5. IdsIn(e, type) = IdsIn(acc.done, type) \cup (IF b.type = type THEN {b.id} ELSE {})
  BY <1>1, <1>2, <1>4
<1> QED BY <1>5 DEF e

LEMMA ContentKeepsIds ==
  ASSUME NEW context, NEW base \in Outcomes(SignedBlocks, context), base.done = <<>>,
         NEW s \in Seq(AllBlocks), NEW type \in CallTypes
  PROVE  IdsIn(Folded(SanitizeBlock, base, s).done, type) = IdsIn(s, type)
<1> DEFINE n == Len(s)
           ids(i) == {s[j].id : j \in {l \in 1..i : s[l].type = type}}
<1>1. PICK g : /\ g[0] = base /\ g[n] = Folded(SanitizeBlock, base, s)
               /\ \A i \in 1..n : g[i] = SanitizeBlock(g[i - 1], s[i])
               /\ \A i \in 0..n : g[i] \in Outcomes(SignedBlocks, context)
  BY BlocksRow
<1> DEFINE e == [i \in 0..n |-> IdsIn(g[i].done, type) = ids(i)]
<1>2. n \in Nat /\ DOMAIN s = 1..n /\ \A i \in 1..n : s[i] \in AllBlocks
  OBVIOUS
<1> HIDE DEF n
<1>3. e[0] = TRUE
  <2>1. ids(0) = {} /\ 0 \in 0..n
    BY <1>2
  <2>2. IdsIn(g[0].done, type) = {}
    BY <1>1, IdsOfNone
  <2> QED BY <2>1, <2>2
<1>4. ASSUME NEW i \in 1..n, e[i - 1] = TRUE PROVE e[i] = TRUE
  <2>1. i - 1 \in 0..n /\ i \in 0..n
    BY <1>2
  <2>2. IdsIn(g[i].done, type)
          = IdsIn(g[i - 1].done, type) \cup (IF s[i].type = type THEN {s[i].id} ELSE {})
    <3>1. g[i - 1] \in Outcomes(SignedBlocks, context) /\ s[i] \in AllBlocks
      BY <1>1, <1>2, <2>1
    <3>2. IdsIn(SanitizeBlock(g[i - 1], s[i]).done, type)
            = IdsIn(g[i - 1].done, type) \cup (IF s[i].type = type THEN {s[i].id} ELSE {})
      BY <3>1, BlockKeepsIds
    <3> QED BY <1>1, <3>2
  <2>3. ids(i) = ids(i - 1) \cup (IF s[i].type = type THEN {s[i].id} ELSE {})
    <3>1. 1..i = 1..(i - 1) \cup {i}
      BY <1>2
    <3> QED BY <3>1
  <2>4. IdsIn(g[i - 1].done, type) = ids(i - 1)
    BY <1>4, <2>1
  <2> QED BY <2>1, <2>2, <2>3, <2>4
<1> HIDE DEF e
<1>5. \A i \in 0..n : e[i] = TRUE
  BY <1>2, <1>3, <1>4, TrueOn
<1>6. n \in 0..n /\ e[n] = (IdsIn(g[n].done, type) = ids(n))
  BY <1>2 DEF e
<1>7. ids(n) = IdsIn(s, type)
  BY <1>2 DEF IdsIn
<1> QED BY <1>1, <1>5, <1>6, <1>7

(* What a message may become without a reader of calls and results noticing.    *)
Reformed(m, k) ==
    /\ k \in AllMessages
    /\ k.role = m.role /\ k.tool_calls = m.tool_calls /\ k.tool_call_id = m.tool_call_id
    /\ \A type \in CallTypes : IdsIn(k.content, type) = IdsIn(m.content, type)
    /\ m.role # "assistant" \/ m.content = <<>> => k.content = m.content

LEMMA ReformedKeeps ==
  ASSUME NEW m \in AllMessages, NEW k, Reformed(m, k)
  PROVE  /\ SameCalls(m, k)
         /\ m \in InsideMessages => k \in InsideMessages
         /\ m \in BesideMessages => k \in BesideMessages
         /\ m \in BareMessages => k \in BareMessages
<1>1. SameCalls(m, k)
  BY CallsAndResults DEF Reformed, SameCalls, CallTypes
<1>2. ASSUME m \in InsideMessages PROVE k \in InsideMessages
  <2>1. CASE m.role # "assistant"
    <3>1. k.content = m.content
      BY <2>1 DEF Reformed
    <3>2. ResultIds(k) = ResultIds(m)
      BY <3>1 DEF ResultIds
    <3> QED BY <1>2, <3>1, <3>2 DEF InsideMessages, Inside, Reformed
  <2>2. CASE m.role = "assistant"
    <3>1. IdsIn(k.content, "tool_result") = {}
      BY <1>2, <2>2 DEF InsideMessages, Inside, Reformed, CallTypes
    <3>2. ResultIds(k) = <<>>
      BY <3>1, IdsListed, IdsAre, NoneListed DEF Reformed
    <3>3. Injective(ResultIds(k)) /\ ResultIds(k) \in Seq(Nat)
      BY <3>2 DEF Injective
    <3> QED BY <1>2, <2>2, <3>1, <3>3 DEF InsideMessages, Inside, Reformed
  <2> QED BY <2>1, <2>2
<1>3. ASSUME m \in BesideMessages PROVE k \in BesideMessages
  <2>1. \A type \in CallTypes : IdsIn(m.content, type) = {}
    BY <1>3, IdsOfNone DEF BesideMessages, Beside, CallTypes
  <2>2. \A type \in CallTypes : IdsIn(k.content, type) = {}
    BY <2>1 DEF Reformed
  <2>3. \A i \in DOMAIN k.content : k.content[i].type \notin {"tool_use", "tool_result"}
    BY <2>2, IdsOfNone DEF CallTypes
  <2> QED BY <1>3, <2>3 DEF BesideMessages, Beside, Reformed
<1>4. m \in BareMessages => k \in BareMessages
  BY <1>3 DEF BareMessages, Reformed
<1> QED BY <1>1, <1>2, <1>3, <1>4

LEMMA OrEllipsisIds ==
  ASSUME NEW c \in Seq(AllBlocks), NEW type \in CallTypes
  PROVE  IdsIn(OrEllipsis(c), type) = IdsIn(c, type) /\ OrEllipsis(c) \in Seq(AllBlocks)
<1>1. Ellipsis \in AllBlocks /\ Ellipsis.type = "text"
  BY BlocksAre, AnyMessages DEF Ellipsis, Text, Block
<1>2. CASE c = <<>>
  <2>1. OrEllipsis(c) = <<Ellipsis>> /\ <<Ellipsis>> = Append(c, Ellipsis)
    BY <1>2 DEF OrEllipsis
  <2>2. IdsIn(Append(c, Ellipsis), type) = IdsIn(c, type)
    <3>1. Ellipsis.type # type
      BY <1>1 DEF CallTypes
    <3>2. IdsIn(Append(c, Ellipsis), type)
            = IdsIn(c, type) \cup (IF Ellipsis.type = type THEN {Ellipsis.id} ELSE {})
      BY <1>1, IdsAppended
    <3> QED BY <3>1, <3>2
  <2>3. <<Ellipsis>> \in Seq(AllBlocks)
    BY <1>1
  <2> QED BY <2>1, <2>2, <2>3
<1> QED BY <1>2 DEF OrEllipsis

LEMMA MessageReformed ==
  ASSUME NEW context, NEW acc \in Outcomes(MessagesOf(SignedBlocks), context),
         NEW m \in AllMessages
  PROVE  \E k : SanitizeMessage(acc, m).done = Append(acc.done, k) /\ Reformed(m, k)
<1>0. /\ acc.caches \in Caches /\ acc.context \in Signatures \cup {None, context}
      /\ acc = [done |-> acc.done, context |-> acc.context, caches |-> acc.caches]
  BY DEF Outcomes
<1>1. CASE m.role # "assistant" \/ m.content = <<>>
  <2>1. SanitizeMessage(acc, m).done = Append(acc.done, m)
    BY <1>0, <1>1 DEF SanitizeMessage
  <2>2. Reformed(m, m)
    BY DEF Reformed
  <2> QED BY <2>1, <2>2
<1>2. CASE ~(m.role # "assistant" \/ m.content = <<>>)
  <2> DEFINE base == [acc EXCEPT !.done = <<>>]
             r == Folded(SanitizeBlock, base, m.content)
             c == OrEllipsis(r.done)
             k == [m EXCEPT !.content = c]
  <2>1. base \in Outcomes(SignedBlocks, context) /\ base.done = <<>>
    <3>1. base = [done |-> <<>>, context |-> acc.context, caches |-> acc.caches]
      BY <1>0
    <3>2. <<>> \in Seq(SignedBlocks)
      OBVIOUS
    <3> HIDE DEF base
    <3> QED BY <1>0, <3>1, <3>2 DEF Outcomes
  <2>2. m.content \in Seq(AllBlocks)
    BY DEF AllMessages
  <2> HIDE DEF base
  <2>3. r \in Outcomes(SignedBlocks, context)
    BY <2>1, <2>2, BlocksSanitized
  <2>4. \A type \in CallTypes : IdsIn(r.done, type) = IdsIn(m.content, type)
    BY <2>1, <2>2, ContentKeepsIds
  <2>5. SanitizeMessage(acc, m).done = Append(acc.done, [m EXCEPT !.content = OrEllipsis(r.done)])
    <3>1. SanitizeMessage(acc, m)
            = [r EXCEPT !.done = Append(acc.done, [m EXCEPT !.content = OrEllipsis(r.done)])]
      BY <1>2 DEF SanitizeMessage, base
    <3> HIDE DEF r, k, c
    <3> QED BY <2>3, <3>1 DEF Outcomes
  <2> HIDE DEF r
  <2>6. r.done \in Seq(AllBlocks)
    BY <2>3, AnyMessages, FewerBlocks DEF Outcomes
  <2>7. c \in Seq(AllBlocks) /\ \A type \in CallTypes : IdsIn(c, type) = IdsIn(m.content, type)
    BY <2>4, <2>6, OrEllipsisIds DEF CallTypes
  <2> HIDE DEF c
  <2>8. k \in AllMessages
    BY <1>2, <2>7, ContentReplaced, AnyMessages
  <2>9. k.role = m.role /\ k.tool_calls = m.tool_calls /\ k.tool_call_id = m.tool_call_id /\ k.content = c
    BY DEF AllMessages
  <2>10. Reformed(m, k)
    <3> HIDE DEF k
    <3> QED BY <1>2, <2>7, <2>8, <2>9 DEF Reformed
  <2>11. SanitizeMessage(acc, m).done = Append(acc.done, k)
    BY <2>5 DEF c
  <2> HIDE DEF k
  <2> QED BY <2>10, <2>11
<1> QED BY <1>1, <1>2

AllReformed(h, u) == Len(u) = Len(h) /\ \A i \in 1..Len(h) : Reformed(h[i], u[i])

LEMMA HistoryReformed ==
  ASSUME NEW h \in Seq(AllMessages), NEW context,
         NEW base \in Outcomes(MessagesOf(SignedBlocks), context), base.done = <<>>
  PROVE  AllReformed(h, Folded(SanitizeMessage, base, h).done)
<1> DEFINE n == Len(h)
<1>1. PICK g : /\ g[0] = base /\ g[n] = Folded(SanitizeMessage, base, h)
               /\ \A i \in 1..n : g[i] = SanitizeMessage(g[i - 1], h[i])
               /\ \A i \in 0..n : g[i] \in Outcomes(MessagesOf(SignedBlocks), context)
  BY MessagesRow
<1> DEFINE Good(i, u) == Len(u) = i /\ \A j \in 1..i : Reformed(h[j], u[j])
           e == [i \in 0..n |-> Good(i, g[i].done)]
<1>2. n \in Nat /\ \A i \in 1..n : h[i] \in AllMessages
  OBVIOUS
<1>3. \A i \in 0..n : g[i].done \in Seq(MessagesOf(SignedBlocks))
  BY <1>1 DEF Outcomes
<1> HIDE DEF n
<1>4. e[0] = TRUE
  <2>1. 0 \in 0..n /\ Good(0, <<>>)
    BY <1>2
  <2> HIDE DEF Good
  <2> QED BY <1>1, <2>1
<1>5. ASSUME NEW i \in 1..n, e[i - 1] = TRUE PROVE e[i] = TRUE
  <2>1. i - 1 \in 0..n /\ i \in 0..n
    BY <1>2
  <2>2. PICK k : SanitizeMessage(g[i - 1], h[i]).done = Append(g[i - 1].done, k) /\ Reformed(h[i], k)
    BY <1>1, <1>2, <2>1, MessageReformed
  <2>3. g[i].done = Append(g[i - 1].done, k)
    BY <1>1, <2>2
  <2>4. Good(i - 1, g[i - 1].done)
    BY <1>5, <2>1
  <2> DEFINE u == g[i - 1].done
  <2>5. u \in Seq(MessagesOf(SignedBlocks))
    BY <1>3, <2>1
  <2> HIDE DEF u
  <2>6. Good(i, Append(u, k))
    <3>1. Len(u) = i - 1 /\ \A j \in 1..(i - 1) : Reformed(h[j], u[j])
      BY <2>4 DEF u
    <3>2. Len(Append(u, k)) = i
      BY <1>2, <2>5, <3>1
    <3>3. ASSUME NEW j \in 1..i PROVE Reformed(h[j], Append(u, k)[j])
      <4>1. CASE j = i
        <5>1. Append(u, k)[j] = k
          BY <2>5, <3>1, <4>1
        <5> QED BY <2>2, <4>1, <5>1
      <4>2. CASE j # i
        <5>1. j \in 1..(i - 1)
          BY <1>2, <4>2
        <5>2. Append(u, k)[j] = u[j]
          BY <2>5, <3>1, <5>1
        <5> QED BY <3>1, <5>1, <5>2
      <4> QED BY <4>1, <4>2
    <3> QED BY <3>2, <3>3
  <2> HIDE DEF Good
  <2> QED BY <2>1, <2>3, <2>6 DEF u
<1> HIDE DEF e
<1>6. \A i \in 0..n : e[i] = TRUE
  BY <1>2, <1>4, <1>5, TrueOn
<1>7. n \in 0..n /\ e[n] = Good(n, g[n].done)
  BY <1>2 DEF e
<1>8. Good(n, g[n].done)
  BY <1>6, <1>7
<1> QED BY <1>1, <1>8 DEF AllReformed, n

Forms == {InsideMessages, BesideMessages, BareMessages}

LEMMA ReformedHistory ==
  ASSUME NEW M \in Forms, NEW h \in Seq(M), NEW u, u \in Seq(AllMessages), AllReformed(h, u)
  PROVE  /\ u \in Seq(M) /\ h \in Seq(AllMessages)
         /\ \A s, t : Leads(h, s, t) => Leads(u, s, t)
<1>1. M \subseteq AllMessages
  BY DEF Forms, InsideMessages, BesideMessages, BareMessages
<1>2. ASSUME NEW i \in 1..Len(h) PROVE u[i] \in M /\ SameCalls(h[i], u[i])
  <2>1. h[i] \in M /\ h[i] \in AllMessages /\ Reformed(h[i], u[i])
    BY <1>1 DEF AllReformed
  <2> QED BY <2>1, ReformedKeeps DEF Forms
<1>3. Len(u) = Len(h)
  BY DEF AllReformed
<1>4. u \in Seq(M)
  BY <1>2, <1>3, SeqIn
<1>5. h \in Seq(AllMessages)
  BY <1>1
<1>6. ASSUME NEW s, NEW t, Leads(h, s, t) PROVE Leads(u, s, t)
  BY <1>2, <1>3, <1>6, LeadsSame
<1> QED BY <1>4, <1>5, <1>6

LEMMA NoOrphans ==
  ASSUME NEW M \in Forms, NEW h \in Seq(M), NEW s, NEW t, Leads(h, s, t), t.open = {}
  PROVE  OrphanUses(h) = {}
<1>1. Len(h) \in Nat /\ DOMAIN h = 1..Len(h) /\ \A i \in DOMAIN h : h[i] \in M
  OBVIOUS
<1>2. AllCalls(h) \subseteq AllResults(h)
  BY <1>1, CallsAnswered
<1>3. CASE M = InsideMessages
  <2>1. \A m \in Messages(h) : Uses(m) = ToolCalls(m) /\ Ids(Blocks(m, "tool_result")) = ToolResults(m)
    BY <1>1, <1>3, InsideIs, IdsOf DEF Messages, Uses
  <2>2. ASSUME NEW m \in Messages(h), NEW id \in Uses(m)
        PROVE  \E k \in Messages(h) : id \in Ids(Blocks(k, "tool_result"))
    <3>1. id \in AllResults(h)
      BY <1>2, <2>1, <2>2 DEF AllCalls
    <3> QED BY <2>1, <3>1 DEF AllResults
  <2> QED BY <2>2 DEF OrphanUses
<1>4. CASE M # InsideMessages
  <2>1. ASSUME NEW m \in Messages(h) PROVE Uses(m) = {}
    <3>1. m \in BesideMessages
      BY <1>1, <1>4 DEF Forms, BareMessages, Messages
    <3>2. IdsIn(m.content, "tool_use") = {}
      BY <3>1, IdsOfNone DEF BesideMessages, Beside
    <3> QED BY <3>2, IdsOf DEF Uses
  <2> QED BY <2>1 DEF OrphanUses
<1> QED BY <1>3, <1>4

LEMMA NothingEnsured ==
  ASSUME NEW h \in Seq(AllMessages), OrphanUses(h) = {}
  PROVE  EnsureToolChainIntegrity(h) = h
<1>1. ASSUME NEW i \in DOMAIN h PROVE WithoutUses(h[i], {}) = h[i]
  <2>1. h[i] \in AllMessages
    OBVIOUS
  <2> QED BY <2>1 DEF WithoutUses, AllMessages
<1>2. h = [i \in DOMAIN h |-> h[i]]
  OBVIOUS
<1> QED BY <1>1, <1>2 DEF EnsureToolChainIntegrity

LEMMA SanitizeKeeps ==
  ASSUME NEW M \in Forms, NEW h \in Seq(M), NEW one, Whole(h, one), NEW thinking \in BOOLEAN,
         NEW context, NEW caches \in Caches
  PROVE  LET u == Sanitize(h, thinking, context, caches).messages
         IN  u \in Seq(M) /\ Whole(u, one)
<1> DEFINE start == [done |-> <<>>, context |-> context, caches |-> caches]
           u == ValidateAndRecover(h, thinking, context, caches).done
<1>0. h \in Seq(AllMessages)
  BY DEF Forms, InsideMessages, BesideMessages, BareMessages
<1>1. start \in Outcomes(MessagesOf(SignedBlocks), context) /\ start.done = <<>>
  BY DEF Outcomes
<1>2. u \in Seq(M) /\ Whole(u, one)
  <2>1. CASE ~thinking
    <3>1. u = h
      BY <2>1 DEF ValidateAndRecover
    <3> QED BY <3>1
  <2>2. CASE thinking
    <3>1. u = Folded(SanitizeMessage, start, h).done
      BY <2>2 DEF ValidateAndRecover
    <3> HIDE DEF u, start
    <3>2. AllReformed(h, u)
      BY <1>0, <1>1, <3>1, HistoryReformed
    <3>3. u \in Seq(AllMessages)
      <4>1. Folded(SanitizeMessage, start, h) \in Outcomes(MessagesOf(SignedBlocks), context)
        BY <1>0, <1>1, MessagesSanitized
      <4>2. u \in Seq(MessagesOf(SignedBlocks))
        BY <3>1, <4>1 DEF Outcomes
      <4> QED BY <4>2, AnyMessages, FewerBlocks
    <3>4. u \in Seq(M) /\ \A s, t : Leads(h, s, t) => Leads(u, s, t)
      BY <3>2, <3>3, ReformedHistory
    <3> QED BY <3>4 DEF Whole
  <2> QED BY <2>1, <2>2
<1> HIDE DEF u
<1>3. OrphanUses(u) = {}
  BY <1>2, NoOrphans DEF Whole
<1>4. u \in Seq(AllMessages)
  BY <1>2 DEF Forms, InsideMessages, BesideMessages, BareMessages
<1>5. EnsureToolChainIntegrity(u) = u
  BY <1>3, <1>4, NothingEnsured
<1>6. Sanitize(h, thinking, context, caches).messages = u
  BY <1>5 DEF Sanitize, u
<1> QED BY <1>2, <1>6
-----------------------------------------------------------------------------
(* Normalizing puts the calls beside the contents and each result into a        *)
(* message of its own.                                                          *)
LEMMA KeptIs ==
  ASSUME NEW c \in Seq(AllBlocks)
  PROVE  /\ Kept(c) \in Seq(AllBlocks)
         /\ \A i \in DOMAIN Kept(c) : Kept(c)[i].type \notin CallTypes
         /\ (\A i \in DOMAIN c : c[i].type \in CallTypes) => Kept(c) = <<>>
<1> DEFINE chosen == {i \in DOMAIN c : /\ c[i].type \notin {"tool_use", "tool_result"}
                                       /\ IsThinking(c[i]) => c[i].text # None}
           k == Selected(c, chosen)
<1>1. Kept(c) = k
  BY DEF Kept, Filtered
<1>2. /\ k \in Seq(AllBlocks)
      /\ \A j \in DOMAIN k : \E i \in chosen \cap DOMAIN c : k[j] = c[i]
  <2> HIDE DEF chosen
  <2> QED BY SelectedIs, SelectedElements
<1> HIDE DEF k
<1>3. \A i \in DOMAIN k : k[i].type \notin CallTypes
  BY <1>2 DEF CallTypes
<1>4. ASSUME \A i \in DOMAIN c : c[i].type \in CallTypes PROVE k = <<>>
  <2>1. chosen = {}
    BY <1>4 DEF CallTypes
  <2>2. DOMAIN k = {}
    BY <1>2, <2>1
  <2> QED BY <1>2, <2>2
<1> QED BY <1>1, <1>2, <1>3, <1>4

LEMMA CallsKept ==
  ASSUME NEW ids \in Seq(Numbers)
  PROVE  /\ Calls(ids) \in BareMessages
         /\ ToolCalls(Calls(ids)) = ToSet(ids) /\ ToolResults(Calls(ids)) = {}
<1>1. Calls(ids) \in AllMessages
  BY CallsAre DEF MessagesOf
<1>2. /\ Calls(ids).role = "assistant" /\ Calls(ids).content = <<>>
      /\ Calls(ids).tool_calls = ids /\ Calls(ids).tool_call_id = None
  BY DEF Calls, Message
<1> DEFINE k == Calls(ids)
<1> HIDE DEF k
<1>3. \A type : IdsIn(k.content, type) = {}
  BY <1>2, IdsOfNone DEF k
<1>4. k \in BareMessages
  BY <1>1, <1>2 DEF BareMessages, BesideMessages, Beside, k
<1>5. ToolCalls(k) = ToSet(ids) /\ ToolResults(k) = {}
  BY <1>2, <1>3, CallsAndResults DEF k
<1> QED BY <1>4, <1>5 DEF k

LEMMA AnswerKept ==
  ASSUME NEW id \in Nat
  PROVE  Answers(id) \in BareMessages
<1>1. Answers(id) \in AllMessages
  BY AnswersAre DEF MessagesOf, Numbers
<1>2. /\ Answers(id).role = "tool" /\ Answers(id).content = <<Text("result")>>
      /\ Answers(id).tool_calls = <<>> /\ Answers(id).tool_call_id = id
  BY DEF Answers, Message
<1>3. Text("result").type = "text" /\ id # None
  BY NoneAssumption DEF Text, Block
<1> QED BY <1>1, <1>2, <1>3 DEF BareMessages, BesideMessages, Beside

(* What a message says, with some calls beside it.                              *)
Outside(m, ids) == [[m EXCEPT !.content = Kept(m.content)] EXCEPT !.tool_calls = ids]

LEMMA WithoutBlocks ==
  ASSUME NEW m \in AllMessages, NEW ids \in Seq(Numbers)
  PROVE  LET k == Outside(m, ids)
         IN  /\ k \in AllMessages /\ k.role = m.role /\ k.tool_calls = ids
             /\ k.tool_call_id = m.tool_call_id /\ k.content = Kept(m.content)
             /\ ToolCalls(k) = ToSet(ids)
             /\ ToolResults(k) = IF m.tool_call_id = None THEN {} ELSE {m.tool_call_id}
             /\ \A i \in DOMAIN k.content : k.content[i].type \notin CallTypes
<1> DEFINE k == Outside(m, ids)
<1>1. m.content \in Seq(AllBlocks)
  BY DEF AllMessages
<1>2. Kept(m.content) \in Seq(AllBlocks)
  BY <1>1, KeptIs
<1>3. /\ k \in AllMessages /\ k.role = m.role /\ k.tool_calls = ids
      /\ k.tool_call_id = m.tool_call_id /\ k.content = Kept(m.content)
  BY <1>2 DEF AllMessages, Outside
<1> HIDE DEF k
<1>4. \A i \in DOMAIN k.content : k.content[i].type \notin CallTypes
  BY <1>1, <1>3, KeptIs
<1>5. IdsIn(k.content, "tool_use") = {} /\ IdsIn(k.content, "tool_result") = {}
  BY <1>4, IdsOfNone DEF CallTypes
<1> QED BY <1>3, <1>4, <1>5, CallsAndResults DEF k

(* One more message: what is done leads to where the history is.                *)
Normalizes(acc, s, N) ==
    /\ acc.done \in Seq(N) /\ Leads(Flushed(acc), Start(FALSE), s)
    /\ acc.pending # <<>> => s.open = ToSet(acc.pending)

LEMMA FlushedIn ==
  ASSUME NEW acc \in Normalizing, NEW N, acc.done \in Seq(N), BareMessages \subseteq N
  PROVE  Flushed(acc) \in Seq(N)
<1>1. acc.pending \in Seq(Numbers)
  BY DEF Normalizing
<1>2. Calls(acc.pending) \in N
  BY <1>1, CallsKept
<1> QED BY <1>2 DEF Flushed

LEMMA NormalizedOn ==
  ASSUME NEW acc \in Normalizing, NEW s, NEW t, NEW N, BareMessages \subseteq N,
         Normalizes(acc, s, N), NEW d \in Seq(N), Leads(d, s, t)
  PROVE  Normalizes([done |-> Flushed(acc) \o d, pending |-> <<>>], t, N)
<1>1. Flushed(acc) \in Seq(N)
  BY FlushedIn DEF Normalizes
<1>2. Leads(Flushed(acc) \o d, Start(FALSE), t)
  BY <1>1, LeadsOn DEF Normalizes
<1>3. Flushed(acc) \o d \in Seq(N)
  BY <1>1
<1> HIDE DEF Flushed
<1>4. Flushed([done |-> Flushed(acc) \o d, pending |-> <<>>]) = Flushed(acc) \o d
  <2> DEFINE u == Flushed(acc) \o d
  <2> HIDE DEF u
  <2>1. Flushed([done |-> u, pending |-> <<>>]) = u
    BY DEF Flushed
  <2> QED BY <2>1 DEF u
<1> QED BY <1>2, <1>3, <1>4 DEF Normalizes

LEMMA BesideNormalized ==
  ASSUME NEW acc \in Normalizing, NEW m \in BesideMessages, NEW s, NEW t, Turn(s, m, t),
         s.open \subseteq s.made, s.one = FALSE, Normalizes(acc, s, BareMessages)
  PROVE  Normalizes(NormalizeMessage(acc, m), t, BareMessages)
<1>0. /\ m \in AllMessages /\ m.content \in Seq(AllBlocks) /\ m.tool_calls \in Seq(Numbers)
      /\ acc.done \in Seq(AllMessages) /\ acc.pending \in Seq(Numbers)
      /\ acc = [done |-> acc.done, pending |-> acc.pending]
  BY DEF BesideMessages, AllMessages, Normalizing
<1>1. CASE m.role = "assistant" /\ m.tool_calls # <<>>
  <2>1. /\ ToolCalls(m) = ToSet(m.tool_calls) /\ ToolResults(m) = {}
        /\ ToSet(m.tool_calls) # {}
    BY <1>0, <1>1, BesideIs, NoneListed
  <2>2. s.open = {} /\ t.open = ToSet(m.tool_calls)
    BY <2>1 DEF Turn
  <2>3. acc.pending = <<>>
    BY <1>0, <2>2, NoneListed DEF Normalizes
  <2> DEFINE k == Calls(m.tool_calls)
             next == [done |-> acc.done, pending |-> m.tool_calls]
  <2>4. NormalizeMessage(acc, m) = next
    <3>1. NormalizeMessage(acc, m) = [acc EXCEPT !.pending = acc.pending \o m.tool_calls]
      BY <1>1 DEF NormalizeMessage
    <3>2. acc.pending \o m.tool_calls = m.tool_calls
      BY <1>0, <2>3
    <3> QED BY <1>0, <3>1, <3>2
  <2>5. Leads(acc.done, Start(FALSE), s) /\ acc.done \in Seq(BareMessages)
    BY <2>3 DEF Normalizes, Flushed
  <2>6. Turn(s, k, t) /\ k \in BareMessages
    <3>1. k \in BareMessages /\ ToolCalls(k) = ToSet(m.tool_calls) /\ ToolResults(k) = {}
      BY <1>0, CallsKept
    <3> HIDE DEF k
    <3> QED BY <2>1, <3>1 DEF Turn
  <2> HIDE DEF k
  <2>7. Leads(acc.done \o <<k>>, Start(FALSE), t)
    <3>1. Leads(<<k>>, s, t) /\ <<k>> \in Seq(BareMessages)
      BY <2>6, LeadsOne
    <3> QED BY <2>5, <3>1, LeadsOn
  <2>8. Flushed(next) = acc.done \o <<k>>
    <3>1. Flushed(next) = Append(acc.done, k)
      BY <1>1 DEF Flushed, k
    <3> HIDE DEF next
    <3> QED BY <1>0, <2>6, <3>1
  <2>9. next.done = acc.done /\ next.pending = m.tool_calls
    OBVIOUS
  <2> HIDE DEF next
  <2> QED BY <2>2, <2>4, <2>5, <2>7, <2>8, <2>9 DEF Normalizes
<1>2. CASE ~(m.role = "assistant" /\ m.tool_calls # <<>>)
  <2>1. m.tool_calls = <<>>
    BY <1>2 DEF BesideMessages, Beside
  <2>2. UseIds(m) = <<>> /\ ResultIds(m) = <<>>
    <3>1. IdsIn(m.content, "tool_use") = {} /\ IdsIn(m.content, "tool_result") = {}
      BY IdsOfNone DEF BesideMessages, Beside
    <3> QED BY <1>0, <3>1, IdsListed, IdsAre, NoneListed
  <2> DEFINE k == [m EXCEPT !.content = Kept(m.content)]
  <2>3. NormalizeMessage(acc, m) = [done |-> Flushed(acc) \o <<k>>, pending |-> <<>>]
    BY <1>2, <2>2 DEF NormalizeMessage, k
  <2>4. k = Outside(m, m.tool_calls)
    BY <1>0 DEF AllMessages, Outside
  <2> HIDE DEF k
  <2>5. /\ k \in AllMessages /\ k.role = m.role /\ k.tool_calls = <<>>
        /\ k.tool_call_id = m.tool_call_id /\ k.content = Kept(m.content)
        /\ ToolCalls(k) = ToSet(m.tool_calls)
        /\ ToolResults(k) = IF m.tool_call_id = None THEN {} ELSE {m.tool_call_id}
        /\ \A i \in DOMAIN k.content : k.content[i].type \notin CallTypes
    BY <1>0, <2>1, <2>4, WithoutBlocks
  <2>6. k \in BareMessages
    BY <2>5 DEF BareMessages, BesideMessages, Beside, CallTypes
  <2>7. Turn(s, k, t)
    BY <2>5, BesideIs DEF Turn
  <2>8. Leads(<<k>>, s, t) /\ <<k>> \in Seq(BareMessages)
    BY <2>6, <2>7, LeadsOne
  <2> QED BY <2>3, <2>8, NormalizedOn
<1> QED BY <1>1, <1>2

LEMMA InsideNormalized ==
  ASSUME NEW acc \in Normalizing, NEW m \in InsideMessages, NEW s, NEW t, Turn(s, m, t),
         s.open \subseteq s.made, s.one = FALSE, Normalizes(acc, s, BesideMessages)
  PROVE  Normalizes(NormalizeMessage(acc, m), t, BesideMessages)
<1> DEFINE content == [m EXCEPT !.content = Kept(m.content)]
           results == ResultIds(m)
           answers == [i \in DOMAIN results |-> Answers(results[i])]
<1>0. /\ m \in AllMessages /\ m.content \in Seq(AllBlocks) /\ m.tool_calls = <<>>
      /\ m.tool_call_id = None /\ BareMessages \subseteq BesideMessages
      /\ UseIds(m) \in Seq(Numbers) /\ results \in Seq(Nat) /\ Injective(results)
  BY IdsAre DEF InsideMessages, Inside, AllMessages, BareMessages
<1>1. ToolCalls(m) = ToSet(UseIds(m)) /\ ToolResults(m) = ToSet(results)
  BY InsideIs, IdsListed DEF InsideMessages
<1>2. UseIds(m) # <<>> => m.role = "assistant"
  BY <1>0, <1>1, InsideIs, NoneListed
<1>3. CASE UseIds(m) # <<>>
  <2> DEFINE k == Outside(m, UseIds(m))
  <2>1. NormalizeMessage(acc, m) = [done |-> Flushed(acc) \o <<k>>, pending |-> <<>>]
    BY <1>0, <1>2, <1>3 DEF NormalizeMessage, Outside
  <2>2. /\ k \in AllMessages /\ k.role = m.role /\ k.tool_calls = UseIds(m)
        /\ k.tool_call_id = m.tool_call_id
        /\ ToolCalls(k) = ToSet(UseIds(m))
        /\ ToolResults(k) = IF m.tool_call_id = None THEN {} ELSE {m.tool_call_id}
        /\ \A i \in DOMAIN k.content : k.content[i].type \notin CallTypes
    BY <1>0, WithoutBlocks
  <2> HIDE DEF k
  <2>3. k \in BesideMessages
    BY <1>0, <1>2, <1>3, <2>2 DEF BesideMessages, Beside, CallTypes
  <2>4. ToolResults(m) = {}
    BY <1>2, <1>3, InsideIs
  <2>5. Turn(s, k, t)
    BY <1>0, <1>1, <2>2, <2>4 DEF Turn
  <2>6. Leads(<<k>>, s, t) /\ <<k>> \in Seq(BesideMessages)
    BY <2>3, <2>5, LeadsOne
  <2> QED BY <1>0, <2>1, <2>6, NormalizedOn
<1>4. CASE UseIds(m) = <<>> /\ results # <<>>
  <2>1. \A i \in DOMAIN m.content : m.content[i].type \in CallTypes
    <3>1. IdsIn(m.content, "tool_result") # {}
      BY <1>0, <1>4, IdsListed, NoneListed
    <3> QED BY <3>1 DEF InsideMessages, Inside, CallTypes
  <2>2. content.content = <<>>
    <3>1. content.content = Kept(m.content)
      BY <1>0 DEF AllMessages
    <3> QED BY <1>0, <2>1, <3>1, KeptIs
  <2>3. answers \in Seq(BesideMessages)
    <3> HIDE DEF results
    <3>1. \A i \in DOMAIN results : Answers(results[i]) \in BesideMessages
      BY <1>0, AnswerKept
    <3> QED BY <1>0, <3>1
  <2>4. Leads(answers, s, t)
    <3> DEFINE r == State(s.open \ ToSet(results), s.made, FALSE)
    <3>1. ToSet(results) # {} /\ ToSet(results) \subseteq s.open /\ Within(r, t) /\ Within(s, s)
      <4>1. ToSet(results) # {}
        BY <1>0, <1>4, NoneListed
      <4> QED BY <1>1, <4>1 DEF Turn, Within, State
    <3> HIDE DEF results, r
    <3>2. Leads(answers, s, r)
      BY <1>0, <3>1, AnswersLead DEF r
    <3> HIDE DEF answers
    <3> QED BY <3>1, <3>2, LeadsWeaker
  <2>5. NormalizeMessage(acc, m) = [done |-> Flushed(acc) \o (<<>> \o answers), pending |-> <<>>]
    <3> HIDE DEF answers
    <3> QED BY <1>0, <1>4, <2>2 DEF NormalizeMessage, answers
  <2>6. <<>> \o answers = answers
    <3> HIDE DEF answers
    <3> QED BY <2>3
  <2> HIDE DEF answers
  <2> QED BY <1>0, <2>3, <2>4, <2>5, <2>6, NormalizedOn
<1>5. CASE UseIds(m) = <<>> /\ results = <<>>
  <2>1. NormalizeMessage(acc, m) = [done |-> Flushed(acc) \o <<content>>, pending |-> <<>>]
    BY <1>0, <1>5 DEF NormalizeMessage
  <2>2. content = Outside(m, m.tool_calls)
    BY <1>0 DEF AllMessages, Outside
  <2> HIDE DEF content
  <2>3. m.tool_calls \in Seq(Numbers)
    BY <1>0
  <2>4. /\ content \in AllMessages /\ content.role = m.role /\ content.tool_calls = m.tool_calls
        /\ content.tool_call_id = m.tool_call_id
        /\ ToolCalls(content) = ToSet(m.tool_calls)
        /\ ToolResults(content) = IF m.tool_call_id = None THEN {} ELSE {m.tool_call_id}
        /\ \A i \in DOMAIN content.content : content.content[i].type \notin CallTypes
    BY <1>0, <2>2, <2>3, WithoutBlocks
  <2>5. content \in BesideMessages
    BY <1>0, <2>4 DEF BesideMessages, Beside, CallTypes, InsideMessages, Inside
  <2>6. ToSet(<<>>) = {}
    BY DEF ToSet
  <2>7. Turn(s, content, t)
    BY <1>0, <1>1, <1>5, <2>4, <2>6 DEF Turn
  <2>8. Leads(<<content>>, s, t) /\ <<content>> \in Seq(BesideMessages)
    BY <2>5, <2>7, LeadsOne
  <2> QED BY <1>0, <2>1, <2>8, NormalizedOn
<1> QED BY <1>3, <1>4, <1>5

LEMMA NormalizeKeeps ==
  ASSUME NEW blocks \in BOOLEAN,
         NEW h \in Seq(IF blocks THEN InsideMessages ELSE BesideMessages), Whole(h, FALSE)
  PROVE  /\ NormalizeMessages(h) \in Seq(IF blocks THEN BesideMessages ELSE BareMessages)
         /\ Whole(NormalizeMessages(h), FALSE)
<1> DEFINE M == IF blocks THEN InsideMessages ELSE BesideMessages
           N == IF blocks THEN BesideMessages ELSE BareMessages
           n == Len(h)
           base == [done |-> <<>>, pending |-> <<>>]
<1>1. h \in Seq(AllMessages) /\ BareMessages \subseteq N /\ n \in Nat
  BY DEF InsideMessages, BesideMessages, BareMessages
<1>2. PICK t : t.open = {} /\ Leads(h, Start(FALSE), t)
  BY DEF Whole
<1>3. PICK f : IsReading(h, Start(FALSE), t, f)
  BY <1>2 DEF Leads
<1>4. base \in Normalizing
  BY DEF Normalizing
<1>5. PICK g : /\ g[0] = base /\ g[n] = Folded(NormalizeMessage, base, h)
               /\ \A i \in 1..n : g[i] = NormalizeMessage(g[i - 1], h[i])
               /\ \A i \in 0..n : g[i] \in Normalizing
  <2> HIDE DEF base
  <2> QED BY <1>1, <1>4, NormalizedRow
<1>6. \A i \in 1..n : h[i] \in M
  OBVIOUS
<1> DEFINE e == [i \in 0..n |-> Normalizes(g[i], f[i], N)]
<1>7. e[0] = TRUE
  <2>1. Flushed(base) = <<>> /\ base.done = <<>> /\ base.pending = <<>>
    BY DEF Flushed
  <2> DEFINE s == Start(FALSE)
  <2>2. Within(s, f[0]) /\ s.open \subseteq s.made
    BY <1>3 DEF IsReading, Start, State
  <2> HIDE DEF s
  <2>3. Leads(<<>>, s, f[0])
    BY <2>2, LeadsNowhere
  <2>4. Normalizes(base, f[0], N)
    <3> HIDE DEF base, N
    <3>1. <<>> \in Seq(N)
      OBVIOUS
    <3>2. Leads(Flushed(base), Start(FALSE), f[0])
      BY <2>1, <2>3 DEF s
    <3> QED BY <2>1, <3>1, <3>2 DEF Normalizes
  <2> HIDE DEF base, N
  <2> QED BY <1>1, <1>5, <2>4
<1> HIDE DEF base, n, M, N
<1>8. ASSUME NEW i \in 1..n, e[i - 1] = TRUE PROVE e[i] = TRUE
  <2>1. i - 1 \in 0..n /\ i \in 0..n /\ i \in 1..Len(h) /\ i - 1 \in 0..Len(h) /\ 0 \in 0..Len(h)
    BY <1>1 DEF n
  <2>2. Turn(f[i - 1], h[i], f[i]) /\ f[i - 1].open \subseteq f[i - 1].made
    BY <1>3, <2>1 DEF IsReading
  <2>3. f[i - 1].one = FALSE
    <3> DEFINE s == Start(FALSE)
    <3>1. s.one = FALSE /\ IsReading(h, s, t, f)
      BY <1>3 DEF Start, State
    <3> HIDE DEF s
    <3>2. f[0].one = FALSE
      BY <3>1 DEF IsReading, Within
    <3>3. \A j \in 0..Len(h) : f[j].one = f[0].one
      <4>1. Len(h) \in Nat
        BY <1>1 DEF n
      <4> QED BY <2>1, <3>1, <4>1, MadeGrows
    <3> QED BY <2>1, <3>2, <3>3
  <2>4. Normalizes(g[i - 1], f[i - 1], N) /\ g[i - 1] \in Normalizing /\ h[i] \in M
    BY <1>5, <1>6, <1>8, <2>1
  <2>5. Normalizes(NormalizeMessage(g[i - 1], h[i]), f[i], N)
    <3>1. CASE blocks
      <4>1. M = InsideMessages /\ N = BesideMessages
        BY <3>1 DEF M, N
      <4> QED BY <2>2, <2>3, <2>4, <4>1, InsideNormalized
    <3>2. CASE ~blocks
      <4>1. M = BesideMessages /\ N = BareMessages
        BY <3>2 DEF M, N
      <4> QED BY <2>2, <2>3, <2>4, <4>1, BesideNormalized
    <3> QED BY <3>1, <3>2
  <2> QED BY <1>5, <2>1, <2>5
<1> HIDE DEF e
<1>9. \A i \in 0..n : e[i] = TRUE
  BY <1>1, <1>7, <1>8, TrueOn
<1>10. n \in 0..n /\ e[n] = Normalizes(g[n], f[n], N)
  BY <1>1 DEF e
<1>11. Normalizes(g[n], f[n], N) /\ g[n] \in Normalizing
  BY <1>5, <1>9, <1>10
<1> DEFINE u == Flushed(g[n])
<1>12. u \in Seq(N)
  BY <1>1, <1>11, FlushedIn DEF Normalizes
<1>13. Whole(u, FALSE)
  <2>1. Leads(u, Start(FALSE), f[n])
    BY <1>11 DEF Normalizes
  <2>2. f[n].open = {}
    BY <1>2, <1>3 DEF IsReading, Within, n
  <2> QED BY <2>1, <2>2 DEF Whole
<1>14. NormalizeMessages(h) = u
  BY <1>5 DEF NormalizeMessages, base
<1> QED BY <1>12, <1>13, <1>14 DEF N
-----------------------------------------------------------------------------
(* A selection cuts chains, and closes them.                                    *)
Sides == {BesideMessages, BareMessages}
IsPlain(m) == ToolCalls(m) = {} /\ ToolResults(m) = {}
AllPlain(h) == \A i \in 1..Len(h) : IsPlain(h[i])

LEMMA PlainLeads ==
  ASSUME NEW S, NEW h \in Seq(S), AllPlain(h), NEW s, s.open = {}
  PROVE  Leads(h, s, s)
<1> DEFINE f == [i \in 0..Len(h) |-> s]
<1>1. Len(h) \in Nat /\ \A i \in 0..Len(h) : f[i] = s
  OBVIOUS
<1> HIDE DEF f
<1>2. ASSUME NEW i \in 1..Len(h) PROVE Turn(f[i - 1], h[i], f[i])
  <2>1. f[i - 1] = s /\ f[i] = s
    BY <1>1
  <2>2. IsPlain(h[i])
    BY DEF AllPlain
  <2> QED BY <2>1, <2>2 DEF Turn, IsPlain
<1>3. IsReading(h, s, s, f)
  BY <1>1, <1>2 DEF IsReading, Within
<1> QED BY <1>3 DEF Leads

LEMMA PlainSelected ==
  ASSUME NEW S, NEW h \in Seq(S), NEW C, \A i \in C \cap DOMAIN h : IsPlain(h[i])
  PROVE  AllPlain(Selected(h, C)) /\ Selected(h, C) \in Seq(S)
<1>1. \A j \in DOMAIN Selected(h, C) : \E i \in C \cap DOMAIN h : Selected(h, C)[j] = h[i]
  BY SelectedElements
<1>2. Selected(h, C) \in Seq(S)
  BY SelectedIs
<1> QED BY <1>1, <1>2 DEF AllPlain

(* Without calls to take out, a message goes if its result does or if there is  *)
(* nothing in it, and else stays as it is.                                      *)
LEMMA CleanedIs ==
  ASSUME NEW m \in BesideMessages, NEW results
  PROVE  LET r == CleanMessageOrphans(m, {}, results)
         IN  \/ r = <<m>> /\ ToolResults(m) \cap results = {}
             \/ r = <<>> /\ IsPlain(m)
             \/ r = <<>> /\ ToolResults(m) # {} /\ ToolResults(m) \subseteq results
<1> DEFINE r == CleanMessageOrphans(m, {}, results)
<1>0. m \in AllMessages /\ m.content \in Seq(AllBlocks) /\ m.tool_calls \in Seq(Numbers)
  BY DEF BesideMessages, AllMessages
<1>1. CASE m.role = "tool"
  <2>1. ToolResults(m) = {m.tool_call_id}
    BY <1>1, BesideIs DEF BesideMessages, Beside
  <2> QED BY <1>1, <2>1 DEF CleanMessageOrphans
<1>2. CASE m.role # "tool"
  <2> DEFINE chosen == {i \in DOMAIN m.content :
                          /\ m.role = "assistant" /\ m.content[i].type = "tool_use" => m.content[i].id \notin {}
                          /\ m.role = "user" /\ m.content[i].type = "tool_result" => m.content[i].id \notin results}
             called == {i \in DOMAIN m.tool_calls : m.tool_calls[i] \notin {}}
             cleaned == [m EXCEPT !.tool_calls = Selected(m.tool_calls, called),
                                  !.content = Selected(m.content, chosen)]
  <2>1. r = IF /\ cleaned.content = <<>> /\ cleaned.tool_calls = <<>>
               /\ m.role = "assistant" \/ m.content # <<>>
            THEN <<>> ELSE <<cleaned>>
    BY <1>2 DEF CleanMessageOrphans, Filtered
  <2>2. Selected(m.tool_calls, called) = m.tool_calls
    <3>1. \A i \in 1..Len(m.tool_calls) : i \in called
      BY <1>0
    <3> HIDE DEF called
    <3> QED BY <1>0, <3>1, SelectedAll
  <2>3. Selected(m.content, chosen) = m.content
    <3>1. \A i \in 1..Len(m.content) : i \in chosen
      BY <1>0 DEF BesideMessages, Beside
    <3> HIDE DEF chosen
    <3> QED BY <1>0, <3>1, SelectedAll
  <2> HIDE DEF called, chosen
  <2>4. cleaned = m
    BY <1>0, <2>2, <2>3 DEF AllMessages
  <2>5. ToolResults(m) = {}
    BY <1>2, BesideIs
  <2>6. m.tool_calls = <<>> => IsPlain(m)
    BY <2>5, BesideIs DEF IsPlain
  <2> HIDE DEF cleaned, r
  <2> QED BY <2>1, <2>4, <2>5, <2>6 DEF r
<1> QED BY <1>1, <1>2

Less(s, ids) == State(s.open \ ids, s.made, FALSE)

LEMMA TurnCut ==
  ASSUME NEW m, NEW s, NEW t, Turn(s, m, t), t.one = FALSE, NEW ids,
         ToolCalls(m) \cap ids = {}, ToolResults(m) \cap ids = {}
  PROVE  Turn(Less(s, ids), m, Less(t, ids))
  BY DEF Turn, Less, State

LEMMA CleanLeads ==
  ASSUME NEW m \in BesideMessages, NEW s, NEW t, Turn(s, m, t), t.one = FALSE,
         s.open \subseteq s.made, NEW results, ToolCalls(m) \cap results = {}
  PROVE  Leads(CleanMessageOrphans(m, {}, results), Less(s, results), Less(t, results))
<1> DEFINE r == CleanMessageOrphans(m, {}, results)
           u == Less(s, results)
           v == Less(t, results)
<1>1. u.open \subseteq u.made
  BY DEF Less, State
<1>2. CASE r = <<m>> /\ ToolResults(m) \cap results = {}
  <2>1. Turn(u, m, v)
    BY <1>2, TurnCut
  <2> HIDE DEF u, v
  <2>2. Leads(<<m>>, u, v)
    BY <1>1, <2>1, LeadsOne
  <2> QED BY <1>2, <2>2 DEF u, v
<1>3. CASE r = <<>> /\ (IsPlain(m) \/ (ToolResults(m) # {} /\ ToolResults(m) \subseteq results))
  <2>1. Within(u, v)
    BY <1>3 DEF Turn, Within, Less, State, IsPlain
  <2> HIDE DEF u, v
  <2>2. Leads(<<>>, u, v)
    BY <1>1, <2>1, LeadsNowhere
  <2> QED BY <1>3, <2>2 DEF u, v
<1>4. \/ r = <<m>> /\ ToolResults(m) \cap results = {}
      \/ r = <<>> /\ IsPlain(m)
      \/ r = <<>> /\ ToolResults(m) # {} /\ ToolResults(m) \subseteq results
  BY CleanedIs
<1> HIDE DEF r, u, v
<1> QED BY <1>2, <1>3, <1>4

(* What is left of a reading behind some place.                                 *)
LEMMA ReadingTail ==
  ASSUME NEW S, NEW h \in Seq(S), NEW s, NEW t, NEW f, IsReading(h, s, t, f), NEW k \in 0..Len(h)
  PROVE  LET q == SubSeq(h, k + 1, Len(h))
         IN  /\ q \in Seq(S) /\ Len(q) = Len(h) - k /\ \A i \in 1..Len(q) : q[i] = h[k + i]
             /\ Leads(q, f[k], t)
<1> DEFINE q == SubSeq(h, k + 1, Len(h))
           l == Len(h) - k
           g == [i \in 0..l |-> f[k + i]]
<1>1. l \in Nat /\ Len(q) = l /\ q \in Seq(S) /\ \A i \in 1..l : q[i] = h[k + i]
  OBVIOUS
<1> HIDE DEF q
<1>2. \A i \in 0..l : g[i] = f[k + i] /\ k + i \in 0..Len(h)
  OBVIOUS
<1>3. k + 0 = k /\ k + l = Len(h) /\ 0 \in 0..l /\ l \in 0..l
  BY <1>1
<1> HIDE DEF g, l
<1>4. Within(f[k], g[0]) /\ Within(g[l], t) /\ g[0] = f[k]
  BY <1>2, <1>3 DEF IsReading, Within
<1>5. ASSUME NEW i \in 1..l PROVE Turn(g[i - 1], q[i], g[i])
  <2>1. k + i \in 1..Len(h) /\ k + (i - 1) = (k + i) - 1 /\ i \in 0..l /\ i - 1 \in 0..l
    BY <1>1 DEF l
  <2>2. Turn(f[(k + i) - 1], h[k + i], f[k + i])
    BY <2>1 DEF IsReading
  <2> QED BY <1>1, <1>2, <2>1, <2>2
<1>6. \A i \in 0..l : g[i].open \subseteq g[i].made
  BY <1>2 DEF IsReading
<1>7. IsReading(q, f[k], t, g)
  BY <1>1, <1>4, <1>5, <1>6 DEF IsReading
<1> QED BY <1>1, <1>7 DEF Leads, q, l

(* Calls behind some place are not among those that were open there.            *)
LEMMA CallsAreNew ==
  ASSUME NEW h, Len(h) \in Nat, NEW s, NEW t, NEW f, IsReading(h, s, t, f), NEW i \in 1..Len(h)
  PROVE  ToolCalls(h[i]) \cap f[0].open = {}
<1>1. i - 1 \in 0..Len(h) /\ 0 \in 0..Len(h) /\ i \in 1..Len(h)
  OBVIOUS
<1>2. f[0].made \subseteq f[i - 1].made
  BY <1>1, MadeGrows
<1>3. Turn(f[i - 1], h[i], f[i]) /\ f[0].open \subseteq f[0].made
  BY <1>1 DEF IsReading
<1> QED BY <1>2, <1>3 DEF Turn

LEMMA AllOf ==
  ASSUME NEW S, NEW p \in Seq(S), NEW q \in Seq(S), AllPlain(p)
  PROVE  AllCalls(p \o q) = AllCalls(q) /\ AllResults(p \o q) = AllResults(q)
<1>1. DOMAIN (p \o q) = 1..(Len(p) + Len(q)) /\ DOMAIN q = 1..Len(q) /\ Len(p) \in Nat /\ Len(q) \in Nat
  OBVIOUS
<1>2. ASSUME NEW i \in 1..(Len(p) + Len(q))
      PROVE  \/ IsPlain((p \o q)[i])
             \/ \E j \in 1..Len(q) : (p \o q)[i] = q[j]
  <2>1. CASE i <= Len(p)
    <3>1. i \in 1..Len(p) /\ (p \o q)[i] = p[i]
      BY <2>1
    <3> QED BY <3>1 DEF AllPlain
  <2>2. CASE i > Len(p)
    <3>1. i - Len(p) \in 1..Len(q) /\ (p \o q)[i] = q[i - Len(p)]
      BY <2>2
    <3> QED BY <3>1
  <2> QED BY <1>1, <2>1, <2>2
<1>3. ASSUME NEW j \in 1..Len(q) PROVE \E i \in 1..(Len(p) + Len(q)) : (p \o q)[i] = q[j]
  <2>1. j + Len(p) \in 1..(Len(p) + Len(q)) /\ (p \o q)[j + Len(p)] = q[j]
    OBVIOUS
  <2> QED BY <2>1
<1> DEFINE w == p \o q
<1> HIDE DEF w
<1>4. AllCalls(w) = AllCalls(q)
  BY <1>1, <1>2, <1>3 DEF AllCalls, Messages, IsPlain, w
<1>5. AllResults(w) = AllResults(q)
  BY <1>1, <1>2, <1>3 DEF AllResults, Messages, IsPlain, w
<1> QED BY <1>4, <1>5 DEF w

(* Behind plain messages, the end of a history is whole once it is closed.      *)
LEMMA PlainCleaned ==
  ASSUME NEW m \in BesideMessages, IsPlain(m), NEW s, s.open = {}, NEW results
  PROVE  Leads(CleanMessageOrphans(m, {}, results), s, s)
<1> DEFINE r == CleanMessageOrphans(m, {}, results)
<1>1. \/ r = <<m>> /\ ToolResults(m) \cap results = {}
      \/ r = <<>> /\ IsPlain(m)
      \/ r = <<>> /\ ToolResults(m) # {} /\ ToolResults(m) \subseteq results
  BY CleanedIs
<1> HIDE DEF r
<1>2. Within(s, s) /\ s.open \subseteq s.made
  BY DEF Within
<1>3. CASE r = <<m>>
  <2>1. AllPlain(<<m>>) /\ <<m>> \in Seq(BesideMessages)
    BY DEF AllPlain
  <2> QED BY <1>3, <2>1, PlainLeads DEF r
<1>4. CASE r = <<>>
  BY <1>2, <1>4, LeadsNowhere DEF r
<1> QED BY <1>1, <1>3, <1>4

LEMMA TailClosed ==
  ASSUME NEW N \in Sides, NEW p \in Seq(N), AllPlain(p), NEW q \in Seq(N),
         NEW s, NEW t, NEW g, IsReading(q, s, t, g), t.open = {}, s.one = FALSE
  PROVE  CloseChains(p \o q) \in Seq(N) /\ Whole(CloseChains(p \o q), FALSE)
<1> DEFINE w == p \o q
           R == AllResults(w) \ AllCalls(w)
           a == Len(p)
           b == Len(q)
<1>1. /\ a \in Nat /\ b \in Nat /\ Len(w) = a + b /\ w \in Seq(N) /\ DOMAIN w = 1..(a + b)
      /\ \A i \in 1..a : w[i] = p[i]
      /\ \A i \in (a + 1)..(a + b) : w[i] = q[i - a] /\ i - a \in 1..b
      /\ DOMAIN q = 1..b
  OBVIOUS
<1>2. N \subseteq BesideMessages
  BY DEF Sides, BareMessages
<1>3. Leads(q, s, t)
  BY DEF Leads
<1>4. AllCalls(w) = AllCalls(q) /\ AllResults(w) = AllResults(q)
  BY AllOf
<1> HIDE DEF w
<1>5. AllCalls(w) \ AllResults(w) = {}
  <2>1. AllCalls(q) \subseteq AllResults(q)
    BY <1>1, <1>3, CallsAnswered
  <2> QED BY <1>4, <2>1
<1>6. g[0].open \subseteq R
  <2>1. ASSUME NEW id \in g[0].open PROVE id \in R
    <3>1. 0 \in 0..b /\ Len(q) \in Nat
      BY <1>1
    <3>2. PICK j \in (0 + 1)..b : id \in ToolResults(q[j])
      BY <2>1, <3>1, AnswerComes
    <3>3. id \in AllResults(q)
      BY <1>1, <3>2 DEF AllResults, Messages
    <3>4. ASSUME NEW i \in 1..b PROVE id \notin ToolCalls(q[i])
      BY <2>1, <3>1, CallsAreNew
    <3>5. id \notin AllCalls(q)
      BY <1>1, <3>4 DEF AllCalls, Messages
    <3> QED BY <1>4, <3>3, <3>5
  <2> QED BY <2>1
<1>7. \A i \in 0..b : g[i].one = FALSE /\ g[i].open \subseteq g[i].made
  <2>1. b \in Nat /\ 0 \in 0..b /\ g[0].one = FALSE
    BY <1>1 DEF IsReading, Within
  <2>2. \A i \in 0..b : g[i].one = g[0].one
    BY <2>1, MadeGrows
  <2>3. \A i \in 0..b : g[i].open \subseteq g[i].made
    BY DEF IsReading
  <2> QED BY <2>1, <2>2, <2>3
<1>8. \A i \in 1..b : ToolCalls(q[i]) \cap R = {}
  BY <1>1, <1>4 DEF AllCalls, Messages
<1> HIDE DEF R
<1> DEFINE z == Start(FALSE)
           l == a + b
           e == [i \in 0..l |-> IF i <= a THEN Less(g[0], R) ELSE Less(g[i - a], R)]
<1>9. l \in Nat /\ 0 \in 0..l /\ l \in 0..l /\ DOMAIN w = 1..l
  BY <1>1
<1>10. /\ \A i \in 0..a : e[i] = Less(g[0], R)
       /\ \A i \in a..l : e[i] = Less(g[i - a], R)
  <2>1. \A i \in 0..a : i \in 0..l /\ i <= a
    BY <1>1
  <2>2. \A i \in a..l : i \in 0..l /\ (i <= a => i - a = 0)
    BY <1>1
  <2> QED BY <2>1, <2>2
<1> HIDE DEF e
<1>11. Less(g[0], R).open = {}
  BY <1>6 DEF Less, State
<1>12. Within(z, e[0]) /\ e[0].open \subseteq e[0].made
  <2>1. e[0] = Less(g[0], R)
    BY <1>1, <1>10
  <2>2. z.open = {} /\ z.made = {} /\ z.one = FALSE /\ e[0].one = FALSE
    BY <2>1 DEF Less, State, Start
  <2> QED BY <1>11, <2>1, <2>2 DEF Within
<1>13. e[l].open = {}
  <2>1. e[l] = Less(g[b], R) /\ g[b].open = {}
    <3>1. l \in a..l /\ l - a = b
      BY <1>1
    <3> QED BY <1>10, <3>1 DEF IsReading, Within
  <2> QED BY <2>1 DEF Less, State
<1> HIDE DEF z
<1>14. CASE R = {}
  <2>1. CloseChains(w) = w
    BY <1>5, <1>14 DEF CloseChains, R
  <2>2. g[0].open = {}
    BY <1>6, <1>14
  <2>3. Leads(q, g[0], t)
    <3>1. Within(g[0], g[0])
      BY DEF Within
    <3>2. IsReading(q, g[0], t, g)
      BY <3>1 DEF IsReading
    <3> QED BY <3>2 DEF Leads
  <2>4. Leads(w, g[0], t)
    <3>1. Leads(p, g[0], g[0])
      BY <2>2, PlainLeads
    <3> QED BY <2>3, <3>1, LeadsOn DEF w
  <2>5. Within(z, g[0])
    <3>1. z.open = {} /\ z.made = {} /\ z.one = FALSE /\ g[0].one = FALSE
      BY <1>1, <1>7 DEF z, Start, State
    <3> QED BY <2>2, <3>1 DEF Within
  <2>6. Leads(w, z, t)
    <3>1. Within(t, t)
      BY DEF Within
    <3> QED BY <2>4, <2>5, <3>1, LeadsWeaker
  <2> QED BY <1>1, <2>1, <2>6 DEF Whole, z, w
<1>15. CASE R # {}
  <2> DEFINE ss == [i \in DOMAIN w |-> CleanMessageOrphans(w[i], {}, R)]
  <2>1. CloseChains(w) = FlattenSeq(ss)
    BY <1>5, <1>15 DEF CloseChains, R
  <2>2. \A i \in 1..l : w[i] \in N /\ w[i] \in BesideMessages
    BY <1>1, <1>2
  <2>3. \A i \in 1..l : ss[i] \in Seq(N)
    <3>1. ASSUME NEW m \in N PROVE CleanMessageOrphans(m, {}, R) \in Seq(N)
      <4> DEFINE r == CleanMessageOrphans(m, {}, R)
      <4>1. m \in BesideMessages
        BY <1>2
      <4>2. r = <<m>> \/ r = <<>>
        <5>1. \/ r = <<m>> /\ ToolResults(m) \cap R = {}
              \/ r = <<>> /\ IsPlain(m)
              \/ r = <<>> /\ ToolResults(m) # {} /\ ToolResults(m) \subseteq R
          BY <4>1, CleanedIs
        <5> QED BY <5>1
      <4>3. <<m>> \in Seq(N) /\ <<>> \in Seq(N)
        OBVIOUS
      <4> HIDE DEF r
      <4>4. r \in Seq(N)
        BY <4>2, <4>3
      <4> QED BY <4>4 DEF r
    <3> QED BY <1>9, <2>2, <3>1
  <2>4. ss \in Seq(Seq(N)) /\ Len(ss) = l
    <3>1. DOMAIN ss = 1..l /\ ss = [i \in 1..l |-> ss[i]]
      BY <1>9
    <3> HIDE DEF ss
    <3>2. ss \in [1..l -> Seq(N)]
      BY <2>3, <3>1
    <3> QED BY <1>9, <3>1, <3>2
  <2>5. ASSUME NEW i \in 1..l PROVE Leads(ss[i], e[i - 1], e[i])
    <3>1. ss[i] = CleanMessageOrphans(w[i], {}, R) /\ w[i] \in BesideMessages
      BY <1>9, <2>2
    <3>2. CASE i \in 1..a
      <4>1. e[i - 1] = Less(g[0], R) /\ e[i] = Less(g[0], R)
        <5>1. i - 1 \in 0..a /\ i \in 0..a
          BY <1>1, <3>2
        <5> QED BY <1>10, <5>1
      <4>2. IsPlain(w[i])
        BY <1>1, <3>2 DEF AllPlain
      <4> QED BY <1>11, <3>1, <4>1, <4>2, PlainCleaned
    <3>3. CASE i \in (a + 1)..l
      <4> DEFINE j == i - a
      <4>1. /\ j \in 1..b /\ w[i] = q[j] /\ i - 1 \in a..l /\ i \in a..l /\ (i - 1) - a = j - 1
            /\ j - 1 \in 0..b /\ j \in 0..b
        BY <1>1, <3>3
      <4> HIDE DEF j
      <4>2. e[i - 1] = Less(g[j - 1], R) /\ e[i] = Less(g[j], R)
        BY <1>10, <4>1 DEF j
      <4>3. Turn(g[j - 1], q[j], g[j])
        BY <4>1 DEF IsReading
      <4>4. g[j].one = FALSE /\ g[j - 1].open \subseteq g[j - 1].made
        BY <1>7, <4>1
      <4>5. ToolCalls(q[j]) \cap R = {}
        BY <1>8, <4>1
      <4>6. q[j] \in BesideMessages
        BY <3>1, <4>1
      <4>7. Leads(CleanMessageOrphans(q[j], {}, R), Less(g[j - 1], R), Less(g[j], R))
        BY <4>3, <4>4, <4>5, <4>6, CleanLeads
      <4> QED BY <3>1, <4>1, <4>2, <4>7
    <3> QED BY <1>1, <3>2, <3>3
  <2> HIDE DEF ss, l
  <2>6. Leads(FlattenSeq(ss), e[0], e[l])
    BY <1>12, <2>4, <2>5, FlattenLeads
  <2>7. Leads(FlattenSeq(ss), z, e[l])
    <3>1. Within(e[l], e[l])
      BY DEF Within
    <3> QED BY <1>12, <2>6, <3>1, LeadsWeaker
  <2>8. FlattenSeq(ss) \in Seq(N)
    BY <2>4, FlattenIs
  <2> QED BY <1>13, <2>1, <2>7, <2>8 DEF Whole, z, w
<1> QED BY <1>14, <1>15

LEMMA SelectKeeps ==
  ASSUME NEW N \in Sides, NEW h \in Seq(N), Whole(h, FALSE), NEW max \in Nat
  PROVE  Select(h, max) \in Seq(N) /\ Whole(Select(h, max), FALSE)
<1> DEFINE systems == Roles(h, "system")
           room == IF Len(systems) >= max THEN 0 ELSE max - Len(systems)
           recent == IF RecentCount < room THEN RecentCount ELSE room
           middle == SubSeq(h, Len(systems) + 1, Len(h) - recent)
           important == SelectImportantMessages(middle, room - recent)
           latest == RecentMessages(h, recent)
<1>1. CASE Len(h) <= max
  BY <1>1 DEF Select
<1>2. CASE ~(Len(h) <= max)
  <2>0. N \subseteq BesideMessages
    BY DEF Sides, BareMessages
  <2>1. systems \in Seq(N) /\ AllPlain(systems)
    <3> DEFINE C == {i \in DOMAIN h : h[i].role = "system"}
    <3>1. \A i \in C \cap DOMAIN h : IsPlain(h[i])
      <4>1. ASSUME NEW i \in DOMAIN h, h[i].role = "system" PROVE IsPlain(h[i])
        <5>1. h[i] \in BesideMessages
          BY <2>0
        <5> QED BY <4>1, <5>1, BesideIs DEF IsPlain
      <4> QED BY <4>1
    <3>2. systems = Selected(h, C)
      BY DEF Roles, Filtered
    <3> HIDE DEF C
    <3> QED BY <3>1, <3>2, PlainSelected
  <2> HIDE DEF systems
  <2>2. RecentCount \in Nat
    BY SelectionAssumption
  <2>3. recent \in Nat /\ recent <= Len(h)
    BY <1>2, <2>1, <2>2
  <2> HIDE DEF recent
  <2>4. middle \in Seq(N)
    BY <2>1, <2>3
  <2> HIDE DEF middle
  <2>5. important \in Seq(N) /\ AllPlain(important)
    <3> DEFINE quota == room - recent
               users == {i \in DOMAIN middle : middle[i].role = "user"}
               Before(i) == {j \in users :
                  \/ ContentLength(middle[j]) > ContentLength(middle[i])
                  \/ ContentLength(middle[j]) = ContentLength(middle[i]) /\ j < i}
               C == {i \in users : Cardinality(Before(i)) < quota}
    <3> HIDE DEF Before, quota
    <3>1. \A i \in C \cap DOMAIN middle : IsPlain(middle[i])
      <4>1. ASSUME NEW i \in DOMAIN middle, middle[i].role = "user" PROVE IsPlain(middle[i])
        <5>1. middle[i] \in BesideMessages
          BY <2>0, <2>4
        <5> QED BY <4>1, <5>1, BesideIs DEF IsPlain
      <4> QED BY <4>1
    <3>2. important = Selected(middle, C)
      BY DEF SelectImportantMessages, Before, quota
    <3> HIDE DEF C
    <3> QED BY <2>4, <3>1, <3>2, PlainSelected
  <2> HIDE DEF important
  <2> DEFINE p == systems \o important
             k == Len(h) - recent
             q == SubSeq(h, k + 1, Len(h))
  <2>6. p \in Seq(N) /\ AllPlain(p)
    <3>1. ASSUME NEW i \in 1..Len(p) PROVE IsPlain(p[i])
      <4>1. Len(p) = Len(systems) + Len(important)
        BY <2>1, <2>5
      <4>2. CASE i <= Len(systems)
        <5>1. p[i] = systems[i] /\ i \in 1..Len(systems)
          BY <2>1, <2>5, <4>2
        <5> QED BY <2>1, <5>1 DEF AllPlain
      <4>3. CASE i > Len(systems)
        <5>1. p[i] = important[i - Len(systems)] /\ i - Len(systems) \in 1..Len(important)
          BY <2>1, <2>5, <4>1, <4>3
        <5> QED BY <2>5, <5>1 DEF AllPlain
      <4> QED BY <2>1, <4>2, <4>3
    <3> QED BY <2>1, <2>5, <3>1 DEF AllPlain
  <2>7. k \in 0..Len(h) /\ latest = q
    BY <2>3 DEF RecentMessages
  <2> HIDE DEF p, k, latest
  <2>8. PICK t : t.open = {} /\ Leads(h, Start(FALSE), t)
    BY DEF Whole
  <2> DEFINE s == Start(FALSE)
  <2>9. PICK f : IsReading(h, s, t, f)
    BY <2>8 DEF Leads
  <2>10. f[k].one = FALSE
    <3>1. s.one = FALSE /\ 0 \in 0..Len(h) /\ Len(h) \in Nat
      BY DEF Start, State
    <3> HIDE DEF s
    <3>2. f[0].one = FALSE
      BY <2>9, <3>1 DEF IsReading, Within
    <3>3. \A i \in 0..Len(h) : f[i].one = f[0].one
      BY <2>9, <3>1, MadeGrows
    <3> QED BY <2>7, <3>2, <3>3
  <2> HIDE DEF s
  <2>11. q \in Seq(N) /\ Leads(q, f[k], t)
    BY <2>7, <2>9, ReadingTail
  <2> HIDE DEF q
  <2>12. PICK g : IsReading(q, f[k], t, g)
    BY <2>11 DEF Leads
  <2>13. CloseChains(p \o q) \in Seq(N) /\ Whole(CloseChains(p \o q), FALSE)
    BY <2>6, <2>8, <2>10, <2>11, <2>12, TailClosed
  <2>14. Select(h, max) = CloseChains(p \o q)
    BY <1>2, <2>7 DEF Select, systems, room, recent, middle, important, latest, p
  <2> QED BY <2>13, <2>14
<1> QED BY <1>1, <1>2

(* The history cache holds whole histories, and the pinned messages of the      *)
(* system, which neither call nor answer.                                       *)
LEMMA WholeBehind ==
  ASSUME NEW S, NEW p \in Seq(S), AllPlain(p), NEW h \in Seq(S), NEW one, Whole(h, one)
  PROVE  p \o h \in Seq(S) /\ Whole(p \o h, one)
<1> DEFINE s == Start(one)
<1>1. s.open = {}
  BY DEF Start, State
<1>2. PICK t : t.open = {} /\ Leads(h, s, t)
  BY DEF Whole
<1> HIDE DEF s
<1>3. Leads(p, s, s)
  BY <1>1, PlainLeads
<1>4. Leads(p \o h, s, t)
  BY <1>2, <1>3, LeadsOn
<1> QED BY <1>2, <1>4 DEF Whole, s

LEMMA NothingIsWhole ==
  ASSUME NEW one
  PROVE  Whole(<<>>, one)
<1> DEFINE s == Start(one)
<1>1. s.open = {} /\ s.made = {}
  BY DEF Start, State
<1> HIDE DEF s
<1>2. Leads(<<>>, s, s)
  BY <1>1, LeadsNowhere DEF Within
<1> QED BY <1>1, <1>2 DEF Whole, s

Histories(N) == {h \in Seq(N) : Whole(h, FALSE)}
Pins(N) == {h \in Seq(N) : AllPlain(h)}

LEMMA RegularKeeps ==
  ASSUME NEW N \in Sides, NEW h \in Histories(N)
  PROVE  Regular(h) \in Histories(N) /\ Pinned(h) \in Pins(N)
<1> DEFINE D == {i \in DOMAIN h : IsToolDefinition(h[i])}
           C == {i \in DOMAIN h : ~IsToolDefinition(h[i])}
           s == Start(FALSE)
<1>1. /\ h \in Seq(N) /\ Whole(h, FALSE) /\ N \subseteq BesideMessages
      /\ DOMAIN h = 1..Len(h) /\ Len(h) \in Nat
  <2>1. N \subseteq BesideMessages
    BY DEF Sides, BareMessages
  <2>2. h \in Seq(N) /\ Whole(h, FALSE)
    BY DEF Histories
  <2>3. DOMAIN h = 1..Len(h) /\ Len(h) \in Nat
    BY <2>2
  <2> QED BY <2>1, <2>2, <2>3
<1>2. \A i \in D : IsPlain(h[i])
  <2>1. ASSUME NEW i \in D PROVE IsPlain(h[i])
    <3>1. h[i] \in BesideMessages /\ h[i].role = "system"
      BY <1>1 DEF IsToolDefinition
    <3> QED BY <3>1, BesideIs DEF IsPlain
  <2> QED BY <2>1
<1>3. Pinned(h) = Selected(h, D) /\ Regular(h) = Selected(h, C)
  BY DEF Pinned, Regular, Filtered
<1>4. \A i \in 1..Len(h) : i \in C \/ i \in D
  BY <1>1
<1> HIDE DEF C, D, s
<1>5. Pinned(h) \in Pins(N)
  <2>1. \A i \in D \cap DOMAIN h : IsPlain(h[i])
    BY <1>2
  <2> QED BY <1>1, <1>3, <2>1, PlainSelected DEF Pins
<1>6. PICK t : t.open = {} /\ Leads(h, s, t)
  BY <1>1 DEF Whole, s
<1>7. PICK f : IsReading(h, s, t, f)
  BY <1>6 DEF Leads
<1>8. \A i \in 1..Len(h) : IF i \in C THEN Turn(f[i - 1], h[i], f[i]) ELSE Within(f[i - 1], f[i])
  <2>1. ASSUME NEW i \in 1..Len(h) PROVE Turn(f[i - 1], h[i], f[i])
    BY <1>7 DEF IsReading
  <2>2. ASSUME NEW i \in 1..Len(h), i \notin C PROVE Within(f[i - 1], f[i])
    <3>1. IsPlain(h[i])
      BY <1>2, <1>4, <2>2
    <3> QED BY <2>1, <3>1 DEF Turn, IsPlain, Within
  <2> QED BY <2>1, <2>2
<1>9. /\ \A i \in 0..Len(h) : f[i].open \subseteq f[i].made
      /\ 0 \in 0..Len(h) /\ Within(s, f[0]) /\ Within(f[Len(h)], t)
  BY <1>1, <1>7 DEF IsReading
<1>10. Leads(Selected(h, C), f[0], f[Len(h)])
  <2>1. f[0].open \subseteq f[0].made
    BY <1>9
  <2> QED BY <1>1, <1>8, <1>9, <2>1, SelectedLeads
<1>11. Leads(Selected(h, C), s, t)
  BY <1>9, <1>10, LeadsWeaker
<1>12. Selected(h, C) \in Seq(N)
  BY <1>1, SelectedIs
<1> QED BY <1>3, <1>5, <1>6, <1>11, <1>12 DEF Histories, Whole, s

LEMMA HistoryKept ==
  ASSUME NEW N \in Sides, NEW pins \in [{Scid} -> Pins(N)], NEW lru \in Seq(Entries(Histories(N))),
         NEW h \in Histories(N)
  PROVE  LET stored == StoreFullHistory(pins, lru, Scid, h)
         IN  stored.anchors \in [{Scid} -> Pins(N)] /\ stored.cache \in Seq(Entries(Histories(N)))
<1>1. Regular(h) \in Histories(N) /\ Pinned(h) \in Pins(N)
  BY RegularKeeps
<1>2. StoreInLru(lru, Scid, Regular(h)) \in Seq(Entries(Histories(N)))
  BY <1>1, EntriesStored
<1>3. [pins EXCEPT ![Scid] = Pinned(h)] \in [{Scid} -> Pins(N)]
  BY <1>1
<1> QED BY <1>2, <1>3 DEF StoreFullHistory

LEMMA SelectionKeeps ==
  ASSUME NEW N \in Sides, NEW pins \in [{Scid} -> Pins(N)], NEW lru \in Seq(Entries(Histories(N))),
         NEW max \in Nat
  PROVE  SelectForBackend(pins, lru, Scid, max) \in Histories(N)
<1> DEFINE h == Lookup(lru, Scid)
<1>1. pins[Scid] \in Seq(N) /\ AllPlain(pins[Scid])
  BY DEF Pins
<1>2. <<>> \in Histories(N)
  <2>1. Whole(<<>>, FALSE)
    BY NothingIsWhole
  <2>2. <<>> \in Seq(N)
    OBVIOUS
  <2> QED BY <2>1, <2>2 DEF Histories
<1>3. h \in Histories(N)
  BY <1>2, EntryFound
<1> HIDE DEF h
<1>4. Select(h, max) \in Seq(N) /\ Whole(Select(h, max), FALSE)
  BY <1>3, SelectKeeps DEF Histories
<1> DEFINE k == IF h = <<>> THEN <<>> ELSE Select(h, max)
<1>5. k \in Seq(N) /\ Whole(k, FALSE)
  BY <1>2, <1>4 DEF Histories
<1> HIDE DEF k
<1>6. pins[Scid] \o k \in Seq(N) /\ Whole(pins[Scid] \o k, FALSE)
  BY <1>1, <1>5, WholeBehind
<1>7. SelectForBackend(pins, lru, Scid, max) = pins[Scid] \o k
  BY DEF SelectForBackend, k, h
<1> QED BY <1>6, <1>7 DEF Histories

(* Without a history to merge with, the chat endpoint's repair is that of the   *)
(* sanitizer or nothing.                                                        *)
LEMMA NothingMerged ==
  ASSUME NEW h
  PROVE  MergeWithClientHistory(h, <<>>, [id \in CallIds |-> None]) = h
  BY DEF MergeWithClientHistory

LEMMA PreparedKeeps ==
  ASSUME NEW M \in Forms, NEW h \in Seq(M), NEW one, Whole(h, one), NEW sig,
         NEW thinking \in BOOLEAN, NEW caches \in Caches
  PROVE  LET u == Prepare(h, <<>>, sig, thinking, caches)
         IN  u \in Seq(M) /\ Whole(u, one)
<1> DEFINE context == IF sig # None THEN sig ELSE SignatureOfLast(h, caches)
           u == Prepare(h, <<>>, sig, thinking, caches)
<1>1. MergeWithClientHistory(h, <<>>, [id \in CallIds |-> None]) = h
  BY NothingMerged
<1>2. u = IF thinking \/ HasThinking(h) THEN Sanitize(h, TRUE, context, caches).messages ELSE h
  BY <1>1 DEF Prepare
<1> HIDE DEF context, u
<1>3. /\ Sanitize(h, TRUE, context, caches).messages \in Seq(M)
      /\ Whole(Sanitize(h, TRUE, context, caches).messages, one)
  BY SanitizeKeeps
<1>4. u \in Seq(M) /\ Whole(u, one)
  BY <1>2, <1>3
<1> QED BY <1>4 DEF u

LEMMA RecoveredKeeps ==
  ASSUME NEW M \in Forms, NEW h \in Seq(M), NEW one, Whole(h, one),
         NEW thinking \in BOOLEAN, NEW caches \in Caches
  PROVE  LET u == RecoverSignaturesForClaudeCode(h, thinking, caches).messages
         IN  u \in Seq(M) /\ Whole(u, one)
<1> DEFINE signed == SignaturesIn(h)
           context == IF signed = <<>> THEN None ELSE Last(signed).sig
           u == RecoverSignaturesForClaudeCode(h, thinking, caches).messages
<1>1. u = Sanitize(h, TRUE, context, caches).messages \/ u = h
  BY DEF RecoverSignaturesForClaudeCode
<1> HIDE DEF context, signed, u
<1>2. /\ Sanitize(h, TRUE, context, caches).messages \in Seq(M)
      /\ Whole(Sanitize(h, TRUE, context, caches).messages, one)
  BY SanitizeKeeps
<1>3. u \in Seq(M) /\ Whole(u, one)
  BY <1>1, <1>2
<1> QED BY <1>3 DEF u
-----------------------------------------------------------------------------
(* Converting puts the calls back into the contents, and the results that       *)
(* follow each other into one message.                                          *)
LEMMA MadeMessage ==
  ASSUME NEW role, NEW c
  PROVE  LET m == Message(role, c)
         IN  /\ m.role = role /\ m.content = c
             /\ ToolCalls(m) = IdsIn(c, "tool_use") /\ ToolResults(m) = IdsIn(c, "tool_result")
<1> DEFINE m == Message(role, c)
<1>1. m.role = role /\ m.content = c /\ m.tool_calls = <<>> /\ m.tool_call_id = None
  BY DEF Message
<1>2. ToSet(<<>>) = {}
  BY DEF ToSet
<1> HIDE DEF m
<1> QED BY <1>1, <1>2, CallsAndResults DEF m

LEMMA IdsOfResults ==
  ASSUME NEW ids \in Seq(Numbers)
  PROVE  LET c == [i \in DOMAIN ids |-> ToolResult(ids[i])]
         IN  IdsIn(c, "tool_result") = ToSet(ids) /\ IdsIn(c, "tool_use") = {}
<1>1. \A id : ToolResult(id).type = "tool_result" /\ ToolResult(id).id = id
  BY DEF ToolResult, Block
<1> QED BY <1>1 DEF IdsIn, ToSet

LEMMA IdsOfUses ==
  ASSUME NEW ids \in Seq(Numbers)
  PROVE  LET c == [i \in DOMAIN ids |-> ToolUse(ids[i], None)]
         IN  IdsIn(c, "tool_use") = ToSet(ids) /\ IdsIn(c, "tool_result") = {}
<1>1. \A id : ToolUse(id, None).type = "tool_use" /\ ToolUse(id, None).id = id
  BY DEF ToolUse, Block
<1> QED BY <1>1 DEF IdsIn, ToSet

LEMMA IdsJoined ==
  ASSUME NEW c \in Seq(AllBlocks), NEW d \in Seq(AllBlocks), NEW type
  PROVE  IdsIn(c \o d, type) = IdsIn(c, type) \cup IdsIn(d, type)
<1>1. /\ DOMAIN (c \o d) = 1..(Len(c) + Len(d)) /\ DOMAIN c = 1..Len(c) /\ DOMAIN d = 1..Len(d)
      /\ Len(c) \in Nat /\ Len(d) \in Nat
      /\ \A i \in 1..Len(c) : (c \o d)[i] = c[i] /\ i \in 1..(Len(c) + Len(d))
      /\ \A i \in 1..Len(d) : (c \o d)[i + Len(c)] = d[i] /\ i + Len(c) \in 1..(Len(c) + Len(d))
  OBVIOUS
<1>2. \A i \in 1..(Len(c) + Len(d)) : \/ i \in 1..Len(c)
                                      \/ \E j \in 1..Len(d) : i = j + Len(c)
  <2>1. ASSUME NEW i \in 1..(Len(c) + Len(d)), i \notin 1..Len(c)
        PROVE  \E j \in 1..Len(d) : i = j + Len(c)
    <3>1. i - Len(c) \in 1..Len(d) /\ i = (i - Len(c)) + Len(c)
      BY <1>1, <2>1
    <3> QED BY <3>1
  <2> QED BY <2>1
<1> DEFINE e == c \o d
<1> HIDE DEF e
<1>3. ASSUME NEW id \in IdsIn(e, type) PROVE id \in IdsIn(c, type) \cup IdsIn(d, type)
  <2>1. PICK i \in 1..(Len(c) + Len(d)) : e[i].type = type /\ e[i].id = id
    BY <1>1 DEF IdsIn, e
  <2>2. CASE i \in 1..Len(c)
    BY <1>1, <2>1, <2>2 DEF IdsIn, e
  <2>3. CASE \E j \in 1..Len(d) : i = j + Len(c)
    <3>1. PICK j \in 1..Len(d) : i = j + Len(c)
      BY <2>3
    <3>2. e[i] = d[j]
      BY <1>1, <3>1 DEF e
    <3> QED BY <1>1, <2>1, <3>2 DEF IdsIn
  <2> QED BY <1>2, <2>2, <2>3
<1>4. ASSUME NEW id \in IdsIn(c, type) PROVE id \in IdsIn(e, type)
  <2>1. PICK i \in 1..Len(c) : c[i].type = type /\ c[i].id = id
    BY <1>1 DEF IdsIn
  <2>2. e[i] = c[i] /\ i \in DOMAIN e
    BY <1>1 DEF e
  <2> QED BY <2>1, <2>2 DEF IdsIn
<1>5. ASSUME NEW id \in IdsIn(d, type) PROVE id \in IdsIn(e, type)
  <2>1. PICK i \in 1..Len(d) : d[i].type = type /\ d[i].id = id
    BY <1>1 DEF IdsIn
  <2>2. e[i + Len(c)] = d[i] /\ i + Len(c) \in DOMAIN e
    BY <1>1 DEF e
  <2> QED BY <2>1, <2>2 DEF IdsIn
<1> QED BY <1>3, <1>4, <1>5 DEF e

LEMMA ConvertedIds ==
  ASSUME NEW c \in Seq(AllBlocks), NEW type \in CallTypes
  PROVE  IdsIn(ConvertContent(c), type) = {}
<1> DEFINE chosen == {j \in DOMAIN c : c[j].type \in {"text", "tagged"}}
           left == Selected(c, chosen)
<1>1. ASSUME NEW j \in DOMAIN left PROVE left[j].type # type
  <2>1. PICK k \in chosen \cap DOMAIN c : left[j] = c[k]
    <3> HIDE DEF chosen
    <3> QED BY SelectedElements
  <2> QED BY <2>1 DEF CallTypes
<1> HIDE DEF left
<1>2. IdsIn(left, type) = {}
  BY <1>1, IdsOfNone
<1> QED BY <1>2 DEF left, ConvertContent, Filtered

(* What is done leads, but for the results that are still to come, to where the *)
(* history is.                                                                  *)
Converts(acc, t) ==
    \E s : /\ Leads(acc.done, Start(FALSE), s) /\ s.open \subseteq s.made
           /\ ToSet(acc.results) \subseteq s.open /\ Within(Less(s, ToSet(acc.results)), t)

LEMMA ConvertsThen ==
  ASSUME NEW acc \in Converting, NEW t, Converts(acc, t)
  PROVE  Leads(FlushToolResults(acc), Start(FALSE), t)
<1> DEFINE z == Start(FALSE)
           R == ToSet(acc.results)
<1>1. PICK s : /\ Leads(acc.done, z, s) /\ s.open \subseteq s.made
               /\ R \subseteq s.open /\ Within(Less(s, R), t)
  BY DEF Converts
<1>2. acc.results \in Seq(Numbers) /\ acc.done \in Seq(MessagesOf(PlainBlocks))
  BY DEF Converting
<1>3. acc.done \in Seq(AllMessages)
  BY <1>2, FewerBlocks, AnyMessages
<1>4. acc.results = <<>> <=> R = {}
  BY <1>2, NoneListed
<1> HIDE DEF z, R
<1>5. CASE acc.results = <<>>
  <2>1. Less(s, R).open = s.open /\ Less(s, R).made = s.made
    BY <1>4, <1>5 DEF Less, State
  <2>2. s.one = FALSE
    <3>1. PICK f : IsReading(acc.done, z, s, f)
      BY <1>1 DEF Leads
    <3>2. z.one = FALSE /\ Len(acc.done) \in Nat /\ 0 \in 0..Len(acc.done) /\ Len(acc.done) \in 0..Len(acc.done)
      BY <1>3 DEF z, Start, State
    <3>3. f[0].one = FALSE
      BY <3>1, <3>2 DEF IsReading, Within
    <3>4. f[Len(acc.done)].one = f[0].one
      BY <3>1, <3>2, MadeGrows
    <3> QED BY <3>1, <3>3, <3>4 DEF IsReading, Within
  <2>3. Within(s, t)
    <3>1. Less(s, R).one = FALSE
      BY DEF Less, State
    <3> QED BY <1>1, <2>1, <2>2, <3>1 DEF Within
  <2>4. Within(z, z)
    BY DEF Within
  <2>5. Leads(acc.done, z, t)
    BY <1>1, <2>3, <2>4, LeadsWeaker
  <2> QED BY <1>5, <2>5 DEF FlushToolResults, z
<1>6. CASE acc.results # <<>>
  <2> DEFINE c == [i \in DOMAIN acc.results |-> ToolResult(acc.results[i])]
             m == Message("user", c)
  <2>1. IdsIn(c, "tool_result") = R /\ IdsIn(c, "tool_use") = {}
    BY <1>2, IdsOfResults DEF R
  <2> HIDE DEF c
  <2>2. ToolCalls(m) = {} /\ ToolResults(m) = R
    BY <2>1, MadeMessage
  <2> HIDE DEF m
  <2>3. Turn(s, m, Less(s, R))
    <3>1. s.one = FALSE
      <4>1. PICK f : IsReading(acc.done, z, s, f)
        BY <1>1 DEF Leads
      <4>2. z.one = FALSE /\ Len(acc.done) \in Nat /\ 0 \in 0..Len(acc.done) /\ Len(acc.done) \in 0..Len(acc.done)
        BY <1>3 DEF z, Start, State
      <4>3. f[0].one = FALSE
        BY <4>1, <4>2 DEF IsReading, Within
      <4>4. f[Len(acc.done)].one = f[0].one
        BY <4>1, <4>2, MadeGrows
      <4> QED BY <4>1, <4>3, <4>4 DEF IsReading, Within
    <3> QED BY <1>1, <1>4, <1>6, <2>2, <3>1 DEF Turn, Less, State
  <2>4. Turn(s, m, t)
    BY <1>1, <2>3, TurnMore
  <2>5. Leads(<<m>>, s, t)
    BY <1>1, <2>4, LeadsOne
  <2>6. m \in AllMessages
    <3>1. c \in Seq(AllBlocks)
      <4>1. \A i \in DOMAIN acc.results : ToolResult(acc.results[i]) \in AllBlocks
        BY <1>2, BlocksAre, AnyMessages
      <4> QED BY <1>2, <4>1 DEF c
    <3>2. m \in MessagesOf(AllBlocks)
      BY <3>1, MessageIs DEF m
    <3> QED BY <3>2, AnyMessages
  <2>7. Leads(acc.done \o <<m>>, z, t)
    <3>1. <<m>> \in Seq(AllMessages)
      BY <2>6
    <3> QED BY <1>1, <1>3, <2>5, <3>1, LeadsOn
  <2>8. Append(acc.done, m) = acc.done \o <<m>>
    BY <1>3, <2>6
  <2>9. FlushToolResults(acc) = Append(acc.done, m)
    BY <1>6 DEF FlushToolResults, m, c
  <2> QED BY <2>7, <2>8, <2>9 DEF z
<1> QED BY <1>5, <1>6

LEMMA ConvertsIs ==
  ASSUME NEW done, NEW results, NEW s, NEW t, Leads(done, Start(FALSE), s),
         s.open \subseteq s.made, NEW R, ToSet(results) = R, R \subseteq s.open, Within(Less(s, R), t)
  PROVE  Converts([done |-> done, results |-> results], t)
<1> DEFINE acc == [done |-> done, results |-> results]
<1>1. acc.done = done /\ acc.results = results
  OBVIOUS
<1> HIDE DEF acc
<1>2. Converts(acc, t)
  BY <1>1 DEF Converts
<1> QED BY <1>2 DEF acc

LEMMA ConvertedOn ==
  ASSUME NEW acc \in Converting, NEW m \in BesideMessages, NEW t, NEW v, Turn(t, m, v),
         v.one = FALSE, t.open \subseteq t.made, Converts(acc, t)
  PROVE  Converts(ConvertMessage(acc, m), v)
<1> DEFINE z == Start(FALSE)
<1>0. /\ m \in AllMessages /\ acc.results \in Seq(Numbers)
      /\ acc = [done |-> acc.done, results |-> acc.results]
      /\ v.open \subseteq v.made
  BY DEF BesideMessages, Converting, Turn
<1>1. /\ m.content \in Seq(AllBlocks) /\ m.tool_calls \in Seq(Numbers)
      /\ m.tool_call_id \in Numbers /\ m.role \in {"system", "user", "assistant", "tool"}
  BY <1>0 DEF AllMessages
<1>2. Leads(FlushToolResults(acc), z, t)
  BY ConvertsThen
<1>3. FlushToolResults(acc) \in Seq(AllMessages)
  BY ResultsFlushed, FewerBlocks, AnyMessages
<1>4. ToSet(<<>>) = {}
  BY DEF ToSet
<1>5. \A s : s.one = FALSE => Within(Less(s, {}), s)
  BY DEF Within, Less, State
<1> HIDE DEF z
<1>6. CASE m.role = "tool"
  <2> DEFINE id == m.tool_call_id
             R == ToSet(acc.results)
             results == Append(acc.results, id)
  <2>1. id # None /\ ToolResults(m) = {id} /\ ToolCalls(m) = {}
    BY <1>6, BesideIs DEF BesideMessages, Beside
  <2>2. ConvertMessage(acc, m) = [done |-> acc.done, results |-> results]
    BY <1>0, <1>6, <2>1 DEF ConvertMessage
  <2>3. ToSet(results) = R \cup {id}
    <3>1. DOMAIN acc.results = 1..Len(acc.results) /\ Len(acc.results) \in Nat
      BY <1>0
    <3>2. /\ DOMAIN results = 1..(Len(acc.results) + 1)
          /\ results[Len(acc.results) + 1] = id
          /\ \A i \in 1..Len(acc.results) : results[i] = acc.results[i]
      BY <1>0
    <3>3. 1..(Len(acc.results) + 1) = 1..Len(acc.results) \cup {Len(acc.results) + 1}
      BY <3>1
    <3> HIDE DEF results
    <3> QED BY <3>1, <3>2, <3>3 DEF ToSet
  <2>4. PICK s : /\ Leads(acc.done, z, s) /\ s.open \subseteq s.made
                 /\ R \subseteq s.open /\ Within(Less(s, R), t)
    BY DEF Converts, z
  <2> HIDE DEF results, R
  <2>5. id \in t.open /\ v.open = t.open \ {id} /\ t.made \subseteq v.made
    BY <2>1 DEF Turn
  <2>6. R \cup {id} \subseteq s.open
    BY <2>4, <2>5 DEF Within, Less, State
  <2>7. Within(Less(s, R \cup {id}), v)
    BY <2>4, <2>5 DEF Within, Less, State
  <2> QED BY <2>2, <2>3, <2>4, <2>6, <2>7, ConvertsIs DEF z
<1>7. CASE m.role \in {"user", "assistant"}
  <2> DEFINE uses == IF m.role = "assistant" THEN UsesOf(m) ELSE <<>>
             content == ConvertContent(m.content) \o uses
             k == Message(m.role, content)
             done == FlushToolResults(acc)
  <2>1. ConvertMessage(acc, m) = [done |-> Append(done, k), results |-> <<>>]
    BY <1>7 DEF ConvertMessage
  <2>2. ToolResults(m) = {} /\ ToolCalls(m) = ToSet(m.tool_calls)
        /\ (m.role # "assistant" => ToolCalls(m) = {})
    BY <1>7, BesideIs
  <2>3. /\ uses \in Seq(AllBlocks)
        /\ IdsIn(uses, "tool_use") = ToolCalls(m) /\ IdsIn(uses, "tool_result") = {}
    <3>1. CASE m.role = "assistant"
      <4>1. UsesOf(m) \in Seq(AllBlocks)
        <5>1. \A i \in DOMAIN m.tool_calls : ToolUse(m.tool_calls[i], None) \in AllBlocks
          BY <1>1, BlocksAre, AnyMessages
        <5> QED BY <1>1, <5>1 DEF UsesOf
      <4>2. IdsIn(UsesOf(m), "tool_use") = ToSet(m.tool_calls) /\ IdsIn(UsesOf(m), "tool_result") = {}
        BY <1>1, IdsOfUses DEF UsesOf
      <4> QED BY <2>2, <3>1, <4>1, <4>2
    <3>2. CASE m.role # "assistant"
      <4>1. <<>> \in Seq(AllBlocks) /\ uses = <<>>
        BY <3>2
      <4> QED BY <2>2, <3>2, <4>1, IdsOfNone
    <3> QED BY <3>1, <3>2
  <2> HIDE DEF uses
  <2>4. ConvertContent(m.content) \in Seq(AllBlocks)
    BY <1>1, ContentConverted, FewerBlocks, AnyMessages
  <2>5. /\ IdsIn(content, "tool_use") = ToolCalls(m) /\ IdsIn(content, "tool_result") = {}
        /\ content \in Seq(AllBlocks)
    <3>1. \A type \in CallTypes : IdsIn(ConvertContent(m.content), type) = {}
      BY <1>1, ConvertedIds
    <3>2. \A type \in CallTypes : IdsIn(content, type) = IdsIn(ConvertContent(m.content), type) \cup IdsIn(uses, type)
      BY <2>3, <2>4, IdsJoined
    <3>3. content \in Seq(AllBlocks)
      BY <2>3, <2>4
    <3> HIDE DEF content
    <3> QED BY <2>3, <3>1, <3>2, <3>3 DEF CallTypes
  <2> HIDE DEF content
  <2>6. SameCalls(m, k)
    BY <2>2, <2>5, MadeMessage DEF SameCalls
  <2>7. k \in AllMessages
    <3>1. k \in MessagesOf(AllBlocks)
      BY <1>1, <2>5, MessageIs
    <3> QED BY <3>1, AnyMessages
  <2> HIDE DEF k, done
  <2>8. Turn(t, k, v)
    BY <2>6 DEF SameCalls, Turn
  <2>9. Leads(<<k>>, t, v)
    BY <2>8, LeadsOne
  <2>10. Leads(Append(done, k), z, v)
    <3>1. <<k>> \in Seq(AllMessages) /\ done \in Seq(AllMessages) /\ Append(done, k) = done \o <<k>>
      BY <1>3, <2>7 DEF done
    <3>2. Leads(done \o <<k>>, z, v)
      BY <1>2, <2>9, <3>1, LeadsOn DEF done
    <3> QED BY <3>1, <3>2
  <2>11. Within(Less(v, {}), v)
    BY <1>5
  <2> QED BY <1>0, <1>4, <2>1, <2>10, <2>11, ConvertsIs DEF z
<1>8. CASE m.role = "system"
  <2>1. ConvertMessage(acc, m) = [done |-> FlushToolResults(acc), results |-> <<>>]
    BY <1>8 DEF ConvertMessage
  <2>2. ToolResults(m) = {} /\ ToolCalls(m) = {}
    BY <1>8, BesideIs
  <2>3. Within(t, v) /\ Within(z, z)
    BY <2>2 DEF Turn, Within
  <2>4. Leads(FlushToolResults(acc), z, v)
    BY <1>2, <2>3, LeadsWeaker
  <2>5. Within(Less(v, {}), v)
    BY <1>5
  <2> QED BY <1>0, <1>4, <2>1, <2>4, <2>5, ConvertsIs DEF z
<1> QED BY <1>1, <1>6, <1>7, <1>8

(* All of a history are of one kind, as they are at its start.                  *)
LEMMA OneForAll ==
  ASSUME NEW h, Len(h) \in Nat, NEW s, NEW t, NEW f, IsReading(h, s, t, f)
  PROVE  \A i \in 0..Len(h) : f[i].one = s.one
<1>1. 0 \in 0..Len(h) /\ f[0].one = s.one
  BY DEF IsReading, Within
<1>2. \A i \in 0..Len(h) : f[i].one = f[0].one
  BY <1>1, MadeGrows
<1> QED BY <1>1, <1>2

LEMMA ConvertKeeps ==
  ASSUME NEW h \in Seq(BesideMessages), Whole(h, FALSE)
  PROVE  Whole(ConvertOpenaiToAnthropic(h), FALSE)
<1> DEFINE n == Len(h)
           base == [done |-> <<>>, results |-> <<>>]
           z == Start(FALSE)
<1>1. h \in Seq(AllMessages) /\ n \in Nat
  BY DEF BesideMessages
<1>2. PICK t : t.open = {} /\ Leads(h, z, t)
  BY DEF Whole
<1>3. PICK f : IsReading(h, z, t, f)
  BY <1>2 DEF Leads
<1>4. base \in Converting
  BY DEF Converting
<1>5. PICK g : /\ g[0] = base /\ g[n] = Folded(ConvertMessage, base, h)
               /\ \A i \in 1..n : g[i] = ConvertMessage(g[i - 1], h[i])
               /\ \A i \in 0..n : g[i] \in Converting
  <2> HIDE DEF base
  <2> QED BY <1>1, <1>4, ConvertedRow
<1>6. z.open = {} /\ z.made = {} /\ z.one = FALSE
  BY DEF Start, State
<1> DEFINE e == [i \in 0..n |-> Converts(g[i], f[i])]
<1> HIDE DEF z
<1>7. e[0] = TRUE
  <2>1. base.done = <<>> /\ base.results = <<>> /\ ToSet(<<>>) = {}
    BY DEF ToSet
  <2> HIDE DEF base
  <2>2. Leads(<<>>, z, z)
    BY <1>6, LeadsNowhere DEF Within
  <2>3. Within(Less(z, {}), f[0])
    BY <1>3, <1>6 DEF IsReading, Within, Less, State
  <2>4. Converts(base, f[0])
    BY <1>6, <2>1, <2>2, <2>3 DEF Converts, z
  <2>5. e[0] = Converts(g[0], f[0])
    BY <1>1
  <2> QED BY <1>5, <2>4, <2>5
<1> HIDE DEF base, n
<1>8. ASSUME NEW i \in 1..n, e[i - 1] = TRUE PROVE e[i] = TRUE
  <2>1. i - 1 \in 0..n /\ i \in 0..n
    BY <1>1
  <2>2. Turn(f[i - 1], h[i], f[i]) /\ f[i - 1].open \subseteq f[i - 1].made
    BY <1>3, <2>1 DEF IsReading, n
  <2>3. f[i].one = FALSE
    BY <1>1, <1>3, <1>6, <2>1, OneForAll DEF n
  <2>4. Converts(g[i - 1], f[i - 1])
    BY <1>8, <2>1
  <2>5. h[i] \in BesideMessages /\ g[i - 1] \in Converting
    BY <1>5, <2>1 DEF n
  <2>6. Converts(ConvertMessage(g[i - 1], h[i]), f[i])
    BY <2>2, <2>3, <2>4, <2>5, ConvertedOn
  <2> QED BY <1>5, <2>1, <2>6
<1> HIDE DEF e
<1>9. \A i \in 0..n : e[i] = TRUE
  BY <1>1, <1>7, <1>8, TrueOn
<1>10. n \in 0..n /\ e[n] = Converts(g[n], f[n])
  BY <1>1 DEF e
<1>11. Leads(FlushToolResults(g[n]), z, f[n])
  BY <1>5, <1>9, <1>10, ConvertsThen DEF z
<1>12. f[n].open = {}
  BY <1>2, <1>3 DEF IsReading, Within, n
<1> DEFINE converted == FlushToolResults(g[n])
           empty == <<Says("user", "Empty message list")>>
<1>13. Whole(converted, FALSE)
  BY <1>11, <1>12 DEF Whole, z
<1>14. Whole(empty, FALSE)
  <2> DEFINE m == Says("user", "Empty message list")
  <2>1. m \in AllMessages
    BY SaysIs, FewerBlocks, AnyMessages DEF Texts
  <2>2. IsPlain(m)
    <3>1. m = Message("user", <<Text("Empty message list")>>)
      BY DEF Says
    <3>2. Text("Empty message list").type = "text"
      BY DEF Text, Block
    <3>3. \A type \in CallTypes : IdsIn(<<Text("Empty message list")>>, type) = {}
      <4> DEFINE b == Text("Empty message list")
                 c == <<b>>
      <4>0. b.type = "text"
        BY <3>2
      <4> HIDE DEF b
      <4>1. \A i \in DOMAIN c : c[i].type = "text"
        BY <4>0
      <4> HIDE DEF c
      <4>2. \A type \in CallTypes : IdsIn(c, type) = {}
        BY <4>1, IdsOfNone DEF CallTypes
      <4> QED BY <4>2 DEF c, b
    <3> QED BY <3>1, <3>3, MadeMessage DEF IsPlain, CallTypes
  <2> HIDE DEF m
  <2>3. <<m>> \in Seq(AllMessages) /\ AllPlain(<<m>>)
    BY <2>1, <2>2 DEF AllPlain
  <2>4. Leads(<<m>>, z, z)
    BY <1>6, <2>3, PlainLeads
  <2> QED BY <1>6, <2>4 DEF Whole, z, m
<1>15. ConvertOpenaiToAnthropic(h) \in {converted, empty}
  BY <1>5 DEF ConvertOpenaiToAnthropic, base
<1> HIDE DEF converted, empty
<1> QED BY <1>13, <1>14, <1>15
-----------------------------------------------------------------------------
(* When thinking is taken out, a message that has nothing else goes with it.    *)
(* That cuts no chain if none of those calls or answers.                        *)
Guarded(m) ==
    m.role = "assistant" /\ ~IsPlain(m) =>
      m.content = <<>> \/ \E i \in DOMAIN m.content : ~IsThinking(m.content[i])

LEMMA PlainGuarded ==
  ASSUME NEW m \in MessagesOf(PlainBlocks)
  PROVE  Guarded(m)
<1> SUFFICES ASSUME m.role = "assistant", m.content # <<>>
             PROVE  \E i \in DOMAIN m.content : ~IsThinking(m.content[i])
  BY DEF Guarded
<1>1. m.content \in Seq(PlainBlocks)
  BY DEF MessagesOf
<1>2. 1 \in DOMAIN m.content /\ m.content[1] \in PlainBlocks
  BY <1>1
<1> QED BY <1>2 DEF PlainBlocks

LEMMA InsideGuarded ==
  ASSUME NEW m \in InsideMessages
  PROVE  Guarded(m)
<1> SUFFICES ASSUME m.role = "assistant", ~IsPlain(m)
             PROVE  \E i \in DOMAIN m.content : ~IsThinking(m.content[i])
  BY DEF Guarded
<1>1. IdsIn(m.content, "tool_use") # {}
  BY InsideIs DEF IsPlain
<1>2. PICK i \in DOMAIN m.content : m.content[i].type = "tool_use"
  BY <1>1 DEF IdsIn
<1> QED BY <1>2 DEF IsThinking

LEMMA BareGuarded ==
  ASSUME NEW m \in BareMessages
  PROVE  Guarded(m)
<1> SUFFICES ASSUME m.role = "assistant", ~IsPlain(m)
             PROVE  m.content = <<>>
  BY DEF Guarded
<1>1. m \in BesideMessages
  BY DEF BareMessages
<1>2. m.tool_calls # <<>>
  BY <1>1, BesideIs DEF IsPlain
<1> QED BY <1>2 DEF BareMessages

LEMMA StripKeeps ==
  ASSUME NEW h \in Seq(AllMessages), \A i \in 1..Len(h) : Guarded(h[i]), NEW s, NEW t, Leads(h, s, t)
  PROVE  Leads(StripAllThinkingBlocks(h), s, t)
<1> DEFINE left(m) == Filtered(m.content, LAMBDA b : ~IsThinking(b))
           f == [i \in DOMAIN h |->
                   IF h[i].role # "assistant" \/ h[i].content = <<>> THEN <<h[i]>>
                   ELSE IF [h[i] EXCEPT !.content = left(h[i])].content = <<>> THEN <<>>
                   ELSE <<[h[i] EXCEPT !.content = left(h[i])]>>]
<1>1. PICK e : IsReading(h, s, t, e)
  BY DEF Leads
<1>2. Len(h) \in Nat /\ DOMAIN h = 1..Len(h) /\ \A i \in 1..Len(h) : h[i] \in AllMessages
  OBVIOUS
<1>3. ASSUME NEW i \in 1..Len(h) PROVE f[i] \in Seq(AllMessages) /\ Leads(f[i], e[i - 1], e[i])
  <2> DEFINE m == h[i]
             chosen == {j \in DOMAIN m.content : ~IsThinking(m.content[j])}
             kepts == Selected(m.content, chosen)
             k == [m EXCEPT !.content = kepts]
  <2>1. m \in AllMessages /\ m.content \in Seq(AllBlocks) /\ Guarded(m)
    <3>1. m \in AllMessages
      BY <1>2
    <3> HIDE DEF m
    <3>2. m.content \in Seq(AllBlocks)
      BY <3>1 DEF AllMessages
    <3> QED BY <3>1, <3>2 DEF m
  <2>2. left(m) = kepts
    BY DEF Filtered
  <2>3. kepts \in Seq(AllBlocks)
    BY <2>1, SelectedIs
  <2>4. f[i] = IF m.role # "assistant" \/ m.content = <<>> THEN <<m>>
               ELSE IF kepts = <<>> THEN <<>> ELSE <<k>>
    <3>1. f[i] = IF m.role # "assistant" \/ m.content = <<>> THEN <<m>>
                 ELSE IF k.content = <<>> THEN <<>> ELSE <<k>>
      BY <1>2, <2>2
    <3> HIDE DEF m, kepts, f
    <3>2. k.content = kepts
      BY <2>1 DEF AllMessages
    <3> QED BY <3>1, <3>2
  <2>5. Turn(e[i - 1], m, e[i]) /\ e[i - 1].open \subseteq e[i - 1].made
    <3>1. i - 1 \in 0..Len(h)
      BY <1>2
    <3> QED BY <1>1, <3>1 DEF IsReading
  <2>6. \A type \in CallTypes : IdsIn(kepts, type) = IdsIn(m.content, type)
    <3> SUFFICES ASSUME NEW type \in CallTypes PROVE IdsIn(kepts, type) = IdsIn(m.content, type)
      OBVIOUS
    <3>0. \A j \in DOMAIN m.content : m.content[j].type = type => j \in chosen
      BY DEF IsThinking, CallTypes
    <3> HIDE DEF chosen, m
    <3>1. /\ \A j \in DOMAIN kepts : \E l \in chosen \cap DOMAIN m.content : kepts[j] = m.content[l]
          /\ \A l \in chosen \cap DOMAIN m.content : \E j \in DOMAIN kepts : kepts[j] = m.content[l]
      <4> DEFINE c == m.content
      <4>1. c \in Seq(AllBlocks)
        BY <2>1
      <4> HIDE DEF c
      <4>2. /\ \A j \in DOMAIN Selected(c, chosen) :
                 \E l \in chosen \cap DOMAIN c : Selected(c, chosen)[j] = c[l]
            /\ \A l \in chosen \cap DOMAIN c :
                 \E j \in DOMAIN Selected(c, chosen) : Selected(c, chosen)[j] = c[l]
        BY <4>1, SelectedElements
      <4> QED BY <4>2 DEF c
    <3> HIDE DEF kepts
    <3>2. ASSUME NEW id \in IdsIn(kepts, type) PROVE id \in IdsIn(m.content, type)
      <4>1. PICK j \in DOMAIN kepts : kepts[j].type = type /\ kepts[j].id = id
        BY DEF IdsIn
      <4>2. PICK l \in DOMAIN m.content : kepts[j] = m.content[l]
        BY <3>1
      <4> QED BY <4>1, <4>2 DEF IdsIn
    <3>3. ASSUME NEW id \in IdsIn(m.content, type) PROVE id \in IdsIn(kepts, type)
      <4>1. PICK l \in DOMAIN m.content : m.content[l].type = type /\ m.content[l].id = id
        BY DEF IdsIn
      <4>2. PICK j \in DOMAIN kepts : kepts[j] = m.content[l]
        BY <3>0, <3>1, <4>1
      <4> QED BY <4>1, <4>2 DEF IdsIn
    <3> QED BY <3>2, <3>3
  <2>7. (\E l \in DOMAIN m.content : ~IsThinking(m.content[l])) => kepts # <<>>
    <3> SUFFICES ASSUME NEW l \in DOMAIN m.content, ~IsThinking(m.content[l]) PROVE kepts # <<>>
      OBVIOUS
    <3>1. l \in chosen \cap DOMAIN m.content
      OBVIOUS
    <3> HIDE DEF chosen, m
    <3>2. \E j \in DOMAIN kepts : kepts[j] = m.content[l]
      BY <2>1, <3>1, SelectedElements
    <3> HIDE DEF kepts
    <3> QED BY <3>2
  <2>8. k \in AllMessages /\ k.content = kepts /\ k.tool_calls = m.tool_calls
        /\ k.tool_call_id = m.tool_call_id
    <3> HIDE DEF m, kepts
    <3> QED BY <2>1, <2>3 DEF AllMessages
  <2> HIDE DEF m, kepts, k, f
  <2>9. SameCalls(m, k)
    <3>1. IdsIn(k.content, "tool_use") = IdsIn(m.content, "tool_use")
          /\ IdsIn(k.content, "tool_result") = IdsIn(m.content, "tool_result")
      BY <2>6, <2>8 DEF CallTypes
    <3> QED BY <2>8, <3>1, CallsAndResults DEF SameCalls
  <2>10. Turn(e[i - 1], k, e[i])
    BY <2>5, <2>9 DEF SameCalls, Turn
  <2>11. Leads(<<m>>, e[i - 1], e[i]) /\ Leads(<<k>>, e[i - 1], e[i])
    BY <2>5, <2>10, LeadsOne
  <2>12. <<m>> \in Seq(AllMessages) /\ <<k>> \in Seq(AllMessages) /\ <<>> \in Seq(AllMessages)
    BY <2>1, <2>8
  <2>13. CASE f[i] = <<>>
    <3>1. m.role = "assistant" /\ m.content # <<>> /\ kepts = <<>>
      <4>1. <<m>> # <<>> /\ <<k>> # <<>>
        OBVIOUS
      <4> QED BY <2>4, <2>13, <4>1
    <3>2. IsPlain(m)
      BY <2>1, <2>7, <3>1 DEF Guarded
    <3>3. Within(e[i - 1], e[i])
      BY <2>5, <3>2 DEF Turn, Within, IsPlain
    <3>4. Leads(<<>>, e[i - 1], e[i])
      BY <2>5, <3>3, LeadsNowhere
    <3> QED BY <2>12, <2>13, <3>4
  <2>14. f[i] \in {<<m>>, <<k>>, <<>>}
    BY <2>4
  <2> QED BY <2>11, <2>12, <2>13, <2>14
<1>4. f \in Seq(Seq(AllMessages)) /\ Len(f) = Len(h)
  <2>1. DOMAIN f = 1..Len(h) /\ f = [i \in 1..Len(h) |-> f[i]]
    BY <1>2
  <2> HIDE DEF f
  <2>2. f \in [1..Len(h) -> Seq(AllMessages)]
    BY <1>3, <2>1
  <2> QED BY <1>2, <2>1, <2>2
<1>5. StripAllThinkingBlocks(h) = FlattenSeq(f)
  BY DEF StripAllThinkingBlocks
<1> HIDE DEF f
<1>6. e[0].open \subseteq e[0].made /\ Within(s, e[0]) /\ Within(e[Len(h)], t)
  <2>1. 0 \in 0..Len(h)
    BY <1>2
  <2> QED BY <1>1, <2>1 DEF IsReading
<1>7. \A i \in 1..Len(f) : Leads(f[i], e[i - 1], e[i])
  BY <1>3, <1>4
<1>8. Leads(FlattenSeq(f), e[0], e[Len(f)])
  BY <1>4, <1>6, <1>7, FlattenLeads
<1> QED BY <1>4, <1>5, <1>6, <1>8, LeadsWeaker

LEMMA WholeBefore ==
  ASSUME NEW S, NEW p \in Seq(S), AllPlain(p), NEW h \in Seq(S), NEW one, Whole(h, one)
  PROVE  h \o p \in Seq(S) /\ Whole(h \o p, one)
<1> DEFINE s == Start(one)
<1>1. PICK t : t.open = {} /\ Leads(h, s, t)
  BY DEF Whole
<1> HIDE DEF s
<1>2. Leads(p, t, t)
  BY <1>1, PlainLeads
<1>3. Leads(h \o p, s, t)
  BY <1>1, <1>2, LeadsOn
<1> QED BY <1>1, <1>3 DEF Whole, s

LEMMA TextIsPlain ==
  ASSUME NEW role \in {"system", "user", "assistant", "tool"}, NEW b \in AllBlocks, b.type \notin CallTypes
  PROVE  Message(role, <<b>>) \in AllMessages /\ IsPlain(Message(role, <<b>>))
<1> DEFINE c == <<b>>
<1>1. \A i \in DOMAIN c : c[i].type = b.type
  OBVIOUS
<1>2. c \in Seq(AllBlocks)
  OBVIOUS
<1> HIDE DEF c
<1>3. \A type \in CallTypes : IdsIn(c, type) = {}
  BY <1>1, IdsOfNone
<1>4. IsPlain(Message(role, c))
  BY <1>3, MadeMessage DEF IsPlain, CallTypes
<1>5. Message(role, c) \in AllMessages
  BY <1>2, MessageIs, AnyMessages
<1> QED BY <1>4, <1>5 DEF c

LEMMA RepairKeeps ==
  ASSUME NEW h \in Seq(AllMessages), NEW one, Whole(h, one)
  PROVE  Whole(InjectRepairPrompt(h), one)
<1> DEFINE users == {i \in DOMAIN h : h[i].role = "user"}
<1>0. Repair \in AllBlocks /\ Repair.type \notin CallTypes
  <2>1. Repair \in AllBlocks
    BY BlocksAre, AnyMessages DEF Repair, Texts
  <2> QED BY <2>1 DEF Repair, Text, Block, CallTypes
<1>1. CASE h = <<>>
  BY <1>1 DEF InjectRepairPrompt
<1>2. CASE h # <<>> /\ users = {}
  <2> DEFINE m == Message("user", <<Repair>>)
  <2>1. m \in AllMessages /\ IsPlain(m)
    BY <1>0, TextIsPlain
  <2> HIDE DEF m
  <2>2. <<m>> \in Seq(AllMessages) /\ AllPlain(<<m>>) /\ Append(h, m) = h \o <<m>>
    BY <2>1 DEF AllPlain
  <2>3. Whole(h \o <<m>>, one)
    BY <2>2, WholeBefore
  <2> QED BY <1>2, <2>2, <2>3 DEF InjectRepairPrompt, m
<1>3. CASE h # <<>> /\ users # {}
  <2> DEFINE n == Max(users)
  <2>1. n \in DOMAIN h
    <3>1. users \in SUBSET (1..Len(h)) /\ Len(h) \in Nat /\ DOMAIN h = 1..Len(h)
      OBVIOUS
    <3> HIDE DEF users
    <3>2. Max(users) \in users
      BY <1>3, <3>1, MaxIs
    <3> QED BY <3>1, <3>2
  <2> HIDE DEF n
  <2> DEFINE c == Append(h[n].content, Repair)
             m == [h[n] EXCEPT !.content = c]
             u == [h EXCEPT ![n] = m]
  <2>2. h[n] \in AllMessages /\ h[n].content \in Seq(AllBlocks)
    <3>1. h[n] \in AllMessages
      BY <2>1
    <3> QED BY <3>1 DEF AllMessages
  <2>3. \A type \in CallTypes : IdsIn(c, type) = IdsIn(h[n].content, type)
    <3> DEFINE d == h[n].content
    <3>1. d \in Seq(AllBlocks)
      BY <2>2
    <3> HIDE DEF d
    <3>2. ASSUME NEW type \in CallTypes PROVE IdsIn(Append(d, Repair), type) = IdsIn(d, type)
      <4>1. IdsIn(Append(d, Repair), type) = IdsIn(d, type) \cup (IF Repair.type = type THEN {Repair.id} ELSE {})
        BY <1>0, <3>1, IdsAppended
      <4>2. Repair.type # type
        BY <1>0
      <4> QED BY <4>1, <4>2
    <3> QED BY <3>2 DEF d
  <2> HIDE DEF c
  <2>4. m.content = c /\ m.tool_calls = h[n].tool_calls /\ m.tool_call_id = h[n].tool_call_id
    BY <2>2 DEF AllMessages
  <2> HIDE DEF m
  <2>5. SameCalls(h[n], m)
    <3>1. IdsIn(c, "tool_use") = IdsIn(h[n].content, "tool_use")
          /\ IdsIn(c, "tool_result") = IdsIn(h[n].content, "tool_result")
      BY <2>3 DEF CallTypes
    <3> QED BY <2>4, <3>1, CallsAndResults DEF SameCalls
  <2>6. Len(u) = Len(h) /\ \A i \in 1..Len(h) : u[i] = IF i = n THEN m ELSE h[i]
    BY <2>1
  <2>7. \A i \in 1..Len(h) : SameCalls(h[i], u[i])
    BY <2>5, <2>6 DEF SameCalls
  <2>8. PICK t : t.open = {} /\ Leads(h, Start(one), t)
    BY DEF Whole
  <2> DEFINE s == Start(one)
  <2> HIDE DEF u, s
  <2>9. Leads(h, s, t)
    BY <2>8 DEF s
  <2>10. Leads(u, s, t)
    BY <2>6, <2>7, <2>9, LeadsSame
  <2>11. InjectRepairPrompt(h) = u
    <3>1. [h EXCEPT ![n].content = Append(@, Repair)] = [h EXCEPT ![n] = [h[n] EXCEPT !.content = Append(h[n].content, Repair)]]
      OBVIOUS
    <3> QED BY <1>3, <3>1 DEF InjectRepairPrompt, u, m, c, n
  <2> QED BY <2>8, <2>10, <2>11 DEF Whole, s
<1> QED BY <1>1, <1>2, <1>3

LEMMA RetryKeeps ==
  ASSUME NEW h \in Seq(AllMessages), \A i \in 1..Len(h) : Guarded(h[i]), NEW one, Whole(h, one)
  PROVE  /\ Whole(PrepareSignatureRetryBody(h), one)
         /\ \A i \in 1..Len(PrepareSignatureRetryBody(h)) : Guarded(PrepareSignatureRetryBody(h)[i])
<1> DEFINE stripped == StripAllThinkingBlocks(h)
           done == Says("assistant", "[Tool execution completed.]")
           more == Says("user", "[Continue]")
<1>1. stripped \in Seq(AllMessages)
  BY ThinkingStripped, FewerBlocks, AnyMessages
<1>2. Whole(stripped, one)
  <2> DEFINE s == Start(one)
  <2>1. PICK t : t.open = {} /\ Leads(h, s, t)
    BY DEF Whole
  <2> HIDE DEF s, stripped
  <2>2. Leads(stripped, s, t)
    BY <2>1, StripKeeps DEF stripped
  <2> QED BY <2>1, <2>2 DEF Whole, s
<1>3. <<done, more>> \in Seq(AllMessages) /\ AllPlain(<<done, more>>)
  <2>1. done \in AllMessages /\ more \in AllMessages /\ IsPlain(done) /\ IsPlain(more)
    <3>1. Text("[Tool execution completed.]") \in AllBlocks /\ Text("[Continue]") \in AllBlocks
      BY BlocksAre, AnyMessages DEF Texts
    <3>2. \A x : Text(x).type \notin CallTypes
      BY DEF Text, Block, CallTypes
    <3> QED BY <3>1, <3>2, TextIsPlain DEF Says
  <2> HIDE DEF done, more
  <2> QED BY <2>1 DEF AllPlain
<1> HIDE DEF stripped, done, more
<1>4. stripped \o <<done, more>> \in Seq(AllMessages) /\ Whole(stripped \o <<done, more>>, one)
  BY <1>1, <1>2, <1>3, WholeBefore
<1> DEFINE k == IF IsInToolLoop(h) THEN CloseToolLoopForThinking(h) ELSE StripAllThinkingBlocks(h)
<1>5. k \in Seq(AllMessages) /\ Whole(k, one)
  <2>1. k \in {stripped, stripped \o <<done, more>>}
    BY DEF CloseToolLoopForThinking, stripped, done, more
  <2> HIDE DEF k
  <2> QED BY <1>1, <1>2, <1>4, <2>1
<1>6. PrepareSignatureRetryBody(h) = InjectRepairPrompt(k)
  BY DEF PrepareSignatureRetryBody
<1> HIDE DEF k
<1>7. Whole(InjectRepairPrompt(k), one)
  BY <1>5, RepairKeeps
<1> DEFINE r == PrepareSignatureRetryBody(h)
<1>8. r \in Seq(MessagesOf(PlainBlocks))
  BY RetryPrepared
<1>9. Whole(r, one)
  BY <1>6, <1>7
<1> HIDE DEF r
<1>10. \A i \in 1..Len(r) : Guarded(r[i])
  BY <1>8, PlainGuarded
<1> QED BY <1>9, <1>10 DEF r
-----------------------------------------------------------------------------
(* The compression finds rounds, each a message with calls and the one that     *)
(* answers them, and takes out both or neither.                                 *)
Distinct(h) == \A i \in 1..Len(h) : Injective(UseIds(h[i]))

LEMMA CountsAre ==
  ASSUME NEW m \in AllMessages, m.tool_calls = <<>>, m.role # "tool"
  PROVE  /\ CountToolUses(m) = Len(UseIds(m)) /\ CountToolUses(m) \in Nat
         /\ CountToolResults(m) = Len(ResultIds(m)) /\ CountToolResults(m) \in Nat
         /\ CountToolUses(m) = 0 <=> IdsIn(m.content, "tool_use") = {}
         /\ CountToolResults(m) = 0 <=> IdsIn(m.content, "tool_result") = {}
         /\ HasToolResult(m) <=> IdsIn(m.content, "tool_result") # {}
<1> DEFINE uses == UseIds(m)
           results == ResultIds(m)
<1>1. uses \in Seq(Numbers) /\ results \in Seq(Numbers)
  BY IdsAre
<1>2. /\ ToSet(uses) = IdsIn(m.content, "tool_use") /\ ToSet(results) = IdsIn(m.content, "tool_result")
      /\ Len(uses) = Len(Filtered(m.content, LAMBDA b : b.type = "tool_use"))
      /\ Len(results) = Len(Filtered(m.content, LAMBDA b : b.type = "tool_result"))
  BY IdsListed
<1> HIDE DEF uses, results
<1>3. Len(uses) \in Nat /\ Len(results) \in Nat /\ (uses = <<>> <=> Len(uses) = 0)
      /\ (results = <<>> <=> Len(results) = 0)
  BY <1>1
<1>4. (uses = <<>> <=> ToSet(uses) = {}) /\ (results = <<>> <=> ToSet(results) = {})
  BY <1>1, NoneListed
<1>5. Len(m.tool_calls) = 0
  OBVIOUS
<1>6. CountToolUses(m) = Len(uses)
  <2>1. CountToolUses(m) = Len(m.tool_calls) + Len(Filtered(m.content, LAMBDA b : b.type = "tool_use"))
    BY DEF CountToolUses
  <2>2. CountToolUses(m) = 0 + Len(uses)
    BY <1>2, <1>5, <2>1
  <2> QED BY <1>3, <2>2
<1>7. CountToolResults(m) = Len(results)
  BY <1>2 DEF CountToolResults
<1>8. HasToolResult(m) <=> IdsIn(m.content, "tool_result") # {}
  BY DEF HasToolResult, Blocks, IdsIn
<1>9. /\ CountToolUses(m) = 0 <=> IdsIn(m.content, "tool_use") = {}
      /\ CountToolResults(m) = 0 <=> IdsIn(m.content, "tool_result") = {}
  BY <1>2, <1>3, <1>4, <1>6, <1>7
<1> QED BY <1>3, <1>6, <1>7, <1>8, <1>9 DEF uses, results

LEMMA InsideCounts ==
  ASSUME NEW m \in InsideMessages
  PROVE  /\ CountToolUses(m) \in Nat /\ CountToolResults(m) \in Nat
         /\ CountToolUses(m) = 0 <=> ToolCalls(m) = {}
         /\ CountToolResults(m) = 0 <=> ToolResults(m) = {}
         /\ HasToolResult(m) <=> ToolResults(m) # {}
         /\ Injective(UseIds(m)) => CountToolUses(m) = Cardinality(ToolCalls(m))
         /\ CountToolResults(m) = Cardinality(ToolResults(m))
<1>1. /\ m \in AllMessages /\ m.tool_calls = <<>> /\ m.role # "tool" /\ Injective(ResultIds(m))
  BY DEF InsideMessages, Inside
<1>2. ToolCalls(m) = IdsIn(m.content, "tool_use") /\ ToolResults(m) = IdsIn(m.content, "tool_result")
  BY InsideIs
<1>3. ToSet(UseIds(m)) = ToolCalls(m) /\ ToSet(ResultIds(m)) = ToolResults(m)
  BY <1>1, <1>2, IdsListed
<1>4. UseIds(m) \in Seq(Numbers) /\ ResultIds(m) \in Seq(Numbers)
  BY <1>1, IdsAre
<1>5. Injective(UseIds(m)) => Len(UseIds(m)) = Cardinality(ToolCalls(m))
  BY <1>3, <1>4, CountDistinct
<1>6. Len(ResultIds(m)) = Cardinality(ToolResults(m))
  BY <1>1, <1>3, <1>4, CountDistinct
<1>7. /\ CountToolUses(m) = Len(UseIds(m)) /\ CountToolUses(m) \in Nat
      /\ CountToolResults(m) = Len(ResultIds(m)) /\ CountToolResults(m) \in Nat
      /\ CountToolUses(m) = 0 <=> IdsIn(m.content, "tool_use") = {}
      /\ CountToolResults(m) = 0 <=> IdsIn(m.content, "tool_result") = {}
      /\ HasToolResult(m) <=> IdsIn(m.content, "tool_result") # {}
  BY <1>1, CountsAre
<1> QED BY <1>2, <1>5, <1>6, <1>7

Rounds == [indices : SUBSET Nat, expected : Nat, collected : Nat]
Identifying == [done : Seq(Rounds), current : {<<>>} \cup {<<r>> : r \in Rounds}]

LEMMA RoundFound ==
  ASSUME NEW acc \in Identifying, NEW i \in Nat, NEW m, CountToolUses(m) \in Nat, CountToolResults(m) \in Nat
  PROVE  NextRound(acc, i, m) \in Identifying
<1> DEFINE r == acc.current[1]
           n == CountToolResults(m)
           grown == [r EXCEPT !.indices = @ \cup {i}, !.collected = @ + n]
<1>1. /\ acc.done \in Seq(Rounds) /\ acc.current \in {<<>>} \cup {<<q>> : q \in Rounds}
      /\ acc = [done |-> acc.done, current |-> acc.current]
  BY DEF Identifying
<1>2. acc.current # <<>> => r \in Rounds
  BY <1>1
<1>3. acc.current # <<>> => grown \in Rounds
  <2> HIDE DEF r, n
  <2>1. n \in Nat
    BY DEF n
  <2>2. ASSUME NEW q \in Rounds
        PROVE  [q EXCEPT !.indices = q.indices \cup {i}, !.collected = q.collected + n] \in Rounds
    <3>1. q.indices \cup {i} \in SUBSET Nat /\ q.collected + n \in Nat
      BY <2>1 DEF Rounds
    <3> QED BY <3>1 DEF Rounds
  <2> QED BY <1>2, <2>2
<1>4. Closed(acc) \in Seq(Rounds)
  <2>1. acc.current \in Seq(Rounds)
    <3>1. <<>> \in Seq(Rounds) /\ \A q \in Rounds : <<q>> \in Seq(Rounds)
      OBVIOUS
    <3> QED BY <1>1, <3>1
  <2> QED BY <1>1, <2>1 DEF Closed
<1>5. Round(i, CountToolUses(m)) \in Rounds
  BY DEF Round, Rounds
<1> DEFINE a == [done |-> Closed(acc), current |-> <<Round(i, CountToolUses(m))>>]
           b == [done |-> Closed(acc), current |-> <<>>]
           c == [done |-> Append(acc.done, grown), current |-> <<>>]
           d == [acc EXCEPT !.current = <<grown>>]
<1>6. a \in Identifying /\ b \in Identifying
  BY <1>4, <1>5 DEF Identifying
<1>7. acc.current # <<>> => c \in Identifying /\ d \in Identifying
  <2> SUFFICES ASSUME acc.current # <<>> PROVE c \in Identifying /\ d \in Identifying
    OBVIOUS
  <2> HIDE DEF grown
  <2>1. Append(acc.done, grown) \in Seq(Rounds)
    BY <1>1, <1>3
  <2>2. d = [done |-> acc.done, current |-> <<grown>>]
    BY <1>1
  <2> HIDE DEF d
  <2> QED BY <1>1, <1>3, <2>1, <2>2 DEF Identifying
<1>8. \/ NextRound(acc, i, m) \in {acc, a, b}
      \/ acc.current # <<>> /\ NextRound(acc, i, m) \in {c, d}
  <2>1. NextRound(acc, i, m) =
          IF m.role = "assistant" THEN IF CountToolUses(m) = 0 THEN acc ELSE a
          ELSE IF m.role \notin {"user", "tool"} \/ acc.current = <<>> THEN acc
          ELSE IF n = 0 THEN IF m.role = "user" THEN b ELSE acc
          ELSE IF IsComplete(grown) THEN c ELSE d
    BY DEF NextRound
  <2> HIDE DEF a, b, c, d, grown, n
  <2> QED BY <2>1
<1> HIDE DEF a, b, c, d
<1> QED BY <1>6, <1>7, <1>8

LEMMA RoundsRow ==
  ASSUME NEW h \in Seq(InsideMessages)
  PROVE  \E g : /\ g[0] = [done |-> <<>>, current |-> <<>>]
                /\ IdentifyToolRounds(h) = Closed(g[Len(h)])
                /\ \A i \in 1..Len(h) : g[i] = NextRound(g[i - 1], i, h[i])
                /\ \A i \in 0..Len(h) : g[i] \in Identifying
<1> DEFINE Acc == Identifying
           base == [done |-> <<>>, current |-> <<>>]
           n == Len(h)
           s == [i \in DOMAIN h |-> i]
           G == [i \in Nat \ {0} |-> [a \in Acc |-> IF i \in 1..n THEN NextRound(a, i, h[i]) ELSE a]]
           Step(f, i) == IF i = 0 THEN base ELSE NextRound(f[i - 1], s[i], h[s[i]])
<1>1. /\ n \in Nat /\ base \in Acc /\ \A i \in 1..n : h[i] \in InsideMessages
      /\ Len(s) = n /\ \A i \in 1..n : s[i] = i
  BY DEF Identifying
<1>2. \A a \in Acc, i \in 1..n : NextRound(a, i, h[i]) \in Acc
  <2>1. ASSUME NEW a \in Acc, NEW i \in 1..n PROVE NextRound(a, i, h[i]) \in Acc
    <3>1. i \in Nat /\ CountToolUses(h[i]) \in Nat /\ CountToolResults(h[i]) \in Nat
      BY <1>1, InsideCounts
    <3> QED BY <3>1, RoundFound
  <2> QED BY <2>1
<1>3. IdentifyToolRounds(h) = Closed((CHOOSE f : f = [i \in 0..Len(s) |-> Step(f, i)])[Len(s)])
  BY DEF IdentifyToolRounds, Folded
<1> HIDE DEF Acc, n, s, base
<1>4. Makes(G, Acc)
  BY <1>2 DEF Makes
<1>5. PICK f : IsRow(f, n, Acc, base, G)
  <2> HIDE DEF G
  <2> QED BY <1>1, <1>4, RowExists
<1>6. f = [i \in 0..n |-> Step(f, i)]
  <2>1. f = [i \in 0..n |-> f[i]]
    BY <1>5 DEF IsRow
  <2>2. \A i \in 0..n : f[i] = Step(f, i)
    <3> SUFFICES ASSUME NEW i \in 1..n PROVE f[i] = Step(f, i)
      BY <1>1, <1>5 DEF IsRow
    <3>1. i - 1 \in 0..n
      BY <1>1
    <3>2. f[i] = G[i][f[i - 1]] /\ f[i - 1] \in Acc
      BY <1>5, <3>1 DEF IsRow
    <3> QED BY <1>1, <3>2
  <2> HIDE DEF Step
  <2> QED BY <2>1, <2>2, Zenon
<1> DEFINE g == CHOOSE f_1 : f_1 = [i \in 0..n |-> Step(f_1, i)]
<1>7. g = [i \in 0..n |-> Step(g, i)]
  <2> HIDE DEF Step
  <2> QED BY <1>6, Zenon
<1> HIDE DEF g
<1>8. \A i \in 0..n : g[i] = Step(g, i)
  BY <1>7
<1>9. g[0] \in Acc
  BY <1>1, <1>8
<1>12. g[0] = base /\ \A i \in 1..n : g[i] = NextRound(g[i - 1], i, h[i])
  BY <1>1, <1>8
<1>10. \A i \in 1..n : g[i - 1] \in Acc => g[i] \in Acc
  BY <1>2, <1>12
<1>11. \A i \in 0..n : g[i] \in Acc
  BY <1>1, <1>9, <1>10, StaysIn
<1>13. IdentifyToolRounds(h) = Closed(g[n])
  BY <1>1, <1>3 DEF g
<1> QED BY <1>11, <1>12, <1>13 DEF Acc, n, base

(* A round that was found: a message with calls and the one behind it.          *)
Pair(h, r, n) ==
    /\ IsComplete(r)
    /\ \E a \in 1..(n - 1) : /\ r.indices = {a, a + 1}
                             /\ ToolCalls(h[a]) # {} /\ ToolResults(h[a + 1]) # {}
Finds(h, acc, i, s) ==
    /\ \A k \in 1..Len(acc.done) : Pair(h, acc.done[k], i)
    /\ s.open = {} => acc.current = <<>>
    /\ s.open # {} => /\ i # 0 /\ acc.current = <<Round(i, Cardinality(s.open))>>
                      /\ ToolCalls(h[i]) = s.open

LEMMA RoundNext ==
  ASSUME NEW h \in Seq(InsideMessages), Distinct(h), NEW i \in 1..Len(h), NEW acc \in Identifying,
         NEW s, NEW t, Finds(h, acc, i - 1, s), Turn(s, h[i], t), t.one = TRUE
  PROVE  Finds(h, NextRound(acc, i, h[i]), i, t)
<1> DEFINE m == h[i]
           u == NextRound(acc, i, m)
           calls == CountToolUses(m)
           results == CountToolResults(m)
<1>1. m \in InsideMessages /\ Injective(UseIds(m)) /\ i \in Nat /\ i - 1 \in Nat
  BY DEF Distinct
<1> HIDE DEF m
<1>2. /\ calls \in Nat /\ results \in Nat
      /\ calls = 0 <=> ToolCalls(m) = {}
      /\ results = 0 <=> ToolResults(m) = {}
      /\ calls = Cardinality(ToolCalls(m)) /\ results = Cardinality(ToolResults(m))
  BY <1>1, InsideCounts
<1>3. /\ m.role # "assistant" => ToolCalls(m) = {}
      /\ m.role # "user" => ToolResults(m) = {}
  BY <1>1, InsideIs
<1>4. /\ acc.done \in Seq(Rounds) /\ acc = [done |-> acc.done, current |-> acc.current]
  BY DEF Identifying
<1>5. \A k \in 1..Len(acc.done) : Pair(h, acc.done[k], i)
  <2>1. \A r : Pair(h, r, i - 1) => Pair(h, r, i)
    <3>1. \A a : a \in 1..((i - 1) - 1) => a \in 1..(i - 1)
      BY <1>1
    <3> QED BY <3>1 DEF Pair
  <2> QED BY <2>1 DEF Finds
<1>6. Turn(s, m, t)
  BY DEF m
<1> HIDE DEF calls, results, u
<1>7. CASE ToolResults(m) = {} /\ ToolCalls(m) = {}
  <2>1. acc.current = <<>> /\ t.open = {}
    BY <1>6, <1>7 DEF Turn, Finds
  <2>2. calls = 0 /\ results = 0
    BY <1>2, <1>7
  <2>3. u = acc
    BY <2>1, <2>2 DEF NextRound, u, calls
  <2> QED BY <1>5, <2>1, <2>3 DEF Finds, u, m
<1>8. CASE ToolResults(m) = {} /\ ToolCalls(m) # {}
  <2>1. acc.current = <<>> /\ t.open = ToolCalls(m)
    BY <1>6, <1>8 DEF Turn, Finds
  <2>2. calls # 0 /\ m.role = "assistant" /\ calls = Cardinality(t.open)
    BY <1>2, <1>3, <1>8, <2>1
  <2>3. Closed(acc) = acc.done
    BY <1>4, <2>1 DEF Closed
  <2>4. u = [done |-> acc.done, current |-> <<Round(i, calls)>>]
    BY <2>2, <2>3 DEF NextRound, u, calls
  <2>5. u.done = acc.done /\ u.current = <<Round(i, Cardinality(t.open))>>
    BY <2>2, <2>4
  <2> QED BY <1>1, <1>5, <1>8, <2>1, <2>5 DEF Finds, u, m
<1>9. CASE ToolResults(m) # {}
  <2>1. /\ m.role = "user" /\ ToolCalls(m) = {} /\ s.open # {} /\ t.open = {}
        /\ ToolResults(m) = s.open
    BY <1>3, <1>6, <1>9 DEF Turn
  <2>2. /\ acc.current = <<Round(i - 1, results)>> /\ ToolCalls(h[i - 1]) # {} /\ i - 1 # 0
    BY <1>2, <2>1 DEF Finds
  <2> DEFINE grown == [acc.current[1] EXCEPT !.indices = @ \cup {i}, !.collected = @ + results]
  <2>3. grown.indices = {i - 1, i} /\ IsComplete(grown) /\ grown \in Rounds
    <3>1. acc.current[1] = [indices |-> {i - 1}, expected |-> results, collected |-> 0]
      BY <2>2 DEF Round
    <3> DEFINE q == acc.current[1]
    <3>2. grown = [indices |-> {i - 1} \cup {i}, expected |-> results, collected |-> 0 + results]
      <4>1. grown = [q EXCEPT !.indices = q.indices \cup {i}, !.collected = q.collected + results]
        OBVIOUS
      <4>2. q = [indices |-> {i - 1}, expected |-> results, collected |-> 0]
        BY <3>1
      <4> HIDE DEF q, grown
      <4> QED BY <4>1, <4>2
    <3> HIDE DEF grown
    <3>3. grown.indices = {i - 1, i} /\ grown.expected = results /\ grown.collected = results
      BY <1>2, <3>2
    <3>4. {i - 1} \cup {i} \in SUBSET Nat /\ 0 + results \in Nat
      BY <1>1, <1>2
    <3> QED BY <1>2, <3>2, <3>3, <3>4 DEF IsComplete, Rounds
  <2>4. u = [done |-> Append(acc.done, grown), current |-> <<>>]
    <3>1. results # 0 /\ m.role # "assistant" /\ acc.current # <<>>
      BY <1>2, <1>9, <2>1, <2>2
    <3> QED BY <2>1, <2>3, <3>1 DEF NextRound, u, results
  <2> HIDE DEF grown
  <2>5. Pair(h, grown, i)
    <3>1. i - 1 \in 1..(i - 1) /\ (i - 1) + 1 = i
      BY <1>1, <2>2
    <3> QED BY <1>9, <2>2, <2>3, <3>1 DEF Pair, m
  <2>6. \A k \in 1..Len(Append(acc.done, grown)) : Pair(h, Append(acc.done, grown)[k], i)
    <3>1. Len(Append(acc.done, grown)) = Len(acc.done) + 1 /\ Len(acc.done) \in Nat
      BY <1>4, <2>3
    <3>2. /\ \A k \in 1..Len(acc.done) : Append(acc.done, grown)[k] = acc.done[k]
          /\ Append(acc.done, grown)[Len(acc.done) + 1] = grown
      BY <1>4, <2>3
    <3>3. \A k \in 1..(Len(acc.done) + 1) : k \in 1..Len(acc.done) \/ k = Len(acc.done) + 1
      BY <3>1
    <3> QED BY <1>5, <2>5, <3>1, <3>2, <3>3
  <2>7. u.done = Append(acc.done, grown) /\ u.current = <<>>
    BY <2>4
  <2> QED BY <2>1, <2>6, <2>7 DEF Finds, u, m
<1> QED BY <1>7, <1>8, <1>9

(* The rounds that are found in a whole history.                                *)
LEMMA RoundsArePairs ==
  ASSUME NEW h \in Seq(InsideMessages), Distinct(h), Whole(h, TRUE)
  PROVE  LET rounds == IdentifyToolRounds(h)
         IN  rounds \in Seq(Rounds) /\ \A k \in 1..Len(rounds) : Pair(h, rounds[k], Len(h))
<1> DEFINE n == Len(h)
           z == Start(TRUE)
           base == [done |-> <<>>, current |-> <<>>]
<1>1. n \in Nat
  OBVIOUS
<1>2. PICK t : t.open = {} /\ Leads(h, z, t)
  BY DEF Whole
<1>3. PICK f : IsReading(h, z, t, f)
  BY <1>2 DEF Leads
<1>4. z.open = {} /\ z.one = TRUE
  BY DEF Start, State
<1>5. base \in Identifying /\ base.done = <<>> /\ base.current = <<>> /\ Len(<<>>) = 0
  BY DEF Identifying
<1> HIDE DEF base, z
<1>6. PICK g : /\ g[0] = base
               /\ IdentifyToolRounds(h) = Closed(g[n])
               /\ \A i \in 1..n : g[i] = NextRound(g[i - 1], i, h[i])
               /\ \A i \in 0..n : g[i] \in Identifying
  BY RoundsRow DEF base
<1> DEFINE e == [i \in 0..n |-> Finds(h, g[i], i, f[i])]
<1>7. e[0] = TRUE
  <2>1. f[0].open = {}
    BY <1>3, <1>4 DEF IsReading, Within
  <2>2. Finds(h, base, 0, f[0])
    BY <1>5, <2>1 DEF Finds
  <2>3. e[0] = Finds(h, g[0], 0, f[0])
    BY <1>1
  <2> QED BY <1>6, <2>2, <2>3
<1>8. ASSUME NEW i \in 1..n, e[i - 1] = TRUE PROVE e[i] = TRUE
  <2>1. i - 1 \in 0..n /\ i \in 0..n
    BY <1>1
  <2>2. Finds(h, g[i - 1], i - 1, f[i - 1])
    BY <1>8, <2>1
  <2>3. Turn(f[i - 1], h[i], f[i])
    BY <1>3 DEF IsReading
  <2>4. f[i].one = TRUE
    BY <1>1, <1>3, <1>4, <2>1, OneForAll
  <2>5. g[i - 1] \in Identifying
    BY <1>6, <2>1
  <2>6. Finds(h, NextRound(g[i - 1], i, h[i]), i, f[i])
    BY <2>2, <2>3, <2>4, <2>5, RoundNext
  <2> QED BY <1>6, <2>1, <2>6
<1> HIDE DEF e, n
<1>9. \A i \in 0..n : e[i] = TRUE
  BY <1>1, <1>7, <1>8, TrueOn
<1>10. n \in 0..n /\ e[n] = Finds(h, g[n], n, f[n])
  BY <1>1 DEF e
<1>11. f[n].open = {}
  BY <1>2, <1>3 DEF IsReading, Within, n
<1>12. g[n].current = <<>> /\ \A k \in 1..Len(g[n].done) : Pair(h, g[n].done[k], n)
  BY <1>9, <1>10, <1>11 DEF Finds
<1>13. g[n].done \in Seq(Rounds)
  BY <1>6, <1>10 DEF Identifying
<1>14. Closed(g[n]) = g[n].done
  BY <1>12, <1>13 DEF Closed
<1> QED BY <1>6, <1>12, <1>13, <1>14 DEF n

(* Where one message answers all the calls of another, a message with results   *)
(* stands behind the one with the calls.                                        *)
LEMMA ResultsBehindCalls ==
  ASSUME NEW h \in Seq(InsideMessages), Whole(h, TRUE), NEW j \in 1..Len(h), ToolResults(h[j]) # {}
  PROVE  /\ j - 1 \in 1..Len(h) /\ ToolCalls(h[j - 1]) # {} /\ ToolResults(h[j - 1]) = {}
         /\ ToolCalls(h[j]) = {}
<1> DEFINE z == Start(TRUE)
<1>1. PICK t : t.open = {} /\ Leads(h, z, t)
  BY DEF Whole
<1>2. PICK f : IsReading(h, z, t, f)
  BY <1>1 DEF Leads
<1>3. z.open = {} /\ z.one = TRUE
  BY DEF Start, State
<1> HIDE DEF z
<1>4. Turn(f[j - 1], h[j], f[j]) /\ f[0].open = {}
  BY <1>2, <1>3 DEF IsReading, Within
<1>5. f[j - 1].open # {} /\ ToolCalls(h[j]) = {}
  BY <1>4 DEF Turn
<1>6. j - 1 \in 1..Len(h) /\ j - 1 \in 0..Len(h) /\ Len(h) \in Nat
  BY <1>4, <1>5
<1>7. Turn(f[(j - 1) - 1], h[j - 1], f[j - 1]) /\ f[j - 1].one = TRUE
  <2>1. Turn(f[(j - 1) - 1], h[j - 1], f[j - 1])
    BY <1>2, <1>6 DEF IsReading
  <2>2. f[j - 1].one = TRUE
    BY <1>2, <1>3, <1>6, OneForAll
  <2> QED BY <2>1, <2>2
<1>8. ToolCalls(h[j - 1]) = f[j - 1].open
  BY <1>7 DEF Turn
<1>9. h[j - 1] \in InsideMessages
  BY <1>6
<1>10. ToolResults(h[j - 1]) = {}
  BY <1>5, <1>8, <1>9, InsideIs
<1> QED BY <1>5, <1>6, <1>8, <1>10

(* Some places of a history that hold a result just when they hold the calls.   *)
TakesBoth(h, C) ==
    \A j \in 1..Len(h) : ToolResults(h[j]) # {} => (j \in C <=> j - 1 \in C)

LEMMA SelectionWhole ==
  ASSUME NEW h \in Seq(InsideMessages), Whole(h, TRUE), NEW C, TakesBoth(h, C)
  PROVE  Whole(Selected(h, C), TRUE)
<1> DEFINE z == Start(TRUE)
           n == Len(h)
<1>1. PICK t : t.open = {} /\ Leads(h, z, t)
  BY DEF Whole
<1>2. PICK f : IsReading(h, z, t, f)
  BY <1>1 DEF Leads
<1>3. z.open = {} /\ z.one = TRUE /\ z.made = {} /\ n \in Nat
  BY DEF Start, State
<1> HIDE DEF z
<1> DEFINE e == [i \in 0..n |-> State(IF i \in C THEN f[i].open ELSE {}, f[i].made, TRUE)]
<1>4. \A i \in 0..n : /\ e[i].open = (IF i \in C THEN f[i].open ELSE {})
                      /\ e[i].made = f[i].made /\ e[i].one = TRUE
                      /\ f[i].open \subseteq f[i].made /\ f[i].one = TRUE
  <2>1. \A i \in 0..n : /\ e[i].open = (IF i \in C THEN f[i].open ELSE {})
                        /\ e[i].made = f[i].made /\ e[i].one = TRUE
    BY DEF State
  <2>2. \A i \in 0..n : f[i].open \subseteq f[i].made
    BY <1>2 DEF IsReading
  <2>3. \A i \in 0..n : f[i].one = TRUE
    BY <1>2, <1>3, OneForAll
  <2> QED BY <2>1, <2>2, <2>3
<1> HIDE DEF e
<1>5. 0 \in 0..n /\ n \in 0..n /\ f[0].open = {} /\ f[n].open = {}
  BY <1>1, <1>2, <1>3 DEF IsReading, Within
<1>6. ASSUME NEW i \in 1..n
      PROVE  IF i \in C THEN Turn(e[i - 1], h[i], e[i]) ELSE Within(e[i - 1], e[i])
  <2>1. i - 1 \in 0..n /\ i \in 0..n
    BY <1>3
  <2>2. Turn(f[i - 1], h[i], f[i])
    BY <1>2 DEF IsReading
  <2>3. ToolResults(h[i]) # {} => (i \in C <=> i - 1 \in C)
    BY DEF TakesBoth
  <2>4. /\ e[i].open = (IF i \in C THEN f[i].open ELSE {})
        /\ e[i].made = f[i].made /\ e[i].one = TRUE
        /\ f[i].open \subseteq f[i].made /\ f[i].one = TRUE
    BY <1>4, <2>1
  <2>5. /\ e[i - 1].open = (IF i - 1 \in C THEN f[i - 1].open ELSE {})
        /\ e[i - 1].made = f[i - 1].made /\ e[i - 1].one = TRUE
    BY <1>4, <2>1
  <2>6. CASE i \in C
    <3>1. e[i].open = f[i].open
      BY <2>4, <2>6
    <3>2. e[i - 1].open = f[i - 1].open
      <4>1. CASE ToolResults(h[i]) # {}
        BY <2>3, <2>5, <2>6, <4>1
      <4>2. CASE ToolResults(h[i]) = {}
        <5>1. f[i - 1].open = {}
          BY <2>2, <4>2 DEF Turn
        <5> QED BY <2>5, <5>1
      <4> QED BY <4>1, <4>2
    <3>3. Turn(e[i - 1], h[i], e[i])
      BY <2>2, <2>4, <2>5, <3>1, <3>2 DEF Turn
    <3> QED BY <2>6, <3>3
  <2>7. CASE i \notin C
    <3>1. e[i - 1].open = {}
      <4>1. CASE ToolResults(h[i]) # {}
        BY <2>3, <2>5, <2>7, <4>1
      <4>2. CASE ToolResults(h[i]) = {}
        <5>1. f[i - 1].open = {}
          BY <2>2, <4>2 DEF Turn
        <5> QED BY <2>5, <5>1
      <4> QED BY <4>1, <4>2
    <3>2. Within(e[i - 1], e[i])
      BY <2>2, <2>4, <2>5, <2>7, <3>1 DEF Turn, Within
    <3> QED BY <2>7, <3>2
  <2> QED BY <2>6, <2>7
<1>7. \A i \in 0..n : e[i].open \subseteq e[i].made
  BY <1>4
<1>8. e[0].open \subseteq e[0].made /\ e[n].open = {}
  BY <1>4, <1>5
<1>9. Leads(Selected(h, C), e[0], e[n])
  BY <1>6, <1>7, <1>8, SelectedLeads
<1>10. Within(z, e[0]) /\ Within(e[n], e[n])
  BY <1>3, <1>4, <1>5 DEF Within
<1>11. Leads(Selected(h, C), z, e[n])
  BY <1>9, <1>10, LeadsWeaker
<1> QED BY <1>8, <1>11 DEF Whole, z

(* What the compression may be given, and gives.                                *)
Compressible == {h \in Seq(InsideMessages) : Whole(h, TRUE) /\ Distinct(h)}

LEMMA SelectionCompressible ==
  ASSUME NEW h \in Compressible, NEW C, TakesBoth(h, C)
  PROVE  Selected(h, C) \in Compressible
<1>1. h \in Seq(InsideMessages) /\ Whole(h, TRUE) /\ Distinct(h)
  BY DEF Compressible
<1> DEFINE r == Selected(h, C)
<1>2. r \in Seq(InsideMessages)
  BY <1>1, SelectedIs
<1>3. \A j \in DOMAIN r : \E i \in C \cap DOMAIN h : r[j] = h[i]
  BY <1>1, SelectedElements
<1>4. Whole(r, TRUE)
  BY <1>1, SelectionWhole
<1> HIDE DEF r
<1>5. Distinct(r)
  <2>1. DOMAIN r = 1..Len(r) /\ DOMAIN h = 1..Len(h)
    BY <1>1, <1>2
  <2> QED BY <1>1, <1>3, <2>1 DEF Distinct
<1> QED BY <1>2, <1>4, <1>5 DEF Compressible, r

LEMMA TrimKeeps ==
  ASSUME NEW h \in Compressible, NEW keep \in Nat
  PROVE  TrimToolMessages(h, keep) \in Compressible
<1> DEFINE rounds == IdentifyToolRounds(h)
           n == Len(h)
<1>1. h \in Seq(InsideMessages) /\ Whole(h, TRUE) /\ Distinct(h)
  BY DEF Compressible
<1>2. rounds \in Seq(Rounds) /\ \A k \in 1..Len(rounds) : Pair(h, rounds[k], n)
  BY <1>1, RoundsArePairs
<1> HIDE DEF rounds
<1>3. CASE Len(rounds) <= keep
  BY <1>3 DEF TrimToolMessages, rounds
<1>4. CASE ~(Len(rounds) <= keep)
  <2> DEFINE q == SubSeq(rounds, 1, Len(rounds) - keep)
             D == IndicesOf(q)
             C == DOMAIN h \ D
  <2>1. \A k \in DOMAIN q : \E i \in 1..Len(rounds) : q[k] = rounds[i]
    <3> DEFINE l == Len(rounds)
    <3>1. l \in Nat /\ l - keep \in 0..l
      <4>1. l \in Nat
        BY <1>2
      <4> HIDE DEF l
      <4>2. ~(l <= keep)
        BY <1>4 DEF l
      <4> QED BY <4>1, <4>2
    <3> DEFINE p == l - keep
    <3>2. /\ DOMAIN SubSeq(rounds, 1, p) = 1..p /\ p \in 0..l
          /\ \A k \in 1..p : SubSeq(rounds, 1, p)[k] = rounds[k]
      <4> HIDE DEF l
      <4>1. p \in 0..l /\ l \in Nat
        BY <3>1
      <4> HIDE DEF p
      <4> QED BY <1>2, <4>1 DEF l
    <3>3. \A k \in 1..p : k \in 1..l
      <4> HIDE DEF l, p
      <4> QED BY <3>1, <3>2
    <3> QED BY <3>2, <3>3
  <2> HIDE DEF q
  <2>2. ASSUME NEW i \in D
        PROVE  \E a \in 1..(n - 1) : /\ i \in {a, a + 1} /\ {a, a + 1} \subseteq D
                                     /\ ToolCalls(h[a]) # {} /\ ToolResults(h[a + 1]) # {}
    <3>1. PICK k \in DOMAIN q : i \in q[k].indices
      BY DEF IndicesOf
    <3>2. Pair(h, q[k], n)
      BY <1>2, <2>1
    <3>3. q[k].indices \subseteq D
      BY DEF IndicesOf
    <3> QED BY <3>1, <3>2, <3>3 DEF Pair
  <2> HIDE DEF D
  <2>3. ASSUME NEW j \in 1..n, ToolResults(h[j]) # {} PROVE j \in D <=> j - 1 \in D
    <3>1. /\ j - 1 \in 1..n /\ ToolCalls(h[j - 1]) # {} /\ ToolResults(h[j - 1]) = {}
          /\ ToolCalls(h[j]) = {}
      BY <1>1, <2>3, ResultsBehindCalls
    <3>2. ASSUME j \in D PROVE j - 1 \in D
      <4>1. PICK a \in 1..(n - 1) : /\ j \in {a, a + 1} /\ {a, a + 1} \subseteq D
                                    /\ ToolCalls(h[a]) # {} /\ ToolResults(h[a + 1]) # {}
        BY <2>2, <3>2
      <4>2. j = a + 1
        BY <3>1, <4>1
      <4>3. j - 1 = a
        BY <4>2
      <4> QED BY <4>1, <4>3
    <3>3. ASSUME j - 1 \in D PROVE j \in D
      <4>1. PICK a \in 1..(n - 1) : /\ j - 1 \in {a, a + 1} /\ {a, a + 1} \subseteq D
                                    /\ ToolCalls(h[a]) # {} /\ ToolResults(h[a + 1]) # {}
        BY <2>2, <3>3
      <4>2. j - 1 = a
        BY <3>1, <4>1
      <4>3. j = a + 1
        BY <4>2
      <4> QED BY <4>1, <4>3
    <3> QED BY <3>2, <3>3
  <2>4. TakesBoth(h, C)
    <3>1. ASSUME NEW j \in 1..n, ToolResults(h[j]) # {} PROVE j \in C <=> j - 1 \in C
      <4>1. j - 1 \in 1..n
        BY <1>1, <3>1, ResultsBehindCalls
      <4>2. j \in DOMAIN h /\ j - 1 \in DOMAIN h
        BY <1>1, <4>1
      <4> QED BY <2>3, <3>1, <4>2
    <3> HIDE DEF C
    <3> QED BY <3>1 DEF TakesBoth
  <2> HIDE DEF C
  <2>5. Selected(h, C) \in Compressible
    BY <2>4, SelectionCompressible
  <2>6. TrimToolMessages(h, keep) = Selected(h, C)
    BY <1>4 DEF TrimToolMessages, rounds, q, D, C
  <2> QED BY <2>5, <2>6
<1> QED BY <1>3, <1>4

LEMMA MinIs ==
  ASSUME NEW n \in Nat, NEW T \in SUBSET (1..n), T # {}
  PROVE  Min(T) \in T /\ \A k \in T : Min(T) <= k
<1> DEFINE B == {k \in 0..n : \A x \in T : k <= x}
<1>1. 0 \in B
  OBVIOUS
<1>2. B \in SUBSET (0..n) /\ B # {}
  BY <1>1
<1>3. PICK m \in B : \A k \in B : k <= m
  BY <1>2, Greatest
<1>4. m \in T
  <2>1. SUFFICES ASSUME m \notin T PROVE FALSE
    OBVIOUS
  <2>2. ASSUME NEW x \in T PROVE m + 1 <= x
    <3>1. m \in Nat /\ x \in Nat /\ m <= x /\ m # x
      BY <1>3, <2>1, <2>2
    <3> QED BY <3>1
  <2>3. PICK x \in T : x \in 1..n
    OBVIOUS
  <2>4. m + 1 <= x
    BY <2>2
  <2>5. m + 1 \in 0..n
    BY <1>3, <2>3, <2>4
  <2>6. m + 1 \in B
    BY <2>2, <2>5
  <2> QED BY <1>3, <2>6
<1> QED BY <1>3, <1>4 DEF Min

(* Right before a message with results are the calls that come last before it.  *)
LEMMA LastCallsAre ==
  ASSUME NEW h \in Compressible, NEW j \in 1..Len(h), ToolResults(h[j]) # {}
  PROVE  CallsBefore(h, j) # {} /\ Max(CallsBefore(h, j)) = j - 1
<1>1. h \in Seq(InsideMessages) /\ Whole(h, TRUE)
  BY DEF Compressible
<1>2. j - 1 \in 1..Len(h) /\ ToolCalls(h[j - 1]) # {}
  BY <1>1, ResultsBehindCalls
<1>3. h[j - 1] \in InsideMessages
  BY <1>1, <1>2
<1>4. CountToolUses(h[j - 1]) > 0
  BY <1>2, <1>3, InsideCounts
<1> DEFINE T == CallsBefore(h, j)
<1>5. T \in SUBSET (1..(j - 1)) /\ j - 1 \in T /\ j - 1 \in Nat
  BY <1>2, <1>4 DEF CallsBefore
<1> HIDE DEF T
<1>6. Max(T) \in T /\ \A k \in T : k <= Max(T)
  BY <1>5, MaxIs
<1>7. Max(T) \in 1..(j - 1) /\ j - 1 <= Max(T)
  BY <1>5, <1>6
<1>8. Max(T) = j - 1
  BY <1>5, <1>7
<1> QED BY <1>5, <1>8 DEF T

(* From one of the last things that the user says on, the whole rest is kept.   *)
LEMMA AggressiveKeeps ==
  ASSUME NEW h \in Compressible
  PROVE  TruncateMessagesAggressive(h) \in Compressible
<1> DEFINE n == Len(h)
           said == LastUsers(h)
           wanted == {i \in DOMAIN h : h[i].role = "system"}
                     \cup (IF said = {} THEN {} ELSE Min(said)..Len(h))
           K == wanted \cup KeptRounds(h, wanted)
           C == Completed(h, K)
<1>1. h \in Seq(InsideMessages) /\ Whole(h, TRUE) /\ Distinct(h)
  BY DEF Compressible
<1>2. n \in Nat /\ DOMAIN h = 1..n /\ \A i \in 1..n : h[i] \in InsideMessages
  BY <1>1
<1>3. \A i \in 1..n :
        /\ CountToolUses(h[i]) > 0 <=> ToolCalls(h[i]) # {}
        /\ HasToolResult(h[i]) <=> ToolResults(h[i]) # {}
        /\ ToolCalls(h[i]) # {} => h[i].role = "assistant" /\ ToolResults(h[i]) = {}
        /\ ToolResults(h[i]) # {} => h[i].role = "user"
  <2> SUFFICES ASSUME NEW i \in 1..n
               PROVE  /\ CountToolUses(h[i]) > 0 <=> ToolCalls(h[i]) # {}
                      /\ HasToolResult(h[i]) <=> ToolResults(h[i]) # {}
                      /\ ToolCalls(h[i]) # {} => h[i].role = "assistant" /\ ToolResults(h[i]) = {}
                      /\ ToolResults(h[i]) # {} => h[i].role = "user"
    OBVIOUS
  <2>1. h[i] \in InsideMessages
    BY <1>2
  <2>2. /\ CountToolUses(h[i]) \in Nat
        /\ CountToolUses(h[i]) = 0 <=> ToolCalls(h[i]) = {}
        /\ HasToolResult(h[i]) <=> ToolResults(h[i]) # {}
    BY <2>1, InsideCounts
  <2>3. /\ h[i].role # "assistant" => ToolCalls(h[i]) = {}
        /\ h[i].role # "user" => ToolResults(h[i]) = {}
        /\ ToolCalls(h[i]) = {} \/ ToolResults(h[i]) = {}
    BY <2>1, InsideIs
  <2>4. CountToolUses(h[i]) > 0 <=> ToolCalls(h[i]) # {}
    <3> DEFINE c == CountToolUses(h[i])
    <3>1. c \in Nat /\ (c = 0 <=> ToolCalls(h[i]) = {})
      BY <2>2
    <3> HIDE DEF c
    <3>2. c \in Nat => (c > 0 <=> c # 0)
      OBVIOUS
    <3>3. c > 0 <=> ToolCalls(h[i]) # {}
      BY <3>1, <3>2
    <3> QED BY <3>3 DEF c
  <2> QED BY <2>2, <2>3, <2>4
<1>4. said \in SUBSET (1..n) /\ \A i \in said : ToolResults(h[i]) = {}
  BY <1>2, <1>3 DEF LastUsers
<1> HIDE DEF said
<1>5. ASSUME NEW i \in K, i \in 1..n, ToolCalls(h[i]) # {}
      PROVE  \A j \in i..n : j \in K
  <2>1. SUFFICES said # {} /\ Min(said) <= i
    <3>1. said # {} => Min(said) \in Nat
      BY <1>2, <1>4, MinIs
    <3> QED BY <1>2, <1>5, <3>1
  <2>2. h[i].role # "system"
    BY <1>3, <1>5
  <2>3. CASE i \in wanted
    <3>1. said # {} /\ i \in Min(said)..n
      BY <2>2, <2>3
    <3> QED BY <1>2, <3>1
  <2>4. CASE i \in KeptRounds(h, wanted)
    <3> DEFINE rounds == IdentifyToolRounds(h)
    <3>1. rounds \in Seq(Rounds) /\ \A k \in 1..Len(rounds) : Pair(h, rounds[k], n)
      BY <1>1, RoundsArePairs
    <3>2. PICK k \in DOMAIN rounds :
            /\ i \in rounds[k].indices
            /\ ~IsComplete(rounds[k]) \/ rounds[k].indices \cap wanted # {}
      BY <2>4 DEF KeptRounds
    <3> HIDE DEF rounds
    <3>3. Pair(h, rounds[k], n)
      BY <3>1, <3>2
    <3>4. PICK a \in 1..(n - 1) : /\ rounds[k].indices = {a, a + 1}
                                  /\ ToolCalls(h[a]) # {} /\ ToolResults(h[a + 1]) # {}
      BY <3>3 DEF Pair
    <3>5. a \in 1..n /\ a + 1 \in 1..n /\ i \in {a, a + 1}
      BY <1>2, <3>2, <3>4
    <3>6. PICK b \in {a, a + 1} : b \in wanted
      BY <3>2, <3>3, <3>4 DEF Pair
    <3>7. h[b].role # "system"
      BY <1>3, <3>4, <3>5
    <3>8. said # {} /\ b \in Min(said)..n
      BY <3>6, <3>7
    <3>9. Min(said) \in said /\ Min(said) \in 1..n
      BY <1>2, <1>4, <3>8, MinIs
    <3>10. Min(said) # a + 1
      BY <1>4, <3>4, <3>9
    <3>11. Min(said) <= a
      BY <1>2, <3>4, <3>5, <3>6, <3>8, <3>9, <3>10
    <3> QED BY <1>2, <3>5, <3>8, <3>9, <3>11
  <2> QED BY <2>3, <2>4
<1>6. K \subseteq 1..n
  <2>1. wanted \subseteq 1..n
    <3>1. said # {} => Min(said) \in 1..n
      BY <1>2, <1>4, MinIs
    <3> QED BY <1>2, <3>1
  <2>2. KeptRounds(h, wanted) \subseteq 1..n
    <3> DEFINE rounds == IdentifyToolRounds(h)
    <3>1. rounds \in Seq(Rounds) /\ \A k \in 1..Len(rounds) : Pair(h, rounds[k], n)
      BY <1>1, RoundsArePairs
    <3> SUFFICES ASSUME NEW i \in KeptRounds(h, wanted) PROVE i \in 1..n
      OBVIOUS
    <3>2. PICK k \in DOMAIN rounds : i \in rounds[k].indices
      BY DEF KeptRounds
    <3> HIDE DEF rounds
    <3>3. Pair(h, rounds[k], n)
      BY <3>1, <3>2
    <3>4. PICK a \in 1..(n - 1) : rounds[k].indices = {a, a + 1}
      BY <3>3 DEF Pair
    <3> QED BY <1>2, <3>2, <3>4
  <2> QED BY <2>1, <2>2
<1> HIDE DEF K, wanted
<1>7. ASSUME NEW j \in 1..n, ToolResults(h[j]) # {} PROVE j \in C <=> j - 1 \in C
  <2>1. /\ j - 1 \in 1..n /\ ToolCalls(h[j - 1]) # {} /\ ToolResults(h[j - 1]) = {}
        /\ ToolCalls(h[j]) = {}
    BY <1>1, <1>7, ResultsBehindCalls
  <2>2. K \subseteq C
    BY DEF Completed
  <2>3. ASSUME NEW i \in K, HasToolResult(h[i]), CallsBefore(h, i) # {}
        PROVE  Max(CallsBefore(h, i)) = i - 1
    <3>1. i \in 1..n /\ ToolResults(h[i]) # {}
      BY <1>3, <1>6, <2>3
    <3> QED BY <3>1, LastCallsAre
  <2>4. ASSUME j - 1 \in C PROVE j \in C
    <3>1. CASE j - 1 \in K
      <4>1. j - 1 \in {k \in K : CountToolUses(h[k]) > 0}
        BY <1>3, <2>1, <3>1
      <4>2. j \in ResultsAfter(h, j - 1)
        BY <1>2, <1>3, <1>7, <2>1 DEF ResultsAfter
      <4> QED BY <4>1, <4>2 DEF Completed
    <3>2. CASE \E i \in K : HasToolResult(h[i]) /\ CallsBefore(h, i) # {} /\ j - 1 = Max(CallsBefore(h, i))
      <4>1. PICK i \in K : /\ HasToolResult(h[i]) /\ CallsBefore(h, i) # {}
                           /\ j - 1 = Max(CallsBefore(h, i))
        BY <3>2
      <4>2. j - 1 = i - 1 /\ i \in 1..n
        BY <1>6, <2>3, <4>1
      <4>3. j = i
        BY <1>2, <4>2
      <4> QED BY <2>2, <4>3
    <3>3. CASE \E i \in K : j - 1 \in ResultsAfter(h, i)
      BY <1>3, <2>1, <3>3 DEF ResultsAfter
    <3> QED BY <2>4, <3>1, <3>2, <3>3 DEF Completed
  <2>5. ASSUME j \in C PROVE j - 1 \in C
    <3>1. CASE j \in K
      <4>1. HasToolResult(h[j]) /\ CallsBefore(h, j) # {} /\ Max(CallsBefore(h, j)) = j - 1
        BY <1>3, <1>7, LastCallsAre
      <4> QED BY <3>1, <4>1 DEF Completed
    <3>2. CASE \E i \in K : HasToolResult(h[i]) /\ CallsBefore(h, i) # {} /\ j = Max(CallsBefore(h, i))
      <4>1. PICK i \in K : HasToolResult(h[i]) /\ CallsBefore(h, i) # {} /\ j = Max(CallsBefore(h, i))
        BY <3>2
      <4>2. j = i - 1 /\ i \in 1..n /\ ToolResults(h[i]) # {}
        BY <1>3, <1>6, <2>3, <4>1
      <4>3. ToolCalls(h[i - 1]) # {}
        BY <1>1, <4>2, ResultsBehindCalls
      <4> QED BY <2>1, <4>2, <4>3
    <3>3. CASE \E i \in K : CountToolUses(h[i]) > 0 /\ j \in ResultsAfter(h, i)
      <4>1. PICK i \in K : CountToolUses(h[i]) > 0 /\ j \in ResultsAfter(h, i)
        BY <3>3
      <4>2. i \in 1..n /\ ToolCalls(h[i]) # {}
        BY <1>3, <1>6, <4>1
      <4>3. j - 1 \in i..n
        BY <1>2, <4>1, <4>2, <2>1 DEF ResultsAfter
      <4>4. j - 1 \in K
        BY <1>5, <4>2, <4>3
      <4> QED BY <2>2, <4>4
    <3> QED BY <2>5, <3>1, <3>2, <3>3 DEF Completed
  <2> QED BY <2>4, <2>5
<1> HIDE DEF C
<1>8. TakesBoth(h, C)
  BY <1>7 DEF TakesBoth
<1>9. Selected(h, C) \in Compressible
  BY <1>8, SelectionCompressible
<1> QED BY <1>9 DEF TruncateMessagesAggressive, C, K, wanted, said

(* Taking text out of thoughts leaves the calls and results.                    *)
LEMMA ThoughtsShortened ==
  ASSUME NEW m \in AllMessages, m.role = "assistant"
  PROVE  LET k == [m EXCEPT !.content = [i \in DOMAIN m.content |-> CompressThought(m.content[i])]]
         IN  Reformed(m, k) /\ UseIds(k) = UseIds(m)
<1> DEFINE c == m.content
           d == [i \in DOMAIN c |-> CompressThought(c[i])]
           k == [m EXCEPT !.content = d]
<1>1. c \in Seq(AllBlocks)
  BY DEF AllMessages
<1>2. \A b \in AllBlocks : /\ CompressThought(b) \in AllBlocks
                           /\ CompressThought(b).type = b.type /\ CompressThought(b).id = b.id
  BY DEF CompressThought, AllBlocks, Texts
<1>3. d \in Seq(AllBlocks) /\ Len(d) = Len(c) /\ DOMAIN d = DOMAIN c
  BY <1>1, <1>2
<1>4. \A i \in DOMAIN c : d[i].type = c[i].type /\ d[i].id = c[i].id
  BY <1>1, <1>2
<1>5. c = <<>> => d = <<>>
  BY <1>1, <1>3
<1> HIDE DEF d
<1>6. k \in AllMessages
  BY <1>3, ContentReplaced, AnyMessages
<1>7. /\ k.role = m.role /\ k.tool_calls = m.tool_calls /\ k.tool_call_id = m.tool_call_id
      /\ k.content = d
  BY DEF AllMessages
<1> HIDE DEF k
<1>8. \A type : IdsIn(d, type) = IdsIn(c, type)
  BY <1>3, <1>4 DEF IdsIn
<1> DEFINE C == {i \in DOMAIN c : c[i].type = "tool_use"}
<1>9. C = {i \in DOMAIN d : d[i].type = "tool_use"}
  BY <1>3, <1>4
<1>10. UseIds(m) = [i \in DOMAIN Selected(c, C) |-> Selected(c, C)[i].id]
  BY DEF UseIds, Filtered
<1>11. UseIds(k) = [i \in DOMAIN Selected(d, C) |-> Selected(d, C)[i].id]
  BY <1>7, <1>9 DEF UseIds, Filtered
<1> HIDE DEF C
<1>12. \A i \in 1..Len(c) : i \in C => c[i].id = d[i].id
  BY <1>1, <1>4
<1>13. /\ Len(Selected(c, C)) = Len(Selected(d, C))
       /\ \A j \in DOMAIN Selected(c, C) : Selected(c, C)[j].id = Selected(d, C)[j].id
  <2> HIDE DEF c
  <2> QED BY <1>1, <1>3, <1>12, SelectedAlike
<1>14. Selected(c, C) \in Seq(AllBlocks) /\ Selected(d, C) \in Seq(AllBlocks)
  BY <1>1, <1>3, SelectedIs
<1>15. UseIds(k) = UseIds(m)
  <2> DEFINE v == Selected(c, C)
             w == Selected(d, C)
  <2>1. v \in Seq(AllBlocks) /\ w \in Seq(AllBlocks) /\ Len(v) = Len(w)
        /\ \A j \in DOMAIN v : v[j].id = w[j].id
    BY <1>13, <1>14
  <2>2. UseIds(m) = [i \in DOMAIN v |-> v[i].id] /\ UseIds(k) = [i \in DOMAIN w |-> w[i].id]
    BY <1>10, <1>11
  <2> HIDE DEF v, w
  <2>3. DOMAIN v = DOMAIN w
    BY <2>1
  <2> QED BY <2>1, <2>2, <2>3
<1>16. Reformed(m, k)
  BY <1>5, <1>6, <1>7, <1>8 DEF Reformed
<1> QED BY <1>15, <1>16 DEF k, d

LEMMA ThinkingKeeps ==
  ASSUME NEW h \in Compressible, NEW protected
  PROVE  CompressThinkingPreserveSignature(h, protected) \in Compressible
<1> DEFINE short(m) == [m EXCEPT !.content = [k \in DOMAIN m.content |-> CompressThought(m.content[k])]]
           u == CompressThinkingPreserveSignature(h, protected)
<1>1. h \in Seq(InsideMessages) /\ Whole(h, TRUE) /\ Distinct(h)
  BY DEF Compressible
<1>2. h \in Seq(AllMessages) /\ \A i \in DOMAIN h : h[i] \in AllMessages
  BY <1>1 DEF InsideMessages
<1>3. u \in Seq(AllMessages)
  BY <1>2, ThinkingCompressed
<1>4. DOMAIN u = DOMAIN h /\ \A i \in DOMAIN h : u[i] = h[i] \/ (h[i].role = "assistant" /\ u[i] = short(h[i]))
  BY DEF CompressThinkingPreserveSignature
<1>5. Len(u) = Len(h) /\ DOMAIN h = 1..Len(h)
  BY <1>2, <1>3, <1>4
<1> HIDE DEF u
<1>6. ASSUME NEW i \in 1..Len(h)
      PROVE  Reformed(h[i], u[i]) /\ UseIds(u[i]) = UseIds(h[i])
  <2>1. h[i] \in AllMessages
    BY <1>2, <1>5
  <2>2. CASE u[i] = h[i]
    BY <2>1, <2>2 DEF Reformed
  <2>3. CASE h[i].role = "assistant" /\ u[i] = short(h[i])
    BY <2>1, <2>3, ThoughtsShortened
  <2> QED BY <1>4, <1>5, <2>2, <2>3
<1>7. AllReformed(h, u)
  BY <1>5, <1>6 DEF AllReformed
<1>8. /\ u \in Seq(InsideMessages)
      /\ \A s, t : Leads(h, s, t) => Leads(u, s, t)
  <2>1. InsideMessages \in Forms
    BY DEF Forms
  <2> DEFINE M == InsideMessages
  <2> HIDE DEF M
  <2>2. M \in Forms /\ h \in Seq(M)
    BY <1>1, <2>1 DEF M
  <2>3. u \in Seq(M) /\ \A s, t : Leads(h, s, t) => Leads(u, s, t)
    BY <1>3, <1>7, <2>2, ReformedHistory
  <2> QED BY <2>3 DEF M
<1>9. Whole(u, TRUE)
  BY <1>1, <1>8 DEF Whole
<1>10. Distinct(u)
  BY <1>1, <1>5, <1>6 DEF Distinct
<1> QED BY <1>8, <1>9, <1>10 DEF Compressible, u

LEMMA PccKeeps ==
  ASSUME NEW h \in Compressible
  PROVE  Compressed(h) \in Compressible
<1>0. KeepRounds \in Nat /\ KeepRoundsLast \in Nat
  BY TruncationAssumption
<1>1. CompressToolResultsInMessages(h) = h
  <2>1. h \in Seq(InsideMessages)
    BY DEF Compressible
  <2>2. \A i \in DOMAIN h : h[i].role # "tool"
    BY <2>1 DEF InsideMessages, Inside
  <2> QED BY <2>1, <2>2 DEF CompressToolResultsInMessages, CompressToolResult
<1>2. FirstLayer(h) \in Compressible
  BY <1>0, TrimKeeps DEF FirstLayer
<1>3. SecondLayer(FirstLayer(h)) \in Compressible
  BY <1>2, ThinkingKeeps DEF SecondLayer
<1>4. ASSUME NEW u \in Compressible PROVE ThirdLayer(u) \in Compressible
  <2> DEFINE thoughts == CompressThinkingPreserveSignature(u, KeepThoughtsLast)
             rounds == IF Pressed(thoughts, Layer3) THEN TrimToolMessages(thoughts, KeepRoundsLast)
                       ELSE thoughts
  <2>1. thoughts \in Compressible
    BY ThinkingKeeps
  <2> HIDE DEF thoughts
  <2>2. rounds \in Compressible
    BY <1>0, <2>1, TrimKeeps
  <2> HIDE DEF rounds
  <2>3. TruncateMessagesAggressive(rounds) \in Compressible
    BY <2>2, AggressiveKeeps
  <2> QED BY <2>2, <2>3 DEF ThirdLayer, rounds, thoughts
<1>5. ThirdLayer(SecondLayer(FirstLayer(h))) \in Compressible
  BY <1>3, <1>4
<1>6. ApplyPccBeforeRequest(h) \in Compressible
  BY <1>1, <1>5 DEF ApplyPccBeforeRequest, ProgressiveContextCompression
<1> QED BY <1>6 DEF Compressed
-----------------------------------------------------------------------------
(* What a conversation is whose history is not merged with a kept one: whole,   *)
(* but for the calls that have come last, and those the client has not yet      *)
(* answered.  A client of the messages endpoint answers them in one message.    *)
Unmerged == client.kind # "stateful"
One == client.endpoint = "messages"
Raw == IF client.blocks THEN InsideMessages ELSE BesideMessages
Side == IF client.blocks THEN BesideMessages ELSE BareMessages
Ready == IF client.endpoint = "messages" THEN InsideMessages ELSE Side
CallsOf(m) == m.tool_calls \o UseIds(m)
MadeBy(n) == {CallId(t, k) : t \in 1..n, k \in 1..2}
Behind(open, n) == State(ToSet(open), MadeBy(n), One)
ChatWhole ==
    /\ chat \in Seq(Raw) /\ (One => Distinct(chat))
    /\ OpenCalls \in Seq(Nat) /\ Injective(OpenCalls)
    /\ stage = "idle" => Leads(chat, Start(One), Behind(OpenCalls, turns))
    /\ stage # "idle" => /\ Leads(chat, Start(One), Behind(<<>>, turns - 1))
                         /\ OpenCalls = <<>> /\ turns > 0
BodyWhole ==
    /\ stage \in {"arrived", "read"} =>
         /\ body \in Seq(Raw) /\ Whole(body, One)
         /\ One /\ ~Sanitized => Distinct(body)
    /\ stage \in {"ready", "sent"} => body \in Seq(Ready) /\ Whole(body, One)
KeptWhole == anchors \in [{Scid} -> Pins(Side)] /\ cache \in Seq(Entries(Histories(Side)))
SentWhole ==
    stage = "sent" /\ ~CallsGoWithThinking =>
      /\ Whole(sent, One)
      /\ client.endpoint = "messages" \/ ~client.blocks => \A i \in 1..Len(sent) : Guarded(sent[i])
Chained == Unmerged => ChatWhole /\ BodyWhole /\ KeptWhole /\ SentWhole

LEMMA OneIs ==
  ASSUME client \in Clients
  PROVE  /\ client.blocks \in BOOLEAN
         /\ client.endpoint = "messages" => One = TRUE /\ client.blocks = TRUE /\ Ready = InsideMessages
         /\ client.endpoint # "messages" => client.endpoint = "chat" /\ One = FALSE /\ Ready = Side
  BY PipelineAssumption DEF One, Ready

LEMMA SidesAre == Raw \in Forms /\ Side \in Forms /\ Side \in Sides
  BY DEF Raw, Side, Forms, Sides

LEMMA FormIs ==
  ASSUME NEW M \in Forms
  PROVE  M \subseteq AllMessages /\ Seq(M) \subseteq Seq(AllMessages)
<1>1. M \subseteq AllMessages
  BY DEF Forms, InsideMessages, BesideMessages, BareMessages
<1>2. \A h \in Seq(M) : h \in Seq(AllMessages)
  BY <1>1
<1> QED BY <1>1, <1>2

LEMMA LeadsOpen ==
  ASSUME NEW h, Len(h) \in Nat, NEW s, NEW t, Leads(h, s, t)
  PROVE  t.open \subseteq t.made
<1>1. PICK f : IsReading(h, s, t, f)
  BY DEF Leads
<1>2. Len(h) \in 0..Len(h)
  OBVIOUS
<1> QED BY <1>1, <1>2 DEF IsReading, Within

LEMMA LastOf ==
  ASSUME NEW S, NEW h \in Seq(S), NEW k \in Seq(S), k # <<>>
  PROVE  h \o k # <<>> /\ Last(h \o k) = k[Len(k)] /\ k[Len(k)] \in S /\ Len(k) \in 1..Len(k)
<1>1. Len(k) \in 1..Len(k) /\ k[Len(k)] \in S
  OBVIOUS
<1>2. h \o k \in Seq(S) /\ Len(h \o k) = Len(h) + Len(k) /\ (h \o k)[Len(h) + Len(k)] = k[Len(k)]
  BY <1>1
<1> DEFINE c == h \o k
<1>3. c \in Seq(S) /\ Len(c) = Len(h) + Len(k) /\ c[Len(c)] = k[Len(k)]
  BY <1>2
<1> HIDE DEF c
<1>4. Len(h) \in Nat /\ Len(k) \in Nat /\ Len(k) >= 1
  BY <1>1
<1>5. c # <<>>
  BY <1>3, <1>4
<1> QED BY <1>1, <1>3, <1>5 DEF Last, c

(* A message without calls and results inside.                                  *)
LEMMA NoCallsInside ==
  ASSUME NEW m \in AllMessages, \A i \in DOMAIN m.content : m.content[i].type \notin CallTypes
  PROVE  /\ UseIds(m) = <<>> /\ ResultIds(m) = <<>>
         /\ IdsIn(m.content, "tool_use") = {} /\ IdsIn(m.content, "tool_result") = {}
<1>1. IdsIn(m.content, "tool_use") = {} /\ IdsIn(m.content, "tool_result") = {}
  BY IdsOfNone DEF CallTypes
<1>2. ToSet(UseIds(m)) = {} /\ ToSet(ResultIds(m)) = {}
  BY <1>1, IdsListed
<1> QED BY <1>1, <1>2, IdsAre, NoneListed

LEMMA TextFits ==
  ASSUME NEW m \in AllMessages, \A i \in DOMAIN m.content : m.content[i].type \notin CallTypes,
         m.tool_calls = <<>>, m.tool_call_id = None, m.role # "tool"
  PROVE  m \in InsideMessages /\ m \in BesideMessages /\ IsPlain(m) /\ CallsOf(m) = <<>>
<1>1. /\ UseIds(m) = <<>> /\ ResultIds(m) = <<>>
      /\ IdsIn(m.content, "tool_use") = {} /\ IdsIn(m.content, "tool_result") = {}
  BY NoCallsInside
<1>2. ToSet(m.tool_calls) = {} /\ CallsOf(m) = <<>>
  <2>1. <<>> \o <<>> = <<>> /\ ToSet(<<>>) = {}
    BY DEF ToSet
  <2> QED BY <1>1, <2>1 DEF CallsOf
<1>3. IsPlain(m)
  BY <1>1, <1>2, CallsAndResults DEF IsPlain
<1>4. Injective(ResultIds(m)) /\ ResultIds(m) \in Seq(Nat)
  BY <1>1 DEF Injective
<1>5. m \in InsideMessages
  BY <1>1, <1>4 DEF InsideMessages, Inside
<1>6. m \in BesideMessages
  BY DEF BesideMessages, Beside, CallTypes
<1> QED BY <1>2, <1>3, <1>5, <1>6

(* The two ways to answer calls.                                                *)
LEMMA ResultsInside ==
  ASSUME NEW ids \in Seq(Nat), ids # <<>>, Injective(ids)
  PROVE  LET m == Message("user", [i \in DOMAIN ids |-> ToolResult(ids[i])])
         IN  /\ m \in InsideMessages /\ ToolCalls(m) = {} /\ ToolResults(m) = ToSet(ids)
             /\ CallsOf(m) = <<>>
<1> DEFINE c == [i \in DOMAIN ids |-> ToolResult(ids[i])]
           m == Message("user", c)
<1>1. ids \in Seq(Numbers)
  BY DEF Numbers
<1>2. \A id \in Numbers : ToolResult(id) \in AllBlocks
  BY BlocksAre, AnyMessages
<1>3. c \in Seq(AllBlocks) /\ Len(c) = Len(ids) /\ DOMAIN c = DOMAIN ids
  BY <1>1, <1>2
<1>4. \A i \in DOMAIN c : c[i].type = "tool_result" /\ c[i].id = ids[i]
  BY DEF ToolResult, Block
<1>5. IdsIn(c, "tool_result") = ToSet(ids) /\ IdsIn(c, "tool_use") = {}
  BY <1>1, IdsOfResults
<1> HIDE DEF c
<1>6. m \in AllMessages
  BY <1>3, MessageIs, AnyMessages
<1>7. /\ m.role = "user" /\ m.content = c /\ m.tool_calls = <<>> /\ m.tool_call_id = None
      /\ ToolCalls(m) = {} /\ ToolResults(m) = ToSet(ids)
  BY <1>5, MadeMessage DEF Message
<1> HIDE DEF m
<1>8. ResultIds(m) = ids
  <2> DEFINE C == {i \in DOMAIN c : c[i].type = "tool_result"}
  <2>1. \A i \in 1..Len(c) : i \in C
    BY <1>3, <1>4
  <2> HIDE DEF C
  <2>2. Selected(c, C) = c
    BY <1>3, <2>1, SelectedAll
  <2>3. ResultIds(m) = [i \in DOMAIN c |-> c[i].id]
    BY <1>7, <2>2 DEF ResultIds, Filtered, C
  <2> QED BY <1>3, <1>4, <2>3
<1>9. UseIds(m) = <<>>
  BY <1>5, <1>6, <1>7, IdsListed, IdsAre, NoneListed
<1>10. CallsOf(m) = <<>>
  BY <1>7, <1>9 DEF CallsOf
<1>11. m \in InsideMessages
  BY <1>4, <1>5, <1>6, <1>7, <1>8 DEF InsideMessages, Inside
<1> QED BY <1>7, <1>10, <1>11 DEF m, c

LEMMA AnswersBeside ==
  ASSUME NEW ids \in Seq(Nat)
  PROVE  LET a == [i \in DOMAIN ids |-> Answers(ids[i])]
         IN  a \in Seq(BesideMessages) /\ Len(a) = Len(ids) /\ \A i \in DOMAIN a : CallsOf(a[i]) = <<>>
<1> DEFINE a == [i \in DOMAIN ids |-> Answers(ids[i])]
<1>1. ASSUME NEW id \in Nat
      PROVE  Answers(id) \in BesideMessages /\ CallsOf(Answers(id)) = <<>>
  <2> DEFINE m == Answers(id)
  <2>1. m \in BareMessages
    BY AnswerKept
  <2>2. m.role = "tool"
    BY DEF Answers, Message
  <2> HIDE DEF m
  <2>3. m \in BesideMessages /\ m \in AllMessages
    BY <2>1 DEF BareMessages, BesideMessages
  <2>4. m.tool_calls = <<>> /\ \A i \in DOMAIN m.content : m.content[i].type \notin CallTypes
    BY <2>2, <2>3 DEF BesideMessages, Beside, CallTypes
  <2>5. UseIds(m) = <<>>
    BY <2>3, <2>4, NoCallsInside
  <2> QED BY <2>3, <2>4, <2>5 DEF m, CallsOf
<1>2. a \in Seq(BesideMessages) /\ Len(a) = Len(ids) /\ DOMAIN a = DOMAIN ids
  BY <1>1
<1>3. \A i \in DOMAIN a : CallsOf(a[i]) = <<>>
  BY <1>1
<1> QED BY <1>2, <1>3

LEMMA ChainsStart == Init => Chained
<1> SUFFICES ASSUME Init PROVE ChatWhole /\ BodyWhole /\ KeptWhole /\ SentWhole
  BY DEF Chained
<1>1. client \in Clients /\ turns = 0 /\ stage = "idle"
  BY DEF Init
<1> DEFINE m == Says("system", "definitions")
<1>2. m \in BesideMessages /\ IsPlain(m) /\ CallsOf(m) = <<>>
  <2>1. m \in AllMessages
    BY SaysIs DEF Texts, MessagesOf
  <2>2. /\ m.role = "system" /\ m.tool_calls = <<>> /\ m.tool_call_id = None
        /\ \A i \in DOMAIN m.content : m.content[i].type \notin CallTypes
    BY DEF Says, Message, Text, Block, CallTypes
  <2> HIDE DEF m
  <2> QED BY <2>1, <2>2, TextFits
<1> HIDE DEF m
<1>3. chat \in Seq(Raw) /\ AllPlain(chat) /\ OpenCalls = <<>> /\ Len(chat) \in Nat
  <2>1. CASE client.blocks
    <3>1. chat = <<>>
      BY <2>1 DEF Init
    <3> QED BY <3>1 DEF AllPlain, OpenCalls
  <2>2. CASE ~client.blocks
    <3>1. chat = <<m>>
      BY <2>2 DEF Init, m
    <3>2. Last(chat) = m /\ chat # <<>>
      BY <3>1 DEF Last
    <3>3. OpenCalls = <<>>
      BY <1>2, <3>2 DEF OpenCalls, CallsOf
    <3> QED BY <1>2, <2>2, <3>1, <3>3 DEF AllPlain, Raw
  <2> QED BY <2>1, <2>2
<1>4. Leads(chat, Start(One), Behind(<<>>, turns))
  <2> DEFINE s == Start(One)
             t == Behind(<<>>, turns)
  <2>1. s.open = {} /\ Within(s, s)
    BY DEF Start, State, Within
  <2>2. Within(s, t)
    BY DEF Start, State, Within, Behind, ToSet
  <2> HIDE DEF s, t
  <2>3. Leads(chat, s, s)
    BY <1>3, <2>1, PlainLeads
  <2>4. Leads(chat, s, t)
    BY <2>1, <2>2, <2>3, LeadsWeaker
  <2> QED BY <2>4 DEF s, t
<1>5. One => Distinct(chat)
  <2>1. SUFFICES ASSUME One PROVE chat = <<>>
    BY DEF Distinct
  <2>2. client.blocks = TRUE
    BY <1>1, <2>1, OneIs DEF One
  <2> QED BY <2>2 DEF Init
<1>6. ChatWhole
  BY <1>1, <1>3, <1>4, <1>5 DEF ChatWhole, Injective
<1>7. KeptWhole
  <2>1. <<>> \in Pins(Side)
    BY DEF Pins, AllPlain
  <2>2. anchors = [s \in {Scid} |-> <<>>] /\ cache = <<>>
    BY DEF Init
  <2> QED BY <2>1, <2>2 DEF KeptWhole
<1> QED BY <1>1, <1>6, <1>7 DEF BodyWhole, SentWhole
-----------------------------------------------------------------------------
LEMMA AskChained == ASSUME Typed, Chained, Ask PROVE Chained'
<1>1. /\ stage = "idle" /\ turns' = turns + 1 /\ stage' = "arrived" /\ body' = chat'
      /\ chat' = chat \o (IF OpenCalls # <<>> THEN Results ELSE <<Asked(turns + 1)>>)
      /\ client' = client /\ anchors' = anchors /\ cache' = cache
  BY DEF Ask, kept
<1>2. One' = One /\ Raw' = Raw /\ Side' = Side /\ Ready' = Ready /\ Unmerged' = Unmerged /\ Sanitized' = Sanitized
  BY <1>1 DEF One, Raw, Side, Ready, Unmerged, Sanitized
<1> SUFFICES ASSUME Unmerged PROVE ChatWhole' /\ BodyWhole' /\ KeptWhole' /\ SentWhole'
  BY <1>2 DEF Chained
<1>3. ChatWhole /\ KeptWhole
  BY DEF Chained
<1>4. turns \in Nat /\ client \in Clients
  BY PipelineAssumption DEF Typed
<1> DEFINE s == Behind(OpenCalls, turns)
           z == Behind(<<>>, turns)
           more == IF OpenCalls # <<>> THEN Results ELSE <<Asked(turns + 1)>>
<1>5. /\ s.open = ToSet(OpenCalls) /\ z.open = {} /\ s.made = z.made /\ s.one = One /\ z.one = One
      /\ z = State(s.open \ ToSet(OpenCalls), s.made, One)
  BY DEF Behind, State, ToSet
<1>6. Leads(chat, Start(One), s) /\ chat \in Seq(Raw) /\ OpenCalls \in Seq(Nat) /\ Injective(OpenCalls)
  BY <1>1, <1>3 DEF ChatWhole
<1>7. s.open \subseteq s.made
  BY <1>6, LeadsOpen
<1> HIDE DEF s, z
<1>8. /\ more \in Seq(Raw) /\ more # <<>> /\ Leads(more, s, z)
      /\ \A i \in DOMAIN more : CallsOf(more[i]) = <<>>
  <2>1. CASE OpenCalls = <<>>
    <3> DEFINE m == Asked(turns + 1)
    <3>1. m \in AllMessages
      BY <1>4, AskedIs
    <3>2. /\ m.role = "user" /\ m.tool_calls = <<>> /\ m.tool_call_id = None
          /\ \A i \in DOMAIN m.content : m.content[i].type \notin CallTypes
      BY DEF Asked, Message, Block, CallTypes
    <3> HIDE DEF m
    <3>3. m \in InsideMessages /\ m \in BesideMessages /\ IsPlain(m) /\ CallsOf(m) = <<>>
      BY <3>1, <3>2, TextFits
    <3>4. ToSet(OpenCalls) = {}
      BY <2>1 DEF ToSet
    <3>5. Turn(s, m, z)
      BY <1>5, <3>3, <3>4 DEF Turn, IsPlain
    <3>6. Leads(<<m>>, s, z)
      BY <1>7, <3>5, LeadsOne
    <3>7. more = <<m>>
      BY <2>1 DEF m
    <3>8. m \in Raw
      BY <3>3 DEF Raw
    <3> HIDE DEF more
    <3> QED BY <3>3, <3>6, <3>7, <3>8
  <2>2. CASE OpenCalls # <<>> /\ client.blocks
    <3> DEFINE m == Message("user", [i \in DOMAIN OpenCalls |-> ToolResult(OpenCalls[i])])
    <3>1. m \in InsideMessages /\ ToolCalls(m) = {} /\ ToolResults(m) = ToSet(OpenCalls) /\ CallsOf(m) = <<>>
      BY <1>6, <2>2, ResultsInside
    <3>2. more = <<m>>
      BY <2>2 DEF Results
    <3> HIDE DEF m, more
    <3>3. ToSet(OpenCalls) # {}
      BY <1>6, <2>2, NoneListed
    <3>4. Turn(s, m, z)
      BY <1>5, <3>1, <3>3 DEF Turn
    <3>5. Leads(<<m>>, s, z)
      BY <1>7, <3>4, LeadsOne
    <3>6. m \in Raw
      BY <2>2, <3>1 DEF Raw
    <3> QED BY <3>1, <3>2, <3>5, <3>6
  <2>3. CASE OpenCalls # <<>> /\ ~client.blocks
    <3> DEFINE a == [i \in DOMAIN OpenCalls |-> Answers(OpenCalls[i])]
    <3>1. One = FALSE
      BY <1>4, <2>3, OneIs
    <3>2. Leads(a, s, State(s.open \ ToSet(OpenCalls), s.made, FALSE))
      <4>1. ToSet(OpenCalls) \subseteq s.open /\ s.one = FALSE
        BY <1>5, <3>1
      <4> QED BY <1>6, <1>7, <4>1, AnswersLead
    <3>3. z = State(s.open \ ToSet(OpenCalls), s.made, FALSE)
      BY <1>5, <3>1
    <3>4. more = a
      BY <2>3 DEF Results
    <3>5. a \in Seq(BesideMessages) /\ Len(a) = Len(OpenCalls) /\ \A i \in DOMAIN a : CallsOf(a[i]) = <<>>
      BY <1>6, AnswersBeside
    <3> HIDE DEF a, more
    <3>6. a # <<>>
      BY <1>6, <2>3, <3>5
    <3>7. Raw = BesideMessages
      BY <2>3 DEF Raw
    <3> QED BY <3>2, <3>3, <3>4, <3>5, <3>6, <3>7
  <2> QED BY <2>1, <2>2, <2>3
<1>9. chat' = chat \o more
  BY <1>1
<1> HIDE DEF more
<1>10. chat' \in Seq(Raw) /\ Leads(chat', Start(One), z)
  BY <1>6, <1>8, <1>9, LeadsOn
<1>11. OpenCalls' = <<>>
  <2>1. chat' # <<>> /\ Last(chat') = more[Len(more)] /\ Len(more) \in 1..Len(more)
    BY <1>6, <1>8, <1>9, LastOf
  <2>2. CallsOf(Last(chat')) = <<>>
    BY <1>8, <2>1
  <2> QED BY <2>1, <2>2 DEF OpenCalls, CallsOf
<1>12. One => Distinct(chat')
  <2> SUFFICES ASSUME One, NEW i \in 1..Len(chat') PROVE Injective(UseIds(chat'[i]))
    BY DEF Distinct
  <2>1. Distinct(chat)
    BY <1>3 DEF ChatWhole
  <2>2. \/ i \in 1..Len(chat) /\ chat'[i] = chat[i]
        \/ i - Len(chat) \in DOMAIN more /\ chat'[i] = more[i - Len(chat)]
    BY <1>6, <1>8, <1>9
  <2>3. ASSUME NEW m, m \in Raw, CallsOf(m) = <<>> PROVE Injective(UseIds(m))
    <3>1. m \in AllMessages
      BY <2>3, SidesAre, FormIs
    <3>2. m.tool_calls \in Seq(Numbers) /\ UseIds(m) \in Seq(Numbers)
      BY <3>1, IdsAre DEF AllMessages
    <3>3. UseIds(m) = <<>>
      BY <2>3, <3>2 DEF CallsOf
    <3> QED BY <3>3 DEF Injective
  <2>4. i - Len(chat) \in DOMAIN more => more[i - Len(chat)] \in Raw /\ CallsOf(more[i - Len(chat)]) = <<>>
    BY <1>8
  <2> QED BY <2>1, <2>2, <2>3, <2>4 DEF Distinct
<1>13. turns' - 1 = turns /\ turns' > 0
  BY <1>1, <1>4
<1>14. z = Behind(<<>>, turns - 1)'
  BY <1>2, <1>13 DEF z, Behind
<1>15. ChatWhole'
  <2>1. Leads(chat', Start(One'), Behind(<<>>, turns - 1)')
    BY <1>2, <1>10, <1>14
  <2> QED BY <1>1, <1>2, <1>10, <1>11, <1>12, <1>13, <2>1 DEF ChatWhole, Injective
<1>16. Whole(chat', One)
  BY <1>5, <1>10 DEF Whole
<1>17. BodyWhole'
  BY <1>1, <1>2, <1>10, <1>12, <1>16 DEF BodyWhole
<1>18. KeptWhole'
  BY <1>1, <1>2, <1>3 DEF KeptWhole
<1> QED BY <1>1, <1>15, <1>17, <1>18 DEF SentWhole

LEMMA ForgetChained == ASSUME Typed, Chained, Forget PROVE Chained'
<1> DEFINE said == {i \in DOMAIN chat : chat[i].role = "user" /\ ToolResults(chat[i]) = {}}
           k == Max(said)
<1>1. /\ said # {} /\ chat' = SubSeq(chat, k, Len(chat))
      /\ stage = "idle" /\ stage' = stage /\ turns' = turns
      /\ client' = client /\ anchors' = anchors /\ cache' = cache
  BY DEF Forget, kept
<1>2. One' = One /\ Raw' = Raw /\ Side' = Side /\ Ready' = Ready /\ Unmerged' = Unmerged
  BY <1>1 DEF One, Raw, Side, Ready, Unmerged
<1> SUFFICES ASSUME Unmerged PROVE ChatWhole' /\ BodyWhole' /\ KeptWhole' /\ SentWhole'
  BY <1>2 DEF Chained
<1>3. ChatWhole /\ KeptWhole
  BY DEF Chained
<1>4. /\ Leads(chat, Start(One), Behind(OpenCalls, turns)) /\ chat \in Seq(Raw)
      /\ OpenCalls \in Seq(Nat) /\ Injective(OpenCalls)
      /\ One => Distinct(chat)
  BY <1>1, <1>3 DEF ChatWhole
<1>5. said \in SUBSET (1..Len(chat)) /\ Len(chat) \in Nat /\ \A i \in said : ToolResults(chat[i]) = {}
  BY <1>4
<1> HIDE DEF said
<1>6. k \in 1..Len(chat) /\ ToolResults(chat[k]) = {}
  BY <1>1, <1>5, MaxIs
<1> HIDE DEF k
<1>7. Leads(SubSeq(chat, k, Len(chat)), Start(One), Behind(OpenCalls, turns))
  <2>1. Start(One).one = One
    BY DEF Start, State
  <2>2. Leads(SubSeq(chat, k, Len(chat)), Start(Start(One).one), Behind(OpenCalls, turns))
    BY <1>4, <1>6, LeadsFrom
  <2> QED BY <2>1, <2>2
<1>8. /\ chat' \in Seq(Raw) /\ Len(chat') = Len(chat) - k + 1 /\ chat # <<>>
      /\ \A i \in 1..Len(chat') : i + k - 1 \in 1..Len(chat) /\ chat'[i] = chat[i + k - 1]
  BY <1>1, <1>4, <1>6
<1>9. OpenCalls' = OpenCalls
  <2>1. Len(chat') \in 1..Len(chat') /\ chat' # <<>> /\ Len(chat') + k - 1 = Len(chat)
    BY <1>5, <1>6, <1>8
  <2>2. Last(chat') = Last(chat)
    BY <1>8, <2>1 DEF Last
  <2> QED BY <1>8, <2>1, <2>2 DEF OpenCalls
<1>10. One => Distinct(chat')
  BY <1>4, <1>8 DEF Distinct
<1>11. Behind(OpenCalls, turns)' = Behind(OpenCalls, turns)
  BY <1>1, <1>2, <1>9 DEF Behind
<1>12. ChatWhole'
  <2>1. Leads(chat', Start(One'), Behind(OpenCalls, turns)')
    BY <1>1, <1>2, <1>7, <1>11
  <2> QED BY <1>1, <1>2, <1>4, <1>8, <1>9, <1>10, <2>1 DEF ChatWhole
<1>13. KeptWhole'
  BY <1>1, <1>2, <1>3 DEF KeptWhole
<1> QED BY <1>1, <1>12, <1>13 DEF BodyWhole, SentWhole

(* A step of the gateway leaves the conversation that the client has.           *)
LEMMA ChatStays ==
  ASSUME ChatWhole, client' = client, chat' = chat, turns' = turns, stage # "idle", turns \in Nat
  PROVE  ChatWhole'
<1>1. One' = One /\ Raw' = Raw /\ OpenCalls' = OpenCalls
  BY DEF One, Raw, OpenCalls
<1>2. /\ chat \in Seq(Raw) /\ (One => Distinct(chat)) /\ OpenCalls \in Seq(Nat) /\ Injective(OpenCalls)
      /\ Leads(chat, Start(One), Behind(<<>>, turns - 1)) /\ OpenCalls = <<>> /\ turns > 0
  BY DEF ChatWhole
<1>3. Behind(<<>>, turns - 1)' = Behind(<<>>, turns - 1)
  BY <1>1 DEF Behind
<1>4. Leads(chat, Start(One), Behind(OpenCalls, turns))
  <2> DEFINE s == Start(One)
             t == Behind(<<>>, turns - 1)
             u == Behind(OpenCalls, turns)
  <2>1. MadeBy(turns - 1) \subseteq MadeBy(turns)
    <3>1. 1..(turns - 1) \subseteq 1..turns
      OBVIOUS
    <3> QED BY <3>1 DEF MadeBy
  <2>2. Within(t, u) /\ Within(s, s)
    BY <1>2, <2>1 DEF Behind, State, Start, Within
  <2> HIDE DEF s, t, u
  <2>3. Leads(chat, s, u)
    BY <1>2, <2>2, LeadsWeaker DEF s, t
  <2> QED BY <2>3 DEF s, u
<1>5. Behind(OpenCalls, turns)' = Behind(OpenCalls, turns)
  BY <1>1 DEF Behind
<1>6. /\ Leads(chat', Start(One'), Behind(<<>>, turns - 1)')
      /\ Leads(chat', Start(One'), Behind(OpenCalls, turns)')
  BY <1>1, <1>2, <1>3, <1>4, <1>5
<1> QED BY <1>1, <1>2, <1>6 DEF ChatWhole
-----------------------------------------------------------------------------
LEMMA DispatchChained == ASSUME Typed, Chained, Dispatch PROVE Chained'
<1>1. /\ stage = "arrived" /\ stage' = "read" /\ turns' = turns /\ chat' = chat
      /\ client' = client /\ anchors' = anchors /\ cache' = cache
  BY DEF Dispatch, kept
<1>2. /\ One' = One /\ Raw' = Raw /\ Side' = Side /\ Ready' = Ready /\ Unmerged' = Unmerged
      /\ Sanitized' = Sanitized
  BY <1>1 DEF One, Raw, Side, Ready, Unmerged, Sanitized
<1> SUFFICES ASSUME Unmerged PROVE ChatWhole' /\ BodyWhole' /\ KeptWhole' /\ SentWhole'
  BY <1>2 DEF Chained
<1>3. ChatWhole /\ KeptWhole /\ BodyWhole
  BY DEF Chained
<1>4. turns \in Nat
  BY PipelineAssumption DEF Typed
<1>5. body \in Seq(Raw) /\ Whole(body, One) /\ (One /\ ~Sanitized => Distinct(body))
  BY <1>1, <1>3 DEF BodyWhole
<1>6. CASE Sanitized
  <2>1. \/ body' = body
        \/ \E caches \in KnownCaches, thinking \in BOOLEAN :
             body' = Sanitize(body, thinking, None, caches).messages
    BY DEF Dispatch
  <2>2. ASSUME NEW caches \in KnownCaches, NEW thinking \in BOOLEAN
        PROVE  LET u == Sanitize(body, thinking, None, caches).messages
               IN  u \in Seq(Raw) /\ Whole(u, One)
    <3>1. caches \in Caches /\ Raw \in Forms
      BY PipelineAssumption, SidesAre
    <3> QED BY <1>5, <3>1, SanitizeKeeps
  <2>3. body' \in Seq(Raw) /\ Whole(body', One)
    BY <1>5, <2>1, <2>2
  <2>4. BodyWhole'
    BY <1>1, <1>2, <1>6, <2>3 DEF BodyWhole
  <2>5. ChatWhole'
    BY <1>1, <1>3, <1>4, ChatStays
  <2>6. KeptWhole'
    BY <1>1, <1>2, <1>3 DEF KeptWhole
  <2> QED BY <1>1, <2>4, <2>5, <2>6 DEF SentWhole
<1>7. CASE ~Sanitized
  <2>1. body' = body
    BY <1>7 DEF Dispatch
  <2>2. BodyWhole'
    BY <1>1, <1>2, <1>5, <2>1 DEF BodyWhole
  <2>3. ChatWhole'
    BY <1>1, <1>3, <1>4, ChatStays
  <2>4. KeptWhole'
    BY <1>1, <1>2, <1>3 DEF KeptWhole
  <2> QED BY <1>1, <2>2, <2>3, <2>4 DEF SentWhole
<1> QED BY <1>6, <1>7

(* Whoever is not merged has a whole history after the endpoint's repair.       *)
LEMMA AppliedKeeps ==
  ASSUME client.kind # "stateful", NEW M \in Forms, NEW h \in Seq(M), NEW one, Whole(h, one),
         NEW caches \in Caches
  PROVE  LET u == ApplyScidAndSanitization(h, caches) IN u \in Seq(M) /\ Whole(u, one)
<1>1. CASE client.kind = "claude_code"
  <2>1. ApplyScidAndSanitization(h, caches) = RecoverSignaturesForClaudeCode(h, FALSE, caches).messages
    BY <1>1 DEF ApplyScidAndSanitization
  <2>2. FALSE \in BOOLEAN
    OBVIOUS
  <2> QED BY <2>1, <2>2, RecoveredKeeps
<1>2. CASE client.kind = "stateless"
  <2>1. ApplyScidAndSanitization(h, caches) = Prepare(h, <<>>, None, FALSE, caches)
    BY <1>2 DEF ApplyScidAndSanitization
  <2>2. FALSE \in BOOLEAN
    OBVIOUS
  <2> QED BY <2>1, <2>2, PreparedKeeps
<1>3. CASE client.kind \notin {"claude_code", "stateful", "stateless"}
  BY <1>3 DEF ApplyScidAndSanitization
<1> QED BY <1>1, <1>2, <1>3

LEMMA ChatChained == ASSUME Typed, Chained, ChatCompletions PROVE Chained'
<1> DEFINE normalized == NormalizeMessages(body)
<1>1. /\ client.endpoint = "chat" /\ stage = "read" /\ stage' = "ready" /\ turns' = turns /\ chat' = chat
      /\ client' = client
  BY DEF ChatCompletions
<1>2. PICK caches \in KnownCaches :
        LET h == ApplyScidAndSanitization(normalized, caches)
            stored == StoreFullHistory(anchors, cache, Scid, h)
        IN  IF client.kind = "claude_code"
            THEN body' = h /\ UNCHANGED <<anchors, cache>>
            ELSE /\ anchors' = stored.anchors /\ cache' = stored.cache
                 /\ body' = SelectForBackend(stored.anchors, stored.cache, Scid, SelectLimit(h))
  BY DEF ChatCompletions
<1> DEFINE h == ApplyScidAndSanitization(normalized, caches)
           stored == StoreFullHistory(anchors, cache, Scid, h)
<1>3. /\ One' = One /\ Raw' = Raw /\ Side' = Side /\ Ready' = Ready /\ Unmerged' = Unmerged
      /\ Sanitized' = Sanitized
  BY <1>1 DEF One, Raw, Side, Ready, Unmerged, Sanitized
<1> SUFFICES ASSUME Unmerged PROVE ChatWhole' /\ BodyWhole' /\ KeptWhole' /\ SentWhole'
  BY <1>3 DEF Chained
<1>4. ChatWhole /\ KeptWhole /\ BodyWhole
  BY DEF Chained
<1>5. turns \in Nat /\ client \in Clients /\ caches \in Caches
  BY PipelineAssumption DEF Typed
<1>6. One = FALSE /\ client.blocks \in BOOLEAN /\ Ready = Side
  BY <1>1, <1>5, OneIs
<1>7. body \in Seq(Raw) /\ Whole(body, FALSE)
  <2>1. body \in Seq(Raw) /\ Whole(body, One)
    BY <1>1, <1>4 DEF BodyWhole
  <2> QED BY <1>6, <2>1
<1>8. normalized \in Seq(Side) /\ Whole(normalized, FALSE)
  <2> DEFINE blocks == client.blocks
  <2>1. /\ Raw = IF blocks THEN InsideMessages ELSE BesideMessages
        /\ Side = IF blocks THEN BesideMessages ELSE BareMessages
    BY DEF Raw, Side
  <2>2. blocks \in BOOLEAN
    BY <1>6
  <2> HIDE DEF blocks
  <2>3. body \in Seq(IF blocks THEN InsideMessages ELSE BesideMessages)
    BY <1>7, <2>1
  <2>4. /\ NormalizeMessages(body) \in Seq(IF blocks THEN BesideMessages ELSE BareMessages)
        /\ Whole(NormalizeMessages(body), FALSE)
    BY <1>7, <2>2, <2>3, NormalizeKeeps
  <2> QED BY <2>1, <2>4
<1> HIDE DEF normalized
<1>9. h \in Histories(Side)
  <2>1. client.kind # "stateful"
    BY DEF Unmerged
  <2>2. h \in Seq(Side) /\ Whole(h, FALSE)
    BY <1>5, <1>8, <2>1, SidesAre, AppliedKeeps
  <2> HIDE DEF h
  <2> QED BY <2>2 DEF Histories
<1> HIDE DEF h
<1>10. stored.anchors \in [{Scid} -> Pins(Side)] /\ stored.cache \in Seq(Entries(Histories(Side)))
  BY <1>4, <1>9, SidesAre, HistoryKept DEF KeptWhole
<1> HIDE DEF stored
<1> DEFINE selected == SelectForBackend(stored.anchors, stored.cache, Scid, SelectLimit(h))
<1>11. selected \in Histories(Side)
  <2>1. SelectLimit(h) \in Nat
    BY PipelineAssumption DEF SelectLimit
  <2> QED BY <1>10, <2>1, SidesAre, SelectionKeeps
<1>12. /\ body' \in {h, selected}
       /\ anchors' \in {anchors, stored.anchors} /\ cache' \in {cache, stored.cache}
  BY <1>2 DEF h, stored
<1> HIDE DEF selected
<1>13. body' \in Seq(Side) /\ Whole(body', FALSE)
  <2>1. body' \in Histories(Side)
    BY <1>9, <1>11, <1>12
  <2> QED BY <2>1 DEF Histories
<1>14. KeptWhole'
  <2>1. anchors' \in [{Scid} -> Pins(Side)] /\ cache' \in Seq(Entries(Histories(Side)))
    BY <1>4, <1>10, <1>12 DEF KeptWhole
  <2> QED BY <1>3, <2>1 DEF KeptWhole
<1>15. Whole(body', One)
  BY <1>6, <1>13
<1>16. BodyWhole'
  BY <1>1, <1>3, <1>6, <1>13, <1>15 DEF BodyWhole
<1>17. ChatWhole'
  BY <1>1, <1>4, <1>5, ChatStays
<1> QED BY <1>1, <1>14, <1>16, <1>17 DEF SentWhole

LEMMA MessagesChained == ASSUME Typed, Chained, AnthropicMessages PROVE Chained'
<1>1. /\ client.endpoint = "messages" /\ stage = "read" /\ stage' = "ready" /\ body' = Compressed(body)
      /\ turns' = turns /\ chat' = chat /\ client' = client /\ anchors' = anchors /\ cache' = cache
  BY DEF AnthropicMessages, kept
<1>2. /\ One' = One /\ Raw' = Raw /\ Side' = Side /\ Ready' = Ready /\ Unmerged' = Unmerged
      /\ Sanitized' = Sanitized
  BY <1>1 DEF One, Raw, Side, Ready, Unmerged, Sanitized
<1> SUFFICES ASSUME Unmerged PROVE ChatWhole' /\ BodyWhole' /\ KeptWhole' /\ SentWhole'
  BY <1>2 DEF Chained
<1>3. ChatWhole /\ KeptWhole /\ BodyWhole
  BY DEF Chained
<1>4. turns \in Nat /\ client \in Clients
  BY PipelineAssumption DEF Typed
<1>5. One = TRUE /\ Ready = InsideMessages /\ Raw = InsideMessages
  BY <1>1, <1>4, OneIs DEF Raw
<1>6. body \in Seq(InsideMessages) /\ Whole(body, TRUE) /\ (~Sanitized => Distinct(body))
  <2>1. body \in Seq(Raw) /\ Whole(body, One) /\ (One /\ ~Sanitized => Distinct(body))
    BY <1>1, <1>3 DEF BodyWhole
  <2> QED BY <1>5, <2>1
<1>7. body' \in Seq(InsideMessages) /\ Whole(body', TRUE)
  <2>1. CASE client.kind = "undetected"
    <3>1. ~Sanitized
      BY <2>1 DEF Sanitized
    <3>2. body \in Compressible
      BY <1>6, <3>1 DEF Compressible
    <3>3. body' \in Compressible
      BY <1>1, <3>2, PccKeeps
    <3> QED BY <3>3 DEF Compressible
  <2>2. CASE client.kind # "undetected"
    BY <1>1, <1>6, <2>2 DEF Compressed
  <2> QED BY <2>1, <2>2
<1>8. Whole(body', One)
  BY <1>5, <1>7
<1>9. BodyWhole'
  BY <1>1, <1>2, <1>5, <1>7, <1>8 DEF BodyWhole
<1>10. ChatWhole'
  BY <1>1, <1>3, <1>4, ChatStays
<1>11. KeptWhole'
  BY <1>1, <1>2, <1>3 DEF KeptWhole
<1> QED BY <1>1, <1>9, <1>10, <1>11 DEF SentWhole

LEMMA SendChained == ASSUME Typed, Chained, Send PROVE Chained'
<1>1. /\ stage = "ready" /\ stage' = "sent" /\ attempt' = 0
      /\ \/ sent' = body
         \/ client.endpoint = "chat" /\ sent' = ConvertOpenaiToAnthropic(body)
      /\ client' = client /\ turns' = turns /\ chat' = chat /\ body' = body
      /\ anchors' = anchors /\ cache' = cache
  BY DEF Send, kept
<1>2. /\ One' = One /\ Raw' = Raw /\ Side' = Side /\ Ready' = Ready /\ Unmerged' = Unmerged
      /\ Sanitized' = Sanitized
  BY <1>1 DEF One, Raw, Side, Ready, Unmerged, Sanitized
<1> SUFFICES ASSUME Unmerged PROVE ChatWhole' /\ BodyWhole' /\ KeptWhole' /\ SentWhole'
  BY <1>2 DEF Chained
<1>3. ChatWhole /\ KeptWhole /\ BodyWhole
  BY DEF Chained
<1>4. turns \in Nat /\ client \in Clients
  BY PipelineAssumption DEF Typed
<1>5. body \in Seq(Ready) /\ Whole(body, One)
  BY <1>1, <1>3 DEF BodyWhole
<1>6. \/ client.endpoint = "messages" /\ Ready = InsideMessages
      \/ client.endpoint = "chat" /\ One = FALSE /\ Ready = Side
  BY <1>4, OneIs
<1>7. ASSUME sent' = body PROVE SentWhole'
  <2>1. Whole(sent', One)
    BY <1>5, <1>7
  <2>2. ASSUME client.endpoint = "messages" \/ ~client.blocks
        PROVE  \A i \in 1..Len(sent') : Guarded(sent'[i])
    <3>1. \A i \in 1..Len(body) : body[i] \in Ready
      BY <1>5
    <3>2. Ready \in {InsideMessages, BareMessages}
      BY <1>6, <2>2 DEF Side
    <3> QED BY <1>7, <3>1, <3>2, InsideGuarded, BareGuarded
  <2> QED BY <1>1, <1>2, <2>1, <2>2 DEF SentWhole
<1>8. ASSUME client.endpoint = "chat", sent' = ConvertOpenaiToAnthropic(body) PROVE SentWhole'
  <2>1. One = FALSE /\ Ready = Side
    BY <1>6, <1>8
  <2>2. body \in Seq(BesideMessages) /\ Whole(body, FALSE)
    <3>1. Side \subseteq BesideMessages
      BY DEF Side, BareMessages
    <3>2. \A h \in Seq(Side) : h \in Seq(BesideMessages)
      BY <3>1
    <3>3. Whole(body, FALSE)
      BY <1>5, <2>1
    <3> QED BY <1>5, <2>1, <3>2, <3>3
  <2>3. Whole(sent', FALSE)
    BY <1>8, <2>2, ConvertKeeps
  <2>4. Whole(sent', One)
    BY <2>1, <2>3
  <2>5. sent' \in Seq(MessagesOf(PlainBlocks))
    BY <1>8, Converted DEF Typed
  <2>6. \A i \in 1..Len(sent') : Guarded(sent'[i])
    BY <2>5, PlainGuarded
  <2> QED BY <1>1, <1>2, <2>4, <2>6 DEF SentWhole
<1>9. SentWhole'
  BY <1>1, <1>7, <1>8
<1>10. BodyWhole'
  BY <1>1, <1>2, <1>5 DEF BodyWhole
<1>11. ChatWhole'
  BY <1>1, <1>3, <1>4, ChatStays
<1>12. KeptWhole'
  BY <1>1, <1>2, <1>3 DEF KeptWhole
<1> QED BY <1>9, <1>10, <1>11, <1>12

LEMMA RefuseChained == ASSUME Typed, Chained, RefuseSignature PROVE Chained'
<1>1. /\ stage = "sent" /\ stage' = "sent" /\ attempt' = attempt + 1
      /\ sent' = PrepareSignatureRetryBody(sent)
      /\ client' = client /\ turns' = turns /\ chat' = chat /\ body' = body
      /\ anchors' = anchors /\ cache' = cache
  BY DEF RefuseSignature, kept
<1>2. /\ One' = One /\ Raw' = Raw /\ Side' = Side /\ Ready' = Ready /\ Unmerged' = Unmerged
      /\ Sanitized' = Sanitized
  BY <1>1 DEF One, Raw, Side, Ready, Unmerged, Sanitized
<1> SUFFICES ASSUME Unmerged PROVE ChatWhole' /\ BodyWhole' /\ KeptWhole' /\ SentWhole'
  BY <1>2 DEF Chained
<1>3. ChatWhole /\ KeptWhole /\ BodyWhole /\ SentWhole
  BY DEF Chained
<1>4. turns \in Nat /\ client \in Clients /\ sent \in Seq(AllMessages) /\ attempt' > 0
  <2>1. attempt \in Nat /\ attempt + 1 > 0
    BY PipelineAssumption DEF Typed
  <2> QED BY <1>1, <2>1, PipelineAssumption DEF Typed
<1>5. SentWhole'
  <2>1. CASE client.endpoint = "chat" /\ client.blocks
    BY <1>1, <1>4, <2>1 DEF SentWhole, CallsGoWithThinking
  <2>2. CASE ~(client.endpoint = "chat" /\ client.blocks)
    <3>1. ~CallsGoWithThinking /\ (client.endpoint = "messages" \/ ~client.blocks)
      BY <1>4, <2>2, OneIs DEF CallsGoWithThinking
    <3>2. Whole(sent, One) /\ \A i \in 1..Len(sent) : Guarded(sent[i])
      BY <1>1, <1>3, <3>1 DEF SentWhole
    <3>3. Whole(sent', One) /\ \A i \in 1..Len(sent') : Guarded(sent'[i])
      BY <1>1, <1>4, <3>2, RetryKeeps
    <3> QED BY <1>1, <1>2, <3>3 DEF SentWhole
  <2> QED BY <2>1, <2>2
<1>6. BodyWhole'
  BY <1>1, <1>2, <1>3 DEF BodyWhole
<1>7. ChatWhole'
  BY <1>1, <1>3, <1>4, ChatStays
<1>8. KeptWhole'
  BY <1>1, <1>2, <1>3 DEF KeptWhole
<1> QED BY <1>5, <1>6, <1>7, <1>8

LEMMA FailsChained == ASSUME Typed, Chained, BackendFails PROVE Chained'
<1>1. /\ stage = "sent" /\ client' = client /\ turns' = turns /\ chat' = chat
      /\ anchors' = anchors /\ cache' = cache
      /\ \/ stage' = "ready" /\ body' = body
         \/ stage' = "idle"
  BY DEF BackendFails, Done, kept
<1>2. /\ One' = One /\ Raw' = Raw /\ Side' = Side /\ Ready' = Ready /\ Unmerged' = Unmerged
      /\ Sanitized' = Sanitized
  BY <1>1 DEF One, Raw, Side, Ready, Unmerged, Sanitized
<1> SUFFICES ASSUME Unmerged PROVE ChatWhole' /\ BodyWhole' /\ KeptWhole' /\ SentWhole'
  BY <1>2 DEF Chained
<1>3. ChatWhole /\ KeptWhole /\ BodyWhole
  BY DEF Chained
<1>4. turns \in Nat
  BY PipelineAssumption DEF Typed
<1>5. BodyWhole'
  BY <1>1, <1>2, <1>3 DEF BodyWhole
<1>6. ChatWhole'
  BY <1>1, <1>3, <1>4, ChatStays
<1>7. KeptWhole'
  BY <1>1, <1>2, <1>3 DEF KeptWhole
<1> QED BY <1>1, <1>5, <1>6, <1>7 DEF SentWhole

(* The answer as the client has it makes new calls or none.                     *)
LEMMA AnswerFits ==
  ASSUME NEW m \in AllMessages, m.role = "assistant", m.tool_call_id = None,
         \A i \in DOMAIN m.content : m.content[i].type \notin CallTypes, m.tool_calls \in Seq(Nat),
         Injective(m.tool_calls)
  PROVE  LET k == AsClientHasIt(m)
         IN  /\ k \in Raw /\ CallsOf(k) = m.tool_calls /\ Injective(UseIds(k))
             /\ ToolCalls(k) = ToSet(m.tool_calls) /\ ToolResults(k) = {}
<1> DEFINE ids == m.tool_calls
           uses == [i \in DOMAIN ids |-> ToolUse(ids[i], None)]
           c == m.content
<1>1. c \in Seq(AllBlocks) /\ ids \in Seq(Numbers) /\ ids \in Seq(Nat) /\ Injective(ids)
  BY DEF AllMessages
<1>2. UseIds(m) = <<>> /\ ResultIds(m) = <<>>
      /\ IdsIn(c, "tool_use") = {} /\ IdsIn(c, "tool_result") = {}
  BY NoCallsInside
<1>3. ToolCalls(m) = ToSet(ids) /\ ToolResults(m) = {}
  BY <1>2, CallsAndResults
<1>4. CallsOf(m) = ids
  BY <1>1, <1>2 DEF CallsOf
<1>5. Injective(UseIds(m))
  BY <1>2 DEF Injective
<1>6. CASE ~client.blocks
  <2>1. m \in BesideMessages
    BY DEF BesideMessages, Beside, CallTypes
  <2>2. AsClientHasIt(m) = m /\ m \in Raw
    BY <1>6, <2>1 DEF AsClientHasIt, Raw
  <2> QED BY <1>3, <1>4, <1>5, <2>2
<1>7. CASE client.blocks /\ ids = <<>>
  <2>1. m \in InsideMessages
    BY <1>7, TextFits
  <2>2. AsClientHasIt(m) = m /\ m \in Raw
    BY <1>7, <2>1 DEF AsClientHasIt, Raw
  <2> QED BY <1>3, <1>4, <1>5, <2>2
<1>8. CASE client.blocks /\ ids # <<>>
  <2> HIDE DEF c, ids
  <2>1. \A id \in Numbers : ToolUse(id, None) \in AllBlocks
    BY BlocksAre, AnyMessages
  <2>2. uses \in Seq(AllBlocks) /\ Len(uses) = Len(ids) /\ DOMAIN uses = DOMAIN ids
    <3>1. \A i \in DOMAIN ids : ToolUse(ids[i], None) \in AllBlocks
      BY <1>1, <2>1
    <3>2. DOMAIN ids = 1..Len(ids) /\ Len(ids) \in Nat
      BY <1>1
    <3>3. DOMAIN uses = 1..Len(ids) /\ uses = [i \in 1..Len(ids) |-> uses[i]]
      BY <3>2
    <3>4. \A i \in 1..Len(ids) : uses[i] \in AllBlocks
      BY <3>1, <3>2
    <3> HIDE DEF uses
    <3> QED BY <3>2, <3>3, <3>4
  <2>3. \A i \in DOMAIN uses : uses[i].type = "tool_use" /\ uses[i].id = ids[i]
    BY DEF ToolUse, Block
  <2>4. IdsIn(uses, "tool_use") = ToSet(ids) /\ IdsIn(uses, "tool_result") = {}
    BY <1>1, IdsOfUses
  <2> HIDE DEF uses
  <2> DEFINE d == c \o uses
             k == Message("assistant", d)
  <2>5. /\ d \in Seq(AllBlocks) /\ Len(d) = Len(c) + Len(uses)
        /\ \A i \in 1..Len(c) : d[i] = c[i]
        /\ \A i \in 1..Len(uses) : d[Len(c) + i] = uses[i]
    <3>1. c \in Seq(AllBlocks) /\ uses \in Seq(AllBlocks)
      BY <1>1, <2>2
    <3> QED BY <3>1
  <2>6. IdsIn(d, "tool_use") = ToSet(ids) /\ IdsIn(d, "tool_result") = {}
    <3>1. \A type : IdsIn(d, type) = IdsIn(c, type) \cup IdsIn(uses, type)
      BY <1>1, <2>2, IdsJoined
    <3> QED BY <1>2, <2>4, <3>1
  <2> DEFINE C == {i \in DOMAIN d : d[i].type = "tool_use"}
  <2>7. \A i \in 1..Len(d) : i \in C <=> i > Len(c)
    <3> SUFFICES ASSUME NEW i \in 1..Len(d) PROVE d[i].type = "tool_use" <=> i > Len(c)
      BY <2>5
    <3>1. CASE i <= Len(c)
      <4>1. i \in 1..Len(c) /\ i \in DOMAIN c /\ d[i] = c[i] /\ ~(i > Len(c))
        BY <1>1, <2>5, <3>1
      <4>2. c[i].type # "tool_use"
        BY <4>1 DEF CallTypes, c
      <4> QED BY <4>1, <4>2
    <3>2. CASE i > Len(c)
      <4>1. i - Len(c) \in 1..Len(uses) /\ Len(c) + (i - Len(c)) = i
        BY <1>1, <2>2, <2>5, <3>2
      <4>2. d[i] = uses[i - Len(c)] /\ i - Len(c) \in DOMAIN uses
        BY <2>2, <2>5, <4>1
      <4> QED BY <2>3, <3>2, <4>2
    <3> QED BY <1>1, <2>5, <3>1, <3>2
  <2> HIDE DEF d
  <2>8. k \in AllMessages
    BY <2>5, MessageIs, AnyMessages
  <2>9. /\ k.role = "assistant" /\ k.content = d /\ k.tool_calls = <<>> /\ k.tool_call_id = None
        /\ ToolCalls(k) = ToSet(ids) /\ ToolResults(k) = {}
    BY <2>6, MadeMessage DEF Message
  <2> HIDE DEF k
  <2>10. UseIds(k) = ids
    <3>1. UseIds(k) = [i \in DOMAIN Selected(d, C) |-> Selected(d, C)[i].id]
      BY <2>9 DEF UseIds, Filtered
    <3> HIDE DEF C
    <3>2. Len(c) \in 0..Len(d)
      BY <1>1, <2>2, <2>5
    <3>3. Selected(d, C) = SubSeq(d, Len(c) + 1, Len(d))
      BY <2>5, <2>7, <3>2, SelectedTail
    <3>4. SubSeq(d, Len(c) + 1, Len(d)) = uses
      <4>1. Len(c) \in Nat /\ Len(uses) \in Nat /\ uses \in Seq(AllBlocks)
        BY <1>1, <2>2
      <4> DEFINE v == SubSeq(d, Len(c) + 1, Len(d))
      <4>2. v \in Seq(AllBlocks) /\ Len(v) = Len(uses)
        BY <2>5, <4>1
      <4>3. \A i \in 1..Len(uses) : v[i] = d[Len(c) + i]
        BY <2>5, <4>1
      <4> HIDE DEF v
      <4>4. \A i \in 1..Len(uses) : v[i] = uses[i]
        BY <2>5, <4>3
      <4>5. v = uses
        BY <4>1, <4>2, <4>4
      <4> QED BY <4>5 DEF v
    <3>5. UseIds(k) = [i \in DOMAIN uses |-> uses[i].id]
      BY <3>1, <3>3, <3>4
    <3>6. UseIds(k) = [i \in DOMAIN ids |-> ids[i]]
      BY <2>2, <2>3, <3>5
    <3> QED BY <1>1, <3>6
  <2>11. CallsOf(k) = ids
    BY <1>1, <2>9, <2>10 DEF CallsOf
  <2>12. ResultIds(k) = <<>>
    BY <2>6, <2>8, <2>9, IdsListed, IdsAre, NoneListed
  <2>13. k \in InsideMessages
    <3>1. Injective(ResultIds(k)) /\ ResultIds(k) \in Seq(Nat)
      BY <2>12 DEF Injective
    <3> QED BY <2>6, <2>8, <2>9, <3>1 DEF InsideMessages, Inside
  <2>14. AsClientHasIt(m) = k /\ k \in Raw
    BY <1>8, <2>13 DEF AsClientHasIt, Raw, k, d, c, uses, ids
  <2> QED BY <1>1, <2>9, <2>10, <2>11, <2>14 DEF ids
<1> QED BY <1>6, <1>7, <1>8

(* What is recorded of an answer, with the signatures that the client has left. *)
WithLeft(m, left) ==
    [m EXCEPT !.content =
       [i \in DOMAIN m.content |->
          IF IsThinking(m.content[i]) THEN [m.content[i] EXCEPT !.sig = left] ELSE m.content[i]]]

LEMMA AnswerShape ==
  ASSUME NEW sig \in Real \cup {None}, NEW left \in Signatures \cup {None}, NEW ids \in Seq(Nat),
         turns \in Nat
  PROVE  LET k == WithLeft(Recorded(Thought(sig), ids), left)
         IN  /\ k \in AllMessages /\ k.role = "assistant" /\ k.tool_call_id = None
             /\ \A i \in DOMAIN k.content : k.content[i].type \notin CallTypes
             /\ k.tool_calls = ids
<1> DEFINE m == Recorded(Thought(sig), ids)
           f(b) == IF IsThinking(b) THEN [b EXCEPT !.sig = left] ELSE b
           d == [i \in DOMAIN m.content |-> f(m.content[i])]
           k == [m EXCEPT !.content = d]
<1>1. ids \in Seq(Numbers)
  BY DEF Numbers
<1>2. m \in AllMessages
  BY <1>1, RecordedIs
<1>3. m.role = "assistant" /\ m.tool_call_id = None
  BY DEF Recorded, Message, Calls
<1>4. \A i \in DOMAIN m.content : m.content[i].type \notin CallTypes
  <2> DEFINE t == Thought(sig)
             b == Block("text", "answer", turns, None)
  <2> DEFINE a == Thinking("thought", sig)
  <2>1. a.type \notin CallTypes /\ (t = <<>> \/ t = <<a>>)
    BY DEF Thinking, Block, CallTypes, Thought
  <2>2. b.type \notin CallTypes
    BY DEF Block, CallTypes
  <2>3. m.content = t \/ m.content = t \o <<b>>
    BY DEF Recorded, Message, Calls
  <2> HIDE DEF t, a, b, m
  <2> DEFINE T == {x \in {a, b} : x.type \notin CallTypes}
  <2>4. a \in T /\ b \in T
    BY <2>1, <2>2
  <2> HIDE DEF T
  <2>5. {<<>>, <<a>>, <<b>>} \subseteq Seq(T)
    BY <2>4
  <2>6. m.content \in Seq(T)
    <3>1. t \in Seq(T) /\ <<b>> \in Seq(T)
      BY <2>1, <2>5
    <3>2. t \o <<b>> \in Seq(T)
      BY <3>1
    <3> QED BY <2>3, <3>1, <3>2
  <2>7. \A i \in DOMAIN m.content : m.content[i] \in T
    BY <2>6
  <2> QED BY <2>7 DEF T
<1>5. m.tool_calls = ids
  BY DEF Recorded, Message, Calls
<1> HIDE DEF m
<1>6. k \in AllMessages
  BY <1>2, SignatureLeft
<1>7. \A i \in DOMAIN d : d[i].type = m.content[i].type
  <2>1. m.content \in Seq(AllBlocks)
    BY <1>2 DEF AllMessages
  <2>2. \A b \in AllBlocks : f(b).type = b.type
    BY DEF AllBlocks
  <2> HIDE DEF f
  <2> QED BY <2>1, <2>2
<1>8. /\ k.content = d /\ k.role = m.role /\ k.tool_call_id = m.tool_call_id
      /\ k.tool_calls = m.tool_calls /\ DOMAIN d = DOMAIN m.content
  BY <1>2 DEF AllMessages
<1> HIDE DEF d, k
<1>9. /\ k \in AllMessages /\ k.role = "assistant" /\ k.tool_call_id = None
      /\ \A i \in DOMAIN k.content : k.content[i].type \notin CallTypes
      /\ k.tool_calls = ids
  BY <1>3, <1>4, <1>5, <1>6, <1>7, <1>8
<1> QED BY <1>9 DEF k, d, m, WithLeft

LEMMA CallsMade ==
  ASSUME NEW n \in Nat, n > 0, NEW calls \in 0..2
  PROVE  LET ids == [k \in 1..calls |-> CallId(n, k)]
         IN  /\ ids \in Seq(Nat) /\ Injective(ids)
             /\ ToSet(ids) \subseteq MadeBy(n) /\ ToSet(ids) \cap MadeBy(n - 1) = {}
             /\ MadeBy(n - 1) \subseteq MadeBy(n)
<1> DEFINE ids == [k \in 1..calls |-> CallId(n, k)]
<1>1. \A k \in 1..calls : CallId(n, k) \in Nat /\ k \in 1..2
  BY DEF CallId
<1>2. ids \in Seq(Nat)
  BY <1>1
<1>3. Injective(ids)
  BY DEF Injective, CallId
<1>4. n \in 1..n /\ 1..(n - 1) \subseteq 1..n
  OBVIOUS
<1>5. ToSet(ids) = {CallId(n, k) : k \in 1..calls}
  BY DEF ToSet
<1>6. ToSet(ids) \subseteq MadeBy(n)
  BY <1>1, <1>4, <1>5 DEF MadeBy
<1>7. MadeBy(n - 1) \subseteq MadeBy(n)
  BY <1>4 DEF MadeBy
<1>8. \A k \in 1..2, t \in 1..(n - 1), j \in 1..2 : CallId(n, k) # CallId(t, j)
  BY DEF CallId
<1>9. ToSet(ids) \cap MadeBy(n - 1) = {}
  BY <1>1, <1>5, <1>8 DEF MadeBy
<1> QED BY <1>2, <1>3, <1>6, <1>7, <1>9

LEMMA AnswerChained == ASSUME Typed, Chained, Answer PROVE Chained'
<1>1. /\ stage = "sent" /\ stage' = "idle" /\ client' = client /\ turns' = turns
      /\ anchors' = anchors /\ cache' = cache
  BY DEF Answer, Done
<1>2. PICK sig \in Real \cup {None}, calls \in 0..2, left \in Signed :
        LET ids == [k \in 1..calls |-> CallId(turns, k)]
            m == Recorded(Thought(sig), ids)
            kepts == [m EXCEPT !.content =
                        [i \in DOMAIN m.content |->
                           IF IsThinking(m.content[i]) THEN [m.content[i] EXCEPT !.sig = left]
                           ELSE m.content[i]]]
        IN  chat' = Append(chat, AsClientHasIt(kepts))
  BY DEF Answer
<1> DEFINE ids == [k \in 1..calls |-> CallId(turns, k)]
           m == Recorded(Thought(sig), ids)
           kepts == WithLeft(m, left)
           k == AsClientHasIt(kepts)
<1>3. /\ One' = One /\ Raw' = Raw /\ Side' = Side /\ Ready' = Ready /\ Unmerged' = Unmerged
      /\ Sanitized' = Sanitized
  BY <1>1 DEF One, Raw, Side, Ready, Unmerged, Sanitized
<1> SUFFICES ASSUME Unmerged PROVE ChatWhole' /\ BodyWhole' /\ KeptWhole' /\ SentWhole'
  BY <1>3 DEF Chained
<1>4. ChatWhole /\ KeptWhole
  BY DEF Chained
<1> DEFINE z == Behind(<<>>, turns - 1)
           s == Behind(ids, turns)
<1>5. /\ chat \in Seq(Raw) /\ (One => Distinct(chat)) /\ Leads(chat, Start(One), z) /\ turns > 0
  BY <1>1, <1>4 DEF ChatWhole
<1>6. turns \in Nat /\ left \in Signatures \cup {None}
  BY PipelineAssumption DEF Typed, Signatures
<1>7. /\ ids \in Seq(Nat) /\ Injective(ids)
      /\ ToSet(ids) \subseteq MadeBy(turns) /\ ToSet(ids) \cap MadeBy(turns - 1) = {}
      /\ MadeBy(turns - 1) \subseteq MadeBy(turns)
  BY <1>5, <1>6, CallsMade
<1>8. chat' = Append(chat, k)
  BY <1>2 DEF WithLeft
<1> HIDE DEF ids
<1>9. /\ kepts \in AllMessages /\ kepts.role = "assistant" /\ kepts.tool_call_id = None
      /\ \A i \in DOMAIN kepts.content : kepts.content[i].type \notin CallTypes
      /\ kepts.tool_calls = ids
  <2>1. ids \in Seq(Nat) /\ turns \in Nat /\ left \in Signatures \cup {None}
    BY <1>6, <1>7
  <2> QED BY <2>1, AnswerShape
<1> HIDE DEF m, kepts
<1>10. /\ k \in Raw /\ CallsOf(k) = ids /\ Injective(UseIds(k))
       /\ ToolCalls(k) = ToSet(ids) /\ ToolResults(k) = {}
  BY <1>7, <1>9, AnswerFits
<1> HIDE DEF k
<1>11. Turn(z, k, s) /\ z.open \subseteq z.made
  <2>1. /\ z.open = {} /\ z.made = MadeBy(turns - 1) /\ z.one = One
        /\ s.open = ToSet(ids) /\ s.made = MadeBy(turns) /\ s.one = One
    BY DEF Behind, State, ToSet
  <2> HIDE DEF z, s
  <2> QED BY <1>7, <1>10, <2>1 DEF Turn
<1> HIDE DEF z, s
<1>12. Leads(<<k>>, z, s)
  BY <1>11, LeadsOne
<1>13. chat' = chat \o <<k>> /\ <<k>> \in Seq(Raw) /\ <<k>> # <<>> /\ Len(<<k>>) = 1 /\ <<k>>[1] = k
  BY <1>5, <1>8, <1>10
<1>14. chat' \in Seq(Raw) /\ Leads(chat', Start(One), s)
  <2> DEFINE d == <<k>>
  <2>1. d \in Seq(Raw) /\ Leads(d, z, s) /\ chat' = chat \o d
    BY <1>12, <1>13
  <2> HIDE DEF d
  <2> QED BY <1>5, <2>1, LeadsOn
<1>15. OpenCalls' = ids
  <2>1. chat' # <<>> /\ Last(chat') = k
    BY <1>5, <1>13, LastOf
  <2> QED BY <1>10, <2>1 DEF OpenCalls, CallsOf
<1>16. One => Distinct(chat')
  <2>1. /\ Len(chat') = Len(chat) + 1 /\ chat'[Len(chat) + 1] = k
        /\ \A i \in 1..Len(chat) : chat'[i] = chat[i]
    BY <1>5, <1>8, <1>10
  <2>2. \A i \in 1..Len(chat') : i \in 1..Len(chat) \/ i = Len(chat) + 1
    BY <1>5, <2>1
  <2> QED BY <1>5, <1>10, <2>1, <2>2 DEF Distinct
<1>17. Behind(OpenCalls, turns)' = s
  BY <1>1, <1>3, <1>15 DEF Behind, s
<1>18. Leads(chat', Start(One'), Behind(OpenCalls, turns)')
  BY <1>3, <1>14, <1>17
<1>19. ChatWhole'
  BY <1>1, <1>3, <1>7, <1>14, <1>15, <1>16, <1>18 DEF ChatWhole
<1>20. KeptWhole'
  BY <1>1, <1>3, <1>4 DEF KeptWhole
<1> QED BY <1>1, <1>19, <1>20 DEF BodyWhole, SentWhole
-----------------------------------------------------------------------------
LEMMA NextChained == ASSUME Typed, Chained, [Next]_vars PROVE Chained'
<1>1. CASE Next
  BY <1>1, AskChained, ForgetChained, DispatchChained, ChatChained, MessagesChained, SendChained,
     RefuseChained, FailsChained, AnswerChained DEF Next
<1>2. CASE UNCHANGED vars
  <2>1. /\ client' = client /\ chat' = chat /\ turns' = turns /\ stage' = stage /\ body' = body
        /\ sent' = sent /\ attempt' = attempt /\ anchors' = anchors /\ cache' = cache
    BY <1>2 DEF vars, kept
  <2>2. One' = One /\ Raw' = Raw /\ Side' = Side /\ Ready' = Ready /\ Unmerged' = Unmerged
        /\ Sanitized' = Sanitized /\ OpenCalls' = OpenCalls /\ CallsGoWithThinking' = CallsGoWithThinking
    BY <2>1 DEF One, Raw, Side, Ready, Unmerged, Sanitized, OpenCalls, CallsGoWithThinking
  <2>3. \A open, n : State(ToSet(open), MadeBy(n), One') = State(ToSet(open), MadeBy(n), One)
    BY <2>2
  <2>4. ChatWhole => ChatWhole'
    BY <2>1, <2>2, <2>3 DEF ChatWhole, Behind
  <2>5. BodyWhole => BodyWhole'
    BY <2>1, <2>2 DEF BodyWhole
  <2>6. (KeptWhole => KeptWhole') /\ (SentWhole => SentWhole')
    BY <2>1, <2>2 DEF KeptWhole, SentWhole
  <2> QED BY <2>2, <2>4, <2>5, <2>6 DEF Chained
<1> QED BY <1>1, <1>2

LEMMA ChainInvariant == Spec => []Chained
<1>1. Chained /\ IInv /\ [Next]_vars => Chained'
  BY NextChained DEF IInv
<1> QED BY <1>1, ChainsStart, Invariant, PTL DEF Spec

LEMMA InvariantChains == IInv /\ Chained => ChainsStayIntact
<1> SUFFICES ASSUME Typed, Chained, stage = "sent", Unmerged, ~CallsGoWithThinking
             PROVE  ChainsIntact(sent)
  BY DEF ChainsStayIntact, Unmerged, IInv
<1>1. Whole(sent, One) /\ sent \in Seq(AllMessages)
  BY DEF Chained, SentWhole, Typed
<1> QED BY <1>1, WholeIsIntact

(* Whatever the sanitizer, the cache of histories, the selection, a conversion, *)
(* the compression or a retry without thinking takes out of a conversation that *)
(* is not merged with a kept one, in any order and for a client that may forget *)
(* its oldest part, each call that is sent has its results right behind it, and *)
(* each result its call; but for what goes with thinking that was refused.      *)
THEOREM ChainsAreKept == Spec => []ChainsStayIntact
  BY Invariant, ChainInvariant, InvariantChains, PTL
=============================================================================
