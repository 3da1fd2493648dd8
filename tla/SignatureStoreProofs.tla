------------------------ MODULE SignatureStoreProofs ------------------------
(* Proofs about the signature store, for all texts, tools, sessions and owners, *)
(* times to live, phases and lengths of a run; at the end, those about the write*)
(* queue.                                                                       *)
EXTENDS SignatureStore, AsyncWriteQueue, SelectionProofs, FiniteSetTheorems, TLAPS

(* The maps by text: every entry has a text, and a signature stored with it and *)
(* at once, as long as the entry is fresh.                                      *)
TextEntries == {e \in Entries : /\ e.text \in Texts /\ e.sig.of = e.text
                                /\ e.at <= e.sig.at + DbTTL}
TextsInv == /\ main \in Seq(TextEntries) /\ Len(main) <= MaxSize
            /\ adapter \in Seq(TextEntries) /\ Len(adapter) <= MaxSize

(* What rows and entries by id owe to when their signature was made: memory     *)
(* takes one over from the database while that still has it.                    *)
IdEntries == {e \in Entries : e.at <= e.sig.at + DbTTL}
DbRows == {row \in Rows : row.expires = row.sig.at + DbTTL}

(* Rows are numbered by the calls there have been, and so there is a newest one.*)
Numbered(t, ks) == \A k \in ks : t[k] # None => t[k].made <= calls /\ t[k].touched <= calls

InMemory(k) == IF k \in Tools THEN tools[k] ELSE sessions[k]
StoredInv(k) ==
    stored[k] # None =>
      /\ migration
      /\ InMemory(k) # None => InMemory(k).sig = stored[k]
      /\ db[k] # None => db[k].sig = stored[k]
      /\ now <= stored[k].at + DbTTL => db[k] # None
IdsInv == /\ tools \in [Tools -> IdEntries \cup {None}]
          /\ sessions \in [Sessions -> IdEntries \cup {None}]
          /\ db \in [Ids -> DbRows \cup {None}]
          /\ Numbered(db, Ids)
          /\ stored \in [Ids -> Signatures \cup {None}]
          /\ \A k \in Ids : StoredInv(k)

(* The new cache: a row is under the text it is about and expires some time.    *)
RowsOf(text) == {row \in Rows : row.sig.of = text /\ row.expires > 0}
LayerInv(t) == /\ t \in [Keys -> Rows \cup {None}]
               /\ \A k \in Keys : t[k] # None => t[k] \in RowsOf(k[1])
               /\ Numbered(t, Keys)
Writings == {w \in [key : Keys, sig : Signatures, row : Rows \cup {None}] :
               /\ w.sig.of = w.key[1]
               /\ w.row # None => w.row.sig = w.sig /\ w.row.expires > 0}
(* What was brought to both layers is in the second one until then, and the     *)
(* first one has nothing that would expire before.                              *)
Brought(end, row1, row2) ==
    end # None =>
      /\ end <= now + L1TTL
      /\ now <= end => /\ row2 # None /\ row2.expires >= end
                       /\ row1 # None => row1.expires >= end
BroughtInv(k) == Brought(until[k], l1[k], l2[k])
(* A row about to be purged had expired: if it has been renewed meanwhile, the  *)
(* first layer has the signature too.                                           *)
PurgeInv == /\ asking # None /\ asking.purging /\ Asked \in Keys
            /\ until[Asked] # None /\ now <= until[Asked]
            => l1[Asked] # None
NewInv == /\ LayerInv(l1) /\ LayerInv(l2)
          /\ writers \subseteq Writings
          /\ \A w \in writers : w.row # None => /\ w.row.expires <= now + L1TTL
                                                /\ w.row.made <= calls /\ w.row.touched <= calls
          /\ until \in [Keys -> (1..(MaxTime + L1TTL)) \cup {None}]
          /\ \A k \in Keys : BroughtInv(k)
          /\ PurgeInv

(* The call that asks, and what the last one was told.                          *)
AskInv == /\ asking \in Questionings \cup {None}
          /\ asking # None => \A i \in DOMAIN asking.layers :
                                 asking.layers[i] = "text" => asking.text \in Texts
          /\ answer \in Given \cup {None}
          /\ RightText /\ SignatureAges

ClockInv == /\ now \in 1..MaxTime /\ calls \in 0..MaxCalls[scene]
            /\ scene \in Scenes /\ migration \in BOOLEAN /\ phase \in 1..4

IInv == ClockInv /\ TextsInv /\ IdsInv /\ NewInv /\ AskInv

-----------------------------------------------------------------------------
(* What the maps by text do to their entries.                                   *)
LEMMA WithoutIs ==
  ASSUME NEW m \in Seq(TextEntries), NEW key
  PROVE  /\ Without(m, key) \in Seq(TextEntries) /\ Len(Without(m, key)) <= Len(m)
         /\ (\E i \in DOMAIN m : Key(m[i].text) = key) => Len(Without(m, key)) < Len(m)
<1> DEFINE others == {i \in DOMAIN m : Key(m[i].text) # key}
<1>1. /\ Selected(m, others) \in Seq(TextEntries) /\ Len(Selected(m, others)) <= Len(m)
      /\ ~(DOMAIN m \subseteq others) => Len(Selected(m, others)) < Len(m)
  <2> HIDE DEF others
  <2> QED BY SelectedIs
<1>2. (\E i \in DOMAIN m : Key(m[i].text) = key) => ~(DOMAIN m \subseteq others)
  OBVIOUS
<1>3. Without(m, key) = Selected(m, others)
  BY DEF Without
<1> QED BY <1>1, <1>2, <1>3

LEMMA StoreIs ==
  ASSUME NEW m \in Seq(TextEntries), Len(m) <= MaxSize, NEW e \in TextEntries
  PROVE  Store(m, e) \in Seq(TextEntries) /\ Len(Store(m, e)) <= MaxSize
<1> DEFINE w == Without(m, Key(e.text))
<1>1. w \in Seq(TextEntries) /\ Len(w) <= Len(m)
  BY WithoutIs
<1>2. Store(m, e) = IF Len(Append(w, e)) > MaxSize THEN Tail(Append(w, e)) ELSE Append(w, e)
  BY DEF Store
<1> HIDE DEF w
<1>3. /\ Append(w, e) \in Seq(TextEntries) /\ Len(Append(w, e)) = Len(w) + 1
      /\ Tail(Append(w, e)) \in Seq(TextEntries) /\ Len(Tail(Append(w, e))) = Len(w)
      /\ Len(w) \in Nat /\ Len(m) \in Nat /\ MaxSize \in Nat
  BY <1>1, LegacyAssumption
<1> QED BY <1>1, <1>2, <1>3

(* An entry that is found goes to the end.                                      *)
LEMMA MovesToEnd ==
  ASSUME NEW m \in Seq(TextEntries), Len(m) <= MaxSize, NEW key, NEW e \in Under(m, key)
  PROVE  /\ e \in TextEntries /\ Key(e.text) = key
         /\ Append(Without(m, key), e) \in Seq(TextEntries)
         /\ Len(Append(Without(m, key), e)) <= MaxSize
<1>1. PICK i \in DOMAIN m : Key(m[i].text) = key /\ e = m[i]
  BY DEF Under
<1>2. e \in TextEntries
  BY <1>1
<1>3. Without(m, key) \in Seq(TextEntries) /\ Len(Without(m, key)) < Len(m)
  BY <1>1, WithoutIs
<1> QED BY <1>1, <1>2, <1>3, LegacyAssumption

(* A lookup by text keeps the map, and finds what was stored with that text.    *)
LEMMA GetTextIs ==
  ASSUME NEW m \in Seq(TextEntries), Len(m) <= MaxSize, NEW text, NEW owner
  PROVE  LET r == GetText(m, text, owner)
         IN  /\ r.map \in Seq(TextEntries) /\ Len(r.map) <= MaxSize
             /\ r.sig # None => \E e \in TextEntries : r.sig = e.sig /\ Norm[e.text] = Norm[text]
<1> DEFINE found == Under(m, Key(text))
           e == CHOOSE e \in found : TRUE
<1>1. CASE found = {}
  BY <1>1 DEF GetText, Answer
<1>2. CASE found # {}
  <2>1. e \in found
    BY <1>2
  <2> HIDE DEF e
  <2>2. /\ e \in TextEntries /\ Append(Without(m, Key(text)), e) \in Seq(TextEntries)
        /\ Len(Append(Without(m, Key(text)), e)) <= MaxSize
    BY <2>1, MovesToEnd
  <2>3. Without(m, Key(text)) \in Seq(TextEntries) /\ Len(Without(m, Key(text))) <= MaxSize
    BY WithoutIs, LegacyAssumption
  <2>4. GetText(m, text, owner) =
          IF Stale(e) THEN Answer(Without(m, Key(text)), None)
          ELSE IF Foreign(e, owner) \/ Norm[e.text] # Norm[text] THEN Answer(m, None)
          ELSE Answer(Append(Without(m, Key(text)), e), e.sig)
    BY <1>2 DEF GetText, e
  <2> QED BY <2>2, <2>3, <2>4 DEF Answer
<1> QED BY <1>1, <1>2

LEMMA ReadFromLegacyIs ==
  ASSUME NEW m \in Seq(TextEntries), Len(m) <= MaxSize, NEW text
  PROVE  LET r == ReadFromLegacy(m, text)
         IN  /\ r.map \in Seq(TextEntries) /\ Len(r.map) <= MaxSize
             /\ r.sig # None => \E e \in TextEntries : r.sig = e.sig /\ Norm[e.text] = Norm[text]
<1> DEFINE found == Under(m, Key(text))
           e == CHOOSE e \in found : TRUE
<1>1. CASE found = {}
  BY <1>1 DEF ReadFromLegacy, Answer
<1>2. CASE found # {}
  <2>1. e \in found
    BY <1>2
  <2> HIDE DEF e
  <2>2. /\ e \in TextEntries /\ Append(Without(m, Key(text)), e) \in Seq(TextEntries)
        /\ Len(Append(Without(m, Key(text)), e)) <= MaxSize
    BY <2>1, MovesToEnd
  <2>3. Without(m, Key(text)) \in Seq(TextEntries) /\ Len(Without(m, Key(text))) <= MaxSize
    BY WithoutIs, LegacyAssumption
  <2>4. ReadFromLegacy(m, text) =
          IF Stale(e) THEN Answer(Without(m, Key(text)), None)
          ELSE IF Norm[e.text] # Norm[text] THEN Answer(m, None)
          ELSE Answer(Append(Without(m, Key(text)), e), e.sig)
    BY <1>2 DEF ReadFromLegacy, e
  <2> QED BY <2>2, <2>3, <2>4 DEF Answer
<1> QED BY <1>1, <1>2

LEMMA CleanupIs ==
  ASSUME NEW m \in Seq(TextEntries), Len(m) <= MaxSize
  PROVE  /\ CleanupTexts(m) \in Seq(TextEntries) /\ Len(CleanupTexts(m)) <= MaxSize
         /\ \A j \in DOMAIN CleanupTexts(m) : ~Stale(CleanupTexts(m)[j])
<1> DEFINE fresh == {i \in DOMAIN m : ~Stale(m[i])}
<1>1. \A i \in fresh \cap DOMAIN m : ~Stale(m[i])
  OBVIOUS
<1>2. CleanupTexts(m) = Selected(m, fresh)
  BY DEF CleanupTexts
<1> HIDE DEF fresh
<1>3. Selected(m, fresh) \in Seq(TextEntries) /\ Len(Selected(m, fresh)) <= Len(m)
  BY SelectedIs
<1>4. \A j \in DOMAIN Selected(m, fresh) :
         \E i \in fresh \cap DOMAIN m : Selected(m, fresh)[j] = m[i]
  BY SelectedElements
<1>5. Len(m) \in Nat /\ MaxSize \in Nat
  BY LegacyAssumption
<1> QED BY <1>1, <1>2, <1>3, <1>4, <1>5

(* The last signature is a fresh entry's, a recent one a young entry's.         *)
LEMMA LastIs ==
  ASSUME NEW m \in Seq(TextEntries), Len(m) <= MaxSize, Last(m) # None
  PROVE  \E e \in TextEntries : ~Stale(e) /\ Last(m) = e.sig
<1> DEFINE fresh == CleanupTexts(m)
<1>1. fresh \in Seq(TextEntries) /\ \A j \in DOMAIN fresh : ~Stale(fresh[j])
  BY CleanupIs
<1>2. fresh # <<>> /\ Last(m) = fresh[Len(fresh)].sig
  BY DEF Last
<1> HIDE DEF fresh
<1>3. Len(fresh) \in DOMAIN fresh /\ fresh[Len(fresh)] \in TextEntries
  BY <1>1, <1>2
<1> QED BY <1>1, <1>2, <1>3

LEMMA YoungTextIs ==
  ASSUME NEW m \in Seq(TextEntries), NEW owner, YoungText(m, owner) # None
  PROVE  \E e \in TextEntries : Young(e) /\ YoungText(m, owner) = e.sig
<1> DEFINE mine == {i \in DOMAIN m : (owner = None \/ m[i].owner = owner) /\ Young(m[i])}
           s == Selected(m, mine)
<1>1. \A i \in mine : Young(m[i])
  OBVIOUS
<1>2. s # <<>> /\ YoungText(m, owner) = s[Len(s)].sig
  BY DEF YoungText
<1> HIDE DEF mine
<1>3. s \in Seq(TextEntries)
  BY SelectedIs
<1>4. \A j \in DOMAIN s : \E i \in mine \cap DOMAIN m : s[j] = m[i]
  BY SelectedElements
<1> HIDE DEF s
<1>5. Len(s) \in DOMAIN s /\ s[Len(s)] \in TextEntries
  BY <1>2, <1>3
<1>6. Young(s[Len(s)])
  BY <1>1, <1>4, <1>5
<1> QED BY <1>2, <1>5, <1>6

(* Among rows that are numbered there is a newest one.                          *)
LEMMA NewestIs ==
  ASSUME calls \in Nat, NEW t, NEW ks, Numbered(t, ks), None \notin ks,
         \A k \in ks : t[k] # None => t[k].made \in Nat /\ t[k].touched \in Nat
  PROVE  IF \E k \in ks : t[k] # None
         THEN Newest(t, ks) \in ks /\ t[Newest(t, ks)] # None
         ELSE Newest(t, ks) = None
<1> DEFINE in == {k \in ks : t[k] # None}
           Late == {calls - t[k].touched : k \in in}
<1>1. CASE in = {}
  BY <1>1 DEF Newest
<1>2. CASE in # {}
  <2>1. Late \in SUBSET Nat /\ Late # {}
    BY <1>2 DEF Numbered
  <2>2. PICK x \in Late : \A y \in Late : x <= y
    BY <2>1, Least
  <2>3. PICK k1 \in in : x = calls - t[k1].touched
    BY <2>2
  <2>4. \A k \in in : t[k].touched <= t[k1].touched
    <3>1. \A k \in in : calls - t[k].touched \in Late
      OBVIOUS
    <3> HIDE DEF Late
    <3> QED BY <2>2, <2>3, <3>1
  <2> DEFINE top == {k \in in : t[k].touched = t[k1].touched}
             Made == {calls - t[k].made : k \in top}
  <2>5. Made \in SUBSET Nat /\ Made # {}
    <3>1. \A k \in top : calls - t[k].made \in Nat
      BY DEF Numbered
    <3>2. k1 \in top
      BY <2>3
    <3> HIDE DEF top
    <3> QED BY <3>1, <3>2
  <2>6. PICK x2 \in Made : \A y \in Made : x2 <= y
    BY <2>5, Least
  <2>7. PICK k2 \in top : x2 = calls - t[k2].made
    BY <2>6
  <2>8. \A k \in top : t[k].made <= t[k2].made
    <3>1. \A k \in top : calls - t[k].made \in Made
      OBVIOUS
    <3> HIDE DEF Made
    <3> QED BY <2>6, <2>7, <3>1
  <2>9. k2 \in in /\ \A j \in in \ {k2} : ~Before(t[j], t[k2])
    BY <2>3, <2>4, <2>7, <2>8 DEF Before
  <2>10. Newest(t, ks) = CHOOSE k \in in : \A j \in in \ {k} : ~Before(t[j], t[k])
    BY <1>2 DEF Newest
  <2> HIDE DEF in
  <2>11. Newest(t, ks) \in in
    BY <2>9, <2>10
  <2> QED BY <2>11 DEF in
<1> QED BY <1>1, <1>2

LEMMA SelectNewestIs ==
  ASSUME calls \in Nat, NEW t, NEW ks, Numbered(t, ks), None \notin ks,
         \A k \in ks : t[k] # None => t[k].made \in Nat /\ t[k].touched \in Nat,
         SelectNewest(t, ks) # None
  PROVE  /\ Newest(t, ks) \in ks /\ Has(t, Newest(t, ks))
         /\ SelectNewest(t, ks) = t[Newest(t, ks)]
  BY NewestIs DEF SelectNewest, Select, Has
-----------------------------------------------------------------------------
(* Parts of the invariant that a step leaves alone: time and calls only go on.  *)
LEMMA TextsKept == TextsInv /\ UNCHANGED <<main, adapter>> => TextsInv'
  BY DEF TextsInv

GoesOn == /\ now \in Nat /\ now' \in Nat /\ now <= now'
          /\ calls \in Nat /\ calls' \in Nat /\ calls <= calls'

LEMMA NumberedKept ==
  ASSUME GoesOn, NEW t, NEW ks, Numbered(t, ks),
         \A k \in ks : t[k] # None => t[k].made \in Nat /\ t[k].touched \in Nat
  PROVE  \A k \in ks : t[k] # None => t[k].made <= calls' /\ t[k].touched <= calls'
  BY DEF GoesOn, Numbered

LEMMA IdsKept ==
  ASSUME IdsInv, GoesOn, UNCHANGED <<tools, sessions, db, stored, migration>>
  PROVE  IdsInv'
<1>1. Numbered(db, Ids)'
  BY NumberedKept DEF IdsInv, Numbered, DbRows, Rows
<1>2. ASSUME NEW k \in Ids PROVE StoredInv(k)'
  <2>1. StoredInv(k)
    BY DEF IdsInv
  <2>2. stored[k] # None => stored[k].at \in Nat /\ DbTTL \in Nat
    BY StoreAssumption DEF IdsInv, Signatures
  <2> QED BY <2>1, <2>2 DEF StoredInv, InMemory, GoesOn
<1> QED BY <1>1, <1>2 DEF IdsInv

LEMMA NewKept ==
  ASSUME NewInv, GoesOn, UNCHANGED <<l1, l2, writers, until>>,
         \/ UNCHANGED asking
         \/ asking' = None
         \/ ~asking'.purging
  PROVE  NewInv'
<1>1. Numbered(l1, Keys)' /\ Numbered(l2, Keys)'
  BY NumberedKept DEF NewInv, LayerInv, Numbered, RowsOf, Rows
<1>2. LayerInv(l1)' /\ LayerInv(l2)'
  BY <1>1 DEF NewInv, LayerInv
<1>3. L1TTL \in Nat /\ MaxTime \in Nat
  BY StoreAssumption
<1>4. ASSUME NEW w \in writers, w.row # None
      PROVE  w.row.expires <= now' + L1TTL /\ w.row.made <= calls' /\ w.row.touched <= calls'
  <2>1. w.row \in Rows
    BY <1>4 DEF NewInv, Writings
  <2>2. w.row.expires <= now + L1TTL /\ w.row.made <= calls /\ w.row.touched <= calls
    BY <1>4 DEF NewInv
  <2> QED BY <1>3, <2>1, <2>2 DEF GoesOn, Rows
<1>5. ASSUME NEW k \in Keys PROVE BroughtInv(k)'
  <2>1. BroughtInv(k) /\ (until[k] # None => until[k] \in Nat)
    BY <1>3 DEF NewInv
  <2> QED BY <1>3, <2>1 DEF BroughtInv, Brought, GoesOn
<1>6. PurgeInv'
  <2>1. CASE UNCHANGED asking
    <3>1. until[Asked] # None /\ Asked \in Keys => until[Asked] \in Nat
      BY <1>3 DEF NewInv
    <3> QED BY <2>1, <3>1 DEF NewInv, PurgeInv, GoesOn, Asked
  <2>2. CASE ~UNCHANGED asking
    BY <2>2 DEF PurgeInv
  <2> QED BY <2>1, <2>2
<1>7. writers' \subseteq Writings
  BY DEF NewInv
<1> QED BY <1>2, <1>4, <1>5, <1>6, <1>7 DEF NewInv

LEMMA AskKept ==
  ASSUME AskInv, UNCHANGED asking, UNCHANGED answer \/ answer' = None
  PROVE  AskInv'
  BY DEF AskInv, RightText, SignatureAges

(* A layer answers with a signature that belongs to the text, or is not too old.*)
Proper(sig) ==
    /\ sig \in Signatures
    /\ Head(asking.layers) = "text" => Norm[sig.of] = Norm[asking.text]
    /\ Head(asking.layers) # "text" => now - sig.at <= DbTTL + MemoryTTL

LEMMA AnswersIs ==
  ASSUME ClockInv, AskInv, asking # None, asking.layers # <<>>,
         NEW sig, sig = None \/ Proper(sig), Answers(sig)
  PROVE  AskInv' /\ (asking' = None \/ ~asking'.purging)
<1>0. asking \in Questionings /\ asking.layers \in Seq(Layers)
  BY DEF AskInv, Questionings
<1>1. CASE sig = None
  <2>1. asking' = [asking EXCEPT !.layers = Tail(asking.layers), !.purging = FALSE]
        /\ UNCHANGED answer
    BY <1>1 DEF Answers
  <2>2. Tail(asking.layers) \in Seq(Layers)
    BY <1>0
  <2>3. asking' \in Questionings
    BY <1>0, <2>1, <2>2 DEF Questionings
  <2>4. asking'.layers = Tail(asking.layers) /\ asking'.text = asking.text /\ ~asking'.purging
    BY <1>0, <2>1 DEF Questionings
  <2>5. \A i \in DOMAIN Tail(asking.layers) :
           i + 1 \in DOMAIN asking.layers /\ Tail(asking.layers)[i] = asking.layers[i + 1]
    BY <1>0
  <2> QED BY <2>1, <2>3, <2>4, <2>5 DEF AskInv, RightText, SignatureAges
<1>2. CASE sig # None
  <2>1. asking' = None
        /\ answer' = [layer |-> Head(asking.layers), text |-> asking.text,
                      owner |-> asking.owner, sig |-> sig, at |-> now]
    BY <1>2 DEF Answers
  <2>2. Head(asking.layers) \in Layers
    BY <1>0
  <2>3. answer' \in Given
    BY <1>0, <1>2, <2>1, <2>2 DEF Given, Proper, Questionings, ClockInv
  <2>4. RightText' /\ SignatureAges'
    BY <1>2, <2>1 DEF RightText, SignatureAges, Proper
  <2> QED BY <2>1, <2>3, <2>4 DEF AskInv
<1> QED BY <1>1, <1>2

(* A call goes on with the clock as it is and one call more.                    *)
LEMMA CallGoesOn ==
  ASSUME ClockInv, NEW kind, Calls(kind), UNCHANGED now
  PROVE  /\ GoesOn /\ asking = None /\ answer' = None /\ calls' \in 0..MaxCalls[scene]
  BY StoreAssumption DEF ClockInv, GoesOn, Calls

LEMMA SameCallGoesOn == ClockInv /\ UNCHANGED <<now, calls>> => GoesOn
  BY StoreAssumption DEF ClockInv, GoesOn
-----------------------------------------------------------------------------
(* The tables by id.  A signature that is stored now is proper for its row.     *)
LEMMA SetSignatureIs ==
  ASSUME ClockInv, IdsInv, NEW k \in Ids, NEW sig \in Signatures, sig.at = now
  PROVE  LET t == SetSignature(db, k, sig, DbTTL)
         IN  /\ t \in [Ids -> DbRows \cup {None}] /\ Numbered(t, Ids)
             /\ t[k] # None /\ t[k].sig = sig
             /\ \A j \in Ids : j # k => t[j] = db[j]
<1> DEFINE row == [sig |-> sig, expires |-> Expiry(DbTTL),
                   made |-> IF db[k] = None THEN 0 ELSE db[k].made, touched |-> calls]
           t == SetSignature(db, k, sig, DbTTL)
<1>0. /\ DbTTL \in Nat \ {0} /\ now \in Nat /\ calls \in Nat /\ None \notin Rows
      /\ db \in [Ids -> DbRows \cup {None}]
  BY StoreAssumption DEF ClockInv, IdsInv
<1>1. Expiry(DbTTL) = now + DbTTL
  BY <1>0 DEF Expiry
<1>2. db[k] # None => db[k].made \in Nat /\ db[k].made <= calls
  BY <1>0 DEF DbRows, Rows, IdsInv, Numbered
<1>3. /\ row \in DbRows /\ row.sig = sig /\ row.made <= calls /\ row.touched <= calls
  BY <1>0, <1>1, <1>2 DEF DbRows, Rows
<1>4. t = [db EXCEPT ![k] = row]
  BY DEF SetSignature
<1>5. \A r \in DbRows : r # None
  BY <1>0 DEF DbRows
<1> HIDE DEF row, t
<1>6. /\ t \in [Ids -> DbRows \cup {None}] /\ t[k] = row
      /\ \A j \in Ids : j # k => t[j] = db[j]
  BY <1>0, <1>3, <1>4
<1>7. Numbered(t, Ids)
  BY <1>3, <1>6 DEF Numbered, IdsInv
<1> QED BY <1>3, <1>5, <1>6, <1>7 DEF t

(* What has a signature remembered, and what recalling it answers.              *)
LEMMA RememberIs ==
  ASSUME ClockInv, NEW S, NEW d \in [S -> IdEntries \cup {None}], NEW k \in S,
         NEW sig \in Signatures, now <= sig.at + DbTTL, NEW owner \in Owners
  PROVE  LET r == Remember(d, k, sig, owner)
         IN  /\ r \in [S -> IdEntries \cup {None}]
             /\ sig.valid => r[k].sig = sig
             /\ r[k] # d[k] => r[k].sig = sig
             /\ \A j \in S : j # k => r[j] = d[j]
<1>1. Entry(None, sig, owner) \in IdEntries
  BY StoreAssumption DEF ClockInv, Entry, IdEntries, Entries
<1>2. Entry(None, sig, owner).sig = sig
  BY DEF Entry
<1> QED BY <1>1, <1>2 DEF Remember

LEMMA RecallIs ==
  ASSUME ClockInv, NEW S, NEW d \in [S -> IdEntries \cup {None}], NEW k \in S, NEW owner
  PROVE  LET r == Recall(d, k, owner)
         IN  /\ r.map \in [S -> IdEntries \cup {None}]
             /\ \A j \in S : r.map[j] = d[j] \/ r.map[j] = None
             /\ r.sig # None => /\ r.sig \in Signatures /\ now - r.sig.at <= DbTTL + MemoryTTL
<1>1. d[k] # None => d[k] \in Entries /\ d[k].at <= d[k].sig.at + DbTTL
  BY DEF IdEntries
<1>2. /\ DbTTL \in Nat /\ MemoryTTL \in Nat /\ now \in Nat
  BY StoreAssumption, LegacyAssumption DEF ClockInv
<1>3. d[k] # None /\ ~Stale(d[k])
      => d[k].sig \in Signatures /\ now - d[k].sig.at <= DbTTL + MemoryTTL
  BY <1>1, <1>2 DEF Entries, Signatures, Stale
<1> QED BY <1>3 DEF Recall, Answer

(* A row that the database still has was stored no longer ago than it keeps it. *)
LEMMA DbRowIs ==
  ASSUME ClockInv, IdsInv, NEW k \in Ids, Has(db, k)
  PROVE  db[k].sig \in Signatures /\ now <= db[k].sig.at + DbTTL
<1>1. db[k] \in DbRows /\ now \in Nat /\ DbTTL \in Nat \ {0}
  BY StoreAssumption DEF IdsInv, Has, ClockInv
<1> QED BY <1>1 DEF DbRows, Rows, Signatures, Has, IsExpired

LEMMA DbClearedIs ==
  ASSUME ClockInv, IdsInv, NEW k \in Ids, HasExpired(db, k)
  PROVE  db[k] # None /\ now > db[k].sig.at + DbTTL
<1>1. db[k] \in DbRows /\ now \in Nat /\ DbTTL \in Nat \ {0} /\ db[k] # None
  BY StoreAssumption DEF IdsInv, HasExpired, ClockInv
<1> QED BY <1>1 DEF DbRows, Rows, Signatures, HasExpired, IsExpired

(* The id tables of a step in which memory only forgets, or takes what the      *)
(* database has, and the database only loses what has expired.                  *)
Follows(t, u) ==
    \A j \in Ids : IF u[j] = None THEN t[j] = None \/ now > t[j].sig.at + DbTTL
                  ELSE t[j] # None /\ u[j].sig = t[j].sig

LEMMA IdsStep ==
  ASSUME IdsInv, GoesOn, UNCHANGED <<now, stored, migration>>,
         tools' \in [Tools -> IdEntries \cup {None}],
         sessions' \in [Sessions -> IdEntries \cup {None}],
         db' \in [Ids -> DbRows \cup {None}], Numbered(db', Ids), Follows(db, db'),
         \A j \in Ids : InMemory(j)' # None =>
            InMemory(j)' = InMemory(j) \/ (db[j] # None /\ InMemory(j)'.sig = db[j].sig)
  PROVE  IdsInv'
<1>1. Numbered(db, Ids)'
  <2>1. \A j \in Ids : db'[j] # None => db'[j].made \in Nat /\ db'[j].touched \in Nat
    BY DEF DbRows, Rows
  <2>2. \A j \in Ids : db'[j] # None => db'[j].made <= calls' /\ db'[j].touched <= calls'
    BY <2>1 DEF Numbered, GoesOn
  <2> QED BY <2>2 DEF Numbered
<1>2. ASSUME NEW j \in Ids PROVE StoredInv(j)'
  <2>1. StoredInv(j)
    BY DEF IdsInv
  <2>2. IF db'[j] = None THEN db[j] = None \/ now > db[j].sig.at + DbTTL
        ELSE db[j] # None /\ db'[j].sig = db[j].sig
    BY DEF Follows
  <2>3. stored[j] # None => stored[j].at \in Nat /\ DbTTL \in Nat /\ now \in Nat
    BY StoreAssumption DEF IdsInv, Signatures, GoesOn
  <2>4. stored[j] # None /\ InMemory(j)' # None => InMemory(j)'.sig = stored[j]
    BY <2>1 DEF StoredInv
  <2> QED BY <2>1, <2>2, <2>3, <2>4 DEF StoredInv
<1> QED BY <1>1, <1>2 DEF IdsInv

(* A table in which nothing but rows that have expired, or access times, changed.*)
LEMMA AccessIs ==
  ASSUME ClockInv, IdsInv, NEW k \in Ids
  PROVE  LET t == IF HasExpired(db, k) THEN Delete(db, k) ELSE Touch(db, k)
         IN  t \in [Ids -> DbRows \cup {None}] /\ Numbered(t, Ids) /\ Follows(db, t)
<1> DEFINE t == IF HasExpired(db, k) THEN Delete(db, k) ELSE Touch(db, k)
<1>0. /\ DbTTL \in Nat /\ now \in Nat /\ calls \in Nat /\ None \notin Rows
      /\ db \in [Ids -> DbRows \cup {None}] /\ Numbered(db, Ids)
      /\ DbRows \in SUBSET Rows
  BY StoreAssumption DEF ClockInv, IdsInv, DbRows
<1>1. CASE HasExpired(db, k)
  <2>1. now > db[k].sig.at + DbTTL
    BY <1>1, DbClearedIs
  <2>2. t = [db EXCEPT ![k] = None]
    BY <1>1 DEF Delete
  <2> HIDE DEF t
  <2>3. t \in [Ids -> DbRows \cup {None}] /\ Numbered(t, Ids)
    BY <1>0, <2>2 DEF Numbered
  <2>4. Follows(db, t)
    <3>1. t[k] = None /\ \A j \in Ids : j # k => t[j] = db[j]
      BY <1>0, <2>2
    <3> QED BY <2>1, <3>1 DEF Follows
  <2> QED BY <2>3, <2>4 DEF t
<1>2. CASE ~HasExpired(db, k)
  <2>1. t = Touch(db, k)
    BY <1>2
  <2>2. CASE db[k] = None
    BY <1>0, <2>1, <2>2 DEF Touch, Follows
  <2>3. CASE db[k] # None
    <3> DEFINE row == Marked(db[k], db[k].made, calls)
    <3>1. t = [db EXCEPT ![k] = row]
      BY <2>1, <2>3 DEF Touch
    <3>2. /\ row \in DbRows /\ row.sig = db[k].sig /\ row.made = db[k].made
          /\ row.touched = calls
      BY <1>0, <2>3 DEF DbRows, Rows, Marked
    <3>3. row # None
      BY <1>0, <3>2
    <3> HIDE DEF row, t
    <3>4. /\ t \in [Ids -> DbRows \cup {None}] /\ t[k] = row
          /\ \A j \in Ids : j # k => t[j] = db[j]
      BY <1>0, <3>1, <3>2
    <3>5. Numbered(t, Ids)
      BY <1>0, <2>3, <3>2, <3>4 DEF Numbered
    <3>6. Follows(db, t)
      BY <2>3, <3>2, <3>3, <3>4 DEF Follows
    <3> QED BY <3>4, <3>5, <3>6 DEF t
  <2> QED BY <2>2, <2>3
<1> QED BY <1>1, <1>2

(* A lookup by id, in memory and then in the database.                          *)
LEMMA AskIdIs ==
  ASSUME ClockInv, IdsInv, NEW S \in SUBSET Ids, NEW d \in [S -> IdEntries \cup {None}],
         NEW k \in S, NEW owner \in Owners,
         NEW row, row = None \/ (Has(db, k) /\ row = db[k])
  PROVE  LET first == Recall(d, k, owner)
             d2 == IF row = None THEN first.map ELSE Remember(first.map, k, row.sig, owner)
             sig == IF row = None THEN first.sig ELSE row.sig
         IN  /\ d2 \in [S -> IdEntries \cup {None}]
             /\ \A j \in S : d2[j] # None =>
                   d2[j] = d[j] \/ (db[j] # None /\ d2[j].sig = db[j].sig)
             /\ sig # None => sig \in Signatures /\ now - sig.at <= DbTTL + MemoryTTL
<1> DEFINE first == Recall(d, k, owner)
<1>0. /\ first.map \in [S -> IdEntries \cup {None}]
      /\ \A j \in S : first.map[j] = d[j] \/ first.map[j] = None
      /\ first.sig # None => /\ first.sig \in Signatures
                             /\ now - first.sig.at <= DbTTL + MemoryTTL
  BY RecallIs
<1> HIDE DEF first
<1>1. CASE row = None
  BY <1>0, <1>1 DEF first
<1>2. CASE row # None
  <2>1. row = db[k] /\ Has(db, k) /\ db[k] # None /\ k \in Ids
    BY <1>2 DEF Has
  <2>2. row.sig \in Signatures /\ now <= row.sig.at + DbTTL
    BY <2>1, DbRowIs
  <2> DEFINE d2 == Remember(first.map, k, row.sig, owner)
  <2>3. /\ d2 \in [S -> IdEntries \cup {None}]
        /\ d2[k] # first.map[k] => d2[k].sig = row.sig
        /\ \A j \in S : j # k => d2[j] = first.map[j]
    BY <1>0, <2>2, RememberIs
  <2> HIDE DEF d2
  <2>4. now - row.sig.at <= DbTTL + MemoryTTL
    BY <2>2, StoreAssumption, LegacyAssumption DEF ClockInv, Signatures
  <2>5. \A j \in S : d2[j] # None => d2[j] = d[j] \/ (db[j] # None /\ d2[j].sig = db[j].sig)
    BY <1>0, <2>1, <2>3
  <2> QED BY <1>2, <2>2, <2>3, <2>4, <2>5 DEF first, d2
<1> QED BY <1>1, <1>2

(* Storing under an id: memory and the database take the signature, or what the *)
(* database has taken last is not this one.                                     *)
LEMMA StoresIs ==
  ASSUME ClockInv, IdsInv, GoesOn, UNCHANGED <<now, migration>>,
         NEW k \in Ids, NEW sig \in Signatures, sig.at = now, NEW owner \in Owners,
         NEW up \in BOOLEAN, Stores(k, sig, up),
         tools' = IF k \in Tools THEN Remember(tools, k, sig, owner) ELSE tools,
         sessions' = IF k \in Tools THEN sessions ELSE Remember(sessions, k, sig, owner),
         db' = IF migration /\ up THEN SetSignature(db, k, sig, DbTTL) ELSE db
  PROVE  IdsInv'
<1>0. /\ now \in Nat /\ DbTTL \in Nat \ {0} /\ Tools \cap Sessions = {}
      /\ tools \in [Tools -> IdEntries \cup {None}]
      /\ sessions \in [Sessions -> IdEntries \cup {None}]
      /\ db \in [Ids -> DbRows \cup {None}] /\ Numbered(db, Ids)
      /\ stored \in [Ids -> Signatures \cup {None}]
  BY StoreAssumption DEF ClockInv, IdsInv
<1>1. now <= sig.at + DbTTL
  BY <1>0
<1>2. /\ tools' \in [Tools -> IdEntries \cup {None}]
      /\ sessions' \in [Sessions -> IdEntries \cup {None}]
      /\ sig.valid => InMemory(k)'.sig = sig
      /\ \A j \in Ids : j # k => InMemory(j)' = InMemory(j)
  <2>1. CASE k \in Tools
    <3>1. /\ tools' \in [Tools -> IdEntries \cup {None}]
          /\ sig.valid => tools'[k].sig = sig
          /\ \A j \in Tools : j # k => tools'[j] = tools[j]
      BY <1>0, <1>1, <2>1, RememberIs
    <3> QED BY <1>0, <2>1, <3>1 DEF InMemory, Ids
  <2>2. CASE k \notin Tools
    <3>1. /\ sessions' \in [Sessions -> IdEntries \cup {None}]
          /\ sig.valid => sessions'[k].sig = sig
          /\ \A j \in Sessions : j # k => sessions'[j] = sessions[j]
      BY <1>0, <1>1, <2>2, RememberIs DEF Ids
    <3> QED BY <1>0, <2>2, <3>1 DEF InMemory, Ids
  <2> QED BY <2>1, <2>2
<1>3. /\ db' \in [Ids -> DbRows \cup {None}] /\ Numbered(db', Ids)
      /\ (migration /\ up) => db'[k] # None /\ db'[k].sig = sig
      /\ \A j \in Ids : j # k => db'[j] = db[j]
  <2>1. CASE migration /\ up
    BY <2>1, SetSignatureIs
  <2>2. CASE ~(migration /\ up)
    BY <1>0, <2>2
  <2> QED BY <2>1, <2>2
<1>4. Numbered(db, Ids)'
  <2>1. \A j \in Ids : db'[j] # None => db'[j].made \in Nat /\ db'[j].touched \in Nat
    BY <1>3 DEF DbRows, Rows
  <2>2. \A j \in Ids : db'[j] # None => db'[j].made <= calls' /\ db'[j].touched <= calls'
    BY <1>3, <2>1 DEF Numbered, GoesOn
  <2> QED BY <2>2 DEF Numbered
<1>5. /\ stored' \in [Ids -> Signatures \cup {None}]
      /\ \A j \in Ids : j # k => stored'[j] = stored[j]
      /\ stored'[k] = IF migration /\ up /\ sig.valid THEN sig ELSE None
  BY <1>0 DEF Stores
<1>6. ASSUME NEW j \in Ids PROVE StoredInv(j)'
  <2>1. CASE j = k
    <3>1. CASE migration /\ up /\ sig.valid
      BY <1>2, <1>3, <1>5, <2>1, <3>1 DEF StoredInv
    <3>2. CASE ~(migration /\ up /\ sig.valid)
      BY <1>5, <2>1, <3>2 DEF StoredInv
    <3> QED BY <3>1, <3>2
  <2>2. CASE j # k
    <3>1. StoredInv(j)
      BY DEF IdsInv
    <3> QED BY <1>2, <1>3, <1>5, <2>2, <3>1 DEF StoredInv
  <2> QED BY <2>1, <2>2
<1> QED BY <1>2, <1>3, <1>4, <1>5, <1>6 DEF IdsInv
-----------------------------------------------------------------------------
(* The tables of the new cache.                                                 *)
LEMMA LayerFacts ==
  ASSUME ClockInv, NEW t, LayerInv(t)
  PROVE  /\ t \in [Keys -> Rows \cup {None}] /\ DOMAIN t = Keys
         /\ calls \in Nat /\ now \in Nat /\ None \notin Rows /\ None \notin Keys
         /\ \A k \in Keys : t[k] # None =>
              /\ t[k] \in Rows /\ t[k].sig \in Signatures /\ t[k].sig.of = k[1]
              /\ t[k].expires \in Nat \ {0} /\ t[k].made \in Nat /\ t[k].touched \in Nat
              /\ t[k].made <= calls /\ t[k].touched <= calls
<1>1. /\ t \in [Keys -> Rows \cup {None}] /\ calls \in Nat /\ now \in Nat
      /\ None \notin Rows /\ None \notin Keys
  BY StoreAssumption DEF LayerInv, ClockInv
<1>2. ASSUME NEW k \in Keys, t[k] # None
      PROVE  /\ t[k] \in Rows /\ t[k].sig \in Signatures /\ t[k].sig.of = k[1]
             /\ t[k].expires \in Nat \ {0} /\ t[k].made \in Nat /\ t[k].touched \in Nat
             /\ t[k].made <= calls /\ t[k].touched <= calls
  <2>1. t[k] \in Rows /\ t[k].sig.of = k[1] /\ t[k].expires > 0
    BY <1>2 DEF LayerInv, RowsOf
  <2>2. t[k].made <= calls /\ t[k].touched <= calls
    BY <1>2 DEF LayerInv, Numbered
  <2> QED BY <2>1, <2>2 DEF Rows
<1> QED BY <1>1, <1>2

(* A row that is put into a table, and one that is taken out.                   *)
LEMMA RowPut ==
  ASSUME ClockInv, NEW t, LayerInv(t), NEW k \in Keys, NEW row \in RowsOf(k[1]),
         row.made <= calls, row.touched <= calls
  PROVE  /\ LayerInv([t EXCEPT ![k] = row]) /\ [t EXCEPT ![k] = row][k] = row /\ row # None
         /\ \A j \in Keys : j # k => [t EXCEPT ![k] = row][j] = t[j]
<1> DEFINE u == [t EXCEPT ![k] = row]
<1>1. row \in Rows /\ row # None /\ t \in [Keys -> Rows \cup {None}]
  BY LayerFacts DEF RowsOf
<1>2. /\ u \in [Keys -> Rows \cup {None}] /\ u[k] = row
      /\ \A j \in Keys : j # k => u[j] = t[j]
  BY <1>1
<1> HIDE DEF u
<1>3. LayerInv(u)
  BY <1>2 DEF LayerInv, Numbered
<1> QED BY <1>1, <1>2, <1>3 DEF u

LEMMA RowsLeft ==
  ASSUME NEW t, LayerInv(t), NEW u, u \in [Keys -> Rows \cup {None}],
         \A k \in Keys : u[k] = None \/ u[k] = t[k]
  PROVE  LayerInv(u)
  BY DEF LayerInv, Numbered

LEMMA RowMarked ==
  ASSUME ClockInv, NEW t, LayerInv(t), NEW k \in Keys, t[k] # None,
         NEW made \in Nat, NEW touched \in Nat, made <= calls, touched <= calls
  PROVE  /\ Marked(t[k], made, touched) \in RowsOf(k[1])
         /\ Marked(t[k], made, touched).expires = t[k].expires
         /\ Marked(t[k], made, touched).made <= calls
         /\ Marked(t[k], made, touched).touched <= calls
<1>1. /\ t[k] \in Rows /\ t[k].sig \in Signatures /\ t[k].sig.of = k[1]
      /\ t[k].expires \in Nat \ {0}
  BY LayerFacts
<1> QED BY <1>1 DEF RowsOf, Rows, Marked

LEMMA LayerTouched ==
  ASSUME ClockInv, NEW t, LayerInv(t), NEW k \in Keys
  PROVE  /\ LayerInv(Touch(t, k))
         /\ \A j \in Keys : IF t[j] = None THEN Touch(t, k)[j] = None
                            ELSE /\ Touch(t, k)[j] # None
                                 /\ Touch(t, k)[j].expires = t[j].expires
<1>1. CASE t[k] = None
  BY <1>1 DEF Touch
<1>2. CASE t[k] # None
  <2> DEFINE row == Marked(t[k], t[k].made, calls)
  <2>1. Touch(t, k) = [t EXCEPT ![k] = row]
    BY <1>2 DEF Touch
  <2>2. /\ row \in RowsOf(k[1]) /\ row.expires = t[k].expires
        /\ row.made <= calls /\ row.touched <= calls
    <3>1. t[k].made \in Nat /\ t[k].made <= calls /\ calls \in Nat
      BY <1>2, LayerFacts
    <3> QED BY <1>2, <3>1, RowMarked
  <2> HIDE DEF row
  <2>3. /\ LayerInv([t EXCEPT ![k] = row]) /\ [t EXCEPT ![k] = row][k] = row /\ row # None
        /\ \A j \in Keys : j # k => [t EXCEPT ![k] = row][j] = t[j]
    BY <2>2, RowPut
  <2> QED BY <1>2, <2>1, <2>2, <2>3
<1> QED BY <1>1, <1>2

LEMMA PromoteIs ==
  ASSUME ClockInv, NEW t, LayerInv(t), NEW u, LayerInv(u), NEW k \in Keys, u[k] # None
  PROVE  /\ LayerInv(Promote(t, k, u[k]))
         /\ \A j \in Keys : \/ Promote(t, k, u[k])[j] = t[j]
                            \/ /\ j = k /\ Promote(t, k, u[k])[j] # None
                               /\ Promote(t, k, u[k])[j].expires = u[k].expires
<1>1. CASE t[k] = None
  <2> DEFINE row == Marked(u[k], 0, calls)
  <2>1. Promote(t, k, u[k]) = [t EXCEPT ![k] = row]
    BY <1>1 DEF Promote
  <2>2. /\ row \in RowsOf(k[1]) /\ row.expires = u[k].expires
        /\ row.made <= calls /\ row.touched <= calls
    <3>1. calls \in Nat
      BY LayerFacts
    <3> QED BY <3>1, RowMarked
  <2> HIDE DEF row
  <2>3. /\ LayerInv(Promote(t, k, u[k])) /\ Promote(t, k, u[k])[k] = row /\ row # None
        /\ \A j \in Keys : j # k => Promote(t, k, u[k])[j] = t[j]
    BY <2>1, <2>2, RowPut
  <2> QED BY <2>2, <2>3
<1>2. CASE t[k] # None
  BY <1>2 DEF Promote
<1> QED BY <1>1, <1>2

(* A signature of the new cache is one for the text it was looked up for.       *)
Found(sig) == sig # None => sig \in Signatures /\ sig.of = asking.text

(* The first layer after a lookup: a row that was there, or one that the second *)
(* layer has, with its expiry.                                                  *)
Promoted(t) ==
    /\ LayerInv(t)
    /\ \A k \in Keys : \/ t[k] = l1[k]
                       \/ t[k] # None /\ l1[k] # None /\ t[k].expires = l1[k].expires
                       \/ t[k] # None /\ l2[k] # None /\ t[k].expires = l2[k].expires

LEMMA AnywhereIs ==
  ASSUME ClockInv, NewInv, NEW t2, LayerInv(t2), \A k \in Keys : t2[k] = None \/ t2[k] = l2[k],
         Asked \in Keys
  PROVE  /\ Promoted(Anywhere(t2).l1) /\ Anywhere(t2).l2 = t2 /\ Found(Anywhere(t2).sig)
         /\ Has(l1, Asked) => Anywhere(t2).sig # None
<1> DEFINE live == {k \in SameText : Has(l1, k)}
           first == Newest(l1, live)
           second == SelectNewest(t2, SameText)
<1>0. /\ LayerInv(l1) /\ LayerInv(l2) /\ calls \in Nat /\ None \notin Keys
      /\ None \notin Signatures
  BY StoreAssumption, LayerFacts DEF NewInv
<1>1. \A k \in Keys : l1[k] # None => /\ l1[k].made \in Nat /\ l1[k].touched \in Nat
                                      /\ l1[k].sig \in Signatures /\ l1[k].sig.of = k[1]
  BY <1>0, LayerFacts
<1>2. \A k \in Keys : t2[k] # None => /\ t2[k].made \in Nat /\ t2[k].touched \in Nat
                                      /\ t2[k].sig \in Signatures /\ t2[k].sig.of = k[1]
  BY <1>0, LayerFacts
<1>3. live \subseteq Keys /\ SameText \subseteq Keys /\ None \notin live /\ None \notin SameText
  BY <1>0 DEF SameText
<1>4. Numbered(l1, live) /\ Numbered(t2, SameText)
  BY <1>0, <1>3 DEF LayerInv, Numbered
<1>5. IF live = {} THEN first = None ELSE first \in live /\ l1[first] # None
  <2>1. \A k \in live : l1[k] # None
    BY DEF Has
  <2> HIDE DEF live
  <2> QED BY <1>0, <1>1, <1>3, <1>4, <2>1, NewestIs
<1>6. second # None => /\ Newest(t2, SameText) \in SameText /\ Has(t2, Newest(t2, SameText))
                       /\ second = t2[Newest(t2, SameText)]
  BY <1>0, <1>2, <1>3, <1>4, SelectNewestIs
<1>7. Has(l1, Asked) => Asked \in live
  BY DEF SameText, Asked
<1>8. Anywhere(t2) =
        IF first # None THEN [l1 |-> l1, l2 |-> t2, sig |-> l1[first].sig]
        ELSE IF second = None THEN [l1 |-> l1, l2 |-> t2, sig |-> None]
        ELSE [l1 |-> Promote(l1, Newest(t2, SameText), second), l2 |-> t2, sig |-> second.sig]
  BY DEF Anywhere
<1>9. Promoted(l1)
  BY <1>0 DEF Promoted
<1>10. \A k \in live : l1[k] # None /\ k \in Keys /\ k[1] = asking.text
  BY DEF SameText, Has
<1>11. \A k \in SameText : k[1] = asking.text
  BY DEF SameText
<1> HIDE DEF live, first, second
<1>12. CASE first # None
  BY <1>1, <1>5, <1>8, <1>9, <1>10, <1>12, <1>0 DEF Found
<1>13. CASE first = None /\ second = None
  BY <1>0, <1>3, <1>5, <1>7, <1>8, <1>9, <1>13 DEF Found
<1>14. CASE first = None /\ second # None
  <2> DEFINE k == Newest(t2, SameText)
  <2>1. k \in Keys /\ t2[k] # None /\ second = t2[k] /\ k[1] = asking.text
    BY <1>3, <1>6, <1>11, <1>14 DEF Has
  <2> HIDE DEF k
  <2>2. t2[k] = l2[k]
    BY <2>1
  <2>3. Promoted(Promote(l1, k, second))
    <3>1. /\ LayerInv(Promote(l1, k, t2[k]))
          /\ \A j \in Keys : \/ Promote(l1, k, t2[k])[j] = l1[j]
                             \/ /\ j = k /\ Promote(l1, k, t2[k])[j] # None
                                /\ Promote(l1, k, t2[k])[j].expires = t2[k].expires
      BY <1>0, <2>1, PromoteIs
    <3> QED BY <2>1, <2>2, <3>1 DEF Promoted
  <2>4. Found(second.sig)
    BY <1>2, <2>1 DEF Found
  <2>5. Anywhere(t2) = [l1 |-> Promote(l1, k, second), l2 |-> t2, sig |-> second.sig]
    BY <1>8, <1>14 DEF k
  <2>6. ~Has(l1, Asked)
    BY <1>0, <1>3, <1>5, <1>7, <1>14
  <2> QED BY <2>3, <2>4, <2>5, <2>6
<1> QED BY <1>12, <1>13, <1>14

LEMMA ReadFromNewIs ==
  ASSUME ClockInv, NewInv, Asked \in Keys
  PROVE  /\ Promoted(ReadFromNew.l1) /\ Found(ReadFromNew.sig)
         /\ LayerInv(ReadFromNew.l2)
         /\ \A k \in Keys : IF l2[k] = None THEN ReadFromNew.l2[k] = None
                            ELSE /\ ReadFromNew.l2[k] # None
                                 /\ ReadFromNew.l2[k].expires = l2[k].expires
         /\ (Has(l1, Asked) \/ Has(l2, Asked)) => ReadFromNew.sig # None
<1>0. /\ LayerInv(l1) /\ LayerInv(l2) /\ None \notin Signatures /\ Asked[1] = asking.text
  BY StoreAssumption DEF NewInv, Asked
<1>1. \A k \in Keys : l1[k] # None => l1[k].sig \in Signatures /\ l1[k].sig.of = k[1]
  BY <1>0, LayerFacts
<1>2. \A k \in Keys : l2[k] # None => l2[k].sig \in Signatures /\ l2[k].sig.of = k[1]
  BY <1>0, LayerFacts
<1>3. CASE Has(l1, Asked)
  <2>1. ReadFromNew = [l1 |-> Touch(l1, Asked), l2 |-> l2, sig |-> l1[Asked].sig]
    BY <1>3 DEF ReadFromNew
  <2>2. Promoted(Touch(l1, Asked))
    <3>1. /\ LayerInv(Touch(l1, Asked))
          /\ \A j \in Keys : IF l1[j] = None THEN Touch(l1, Asked)[j] = None
                             ELSE /\ Touch(l1, Asked)[j] # None
                                  /\ Touch(l1, Asked)[j].expires = l1[j].expires
      BY <1>0, LayerTouched
    <3> QED BY <3>1 DEF Promoted
  <2> QED BY <1>0, <1>1, <1>3, <2>1, <2>2 DEF Found, Has
<1>4. CASE ~Has(l1, Asked) /\ Has(l2, Asked)
  <2>1. ReadFromNew = [l1 |-> Promote(l1, Asked, l2[Asked]), l2 |-> Touch(l2, Asked),
                       sig |-> l2[Asked].sig]
    BY <1>4 DEF ReadFromNew
  <2>2. Promoted(Promote(l1, Asked, l2[Asked]))
    <3>1. l2[Asked] # None
      BY <1>4 DEF Has
    <3>2. /\ LayerInv(Promote(l1, Asked, l2[Asked]))
          /\ \A j \in Keys :
               \/ Promote(l1, Asked, l2[Asked])[j] = l1[j]
               \/ /\ j = Asked /\ Promote(l1, Asked, l2[Asked])[j] # None
                  /\ Promote(l1, Asked, l2[Asked])[j].expires = l2[Asked].expires
      BY <1>0, <3>1, PromoteIs
    <3> QED BY <3>1, <3>2 DEF Promoted
  <2>3. /\ LayerInv(Touch(l2, Asked))
        /\ \A j \in Keys : IF l2[j] = None THEN Touch(l2, Asked)[j] = None
                           ELSE /\ Touch(l2, Asked)[j] # None
                                /\ Touch(l2, Asked)[j].expires = l2[j].expires
    BY <1>0, LayerTouched
  <2> QED BY <1>0, <1>2, <1>4, <2>1, <2>2, <2>3 DEF Found, Has
<1>5. CASE ~Has(l1, Asked) /\ ~Has(l2, Asked)
  <2>1. ReadFromNew = Anywhere(l2)
    BY <1>5 DEF ReadFromNew
  <2>2. Promoted(Anywhere(l2).l1) /\ Anywhere(l2).l2 = l2 /\ Found(Anywhere(l2).sig)
    BY <1>0, AnywhereIs
  <2> QED BY <1>0, <1>5, <2>1, <2>2
<1> QED BY <1>3, <1>4, <1>5

(* A step that does not concern the threads keeps what there is to keep of the  *)
(* new cache if it keeps what was brought to it.                                *)
LEMMA NewStep ==
  ASSUME ClockInv, NewInv, GoesOn, UNCHANGED <<now, writers>>,
         LayerInv(l1'), LayerInv(l2'),
         until' \in [Keys -> (1..(MaxTime + L1TTL)) \cup {None}],
         \A k \in Keys : until'[k] # None =>
            /\ until'[k] = until[k]
            /\ now <= until[k] /\ l2[k] # None /\ l2[k].expires >= until[k]
               /\ (l1[k] # None => l1[k].expires >= until[k])
               => /\ l2'[k] # None /\ l2'[k].expires >= until[k]
                  /\ l1'[k] # None => l1'[k].expires >= until[k],
         PurgeInv'
  PROVE  NewInv'
<1>1. calls \in Nat /\ calls' \in Nat /\ calls <= calls'
  BY DEF GoesOn
<1>2. LayerInv(l1)'
  <2>1. \A k \in Keys : l1'[k] # None => l1'[k].made <= calls' /\ l1'[k].touched <= calls'
    <3>1. \A k \in Keys : l1'[k] # None => /\ l1'[k].made \in Nat /\ l1'[k].touched \in Nat
                                           /\ l1'[k].made <= calls /\ l1'[k].touched <= calls
      BY LayerFacts
    <3> QED BY <1>1, <3>1
  <2> QED BY <2>1 DEF LayerInv, Numbered
<1>3. LayerInv(l2)'
  <2>1. \A k \in Keys : l2'[k] # None => l2'[k].made <= calls' /\ l2'[k].touched <= calls'
    <3>1. \A k \in Keys : l2'[k] # None => /\ l2'[k].made \in Nat /\ l2'[k].touched \in Nat
                                           /\ l2'[k].made <= calls /\ l2'[k].touched <= calls
      BY LayerFacts
    <3> QED BY <1>1, <3>1
  <2> QED BY <2>1 DEF LayerInv, Numbered
<1>4. \A k \in Keys : BroughtInv(k)'
  BY DEF NewInv, BroughtInv, Brought
<1>5. \A w \in writers : w.row # None => w.row.made <= calls' /\ w.row.touched <= calls'
  <2>1. \A w \in writers : w.row # None => w.row.made \in Nat /\ w.row.touched \in Nat
    BY DEF NewInv, Writings, Rows
  <2> QED BY <1>1, <2>1 DEF NewInv
<1> QED BY <1>2, <1>3, <1>4, <1>5 DEF NewInv
-----------------------------------------------------------------------------
(* The question for a text.                                                     *)
LEMMA TextAsked ==
  ASSUME AskInv, At("text")
  PROVE  /\ asking # None /\ asking.layers # <<>> /\ Head(asking.layers) = "text"
         /\ asking \in Questionings /\ asking.text \in Texts /\ Asked \in Keys
<1>1. asking # None /\ asking.layers # <<>> /\ Head(asking.layers) = "text"
  BY DEF At
<1>2. asking \in Questionings /\ asking.layers \in Seq(Layers) /\ asking.owner \in Owners
  BY <1>1 DEF AskInv, Questionings
<1>3. 1 \in DOMAIN asking.layers /\ asking.layers[1] = "text"
  BY <1>1, <1>2
<1>4. asking.text \in Texts
  BY <1>1, <1>3 DEF AskInv
<1> QED BY <1>1, <1>2, <1>4 DEF Asked, Keys

LEMMA EntryIsProper ==
  ASSUME At("text"), NEW e \in TextEntries, Norm[e.text] = Norm[asking.text]
  PROVE  Proper(e.sig)
  BY DEF TextEntries, Entries, Proper, At

LEMMA FoundIsProper ==
  ASSUME At("text"), NEW sig, Found(sig)
  PROVE  sig = None \/ Proper(sig)
  BY DEF Found, Proper, At

(* A lookup in the new cache keeps what was brought there.                      *)
LEMMA LookupKeepsNew ==
  ASSUME ClockInv, NewInv, GoesOn, UNCHANGED <<now, writers, until>>,
         Promoted(l1'), LayerInv(l2'),
         \A k \in Keys : IF l2[k] = None THEN l2'[k] = None
                        ELSE l2'[k] # None /\ l2'[k].expires = l2[k].expires,
         asking' = None \/ ~asking'.purging
  PROVE  NewInv'
<1>1. LayerInv(l1')
  BY DEF Promoted
<1>2. until' \in [Keys -> (1..(MaxTime + L1TTL)) \cup {None}]
  BY DEF NewInv
<1>3. PurgeInv'
  BY DEF PurgeInv
<1>4. ASSUME NEW k \in Keys, until'[k] # None
      PROVE  /\ until'[k] = until[k]
             /\ now <= until[k] /\ l2[k] # None /\ l2[k].expires >= until[k]
                /\ (l1[k] # None => l1[k].expires >= until[k])
                => /\ l2'[k] # None /\ l2'[k].expires >= until[k]
                   /\ l1'[k] # None => l1'[k].expires >= until[k]
  BY DEF Promoted
<1> QED BY <1>1, <1>2, <1>3, <1>4, NewStep

LEMMA FallsBackIs ==
  ASSUME ClockInv, TextsInv, AskInv, At("text"), NEW r, Found(r.sig), FallsBack(r)
  PROVE  /\ adapter' \in Seq(TextEntries) /\ Len(adapter') <= MaxSize
         /\ AskInv' /\ (asking' = None \/ ~asking'.purging)
         /\ r.sig # None => asking' = None
<1>0. asking # None /\ asking.layers # <<>> /\ adapter \in Seq(TextEntries) /\ Len(adapter) <= MaxSize
  BY TextAsked DEF TextsInv
<1>1. CASE r.sig = None /\ ReadsLegacy /\ PrefersNew
  <2> DEFINE old == ReadFromLegacy(adapter, asking.text)
  <2>1. adapter' = old.map /\ Answers(old.sig)
    BY <1>1 DEF FallsBack
  <2>2. /\ old.map \in Seq(TextEntries) /\ Len(old.map) <= MaxSize
        /\ old.sig # None =>
             \E e \in TextEntries : old.sig = e.sig /\ Norm[e.text] = Norm[asking.text]
    BY <1>0, ReadFromLegacyIs
  <2> HIDE DEF old
  <2>3. old.sig = None \/ Proper(old.sig)
    BY <2>2, EntryIsProper
  <2> QED BY <1>0, <1>1, <2>1, <2>2, <2>3, AnswersIs
<1>2. CASE ~(r.sig = None /\ ReadsLegacy /\ PrefersNew)
  <2>1. adapter' = adapter /\ Answers(r.sig)
    BY <1>2 DEF FallsBack
  <2>2. r.sig = None \/ Proper(r.sig)
    BY FoundIsProper
  <2>3. AskInv' /\ (asking' = None \/ ~asking'.purging)
    BY <1>0, <2>1, <2>2, AnswersIs
  <2> QED BY <1>0, <2>1, <2>3 DEF Answers
<1> QED BY <1>1, <1>2

(* What the new cache has for the asker has not expired in its second layer.    *)
LEMMA BroughtIsThere ==
  ASSUME ClockInv, NewInv, Asked \in Keys, until[Asked] # None, now <= until[Asked]
  PROVE  /\ Has(l2, Asked)
         /\ l1[Asked] # None => Has(l1, Asked)
<1>1. BroughtInv(Asked) /\ LayerInv(l1) /\ LayerInv(l2) /\ until[Asked] \in Nat /\ now \in Nat
  BY StoreAssumption DEF NewInv, ClockInv
<1>2. /\ l1[Asked] # None => l1[Asked].expires \in Nat
      /\ l2[Asked] # None => l2[Asked].expires \in Nat
  BY <1>1, LayerFacts
<1> QED BY <1>1, <1>2 DEF BroughtInv, Brought, Has, IsExpired

LEMMA ReadsIs ==
  ASSUME IInv, At("text"), ~asking.purging, GoesOn, UNCHANGED <<now, writers, until>>,
         NEW old, old.map \in Seq(TextEntries), Len(old.map) <= MaxSize,
         old.sig = None \/ Proper(old.sig), Reads(old)
  PROVE  /\ adapter' \in Seq(TextEntries) /\ Len(adapter') <= MaxSize
         /\ NewInv' /\ AskInv'
         /\ asking' # None /\ ReadsNew /\ until[Asked] # None /\ now <= until[Asked]
            => asking'.layers = asking.layers
<1>0. /\ asking # None /\ asking.layers # <<>> /\ Asked \in Keys /\ asking \in Questionings
      /\ ClockInv /\ TextsInv /\ NewInv /\ AskInv
  BY TextAsked DEF IInv
<1>1. CASE old.sig # None \/ ~ReadsNew
  <2>1. adapter' = old.map /\ Answers(old.sig) /\ UNCHANGED <<l1, l2>>
    BY <1>1 DEF Reads
  <2>2. AskInv' /\ (asking' = None \/ ~asking'.purging)
    BY <1>0, <2>1, AnswersIs
  <2>3. NewInv'
    BY <1>0, <2>1, <2>2, NewKept
  <2> QED BY <1>1, <2>1, <2>2, <2>3 DEF Answers
<1>2. CASE old.sig = None /\ ReadsNew /\ MustPurge
  <2>1. /\ adapter' = old.map
        /\ asking' = [asking EXCEPT !.purging = TRUE]
        /\ UNCHANGED <<l1, l2, answer>>
    BY <1>2 DEF Reads
  <2>2. /\ asking' \in Questionings /\ asking'.layers = asking.layers
        /\ asking'.text = asking.text /\ asking'.owner = asking.owner
    BY <1>0, <2>1 DEF Questionings
  <2>3. AskInv'
    BY <1>0, <2>1, <2>2 DEF AskInv, RightText, SignatureAges
  <2>4. PurgeInv'
    <3>1. Asked' = Asked
      BY <2>2 DEF Asked
    <3>2. ~Has(l2, Asked)
      BY <1>2 DEF MustPurge, HasExpired, Has
    <3>3. ~(until[Asked] # None /\ now <= until[Asked])
      BY <1>0, <3>2, BroughtIsThere
    <3> QED BY <3>1, <3>3 DEF PurgeInv
  <2>5. NewInv'
    <3>1. LayerInv(l1') /\ LayerInv(l2')
          /\ until' \in [Keys -> (1..(MaxTime + L1TTL)) \cup {None}]
      BY <1>0, <2>1 DEF NewInv
    <3> QED BY <1>0, <2>1, <2>4, <3>1, NewStep
  <2> QED BY <2>1, <2>2, <2>3, <2>5
<1>3. CASE old.sig = None /\ ReadsNew /\ ~MustPurge
  <2> DEFINE r == ReadFromNew
  <2>1. /\ l1' = r.l1 /\ l2' = r.l2
        /\ IF PrefersNew THEN FallsBack(r) ELSE adapter' = old.map /\ Answers(r.sig)
    BY <1>3 DEF Reads
  <2>2. /\ Promoted(r.l1) /\ Found(r.sig) /\ LayerInv(r.l2)
        /\ \A k \in Keys : IF l2[k] = None THEN r.l2[k] = None
                           ELSE r.l2[k] # None /\ r.l2[k].expires = l2[k].expires
        /\ (Has(l1, Asked) \/ Has(l2, Asked)) => r.sig # None
    BY <1>0, ReadFromNewIs
  <2> HIDE DEF r
  <2>3. /\ adapter' \in Seq(TextEntries) /\ Len(adapter') <= MaxSize
        /\ AskInv' /\ (asking' = None \/ ~asking'.purging)
        /\ r.sig # None => asking' = None
    <3>1. CASE PrefersNew
      BY <1>0, <2>1, <2>2, <3>1, FallsBackIs
    <3>2. CASE ~PrefersNew
      <4>1. adapter' = old.map /\ Answers(r.sig)
        BY <2>1, <3>2
      <4>2. r.sig = None \/ Proper(r.sig)
        BY <2>2, FoundIsProper
      <4>3. AskInv' /\ (asking' = None \/ ~asking'.purging)
        BY <1>0, <4>1, <4>2, AnswersIs
      <4> QED BY <4>1, <4>3 DEF Answers
    <3> QED BY <3>1, <3>2
  <2>4. NewInv'
    BY <1>0, <2>1, <2>2, <2>3, LookupKeepsNew
  <2>5. until[Asked] # None /\ now <= until[Asked] => asking' = None
    BY <1>0, <2>2, <2>3, BroughtIsThere
  <2> QED BY <2>3, <2>4, <2>5
<1> QED BY <1>1, <1>2, <1>3

(* What a step of the kind that asks may not do with what the new cache has.    *)
Finds == At("text") /\ migration /\ ReadsNew /\ asking' # None
         /\ until[Asked] # None /\ now <= until[Asked]
           => asking'.layers = asking.layers

LEMMA AskTextIs ==
  ASSUME IInv, AskText
  PROVE  IInv' /\ Finds
<1>0. /\ ClockInv /\ TextsInv /\ NewInv /\ AskInv /\ IdsInv /\ At("text") /\ ~asking.purging
      /\ UNCHANGED <<now, calls, scene, migration, phase, tools, sessions, db, writers, stored, until>>
      /\ GoesOn
  BY SameCallGoesOn DEF IInv, AskText, mode
<1>1. ClockInv' /\ IdsInv'
  BY <1>0, IdsKept DEF ClockInv
<1>2. asking # None /\ asking.layers # <<>>
  BY <1>0, TextAsked
<1>3. CASE migration
  <2> DEFINE old == IF PrefersNew THEN Answer(adapter, None)
                    ELSE ReadFromLegacy(adapter, asking.text)
  <2>1. Reads(old) /\ UNCHANGED main
    BY <1>3 DEF AskText
  <2>2. /\ old.map \in Seq(TextEntries) /\ Len(old.map) <= MaxSize
        /\ old.sig # None =>
             \E e \in TextEntries : old.sig = e.sig /\ Norm[e.text] = Norm[asking.text]
    BY <1>0, ReadFromLegacyIs DEF TextsInv, Answer
  <2> HIDE DEF old
  <2>3. old.sig = None \/ Proper(old.sig)
    BY <1>0, <2>2, EntryIsProper
  <2>4. /\ adapter' \in Seq(TextEntries) /\ Len(adapter') <= MaxSize
        /\ NewInv' /\ AskInv'
        /\ asking' # None /\ ReadsNew /\ until[Asked] # None /\ now <= until[Asked]
           => asking'.layers = asking.layers
    BY <1>0, <2>1, <2>2, <2>3, ReadsIs
  <2>5. TextsInv'
    BY <1>0, <2>1, <2>4 DEF TextsInv
  <2> QED BY <1>1, <2>4, <2>5 DEF IInv, Finds
<1>4. CASE ~migration
  <2> DEFINE old == GetText(main, asking.text, asking.owner)
  <2>1. main' = old.map /\ Answers(old.sig) /\ UNCHANGED <<adapter, l1, l2>>
    BY <1>4 DEF AskText
  <2>2. /\ old.map \in Seq(TextEntries) /\ Len(old.map) <= MaxSize
        /\ old.sig # None =>
             \E e \in TextEntries : old.sig = e.sig /\ Norm[e.text] = Norm[asking.text]
    BY <1>0, GetTextIs DEF TextsInv
  <2> HIDE DEF old
  <2>3. old.sig = None \/ Proper(old.sig)
    BY <1>0, <2>2, EntryIsProper
  <2>4. AskInv' /\ (asking' = None \/ ~asking'.purging)
    BY <1>0, <1>2, <2>1, <2>3, AnswersIs
  <2>5. NewInv'
    BY <1>0, <2>1, <2>4, NewKept
  <2>6. TextsInv'
    BY <1>0, <2>1, <2>2 DEF TextsInv
  <2> QED BY <1>1, <1>4, <2>4, <2>5, <2>6 DEF IInv, Finds
<1> QED BY <1>3, <1>4

LEMMA PurgesIs ==
  ASSUME IInv, Purges
  PROVE  IInv' /\ Finds
<1>0. /\ ClockInv /\ TextsInv /\ NewInv /\ AskInv /\ IdsInv /\ At("text") /\ asking.purging
      /\ UNCHANGED <<now, calls, scene, migration, phase, tools, sessions, main, db, writers, stored>>
      /\ GoesOn
  BY SameCallGoesOn DEF IInv, Purges, mode
<1>1. ClockInv' /\ IdsInv'
  BY <1>0, IdsKept DEF ClockInv
<1>2. asking # None /\ Asked \in Keys
  BY <1>0, TextAsked
<1> DEFINE t2 == Delete(l2, Asked)
           r == Anywhere(t2)
<1>3. /\ LayerInv(l1) /\ LayerInv(l2)
      /\ l2 \in [Keys -> Rows \cup {None}]
      /\ until \in [Keys -> (1..(MaxTime + L1TTL)) \cup {None}]
  BY <1>0 DEF NewInv, LayerInv
<1>4. /\ t2 \in [Keys -> Rows \cup {None}] /\ t2[Asked] = None
      /\ \A k \in Keys : k # Asked => t2[k] = l2[k]
  BY <1>2, <1>3 DEF Delete
<1>5. l1' = r.l1 /\ l2' = r.l2 /\ FallsBack(r) /\ until' = Delete(until, Asked)
  BY DEF Purges
<1> HIDE DEF t2
<1>6. LayerInv(t2) /\ \A k \in Keys : t2[k] = None \/ t2[k] = l2[k]
  BY <1>3, <1>4, RowsLeft
<1>7. /\ Promoted(r.l1) /\ r.l2 = t2 /\ Found(r.sig)
      /\ Has(l1, Asked) => r.sig # None
  BY <1>0, <1>2, <1>6, AnywhereIs
<1> HIDE DEF r
<1>8. /\ adapter' \in Seq(TextEntries) /\ Len(adapter') <= MaxSize
      /\ AskInv' /\ (asking' = None \/ ~asking'.purging)
      /\ r.sig # None => asking' = None
  BY <1>0, <1>5, <1>7, FallsBackIs
<1>9. /\ until' \in [Keys -> (1..(MaxTime + L1TTL)) \cup {None}]
      /\ until'[Asked] = None /\ \A k \in Keys : k # Asked => until'[k] = until[k]
  BY <1>2, <1>3, <1>5 DEF Delete
<1>10. NewInv'
  <2>1. LayerInv(l1') /\ LayerInv(l2') /\ PurgeInv'
    BY <1>5, <1>6, <1>7, <1>8 DEF Promoted, PurgeInv
  <2>2. ASSUME NEW k \in Keys, until'[k] # None
        PROVE  /\ until'[k] = until[k]
               /\ now <= until[k] /\ l2[k] # None /\ l2[k].expires >= until[k]
                  /\ (l1[k] # None => l1[k].expires >= until[k])
                  => /\ l2'[k] # None /\ l2'[k].expires >= until[k]
                     /\ l1'[k] # None => l1'[k].expires >= until[k]
    BY <1>4, <1>5, <1>7, <1>9, <2>2 DEF Promoted
  <2> QED BY <1>0, <1>9, <2>1, <2>2, NewStep
<1>11. TextsInv'
  BY <1>0, <1>8 DEF TextsInv
<1>12. until[Asked] # None /\ now <= until[Asked] => asking' = None
  <2>1. until[Asked] # None /\ now <= until[Asked] => l1[Asked] # None
    BY <1>0, <1>2 DEF NewInv, PurgeInv
  <2> QED BY <1>0, <1>2, <1>7, <1>8, <2>1, BroughtIsThere
<1> QED BY <1>1, <1>8, <1>10, <1>11, <1>12 DEF IInv, Finds
-----------------------------------------------------------------------------
(* The calls that store.                                                        *)
LEMMA SignatureIs ==
  ASSUME ClockInv, NEW text \in Texts \cup {None}, NEW owner \in Owners, NEW valid \in BOOLEAN
  PROVE  /\ Signature(text, owner, valid) \in Signatures
         /\ Signature(text, owner, valid).at = now /\ Signature(text, owner, valid).of = text
  BY DEF ClockInv, Signature, Signatures

LEMMA CacheToolIs ==
  ASSUME IInv, CacheToolSignature
  PROVE  IInv' /\ Finds
<1>0. /\ ClockInv /\ TextsInv /\ NewInv /\ AskInv /\ IdsInv
      /\ UNCHANGED <<now, scene, migration, phase, sessions, main, adapter, l1, l2, writers,
                     asking, until>>
      /\ Calls("tools")
  BY DEF IInv, CacheToolSignature, mode, new
<1>1. GoesOn /\ asking = None /\ answer' = None /\ calls' \in 0..MaxCalls[scene]
  BY <1>0, CallGoesOn
<1>2. PICK k \in Tools, owner \in Owners, valid \in BOOLEAN, up \in BOOLEAN :
        /\ tools' = Remember(tools, k, Signature(None, owner, valid), owner)
        /\ db' = IF migration THEN FacadeCacheTool(k, Signature(None, owner, valid), up) ELSE db
        /\ Stores(k, Signature(None, owner, valid), up)
  BY DEF CacheToolSignature
<1> DEFINE sig == Signature(None, owner, valid)
<1>3. sig \in Signatures /\ sig.at = now
  BY <1>0, SignatureIs
<1>4. db' = IF migration /\ up THEN SetSignature(db, k, sig, DbTTL) ELSE db
  BY <1>2 DEF FacadeCacheTool, SetToolSignature
<1> HIDE DEF sig
<1>5. IdsInv'
  <2>1. Stores(k, sig, up) /\ tools' = Remember(tools, k, sig, owner)
    BY <1>2 DEF sig
  <2>2. k \in Ids
    BY DEF Ids
  <2> QED BY <1>0, <1>1, <1>3, <1>4, <2>1, <2>2, StoresIs
<1>6. ClockInv' /\ TextsInv' /\ NewInv' /\ AskInv'
  BY <1>0, <1>1, TextsKept, NewKept, AskKept DEF ClockInv
<1> QED BY <1>1, <1>5, <1>6 DEF IInv, Finds, At

LEMMA CacheSessionIs ==
  ASSUME IInv, CacheSessionSignature
  PROVE  IInv' /\ Finds
<1>0. /\ ClockInv /\ TextsInv /\ NewInv /\ AskInv /\ IdsInv
      /\ UNCHANGED <<now, scene, migration, phase, tools, main, adapter, l1, l2, writers,
                     asking, until>>
      /\ Calls("sessions")
  BY DEF IInv, CacheSessionSignature, mode, new
<1>1. GoesOn /\ asking = None /\ answer' = None /\ calls' \in 0..MaxCalls[scene]
  BY <1>0, CallGoesOn
<1>2. PICK k \in Sessions, owner \in Owners, valid \in BOOLEAN, up \in BOOLEAN :
        /\ sessions' = RememberSession(sessions, k, Signature(None, owner, valid), owner)
        /\ db' = IF migration THEN FacadeCacheSession(k, Signature(None, owner, valid), up) ELSE db
        /\ Stores(k, Signature(None, owner, valid), up)
  BY DEF CacheSessionSignature
<1> DEFINE sig == Signature(None, owner, valid)
<1>3. sig \in Signatures /\ sig.at = now
  BY <1>0, SignatureIs
<1>4. db' = IF migration /\ up THEN SetSignature(db, k, sig, DbTTL) ELSE db
  BY <1>2 DEF FacadeCacheSession, SetSessionSignature
<1> HIDE DEF sig
<1>5. IdsInv'
  <2>1. Stores(k, sig, up) /\ sessions' = Remember(sessions, k, sig, owner)
    BY <1>2 DEF sig, RememberSession
  <2>2. k \in Ids /\ k \notin Tools
    BY StoreAssumption DEF Ids
  <2> QED BY <1>0, <1>1, <1>3, <1>4, <2>1, <2>2, StoresIs
<1>6. ClockInv' /\ TextsInv' /\ NewInv' /\ AskInv'
  BY <1>0, <1>1, TextsKept, NewKept, AskKept DEF ClockInv
<1> QED BY <1>1, <1>5, <1>6 DEF IInv, Finds, At

(* A thread is started, or not.                                                 *)
LEMMA ThreadStarts ==
  ASSUME NewInv, GoesOn, asking = None, asking' = None, UNCHANGED <<now, l1, l2, until>>,
         NEW key \in Keys, NEW sig \in Signatures, sig.of = key[1],
         StartsThread(key, sig) \/ UNCHANGED writers
  PROVE  NewInv'
<1>1. CASE UNCHANGED writers
  BY <1>1, NewKept
<1>2. CASE StartsThread(key, sig)
  <2> DEFINE w == [key |-> key, sig |-> sig, row |-> None]
  <2>1. w \in Writings /\ w.row = None
    BY DEF Writings
  <2>2. writers' = writers \cup {w}
    BY <1>2 DEF StartsThread
  <2> HIDE DEF w
  <2>3. writers' \subseteq Writings
    BY <2>1, <2>2 DEF NewInv
  <2>4. \A v \in writers' : v.row # None => v \in writers
    BY <2>1, <2>2
  <2>5. ASSUME NEW v \in writers', v.row # None
        PROVE  v.row.expires <= now' + L1TTL /\ v.row.made <= calls' /\ v.row.touched <= calls'
    <3>1. /\ v.row.expires <= now + L1TTL /\ v.row.made <= calls /\ v.row.touched <= calls
          /\ v.row \in Rows
      BY <2>4, <2>5 DEF NewInv, Writings
    <3> QED BY <3>1 DEF GoesOn, Rows
  <2>6. LayerInv(l1)' /\ LayerInv(l2)'
    BY NumberedKept DEF NewInv, LayerInv, Numbered, RowsOf, Rows
  <2>7. \A k \in Keys : BroughtInv(k)'
    BY DEF NewInv, BroughtInv, Brought
  <2> QED BY <2>3, <2>5, <2>6, <2>7 DEF NewInv, PurgeInv
<1> QED BY <1>1, <1>2

LEMMA SetTextIs ==
  ASSUME ClockInv, TextsInv, NEW text \in Texts, NEW owner \in Owners \cup {None},
         NEW sig \in Signatures, sig.of = text, sig.at = now
  PROVE  Entry(text, sig, owner) \in TextEntries
  BY StoreAssumption DEF ClockInv, Entry, TextEntries, Entries

LEMMA CacheTextIs ==
  ASSUME IInv, CacheSignature
  PROVE  IInv' /\ Finds
<1>0. /\ ClockInv /\ TextsInv /\ NewInv /\ AskInv /\ IdsInv
      /\ UNCHANGED <<now, scene, migration, phase, tools, sessions, db, l1, l2, asking,
                     stored, until>>
      /\ Calls("texts")
  BY DEF IInv, CacheSignature, mode
<1>1. GoesOn /\ asking = None /\ answer' = None /\ calls' \in 0..MaxCalls[scene]
  BY <1>0, CallGoesOn
<1>2. PICK text \in Texts, owner \in Owners :
        IF migration
        THEN AdapterSet(text, Signature(text, owner, TRUE), owner) /\ UNCHANGED main
        ELSE /\ main' = SetText(main, text, Signature(text, owner, TRUE), owner)
             /\ UNCHANGED <<adapter, writers>>
  BY DEF CacheSignature
<1> DEFINE sig == Signature(text, owner, TRUE)
<1>3. sig \in Signatures /\ sig.at = now /\ sig.of = text
  BY <1>0, SignatureIs
<1>4. Entry(text, sig, owner) \in TextEntries /\ Entry(text, sig, None) \in TextEntries
  BY <1>0, <1>3, SetTextIs
<1>5. <<text, owner>> \in Keys /\ <<text, owner>>[1] = text
  BY DEF Keys
<1>6. \/ UNCHANGED <<main, writers>> /\ adapter' = Store(adapter, Entry(text, sig, None))
      \/ UNCHANGED <<main, writers, adapter>>
      \/ UNCHANGED main /\ StartsThread(<<text, owner>>, sig)
         /\ (adapter' = Store(adapter, Entry(text, sig, None)) \/ UNCHANGED adapter)
      \/ main' = Store(main, Entry(text, sig, owner)) /\ UNCHANGED <<adapter, writers>>
  BY <1>2 DEF AdapterSet, DualWrite, WriteToLegacy, SetText
<1> HIDE DEF sig
<1>7. TextsInv'
  <2>1. /\ Store(adapter, Entry(text, sig, None)) \in Seq(TextEntries)
        /\ Len(Store(adapter, Entry(text, sig, None))) <= MaxSize
    BY <1>0, <1>4, StoreIs DEF TextsInv
  <2>2. /\ Store(main, Entry(text, sig, owner)) \in Seq(TextEntries)
        /\ Len(Store(main, Entry(text, sig, owner))) <= MaxSize
    BY <1>0, <1>4, StoreIs DEF TextsInv
  <2> QED BY <1>0, <1>6, <2>1, <2>2 DEF TextsInv
<1>8. NewInv'
  <2>1. StartsThread(<<text, owner>>, sig) \/ UNCHANGED writers
    BY <1>6
  <2> QED BY <1>0, <1>1, <1>3, <1>5, <2>1, ThreadStarts
<1>9. ClockInv' /\ IdsInv' /\ AskInv'
  BY <1>0, <1>1, IdsKept, AskKept DEF ClockInv
<1> QED BY <1>1, <1>7, <1>8, <1>9 DEF IInv, Finds, At

(* The threads.                                                                 *)
LEMMA WriterL1Is ==
  ASSUME IInv, NEW w \in writers, WriterSetsL1(w)
  PROVE  IInv' /\ Finds
<1>0. /\ ClockInv /\ TextsInv /\ NewInv /\ AskInv /\ IdsInv /\ w.row = None
      /\ UNCHANGED <<now, calls, scene, migration, phase, tools, sessions, main, adapter, db, l2,
                     asking, answer, stored, until>>
      /\ GoesOn
  BY SameCallGoesOn DEF IInv, WriterSetsL1, mode, memory, history
<1> DEFINE row == Marked(Row(w.sig, L1TTL), calls, calls)
           row1 == Marked(row, 0, calls)
           v == [key |-> w.key, sig |-> w.sig, row |-> row]
<1>1. /\ w.key \in Keys /\ w.sig \in Signatures /\ w.sig.of = w.key[1]
      /\ L1TTL \in Nat \ {0} /\ MaxTime \in Nat /\ now \in 1..MaxTime /\ calls \in Nat
      /\ LayerInv(l1) /\ LayerInv(l2) /\ None \notin Rows
  BY <1>0, StoreAssumption DEF NewInv, Writings, ClockInv
<1>2. /\ l1' = [l1 EXCEPT ![w.key] = row1] /\ writers' = (writers \ {w}) \cup {v}
  BY DEF WriterSetsL1
<1>3. row = [sig |-> w.sig, expires |-> now + L1TTL, made |-> calls, touched |-> calls]
  BY <1>1 DEF Row, Marked, Expiry
<1>4. row1 = [sig |-> w.sig, expires |-> now + L1TTL, made |-> 0, touched |-> calls]
  BY <1>3 DEF Marked
<1>5. /\ row \in Rows /\ row.sig = w.sig /\ row.expires = now + L1TTL
      /\ row.made = calls /\ row.touched = calls
  BY <1>1, <1>3 DEF Rows
<1>6. /\ row1 \in RowsOf(w.key[1]) /\ row1.expires = now + L1TTL
      /\ row1.made <= calls /\ row1.touched <= calls
  BY <1>1, <1>4 DEF Rows, RowsOf
<1> HIDE DEF row, row1
<1>7. v \in Writings /\ v.row = row
  BY <1>1, <1>5 DEF Writings
<1> HIDE DEF v
<1>8. /\ LayerInv(l1') /\ l1'[w.key] = row1 /\ row1 # None
      /\ \A k \in Keys : k # w.key => l1'[k] = l1[k]
  <2>1. /\ LayerInv([l1 EXCEPT ![w.key] = row1]) /\ [l1 EXCEPT ![w.key] = row1][w.key] = row1
        /\ row1 # None /\ \A k \in Keys : k # w.key => [l1 EXCEPT ![w.key] = row1][k] = l1[k]
    BY <1>0, <1>1, <1>6, RowPut
  <2> QED BY <1>2, <2>1
<1>9. LayerInv(l1)' /\ LayerInv(l2)'
  BY <1>0, <1>1, <1>8 DEF LayerInv, Numbered
<1>10. writers' \subseteq Writings
  BY <1>0, <1>2, <1>7 DEF NewInv
<1>11. \A x \in writers' : x.row # None => /\ x.row.expires <= now' + L1TTL
                                           /\ x.row.made <= calls' /\ x.row.touched <= calls'
  <2>1. v.row.expires <= now + L1TTL /\ v.row.made <= calls /\ v.row.touched <= calls
    BY <1>1, <1>5, <1>7
  <2> QED BY <1>0, <1>2, <2>1 DEF NewInv
<1>12. ASSUME NEW k \in Keys PROVE BroughtInv(k)'
  <2>1. BroughtInv(k)
    BY <1>0 DEF NewInv
  <2>2. CASE k = w.key
    BY <1>0, <1>6, <1>8, <2>1, <2>2 DEF BroughtInv, Brought
  <2>3. CASE k # w.key
    BY <1>0, <1>8, <2>1, <2>3 DEF BroughtInv, Brought
  <2> QED BY <2>2, <2>3
<1>13. PurgeInv'
  <2>1. PurgeInv /\ Asked' = Asked
    BY <1>0 DEF NewInv, Asked
  <2> QED BY <1>0, <1>8, <2>1 DEF PurgeInv
<1>14. until' \in [Keys -> (1..(MaxTime + L1TTL)) \cup {None}]
  BY <1>0 DEF NewInv
<1>15. NewInv'
  BY <1>9, <1>10, <1>11, <1>12, <1>13, <1>14 DEF NewInv
<1>16. ClockInv' /\ TextsInv' /\ IdsInv' /\ AskInv'
  BY <1>0, TextsKept, IdsKept, AskKept DEF ClockInv
<1> QED BY <1>0, <1>15, <1>16 DEF IInv, Finds, At

LEMMA WriterL2Is ==
  ASSUME IInv, NEW w \in writers, WriterSetsL2(w)
  PROVE  IInv' /\ Finds
<1>0. /\ ClockInv /\ TextsInv /\ NewInv /\ AskInv /\ IdsInv /\ w.row # None
      /\ UNCHANGED <<now, calls, scene, migration, phase, tools, sessions, main, adapter, db, l1,
                     asking, answer, stored>>
      /\ GoesOn
  BY SameCallGoesOn DEF IInv, WriterSetsL2, mode, memory
<1>1. /\ w.key \in Keys /\ w.sig \in Signatures /\ w.sig.of = w.key[1]
      /\ w.row \in Rows /\ w.row.sig = w.sig /\ w.row.expires \in Nat \ {0}
      /\ w.row.expires <= now + L1TTL /\ w.row.made <= calls
      /\ w.row.made \in Nat /\ calls \in Nat
      /\ L1TTL \in Nat /\ MaxTime \in Nat /\ now \in 1..MaxTime
      /\ LayerInv(l1) /\ LayerInv(l2) /\ None \notin Rows
      /\ until \in [Keys -> (1..(MaxTime + L1TTL)) \cup {None}]
  BY <1>0, StoreAssumption DEF NewInv, Writings, ClockInv, Rows
<1>2. /\ l2' = Set(l2, w.key, L2Row(w.row), TRUE) /\ writers' = writers \ {w}
      /\ until' = [until EXCEPT ![w.key] = IF InL1(w) THEN w.row.expires ELSE None]
  BY DEF WriterSetsL2
<1>3. L2Row(w.row) = Marked(w.row, w.row.made, 0)
  BY <1>1 DEF L2Row
<1> DEFINE row == IF l2[w.key] = None THEN Marked(w.row, w.row.made, 0)
                  ELSE Marked(w.row, l2[w.key].made, l2[w.key].touched)
<1>4. l2' = [l2 EXCEPT ![w.key] = row]
  <2>1. Marked(Marked(w.row, w.row.made, 0), l2[w.key].made, l2[w.key].touched)
          = Marked(w.row, l2[w.key].made, l2[w.key].touched)
    BY DEF Marked
  <2> QED BY <1>2, <1>3, <2>1 DEF Set
<1>5. /\ row \in RowsOf(w.key[1]) /\ row.expires = w.row.expires
      /\ row.made <= calls /\ row.touched <= calls
  <2>1. l2[w.key] # None => /\ l2[w.key].made \in Nat /\ l2[w.key].touched \in Nat
                            /\ l2[w.key].made <= calls /\ l2[w.key].touched <= calls
    BY <1>0, <1>1, LayerFacts
  <2> QED BY <1>1, <2>1 DEF Rows, RowsOf, Marked
<1> HIDE DEF row
<1>6. /\ LayerInv(l2') /\ l2'[w.key] = row /\ row # None
      /\ \A k \in Keys : k # w.key => l2'[k] = l2[k]
  <2>1. /\ LayerInv([l2 EXCEPT ![w.key] = row]) /\ [l2 EXCEPT ![w.key] = row][w.key] = row
        /\ row # None /\ \A k \in Keys : k # w.key => [l2 EXCEPT ![w.key] = row][k] = l2[k]
    BY <1>0, <1>1, <1>5, RowPut
  <2> QED BY <1>4, <2>1
<1>7. LayerInv(l1)' /\ LayerInv(l2)'
  BY <1>0, <1>1, <1>6 DEF LayerInv, Numbered
<1>8. /\ until' \in [Keys -> (1..(MaxTime + L1TTL)) \cup {None}]
      /\ until'[w.key] = IF InL1(w) THEN w.row.expires ELSE None
      /\ \A k \in Keys : k # w.key => until'[k] = until[k]
  <2>1. w.row.expires \in 1..(MaxTime + L1TTL)
    BY <1>1
  <2> QED BY <1>1, <1>2, <2>1
<1>9. ASSUME NEW k \in Keys PROVE BroughtInv(k)'
  <2>1. BroughtInv(k)
    BY <1>0 DEF NewInv
  <2>2. CASE k = w.key
    BY <1>0, <1>1, <1>5, <1>6, <1>8, <2>2 DEF BroughtInv, Brought, InL1
  <2>3. CASE k # w.key
    BY <1>0, <1>6, <1>8, <2>1, <2>3 DEF BroughtInv, Brought
  <2> QED BY <2>2, <2>3
<1>10. PurgeInv'
  <2>1. PurgeInv /\ Asked' = Asked
    BY <1>0 DEF NewInv, Asked
  <2> QED BY <1>0, <1>8, <2>1 DEF PurgeInv, InL1
<1>11. writers' \subseteq Writings /\ writers' \subseteq writers
  BY <1>0, <1>2 DEF NewInv
<1>12. NewInv'
  BY <1>0, <1>7, <1>8, <1>9, <1>10, <1>11 DEF NewInv
<1>13. ClockInv' /\ TextsInv' /\ IdsInv' /\ AskInv'
  BY <1>0, TextsKept, IdsKept, AskKept DEF ClockInv
<1> QED BY <1>0, <1>12, <1>13 DEF IInv, Finds, At

-----------------------------------------------------------------------------
(* The calls that ask.                                                          *)
LEMMA AsksIs ==
  ASSUME IInv, Asks
  PROVE  IInv' /\ Finds
<1>1. PICK layers \in Questions, tool \in Tools, session \in Sessions, owner \in Owners :
        \E text \in IF Head(layers) = "text" THEN Texts ELSE {None} :
          /\ Calls(About(Head(layers)))
          /\ asking' = [layers |-> layers, text |-> text, tool |-> tool, session |-> session,
                        owner |-> owner, purging |-> FALSE]
  BY DEF Asks
<1>2. PICK text \in IF Head(layers) = "text" THEN Texts ELSE {None} :
          /\ Calls(About(Head(layers)))
          /\ asking' = [layers |-> layers, text |-> text, tool |-> tool, session |-> session,
                        owner |-> owner, purging |-> FALSE]
  BY <1>1
<1>3. /\ ClockInv /\ TextsInv /\ NewInv /\ AskInv /\ IdsInv
      /\ UNCHANGED <<now, scene, migration, phase, tools, sessions, main, adapter, db, l1, l2,
                     writers, stored, until>>
  BY DEF IInv, Asks, mode, memory, new
<1>4. GoesOn /\ asking = None /\ answer' = None /\ calls' \in 0..MaxCalls[scene]
  BY <1>2, <1>3, CallGoesOn
<1>5. layers \in Seq(Layers) /\ \A i \in DOMAIN layers : layers[i] = "text" => Head(layers) = "text"
  <2>1. CASE layers = <<"text", "session", "lastText">>
    BY <2>1 DEF Layers
  <2>2. CASE layers = <<"session", "tool", "last">>
    BY <2>2 DEF Layers
  <2>3. CASE \E layer \in Layers : layers = <<layer>>
    BY <2>3
  <2>4. \/ layers = <<"text", "session", "lastText">>
        \/ layers = <<"session", "tool", "last">>
        \/ \E layer \in Layers : layers = <<layer>>
    BY DEF Questions, RecoverForThinking, RecoverForToolUse, Layers
  <2> QED BY <2>1, <2>2, <2>3, <2>4
<1>6. asking' \in Questionings
  BY <1>2, <1>5 DEF Questionings
<1>7. /\ asking'.layers = layers /\ asking'.text = text /\ ~asking'.purging
  BY <1>2
<1>8. AskInv'
  BY <1>4, <1>5, <1>6, <1>7 DEF AskInv, RightText, SignatureAges
<1>9. ClockInv' /\ TextsInv' /\ IdsInv' /\ NewInv'
  BY <1>3, <1>4, <1>7, TextsKept, IdsKept, NewKept DEF ClockInv
<1> QED BY <1>4, <1>8, <1>9 DEF IInv, Finds, At

LEMMA GivesUpIs ==
  ASSUME IInv, GivesUp
  PROVE  IInv' /\ Finds
<1>1. /\ ClockInv /\ TextsInv /\ NewInv /\ AskInv /\ IdsInv /\ asking.layers = <<>> /\ asking' = None
      /\ UNCHANGED <<now, calls, scene, migration, phase, tools, sessions, main, adapter, db, l1, l2,
                     writers, answer, stored, until>>
      /\ GoesOn
  BY SameCallGoesOn DEF IInv, GivesUp, mode, memory, new, history
<1>2. ClockInv' /\ TextsInv' /\ IdsInv' /\ NewInv'
  BY <1>1, TextsKept, IdsKept, NewKept DEF ClockInv
<1>3. AskInv'
  BY <1>1 DEF AskInv, RightText, SignatureAges
<1> QED BY <1>1, <1>2, <1>3 DEF IInv, Finds

(* What a layer other than the text's answers is proper if it is not too old.   *)
LEMMA OtherAsked ==
  ASSUME AskInv, NEW layer \in Layers \ {"text"}, At(layer)
  PROVE  /\ asking # None /\ asking.layers # <<>> /\ asking \in Questionings /\ ~At("text")
         /\ \A sig : sig \in Signatures /\ now - sig.at <= DbTTL + MemoryTTL => Proper(sig)
  BY DEF AskInv, At, Proper

LEMMA AskToolIs ==
  ASSUME IInv, AskTool
  PROVE  IInv' /\ Finds
<1>0. /\ ClockInv /\ TextsInv /\ NewInv /\ AskInv /\ IdsInv /\ At("tool")
      /\ UNCHANGED <<now, calls, scene, migration, phase, sessions, main, adapter, l1, l2,
                     writers, stored, until>>
      /\ GoesOn
  BY SameCallGoesOn DEF IInv, AskTool, mode, new
<1>1. /\ asking # None /\ asking.layers # <<>> /\ asking \in Questionings /\ ~At("text")
      /\ \A sig : sig \in Signatures /\ now - sig.at <= DbTTL + MemoryTTL => Proper(sig)
  BY <1>0, OtherAsked DEF Layers
<1> DEFINE k == asking.tool
           first == Recall(tools, k, asking.owner)
           asksDb == first.sig = None /\ migration
<1>2. PICK up \in BOOLEAN :
        LET row == IF asksDb THEN FacadeGetTool(k, up) ELSE None
        IN  /\ db' = IF asksDb /\ up THEN AfterGetTool(db, k) ELSE db
            /\ tools' = IF row = None THEN first.map
                        ELSE Remember(first.map, k, row.sig, asking.owner)
            /\ Answers(IF row = None THEN first.sig ELSE row.sig)
  BY DEF AskTool
<1> DEFINE row == IF asksDb THEN FacadeGetTool(k, up) ELSE None
           d2 == IF row = None THEN first.map ELSE Remember(first.map, k, row.sig, asking.owner)
           sig == IF row = None THEN first.sig ELSE row.sig
           t == IF HasExpired(db, k) THEN Delete(db, k) ELSE Touch(db, k)
<1>3. /\ k \in Tools /\ k \in Ids /\ Tools \in SUBSET Ids /\ asking.owner \in Owners
      /\ tools \in [Tools -> IdEntries \cup {None}]
      /\ sessions \in [Sessions -> IdEntries \cup {None}]
      /\ db \in [Ids -> DbRows \cup {None}] /\ Numbered(db, Ids) /\ Follows(db, db)
  BY <1>0, <1>1 DEF IdsInv, Questionings, Ids, Follows
<1>4. row = None \/ (Has(db, k) /\ row = db[k])
  BY DEF FacadeGetTool, GetToolSignature, Select
<1>5. t \in [Ids -> DbRows \cup {None}] /\ Numbered(t, Ids) /\ Follows(db, t)
  BY <1>0, <1>3, AccessIs
<1>6. db' = t \/ db' = db
  BY <1>2 DEF AfterGetTool, DeleteToolSignature, TouchTool
<1>7. tools' = d2 /\ Answers(sig)
  BY <1>2
<1> HIDE DEF k, row, t
<1>8. /\ d2 \in [Tools -> IdEntries \cup {None}]
      /\ \A j \in Tools : d2[j] # None =>
           d2[j] = tools[j] \/ (db[j] # None /\ d2[j].sig = db[j].sig)
      /\ sig # None => sig \in Signatures /\ now - sig.at <= DbTTL + MemoryTTL
  BY <1>0, <1>3, <1>4, AskIdIs
<1> HIDE DEF d2, sig
<1>9. IdsInv'
  <2>1. \A j \in Ids : InMemory(j)' # None =>
            InMemory(j)' = InMemory(j) \/ (db[j] # None /\ InMemory(j)'.sig = db[j].sig)
    BY <1>0, <1>7, <1>8 DEF InMemory
  <2>2. db' \in [Ids -> DbRows \cup {None}] /\ Numbered(db', Ids) /\ Follows(db, db')
    BY <1>3, <1>5, <1>6
  <2>3. /\ tools' \in [Tools -> IdEntries \cup {None}]
        /\ sessions' \in [Sessions -> IdEntries \cup {None}]
    BY <1>0, <1>3, <1>7, <1>8
  <2> QED BY <1>0, <2>1, <2>2, <2>3, IdsStep
<1>10. AskInv' /\ (asking' = None \/ ~asking'.purging)
  <2>1. sig = None \/ Proper(sig)
    BY <1>1, <1>8
  <2> QED BY <1>0, <1>1, <1>7, <2>1, AnswersIs
<1>11. ClockInv' /\ TextsInv' /\ NewInv'
  BY <1>0, <1>10, TextsKept, NewKept DEF ClockInv
<1> QED BY <1>1, <1>9, <1>10, <1>11 DEF IInv, Finds

LEMMA AskSessionIs ==
  ASSUME IInv, AskSession
  PROVE  IInv' /\ Finds
<1>0. /\ ClockInv /\ TextsInv /\ NewInv /\ AskInv /\ IdsInv /\ At("session")
      /\ UNCHANGED <<now, calls, scene, migration, phase, tools, main, adapter, l1, l2,
                     writers, stored, until>>
      /\ GoesOn
  BY SameCallGoesOn DEF IInv, AskSession, mode, new
<1>1. /\ asking # None /\ asking.layers # <<>> /\ asking \in Questionings /\ ~At("text")
      /\ \A sig : sig \in Signatures /\ now - sig.at <= DbTTL + MemoryTTL => Proper(sig)
  BY <1>0, OtherAsked DEF Layers
<1> DEFINE k == asking.session
           first == Recall(sessions, k, asking.owner)
           asksDb == first.sig = None /\ migration
<1>2. PICK up \in BOOLEAN :
        LET row == IF asksDb THEN FacadeGetSession(k, up) ELSE None
        IN  /\ db' = IF asksDb /\ up THEN AfterGetSession(db, k) ELSE db
            /\ sessions' = IF row = None THEN first.map
                           ELSE Remember(first.map, k, row.sig, asking.owner)
            /\ Answers(IF row = None THEN first.sig ELSE row.sig)
  BY DEF AskSession, RecallSession, RememberSession
<1> DEFINE row == IF asksDb THEN FacadeGetSession(k, up) ELSE None
           d2 == IF row = None THEN first.map ELSE Remember(first.map, k, row.sig, asking.owner)
           sig == IF row = None THEN first.sig ELSE row.sig
           t == IF HasExpired(db, k) THEN Delete(db, k) ELSE Touch(db, k)
<1>3. /\ k \in Sessions /\ k \in Ids /\ Sessions \in SUBSET Ids /\ asking.owner \in Owners
      /\ tools \in [Tools -> IdEntries \cup {None}]
      /\ sessions \in [Sessions -> IdEntries \cup {None}]
      /\ db \in [Ids -> DbRows \cup {None}] /\ Numbered(db, Ids) /\ Follows(db, db)
  BY <1>0, <1>1 DEF IdsInv, Questionings, Ids, Follows
<1>4. row = None \/ (Has(db, k) /\ row = db[k])
  BY DEF FacadeGetSession, GetSessionSignature, Select
<1>5. t \in [Ids -> DbRows \cup {None}] /\ Numbered(t, Ids) /\ Follows(db, t)
  BY <1>0, <1>3, AccessIs
<1>6. db' = t \/ db' = db
  BY <1>2 DEF AfterGetSession, DeleteSessionSignature, TouchSession
<1>7. sessions' = d2 /\ Answers(sig)
  BY <1>2
<1> HIDE DEF k, row, t
<1>8. /\ d2 \in [Sessions -> IdEntries \cup {None}]
      /\ \A j \in Sessions : d2[j] # None =>
           d2[j] = sessions[j] \/ (db[j] # None /\ d2[j].sig = db[j].sig)
      /\ sig # None => sig \in Signatures /\ now - sig.at <= DbTTL + MemoryTTL
  BY <1>0, <1>3, <1>4, AskIdIs
<1> HIDE DEF d2, sig
<1>9. IdsInv'
  <2>1. \A j \in Ids : InMemory(j)' # None =>
            InMemory(j)' = InMemory(j) \/ (db[j] # None /\ InMemory(j)'.sig = db[j].sig)
    BY <1>0, <1>7, <1>8 DEF InMemory, Ids
  <2>2. db' \in [Ids -> DbRows \cup {None}] /\ Numbered(db', Ids) /\ Follows(db, db')
    BY <1>3, <1>5, <1>6
  <2>3. /\ tools' \in [Tools -> IdEntries \cup {None}]
        /\ sessions' \in [Sessions -> IdEntries \cup {None}]
    BY <1>0, <1>3, <1>7, <1>8
  <2> QED BY <1>0, <2>1, <2>2, <2>3, IdsStep
<1>10. AskInv' /\ (asking' = None \/ ~asking'.purging)
  <2>1. sig = None \/ Proper(sig)
    BY <1>1, <1>8
  <2> QED BY <1>0, <1>1, <1>7, <2>1, AnswersIs
<1>11. ClockInv' /\ TextsInv' /\ NewInv'
  BY <1>0, <1>10, TextsKept, NewKept DEF ClockInv
<1> QED BY <1>1, <1>9, <1>10, <1>11 DEF IInv, Finds

(* Entries that have not been kept too long hold signatures that are not too old.*)
LEMMA FreshIs ==
  ASSUME ClockInv, NEW e \in IdEntries, now - e.at <= MemoryTTL
  PROVE  e.sig \in Signatures /\ now - e.sig.at <= DbTTL + MemoryTTL
<1>1. e.at \in Nat /\ e.sig \in Signatures /\ e.sig.at \in Nat /\ now \in Nat /\ DbTTL \in Nat
      /\ MemoryTTL \in Nat /\ e.at <= e.sig.at + DbTTL
  BY StoreAssumption, LegacyAssumption DEF IdEntries, Entries, Signatures, ClockInv
<1> QED BY <1>1

LEMMA TextFreshIs ==
  ASSUME ClockInv, NEW e \in TextEntries, now - e.at <= MemoryTTL
  PROVE  e.sig \in Signatures /\ now - e.sig.at <= DbTTL + MemoryTTL
<1>1. e \in IdEntries
  BY DEF TextEntries, IdEntries
<1> QED BY <1>1, FreshIs

LEMMA YoungIsFresh ==
  ASSUME ClockInv, NEW e \in Entries, Young(e)
  PROVE  now - e.at <= MemoryTTL
<1>1. /\ Window \in Nat /\ MemoryTTL \in Nat /\ Window <= MemoryTTL
      /\ e.at \in Nat /\ now \in Nat
  BY LegacyAssumption DEF Entries, ClockInv
<1> QED BY <1>1 DEF Young

(* Among the young entries there is a newest one.                               *)
LEMMA NewestYoungIs ==
  ASSUME ClockInv, NEW S, NEW d \in [S -> IdEntries \cup {None}], NewestYoung(d) # None
  PROVE  NewestYoung(d) \in Signatures /\ now - NewestYoung(d).at <= DbTTL + MemoryTTL
<1> DEFINE young == {k \in DOMAIN d : d[k] # None /\ Young(d[k])}
           k == CHOOSE k \in young : \A j \in young : d[j].at <= d[k].at
           Ages == {MaxTime - d[j].at : j \in young}
<1>1. young # {} /\ NewestYoung(d) = d[k].sig
  BY DEF NewestYoung
<1>2. \A j \in young : d[j] \in IdEntries /\ d[j] \in Entries /\ Young(d[j]) /\ d[j].at \in 1..MaxTime
  BY DEF IdEntries, Entries
<1> HIDE DEF young
<1>3. MaxTime \in Nat
  BY StoreAssumption
<1>4. \E x \in young : \A j \in young : d[j].at <= d[x].at
  <2>1. Ages \in SUBSET Nat /\ Ages # {}
    BY <1>1, <1>2, <1>3
  <2>2. PICK x \in Ages : \A y \in Ages : x <= y
    BY <2>1, Least
  <2>3. PICK i \in young : x = MaxTime - d[i].at
    BY <2>2
  <2>4. \A j \in young : MaxTime - d[j].at \in Ages
    OBVIOUS
  <2> HIDE DEF Ages
  <2>5. \A j \in young : d[j].at <= d[i].at
    BY <1>2, <1>3, <2>2, <2>3, <2>4
  <2> QED BY <2>5
<1>5. k \in young
  BY <1>4
<1> HIDE DEF k
<1> QED BY <1>1, <1>2, <1>5, FreshIs, YoungIsFresh

LEMMA AskRecentIs ==
  ASSUME IInv, AskRecent
  PROVE  IInv' /\ Finds
<1>0. /\ ClockInv /\ TextsInv /\ NewInv /\ AskInv /\ IdsInv /\ At("recent")
      /\ UNCHANGED <<now, calls, scene, migration, phase, tools, sessions, main, adapter, db, l1, l2,
                     writers, stored, until>>
      /\ GoesOn
  BY SameCallGoesOn DEF IInv, AskRecent, mode, memory, new
<1>1. /\ asking # None /\ asking.layers # <<>> /\ asking \in Questionings /\ ~At("text")
      /\ \A sig : sig \in Signatures /\ now - sig.at <= DbTTL + MemoryTTL => Proper(sig)
  BY <1>0, OtherAsked DEF Layers
<1> DEFINE sig == Recent(tools, sessions, main, asking.owner)
<1>2. NewestYoung(tools) # None => Proper(NewestYoung(tools))
  BY <1>0, <1>1, NewestYoungIs DEF IdsInv
<1>3. NewestYoung(sessions) # None => Proper(NewestYoung(sessions))
  BY <1>0, <1>1, NewestYoungIs DEF IdsInv
<1>4. YoungText(main, asking.owner) # None => Proper(YoungText(main, asking.owner))
  <2>1. ASSUME YoungText(main, asking.owner) # None
        PROVE  Proper(YoungText(main, asking.owner))
    <3>1. PICK e \in TextEntries : Young(e) /\ YoungText(main, asking.owner) = e.sig
      BY <1>0, <2>1, YoungTextIs DEF TextsInv
    <3>2. now - e.at <= MemoryTTL
      BY <1>0, <3>1, YoungIsFresh DEF TextEntries
    <3> QED BY <1>0, <1>1, <3>1, <3>2, TextFreshIs
  <2> QED BY <2>1
<1>5. sig = None \/ Proper(sig)
  BY <1>2, <1>3, <1>4 DEF Recent
<1>6. Answers(sig)
  BY DEF AskRecent
<1> HIDE DEF sig
<1>7. AskInv' /\ (asking' = None \/ ~asking'.purging)
  BY <1>0, <1>1, <1>5, <1>6, AnswersIs
<1>8. ClockInv' /\ TextsInv' /\ NewInv' /\ IdsInv'
  BY <1>0, <1>7, TextsKept, NewKept, IdsKept DEF ClockInv
<1> QED BY <1>1, <1>7, <1>8 DEF IInv, Finds

LEMMA AskLastIs ==
  ASSUME IInv, AskLast
  PROVE  IInv' /\ Finds
<1>0. /\ ClockInv /\ TextsInv /\ NewInv /\ AskInv /\ IdsInv /\ (At("last") \/ At("lastText"))
      /\ UNCHANGED <<now, calls, scene, migration, phase, tools, sessions, main, adapter, db, l1, l2,
                     writers, stored, until>>
      /\ GoesOn
  BY SameCallGoesOn DEF IInv, AskLast, mode, memory, new
<1>1. /\ asking # None /\ asking.layers # <<>> /\ asking \in Questionings /\ ~At("text")
      /\ \A sig : sig \in Signatures /\ now - sig.at <= DbTTL + MemoryTTL => Proper(sig)
  BY <1>0, OtherAsked DEF Layers
<1> DEFINE row == IF migration /\ At("last") THEN LastSessionSignature(db, Sessions) ELSE None
           sig == IF LastInMemory # None THEN LastInMemory
                  ELSE IF row = None THEN None ELSE row.sig
<1>2. ASSUME NEW m \in Seq(TextEntries), Len(m) <= MaxSize, Last(m) # None
      PROVE  Proper(Last(m))
  <2>1. PICK e \in TextEntries : ~Stale(e) /\ Last(m) = e.sig
    BY <1>2, LastIs
  <2>2. now - e.at <= MemoryTTL
    <3>1. e.at \in Nat /\ now \in Nat /\ MemoryTTL \in Nat
      BY <1>0, LegacyAssumption DEF TextEntries, Entries, ClockInv
    <3> QED BY <2>1, <3>1 DEF Stale
  <2> QED BY <1>0, <1>1, <2>1, <2>2, TextFreshIs
<1>3. LastInMemory # None => Proper(LastInMemory)
  BY <1>0, <1>2 DEF LastInMemory, TextsInv
<1>4. row # None => Proper(row.sig)
  <2>1. ASSUME row # None PROVE Proper(row.sig)
    <3>1. row = SelectNewest(db, Sessions) /\ SelectNewest(db, Sessions) # None
      BY <2>1 DEF LastSessionSignature
    <3>2. /\ calls \in Nat /\ Numbered(db, Sessions) /\ None \notin Sessions
          /\ \A k \in Sessions : db[k] # None => db[k].made \in Nat /\ db[k].touched \in Nat
      <4>1. None \notin Sessions
        BY StoreAssumption
      <4> QED BY <1>0, <4>1 DEF ClockInv, IdsInv, Numbered, Ids, DbRows, Rows
    <3> DEFINE k == Newest(db, Sessions)
    <3>3. k \in Sessions /\ Has(db, k) /\ row = db[k]
      BY <3>1, <3>2, SelectNewestIs
    <3> HIDE DEF k, row
    <3>4. row.sig \in Signatures /\ now <= row.sig.at + DbTTL
      BY <1>0, <3>3, DbRowIs DEF Ids
    <3>5. now - row.sig.at <= DbTTL + MemoryTTL
      BY <1>0, <3>4, StoreAssumption, LegacyAssumption DEF ClockInv, Signatures
    <3> QED BY <1>1, <3>4, <3>5
  <2> QED BY <2>1
<1>5. Answers(sig)
  BY DEF AskLast
<1>6. sig = None \/ Proper(sig)
  BY <1>3, <1>4
<1> HIDE DEF sig
<1>7. AskInv' /\ (asking' = None \/ ~asking'.purging)
  BY <1>0, <1>1, <1>5, <1>6, AnswersIs
<1>8. ClockInv' /\ TextsInv' /\ NewInv' /\ IdsInv'
  BY <1>0, <1>7, TextsKept, NewKept, IdsKept DEF ClockInv
<1> QED BY <1>1, <1>7, <1>8 DEF IInv, Finds
-----------------------------------------------------------------------------
(* The calls that take away.                                                    *)
LEMMA InvalidateIs ==
  ASSUME IInv, InvalidateSignature
  PROVE  IInv' /\ Finds
<1>0. /\ ClockInv /\ TextsInv /\ NewInv /\ AskInv /\ IdsInv /\ Calls("texts")
      /\ UNCHANGED <<now, scene, migration, phase, tools, sessions, db, l1, l2, writers,
                     asking, stored, until>>
  BY DEF IInv, InvalidateSignature, mode, new
<1>1. GoesOn /\ asking = None /\ answer' = None /\ calls' \in 0..MaxCalls[scene]
  BY <1>0, CallGoesOn
<1>2. PICK text \in Texts :
        /\ adapter' \in {adapter, Without(adapter, Key(text))}
        /\ main' \in {main, Without(main, Key(text))}
  BY DEF InvalidateSignature, Invalidate
<1>3. TextsInv'
  <2>1. /\ Without(adapter, Key(text)) \in Seq(TextEntries)
        /\ Len(Without(adapter, Key(text))) <= Len(adapter)
    BY <1>0, WithoutIs DEF TextsInv
  <2>2. /\ Without(main, Key(text)) \in Seq(TextEntries)
        /\ Len(Without(main, Key(text))) <= Len(main)
    BY <1>0, WithoutIs DEF TextsInv
  <2>3. Len(main) \in Nat /\ Len(adapter) \in Nat /\ MaxSize \in Nat
        /\ Len(Without(adapter, Key(text))) \in Nat /\ Len(Without(main, Key(text))) \in Nat
    BY <1>0, <2>1, <2>2, LegacyAssumption DEF TextsInv
  <2>4. adapter' \in Seq(TextEntries) /\ Len(adapter') <= MaxSize
    BY <1>0, <1>2, <2>1, <2>3 DEF TextsInv
  <2>5. main' \in Seq(TextEntries) /\ Len(main') <= MaxSize
    BY <1>0, <1>2, <2>2, <2>3 DEF TextsInv
  <2> QED BY <2>4, <2>5 DEF TextsInv
<1>4. ClockInv' /\ IdsInv' /\ NewInv' /\ AskInv'
  BY <1>0, <1>1, IdsKept, NewKept, AskKept DEF ClockInv
<1> QED BY <1>1, <1>3, <1>4 DEF IInv, Finds, At

LEMMA ClearIs ==
  ASSUME IInv, ClearSignatures
  PROVE  IInv' /\ Finds
<1>0. /\ ClockInv /\ TextsInv /\ NewInv /\ AskInv /\ IdsInv /\ Calls("texts")
      /\ UNCHANGED <<now, scene, migration, phase, tools, sessions, db, l1, l2, writers,
                     asking, stored, until>>
      /\ adapter' \in {adapter, <<>>} /\ main' \in {main, <<>>}
  BY DEF IInv, ClearSignatures, mode, new
<1>1. GoesOn /\ asking = None /\ answer' = None /\ calls' \in 0..MaxCalls[scene]
  BY <1>0, CallGoesOn
<1>2. TextsInv'
  <2>1. <<>> \in Seq(TextEntries) /\ Len(<<>>) <= MaxSize
    BY LegacyAssumption
  <2>2. adapter' \in Seq(TextEntries) /\ Len(adapter') <= MaxSize
    BY <1>0, <2>1 DEF TextsInv
  <2>3. main' \in Seq(TextEntries) /\ Len(main') <= MaxSize
    BY <1>0, <2>1 DEF TextsInv
  <2> QED BY <2>2, <2>3 DEF TextsInv
<1>3. ClockInv' /\ IdsInv' /\ NewInv' /\ AskInv'
  BY <1>0, <1>1, IdsKept, NewKept, AskKept DEF ClockInv
<1> QED BY <1>1, <1>2, <1>3 DEF IInv, Finds, At

(* A table of which some rows are deleted.                                      *)
LEMMA ClearedIs ==
  ASSUME NEW S, NEW R, NEW t \in [S -> R \cup {None}], NEW ks
  PROVE  /\ Clear(t, ks) \in [S -> R \cup {None}]
         /\ \A k \in S : Clear(t, ks)[k] = IF k \in ks THEN None ELSE t[k]
  BY DEF Clear

LEMMA CleanedIs ==
  ASSUME ClockInv, NEW t, LayerInv(t)
  PROVE  /\ LayerInv(CleanupExpired(t))
         /\ \A k \in Keys : CleanupExpired(t)[k] = IF HasExpired(t, k) THEN None ELSE t[k]
<1> DEFINE ks == {k \in DOMAIN t : HasExpired(t, k)}
<1>1. t \in [Keys -> Rows \cup {None}]
  BY DEF LayerInv
<1>2. /\ Clear(t, ks) \in [Keys -> Rows \cup {None}]
      /\ \A k \in Keys : Clear(t, ks)[k] = IF k \in ks THEN None ELSE t[k]
  BY <1>1, ClearedIs
<1>3. LayerInv(Clear(t, ks))
  BY <1>2, RowsLeft
<1> QED BY <1>1, <1>2, <1>3 DEF CleanupExpired

LEMMA CleanupStepIs ==
  ASSUME IInv, Cleanup
  PROVE  IInv' /\ Finds
<1>0. PICK kind \in scene : Calls(kind)
  BY DEF Cleanup
<1>1. /\ ClockInv /\ TextsInv /\ NewInv /\ AskInv /\ IdsInv
      /\ UNCHANGED <<now, scene, migration, phase, tools, sessions, writers, asking, stored, until>>
  BY DEF IInv, Cleanup, mode
<1>2. GoesOn /\ asking = None /\ answer' = None /\ calls' \in 0..MaxCalls[scene]
  BY <1>0, <1>1, CallGoesOn
<1>3. ClockInv' /\ AskInv'
  BY <1>1, <1>2, AskKept DEF ClockInv
<1>4. CASE /\ main' \in {main, CleanupTexts(main)} /\ adapter' \in {adapter, CleanupTexts(adapter)}
           /\ UNCHANGED <<db, l1, l2>>
  <2>1. TextsInv'
    BY <1>1, <1>4, CleanupIs DEF TextsInv
  <2>2. IdsInv' /\ NewInv'
    BY <1>1, <1>2, <1>4, IdsKept, NewKept
  <2> QED BY <1>2, <1>3, <2>1, <2>2 DEF IInv, Finds, At
<1>5. CASE /\ l1' = CleanupExpired(l1) /\ l2' = CleanupExpired(l2)
           /\ UNCHANGED <<main, adapter, db>>
  <2>1. LayerInv(l1) /\ LayerInv(l2)
    BY <1>1 DEF NewInv
  <2>2. /\ LayerInv(l1') /\ \A k \in Keys : l1'[k] = IF HasExpired(l1, k) THEN None ELSE l1[k]
    BY <1>1, <1>5, <2>1, CleanedIs
  <2>3. /\ LayerInv(l2') /\ \A k \in Keys : l2'[k] = IF HasExpired(l2, k) THEN None ELSE l2[k]
    BY <1>1, <1>5, <2>1, CleanedIs
  <2>4. ASSUME NEW k \in Keys, until'[k] # None
        PROVE  /\ until'[k] = until[k]
               /\ now <= until[k] /\ l2[k] # None /\ l2[k].expires >= until[k]
                  /\ (l1[k] # None => l1[k].expires >= until[k])
                  => /\ l2'[k] # None /\ l2'[k].expires >= until[k]
                     /\ l1'[k] # None => l1'[k].expires >= until[k]
    <3>1. l2[k] # None => l2[k].expires \in Nat
      BY <1>1, <2>1, LayerFacts
    <3>2. until[k] \in Nat /\ now \in Nat
      BY <1>1, <2>4, StoreAssumption DEF NewInv, ClockInv
    <3>3. l2[k] # None /\ now <= until[k] /\ l2[k].expires >= until[k] => ~HasExpired(l2, k)
      BY <3>1, <3>2 DEF HasExpired, IsExpired
    <3> QED BY <1>1, <2>2, <2>3, <3>3
  <2>5. PurgeInv' /\ until' \in [Keys -> (1..(MaxTime + L1TTL)) \cup {None}]
    BY <1>1, <1>2 DEF PurgeInv, NewInv
  <2>6. NewInv'
    BY <1>1, <1>2, <2>2, <2>3, <2>4, <2>5, NewStep
  <2>7. TextsInv' /\ IdsInv'
    BY <1>1, <1>2, <1>5, TextsKept, IdsKept
  <2> QED BY <1>2, <1>3, <2>6, <2>7 DEF IInv, Finds, At
<1>6. CASE /\ db' = CleanupTools(CleanupSessions(db, Sessions), Tools)
           /\ UNCHANGED <<main, adapter, l1, l2>>
  <2> DEFINE old1 == {k \in Sessions : HasExpired(db, k)}
             t1 == CleanupSessions(db, Sessions)
             old2 == {k \in Tools : HasExpired(t1, k)}
  <2>1. db \in [Ids -> DbRows \cup {None}] /\ Numbered(db, Ids)
    BY <1>1 DEF IdsInv
  <2>2. /\ t1 \in [Ids -> DbRows \cup {None}]
        /\ \A k \in Ids : t1[k] = db[k] \/ (t1[k] = None /\ HasExpired(db, k))
    <3>1. t1 = Clear(db, old1) /\ \A k \in old1 : HasExpired(db, k)
      BY DEF CleanupSessions
    <3> HIDE DEF old1, t1
    <3>2. /\ Clear(db, old1) \in [Ids -> DbRows \cup {None}]
          /\ \A k \in Ids : Clear(db, old1)[k] = IF k \in old1 THEN None ELSE db[k]
      BY <2>1, ClearedIs
    <3> QED BY <3>1, <3>2
  <2>3. /\ db' \in [Ids -> DbRows \cup {None}]
        /\ \A k \in Ids : db'[k] = t1[k] \/ (db'[k] = None /\ HasExpired(t1, k))
    <3>1. db' = Clear(t1, old2) /\ \A k \in old2 : HasExpired(t1, k)
      BY <1>6 DEF CleanupTools
    <3> HIDE DEF old2, t1
    <3>2. /\ Clear(t1, old2) \in [Ids -> DbRows \cup {None}]
          /\ \A k \in Ids : Clear(t1, old2)[k] = IF k \in old2 THEN None ELSE t1[k]
      BY <2>2, ClearedIs
    <3> QED BY <3>1, <3>2
  <2> HIDE DEF t1, old1, old2
  <2>4. \A k \in Ids : db'[k] = db[k] \/ (db'[k] = None /\ HasExpired(db, k))
    BY <2>2, <2>3 DEF HasExpired
  <2>5. \A k \in Ids : HasExpired(db, k) => now > db[k].sig.at + DbTTL
    BY <1>1, DbClearedIs
  <2>6. Numbered(db', Ids) /\ Follows(db, db')
    BY <2>1, <2>4, <2>5 DEF Numbered, Follows
  <2>7. IdsInv'
    <3>1. \A j \in Ids : InMemory(j)' = InMemory(j)
      BY <1>1 DEF InMemory
    <3>2. /\ tools' \in [Tools -> IdEntries \cup {None}]
          /\ sessions' \in [Sessions -> IdEntries \cup {None}]
      BY <1>1 DEF IdsInv
    <3> QED BY <1>1, <1>2, <2>3, <2>6, <3>1, <3>2, IdsStep
  <2>8. TextsInv' /\ NewInv'
    BY <1>1, <1>2, <1>6, TextsKept, NewKept
  <2> QED BY <1>2, <1>3, <2>7, <2>8 DEF IInv, Finds, At
<1> QED BY <1>4, <1>5, <1>6 DEF Cleanup

LEMMA SetPhaseIs ==
  ASSUME IInv, SetMigrationPhase
  PROVE  IInv' /\ Finds
<1>0. /\ ClockInv /\ TextsInv /\ NewInv /\ AskInv /\ IdsInv /\ Calls("texts")
      /\ UNCHANGED <<now, scene, migration, tools, sessions, main, adapter, db, l1, l2, writers,
                     asking, stored, until>>
      /\ phase' \in 1..4
  BY StoreAssumption DEF IInv, SetMigrationPhase, mode, memory, new
<1>1. GoesOn /\ asking = None /\ answer' = None /\ calls' \in 0..MaxCalls[scene]
  BY <1>0, CallGoesOn
<1>2. ClockInv' /\ TextsInv' /\ IdsInv' /\ NewInv' /\ AskInv'
  BY <1>0, <1>1, TextsKept, IdsKept, NewKept, AskKept DEF ClockInv
<1> QED BY <1>1, <1>2 DEF IInv, Finds, At

(* Rows that are deleted in both layers are no longer promised.                 *)
LEMMA NewCleared ==
  ASSUME ClockInv, NewInv, GoesOn, UNCHANGED <<now, writers, asking>>, asking = None,
         NEW ks, l1' = Clear(l1, ks), l2' = Clear(l2, ks), until' = Clear(until, ks)
  PROVE  NewInv'
<1>0. /\ l1 \in [Keys -> Rows \cup {None}] /\ l2 \in [Keys -> Rows \cup {None}]
      /\ LayerInv(l1) /\ LayerInv(l2)
      /\ until \in [Keys -> (1..(MaxTime + L1TTL)) \cup {None}]
  BY DEF NewInv, LayerInv
<1>1. /\ l1' \in [Keys -> Rows \cup {None}]
      /\ \A k \in Keys : l1'[k] = IF k \in ks THEN None ELSE l1[k]
  <2>1. l1 \in [Keys -> Rows \cup {None}]
    BY <1>0
  <2>2. /\ Clear(l1, ks) \in [Keys -> Rows \cup {None}]
        /\ \A k \in Keys : Clear(l1, ks)[k] = IF k \in ks THEN None ELSE l1[k]
    BY <2>1, ClearedIs
  <2> QED BY <2>2
<1>2. /\ l2' \in [Keys -> Rows \cup {None}]
      /\ \A k \in Keys : l2'[k] = IF k \in ks THEN None ELSE l2[k]
  <2>1. l2 \in [Keys -> Rows \cup {None}]
    BY <1>0
  <2>2. /\ Clear(l2, ks) \in [Keys -> Rows \cup {None}]
        /\ \A k \in Keys : Clear(l2, ks)[k] = IF k \in ks THEN None ELSE l2[k]
    BY <2>1, ClearedIs
  <2> QED BY <2>2
<1>3. /\ until' \in [Keys -> (1..(MaxTime + L1TTL)) \cup {None}]
      /\ \A k \in Keys : until'[k] = IF k \in ks THEN None ELSE until[k]
  BY <1>0, ClearedIs
<1>4. LayerInv(l1')
  BY <1>0, <1>1, RowsLeft
<1>5. LayerInv(l2')
  BY <1>0, <1>2, RowsLeft
<1>6. ASSUME NEW k \in Keys, until'[k] # None
      PROVE  /\ until'[k] = until[k]
             /\ now <= until[k] /\ l2[k] # None /\ l2[k].expires >= until[k]
                /\ (l1[k] # None => l1[k].expires >= until[k])
                => /\ l2'[k] # None /\ l2'[k].expires >= until[k]
                   /\ l1'[k] # None => l1'[k].expires >= until[k]
  BY <1>1, <1>2, <1>3, <1>6
<1>7. PurgeInv'
  BY DEF PurgeInv
<1> QED BY <1>3, <1>4, <1>5, <1>6, <1>7, NewStep

LEMMA DeleteNewIs ==
  ASSUME IInv, DeleteFromNew
  PROVE  IInv' /\ Finds
<1>0. /\ ClockInv /\ TextsInv /\ NewInv /\ AskInv /\ IdsInv /\ Calls("texts")
      /\ UNCHANGED <<now, scene, migration, phase, tools, sessions, main, adapter, db, writers,
                     asking, stored>>
  BY DEF IInv, DeleteFromNew, mode, memory
<1>1. GoesOn /\ asking = None /\ answer' = None /\ calls' \in 0..MaxCalls[scene]
  BY <1>0, CallGoesOn
<1>2. PICK k \in Texts \X Owners :
        l1' = Delete(l1, k) /\ l2' = Delete(l2, k) /\ until' = Delete(until, k)
  BY DEF DeleteFromNew
<1>3. ASSUME NEW R, NEW t \in [Keys -> R] PROVE Delete(t, k) = Clear(t, {k})
  BY <1>3 DEF Delete, Clear
<1>4. l1' = Clear(l1, {k}) /\ l2' = Clear(l2, {k}) /\ until' = Clear(until, {k})
  BY <1>0, <1>2, <1>3 DEF NewInv, LayerInv
<1>5. NewInv'
  BY <1>0, <1>1, <1>4, NewCleared
<1>6. ClockInv' /\ TextsInv' /\ IdsInv' /\ AskInv'
  BY <1>0, <1>1, TextsKept, IdsKept, AskKept DEF ClockInv
<1> QED BY <1>1, <1>5, <1>6 DEF IInv, Finds, At

LEMMA ClearNewIs ==
  ASSUME IInv, ClearNew
  PROVE  IInv' /\ Finds
<1>0. /\ ClockInv /\ TextsInv /\ NewInv /\ AskInv /\ IdsInv /\ Calls("texts")
      /\ UNCHANGED <<now, scene, migration, phase, tools, sessions, main, adapter, db, writers,
                     asking, stored>>
  BY DEF IInv, ClearNew, mode, memory
<1>1. GoesOn /\ asking = None /\ answer' = None /\ calls' \in 0..MaxCalls[scene]
  BY <1>0, CallGoesOn
<1>2. PICK owner \in Owners :
        LET ks == {k \in Keys : k[2] = owner}
        IN  l1' = Clear(l1, ks) /\ l2' = Clear(l2, ks) /\ until' = Clear(until, ks)
  BY DEF ClearNew
<1>3. NewInv'
  BY <1>0, <1>1, <1>2, NewCleared
<1>4. ClockInv' /\ TextsInv' /\ IdsInv' /\ AskInv'
  BY <1>0, <1>1, TextsKept, IdsKept, AskKept DEF ClockInv
<1> QED BY <1>1, <1>3, <1>4 DEF IInv, Finds, At

LEMMA ShutdownIs ==
  ASSUME IInv, Shutdown
  PROVE  IInv' /\ Finds
<1>0. /\ ClockInv /\ TextsInv /\ NewInv /\ AskInv /\ IdsInv /\ Calls("texts")
      /\ UNCHANGED <<now, scene, migration, phase, tools, sessions, main, adapter, db, l1, writers,
                     asking, stored, until>>
      /\ l2' = SyncL1ToL2
  BY DEF IInv, Shutdown, mode, memory
<1>1. GoesOn /\ asking = None /\ answer' = None /\ calls' \in 0..MaxCalls[scene]
  BY <1>0, CallGoesOn
<1>2. /\ LayerInv(l1) /\ LayerInv(l2) /\ None \notin Rows /\ calls \in Nat
      /\ l1 \in [Keys -> Rows \cup {None}] /\ l2 \in [Keys -> Rows \cup {None}]
  BY <1>0, StoreAssumption DEF NewInv, LayerInv, ClockInv
<1> DEFINE rows == [k \in Keys |-> IF Has(l1, k) THEN L2Row(l1[k]) ELSE None]
<1>3. ASSUME NEW k \in Keys
      PROVE  \/ l2'[k] = l2[k]
             \/ /\ l1[k] # None /\ l2'[k] # None /\ l2'[k] \in RowsOf(k[1])
                /\ l2'[k].expires = l1[k].expires
                /\ l2'[k].made <= calls /\ l2'[k].touched <= calls
  <2>1. l2'[k] = IF rows[k] = None THEN l2[k] ELSE Set(l2, k, rows[k], TRUE)[k]
    BY <1>0, <1>2 DEF SyncL1ToL2, BulkSet
  <2>2. CASE ~Has(l1, k)
    BY <2>1, <2>2
  <2>3. CASE Has(l1, k)
    <3>1. /\ l1[k] # None /\ l1[k].expires \in Nat \ {0} /\ l1[k].made \in Nat /\ l1[k].made <= calls
          /\ l1[k].sig \in Signatures
      BY <1>0, <1>2, <2>3, LayerFacts DEF Has
    <3>2. rows[k] = Marked(l1[k], l1[k].made, 0)
      BY <2>3, <3>1 DEF L2Row
    <3>3. /\ rows[k] \in RowsOf(k[1]) /\ rows[k].expires = l1[k].expires
          /\ rows[k].made <= calls /\ rows[k].touched <= calls
      BY <1>0, <1>2, <3>1, <3>2, RowMarked
    <3>4. rows[k] # None
      BY <1>2, <3>3 DEF RowsOf
    <3>5. CASE l2[k] = None
      <4>1. l2'[k] = rows[k]
        BY <1>2, <2>1, <3>4, <3>5 DEF Set
      <4> QED BY <3>1, <3>3, <3>4, <4>1
    <3>6. CASE l2[k] # None
      <4> DEFINE row == Marked(l1[k], l2[k].made, l2[k].touched)
      <4>1. Marked(rows[k], l2[k].made, l2[k].touched) = row
        BY <3>2 DEF Marked
      <4> HIDE DEF rows
      <4>2. l2'[k] = row
        BY <1>2, <2>1, <3>4, <3>6, <4>1 DEF Set
      <4>3. l2[k].made \in Nat /\ l2[k].touched \in Nat /\ l2[k].made <= calls /\ l2[k].touched <= calls
        BY <1>0, <1>2, <3>6, LayerFacts
      <4>4. /\ row \in RowsOf(k[1]) /\ row.expires = l1[k].expires
            /\ row.made <= calls /\ row.touched <= calls
        BY <1>0, <1>2, <3>1, <4>3, RowMarked
      <4> HIDE DEF row
      <4>5. row # None
        BY <1>2, <4>4 DEF RowsOf
      <4> QED BY <3>1, <4>2, <4>4, <4>5
    <3> QED BY <3>5, <3>6
  <2> QED BY <2>2, <2>3
<1>4. LayerInv(l2')
  <2> DEFINE val(k) == IF rows[k] = None THEN l2[k] ELSE Set(l2, k, rows[k], TRUE)[k]
  <2>1. l2' = [k \in Keys |-> val(k)]
    BY <1>0, <1>2 DEF SyncL1ToL2, BulkSet
  <2> HIDE DEF val
  <2>2. \A k \in Keys : /\ l2'[k] \in Rows \cup {None}
                        /\ l2'[k] # None => /\ l2'[k] \in RowsOf(k[1])
                                            /\ l2'[k].made <= calls /\ l2'[k].touched <= calls
    BY <1>2, <1>3 DEF LayerInv, Numbered, RowsOf
  <2>3. \A k \in Keys : l2'[k] = val(k)
    BY <2>1
  <2>4. l2' \in [Keys -> Rows \cup {None}]
    BY <2>1, <2>2, <2>3
  <2> QED BY <2>2, <2>4 DEF LayerInv, Numbered
<1>5. ASSUME NEW k \in Keys, until'[k] # None
      PROVE  /\ until'[k] = until[k]
             /\ now <= until[k] /\ l2[k] # None /\ l2[k].expires >= until[k]
                /\ (l1[k] # None => l1[k].expires >= until[k])
                => /\ l2'[k] # None /\ l2'[k].expires >= until[k]
                   /\ l1'[k] # None => l1'[k].expires >= until[k]
  BY <1>0, <1>3
<1>6. PurgeInv' /\ until' \in [Keys -> (1..(MaxTime + L1TTL)) \cup {None}] /\ LayerInv(l1')
  BY <1>0, <1>1, <1>2 DEF PurgeInv, NewInv
<1>7. NewInv'
  BY <1>0, <1>1, <1>4, <1>5, <1>6, NewStep
<1>8. ClockInv' /\ TextsInv' /\ IdsInv' /\ AskInv'
  BY <1>0, <1>1, TextsKept, IdsKept, AskKept DEF ClockInv
<1> QED BY <1>1, <1>7, <1>8 DEF IInv, Finds, At

LEMMA RestartIs ==
  ASSUME IInv, Restart
  PROVE  IInv' /\ Finds
<1>0. /\ ClockInv /\ TextsInv /\ NewInv /\ AskInv /\ IdsInv
      /\ UNCHANGED <<now, scene, migration, db, l2, stored, until>>
      /\ calls < MaxCalls[scene] /\ calls' = calls + 1
      /\ tools' = EmptyTable(Tools) /\ sessions' = EmptyTable(Sessions)
      /\ main' = <<>> /\ adapter' = <<>>
      /\ l1' = EmptyTable(Keys) /\ writers' = {}
      /\ asking' = None /\ answer' = None /\ phase' = 2
  BY DEF IInv, Restart, mode, StartPhase
<1>1. ClockInv' /\ GoesOn
  BY <1>0, StoreAssumption DEF ClockInv, GoesOn
<1>2. TextsInv'
  BY <1>0, LegacyAssumption DEF TextsInv
<1>3. IdsInv'
  <2>1. /\ tools' \in [Tools -> IdEntries \cup {None}]
        /\ sessions' \in [Sessions -> IdEntries \cup {None}]
        /\ \A j \in Ids : InMemory(j)' = None
    BY <1>0 DEF EmptyTable, InMemory, Ids
  <2>2. db' \in [Ids -> DbRows \cup {None}] /\ Numbered(db', Ids) /\ Follows(db, db')
    BY <1>0 DEF IdsInv, Follows
  <2> QED BY <1>0, <1>1, <2>1, <2>2, IdsStep
<1>4. NewInv'
  <2>1. LayerInv(l1)' /\ \A k \in Keys : l1'[k] = None
    BY <1>0 DEF EmptyTable, LayerInv, Numbered
  <2>2. LayerInv(l2)'
    <3>1. Numbered(l2, Keys)'
      BY <1>0, <1>1, NumberedKept DEF NewInv, LayerInv, Numbered, RowsOf, Rows
    <3> QED BY <1>0, <3>1 DEF NewInv, LayerInv
  <2>3. \A k \in Keys : BroughtInv(k)'
    BY <1>0, <2>1 DEF NewInv, BroughtInv, Brought
  <2> QED BY <1>0, <2>1, <2>2, <2>3 DEF NewInv, PurgeInv
<1>5. AskInv'
  BY <1>0 DEF AskInv, RightText, SignatureAges
<1> QED BY <1>0, <1>1, <1>2, <1>3, <1>4, <1>5 DEF IInv, Finds

LEMMA TickIs ==
  ASSUME IInv, Tick
  PROVE  IInv' /\ Finds
<1>0. /\ ClockInv /\ TextsInv /\ NewInv /\ AskInv /\ IdsInv
      /\ now < MaxTime /\ now' = now + 1
      /\ UNCHANGED <<calls, scene, migration, phase, tools, sessions, main, adapter, db, l1, l2,
                     writers, asking, answer, stored, until>>
  BY DEF IInv, Tick, mode, memory, new, history
<1>1. ClockInv' /\ GoesOn
  BY <1>0, StoreAssumption DEF ClockInv, GoesOn
<1>2. TextsInv' /\ IdsInv' /\ NewInv' /\ AskInv'
  BY <1>0, <1>1, TextsKept, IdsKept, NewKept, AskKept
<1> QED BY <1>0, <1>1, <1>2 DEF IInv, Finds, At
-----------------------------------------------------------------------------
LEMMA NextIInv ==
  ASSUME IInv, [Next]_vars
  PROVE  IInv' /\ (Finds \/ UNCHANGED vars)
<1>1. CASE Writes
  BY <1>1, WriterL1Is, WriterL2Is DEF Writes
<1>2. CASE Proceeds
  BY <1>2, GivesUpIs, AskToolIs, AskSessionIs, AskRecentIs, AskLastIs, AskTextIs, PurgesIs
     DEF Proceeds
<1>3. CASE CacheToolSignature \/ CacheSessionSignature \/ CacheSignature \/ Asks
  BY <1>3, CacheToolIs, CacheSessionIs, CacheTextIs, AsksIs
<1>4. CASE InvalidateSignature \/ ClearSignatures \/ Cleanup \/ DeleteFromNew \/ ClearNew
  BY <1>4, InvalidateIs, ClearIs, CleanupStepIs, DeleteNewIs, ClearNewIs
<1>5. CASE SetMigrationPhase \/ Shutdown \/ Restart \/ Tick
  BY <1>5, SetPhaseIs, ShutdownIs, RestartIs, TickIs
<1>6. CASE UNCHANGED vars
  <2>1. /\ ClockInv /\ TextsInv /\ NewInv /\ AskInv /\ IdsInv
        /\ UNCHANGED <<now, calls, scene, migration, phase, tools, sessions, main, adapter, db, l1, l2,
                       writers, asking, answer, stored, until>>
        /\ GoesOn
    BY <1>6, SameCallGoesOn DEF IInv, vars, mode, memory, new, history
  <2>2. ClockInv' /\ TextsInv' /\ IdsInv' /\ NewInv' /\ AskInv'
    BY <2>1, TextsKept, IdsKept, NewKept, AskKept DEF ClockInv
  <2> QED BY <1>6, <2>2 DEF IInv
<1> QED BY <1>1, <1>2, <1>3, <1>4, <1>5, <1>6 DEF Next

LEMMA InitIInv == Init => IInv
<1> SUFFICES ASSUME Init PROVE IInv
  OBVIOUS
<1>1. ClockInv
  BY StoreAssumption DEF Init, ClockInv, StartPhase
<1>2. TextsInv
  BY LegacyAssumption DEF Init, TextsInv
<1>3. IdsInv
  BY DEF Init, IdsInv, EmptyTable, Numbered, StoredInv, Ids
<1>4. NewInv
  BY DEF Init, NewInv, EmptyTable, LayerInv, Numbered, BroughtInv, Brought, PurgeInv
<1>5. AskInv
  BY DEF Init, AskInv, RightText, SignatureAges
<1> QED BY <1>1, <1>2, <1>3, <1>4, <1>5 DEF IInv

(* Everything that is assigned has its type.                                    *)
THEOREM TypeCorrect == Spec => []TypeOK
<1>1. IInv => TypeOK
  <2> SUFFICES ASSUME IInv PROVE TypeOK
    OBVIOUS
  <2>1. TextEntries \subseteq Entries /\ IdEntries \subseteq Entries /\ DbRows \subseteq Rows
        /\ Writings \subseteq [key : Keys, sig : Signatures, row : Rows \cup {None}]
    BY DEF TextEntries, IdEntries, DbRows, Writings
  <2>2. main \in Seq(Entries) /\ adapter \in Seq(Entries)
    BY <2>1 DEF IInv, TextsInv
  <2>3. /\ tools \in [Tools -> Entries \cup {None}] /\ sessions \in [Sessions -> Entries \cup {None}]
        /\ db \in [Ids -> Rows \cup {None}]
    BY <2>1 DEF IInv, IdsInv
  <2> QED BY <2>1, <2>2, <2>3 DEF IInv, ClockInv, TextsInv, IdsInv, NewInv, LayerInv, AskInv, TypeOK
<1> QED BY <1>1, InitIInv, NextIInv, PTL DEF Spec

(* A signature given for a thinking text was stored with that text: every entry *)
(* and row holds a signature of its own text, and a lookup compares it whole.   *)
THEOREM RightTextAlways == Spec => []RightText
<1>1. IInv => RightText
  BY DEF IInv, AskInv
<1> QED BY <1>1, InitIInv, NextIInv, PTL DEF Spec

(* Other signatures are not given out for ever: an entry that memory has taken  *)
(* from the database is no younger than the row it is from could be.            *)
THEOREM SignaturesAge == Spec => []SignatureAges
<1>1. IInv => SignatureAges
  BY DEF IInv, AskInv
<1> QED BY <1>1, InitIInv, NextIInv, PTL DEF Spec

(* What the database has taken is what is served until it expires there: memory *)
(* has nothing else, and the database loses nothing else.                       *)
THEOREM StoredServed == Spec => []StoredIsServed
<1>1. IInv => StoredIsServed
  <2> SUFFICES ASSUME IInv, NEW k \in Ids, migration, stored[k] # None,
                      now <= stored[k].at + DbTTL
               PROVE  Serves(k) = stored[k]
    BY DEF StoredIsServed
  <2>1. /\ InMemory(k) # None => InMemory(k).sig = stored[k]
        /\ db[k] # None /\ db[k].sig = stored[k]
    BY DEF IInv, IdsInv, StoredInv
  <2>2. Has(db, k)
    <3>1. db[k] \in DbRows /\ db[k].sig.at \in Nat /\ now \in Nat /\ DbTTL \in Nat
      BY <2>1, StoreAssumption DEF IInv, IdsInv, ClockInv, DbRows, Rows, Signatures
    <3> QED BY <2>1, <3>1 DEF Has, IsExpired, DbRows
  <2> QED BY <2>1, <2>2 DEF Serves, InMemory
<1> QED BY <1>1, InitIInv, NextIInv, PTL DEF Spec

(* What a dual write has brought to both layers of the new cache is found there *)
(* until it expires, whatever happens to the rows meanwhile.                    *)
THEOREM MigrationFinds == Spec => MigrationKeeps
<1>1. IInv /\ [Next]_vars =>
        [At("text") /\ migration /\ ReadsNew /\ asking' # None
         /\ until[Asked] # None /\ now <= until[Asked]
           => asking'.layers = asking.layers]_vars
  BY NextIInv DEF Finds
<1>2. IInv /\ [Next]_vars => IInv'
  BY NextIInv
<1> QED BY <1>1, <1>2, InitIInv, PTL DEF Spec, MigrationKeeps
-------------------------------------------------------------------------------
(* The queue through which the second layer is written, for every number of    *)
(* tasks, workers and retries.                                                 *)

(* A task that is not done with has been tried as often as it was retried, one *)
(* that is done with once more at most.                                        *)
TriedAsCounted ==
    \A t \in Tasks : /\ attempts[t] <= retries[t] + 1
                     /\ place[t] # "gone" => attempts[t] <= retries[t]

(* Who will still take what is queued or buffered: a worker in its loop looks  *)
(* at the queue again before it ends, and flushes the buffer before it does.   *)
InLoop(w) == pc[w] \in {"loop", "get", "append", "check", "reflush"}
WillFlush(w) == InLoop(w) \/ pc[w] = "flush"

EventMatchesState == /\ state = "RUNNING" => ~shutdown
                     /\ state \in {"DRAINING", "STOPPING"} => shutdown
RunningHasWorker == state = "RUNNING" => \E w \in Workers : InLoop(w)
QueuedIsServed ==
    (\E t \in inTime : place[t] = "queue") => \E w \in Workers : InLoop(w)
BufferedIsServed ==
    (\E t \in inTime : place[t] = "buffer") => \E w \in Workers : WillFlush(w)
HolderIsBusy ==
    \A t \in Tasks, h \in Threads : place[t] = h => pc[h] \in {"append", "write"}
CleanHasNoWorker ==
    state = "STOPPED" /\ clean => \A w \in Workers : pc[w] = "idle"
InTimeWasPut == \A t \in inTime : place[t] \notin {"new", "checked"}

Served == /\ EventMatchesState
          /\ RunningHasWorker
          /\ QueuedIsServed
          /\ BufferedIsServed
          /\ HolderIsBusy
          /\ CleanHasNoWorker
          /\ InTimeWasPut
-----------------------------------------------------------------------------
(* The counters stay natural numbers: what is added are sizes of task sets.    *)
LEMMA SizeOfTasks ==
  ASSUME NEW S \in SUBSET Tasks
  PROVE  Cardinality(S) \in Nat
  BY QueueAssumption, FS_Subset, FS_CardinalityType

LEMMA TypeInit == QueueInit => QueueTypeOK
<1> SUFFICES ASSUME QueueInit PROVE QueueTypeOK
    OBVIOUS
<1>1. place \in [Tasks -> Spots \cup Threads]
  BY DEF QueueInit, Spots
<1>2. pc \in [Threads -> Points]
  BY DEF QueueInit, Points
<1>3. retries \in [Tasks -> 0..MaxRetries]
  BY QueueAssumption DEF QueueInit
<1>4. attempts \in [Tasks -> Nat]
  BY DEF QueueInit
<1> QED BY <1>1, <1>2, <1>3, <1>4 DEF QueueInit, QueueTypeOK

LEMMA MoveType ==
  ASSUME QueueTypeOK, NEW tasks, NEW spot \in Spots \cup Threads, Move(tasks, spot)
  PROVE  place' \in [Tasks -> Spots \cup Threads]
  BY DEF QueueTypeOK, Move

LEMMA GoesType ==
  ASSUME QueueTypeOK, NEW h \in Threads, NEW point \in Points, Goes(h, point)
  PROVE  pc' \in [Threads -> Points]
  BY DEF QueueTypeOK, Goes

LEMMA TriedType ==
  ASSUME QueueTypeOK, NEW tasks, Tried(tasks)
  PROVE  attempts' \in [Tasks -> Nat]
  BY DEF QueueTypeOK, Tried

LEMMA RetryLaterType ==
  ASSUME QueueTypeOK, NEW tasks \in SUBSET Tasks, RetryLater(tasks)
  PROVE  /\ place' \in [Tasks -> Spots \cup Threads]
         /\ retries' \in [Tasks -> 0..MaxRetries]
         /\ processed' \in Nat /\ failed' \in Nat
<1>1. place' \in [Tasks -> Spots \cup Threads]
  BY DEF QueueTypeOK, RetryLater, Spots
<1>2. \A t \in Retriable(tasks) : retries[t] + 1 \in 0..MaxRetries
  BY QueueAssumption DEF QueueTypeOK, Retriable
<1>3. retries' \in [Tasks -> 0..MaxRetries]
  BY <1>2 DEF QueueTypeOK, RetryLater
<1>4. Cardinality(tasks \ Retriable(tasks)) \in Nat
  BY SizeOfTasks
<1>5. processed' \in Nat /\ failed' \in Nat
  BY <1>4 DEF QueueTypeOK, RetryLater, Counts
<1> QED BY <1>1, <1>3, <1>5

(* Each operation, each worker's step and each timer keeps the types.          *)
LEMMA TypeNext == QueueTypeOK /\ [QueueNext]_queueVars => QueueTypeOK'
<1> SUFFICES ASSUME QueueTypeOK, [QueueNext]_queueVars PROVE QueueTypeOK'
    OBVIOUS
<1>w. \A w \in Workers : w \in Threads
  BY DEF Threads
<1>c. Controller \in Threads /\ Caller \in Threads
  BY DEF Threads
<1>1. CASE Start
  <2>1. pc' \in [Threads -> Points]
    BY <1>1 DEF Start, QueueTypeOK, Points
  <2> QED BY <1>1, <2>1 DEF Start, QueueTypeOK, counts
<1>2. ASSUME NEW wait \in BOOLEAN, Stop(wait) PROVE QueueTypeOK'
  <2>1. pc' \in [Threads -> Points]
    BY <1>2, <1>c DEF Stop, QueueTypeOK, Points, Goes
  <2> QED BY <1>2, <2>1 DEF Stop, QueueTypeOK, counts
<1>3. CASE Drained
  <2>1. pc' \in [Threads -> Points]
    BY <1>3, <1>c, GoesType DEF Drained, Points
  <2> QED BY <1>3, <2>1 DEF Drained, QueueTypeOK, counts
<1>4. CASE Joined
  <2>1. pc' \in [Threads -> Points]
    BY <1>4, <1>c, GoesType DEF Joined, Points
  <2>2. clean' \in BOOLEAN
    BY <1>4 DEF Joined
  <2> QED BY <1>4, <2>1, <2>2 DEF Joined, QueueTypeOK, counts
<1>5. CASE ForceFlush
  <2>1. pc' \in [Threads -> Points]
    BY <1>5, <1>c, GoesType DEF ForceFlush, Points
  <2> QED BY <1>5, <2>1 DEF ForceFlush, QueueTypeOK, counts
<1>6. ASSUME NEW t \in Tasks, Checks(t) \/ Puts(t) PROVE QueueTypeOK'
  <2>1. place' \in [Tasks -> Spots \cup Threads]
    BY <1>6, MoveType DEF Checks, Puts, Spots
  <2>2. inTime' \subseteq Tasks
    BY <1>6 DEF Checks, Puts, QueueTypeOK
  <2> QED BY <1>6, <2>1, <2>2 DEF Checks, Puts, QueueTypeOK, counts
<1>7. ASSUME NEW t \in Tasks, Retry(t) PROVE QueueTypeOK'
  <2>1. CASE RetryForgets(t)
    <3>1. place' \in [Tasks -> Spots \cup Threads]
      BY <2>1, MoveType DEF RetryForgets, Spots
    <3> QED BY <2>1, <3>1 DEF RetryForgets, QueueTypeOK, counts
  <2>2. CASE RetryWrites(t)
    <3>1. place' \in [Tasks -> Spots \cup Threads]
      BY <2>2, MoveType DEF RetryWrites, Spots
    <3>2. attempts' \in [Tasks -> Nat]
      BY <2>2, TriedType DEF RetryWrites
    <3>3. processed' \in Nat /\ failed' \in Nat
      BY <2>2 DEF RetryWrites, Counts, QueueTypeOK
    <3> QED BY <2>2, <3>1, <3>2, <3>3 DEF RetryWrites, QueueTypeOK
  <2>3. CASE RetryRaises(t)
    <3>1. /\ place' \in [Tasks -> Spots \cup Threads]
          /\ retries' \in [Tasks -> 0..MaxRetries]
          /\ processed' \in Nat /\ failed' \in Nat
      BY <2>3, RetryLaterType DEF RetryRaises
    <3>2. attempts' \in [Tasks -> Nat]
      BY <2>3, TriedType DEF RetryRaises
    <3> QED BY <2>3, <3>1, <3>2 DEF RetryRaises, QueueTypeOK
  <2> QED BY <1>7, <2>1, <2>2, <2>3 DEF Retry
<1>8. ASSUME NEW w \in Workers, Works(w) PROVE QueueTypeOK'
  <2>1. pc' \in [Threads -> Points]
    BY <1>8, <1>w DEF Works, Loops, Gets, Appends, ChecksTimeout, Goes, QueueTypeOK, Points
  <2>2. place' \in [Tasks -> Spots \cup Threads]
    BY <1>8, <1>w DEF Works, Loops, Gets, Appends, ChecksTimeout, Move, QueueTypeOK, Spots
  <2> QED BY <1>8, <2>1, <2>2
          DEF Works, Loops, Gets, Appends, ChecksTimeout, QueueTypeOK, counts
<1>9. ASSUME NEW h \in Threads, Flushes(h) PROVE QueueTypeOK'
  <2>0. pc' \in [Threads -> Points]
    BY <1>9 DEF Flushes, TakesBatch, WritesBatch, BatchRaises, Returns, Goes,
                QueueTypeOK, Points
  <2>1. CASE TakesBatch(h)
    <3>1. place' \in [Tasks -> Spots \cup Threads]
      BY <2>1 DEF TakesBatch, Move, QueueTypeOK
    <3> QED BY <2>0, <2>1, <3>1 DEF TakesBatch, QueueTypeOK, counts
  <2>2. CASE WritesBatch(h)
    <3>1. place' \in [Tasks -> Spots \cup Threads]
      BY <2>2, MoveType DEF WritesBatch, Spots
    <3>2. attempts' \in [Tasks -> Nat]
      BY <2>2, TriedType DEF WritesBatch
    <3>3. Cardinality(TasksAt(h)) \in Nat
      BY SizeOfTasks DEF TasksAt
    <3>4. processed' \in Nat /\ failed' \in Nat
      BY <2>2, <3>3 DEF WritesBatch, Counts, QueueTypeOK
    <3> QED BY <2>0, <2>2, <3>1, <3>2, <3>4 DEF WritesBatch, QueueTypeOK
  <2>3. CASE BatchRaises(h)
    <3>1. /\ place' \in [Tasks -> Spots \cup Threads]
          /\ retries' \in [Tasks -> 0..MaxRetries]
          /\ processed' \in Nat /\ failed' \in Nat
      BY <2>3, RetryLaterType DEF BatchRaises, TasksAt
    <3>2. attempts' \in [Tasks -> Nat]
      BY <2>3, TriedType DEF BatchRaises
    <3> QED BY <2>0, <2>3, <3>1, <3>2 DEF BatchRaises, QueueTypeOK
  <2> QED BY <1>9, <2>1, <2>2, <2>3 DEF Flushes
<1>10. CASE UNCHANGED queueVars
  BY <1>10 DEF queueVars, counts, QueueTypeOK
<1> QED BY <1>1, <1>2, <1>3, <1>4, <1>5, <1>6, <1>7, <1>8, <1>9, <1>10 DEF QueueNext

(* Type correctness of the write queue.                                        *)
THEOREM QueueTypeCorrect == QueueSpec => []QueueTypeOK
  BY TypeInit, TypeNext, PTL DEF QueueSpec
-----------------------------------------------------------------------------
(* A write that raised puts a task on a timer with one retry more, so the      *)
(* attempt just made is covered.                                               *)
LEMMA RetryLaterTried ==
  ASSUME QueueTypeOK, TriedAsCounted, NEW tasks \in SUBSET Tasks,
         \A t \in tasks : place[t] # "gone",
         RetryLater(tasks), Tried(tasks)
  PROVE  TriedAsCounted'
  BY DEF QueueTypeOK, TriedAsCounted, RetryLater, Retriable, Tried

(* A write that returned is the last of its task.                              *)
LEMMA WrittenTried ==
  ASSUME QueueTypeOK, TriedAsCounted, NEW tasks \in SUBSET Tasks,
         \A t \in tasks : place[t] # "gone",
         Move(tasks, "gone"), Tried(tasks), retries' = retries
  PROVE  TriedAsCounted'
  BY DEF QueueTypeOK, TriedAsCounted, Move, Tried

LEMMA TriedNext == QueueTypeOK /\ TriedAsCounted /\ [QueueNext]_queueVars => TriedAsCounted'
<1> SUFFICES ASSUME QueueTypeOK, TriedAsCounted, [QueueNext]_queueVars PROVE TriedAsCounted'
    OBVIOUS
<1>a. \A h \in Threads : h # "gone"
  BY QueueAssumption DEF Spots
<1>1. CASE Start \/ Stop(TRUE) \/ Stop(FALSE) \/ Drained \/ Joined \/ ForceFlush
  BY <1>1 DEF Start, Stop, Drained, Joined, ForceFlush, TriedAsCounted
<1>2. ASSUME NEW t \in Tasks, Checks(t) \/ Puts(t) PROVE TriedAsCounted'
  BY <1>2 DEF Checks, Puts, Move, QueueTypeOK, TriedAsCounted
<1>3. ASSUME NEW t \in Tasks, Retry(t) PROVE TriedAsCounted'
  <2>1. CASE RetryForgets(t)
    BY <2>1 DEF RetryForgets, Move, QueueTypeOK, TriedAsCounted
  <2>2. CASE RetryWrites(t)
    BY <2>2, WrittenTried DEF RetryWrites
  <2>3. CASE RetryRaises(t)
    BY <2>3, RetryLaterTried DEF RetryRaises
  <2> QED BY <1>3, <2>1, <2>2, <2>3 DEF Retry
<1>4. ASSUME NEW w \in Workers, Works(w) PROVE TriedAsCounted'
  <2>1. w # "gone" /\ attempts' = attempts /\ retries' = retries
    BY <1>4, <1>a DEF Works, Loops, Gets, Appends, ChecksTimeout, Threads
  <2>2. \A t \in Tasks : place[t] # place'[t] => place[t] # "gone"
    BY <1>4, <2>1
    DEF Works, Loops, Gets, Appends, ChecksTimeout, Move, TasksAt, QueueTypeOK
  <2> QED BY <2>1, <2>2 DEF QueueTypeOK, TriedAsCounted
<1>5. ASSUME NEW h \in Threads, Flushes(h) PROVE TriedAsCounted'
  <2>0. TasksAt(h) \in SUBSET Tasks /\ \A t \in TasksAt(h) : place[t] # "gone"
    BY <1>a DEF TasksAt
  <2>1. CASE TakesBatch(h)
    BY <2>1 DEF TakesBatch, Move, TasksAt, QueueTypeOK, TriedAsCounted
  <2>2. CASE WritesBatch(h)
    BY <2>2, <2>0, WrittenTried DEF WritesBatch
  <2>3. CASE BatchRaises(h)
    BY <2>3, <2>0, RetryLaterTried DEF BatchRaises
  <2> QED BY <1>5, <2>1, <2>2, <2>3 DEF Flushes
<1>6. CASE UNCHANGED queueVars
  BY <1>6 DEF queueVars, TriedAsCounted
<1> QED BY <1>1, <1>2, <1>3, <1>4, <1>5, <1>6 DEF QueueNext

(* However the batch and the timers share the work, no write is tried more     *)
(* than max_retries + 1 times (_flush_batch, _retry_task).                     *)
THEOREM AttemptsAreBounded == QueueSpec => []AttemptsBounded
<1>1. QueueInit => TriedAsCounted
  BY DEF QueueInit, TriedAsCounted
<1>2. QueueTypeOK /\ TriedAsCounted => AttemptsBounded
  BY QueueAssumption DEF QueueTypeOK, TriedAsCounted, AttemptsBounded
<1> QED BY <1>1, <1>2, TypeInit, TypeNext, TriedNext, PTL DEF QueueSpec
-----------------------------------------------------------------------------
(* Steps that touch neither the workers nor what is queued, buffered or held   *)
(* only have to keep the event, the state and the cleanness in agreement.      *)
LEMMA ServedInit == QueueInit => Served
<1> SUFFICES ASSUME QueueInit PROVE Served
    OBVIOUS
<1>1. HolderIsBusy
  BY QueueAssumption DEF QueueInit, HolderIsBusy, Spots
<1> QED BY <1>1
    DEF QueueInit, Served, EventMatchesState, RunningHasWorker, QueuedIsServed,
        BufferedIsServed, CleanHasNoWorker, InTimeWasPut

LEMMA ServedNext == QueueTypeOK /\ Served /\ [QueueNext]_queueVars => Served'
<1> SUFFICES ASSUME QueueTypeOK, Served, [QueueNext]_queueVars PROVE Served'
    OBVIOUS
<1>a. \A h \in Threads : h \notin Spots
  BY QueueAssumption
<1>b. /\ \A w \in Workers : w \in Threads /\ w # Controller /\ w # Caller
      /\ Controller \in Threads /\ Caller \in Threads
  BY QueueAssumption DEF Threads
<1>1. CASE Start
  <2>1. PICK started \in SUBSET {w \in Workers : pc[w] = "idle"} :
           /\ Cardinality(started) = WorkerThreads
           /\ pc' = [h \in Threads |-> IF h \in started THEN "loop" ELSE pc[h]]
    BY <1>1 DEF Start
  <2>2. started # {}
    BY <2>1, FS_EmptySet, QueueAssumption
  <2>3. \E w \in Workers : InLoop(w)'
    BY <2>1, <2>2, <1>b DEF InLoop
  <2>4. HolderIsBusy'
    BY <1>1, <2>1, <1>b DEF Start, Served, HolderIsBusy
  <2> QED BY <1>1, <2>3, <2>4
      DEF Start, Served, EventMatchesState, RunningHasWorker, QueuedIsServed,
          BufferedIsServed, WillFlush, CleanHasNoWorker, InTimeWasPut
<1>2. ASSUME NEW wait \in BOOLEAN, Stop(wait) PROVE Served'
  <2>1. \A w \in Workers : pc'[w] = pc[w]
    BY <1>2, <1>b DEF Stop, Goes, QueueTypeOK
  <2>2. HolderIsBusy'
    BY <1>2, <1>b DEF Stop, Goes, QueueTypeOK, Served, HolderIsBusy
  <2> QED BY <1>2, <2>1, <2>2
      DEF Stop, Served, EventMatchesState, RunningHasWorker, QueuedIsServed,
          BufferedIsServed, InLoop, WillFlush, CleanHasNoWorker, InTimeWasPut
<1>3. CASE Drained \/ Joined \/ ForceFlush
  <2>1. \A w \in Workers : pc'[w] = pc[w]
    BY <1>3, <1>b DEF Drained, Joined, ForceFlush, Goes, QueueTypeOK
  <2>2. HolderIsBusy'
    BY <1>3, <1>b DEF Drained, Joined, ForceFlush, Goes, QueueTypeOK, Served, HolderIsBusy
  <2>3. CleanHasNoWorker'
    <3>1. CASE Joined
      <4>1. clean' => \A w \in Workers : pc[w] = "idle"
        BY <3>1 DEF Joined
      <4> QED BY <4>1, <2>1 DEF CleanHasNoWorker
    <3>2. CASE Drained \/ ForceFlush
      BY <3>2, <2>1 DEF Drained, ForceFlush, Served, CleanHasNoWorker
    <3> QED BY <1>3, <3>1, <3>2
  <2>4. /\ EventMatchesState'
        /\ state' = "RUNNING" => state = "RUNNING"
        /\ UNCHANGED <<place, inTime>>
    <3>1. CASE Joined
      BY <3>1 DEF Joined, EventMatchesState
    <3>2. CASE Drained \/ ForceFlush
      BY <3>2 DEF Drained, ForceFlush, Served, EventMatchesState
    <3> QED BY <1>3, <3>1, <3>2
  <2>5. /\ \A w \in Workers : InLoop(w) => InLoop(w)'
        /\ \A w \in Workers : WillFlush(w) => WillFlush(w)'
    BY <2>1 DEF InLoop, WillFlush
  <2>6. RunningHasWorker' /\ QueuedIsServed' /\ BufferedIsServed' /\ InTimeWasPut'
    BY <2>4, <2>5
    DEF Served, RunningHasWorker, QueuedIsServed, BufferedIsServed, InTimeWasPut
  <2> QED BY <2>2, <2>3, <2>4, <2>6 DEF Served
<1>4. ASSUME NEW t \in Tasks, Checks(t) \/ Puts(t) PROVE Served'
  <2>1. HolderIsBusy'
    BY <1>4, <1>a DEF Checks, Puts, Move, QueueTypeOK, Served, HolderIsBusy, Spots
  <2>2. /\ \A x \in Tasks : x # t => place'[x] = place[x]
        /\ place'[t] # "buffer" /\ pc' = pc
        /\ t \notin inTime /\ inTime' \subseteq inTime \cup {t}
        /\ t \in inTime' => state = "RUNNING" /\ place'[t] = "queue"
    BY <1>4 DEF Checks, Puts, Move, QueueTypeOK, Served, InTimeWasPut
  <2>3. BufferedIsServed'
    BY <2>2 DEF QueueTypeOK, Served, BufferedIsServed, InLoop, WillFlush
  <2>4. QueuedIsServed'
    BY <2>2 DEF QueueTypeOK, Served, RunningHasWorker, QueuedIsServed, InLoop
  <2>5. InTimeWasPut'
    BY <2>2 DEF QueueTypeOK, Served, InTimeWasPut
  <2> QED BY <1>4, <2>1, <2>3, <2>4, <2>5
      DEF Checks, Puts, Served, EventMatchesState, RunningHasWorker, InLoop,
          CleanHasNoWorker
<1>5. ASSUME NEW t \in Tasks, Retry(t) PROVE Served'
  <2>1. /\ UNCHANGED <<state, shutdown, pc, inTime, clean>>
        /\ \A x \in Tasks : place'[x] \in {place[x], "timer", "gone"}
    BY <1>5 DEF Retry, RetryForgets, RetryWrites, RetryRaises, RetryLater, Move, QueueTypeOK
  <2>2. HolderIsBusy'
    BY <2>1, <1>a DEF Served, HolderIsBusy, Spots
  <2>3. QueuedIsServed' /\ BufferedIsServed' /\ InTimeWasPut'
    BY <2>1 DEF QueueTypeOK, Served, QueuedIsServed, BufferedIsServed, InTimeWasPut,
                InLoop, WillFlush
  <2> QED BY <2>1, <2>2, <2>3
      DEF Served, EventMatchesState, RunningHasWorker, InLoop, CleanHasNoWorker
<1>6. ASSUME NEW w \in Workers, Works(w) PROVE Served'
  <2>0. /\ UNCHANGED <<state, shutdown, inTime, clean>>
        /\ InLoop(w) /\ WillFlush(w)'
        /\ \A h \in Threads \ {w} : pc'[h] = pc[h]
    BY <1>6, <1>b DEF Works, Loops, Gets, Appends, ChecksTimeout, Goes, QueueTypeOK,
                      InLoop, WillFlush
  <2>1. CASE Loops(w)
    <3>1. state = "RUNNING" => InLoop(w)'
      BY <2>1, <1>b DEF Loops, Goes, QueueTypeOK, Served, EventMatchesState, InLoop
    <3>2. (\E t \in inTime : place[t] = "queue") => InLoop(w)'
      BY <2>1, <1>b DEF Loops, Goes, QueueTypeOK, InLoop, TasksAt
    <3>3. HolderIsBusy'
      BY <2>1, <1>b DEF Loops, Goes, QueueTypeOK, Served, HolderIsBusy
    <3> QED BY <2>0, <2>1, <3>1, <3>2, <3>3
        DEF Loops, Served, EventMatchesState, RunningHasWorker, QueuedIsServed,
            BufferedIsServed, CleanHasNoWorker, InTimeWasPut, InLoop
  <2>2. CASE Gets(w) \/ Appends(w) \/ ChecksTimeout(w)
    <3>1. InLoop(w)'
      BY <2>2, <1>b DEF Gets, Appends, ChecksTimeout, Goes, QueueTypeOK, InLoop
    <3>2. HolderIsBusy'
      BY <2>2, <1>a, <1>b
      DEF Gets, Appends, ChecksTimeout, Goes, Move, TasksAt, QueueTypeOK, Served,
          HolderIsBusy, Spots
    <3>3. InTimeWasPut'
      BY <2>0, <2>2, <1>a, <1>b
      DEF Gets, Appends, ChecksTimeout, Move, TasksAt, QueueTypeOK, Served, InTimeWasPut, Spots
    <3> QED BY <2>0, <3>1, <3>2, <3>3
        DEF Served, EventMatchesState, RunningHasWorker, QueuedIsServed,
            BufferedIsServed, WillFlush, CleanHasNoWorker, InLoop
  <2> QED BY <1>6, <2>1, <2>2 DEF Works
<1>7. ASSUME NEW h \in Threads, Flushes(h) PROVE Served'
  <2>0. /\ UNCHANGED <<state, shutdown, inTime, clean>>
        /\ \A k \in Threads \ {h} : pc'[k] = pc[k]
        /\ ~InLoop(h) \/ pc[h] = "reflush"
    BY <1>7 DEF Flushes, TakesBatch, WritesBatch, BatchRaises, Returns, Goes,
                QueueTypeOK, InLoop
  <2>1. pc[h] # "reflush"
    BY <1>7 DEF Flushes, TakesBatch, WritesBatch, BatchRaises, LockFree
  <2>2. \A w \in Workers : InLoop(w) => InLoop(w)'
    BY <2>0, <2>1, <1>b DEF InLoop
  <2>3. CASE TakesBatch(h)
    <3>1. \A t \in inTime : place'[t] # "buffer"
      BY <2>3, <1>a DEF TakesBatch, Move, TasksAt, QueueTypeOK, Spots
    <3>2. \A t \in Tasks : place'[t] = "queue" => place[t] = "queue"
      BY <2>3, <1>a DEF TakesBatch, Move, TasksAt, QueueTypeOK, Spots
    <3>3. HolderIsBusy'
      <4>1. CASE TasksAt("buffer") = {}
        BY <2>3, <4>1, <2>0, <2>1
        DEF TakesBatch, QueueTypeOK, Served, HolderIsBusy
      <4>2. CASE TasksAt("buffer") # {}
        BY <2>3, <4>2, <1>a, <2>0
        DEF TakesBatch, Move, TasksAt, Goes, QueueTypeOK, Served, HolderIsBusy, Spots
      <4> QED BY <4>1, <4>2
    <3>4. CleanHasNoWorker'
      BY <2>3, <2>0, <1>b DEF TakesBatch, Served, CleanHasNoWorker
    <3>5. InTimeWasPut'
      BY <2>3, <1>a
      DEF TakesBatch, Move, TasksAt, QueueTypeOK, Served, InTimeWasPut, Spots
    <3> QED BY <2>0, <2>2, <3>1, <3>2, <3>3, <3>4, <3>5
        DEF QueueTypeOK, Served, EventMatchesState, RunningHasWorker, QueuedIsServed,
            BufferedIsServed
  <2>4. CASE WritesBatch(h) \/ BatchRaises(h)
    <3>1. /\ \A t \in Tasks : \/ place'[t] = place[t] /\ place[t] # h
                              \/ place'[t] \in {"timer", "gone"}
      BY <2>4 DEF WritesBatch, BatchRaises, RetryLater, Move, TasksAt, QueueTypeOK
    <3>2. HolderIsBusy'
      BY <3>1, <1>a, <2>0 DEF Served, HolderIsBusy, Spots
    <3>3. \A w \in Workers : WillFlush(w) => WillFlush(w)'
      BY <2>4, <2>0, <2>2, <1>b DEF WritesBatch, BatchRaises, WillFlush
    <3>4. CleanHasNoWorker'
      BY <2>4, <2>0, <1>b DEF WritesBatch, BatchRaises, Served, CleanHasNoWorker
    <3> QED BY <2>0, <2>2, <3>1, <3>2, <3>3, <3>4
        DEF QueueTypeOK, Served, EventMatchesState, RunningHasWorker, QueuedIsServed,
            BufferedIsServed, InTimeWasPut
  <2> QED BY <1>7, <2>3, <2>4 DEF Flushes
<1>8. CASE UNCHANGED queueVars
  BY <1>8 DEF queueVars, counts, Served, EventMatchesState, RunningHasWorker,
              QueuedIsServed, BufferedIsServed, HolderIsBusy, CleanHasNoWorker,
              InTimeWasPut, InLoop, WillFlush
<1> QED BY <1>1, <1>2, <1>3, <1>4, <1>5, <1>6, <1>7, <1>8 DEF QueueNext

(* "Graceful shutdown with queue draining" (line 9): whatever threads start,   *)
(* end, flush and retry meanwhile, a stop() that leaves no worker alive leaves *)
(* nothing queued or buffered that was put on the queue while it was RUNNING.  *)
THEOREM StopDrains == QueueSpec => []DrainedOnStop
<1>1. QueueTypeOK /\ Served => DrainedOnStop
  <2> SUFFICES ASSUME QueueTypeOK, Served, state = "STOPPED", clean, NEW t \in inTime
               PROVE  place[t] \notin {"queue", "buffer"} \cup Workers
      BY DEF DrainedOnStop
  <2>1. \A w \in Workers : pc[w] = "idle"
    BY DEF Served, CleanHasNoWorker
  <2>2. \A w \in Workers : ~WillFlush(w) /\ ~InLoop(w)
    BY <2>1 DEF WillFlush, InLoop
  <2> QED BY <2>1, <2>2
      DEF QueueTypeOK, Threads, Served, QueuedIsServed, BufferedIsServed, HolderIsBusy
<1> QED BY <1>1, TypeInit, TypeNext, ServedInit, ServedNext, PTL DEF QueueSpec
-----------------------------------------------------------------------------
(* Tasks that are given up have been given up: no other step takes them back.  *)
Accounted == forgotten \subseteq TasksAt("gone") /\ StatsAccount

(* What is done with grows by the tasks a step settles, which were not.        *)
LEMMA SettledAdd ==
  ASSUME QueueTypeOK, NEW settled \in SUBSET Tasks, settled \cap TasksAt("gone") = {},
         TasksAt("gone")' = TasksAt("gone") \cup settled
  PROVE  Cardinality(TasksAt("gone")') = Cardinality(TasksAt("gone")) + Cardinality(settled)
<1>1. TasksAt("gone") \in SUBSET Tasks
  BY DEF TasksAt
<1>2. IsFiniteSet(TasksAt("gone")) /\ IsFiniteSet(settled) /\ settled \cap TasksAt("gone") = {}
  BY <1>1, FS_Subset, QueueAssumption
<1>3. Cardinality(TasksAt("gone") \cap settled) = 0
  <2>1. TasksAt("gone") \cap settled = {}
    BY <1>2
  <2> QED BY <2>1, FS_EmptySet
<1>4. Cardinality(TasksAt("gone") \cup settled)
        = Cardinality(TasksAt("gone")) + Cardinality(settled) - Cardinality(TasksAt("gone") \cap settled)
  BY <1>2, FS_Union
<1>5. Cardinality(TasksAt("gone")) \in Nat /\ Cardinality(settled) \in Nat
  BY <1>1, SizeOfTasks
<1>6. Cardinality(TasksAt("gone")') = Cardinality(TasksAt("gone") \cup settled)
  BY Zenon
<1> QED BY <1>3, <1>4, <1>5, <1>6

(* A step that counts what it settles keeps the account.                       *)
LEMMA CountedKept ==
  ASSUME QueueTypeOK, Accounted, NEW settled \in SUBSET Tasks, settled \cap TasksAt("gone") = {},
         TasksAt("gone")' = TasksAt("gone") \cup settled,
         processed' + failed' = processed + failed + Cardinality(settled),
         forgotten' = forgotten
  PROVE  Accounted'
<1>1. Cardinality(TasksAt("gone")') = Cardinality(TasksAt("gone")) + Cardinality(settled)
  BY SettledAdd
<1>2. Cardinality(TasksAt("gone")) \in Nat /\ Cardinality(forgotten) \in Nat
      /\ Cardinality(settled) \in Nat /\ processed \in Nat /\ failed \in Nat
  BY SizeOfTasks DEF TasksAt, QueueTypeOK
<1>3. processed' + failed' + Cardinality(forgotten') = Cardinality(TasksAt("gone")')
  BY <1>1, <1>2 DEF Accounted, StatsAccount
<1> QED BY <1>3 DEF Accounted, StatsAccount

LEMMA RetryLaterAccounted ==
  ASSUME QueueTypeOK, Accounted, NEW tasks \in SUBSET Tasks,
         \A t \in tasks : place[t] # "gone",
         RetryLater(tasks), forgotten' = forgotten
  PROVE  Accounted'
<1> DEFINE settled == tasks \ Retriable(tasks)
<1>1. settled \in SUBSET Tasks /\ settled \cap TasksAt("gone") = {}
  BY DEF TasksAt
<1>2. TasksAt("gone")' = TasksAt("gone") \cup settled
  BY DEF RetryLater, Retriable, TasksAt, QueueTypeOK
<1>3. Cardinality(settled) \in Nat
  BY <1>1, SizeOfTasks
<1>4. processed' + failed' = processed + failed + Cardinality(settled)
  BY <1>3 DEF RetryLater, Counts, QueueTypeOK
<1> HIDE DEF settled
<1> QED BY <1>1, <1>2, <1>4, CountedKept

(* No step but a write's end and a retry's changes what is done with.          *)
LEMMA OthersKeepAccount ==
  ASSUME QueueTypeOK, Accounted, TasksAt("gone")' = TasksAt("gone"),
         UNCHANGED <<processed, failed, forgotten>>
  PROVE  Accounted'
  BY DEF Accounted, StatsAccount

LEMMA AccountedNext == QueueTypeOK /\ Accounted /\ [QueueNext]_queueVars => Accounted'
<1> SUFFICES ASSUME QueueTypeOK, Accounted, [QueueNext]_queueVars PROVE Accounted'
    OBVIOUS
<1>a. \A h \in Threads : h # "gone"
  BY QueueAssumption DEF Spots
<1>1. CASE Start \/ Stop(TRUE) \/ Stop(FALSE) \/ Drained \/ Joined \/ ForceFlush
  BY <1>1, OthersKeepAccount DEF Start, Stop, Drained, Joined, ForceFlush, counts, TasksAt
<1>2. ASSUME NEW t \in Tasks, Checks(t) \/ Puts(t) PROVE Accounted'
  <2>1. TasksAt("gone")' = TasksAt("gone")
    BY <1>2 DEF Checks, Puts, Move, TasksAt, QueueTypeOK
  <2> QED BY <1>2, <2>1, OthersKeepAccount DEF Checks, Puts, counts
<1>3. ASSUME NEW t \in Tasks, Retry(t) PROVE Accounted'
  <2>0. /\ {t} \in SUBSET Tasks /\ \A x \in {t} : place[x] # "gone"
        /\ {t} \cap TasksAt("gone") = {} /\ Cardinality({t}) = 1
    BY <1>3, FS_Singleton DEF Retry, RetryForgets, RetryWrites, RetryRaises, TasksAt
  <2>1. CASE RetryForgets(t)
    <3>1. TasksAt("gone")' = TasksAt("gone") \cup {t}
      BY <2>1 DEF RetryForgets, Move, TasksAt, QueueTypeOK
    <3>2. Cardinality(TasksAt("gone")') = Cardinality(TasksAt("gone")) + 1
      BY <2>0, <3>1, SettledAdd
    <3>3. Cardinality(forgotten') = Cardinality(forgotten) + 1
      <4>1. t \notin forgotten /\ IsFiniteSet(forgotten)
        BY <2>0, FS_Subset, QueueAssumption DEF Accounted, QueueTypeOK
      <4> QED BY <2>1, <4>1, FS_AddElement DEF RetryForgets
    <3>4. Cardinality(TasksAt("gone")) \in Nat /\ Cardinality(forgotten) \in Nat
      BY SizeOfTasks DEF TasksAt, QueueTypeOK
    <3>5. UNCHANGED <<processed, failed>> /\ forgotten' = forgotten \cup {t}
      BY <2>1 DEF RetryForgets, counts
    <3>6. StatsAccount'
      BY <3>2, <3>3, <3>4, <3>5 DEF Accounted, StatsAccount, QueueTypeOK
    <3> QED BY <3>1, <3>5, <3>6 DEF Accounted
  <2>2. CASE RetryWrites(t)
    <3>1. TasksAt("gone")' = TasksAt("gone") \cup {t}
      BY <2>2 DEF RetryWrites, Move, TasksAt, QueueTypeOK
    <3>2. processed' + failed' = processed + failed + Cardinality({t})
      BY <2>0, <2>2 DEF RetryWrites, Counts, QueueTypeOK
    <3> QED BY <2>0, <2>2, <3>1, <3>2, CountedKept DEF RetryWrites
  <2>3. CASE RetryRaises(t)
    BY <2>0, <2>3, RetryLaterAccounted DEF RetryRaises
  <2> QED BY <1>3, <2>1, <2>2, <2>3 DEF Retry
<1>4. ASSUME NEW w \in Workers, Works(w) PROVE Accounted'
  <2>1. TasksAt("gone")' = TasksAt("gone")
    BY <1>4, <1>a DEF Works, Loops, Gets, Appends, ChecksTimeout, Move, TasksAt, QueueTypeOK, Threads
  <2> QED BY <1>4, <2>1, OthersKeepAccount
          DEF Works, Loops, Gets, Appends, ChecksTimeout, counts
<1>5. ASSUME NEW h \in Threads, Flushes(h) PROVE Accounted'
  <2>0. /\ TasksAt(h) \in SUBSET Tasks /\ \A t \in TasksAt(h) : place[t] # "gone"
        /\ TasksAt(h) \cap TasksAt("gone") = {}
    BY <1>a DEF TasksAt
  <2>1. CASE TakesBatch(h)
    <3>1. TasksAt("gone")' = TasksAt("gone")
      BY <2>1, <1>a DEF TakesBatch, Move, TasksAt, QueueTypeOK
    <3> QED BY <2>1, <3>1, OthersKeepAccount DEF TakesBatch, counts
  <2>2. CASE WritesBatch(h)
    <3>1. TasksAt("gone")' = TasksAt("gone") \cup TasksAt(h)
      BY <2>2 DEF WritesBatch, Move, TasksAt, QueueTypeOK
    <3>2. Cardinality(TasksAt(h)) \in Nat
      BY <2>0, SizeOfTasks
    <3>3. processed' + failed' = processed + failed + Cardinality(TasksAt(h))
      BY <2>2, <3>2 DEF WritesBatch, Counts, QueueTypeOK
    <3> QED BY <2>0, <2>2, <3>1, <3>3, CountedKept DEF WritesBatch
  <2>3. CASE BatchRaises(h)
    BY <2>0, <2>3, RetryLaterAccounted DEF BatchRaises
  <2> QED BY <1>5, <2>1, <2>2, <2>3 DEF Flushes
<1>6. CASE UNCHANGED queueVars
  BY <1>6, OthersKeepAccount DEF queueVars, counts, TasksAt
<1> QED BY <1>1, <1>2, <1>3, <1>4, <1>5, <1>6 DEF QueueNext

(* However workers, flushes, timers and stops interleave, the statistics count *)
(* every task that is done with once, except those a retry forgot because the  *)
(* queue was not running (_flush_batch, _retry_task).                          *)
THEOREM EveryTaskIsCounted == QueueSpec => []StatsAccount
<1>1. QueueInit => Accounted
  <2> SUFFICES ASSUME QueueInit PROVE Accounted
      OBVIOUS
  <2>1. TasksAt("gone") = {} /\ forgotten = {} /\ processed = 0 /\ failed = 0
    BY DEF QueueInit, TasksAt
  <2> QED BY <2>1, FS_EmptySet DEF Accounted, StatsAccount
<1>2. Accounted => StatsAccount
  BY DEF Accounted
<1> QED BY <1>1, <1>2, TypeInit, TypeNext, AccountedNext, PTL DEF QueueSpec
===============================================================================
