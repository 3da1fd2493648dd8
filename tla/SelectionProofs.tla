--------------------------- MODULE SelectionProofs ---------------------------
(* What a selection keeps: the chosen elements, all of them, in their order.    *)
EXTENDS Selection, WellFoundedInduction, TLAPS

(* Induction over a set of numbers: it has a least one, or none.                *)
LEMMA Least ==
  ASSUME NEW T \in SUBSET Nat, T # {}
  PROVE  \E m \in T : \A n \in T : m <= n
<1>1. PICK m \in T : \A n \in T : <<n, m>> \notin OpToRel(<, Nat)
  BY WFMin, NatLessThanWellFounded, Zenon
<1>2. \A n \in T : ~(n < m)
  BY <1>1, Zenon DEF OpToRel
<1> QED BY <1>2

UpToStep(s, chosen, f, n) == IF n = 0 THEN <<>>
                             ELSE IF n \in chosen THEN Append(f[n - 1], s[n])
                             ELSE f[n - 1]

LEMMA StepsExist ==
  ASSUME NEW s, NEW chosen
  PROVE  \A m \in Nat : \E f : f = [n \in 0..m |-> UpToStep(s, chosen, f, n)]
<1> DEFINE Made(m) == \E f : f = [n \in 0..m |-> UpToStep(s, chosen, f, n)]
           Bad == {m \in Nat : ~Made(m)}
<1>1. Made(0)
  <2> DEFINE f == [n \in 0..0 |-> <<>>]
  <2>1. f = [n \in 0..0 |-> UpToStep(s, chosen, f, n)]
    BY DEF UpToStep
  <2> QED BY <2>1
<1>2. ASSUME NEW m \in Nat, Made(m) PROVE Made(m + 1)
  <2>1. PICK h : h = [n \in 0..m |-> UpToStep(s, chosen, h, n)]
    BY <1>2
  <2> DEFINE f == [n \in 0..(m + 1) |-> IF n <= m THEN h[n] ELSE UpToStep(s, chosen, h, n)]
  <2>2. ASSUME NEW n \in 0..(m + 1) PROVE f[n] = UpToStep(s, chosen, f, n)
    <3>1. n # 0 => n - 1 \in 0..m /\ f[n - 1] = h[n - 1]
      OBVIOUS
    <3>2. f[n] = UpToStep(s, chosen, h, n)
      BY <2>1
    <3> HIDE DEF f
    <3> QED BY <3>1, <3>2 DEF UpToStep
  <2>3. f = [n \in 0..(m + 1) |-> UpToStep(s, chosen, f, n)]
    <3>1. f = [n \in 0..(m + 1) |-> f[n]]
      OBVIOUS
    <3> HIDE DEF f
    <3> QED BY <3>1, <2>2, Zenon
  <2> QED BY <2>3
<1>3. ASSUME Bad # {} PROVE FALSE
  <2>1. PICK m \in Bad : \A n \in Bad : m <= n
    BY <1>3, Least
  <2> HIDE DEF Made
  <2>2. m # 0 /\ m - 1 \in Nat /\ Made(m - 1)
    BY <1>1, <2>1
  <2>3. Made(m - 1 + 1)
    BY <1>2, <2>2
  <2> QED BY <2>1, <2>3
<1> QED BY <1>3

LEMMA UpToIs ==
  ASSUME NEW s, Len(s) \in Nat, NEW chosen
  PROVE  UpTo(s, chosen) = [n \in 0..Len(s) |-> UpToStep(s, chosen, UpTo(s, chosen), n)]
<1>1. \E f : f = [n \in 0..Len(s) |-> UpToStep(s, chosen, f, n)]
  BY StepsExist
<1>2. UpTo(s, chosen) = CHOOSE f : f = [n \in 0..Len(s) |-> UpToStep(s, chosen, f, n)]
  BY DEF UpTo, UpToStep
<1> QED BY <1>1, <1>2, Zenon

(* The places that the elements of a selection had in the sequence.             *)
TakenFrom(s, chosen, n, r, from) ==
    /\ from \in [1..Len(r) -> chosen \cap 1..n]
    /\ \A j, k \in 1..Len(r) : j < k => from[j] < from[k]
    /\ \A j \in 1..Len(r) : r[j] = s[from[j]]
    /\ \A i \in chosen \cap 1..n : \E j \in 1..Len(r) : from[j] = i

IsSelection(s, chosen, n, r, S) ==
    /\ r \in Seq(S) /\ Len(r) <= n
    /\ ~(1..n \subseteq chosen) => Len(r) < n
    /\ \E from : TakenFrom(s, chosen, n, r, from)

LEMMA SelectionGrows ==
  ASSUME NEW S, NEW s \in Seq(S), NEW chosen, NEW r, NEW n \in 1..Len(s),
         IsSelection(s, chosen, n - 1, r, S)
  PROVE  IsSelection(s, chosen, n, IF n \in chosen THEN Append(r, s[n]) ELSE r, S)
<1>0. /\ n \in Nat /\ n # 0 /\ Len(s) \in Nat /\ s[n] \in S
      /\ r \in Seq(S) /\ Len(r) \in Nat /\ Len(r) <= n - 1
  BY DEF IsSelection
<1>1. PICK from : TakenFrom(s, chosen, n - 1, r, from)
  BY DEF IsSelection
<1>2. CASE n \notin chosen
  <2>1. chosen \cap 1..n = chosen \cap 1..(n - 1)
    BY <1>0, <1>2
  <2>2. TakenFrom(s, chosen, n, r, from)
    BY <1>1, <2>1 DEF TakenFrom
  <2> QED BY <1>0, <1>2, <2>2 DEF IsSelection
<1>3. CASE n \in chosen
  <2> DEFINE longer == Append(r, s[n])
             later == [j \in 1..(Len(r) + 1) |-> IF j <= Len(r) THEN from[j] ELSE n]
  <2>1. /\ longer \in Seq(S) /\ Len(longer) = Len(r) + 1
        /\ \A j \in 1..Len(r) : longer[j] = r[j]
        /\ longer[Len(r) + 1] = s[n]
    BY <1>0
  <2>2. /\ \A j \in 1..Len(r) : later[j] = from[j]
        /\ later[Len(r) + 1] = n
        /\ DOMAIN later = 1..(Len(r) + 1)
    BY <1>0
  <2>3. \A j \in 1..Len(r) : from[j] \in chosen /\ from[j] \in 1..(n - 1)
    BY <1>1 DEF TakenFrom
  <2>4. later \in [1..(Len(r) + 1) -> chosen \cap 1..n]
    BY <1>0, <1>3, <2>3
  <2> HIDE DEF longer, later
  <2>5. \A j, k \in 1..(Len(r) + 1) : j < k => later[j] < later[k]
    <3> SUFFICES ASSUME NEW j \in 1..(Len(r) + 1), NEW k \in 1..(Len(r) + 1), j < k
                 PROVE  later[j] < later[k]
      OBVIOUS
    <3>1. j \in 1..Len(r)
      BY <1>0
    <3>2. CASE k = Len(r) + 1
      BY <1>0, <2>2, <2>3, <3>1, <3>2
    <3>3. CASE k \in 1..Len(r)
      BY <1>1, <2>2, <3>1, <3>3 DEF TakenFrom
    <3> QED BY <1>0, <3>2, <3>3
  <2>6. \A j \in 1..(Len(r) + 1) : longer[j] = s[later[j]]
    <3> SUFFICES ASSUME NEW j \in 1..(Len(r) + 1) PROVE longer[j] = s[later[j]]
      OBVIOUS
    <3>1. CASE j \in 1..Len(r)
      BY <1>1, <2>1, <2>2, <3>1 DEF TakenFrom
    <3>2. CASE j = Len(r) + 1
      BY <2>1, <2>2, <3>2
    <3> QED BY <1>0, <3>1, <3>2
  <2>7. \A i \in chosen \cap 1..n : \E j \in 1..(Len(r) + 1) : later[j] = i
    <3> SUFFICES ASSUME NEW i \in chosen \cap 1..n
                 PROVE  \E j \in 1..(Len(r) + 1) : later[j] = i
      OBVIOUS
    <3>1. CASE i = n
      BY <1>0, <2>2, <3>1
    <3>2. CASE i # n
      <4>1. i \in chosen \cap 1..(n - 1)
        BY <1>0, <3>2
      <4>2. PICK j \in 1..Len(r) : from[j] = i
        BY <1>1, <4>1 DEF TakenFrom
      <4>3. j \in 1..(Len(r) + 1) /\ later[j] = i
        BY <1>0, <2>2, <4>2
      <4> QED BY <4>3
    <3> QED BY <3>1, <3>2
  <2>8. TakenFrom(s, chosen, n, longer, later)
    BY <2>1, <2>4, <2>5, <2>6, <2>7 DEF TakenFrom
  <2>9. ~(1..n \subseteq chosen) => ~(1..(n - 1) \subseteq chosen)
    BY <1>0, <1>3
  <2> QED BY <1>0, <1>3, <2>1, <2>8, <2>9 DEF IsSelection, longer
<1> QED BY <1>2, <1>3

LEMMA SelectsUpTo ==
  ASSUME NEW S, NEW s \in Seq(S), NEW chosen
  PROVE  \A n \in 0..Len(s) : IsSelection(s, chosen, n, UpTo(s, chosen)[n], S)
<1> DEFINE f == UpTo(s, chosen)
           Good(n) == IsSelection(s, chosen, n, f[n], S)
           Bad == {n \in 0..Len(s) : ~Good(n)}
<1>0. Len(s) \in Nat
  OBVIOUS
<1>1. \A n \in 0..Len(s) : f[n] = UpToStep(s, chosen, f, n)
  BY <1>0, UpToIs
<1> HIDE DEF f
<1>2. Good(0)
  <2>1. f[0] = <<>>
    BY <1>0, <1>1 DEF UpToStep
  <2>2. TakenFrom(s, chosen, 0, <<>>, <<>>)
    BY DEF TakenFrom
  <2> QED BY <2>1, <2>2 DEF IsSelection
<1>3. ASSUME NEW n \in 1..Len(s), Good(n - 1) PROVE Good(n)
  <2>1. f[n] = IF n \in chosen THEN Append(f[n - 1], s[n]) ELSE f[n - 1]
    BY <1>0, <1>1 DEF UpToStep
  <2> QED BY <1>3, <2>1, SelectionGrows
<1>4. ASSUME Bad # {} PROVE FALSE
  <2>1. Bad \in SUBSET Nat
    OBVIOUS
  <2>2. PICK n \in Bad : \A m \in Bad : n <= m
    BY <1>4, <2>1, Least
  <2> HIDE DEF Good
  <2>3. n # 0 /\ n \in 1..Len(s) /\ n - 1 \in 0..Len(s)
    BY <1>0, <1>2, <2>2
  <2>4. Good(n - 1)
    BY <2>2, <2>3
  <2> QED BY <1>3, <2>2, <2>3, <2>4
<1>5. \A n \in 0..Len(s) : Good(n)
  BY <1>4
<1> QED BY <1>5 DEF f

(* A selection is a sequence of the chosen elements: all of them, in order, and *)
(* it is shorter when there is one that was not chosen.                         *)
THEOREM SelectedIs ==
  ASSUME NEW S, NEW s \in Seq(S), NEW chosen
  PROVE  LET r == Selected(s, chosen)
         IN  /\ r \in Seq(S) /\ Len(r) <= Len(s)
             /\ ~(DOMAIN s \subseteq chosen) => Len(r) < Len(s)
             /\ \E from : TakenFrom(s, chosen, Len(s), r, from)
  BY SelectsUpTo DEF Selected, IsSelection

LEMMA SelectedElements ==
  ASSUME NEW S, NEW s \in Seq(S), NEW chosen
  PROVE  /\ \A j \in DOMAIN Selected(s, chosen) :
               \E i \in chosen \cap DOMAIN s : Selected(s, chosen)[j] = s[i]
         /\ \A i \in chosen \cap DOMAIN s :
               \E j \in DOMAIN Selected(s, chosen) : Selected(s, chosen)[j] = s[i]
<1> DEFINE r == Selected(s, chosen)
<1>1. r \in Seq(S) /\ DOMAIN r = 1..Len(r) /\ DOMAIN s = 1..Len(s)
  BY SelectedIs
<1>2. PICK from : TakenFrom(s, chosen, Len(s), r, from)
  BY SelectedIs
<1> HIDE DEF r
<1>3. \A j \in DOMAIN r : from[j] \in chosen \cap DOMAIN s /\ r[j] = s[from[j]]
  BY <1>1, <1>2 DEF TakenFrom
<1>4. \A i \in chosen \cap DOMAIN s : \E j \in DOMAIN r : r[j] = s[i]
  BY <1>1, <1>2 DEF TakenFrom
<1> QED BY <1>3, <1>4 DEF r

LEMMA SelectedOrder ==
  ASSUME NEW S, NEW s \in Seq(S), NEW chosen,
         NEW j \in DOMAIN Selected(s, chosen), NEW k \in DOMAIN Selected(s, chosen), j < k
  PROVE  \E i, l \in chosen \cap DOMAIN s :
            i < l /\ Selected(s, chosen)[j] = s[i] /\ Selected(s, chosen)[k] = s[l]
<1> DEFINE r == Selected(s, chosen)
<1>1. r \in Seq(S) /\ DOMAIN r = 1..Len(r) /\ DOMAIN s = 1..Len(s)
  BY SelectedIs
<1>2. PICK from : TakenFrom(s, chosen, Len(s), r, from)
  BY SelectedIs
<1> HIDE DEF r
<1>3. \A n \in DOMAIN r : from[n] \in chosen \cap DOMAIN s /\ r[n] = s[from[n]]
  BY <1>1, <1>2 DEF TakenFrom
<1>4. j \in DOMAIN r /\ k \in DOMAIN r
  BY DEF r
<1>5. from[j] < from[k]
  BY <1>1, <1>2, <1>4 DEF TakenFrom
<1>6. \E i, l \in chosen \cap DOMAIN s : i < l /\ r[j] = s[i] /\ r[k] = s[l]
  BY <1>3, <1>4, <1>5
<1> QED BY <1>6 DEF r
=============================================================================
