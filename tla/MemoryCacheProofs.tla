--------------------------- MODULE MemoryCacheProofs ---------------------------
(* Proofs about the read-write lock, for every finite set of threads, and about *)
(* the cache that uses it, for all keys, limits, policies and calls.            *)
(*                                                                              *)
(* At the end, about another shared table with limits of its own, the health    *)
(* manager of BackendHealth, for every set of backends, limits, durations and   *)
(* threshold, and about CredentialProbe: the probes use the manager only as     *)
(* BackendHealth allows, so that everything proved of it holds with them        *)
(* around; and a backend without credentials is watched while it is frozen.     *)
EXTENDS MemoryCache, CredentialProbe, SelectionProofs, FiniteSetTheorems, TLAPS

(* The two counters count, and at most one thread has the lock for writing,    *)
(* with no reader beside it: the flag says whether there is one.               *)
Counts == /\ readers = Cardinality(AllAt("reading"))
          /\ writersWaiting = Cardinality(AllAt("writeWaits"))

OneWriter == /\ \A w \in Threads : at[w] = "writing" => writerActive /\ readers = 0
             /\ \A v, w \in Threads : at[v] = "writing" /\ at[w] = "writing" => v = w

LockInv == LockTypeOK /\ Counts /\ OneWriter

(* The threads at a place are finitely many, and none when their number is 0.  *)
LEMMA PlacesAreFinite ==
  ASSUME NEW place
  PROVE  /\ IsFiniteSet(AllAt(place))
         /\ Cardinality(AllAt(place)) \in Nat
         /\ Cardinality(AllAt(place)) = 0 <=> AllAt(place) = {}
  BY ThreadsAssumption, FS_Subset, FS_CardinalityType, FS_EmptySet DEF AllAt

(* A thread that moves from one place to another leaves the first one with a   *)
(* thread less, the second with one more, and the others as they are.          *)
LEMMA MoveCounts ==
  ASSUME LockTypeOK, NEW t \in Threads, NEW there \in Places, at[t] # there,
         Goes(t, there), NEW place \in Places
  PROVE  Cardinality(AllAt(place)') =
           IF place = there THEN Cardinality(AllAt(place)) + 1
           ELSE IF place = at[t] THEN Cardinality(AllAt(place)) - 1
           ELSE Cardinality(AllAt(place))
<1>1. at'[t] = there /\ \A u \in Threads \ {t} : at'[u] = at[u]
  BY DEF Goes, LockTypeOK
<1>2. CASE place = there
  <2>1. AllAt(place)' = AllAt(place) \cup {t} /\ t \notin AllAt(place)
    BY <1>1, <1>2 DEF AllAt
  <2> QED BY <1>2, <2>1, PlacesAreFinite, FS_AddElement
<1>3. CASE place # there /\ place = at[t]
  <2>1. AllAt(place)' = AllAt(place) \ {t} /\ t \in AllAt(place)
    BY <1>1, <1>3 DEF AllAt
  <2> QED BY <1>3, <2>1, PlacesAreFinite, FS_RemoveElement
<1>4. CASE place # there /\ place # at[t]
  <2>1. AllAt(place)' = AllAt(place)
    BY <1>1, <1>4 DEF AllAt
  <2> QED BY <1>4, <2>1
<1> QED BY <1>2, <1>3, <1>4

LEMMA InitHasInv == LockInit => LockInv
<1> SUFFICES ASSUME LockInit PROVE LockInv
  OBVIOUS
<1>1. \A place \in Places : place # "out" => AllAt(place) = {}
  BY DEF LockInit, AllAt
<1>2. Counts
  BY <1>1, FS_EmptySet DEF Counts, LockInit, Places
<1> QED BY <1>2 DEF LockInit, LockInv, LockTypeOK, OneWriter, Places

(* One step per operation of the lock: what it counts, and who may be inside.  *)
LEMMA StepKeepsInv ==
  ASSUME LockInv, NEW t \in Threads,
         \/ AcquireRead(t) \/ WokenReader(t) \/ ReleaseRead(t)
         \/ AcquireWrite(t) \/ WokenWriter(t) \/ ReleaseWrite(t)
  PROVE  LockInv'
<1> USE DEF LockInv
<1>0. /\ Cardinality(AllAt("reading")) \in Nat /\ Cardinality(AllAt("writeWaits")) \in Nat
      /\ \A u \in Threads : at[u] = "reading" => readers > 0
      /\ \A u \in Threads : at[u] = "writeWaits" => writersWaiting > 0
  <2>1. \A u \in Threads : /\ at[u] = "reading" => AllAt("reading") # {}
                           /\ at[u] = "writeWaits" => AllAt("writeWaits") # {}
    BY DEF AllAt
  <2> QED BY <2>1, PlacesAreFinite DEF Counts
<1>1. CASE Reads(t) /\ at[t] \in {"out", "readWaits"}
  <2>1. Cardinality(AllAt("reading")') = Cardinality(AllAt("reading")) + 1
    BY <1>1, MoveCounts DEF Reads, Places
  <2>2. Cardinality(AllAt("writeWaits")') = Cardinality(AllAt("writeWaits"))
    BY <1>1, MoveCounts DEF Reads, Places
  <2>3. LockTypeOK'
    BY <1>1 DEF LockTypeOK, Reads, Goes, Places
  <2>4. OneWriter'
    BY <1>1 DEF OneWriter, LockTypeOK, Reads, MayRead, Goes
  <2> QED BY <1>0, <1>1, <2>1, <2>2, <2>3, <2>4 DEF Counts, Reads
<1>2. CASE WaitsToRead(t) /\ at[t] \in {"out", "readWaits"}
  <2>1. Counts'
    <3>1. CASE at[t] = "out"
      <4>1. /\ Cardinality(AllAt("reading")') = Cardinality(AllAt("reading"))
            /\ Cardinality(AllAt("writeWaits")') = Cardinality(AllAt("writeWaits"))
        BY <1>2, <3>1, MoveCounts DEF WaitsToRead, Places
      <4> QED BY <1>2, <4>1 DEF Counts, WaitsToRead
    <3>2. CASE at[t] = "readWaits"
      <4>1. at' = at
        BY <1>2, <3>2 DEF WaitsToRead, Goes, LockTypeOK
      <4> QED BY <1>2, <4>1 DEF Counts, WaitsToRead, AllAt
    <3> QED BY <1>2, <3>1, <3>2
  <2>2. LockTypeOK' /\ OneWriter'
    BY <1>2 DEF LockTypeOK, OneWriter, WaitsToRead, Goes, Places
  <2> QED BY <2>1, <2>2
<1>3. CASE ReleaseRead(t)
  <2>1. /\ Cardinality(AllAt("reading")') = Cardinality(AllAt("reading")) - 1
        /\ Cardinality(AllAt("writeWaits")') = Cardinality(AllAt("writeWaits"))
    BY <1>3, MoveCounts DEF ReleaseRead, Places
  <2>2. LockTypeOK'
    BY <1>0, <1>3 DEF LockTypeOK, ReleaseRead, Goes, Places
  <2>3. OneWriter'
    BY <1>0, <1>3 DEF OneWriter, LockTypeOK, ReleaseRead, Goes
  <2> QED BY <1>0, <1>3, <2>1, <2>2, <2>3 DEF Counts, ReleaseRead
<1>4. CASE AcquireWrite(t)
  <2>1. Counts'
    <3>1. CASE MayWrite
      <4>1. Goes(t, "writing") /\ UNCHANGED <<readers, writersWaiting>> /\ at[t] = "out"
        BY <1>4, <3>1 DEF AcquireWrite
      <4>2. /\ Cardinality(AllAt("reading")') = Cardinality(AllAt("reading"))
            /\ Cardinality(AllAt("writeWaits")') = Cardinality(AllAt("writeWaits"))
        BY <4>1, MoveCounts DEF Places
      <4> QED BY <4>1, <4>2 DEF Counts
    <3>2. CASE ~MayWrite
      <4>1. /\ Goes(t, "writeWaits") /\ at[t] = "out"
            /\ writersWaiting' = writersWaiting + 1 /\ readers' = readers
        BY <1>4, <3>2 DEF AcquireWrite
      <4>2. /\ Cardinality(AllAt("reading")') = Cardinality(AllAt("reading"))
            /\ Cardinality(AllAt("writeWaits")') = Cardinality(AllAt("writeWaits")) + 1
        BY <4>1, MoveCounts DEF Places
      <4> QED BY <4>1, <4>2 DEF Counts
    <3> QED BY <3>1, <3>2
  <2>2. LockTypeOK'
    <3>1. at' \in [Threads -> Places]
      BY <1>4 DEF LockTypeOK, AcquireWrite, Goes, Places
    <3>2. readers' = readers /\ writersWaiting' \in {writersWaiting, writersWaiting + 1}
      BY <1>4 DEF AcquireWrite
    <3>3. writerActive' \in BOOLEAN /\ asleep' \subseteq Threads
      BY <1>4 DEF LockTypeOK, AcquireWrite
    <3> QED BY <3>1, <3>2, <3>3 DEF LockTypeOK
  <2>3. OneWriter'
    BY <1>4 DEF OneWriter, LockTypeOK, AcquireWrite, MayWrite, Goes
  <2> QED BY <2>1, <2>2, <2>3
<1>5. CASE WokenWriter(t)
  <2>1. Counts'
    <3>1. CASE MayWrite
      <4>1. /\ Goes(t, "writing") /\ at[t] = "writeWaits"
            /\ writersWaiting' = writersWaiting - 1 /\ readers' = readers
        BY <1>5, <3>1 DEF WokenWriter
      <4>2. /\ Cardinality(AllAt("reading")') = Cardinality(AllAt("reading"))
            /\ Cardinality(AllAt("writeWaits")') = Cardinality(AllAt("writeWaits")) - 1
        BY <4>1, MoveCounts DEF Places
      <4> QED BY <4>1, <4>2 DEF Counts
    <3>2. CASE ~MayWrite
      BY <1>5, <3>2 DEF WokenWriter, Counts, AllAt
    <3> QED BY <3>1, <3>2
  <2>2. LockTypeOK'
    <3>1. at' \in [Threads -> Places]
      BY <1>5 DEF LockTypeOK, WokenWriter, Goes, Places
    <3>2. readers' = readers /\ writersWaiting' \in {writersWaiting, writersWaiting - 1}
      BY <1>5 DEF WokenWriter
    <3>3. writerActive' \in BOOLEAN /\ asleep' \subseteq Threads
      BY <1>5 DEF LockTypeOK, WokenWriter
    <3>4. writersWaiting > 0
      BY <1>0, <1>5 DEF WokenWriter
    <3> QED BY <3>1, <3>2, <3>3, <3>4 DEF LockTypeOK
  <2>3. OneWriter'
    BY <1>5 DEF OneWriter, LockTypeOK, WokenWriter, MayWrite, Goes
  <2> QED BY <2>1, <2>2, <2>3
<1>6. CASE ReleaseWrite(t)
  <2>1. /\ Cardinality(AllAt("reading")') = Cardinality(AllAt("reading"))
        /\ Cardinality(AllAt("writeWaits")') = Cardinality(AllAt("writeWaits"))
    BY <1>6, MoveCounts DEF ReleaseWrite, Places
  <2>2. LockTypeOK'
    BY <1>6 DEF LockTypeOK, ReleaseWrite, Goes, Places
  <2>3. OneWriter'
    BY <1>6 DEF OneWriter, LockTypeOK, ReleaseWrite, Goes
  <2> QED BY <1>6, <2>1, <2>2, <2>3 DEF Counts, ReleaseWrite
<1> QED BY <1>1, <1>2, <1>3, <1>4, <1>5, <1>6 DEF AcquireRead, WokenReader

(* Who writes is alone: the flag is up, and the readers are none by count.     *)
LEMMA InvExcludes == LockInv => Exclusion
<1> SUFFICES ASSUME LockInv, NEW w \in Threads, NEW t \in Threads,
                    at[w] = "writing", t # w
             PROVE  at[t] \notin {"reading", "writing"}
  BY DEF Exclusion
<1>1. AllAt("reading") = {}
  BY PlacesAreFinite DEF LockInv, Counts, OneWriter
<1> QED BY <1>1 DEF LockInv, OneWriter, AllAt

LEMMA UnchangedKeepsInv == LockInv /\ UNCHANGED lockVars => LockInv'
  BY DEF LockInv, lockVars, LockTypeOK, Counts, OneWriter, AllAt

(* Whatever its users do, the lock lets a writer in alone.                     *)
THEOREM LockExcludes == LockSpec => []Exclusion
<1>1. LockInv /\ [LockNext]_lockVars => LockInv'
  BY StepKeepsInv, UnchangedKeepsInv DEF LockNext
<1> QED BY <1>1, InitHasInv, InvExcludes, PTL DEF LockSpec

(* A reader gets in only when no writer waits: the count it looks at is the    *)
(* number of those who wait, in every state of the lock.                       *)
THEOREM WritersGoFirst == LockSpec => WriterPreference
<1>1. LockInv /\ [LockNext]_lockVars => LockInv'
  BY StepKeepsInv, UnchangedKeepsInv DEF LockNext
<1>2. ASSUME LockInv, [LockNext]_lockVars, NEW r \in Threads,
             at[r] # "reading", at'[r] = "reading"
      PROVE  AllAt("writeWaits") = {}
  <2>1. MayRead
    <3>1. PICK t \in Threads : \/ AcquireRead(t) \/ WokenReader(t) \/ ReleaseRead(t)
                               \/ AcquireWrite(t) \/ WokenWriter(t) \/ ReleaseWrite(t)
      BY <1>2 DEF LockNext, lockVars
    <3>2. CASE Reads(t)
      BY <3>2 DEF Reads
    <3>3. CASE WaitsToRead(t)
      BY <1>2, <3>3 DEF WaitsToRead, Goes, LockInv, LockTypeOK
    <3>4. CASE ReleaseRead(t) \/ ReleaseWrite(t) \/ AcquireWrite(t) \/ WokenWriter(t)
      BY <1>2, <3>4 DEF ReleaseRead, ReleaseWrite, AcquireWrite, WokenWriter, Goes,
                        LockInv, LockTypeOK
    <3> QED BY <3>1, <3>2, <3>3, <3>4 DEF AcquireRead, WokenReader
  <2> QED BY <1>2, <2>1, PlacesAreFinite DEF MayRead, LockInv, Counts
<1>3. LockInv /\ [LockNext]_lockVars =>
        [\A r \in Threads : at[r] # "reading" /\ at'[r] = "reading"
                              => AllAt("writeWaits") = {}]_lockVars
  BY <1>2
<1> QED BY <1>1, <1>3, InitHasInv, PTL DEF LockSpec, WriterPreference

(* Every step of the cache is a step of its lock or leaves the lock alone.     *)
LEMMA CacheUsesLock == [Next]_vars => [LockNext]_lockVars
<1> SUFFICES ASSUME [Next]_vars PROVE [LockNext]_lockVars
  OBVIOUS
<1>1. CASE UNCHANGED vars
  BY <1>1 DEF vars
<1>2. CASE Tick
  BY <1>2 DEF Tick
<1>3. ASSUME NEW t \in Threads, Calls(t) \/ Proceeds(t)
      PROVE  [LockNext]_lockVars
  <2>1. CASE Calls(t)
    BY <2>1 DEF Calls, Get, Set, Delete, Clear, Read, Cleanup, LockNext
  <2>2. CASE Proceeds(t)
    BY <2>2 DEF Proceeds, LooksUp, AsksToTouch, Touches, GetReturns, Stores, Deletes,
                Clears, ReadEnds, Collects, AsksToPurge, Purges, Wakes, LockNext
  <2> QED BY <1>3, <2>1, <2>2
<1> QED BY <1>1, <1>2, <1>3 DEF Next

(* No thread looks at the cache, or changes it, while another one changes it.  *)
THEOREM CacheExcludes == Spec => []Exclusion
<1>1. LockInv /\ [Next]_vars => LockInv'
  BY CacheUsesLock, StepKeepsInv, UnchangedKeepsInv DEF LockNext
<1>2. Init => LockInv
  BY InitHasInv DEF Init
<1> QED BY <1>1, <1>2, InvExcludes, PTL DEF Spec
-----------------------------------------------------------------------------
Distinct(s) == \A i, j \in DOMAIN s : i # j => s[i].key # s[j].key
Holds(s, k) == \E i \in DOMAIN s : s[i].key = k

(* What a thread has read is what get() will return: it was there.             *)
Kept(t) == /\ call[t].op \in {"touch", "found"} =>
                call[t].entry \in Entries /\ Name(call[t].entry) \in seen[t]
           /\ call[t].op = "set" => call[t].entry \in Entries

CacheInv == TypeOK /\ SizeBounded /\ \A t \in Threads : Kept(t)

(* Deletion keeps the other entries, and shortens the cache by what it finds.  *)
LEMMA WithoutIs ==
  ASSUME NEW s \in Seq(Entries), Distinct(s), NEW ks
  PROVE  /\ Without(s, ks) \in Seq(Entries)
         /\ Distinct(Without(s, ks))
         /\ \A k \in ks : ~Holds(Without(s, ks), k)
         /\ \A k : Holds(Without(s, ks), k) => Holds(s, k)
         /\ Len(Without(s, ks)) \in Nat /\ Len(Without(s, ks)) <= Len(s)
         /\ \A k \in ks : Holds(s, k) => Len(Without(s, ks)) < Len(s)
<1> DEFINE kept == {i \in DOMAIN s : s[i].key \notin ks}
           r == Selected(s, kept)
<1>1. /\ r \in Seq(Entries) /\ Len(r) <= Len(s)
      /\ ~(DOMAIN s \subseteq kept) => Len(r) < Len(s)
  BY SelectedIs
<1>2. \A j \in DOMAIN r : \E i \in kept \cap DOMAIN s : r[j] = s[i]
  <2> HIDE DEF kept
  <2> QED BY SelectedElements
<1>3. r = Without(s, ks)
  BY DEF Without
<1>4. \A i \in kept : i \in DOMAIN s /\ s[i].key \notin ks
  OBVIOUS
<1>5. ASSUME NEW k \in ks, Holds(s, k) PROVE ~(DOMAIN s \subseteq kept)
  BY <1>5 DEF Holds
<1>6. DOMAIN s = 1..Len(s) /\ Len(s) \in Nat
  OBVIOUS
<1> HIDE DEF kept, r
<1>7. DOMAIN r = 1..Len(r) /\ Len(r) \in Nat
  BY <1>1
<1>8. Distinct(r)
  <2> SUFFICES ASSUME NEW j \in DOMAIN r, NEW k \in DOMAIN r, j # k
               PROVE  r[j].key # r[k].key
    BY DEF Distinct
  <2>1. ASSUME NEW a \in DOMAIN r, NEW b \in DOMAIN r, a < b
        PROVE  r[a].key # r[b].key
    <3>1. PICK i, l \in kept \cap DOMAIN s : i < l /\ r[a] = s[i] /\ r[b] = s[l]
      BY <2>1, SelectedOrder DEF r
    <3>2. i # l
      BY <1>6, <3>1
    <3> QED BY <3>1, <3>2 DEF Distinct
  <2>2. j < k \/ k < j
    BY <1>7
  <2> QED BY <2>1, <2>2
<1>9. \A k \in ks : ~Holds(r, k)
  BY <1>2, <1>4 DEF Holds
<1>10. \A k : Holds(r, k) => Holds(s, k)
  BY <1>2 DEF Holds
<1> QED BY <1>1, <1>3, <1>5, <1>7, <1>8, <1>9, <1>10

(* An entry may follow when its key is not there.                              *)
LEMMA AppendIs ==
  ASSUME NEW s \in Seq(Entries), Distinct(s), NEW e \in Entries, ~Holds(s, e.key)
  PROVE  /\ Append(s, e) \in Seq(Entries) /\ Distinct(Append(s, e))
         /\ Len(Append(s, e)) = Len(s) + 1
         /\ Append(s, e)[Len(s) + 1] = e
         /\ Len(s) + 1 \in DOMAIN Append(s, e)
<1> DEFINE r == Append(s, e)
<1>1. /\ Len(s) \in Nat /\ r \in Seq(Entries) /\ Len(r) = Len(s) + 1
      /\ DOMAIN r = 1..(Len(s) + 1) /\ DOMAIN s = 1..Len(s)
      /\ r[Len(s) + 1] = e
      /\ \A i \in DOMAIN s : r[i] = s[i]
  OBVIOUS
<1> HIDE DEF r
<1>2. Distinct(r)
  BY <1>1 DEF Distinct, Holds
<1> QED BY <1>1, <1>2 DEF r

LEMMA AtIs ==
  ASSUME cache \in Seq(Entries), NEW k \in Keys, Has(k)
  PROVE  /\ At(k) \in Entries /\ At(k).key = k
         /\ \E i \in DOMAIN cache : cache[i] = At(k)
<1> DEFINE i == CHOOSE i \in DOMAIN cache : cache[i].key = k
<1>1. i \in DOMAIN cache /\ cache[i].key = k
  BY DEF Has
<1>2. \A j \in DOMAIN cache : cache[j] \in Entries
  OBVIOUS
<1> QED BY <1>1, <1>2 DEF At

(* The victim is an entry of the cache, by every policy.                       *)
LEMMA VictimIs ==
  ASSUME cache \in Seq(Entries), Len(cache) > 0
  PROVE  Victim \in DOMAIN cache
<1> DEFINE hits == {cache[i].hits : i \in DOMAIN cache}
<1>1. /\ DOMAIN cache = 1..Len(cache) /\ Len(cache) \in Nat
      /\ \A i \in DOMAIN cache : cache[i].hits \in Nat
  <2>1. \A i \in DOMAIN cache : cache[i] \in Entries
    OBVIOUS
  <2> QED BY <2>1 DEF Entries
<1>2. hits \in SUBSET Nat /\ hits # {}
  BY <1>1
<1>3. PICK m \in hits : \A n \in hits : m <= n
  BY <1>2, Least
<1> DEFINE few == {i \in DOMAIN cache : cache[i].hits = m}
<1>4. few \in SUBSET Nat /\ few # {}
  BY <1>1, <1>3
<1>5. PICK v \in few : \A i \in few : v <= i
  BY <1>4, Least
<1>6. v \in DOMAIN cache /\ \A j \in DOMAIN cache :
          \/ cache[v].hits < cache[j].hits
          \/ cache[v].hits = cache[j].hits /\ v <= j
  <2>1. v \in DOMAIN cache /\ cache[v].hits = m
    BY <1>5
  <2>2. ASSUME NEW j \in DOMAIN cache, ~(m < cache[j].hits)
        PROVE  m = cache[j].hits /\ v <= j
    <3>1. m <= cache[j].hits /\ m \in Nat /\ cache[j].hits \in Nat
      BY <1>1, <1>2, <1>3
    <3>2. j \in few
      BY <2>2, <3>1
    <3> QED BY <1>5, <2>2, <3>1, <3>2
  <2> QED BY <2>1, <2>2
<1>7. 1 \in DOMAIN cache
  BY <1>1
<1> QED BY <1>6, <1>7 DEF Victim

(* Making room leaves a cache that one more entry may follow.                  *)
LEMMA EvictsIs ==
  ASSUME TypeOK, SizeBounded, NEW k, ~Has(k)
  PROVE  /\ Evicts \in Seq(Entries) /\ Distinct(Evicts)
         /\ ~Holds(Evicts, k)
         /\ Len(Evicts) \in Nat /\ (MaxSize > 0 => Len(Evicts) < MaxSize)
<1>0. /\ cache \in Seq(Entries) /\ Distinct(cache) /\ Len(cache) \in Nat
      /\ MaxSize \in Nat /\ ~Holds(cache, k)
  BY CacheAssumption DEF TypeOK, Distinct, Has, Holds
<1>1. CASE Len(cache) >= MaxSize /\ MaxSize > 0
  <2>1. Victim \in DOMAIN cache
    BY <1>0, <1>1, VictimIs
  <2> DEFINE key == cache[Victim].key
  <2>2. Holds(cache, key)
    BY <2>1 DEF Holds
  <2>3. Evicts = Without(cache, {key})
    BY <1>1 DEF Evicts
  <2> HIDE DEF key
  <2>4. /\ Without(cache, {key}) \in Seq(Entries) /\ Distinct(Without(cache, {key}))
        /\ Len(Without(cache, {key})) \in Nat
        /\ Len(Without(cache, {key})) < Len(cache)
        /\ ~Holds(Without(cache, {key}), k)
    BY <1>0, <2>2, WithoutIs
  <2> QED BY <1>0, <1>1, <2>3, <2>4 DEF SizeBounded
<1>2. CASE ~(Len(cache) >= MaxSize /\ MaxSize > 0)
  BY <1>0, <1>2 DEF Evicts
<1> QED BY <1>1, <1>2

LEMMA ClearIs == <<>> \in Seq(Entries) /\ Distinct(<<>>) /\ Len(<<>>) = 0
  BY DEF Distinct

(* warm_up() stores every key once, and no more of them than there is room for. *)
LEMMA InitHasCacheInv == Init => CacheInv
<1> SUFFICES ASSUME Init PROVE CacheInv
  OBVIOUS
<1>1. PICK ks \in Warm :
        /\ cache \in [1..Cardinality(ks) ->
                        [key : ks, id : {0}, expires : IF TTL > 0 THEN {1} ELSE {0}, hits : {0}]]
        /\ {cache[i].key : i \in DOMAIN cache} = ks
        /\ lastEntry = IF cache = <<>> THEN None ELSE Name(cache[Len(cache)])
  BY DEF Init
<1> DEFINE n == Cardinality(ks)
           keyAt == [i \in 1..n |-> cache[i].key]
<1>2. ks \subseteq Keys /\ (MaxSize > 0 => n <= MaxSize) /\ IsFiniteSet(ks) /\ n \in Nat
  BY CacheAssumption, FS_Subset, FS_CardinalityType
<1>3. /\ DOMAIN cache = 1..n
      /\ \A i \in 1..n : cache[i] \in Entries /\ cache[i].key \in ks
  BY <1>1, <1>2 DEF Entries
<1>4. cache \in Seq(Entries) /\ Len(cache) = n
  BY <1>2, <1>3, <1>1
<1>5. Distinct(cache)
  <2>1. keyAt \in Surjection(1..n, ks)
    <3>1. keyAt \in [1..n -> ks]
      BY <1>3
    <3>2. \A k \in ks : \E i \in 1..n : keyAt[i] = k
      BY <1>1, <1>3
    <3> QED BY <3>1, <3>2 DEF Surjection
  <2>2. IsFiniteSet(1..n) /\ Cardinality(1..n) = Cardinality(ks)
    BY <1>2, FS_Interval
  <2> HIDE DEF keyAt
  <2>3. keyAt \in Injection(1..n, ks)
    BY <2>1, <2>2, FS_SurjSameCardinalityImpliesInj
  <2> USE DEF keyAt
  <2>4. \A i, j \in 1..n : cache[i].key = cache[j].key => i = j
    BY <2>3 DEF Injection, IsInjective
  <2> QED BY <1>3, <2>4 DEF Distinct
<1>6. lastEntry \in (Keys \X Nat) \cup {None}
  <2>1. CASE cache = <<>>
    BY <1>1, <2>1
  <2>2. CASE cache # <<>>
    <3>1. cache[Len(cache)] \in Entries
      BY <1>4, <2>2
    <3> QED BY <1>1, <2>2, <3>1 DEF Entries, Name
  <2> QED BY <2>1, <2>2
<1>7. call \in [Threads -> [op : Ops, entry : Entries \cup {None},
                            keys : SUBSET Keys, update : BOOLEAN]]
  BY DEF Init, Idle, Ops
<1>8. now \in 1..MaxTime + 1 /\ calls \in 0..MaxCalls /\ policy \in Policies
      /\ seen \in [Threads -> SUBSET (Keys \X Nat)] /\ LockTypeOK
  BY CacheAssumption, InitHasInv DEF Init, LockInv
<1>9. TypeOK
  BY <1>4, <1>5, <1>6, <1>7, <1>8 DEF TypeOK, Distinct
<1>10. SizeBounded
  BY <1>2, <1>4 DEF SizeBounded
<1>11. \A t \in Threads : Kept(t)
  BY DEF Kept, Init, Idle
<1> QED BY <1>9, <1>10, <1>11 DEF CacheInv
-----------------------------------------------------------------------------
CallRecords == [op : Ops, entry : Entries \cup {None}, keys : SUBSET Keys, update : BOOLEAN]

(* The ways in which a step treats what a thread holds.                        *)
Found(c) == \E i \in DOMAIN cache' : cache'[i] = c.entry /\ c.entry.key \in c.keys

Carries(u) ==
    \/ call'[u] = call[u]
    \/ call'[u].op \notin {"touch", "found", "set"}
    \/ call'[u].op = "set" /\ call'[u].entry \in Entries
    \/ /\ call'[u].op \in {"touch", "found"}
       /\ call'[u].entry \in Entries
       /\ Found(call'[u]) \/ (call[u].op = "touch" /\ call'[u].entry = call[u].entry)

LEMMA WatchesKept ==
  ASSUME CacheInv, Watches, cache' \in Seq(Entries),
         call' \in [Threads -> CallRecords],
         \A u \in Threads : Carries(u)
  PROVE  seen' \in [Threads -> SUBSET (Keys \X Nat)] /\ \A u \in Threads : Kept(u)'
<1> DEFINE There(u) == {Name(e) : e \in {cache'[i] : i \in {j \in DOMAIN cache' :
                                             cache'[j].key \in call'[u].keys}}}
<1>1. seen' = [u \in Threads |->
        IF call'[u].op \notin {"get", "touch", "found"} THEN {}
        ELSE (IF call[u].op = "idle" THEN {} ELSE seen[u]) \cup There(u)]
  BY DEF Watches
<1>2. ASSUME NEW u \in Threads PROVE There(u) \subseteq Keys \X Nat
  <2>1. \A j \in DOMAIN cache' : Name(cache'[j]) \in Keys \X Nat
    <3>1. \A j \in DOMAIN cache' : cache'[j] \in Entries
      OBVIOUS
    <3> QED BY <3>1 DEF Entries, Name
  <2> QED BY <2>1
<1>3. ASSUME NEW u \in Threads, Found(call'[u]) PROVE Name(call'[u].entry) \in There(u)
  BY <1>3 DEF Found
<1> HIDE DEF There
<1>4. seen \in [Threads -> SUBSET (Keys \X Nat)]
  BY DEF CacheInv, TypeOK
<1>5. seen' \in [Threads -> SUBSET (Keys \X Nat)]
  BY <1>1, <1>2, <1>4
<1>6. ASSUME NEW u \in Threads, call'[u].op \in {"touch", "found"}
      PROVE  call'[u].entry \in Entries /\ Name(call'[u].entry) \in seen'[u]
  <2>1. Kept(u) /\ Carries(u)
    BY DEF CacheInv
  <2>2. There(u) \subseteq seen'[u]
    BY <1>1, <1>6
  <2>3. call[u].op # "idle" => seen[u] \subseteq seen'[u]
    BY <1>1, <1>6
  <2>4. CASE Found(call'[u]) /\ call'[u].entry \in Entries
    BY <1>3, <2>2, <2>4
  <2>5. CASE call[u].op \in {"touch", "found"} /\ call'[u].entry = call[u].entry
    BY <2>1, <2>3, <2>5 DEF Kept
  <2> QED BY <1>6, <2>1, <2>4, <2>5 DEF Carries
<1>7. ASSUME NEW u \in Threads, call'[u].op = "set" PROVE call'[u].entry \in Entries
  BY <1>7 DEF CacheInv, Carries, Kept
<1> QED BY <1>5, <1>6, <1>7 DEF Kept

(* What is left to show of a step of one thread.                               *)
LEMMA ThreadStep ==
  ASSUME CacheInv, LockTypeOK', Watches, NEW t \in Threads, NEW what \in CallRecords,
         Does(t, what),
         \/ what.op \notin {"touch", "found", "set"}
         \/ what.op = "set" /\ what.entry \in Entries
         \/ what.op \in {"touch", "found"} /\ what.entry \in Entries
            /\ (Found(what) \/ (call[t].op = "touch" /\ what.entry = call[t].entry)),
         cache' \in Seq(Entries), Distinct(cache'), SizeBounded',
         lastEntry' \in (Keys \X Nat) \cup {None},
         policy' = policy, now' = now, calls' \in 0..MaxCalls
  PROVE  CacheInv'
<1>1. call \in [Threads -> CallRecords]
  BY DEF CacheInv, TypeOK, CallRecords
<1>2. /\ call' \in [Threads -> CallRecords]
      /\ call'[t] = what /\ \A u \in Threads \ {t} : call'[u] = call[u]
  BY <1>1 DEF Does
<1>3. \A u \in Threads : Carries(u)
  BY <1>2 DEF Carries
<1>4. seen' \in [Threads -> SUBSET (Keys \X Nat)] /\ \A u \in Threads : Kept(u)'
  BY <1>2, <1>3, WatchesKept
<1>5. policy' \in Policies /\ now' \in 1..MaxTime + 1
  BY DEF CacheInv, TypeOK
<1>6. TypeOK'
  BY <1>2, <1>4, <1>5 DEF TypeOK, Distinct, CallRecords
<1> QED BY <1>4, <1>6 DEF CacheInv

LEMMA TypesAre ==
  ASSUME CacheInv
  PROVE  /\ cache \in Seq(Entries) /\ Distinct(cache) /\ Len(cache) \in Nat
         /\ lastEntry \in (Keys \X Nat) \cup {None}
         /\ now \in Nat /\ calls \in 0..MaxCalls
         /\ call \in [Threads -> CallRecords]
  BY CacheAssumption DEF CacheInv, TypeOK, Distinct, CallRecords

LEMMA IdleIs == Idle \in CallRecords /\ Idle.op = "idle"
  BY DEF Idle, CallRecords, Ops

(* Calls: nothing has been looked at yet.                                      *)
LEMMA BeginsStep ==
  ASSUME CacheInv, LockTypeOK', Watches, NEW t \in Threads, Calls(t)
  PROVE  CacheInv'
<1> USE CacheAssumption
<1>1. ASSUME NEW what \in CallRecords, Begins(t, what),
             \/ what.op \notin {"touch", "found", "set"}
             \/ what.op = "set" /\ what.entry \in Entries
      PROVE  CacheInv'
  <2>1. calls' \in 0..MaxCalls
    BY <1>1, TypesAre DEF Begins
  <2>2. SizeBounded'
    BY <1>1 DEF Begins, CacheInv, SizeBounded
  <2>3. Distinct(cache')
    BY <1>1, TypesAre DEF Begins, Distinct
  <2>4. /\ Does(t, what) /\ cache' \in Seq(Entries)
        /\ lastEntry' \in (Keys \X Nat) \cup {None} /\ policy' = policy /\ now' = now
    BY <1>1, TypesAre DEF Begins
  <2> QED BY <1>1, <2>1, <2>2, <2>3, <2>4, ThreadStep
<1>2. CASE Get(t)
  <2>1. PICK k \in Keys : Begins(t, [Idle EXCEPT !.op = "get", !.keys = {k}])
    BY <1>2 DEF Get
  <2> DEFINE what == [Idle EXCEPT !.op = "get", !.keys = {k}]
  <2>2. what \in CallRecords /\ what.op = "get"
    BY DEF Idle, CallRecords, Ops
  <2> QED BY <1>1, <2>1, <2>2
<1>3. CASE Set(t)
  <2>1. PICK k \in Keys, update \in BOOLEAN :
          Begins(t, [Idle EXCEPT !.op = "set", !.keys = {k}, !.update = update,
                  !.entry = [key |-> k, id |-> calls + 1, hits |-> 0,
                             expires |-> IF TTL > 0 THEN now + TTL ELSE 0]])
    BY <1>3 DEF Set
  <2> DEFINE e == [key |-> k, id |-> calls + 1, hits |-> 0,
                   expires |-> IF TTL > 0 THEN now + TTL ELSE 0]
             what == [Idle EXCEPT !.op = "set", !.keys = {k}, !.update = update,
                      !.entry = e]
  <2>2. e \in Entries
    BY TypesAre DEF Entries
  <2>3. what \in CallRecords /\ what.op = "set" /\ what.entry = e
    <3> HIDE DEF e
    <3> QED BY <2>2 DEF Idle, CallRecords, Ops
  <2> QED BY <1>1, <2>1, <2>2, <2>3
<1>4. CASE Delete(t)
  <2>1. PICK ks \in Filters : Begins(t, [Idle EXCEPT !.op = "delete", !.keys = ks])
    BY <1>4 DEF Delete
  <2> DEFINE what == [Idle EXCEPT !.op = "delete", !.keys = ks]
  <2>2. what \in CallRecords /\ what.op = "delete"
    BY DEF Idle, CallRecords, Ops
  <2> QED BY <1>1, <2>1, <2>2
<1>5. ASSUME NEW op \in {"clear", "read", "cleanup"}, Begins(t, [Idle EXCEPT !.op = op])
      PROVE  CacheInv'
  <2> DEFINE what == [Idle EXCEPT !.op = op]
  <2>1. what \in CallRecords /\ what.op = op
    BY DEF Idle, CallRecords, Ops
  <2> QED BY <1>1, <1>5, <2>1
<1> QED BY <1>2, <1>3, <1>4, <1>5 DEF Calls, Clear, Read, Cleanup

(* Steps that leave the cache and what is held alone.                          *)
LEMMA QuietStep ==
  ASSUME CacheInv, LockTypeOK', Watches, UNCHANGED <<policy, cache, lastEntry, call, calls>>,
         now' \in 1..MaxTime + 1
  PROVE  CacheInv'
<1>1. /\ cache' \in Seq(Entries) /\ Distinct(cache') /\ SizeBounded'
      /\ call' \in [Threads -> CallRecords]
  BY TypesAre DEF CacheInv, SizeBounded
<1>2. \A u \in Threads : Carries(u)
  BY DEF Carries
<1>3. seen' \in [Threads -> SUBSET (Keys \X Nat)] /\ \A u \in Threads : Kept(u)'
  BY <1>1, <1>2, WatchesKept
<1>4. TypeOK'
  BY <1>1, <1>3, TypesAre DEF CacheInv, TypeOK, Distinct, CallRecords
<1> QED BY <1>1, <1>3, <1>4 DEF CacheInv

(* A thread that comes back leaves nothing behind but the cache.               *)
LEMMA ReturnStep ==
  ASSUME CacheInv, LockTypeOK', Watches, NEW t \in Threads, Returns(t),
         cache' \in Seq(Entries), Distinct(cache'), SizeBounded',
         lastEntry' \in (Keys \X Nat) \cup {None},
         UNCHANGED <<policy, now, calls>>
  PROVE  CacheInv'
  BY IdleIs, TypesAre, ThreadStep DEF Returns

LEMMA LooksUpStep ==
  ASSUME CacheInv, LockTypeOK', Watches, NEW t \in Threads, LooksUp(t)
  PROVE  CacheInv'
<1>1. /\ cache' \in Seq(Entries) /\ Distinct(cache') /\ SizeBounded'
      /\ lastEntry' \in (Keys \X Nat) \cup {None}
      /\ UNCHANGED <<policy, cache, lastEntry, now, calls>>
  BY TypesAre DEF LooksUp, CacheInv, SizeBounded
<1>2. call[t] \in CallRecords
  BY TypesAre
<1>3. PICK k \in call[t].keys :
        IF Has(k) /\ ~Expired(At(k))
        THEN Does(t, [call[t] EXCEPT !.op = "touch", !.entry = At(k)])
        ELSE Returns(t)
  BY DEF LooksUp
<1>4. CASE Has(k) /\ ~Expired(At(k))
  <2> DEFINE what == [call[t] EXCEPT !.op = "touch", !.entry = At(k)]
  <2>1. k \in Keys
    BY <1>2 DEF CallRecords
  <2>2. /\ At(k) \in Entries /\ At(k).key = k
        /\ \E i \in DOMAIN cache : cache[i] = At(k)
    BY <1>4, <2>1, AtIs, TypesAre
  <2>3. /\ what \in CallRecords /\ what.op = "touch" /\ what.entry = At(k)
        /\ what.keys = call[t].keys
    BY <1>2, <2>2 DEF CallRecords, Ops
  <2>4. Does(t, what)
    BY <1>3, <1>4
  <2> HIDE DEF what
  <2>5. Found(what)
    BY <1>1, <1>3, <2>2, <2>3 DEF Found
  <2> QED BY <1>1, <2>2, <2>3, <2>4, <2>5, TypesAre, ThreadStep
<1>5. CASE ~(Has(k) /\ ~Expired(At(k)))
  BY <1>1, <1>3, <1>5, ReturnStep
<1> QED BY <1>4, <1>5

LEMMA TouchesStep ==
  ASSUME CacheInv, LockTypeOK', Watches, NEW t \in Threads, Touches(t)
  PROVE  CacheInv'
<1>1. call[t] \in CallRecords /\ call[t].op = "touch" /\ call[t].entry \in Entries
  BY TypesAre DEF Touches, CacheInv, Kept
<1>2. UNCHANGED <<policy, now, calls>>
  BY DEF Touches
<1>3. PICK k \in call[t].keys :
         IF Has(k)
         THEN LET e == [At(k) EXCEPT !.hits = @ + 1]
              IN  /\ cache' = Append(Without(cache, {k}), e)
                  /\ lastEntry' = Name(e)
                  /\ Does(t, [call[t] EXCEPT !.op = "found", !.entry = e])
         ELSE /\ Does(t, [call[t] EXCEPT !.op = "found"])
              /\ UNCHANGED <<cache, lastEntry>>
  BY DEF Touches
<1>4. CASE Has(k)
  <2> DEFINE e == [At(k) EXCEPT !.hits = @ + 1]
             what == [call[t] EXCEPT !.op = "found", !.entry = e]
             s == Without(cache, {k})
  <2>1. k \in Keys
    BY <1>1 DEF CallRecords
  <2>2. At(k) \in Entries /\ At(k).key = k
    BY <1>4, <2>1, AtIs, TypesAre
  <2>3. e \in Entries /\ e.key = k
    BY <2>2 DEF Entries
  <2>4. Holds(cache, k)
    BY <1>4 DEF Has, Holds
  <2>5. /\ s \in Seq(Entries) /\ Distinct(s) /\ ~Holds(s, k)
        /\ Len(s) \in Nat /\ Len(s) < Len(cache)
    BY <2>4, WithoutIs, TypesAre
  <2>6. cache' = Append(s, e) /\ lastEntry' = Name(e) /\ Does(t, what)
    BY <1>3, <1>4
  <2> HIDE DEF e, s
  <2>7. /\ what \in CallRecords /\ what.op = "found" /\ what.entry = e
        /\ what.keys = call[t].keys
    BY <1>1, <2>3 DEF CallRecords, Ops
  <2> HIDE DEF what
  <2>8. /\ cache' \in Seq(Entries) /\ Distinct(cache') /\ Len(cache') = Len(s) + 1
        /\ \E i \in DOMAIN cache' : cache'[i] = e
    BY <2>3, <2>5, <2>6, AppendIs
  <2>9. Found(what)
    BY <1>3, <2>3, <2>7, <2>8 DEF Found
  <2>10. SizeBounded'
    BY <2>5, <2>8, TypesAre, CacheAssumption DEF CacheInv, SizeBounded
  <2>11. lastEntry' \in Keys \X Nat
    BY <2>3, <2>6 DEF Entries, Name
  <2> QED BY <1>2, <2>3, <2>6, <2>7, <2>8, <2>9, <2>10, <2>11, TypesAre, ThreadStep
<1>5. CASE ~Has(k)
  <2> DEFINE what == [call[t] EXCEPT !.op = "found"]
  <2>1. what \in CallRecords /\ what.op = "found" /\ what.entry = call[t].entry
    BY <1>1 DEF CallRecords, Ops
  <2>2. Does(t, what) /\ UNCHANGED <<cache, lastEntry>>
    BY <1>3, <1>5
  <2> HIDE DEF what
  <2>3. SizeBounded'
    BY <2>2 DEF CacheInv, SizeBounded
  <2> QED BY <1>1, <1>2, <2>1, <2>2, <2>3, TypesAre, ThreadStep
<1> QED BY <1>4, <1>5

LEMMA StoresStep ==
  ASSUME CacheInv, LockTypeOK', Watches, NEW t \in Threads, Stores(t)
  PROVE  CacheInv'
<1> DEFINE e == call[t].entry
<1>1. /\ e \in Entries /\ Returns(t) /\ UNCHANGED <<policy, now, calls>>
      /\ Name(e) \in Keys \X Nat
  BY DEF Stores, CacheInv, Kept, Entries, Name
<1>2. CASE Has(e.key) /\ ~call[t].update
  <2>1. UNCHANGED <<cache, lastEntry>>
    BY <1>2 DEF Stores
  <2>2. SizeBounded'
    BY <2>1 DEF CacheInv, SizeBounded
  <2> QED BY <1>1, <2>1, <2>2, TypesAre, ReturnStep
<1>3. CASE ~(Has(e.key) /\ ~call[t].update)
  <2> DEFINE s == IF Has(e.key) THEN Without(cache, {e.key}) ELSE Evicts
  <2>1. cache' = Append(s, e) /\ lastEntry' = Name(e)
    BY <1>3 DEF Stores
  <2>2. /\ s \in Seq(Entries) /\ Distinct(s) /\ ~Holds(s, e.key)
        /\ Len(s) \in Nat /\ (MaxSize > 0 => Len(s) < MaxSize)
    <3>1. CASE Has(e.key)
      <4>1. Holds(cache, e.key)
        BY <3>1 DEF Has, Holds
      <4>2. /\ s \in Seq(Entries) /\ Distinct(s) /\ ~Holds(s, e.key)
            /\ Len(s) \in Nat /\ Len(s) < Len(cache)
        BY <3>1, <4>1, WithoutIs, TypesAre
      <4> HIDE DEF s
      <4> QED BY <4>2, TypesAre, CacheAssumption DEF CacheInv, SizeBounded
    <3>2. CASE ~Has(e.key)
      BY <3>2, EvictsIs DEF CacheInv
    <3> QED BY <3>1, <3>2
  <2> HIDE DEF s, e
  <2>3. cache' \in Seq(Entries) /\ Distinct(cache') /\ Len(cache') = Len(s) + 1
    BY <1>1, <2>1, <2>2, AppendIs
  <2>4. SizeBounded'
    BY <2>2, <2>3, CacheAssumption DEF SizeBounded
  <2> QED BY <1>1, <2>1, <2>3, <2>4, ReturnStep
<1> QED BY <1>2, <1>3

(* Deletes and Purges.                                                         *)
LEMMA WithoutStep ==
  ASSUME CacheInv, LockTypeOK', Watches, NEW t \in Threads, NEW ks,
         cache' = Without(cache, ks), Returns(t),
         UNCHANGED <<policy, lastEntry, now, calls>>
  PROVE  CacheInv'
<1> DEFINE s == Without(cache, ks)
<1>1. s \in Seq(Entries) /\ Distinct(s) /\ Len(s) \in Nat /\ Len(s) <= Len(cache)
  BY WithoutIs, TypesAre
<1> HIDE DEF s
<1>2. cache' = s
  BY DEF s
<1>3. SizeBounded'
  BY <1>1, <1>2, TypesAre, CacheAssumption DEF CacheInv, SizeBounded
<1> QED BY <1>1, <1>2, <1>3, TypesAre, ReturnStep

LEMMA CollectsStep ==
  ASSUME CacheInv, LockTypeOK', Watches, NEW t \in Threads, Collects(t)
  PROVE  CacheInv'
<1> DEFINE ks == {cache[i].key : i \in {j \in DOMAIN cache : Expired(cache[j])}}
           what == [call[t] EXCEPT !.op = "purge", !.keys = ks]
<1>1. /\ cache' \in Seq(Entries) /\ Distinct(cache') /\ SizeBounded'
      /\ lastEntry' \in (Keys \X Nat) \cup {None}
      /\ UNCHANGED <<policy, cache, lastEntry, now, calls>>
  BY TypesAre DEF Collects, CacheInv, SizeBounded
<1>2. Does(t, IF ks = {} THEN Idle ELSE what)
  BY DEF Collects
<1>3. ks \in SUBSET Keys
  <2>1. \A i \in DOMAIN cache : cache[i] \in Entries
    BY TypesAre
  <2> QED BY <2>1 DEF Entries
<1> HIDE DEF ks
<1>4. call[t] \in CallRecords
  BY TypesAre
<1>5. what \in CallRecords /\ what.op = "purge"
  BY <1>3, <1>4 DEF CallRecords, Ops
<1> HIDE DEF what
<1>6. CASE ks = {}
  BY <1>1, <1>2, <1>6, ReturnStep DEF Returns
<1>7. CASE ks # {}
  BY <1>1, <1>2, <1>5, <1>7, TypesAre, ThreadStep
<1> QED BY <1>6, <1>7

LEMMA ProceedsStep ==
  ASSUME CacheInv, LockTypeOK', Watches, NEW t \in Threads, Proceeds(t)
  PROVE  CacheInv'
<1>1. CASE AsksToTouch(t) \/ AsksToPurge(t) \/ Wakes(t)
  BY <1>1, QuietStep DEF AsksToTouch, AsksToPurge, Wakes, CacheInv, TypeOK
<1>2. CASE GetReturns(t) \/ ReadEnds(t)
  <2>1. Returns(t) /\ UNCHANGED <<policy, cache, lastEntry, now, calls>>
    BY <1>2 DEF GetReturns, ReadEnds
  <2>2. SizeBounded'
    BY <2>1 DEF CacheInv, SizeBounded
  <2> QED BY <2>1, <2>2, TypesAre, ReturnStep
<1>3. CASE Deletes(t) \/ Purges(t)
  BY <1>3, WithoutStep DEF Deletes, Purges
<1>4. CASE Clears(t)
  <2>1. SizeBounded'
    BY <1>4, ClearIs, CacheAssumption DEF Clears, SizeBounded
  <2> QED BY <1>4, <2>1, ClearIs, ReturnStep, TypesAre DEF Clears, TypeOK
<1> QED BY <1>1, <1>2, <1>3, <1>4, LooksUpStep, TouchesStep, StoresStep, CollectsStep
    DEF Proceeds

LEMMA NextKeepsCacheInv == LockInv /\ CacheInv /\ [Next]_vars => LockInv' /\ CacheInv'
<1> SUFFICES ASSUME LockInv, CacheInv, [Next]_vars PROVE LockInv' /\ CacheInv'
  OBVIOUS
<1>1. LockInv' /\ LockTypeOK'
  BY CacheUsesLock, StepKeepsInv, UnchangedKeepsInv DEF LockNext, LockInv
<1>2. CASE UNCHANGED vars
  <2>1. /\ UNCHANGED <<policy, cache, lastEntry, now, call, calls, seen>>
        /\ UNCHANGED lockVars
    BY <1>2 DEF vars, cacheVars
  <2>2. TypeOK'
    BY <1>1, <2>1 DEF CacheInv, TypeOK
  <2> QED BY <1>1, <2>1, <2>2 DEF CacheInv, SizeBounded, Kept
<1>3. CASE Tick /\ Watches
  <2>1. now' \in 1..MaxTime + 1
    BY <1>3, CacheAssumption DEF Tick, CacheInv, TypeOK
  <2> QED BY <1>1, <1>3, <2>1, QuietStep DEF Tick
<1>4. ASSUME NEW t \in Threads, Calls(t) \/ Proceeds(t), Watches
      PROVE  CacheInv'
  BY <1>1, <1>4, BeginsStep, ProceedsStep
<1> QED BY <1>1, <1>2, <1>3, <1>4 DEF Next

LEMMA CacheInvHolds == Spec => [](LockInv /\ CacheInv)
<1>1. Init => LockInv /\ CacheInv
  BY InitHasInv, InitHasCacheInv DEF Init
<1> QED BY <1>1, NextKeepsCacheInv, PTL DEF Spec

(* Every variable keeps its type, and no key is in the cache twice.            *)
THEOREM TypeCorrect == Spec => []TypeOK
<1>1. CacheInv => TypeOK
  BY DEF CacheInv
<1> QED BY <1>1, CacheInvHolds, PTL

(* The cache keeps its limit (set(), _evict_one()), for every limit and policy: *)
(* an entry is stored only after its predecessor, or a victim, was taken out.  *)
THEOREM LimitIsKept == Spec => []SizeBounded
<1>1. CacheInv => SizeBounded
  BY DEF CacheInv
<1> QED BY <1>1, CacheInvHolds, PTL

(* get() returns what was under its key at some moment of the call, whatever   *)
(* the other threads do between its two looks at the cache.                    *)
THEOREM GetReturnsWhatWasThere == Spec => []GetIsFresh
<1>1. CacheInv => GetIsFresh
  BY DEF CacheInv, Kept, GetIsFresh
<1> QED BY <1>1, CacheInvHolds, PTL
-----------------------------------------------------------------------------
(* The part of the invariant that speaks of the manager alone, as a predicate *)
(* on health records, so that lemmas about its methods can use it.            *)
Counted(h) == \A b \in Backends : h.multiplier[b] > 1 => b \in h.known \cup h.frozen
Bounded(h) == Cardinality(h.frozen) <= MaxFrozenBackends
GoodHealth(h) == h \in Healths /\ Counted(h) /\ Bounded(h)

(* What a method may leave behind: a good record whose runs of failures are   *)
(* no longer than before, except that of the backend it is called for.        *)
NoLonger(g, h) == \A b \in Backends : g.consecutive[b] <= h.consecutive[b]

(* Removing from the frozen list only shrinks it.                             *)
LEMMA FrozenSubset ==
  ASSUME NEW h, h \in Healths, Bounded(h), NEW S \in SUBSET h.frozen
  PROVE  Cardinality(S) <= MaxFrozenBackends
<1>1. IsFiniteSet(h.frozen)
  BY HealthAssumption, FS_Subset DEF Healths
<1>2. Cardinality(S) <= Cardinality(h.frozen) /\ Cardinality(S) \in Nat
  BY <1>1, FS_Subset, FS_CardinalityType
<1>3. Cardinality(h.frozen) \in Nat
  BY <1>1, FS_CardinalityType
<1> QED BY <1>2, <1>3, HealthAssumption DEF Bounded

(* The two ways of dropping something of a backend keep the record's type.    *)
LEMMA DropType ==
  ASSUME NEW h \in Healths, NEW k \in Backends
  PROVE  DropFreeze(h, k) \in Healths /\ DropCount(h, k) \in Healths
<1>1. DropFreeze(h, k) \in Healths
  <2>1. [h.left EXCEPT ![k] = 0] \in [Backends -> 0..MaxFreeze]
    BY HealthAssumption DEF Healths
  <2>2. DropFreeze(h, k) = [h EXCEPT !.frozen = h.frozen \ {k},
                                     !.left = [h.left EXCEPT ![k] = 0]]
    BY DEF DropFreeze
  <2> QED BY <2>1, <2>2 DEF Healths
<1>2. DropCount(h, k) \in Healths
  BY DEF Healths, DropCount
<1> QED BY <1>1, <1>2

(* Forgetting a backend leaves no count of it behind.                         *)
LEMMA ForgetGood ==
  ASSUME NEW h, GoodHealth(h), NEW k \in Backends
  PROVE  GoodHealth(Forget(h, k)) /\ NoLonger(Forget(h, k), h)
<1> DEFINE g == Forget(h, k)
<1> USE HealthAssumption
<1>1. g \in Healths
  <2>1. DropCount(DropFreeze(h, k), k) \in Healths
    BY DropType DEF GoodHealth
  <2> DEFINE e == DropCount(DropFreeze(h, k), k)
  <2>2. /\ [e.idle EXCEPT ![k] = MaxIdle] \in [Backends -> 0..MaxIdle]
        /\ [e.consecutive EXCEPT ![k] = 0] \in [Backends -> 0..Threshold]
    BY <2>1 DEF Healths
  <2>3. g = [e EXCEPT !.known = e.known \ {k},
                      !.idle = [e.idle EXCEPT ![k] = MaxIdle],
                      !.consecutive = [e.consecutive EXCEPT ![k] = 0]]
    BY DEF Forget
  <2> QED BY <2>1, <2>2, <2>3 DEF Healths
<1>2. Counted(g)
  BY DEF GoodHealth, Counted, Healths, Forget, DropCount, DropFreeze
<1>3. g.frozen = h.frozen \ {k}
  BY DEF GoodHealth, Healths, Forget, DropCount, DropFreeze
<1>4. Bounded(g)
  BY <1>3, FrozenSubset DEF GoodHealth, Bounded
<1>5. NoLonger(g, h)
  BY DEF NoLonger, GoodHealth, Healths, Forget, DropCount, DropFreeze
<1> QED BY <1>1, <1>2, <1>4, <1>5 DEF GoodHealth

(* _get_or_create keeps the record good, whichever entry it evicts.           *)
LEMMA GetOrCreateGood ==
  ASSUME NEW h, GoodHealth(h), NEW b \in Backends, NEW g \in GetOrCreate(h, b)
  PROVE  GoodHealth(g) /\ NoLonger(g, h) /\ b \in g.known
<1>1. CASE b \in h.known
  BY <1>1 DEF GetOrCreate, NoLonger, GoodHealth, Healths
<1>2. CASE b \notin h.known
  <2>1. PICK f : /\ GoodHealth(f) /\ NoLonger(f, h)
                 /\ g = [f EXCEPT !.known = @ \cup {b}]
    <3>1. CASE Cardinality(h.known) > MaxHealthEntries
      <4>1. PICK k \in LeastActive(h) :
              g = [Forget(h, k) EXCEPT !.known = @ \cup {b}]
        BY <1>2, <3>1 DEF GetOrCreate
      <4>2. k \in Backends
        BY DEF LeastActive, GoodHealth, Healths
      <4> QED BY <4>1, <4>2, ForgetGood
    <3>2. CASE ~(Cardinality(h.known) > MaxHealthEntries)
      BY <1>2, <3>2 DEF GetOrCreate, NoLonger, GoodHealth, Healths
    <3> QED BY <3>1, <3>2
  <2>2. g \in Healths /\ b \in g.known /\ g.frozen = f.frozen
    BY <2>1 DEF GoodHealth, Healths
  <2>3. Counted(g) /\ Bounded(g) /\ NoLonger(g, h)
    BY <2>1 DEF GoodHealth, Counted, Bounded, NoLonger, Healths
  <2> QED BY <2>2, <2>3 DEF GoodHealth
<1> QED BY <1>1, <1>2

(* A freeze keeps the frozen list within its limit and counts only what it    *)
(* lists.                                                                     *)
LEMMA FreezeGood ==
  ASSUME NEW h, GoodHealth(h), NEW b \in Backends, NEW d \in Nat \ {0},
         NEW f \in Freeze(h, b, d)
  PROVE  GoodHealth(f) /\ NoLonger(f, h)
<1> DEFINE g == Refrozen(h, b, d)
<1> USE HealthAssumption
<1>1. d * h.multiplier[b] \in Nat
  BY DEF GoodHealth, Healths
<1>2. FreezeFor(h, b, d) \in 0..MaxFreeze
  BY <1>1 DEF FreezeFor, AtMost
<1>3. g \in Healths /\ g.frozen = h.frozen \cup {b} /\ g.consecutive = h.consecutive
  <2> DEFINE m == IF h.multiplier[b] < MaxFreeze THEN 2 * h.multiplier[b]
                  ELSE h.multiplier[b]
  <2>1. /\ h.multiplier[b] \in Nat \ {0}
        /\ [h.multiplier EXCEPT ![b] = m] \in [Backends -> Nat \ {0}]
        /\ [h.left EXCEPT ![b] = FreezeFor(h, b, d)] \in [Backends -> 0..MaxFreeze]
    BY <1>2 DEF GoodHealth, Healths
  <2>2. g = [h EXCEPT !.frozen = h.frozen \cup {b},
                      !.left = [h.left EXCEPT ![b] = FreezeFor(h, b, d)],
                      !.multiplier = [h.multiplier EXCEPT ![b] = m]]
    BY <2>1 DEF GoodHealth, Healths, Refrozen
  <2>3. h.frozen \cup {b} \in SUBSET Backends /\ h \in Healths
    BY DEF GoodHealth, Healths
  <2> HIDE DEF m, g
  <2> QED BY <2>1, <2>2, <2>3 DEF Healths
<1>4. Counted(g)
  BY <1>3 DEF GoodHealth, Counted, Healths, Refrozen
<1>5. IsFiniteSet(h.frozen) /\ IsFiniteSet(g.frozen)
  BY <1>3, FS_Subset DEF GoodHealth, Healths
<1>6. CASE Cardinality(g.frozen) > MaxFrozenBackends
  <2>1. PICK k \in g.frozen : f = DropCount(DropFreeze(g, k), k)
    BY <1>6 DEF Freeze, SoonestToExpire
  <2>2. f \in Healths /\ f.frozen = g.frozen \ {k} /\ f.consecutive = g.consecutive
    <3>1. k \in Backends
      BY <1>3 DEF GoodHealth, Healths
    <3> QED BY <1>3, <2>1, <3>1, DropType DEF Healths, DropCount, DropFreeze
  <2>3. Counted(f)
    BY <1>3, <1>4, <2>1 DEF Counted, Healths, DropCount, DropFreeze
  <2>4. Cardinality(g.frozen \ {k}) = Cardinality(g.frozen) - 1
    BY <1>5, FS_RemoveElement
  <2>5. Cardinality(g.frozen) <= Cardinality(h.frozen) + 1
    BY <1>3, <1>5, FS_AddElement, FS_CardinalityType
  <2>6. Bounded(f)
    BY <1>5, <2>2, <2>4, <2>5, FS_CardinalityType DEF GoodHealth, Bounded
  <2> QED BY <1>3, <2>2, <2>3, <2>6 DEF GoodHealth, NoLonger, Healths
<1>7. CASE ~(Cardinality(g.frozen) > MaxFrozenBackends)
  <2>1. f = g
    BY <1>7 DEF Freeze
  <2>2. Bounded(g)
    BY <1>5, <1>7, FS_CardinalityType DEF Bounded
  <2> QED BY <1>3, <1>4, <2>1, <2>2 DEF GoodHealth, NoLonger, Healths
<1> QED BY <1>6, <1>7

(* A success, a failure, a purge, an unfreeze and the clock keep it good.     *)
LEMMA SucceededGood ==
  ASSUME NEW h, GoodHealth(h), NEW b \in Backends, NEW f \in Succeeded(h, b)
  PROVE  GoodHealth(f) /\ NoLonger(f, h) /\ f.consecutive[b] = 0
<1>1. PICK g \in GetOrCreate(h, b) :
         f = [DropCount(g, b) EXCEPT !.idle[b] = 0, !.consecutive[b] = 0]
  BY DEF Succeeded
<1>2. GoodHealth(g) /\ NoLonger(g, h)
  BY <1>1, GetOrCreateGood
<1> DEFINE e == DropCount(g, b)
<1>3. e \in Healths
  BY <1>2, DropType DEF GoodHealth
<1>4. /\ [e.idle EXCEPT ![b] = 0] \in [Backends -> 0..MaxIdle]
      /\ [e.consecutive EXCEPT ![b] = 0] \in [Backends -> 0..Threshold]
  BY <1>3, HealthAssumption DEF Healths
<1>5. f = [e EXCEPT !.idle = [e.idle EXCEPT ![b] = 0],
                    !.consecutive = [e.consecutive EXCEPT ![b] = 0]]
  BY <1>1
<1>6. f \in Healths
  <2> HIDE DEF e
  <2> QED BY <1>3, <1>4, <1>5 DEF Healths
<1>7. Counted(f) /\ f.frozen = g.frozen /\ f.consecutive[b] = 0
  BY <1>1, <1>2 DEF GoodHealth, Counted, Healths, DropCount
<1>8. NoLonger(f, h)
  BY <1>1, <1>2, HealthAssumption DEF GoodHealth, NoLonger, Healths, DropCount
<1> QED BY <1>2, <1>6, <1>7, <1>8 DEF GoodHealth, Bounded

LEMMA FailedGood ==
  ASSUME NEW h, GoodHealth(h), NEW b \in Backends, NEW f \in Failed(h, b)
  PROVE  /\ GoodHealth(f)
         /\ f.consecutive[b] <= AtMost(h.consecutive[b] + 1, Threshold)
         /\ \A o \in Backends \ {b} : f.consecutive[o] <= h.consecutive[o]
<1> DEFINE more(g) == AtMost(g.consecutive[b] + 1, Threshold)
<1>1. PICK g \in GetOrCreate(h, b) :
         f = [g EXCEPT !.idle[b] = 0, !.consecutive[b] = AtMost(@ + 1, Threshold)]
  BY DEF Failed
<1>2. GoodHealth(g) /\ NoLonger(g, h)
  BY <1>1, GetOrCreateGood
<1>3. /\ [g.idle EXCEPT ![b] = 0] \in [Backends -> 0..MaxIdle]
      /\ [g.consecutive EXCEPT ![b] = more(g)] \in [Backends -> 0..Threshold]
      /\ more(g) <= AtMost(h.consecutive[b] + 1, Threshold)
  BY <1>2, HealthAssumption DEF GoodHealth, Healths, AtMost, NoLonger
<1>4. f = [g EXCEPT !.idle = [g.idle EXCEPT ![b] = 0],
                    !.consecutive = [g.consecutive EXCEPT ![b] = more(g)]]
  BY <1>1
<1>5. f \in Healths
  <2> HIDE DEF more
  <2> QED BY <1>2, <1>3, <1>4 DEF GoodHealth, Healths
<1>6. Counted(f) /\ f.frozen = g.frozen
  BY <1>1, <1>2 DEF GoodHealth, Counted, Healths
<1>7. /\ f.consecutive[b] <= AtMost(h.consecutive[b] + 1, Threshold)
      /\ \A o \in Backends \ {b} : f.consecutive[o] <= h.consecutive[o]
  <2> HIDE DEF more
  <2> QED BY <1>2, <1>3, <1>4 DEF GoodHealth, Healths, NoLonger
<1> QED BY <1>2, <1>5, <1>6, <1>7 DEF GoodHealth, Bounded

LEMMA HttpFailedGood ==
  ASSUME NEW h, GoodHealth(h), NEW b \in Backends, NEW c \in Categories,
         NEW f \in HttpFailed(h, b, c)
  PROVE  GoodHealth(f) /\ NoLonger(f, h)
<1>1. PICK g \in GetOrCreate(h, b) :
         f \in IF g.consecutive[b] < Threshold THEN {g}
                ELSE Freeze(g, b, FreezeDuration[c])
  BY DEF HttpFailed
<1>2. GoodHealth(g) /\ NoLonger(g, h)
  BY <1>1, GetOrCreateGood
<1>3. FreezeDuration[c] \in Nat \ {0}
  BY HealthAssumption
<1>4. GoodHealth(f) /\ NoLonger(f, g)
  <2>1. CASE f = g
    BY <1>2, <2>1 DEF NoLonger, GoodHealth, Healths
  <2>2. CASE f \in Freeze(g, b, FreezeDuration[c])
    BY <1>2, <1>3, <2>2, FreezeGood
  <2> QED BY <1>1, <2>1, <2>2
<1> QED BY <1>2, <1>4 DEF NoLonger, GoodHealth, Healths

LEMMA DropFreezeGood ==
  ASSUME NEW h, GoodHealth(h), NEW b \in Backends
  PROVE  /\ GoodHealth(DropCount(DropFreeze(h, b), b))
         /\ b \in h.known => GoodHealth(DropFreeze(h, b))
         /\ DropFreeze(h, b).consecutive = h.consecutive
         /\ DropCount(DropFreeze(h, b), b).consecutive = h.consecutive
<1> DEFINE g == DropFreeze(h, b)
           f == DropCount(g, b)
<1>1. g \in Healths /\ f \in Healths
  BY DropType DEF GoodHealth
<1>2. g.frozen = h.frozen \ {b} /\ f.frozen = h.frozen \ {b}
  BY DEF GoodHealth, Healths, DropFreeze, DropCount
<1>3. Bounded(g) /\ Bounded(f)
  BY <1>2, FrozenSubset DEF GoodHealth, Bounded
<1>4. Counted(f) /\ (b \in h.known => Counted(g))
  BY DEF GoodHealth, Counted, Healths, DropFreeze, DropCount
<1>5. g.consecutive = h.consecutive /\ f.consecutive = h.consecutive
  BY DEF GoodHealth, Healths, DropFreeze, DropCount
<1> QED BY <1>1, <1>3, <1>4, <1>5 DEF GoodHealth

LEMMA ElapsedGood ==
  ASSUME NEW h, GoodHealth(h)
  PROVE  GoodHealth(Elapsed(h)) /\ Elapsed(h).consecutive = h.consecutive
<1> DEFINE i == [b \in Backends |-> AtMost(h.idle[b] + 1, MaxIdle)]
           l == [b \in Backends |-> IF h.left[b] > 0 THEN h.left[b] - 1 ELSE 0]
<1>1. i \in [Backends -> 0..MaxIdle] /\ l \in [Backends -> 0..MaxFreeze]
  BY HealthAssumption DEF GoodHealth, Healths, AtMost
<1>2. Elapsed(h) = [h EXCEPT !.idle = i, !.left = l]
  BY DEF Elapsed
<1> HIDE DEF i, l
<1>3. Elapsed(h) \in Healths
  BY <1>1, <1>2 DEF GoodHealth, Healths
<1> QED BY <1>2, <1>3 DEF GoodHealth, Counted, Bounded, Healths
-----------------------------------------------------------------------------
(* The inductive invariant: the record is good, and the run of failures since *)
(* the last success is at least as long as consecutive_failures says, which   *)
(* an eviction in between may have set back.                                  *)
RunCovers == \A b \in Backends : health.consecutive[b] <= run[b]
IInv == HealthTypeOK /\ GoodHealth(health) /\ RunCovers

LEMMA InitIInv == HealthInit => IInv
<1> SUFFICES ASSUME HealthInit PROVE IInv
    OBVIOUS
<1>1. health \in Healths
  BY HealthAssumption DEF HealthInit, NewHealth, Healths
<1>2. Counted(health) /\ health.frozen = {}
  BY DEF HealthInit, NewHealth, Counted
<1>3. Bounded(health)
  BY <1>2, FS_EmptySet, HealthAssumption DEF Bounded
<1>5. run \in [Backends -> 0..Threshold]
  BY HealthAssumption DEF HealthInit
<1>6. RunCovers
  BY HealthAssumption DEF HealthInit, RunCovers, NewHealth
<1>7. HealthTypeOK
  BY <1>1, <1>5 DEF HealthTypeOK
<1> QED BY <1>1, <1>2, <1>3, <1>6, <1>7 DEF IInv, GoodHealth

(* Each method, for each backend, and the clock keep the invariant.           *)
LEMMA NextIInv == IInv /\ [HealthNext]_healthVars => IInv'
<1> SUFFICES ASSUME IInv, [HealthNext]_healthVars PROVE IInv'
    OBVIOUS
<1>a. GoodHealth(health) /\ HealthTypeOK
  BY DEF IInv
<1>b. ASSUME GoodHealth(health'), NoLonger(health', health), run' = run
      PROVE  IInv'
  <2>1. RunCovers'
    BY <1>b DEF IInv, RunCovers, NoLonger, HealthTypeOK, GoodHealth, Healths
  <2> QED BY <1>b, <1>a, <2>1 DEF IInv, HealthTypeOK, GoodHealth, Counted, Bounded
<1>1. CASE HealthTick
  <2>1. GoodHealth(health') /\ health'.consecutive = health.consecutive
    BY <1>1, <1>a, ElapsedGood DEF HealthTick
  <2> QED BY <1>1, <1>a, <1>b, <2>1 DEF HealthTick, NoLonger, HealthTypeOK, GoodHealth, Healths
<1>2. ASSUME NEW b \in Backends, RecordSuccess(b) PROVE IInv'
  <2>1. GoodHealth(health') /\ NoLonger(health', health) /\ health'.consecutive[b] = 0
    BY <1>2, <1>a, SucceededGood DEF RecordSuccess
  <2>2. run' \in [Backends -> 0..Threshold]
    BY <1>2, <1>a, HealthAssumption DEF RecordSuccess, HealthTypeOK
  <2>3. RunCovers'
    BY <1>2, <2>1, <1>a DEF RecordSuccess, IInv, RunCovers, NoLonger, HealthTypeOK,
                            GoodHealth, Healths
  <2> QED BY <2>1, <2>2, <2>3 DEF IInv, HealthTypeOK, GoodHealth, Counted, Bounded
<1>3. ASSUME NEW b \in Backends, RecordFailure(b) PROVE IInv'
  <2>1. /\ GoodHealth(health')
        /\ health'.consecutive[b] <= AtMost(health.consecutive[b] + 1, Threshold)
        /\ \A o \in Backends \ {b} : health'.consecutive[o] <= health.consecutive[o]
    BY <1>3, <1>a, FailedGood DEF RecordFailure
  <2>2. run' \in [Backends -> 0..Threshold]
    BY <1>3, <1>a, HealthAssumption
    DEF RecordFailure, HealthTypeOK, AtMost
  <2>3. RunCovers'
    BY <1>3, <2>1, <1>a, HealthAssumption
    DEF RecordFailure, IInv, RunCovers, HealthTypeOK, AtMost, GoodHealth, Healths
  <2> QED BY <2>1, <2>2, <2>3 DEF IInv, HealthTypeOK, GoodHealth, Counted, Bounded
<1>4. ASSUME NEW b \in Backends, Freezes(b) PROVE IInv'
  <2>1. ASSUME NEW c \in Categories, RecordHttpFailure(b, c) PROVE IInv'
    <3>1. GoodHealth(health') /\ NoLonger(health', health)
      BY <2>1, <1>a, HttpFailedGood DEF RecordHttpFailure
    <3> QED BY <2>1, <3>1, <1>b DEF RecordHttpFailure
  <2>2. ASSUME NEW d \in {DefaultFreeze, CredentialFreeze}, FreezeBackend(b, d)
        PROVE  IInv'
    <3>1. GoodHealth(health') /\ NoLonger(health', health)
      BY <2>2, <1>a, FreezeGood, HealthAssumption, FreezeAssumption
      DEF FreezeBackend
    <3> QED BY <2>2, <3>1, <1>b DEF FreezeBackend
  <2> QED BY <1>4, <2>1, <2>2 DEF Freezes
<1>5. ASSUME NEW b \in Backends, CheckFrozen(b) \/ UnfreezeBackend(b) PROVE IInv'
  <2>1. GoodHealth(health') /\ health'.consecutive = health.consecutive
    BY <1>5, <1>a, DropFreezeGood
    DEF CheckFrozen, UnfreezeBackend, Purged, Unfrozen
  <2>2. NoLonger(health', health) /\ run' = run
    BY <1>5, <1>a, <2>1 DEF CheckFrozen, UnfreezeBackend, NoLonger, GoodHealth, Healths
  <2> QED BY <2>1, <2>2, <1>b
<1>6. CASE UNCHANGED healthVars
  BY <1>6 DEF healthVars, IInv, HealthTypeOK, GoodHealth, Counted, Bounded, RunCovers
<1> QED BY <1>1, <1>2, <1>3, <1>4, <1>5, <1>6 DEF HealthNext

LEMMA Invariant == HealthSpec => []IInv
  BY InitIInv, NextIInv, PTL DEF HealthSpec

(* Type correctness of the health manager.                                    *)
THEOREM HealthTypeCorrect == HealthSpec => []HealthTypeOK
<1>1. IInv => HealthTypeOK
  BY DEF IInv
<1> QED BY Invariant, <1>1, PTL

(* The frozen list never outgrows MAX_FROZEN_BACKENDS, for any number of      *)
(* backends (_freeze_backend_locked).                                         *)
THEOREM FrozenListIsBounded == HealthSpec => []FrozenBounded
<1>1. IInv => FrozenBounded
  BY DEF IInv, GoodHealth, Bounded, FrozenBounded
<1> QED BY Invariant, <1>1, PTL

(* No freeze count outlives all knowledge of its backend (_get_or_create,     *)
(* is_frozen, _freeze_backend_locked).                                        *)
THEOREM CountsAreNeverOrphans == HealthSpec => []NoOrphanCount
<1>1. IInv => NoOrphanCount
  BY DEF IInv, GoodHealth, Counted, NoOrphanCount
<1> QED BY Invariant, <1>1, PTL

(* _get_or_create never lengthens a freeze.                                   *)
LEMMA GetOrCreateLeft ==
  ASSUME NEW h, GoodHealth(h), NEW b \in Backends, NEW g \in GetOrCreate(h, b)
  PROVE  \A k \in Backends : g.left[k] <= h.left[k]
<1>1. CASE g.left = h.left
  BY <1>1 DEF GoodHealth, Healths
<1>2. CASE g.left # h.left
  <2>1. PICK k \in LeastActive(h) : g = [Forget(h, k) EXCEPT !.known = @ \cup {b}]
    BY <1>2 DEF GetOrCreate, GoodHealth, Healths
  <2>2. k \in Backends
    BY DEF LeastActive, GoodHealth, Healths
  <2>3. g.left = [h.left EXCEPT ![k] = 0]
    BY <2>1, <2>2 DEF Forget, DropCount, DropFreeze, GoodHealth, Healths
  <2> QED BY <2>2, <2>3, HealthAssumption DEF GoodHealth, Healths
<1> QED BY <1>1, <1>2

(* A freeze that record_http_failure imposes or lengthens answers a run of    *)
(* Threshold failures with no success in it, whatever was evicted meanwhile.  *)
THEOREM AutoFreezeNeedsWholeRun == HealthSpec => AutoFreezeNeedsRun
<1> DEFINE Due == \A b \in Backends, c \in Categories :
                     RecordHttpFailure(b, c) /\ health'.left[b] > health.left[b]
                       => run[b] >= Threshold
<1>1. IInv => Due
  <2> SUFFICES ASSUME IInv, NEW b \in Backends, NEW c \in Categories,
                      RecordHttpFailure(b, c), health'.left[b] > health.left[b]
               PROVE  run[b] >= Threshold
      OBVIOUS
  <2>1. GoodHealth(health)
    BY DEF IInv
  <2>2. PICK g \in GetOrCreate(health, b) :
          health' \in IF g.consecutive[b] < Threshold THEN {g}
                      ELSE Freeze(g, b, FreezeDuration[c])
    BY DEF RecordHttpFailure, HttpFailed
  <2>3. g.left[b] <= health.left[b] /\ NoLonger(g, health) /\ GoodHealth(g)
    BY <2>1, <2>2, GetOrCreateLeft, GetOrCreateGood
  <2>4. ~(g.consecutive[b] < Threshold)
    BY <2>1, <2>2, <2>3 DEF GoodHealth, Healths
  <2> QED BY <2>1, <2>3, <2>4, HealthAssumption
          DEF IInv, RunCovers, HealthTypeOK, NoLonger, GoodHealth, Healths
<1> QED BY Invariant, <1>1, PTL DEF HealthSpec, AutoFreezeNeedsRun
-----------------------------------------------------------------------------
LEMMA InitMaps == ProbeInit => HealthInit
  BY DEF ProbeInit

LEMMA StepMaps == [ProbeNext]_allVars => [HealthNext]_healthVars
<1> SUFFICES ASSUME [ProbeNext]_allVars PROVE [HealthNext]_healthVars
    OBVIOUS
<1>1. CASE TimePasses
  BY <1>1 DEF TimePasses, HealthNext
<1>2. CASE Requests
  BY <1>2 DEF Requests, HealthNext, Freezes
<1>3. ASSUME NEW b \in Backends, StartupPasses(b) \/ StartupFreezes(b)
      PROVE  [HealthNext]_healthVars
  BY <1>3 DEF StartupPasses, StartupFreezes, HealthNext, Freezes, healthVars
<1>4. ASSUME NEW b \in Gated, NoCredentials(b) PROVE [HealthNext]_healthVars
  BY <1>4, ProbeAssumption DEF NoCredentials, HealthNext, Freezes
<1>5. ASSUME NEW b \in Gated, ProbeWakes(b) \/ ProbeAnswered(b)
      PROVE  [HealthNext]_healthVars
  BY <1>5, ProbeAssumption DEF ProbeWakes, ProbeAnswered, HealthNext
<1>6. ASSUME NEW b \in Gated,
             ProbeStarts(b) \/ ProbeAborts(b) \/ ProbeRefused(b) \/ ProbeEnds(b)
      PROVE  [HealthNext]_healthVars
  BY <1>6 DEF ProbeStarts, ProbeAborts, ProbeRefused, ProbeEnds, healthVars
<1>7. CASE UNCHANGED allVars
  BY <1>7 DEF allVars, healthVars
<1> QED BY <1>1, <1>2, <1>3, <1>4, <1>5, <1>6, <1>7 DEF ProbeNext, WatcherStep

(* With the startup probe and the watchers around, the health manager is      *)
(* still the one of BackendHealth.                                            *)
THEOREM ProbesUseTheManager == ProbeSpec => HealthSpec
  BY InitMaps, StepMaps, PTL DEF ProbeSpec, HealthSpec
-----------------------------------------------------------------------------
(* Purging or lifting one backend's freeze leaves every other one in place,   *)
(* and a purge leaves a running one.                                          *)
LEMMA OthersStayFrozen ==
  ASSUME NEW h \in Healths, NEW b \in Backends, NEW o \in Backends,
         IsFrozen(h, o), o # b \/ IsFrozen(h, b)
  PROVE  IsFrozen(Purged(h, b), o)
<1>1. CASE b \notin h.frozen \/ IsFrozen(h, b)
  BY <1>1 DEF Purged
<1>2. CASE ~(b \notin h.frozen \/ IsFrozen(h, b))
  <2> DEFINE g == DropFreeze(h, b)
  <2>1. o # b /\ o \in h.frozen /\ h.left[o] > 0
    BY <1>2 DEF IsFrozen
  <2>2. o \in g.frozen /\ g.left[o] > 0
    BY <2>1 DEF DropFreeze, Healths
  <2>3. DropCount(g, b).frozen = g.frozen /\ DropCount(g, b).left = g.left
    <3>1. g \in Healths
      BY DropType
    <3> HIDE DEF g
    <3> QED BY <3>1 DEF DropCount, Healths
  <2>4. Purged(h, b) = g \/ Purged(h, b) = DropCount(g, b)
    BY <1>2 DEF Purged
  <2> HIDE DEF g
  <2> QED BY <2>2, <2>3, <2>4 DEF IsFrozen
<1> QED BY <1>1, <1>2

(* The inductive invariant: nobody is watched before the routes are served,   *)
(* when only the startup probe can freeze.                                    *)
Watching == /\ probe \in [Gated -> Watchers]
            /\ watched \subseteq Gated
            /\ starting # {} => watched = {}
            /\ WatchedWhileFrozen

LEMMA InitWatching == ProbeInit => Watching
  BY ProbeAssumption DEF ProbeInit, Watching, WatchedWhileFrozen, Watchers, NoWatcher

LEMMA NextWatching == HealthTypeOK /\ Watching /\ [ProbeNext]_allVars => Watching'
<1> SUFFICES ASSUME HealthTypeOK, Watching, [ProbeNext]_allVars PROVE Watching'
    OBVIOUS
<1> USE ProbeAssumption
(* Steps that leave the watchers alone and count only what is still frozen.   *)
<1>a. ASSUME watched' = StillFrozen(watched), UNCHANGED <<probe, starting>>
      PROVE  Watching'
  BY <1>a DEF Watching, WatchedWhileFrozen, StillFrozen
<1>1. CASE TimePasses
  BY <1>1, <1>a DEF TimePasses
<1>2. CASE Requests
  BY <1>2, <1>a DEF Requests
<1>3. ASSUME NEW b \in Backends, StartupPasses(b) \/ StartupFreezes(b)
      PROVE  Watching'
  BY <1>3 DEF StartupPasses, StartupFreezes, Watching, WatchedWhileFrozen
<1>4. ASSUME NEW b \in Gated, NoCredentials(b) PROVE Watching'
  <2>1. probe' \in [Gated -> Watchers]
    BY <1>4 DEF NoCredentials, Watching, Watchers, Scheduled
  <2>2. watched' \subseteq watched \cup {b} /\ \A o \in watched' : IsFrozen(health', o)
    BY <1>4 DEF NoCredentials, StillFrozen
  <2>3. ASSUME NEW o \in watched' PROVE probe'[o].pc \in {"created", "sleeping", "asking"}
    <3>1. CASE o # b
      BY <1>4, <2>2, <2>3, <3>1
      DEF NoCredentials, Watching, WatchedWhileFrozen
    <3>2. CASE o = b
      <4>1. probe'[b] = Scheduled(probe[b]) /\ probe[b] \in Watchers
        BY <1>4 DEF NoCredentials, Watching
      <4>2. probe[b].pc # "leaving"
        BY <1>4, <2>3, <3>2
        DEF NoCredentials, StillFrozen, Watching, WatchedWhileFrozen
      <4> QED BY <3>2, <4>1, <4>2 DEF Scheduled, Watchers
    <3> QED BY <3>1, <3>2
  <2>4. starting' = {}
    BY <1>4 DEF NoCredentials
  <2> QED BY <2>1, <2>2, <2>3, <2>4 DEF Watching, WatchedWhileFrozen
<1>5. ASSUME NEW b \in Gated, ProbeWakes(b) PROVE Watching'
  <2>1. probe' \in [Gated -> Watchers] /\ UNCHANGED <<starting, watched>>
    BY <1>5 DEF ProbeWakes, Watching, Watchers, NoWatcher
  <2>2. ASSUME NEW o \in watched
        PROVE  IsFrozen(health', o) /\ probe'[o].pc \in {"created", "sleeping", "asking"}
    <3>1. IsFrozen(health, o) /\ o \in Backends /\ o \in Gated
      BY <2>2 DEF Watching, WatchedWhileFrozen
    <3>2. IsFrozen(health', o)
      BY <1>5, <3>1, OthersStayFrozen DEF ProbeWakes, CheckFrozen, HealthTypeOK
    <3>3. probe'[o].pc \in {"created", "sleeping", "asking"}
      BY <1>5, <2>2, <3>1
      DEF ProbeWakes, Watching, WatchedWhileFrozen, Watchers
    <3> QED BY <3>2, <3>3
  <2> QED BY <2>1, <2>2 DEF Watching, WatchedWhileFrozen
<1>6. ASSUME NEW b \in Gated, ProbeRefused(b) PROVE Watching'
  <2> DEFINE n == probe[b].left - 1
  <2>1. probe[b] \in Watchers /\ probe[b].pc = "asking" /\ health' = health
    BY <1>6 DEF ProbeRefused, Watching, healthVars
  <2>2. CASE n > 0
    <3>1. /\ probe' = [probe EXCEPT ![b] = [pc |-> "sleeping", left |-> n]]
          /\ UNCHANGED <<starting, watched>>
      BY <1>6, <2>2 DEF ProbeRefused
    <3>2. n \in 0..ProbeAttempts
      BY <2>1, <2>2 DEF Watchers
    <3> HIDE DEF n
    <3> QED BY <2>1, <3>1, <3>2 DEF Watching, WatchedWhileFrozen, Watchers, IsFrozen
  <2>3. CASE ~(n > 0)
    <3>1. /\ probe' = [probe EXCEPT ![b] = NoWatcher]
          /\ watched' = watched \ {b} /\ UNCHANGED starting
      BY <1>6, <2>3 DEF ProbeRefused
    <3> QED BY <2>1, <3>1
        DEF Watching, WatchedWhileFrozen, Watchers, NoWatcher, IsFrozen
  <2> QED BY <2>2, <2>3
<1>7. ASSUME NEW b \in Gated, ProbeAnswered(b) PROVE Watching'
  <2>1. probe' \in [Gated -> Watchers] /\ watched' = StillFrozen(watched)
    BY <1>7 DEF ProbeAnswered, Watching, Watchers
  <2>2. ~IsFrozen(health', b)
    BY <1>7 DEF ProbeAnswered, UnfreezeBackend, Unfrozen, DropFreeze, DropCount,
                IsFrozen, HealthTypeOK, Healths
  <2>3. \A o \in watched' : o # b /\ o \in Gated /\ probe'[o] = probe[o]
    BY <1>7, <2>1, <2>2 DEF ProbeAnswered, StillFrozen, Watching
  <2> QED BY <1>7, <2>1, <2>3
      DEF ProbeAnswered, StillFrozen, Watching, WatchedWhileFrozen
<1>8. ASSUME NEW b \in Gated, ProbeEnds(b) PROVE Watching'
  <2>1. b \notin watched
    BY <1>8 DEF ProbeEnds, Watching, WatchedWhileFrozen
  <2> QED BY <1>8, <2>1
      DEF ProbeEnds, Watching, WatchedWhileFrozen, Watchers, NoWatcher, healthVars, IsFrozen
<1>9. ASSUME NEW b \in Gated, ProbeStarts(b) PROVE Watching'
  <2>1. /\ probe[b] \in Watchers /\ probe[b].pc = "created"
        /\ probe' = [probe EXCEPT ![b].pc = "sleeping"]
        /\ UNCHANGED <<health, starting, watched>>
    BY <1>9 DEF ProbeStarts, Watching, healthVars
  <2> QED BY <2>1 DEF Watching, WatchedWhileFrozen, Watchers, IsFrozen
<1>10. ASSUME NEW b \in Gated, ProbeAborts(b) PROVE Watching'
  BY <1>10 DEF ProbeAborts, Watching, WatchedWhileFrozen, Watchers, NoWatcher,
               healthVars, IsFrozen
<1>11. CASE UNCHANGED allVars
  BY <1>11 DEF allVars, healthVars, probeVars, Watching, WatchedWhileFrozen, IsFrozen
<1> QED BY <1>1, <1>2, <1>3, <1>4, <1>5, <1>6, <1>7, <1>8, <1>9, <1>10, <1>11
        DEF ProbeNext, WatcherStep

(* A backend frozen for lack of credentials is watched until it is unfrozen   *)
(* (_schedule_credential_probe, _credential_probe_loop), for every set of     *)
(* backends and every number of probes.                                       *)
THEOREM FrozenIsWatched == ProbeSpec => []WatchedWhileFrozen
<1>1. ProbeSpec => []HealthTypeOK
  BY ProbesUseTheManager, HealthTypeCorrect, PTL
<1>2. Watching => WatchedWhileFrozen
  BY DEF Watching
<1> QED BY InitWatching, NextWatching, <1>1, <1>2, PTL DEF ProbeSpec
=============================================================================
