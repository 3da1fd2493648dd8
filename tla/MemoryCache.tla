------------------------------ MODULE MemoryCache ------------------------------
(* MemoryCache of cache/memory_cache.py, the L1 cache: an ordered dictionary    *)
(* under an RWLock.  get() and cleanup_expired() look under the read lock and   *)
(* change under the write lock, with anything in between; the other operations  *)
(* hold the lock once.  What a thread does while it holds the lock is one step, *)
(* the one that gives the lock back: Exclusion is what makes that sound.        *)
(*                                                                              *)
(* The dictionary is a sequence of entries, the first to be evicted at its      *)
(* head.  Left out: the statistics, and bulk_set() but for warm_up(), its only  *)
(* caller, which runs before there are other threads: Init starts after it.     *)
EXTENDS ReadWriteLock, Selection

CONSTANTS Keys,       \* cache keys: namespace, conversation and thinking hash
          Filters,    \* the sets of keys delete, bulk_delete and clear select
          Warm,       \* the sets of keys L2 may have had for warm_up()
          MaxSize,    \* config.max_size
          TTL,        \* config.ttl_seconds, in ticks
          Policies,   \* the values of config.eviction_policy in question
          None,       \* Python's None
          Roles,      \* the operations each thread calls
          MaxCalls,   \* bound: calls
          MaxTime     \* bound: ticks

(* What a thread is doing; get() goes on to touch and to found, cleanup to     *)
(* purge.                                                                       *)
Ops == {"idle", "get", "touch", "found", "set", "delete", "clear", "read",
        "cleanup", "purge"}

ASSUME CacheAssumption ==
    /\ IsFiniteSet(Keys)
    /\ Filters \subseteq SUBSET Keys
    /\ Warm \subseteq {ks \in SUBSET Keys : MaxSize > 0 => Cardinality(ks) <= MaxSize}
    /\ MaxSize \in Nat
    /\ TTL \in Nat
    /\ Policies \subseteq {"lru", "fifo", "lfu"}
    /\ Roles \in [Threads -> SUBSET Ops]
    /\ MaxCalls \in Nat /\ MaxTime \in Nat

VARIABLES policy,      \* config.eviction_policy
          cache,       \* _cache
          lastEntry,   \* _last_entry
          now,         \* datetime.now()
          call,        \* what each thread is doing
          calls,       \* how many calls there were
          seen         \* history: the entries under a get's key since its call

cacheVars == <<policy, cache, lastEntry, now, call, calls, seen>>
vars == <<lockVars, cacheVars>>

(* An entry; the number of the call that made it tells entries of one key      *)
(* apart.  expires = 0 stands for None.                                        *)
Entries == [key : Keys, id : Nat, expires : Nat, hits : Nat]
Name(e) == <<e.key, e.id>>

Idle == [op |-> "idle", entry |-> None, keys |-> {}, update |-> FALSE]

Expired(e) == e.expires > 0 /\ now > e.expires
Has(k) == \E i \in DOMAIN cache : cache[i].key = k
At(k) == cache[CHOOSE i \in DOMAIN cache : cache[i].key = k]
Without(s, ks) == Selected(s, {i \in DOMAIN s : s[i].key \notin ks})

TypeOK == /\ LockTypeOK
          /\ policy \in Policies
          /\ cache \in Seq(Entries)
          /\ \A i, j \in DOMAIN cache : i # j => cache[i].key # cache[j].key
          /\ lastEntry \in (Keys \X Nat) \cup {None}
          /\ now \in 1..MaxTime + 1
          /\ call \in [Threads -> [op : Ops, entry : Entries \cup {None},
                                   keys : SUBSET Keys, update : BOOLEAN]]
          /\ calls \in 0..MaxCalls
          /\ seen \in [Threads -> SUBSET (Keys \X Nat)]

(* __init__(), and warm_up() with entries of L2 that were not expired: bulk_set *)
(* makes the last of them the last entry.                                       *)
Init == /\ LockInit
        /\ policy \in Policies
        /\ \E ks \in Warm :
             /\ cache \in {s \in [1..Cardinality(ks) ->
                                    [key : ks, id : {0}, expires : IF TTL > 0 THEN {1} ELSE {0}, hits : {0}]] :
                             {s[i].key : i \in DOMAIN s} = ks}
             /\ lastEntry = IF cache = <<>> THEN None ELSE Name(cache[Len(cache)])
        /\ now = 1
        /\ call = [t \in Threads |-> Idle]
        /\ calls = 0
        /\ seen = [t \in Threads |-> {}]

(* History: a get that has begun sees what is under its key from its call on.  *)
Watches ==
    seen' = [t \in Threads |->
        IF call'[t].op \notin {"get", "touch", "found"} THEN {}
        ELSE (IF call[t].op = "idle" THEN {} ELSE seen[t])
             \cup {Name(e) : e \in {cache'[i] : i \in {j \in DOMAIN cache' :
                                       cache'[j].key \in call'[t].keys}}}]

Does(t, what) == call' = [call EXCEPT ![t] = what]
Returns(t) == Does(t, Idle)
-----------------------------------------------------------------------------
(* A call up to the lock it asks for first.                                    *)
Begins(t, what) ==
    /\ call[t] = Idle
    /\ calls < MaxCalls /\ what.op \in Roles[t]
    /\ calls' = calls + 1
    /\ Does(t, what)
    /\ UNCHANGED <<policy, cache, lastEntry, now>>

Get(t) == \E k \in Keys :
    AcquireRead(t) /\ Begins(t, [Idle EXCEPT !.op = "get", !.keys = {k}])

(* set(): the expiry is computed before the lock is asked for.                 *)
Set(t) == \E k \in Keys, update \in BOOLEAN :
    /\ AcquireWrite(t)
    /\ Begins(t, [Idle EXCEPT !.op = "set", !.keys = {k}, !.update = update,
                  !.entry = [key |-> k, id |-> calls + 1, hits |-> 0,
                             expires |-> IF TTL > 0 THEN now + TTL ELSE 0]])

Delete(t) == \E ks \in Filters :
    AcquireWrite(t) /\ Begins(t, [Idle EXCEPT !.op = "delete", !.keys = ks])

Clear(t) == AcquireWrite(t) /\ Begins(t, [Idle EXCEPT !.op = "clear"])

(* exists(), size(), get_stats(), get_recent(), get_all_entries() and the rest  *)
(* of the readers change nothing.                                               *)
Read(t) == AcquireRead(t) /\ Begins(t, [Idle EXCEPT !.op = "read"])

Cleanup(t) == AcquireRead(t) /\ Begins(t, [Idle EXCEPT !.op = "cleanup"])
-----------------------------------------------------------------------------
(* get(): under the read lock, a miss or a hit; a hit asks for the write lock.  *)
LooksUp(t) ==
    /\ call[t].op = "get"
    /\ ReleaseRead(t)
    /\ \E k \in call[t].keys :
         IF Has(k) /\ ~Expired(At(k))
         THEN Does(t, [call[t] EXCEPT !.op = "touch", !.entry = At(k)])
         ELSE Returns(t)
    /\ UNCHANGED <<policy, cache, lastEntry, now, calls>>

AsksToTouch(t) ==
    /\ call[t].op = "touch" /\ AcquireWrite(t)
    /\ UNCHANGED <<policy, cache, lastEntry, now, call, calls>>

(* What get() returns is what it finds now, or else what it found before.       *)
\* Mutant: it returns the last entry, in the belief that it has just set it.
TouchesLast(t) ==
    /\ call[t].op = "touch"
    /\ ReleaseWrite(t)
    /\ \E k \in call[t].keys :
         IF Has(k)
         THEN LET e == [At(k) EXCEPT !.hits = @ + 1]
              IN  /\ cache' = Append(Without(cache, {k}), e)
                  /\ lastEntry' = Name(e)
                  /\ Does(t, [call[t] EXCEPT !.op = "found", !.entry = e])
         ELSE /\ Does(t, [call[t] EXCEPT !.op = "found",
                          !.entry = IF cache = <<>> THEN @ ELSE cache[Len(cache)]])
              /\ UNCHANGED <<cache, lastEntry>>
    /\ UNCHANGED <<policy, now, calls>>

Touches(t) ==
    /\ call[t].op = "touch"
    /\ ReleaseWrite(t)
    /\ \E k \in call[t].keys :
         IF Has(k)
         THEN LET e == [At(k) EXCEPT !.hits = @ + 1]
              IN  /\ cache' = Append(Without(cache, {k}), e)
                  /\ lastEntry' = Name(e)
                  /\ Does(t, [call[t] EXCEPT !.op = "found", !.entry = e])
         ELSE /\ Does(t, [call[t] EXCEPT !.op = "found"])
              /\ UNCHANGED <<cache, lastEntry>>
    /\ UNCHANGED <<policy, now, calls>>

GetReturns(t) ==
    /\ call[t].op = "found"
    /\ Returns(t)
    /\ UNCHANGED <<lockVars, policy, cache, lastEntry, now, calls>>

(* _evict_one(): the head, or the first of the least frequently used.  The loop *)
(* around it runs once at most, for the cache is never over its limit.          *)
Victim ==
    IF policy = "lfu"
    THEN CHOOSE i \in DOMAIN cache :
           \A j \in DOMAIN cache : \/ cache[i].hits < cache[j].hits
                                   \/ cache[i].hits = cache[j].hits /\ i <= j
    ELSE 1

\* Mutant: off by one at the limit.
EvictsLate == IF Len(cache) > MaxSize /\ MaxSize > 0
              THEN Without(cache, {cache[Victim].key}) ELSE cache

Evicts == IF Len(cache) >= MaxSize /\ MaxSize > 0
          THEN Without(cache, {cache[Victim].key}) ELSE cache

(* The rest of set().                                                           *)
Stores(t) ==
    /\ call[t].op = "set"
    /\ ReleaseWrite(t)
    /\ LET e == call[t].entry
       IN  IF Has(e.key) /\ ~call[t].update
           THEN UNCHANGED <<cache, lastEntry>>
           ELSE /\ cache' = Append(IF Has(e.key) THEN Without(cache, {e.key}) ELSE Evicts, e)
                /\ lastEntry' = Name(e)
    /\ Returns(t)
    /\ UNCHANGED <<policy, now, calls>>

Deletes(t) ==
    /\ call[t].op = "delete"
    /\ ReleaseWrite(t)
    /\ cache' = Without(cache, call[t].keys)
    /\ Returns(t)
    /\ UNCHANGED <<policy, lastEntry, now, calls>>

Clears(t) ==
    /\ call[t].op = "clear"
    /\ ReleaseWrite(t)
    /\ cache' = <<>> /\ lastEntry' = None
    /\ Returns(t)
    /\ UNCHANGED <<policy, now, calls>>

ReadEnds(t) ==
    /\ call[t].op = "read"
    /\ ReleaseRead(t)
    /\ Returns(t)
    /\ UNCHANGED <<policy, cache, lastEntry, now, calls>>

(* cleanup_expired(): keys under the read lock, deletions under the write lock, *)
(* whatever is under those keys by then.                                        *)
Collects(t) ==
    /\ call[t].op = "cleanup"
    /\ ReleaseRead(t)
    /\ LET ks == {cache[i].key : i \in {j \in DOMAIN cache : Expired(cache[j])}}
       IN  Does(t, IF ks = {} THEN Idle
                   ELSE [call[t] EXCEPT !.op = "purge", !.keys = ks])
    /\ UNCHANGED <<policy, cache, lastEntry, now, calls>>

AsksToPurge(t) ==
    /\ call[t].op = "purge" /\ AcquireWrite(t)
    /\ UNCHANGED <<policy, cache, lastEntry, now, call, calls>>

Purges(t) ==
    /\ call[t].op = "purge"
    /\ ReleaseWrite(t)
    /\ cache' = Without(cache, call[t].keys)
    /\ Returns(t)
    /\ UNCHANGED <<policy, lastEntry, now, calls>>

Wakes(t) ==
    /\ WokenReader(t) \/ WokenWriter(t)
    /\ UNCHANGED <<policy, cache, lastEntry, now, call, calls>>

Tick ==
    /\ now <= MaxTime
    /\ now' = now + 1
    /\ UNCHANGED <<lockVars, policy, cache, lastEntry, call, calls>>
-----------------------------------------------------------------------------
Calls(t) == Get(t) \/ Set(t) \/ Delete(t) \/ Clear(t) \/ Read(t) \/ Cleanup(t)

(* What a thread does in a call.                                               *)
Proceeds(t) ==
    \/ LooksUp(t) \/ AsksToTouch(t) \/ Touches(t) \/ GetReturns(t)
    \/ Stores(t) \/ Deletes(t) \/ Clears(t) \/ ReadEnds(t)
    \/ Collects(t) \/ AsksToPurge(t) \/ Purges(t) \/ Wakes(t)

Next == /\ Tick \/ \E t \in Threads : Calls(t) \/ Proceeds(t)
        /\ Watches

(* The scheduler runs every thread that can run.                               *)
Spec == Init /\ [][Next]_vars /\ \A t \in Threads : WF_vars(Proceeds(t) /\ Watches)
-----------------------------------------------------------------------------
(* The cache is never over its limit, whoever stores (memory_cache.py:114,     *)
(* "LRU eviction when max_size is reached").                                   *)
SizeBounded == MaxSize > 0 => Len(cache) <= MaxSize

(* What get() returns was in the cache under its key at some moment of the     *)
(* call, although it lets go of the lock between looking and touching, while   *)
(* others replace, evict, delete and clear.                                    *)
GetIsFresh == \A t \in Threads :
    call[t].op = "found" => Name(call[t].entry) \in seen[t]

(* Every call comes back: no wake-up is lost, and no thread waits for a lock   *)
(* that everybody else has given back.                                         *)
CallsReturn == \A t \in Threads : call[t].op # "idle" ~> call[t].op = "idle"
=============================================================================
