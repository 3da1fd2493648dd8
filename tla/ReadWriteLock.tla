----------------------------- MODULE ReadWriteLock -----------------------------
(* RWLock of cache/memory_cache.py: one condition variable, a count of readers, *)
(* a count of writers that wait and a flag for the writer inside.  Every        *)
(* `with self._read_ready` block runs under the condition's mutex and is one    *)
(* step up to its wait(); a thread in wait() sleeps until notify_all(), and     *)
(* then looks at the loop's condition again.                                    *)
EXTENDS Naturals, FiniteSets

CONSTANT Threads

ASSUME ThreadsAssumption == IsFiniteSet(Threads)

VARIABLES readers,          \* _readers
          writersWaiting,   \* _writers_waiting
          writerActive,     \* _writer_active
          at,               \* where each thread is with respect to the lock
          asleep            \* threads in wait() that nobody has notified

lockVars == <<readers, writersWaiting, writerActive, at, asleep>>

Places == {"out", "readWaits", "reading", "writeWaits", "writing"}

LockTypeOK == /\ readers \in Nat
              /\ writersWaiting \in Nat
              /\ writerActive \in BOOLEAN
              /\ at \in [Threads -> Places]
              /\ asleep \subseteq Threads

LockInit == /\ readers = 0 /\ writersWaiting = 0 /\ writerActive = FALSE
            /\ at = [t \in Threads |-> "out"]
            /\ asleep = {}

AllAt(place) == {t \in Threads : at[t] = place}
Goes(t, place) == at' = [at EXCEPT ![t] = place]
-----------------------------------------------------------------------------
\* Mutant: a reader looks at the writers that wait only.
MayReadBesideWriter == writersWaiting = 0

MayRead == ~writerActive /\ writersWaiting = 0
MayWrite == readers = 0 /\ ~writerActive

(* acquire_read(): the first look at the loop's condition, and those after     *)
(* each wake-up.                                                               *)
Reads(t) ==
    /\ MayRead
    /\ readers' = readers + 1
    /\ Goes(t, "reading")
    /\ UNCHANGED <<writersWaiting, writerActive, asleep>>

WaitsToRead(t) ==
    /\ ~MayRead
    /\ Goes(t, "readWaits")
    /\ asleep' = asleep \cup {t}
    /\ UNCHANGED <<readers, writersWaiting, writerActive>>

AcquireRead(t) == at[t] = "out" /\ (Reads(t) \/ WaitsToRead(t))
WokenReader(t) == at[t] = "readWaits" /\ t \notin asleep /\ (Reads(t) \/ WaitsToRead(t))

(* release_read(): only the last reader notifies.                              *)
\* Mutant: it leaves the waking to the writers.
ReleaseReadQuietly(t) ==
    /\ at[t] = "reading"
    /\ readers' = readers - 1
    /\ Goes(t, "out")
    /\ UNCHANGED <<writersWaiting, writerActive, asleep>>

ReleaseRead(t) ==
    /\ at[t] = "reading"
    /\ readers' = readers - 1
    /\ Goes(t, "out")
    /\ asleep' = IF readers' = 0 THEN {} ELSE asleep
    /\ UNCHANGED <<writersWaiting, writerActive>>

(* acquire_write(): counted as waiting from its first look to the one that     *)
(* lets it in.                                                                 *)
AcquireWrite(t) ==
    /\ at[t] = "out"
    /\ \/ /\ MayWrite
          /\ writerActive' = TRUE
          /\ Goes(t, "writing")
          /\ UNCHANGED <<readers, writersWaiting, asleep>>
       \/ /\ ~MayWrite
          /\ writersWaiting' = writersWaiting + 1
          /\ Goes(t, "writeWaits")
          /\ asleep' = asleep \cup {t}
          /\ UNCHANGED <<readers, writerActive>>

WokenWriter(t) ==
    /\ at[t] = "writeWaits" /\ t \notin asleep
    /\ \/ /\ MayWrite
          /\ writerActive' = TRUE
          /\ writersWaiting' = writersWaiting - 1
          /\ Goes(t, "writing")
          /\ UNCHANGED <<readers, asleep>>
       \/ /\ ~MayWrite
          /\ asleep' = asleep \cup {t}
          /\ UNCHANGED <<readers, writersWaiting, writerActive, at>>

(* release_write().                                                            *)
ReleaseWrite(t) ==
    /\ at[t] = "writing"
    /\ writerActive' = FALSE
    /\ Goes(t, "out")
    /\ asleep' = {}
    /\ UNCHANGED <<readers, writersWaiting>>

LockNext == \E t \in Threads :
    \/ AcquireRead(t) \/ WokenReader(t) \/ ReleaseRead(t)
    \/ AcquireWrite(t) \/ WokenWriter(t) \/ ReleaseWrite(t)

LockSpec == LockInit /\ [][LockNext]_lockVars
-----------------------------------------------------------------------------
(* A thread that writes is alone: whoever iterates over the dictionary under   *)
(* the read lock never sees it change (memory_cache.py:51, "Writers have       *)
(* exclusive access").                                                         *)
Exclusion == \A w, t \in Threads :
    at[w] = "writing" /\ t # w => at[t] \notin {"reading", "writing"}

(* No reader gets in while a writer waits, however the wake-ups are ordered    *)
(* (memory_cache.py:52, "Writer preference to prevent starvation").            *)
WriterPreference == [][\A r \in Threads :
    at[r] # "reading" /\ at'[r] = "reading" => AllAt("writeWaits") = {}]_lockVars
=============================================================================
