--------------------------- MODULE AsyncWriteQueue ----------------------------
(* cache/async_write_queue.py: entries are put on a queue by any thread, moved *)
(* to a batch buffer by worker threads, and flushed from there to L2.  A step  *)
(* is what a thread does between two waits or two acquisitions of _batch_lock; *)
(* the queue and the state have locks of their own, held for one statement.    *)
(*                                                                             *)
(* L2 is cache/signature_database.py's bulk_set and set.  They turn every      *)
(* failure into a result, but the queue takes any object and retries when it   *)
(* raises.  Queue and buffer are sets: no property tells orders apart.         *)
EXTENDS Naturals, FiniteSets

CONSTANTS Tasks,
          Workers,        \* worker threads that can be alive at once: a bound
          WorkerThreads,  \* worker_threads, started by each start()
          Controller,     \* the thread that calls start() and stop()
          Caller,         \* a thread that calls force_flush()
          MaxQueueSize,   \* max_queue_size, 0 for none
          BatchSize,      \* batch_size
          MaxRetries,     \* max_retries
          L2Raises        \* whether writes to L2 may raise

Threads == Workers \cup {Controller, Caller}

(* Where the task of an entry is: nowhere yet; past enqueue's look at the      *)
(* state; in the queue; in the buffer; with a retry timer; refused; or done    *)
(* with.  A thread has the tasks it took from the queue or the buffer.         *)
Spots == {"new", "checked", "queue", "buffer", "timer", "refused", "gone"}

ASSUME QueueAssumption ==
    /\ IsFiniteSet(Tasks)
    /\ Threads \cap Spots = {}
    /\ Controller \notin Workers /\ Caller \notin Workers /\ Caller # Controller
    /\ WorkerThreads \in Nat \ {0}
    /\ MaxQueueSize \in Nat
    /\ BatchSize \in Nat \ {0}
    /\ MaxRetries \in Nat
    /\ L2Raises \in BOOLEAN

VARIABLES state,      \* _state
          shutdown,   \* _shutdown_event
          place,      \* where each task is
          retries,    \* retry_count of each task
          pc,         \* where each thread is
          processed,  \* total_processed
          failed,     \* total_failed
          attempts,   \* history: writes tried for each task
          inTime,     \* history: tasks queued while RUNNING
          forgotten,  \* history: tasks _retry_task gave up without counting
          clean       \* history: the last stop() left no worker alive

counts == <<processed, failed>>
queueVars == <<state, shutdown, place, retries, pc, counts, attempts, inTime,
               forgotten, clean>>

Points == {"idle", "loop", "get", "append", "check", "reflush", "flush",
           "write", "drain", "join"}

QueueTypeOK == /\ state \in {"STOPPED", "RUNNING", "STOPPING", "DRAINING"}
               /\ shutdown \in BOOLEAN
               /\ place \in [Tasks -> Spots \cup Threads]
               /\ retries \in [Tasks -> 0..MaxRetries]
               /\ pc \in [Threads -> Points]
               /\ processed \in Nat /\ failed \in Nat
               /\ attempts \in [Tasks -> Nat]
               /\ inTime \subseteq Tasks
               /\ forgotten \subseteq Tasks
               /\ clean \in BOOLEAN

QueueInit == /\ state = "STOPPED" /\ shutdown = FALSE
             /\ place = [t \in Tasks |-> "new"]
             /\ retries = [t \in Tasks |-> 0]
             /\ pc = [h \in Threads |-> "idle"]
             /\ processed = 0 /\ failed = 0
             /\ attempts = [t \in Tasks |-> 0]
             /\ inTime = {} /\ forgotten = {} /\ clean = FALSE

TasksAt(spot) == {t \in Tasks : place[t] = spot}
Move(tasks, spot) == place' = [t \in Tasks |-> IF t \in tasks THEN spot ELSE place[t]]

(* A thread at "reflush" is inside _flush_batch, called with _batch_lock held: *)
(* it waits for the lock it has, which is no RLock.  Nowhere else is the lock  *)
(* held across a step.                                                         *)
LockFree == \A h \in Threads : pc[h] # "reflush"
-----------------------------------------------------------------------------
(* enqueue(): looks at the state, then puts without waiting for room.          *)
Checks(t) ==
    /\ place[t] = "new"
    /\ Move({t}, IF state = "RUNNING" THEN "checked" ELSE "refused")
    /\ UNCHANGED <<state, shutdown, retries, pc, counts, attempts, inTime,
                   forgotten, clean>>

Full == MaxQueueSize > 0 /\ Cardinality(TasksAt("queue")) >= MaxQueueSize

Puts(t) ==
    /\ place[t] = "checked"
    /\ Move({t}, IF Full THEN "refused" ELSE "queue")
    /\ inTime' = IF state = "RUNNING" /\ ~Full THEN inTime \cup {t} ELSE inTime
    /\ UNCHANGED <<state, shutdown, retries, pc, counts, attempts, forgotten, clean>>

(* _worker_loop().                                                             *)
Goes(h, point) == pc' = [pc EXCEPT ![h] = point]

\* Mutant: the loop ends at the shutdown event, whatever is queued.
LoopsUntilShutdown(w) ==
    /\ pc[w] = "loop"
    /\ Goes(w, IF shutdown THEN "flush" ELSE "get")
    /\ UNCHANGED <<state, shutdown, place, retries, counts, attempts, inTime,
                   forgotten, clean>>

Loops(w) ==
    /\ pc[w] = "loop"
    /\ Goes(w, IF shutdown /\ TasksAt("queue") = {} THEN "flush" ELSE "get")
    /\ UNCHANGED <<state, shutdown, place, retries, counts, attempts, inTime,
                   forgotten, clean>>

Gets(w) ==
    /\ pc[w] = "get"
    /\ IF TasksAt("queue") = {}
         THEN Goes(w, "check") /\ UNCHANGED place
         ELSE Goes(w, "append") /\ \E t \in TasksAt("queue") : Move({t}, w)
    /\ UNCHANGED <<state, shutdown, retries, counts, attempts, inTime,
                   forgotten, clean>>

Appends(w) ==
    /\ pc[w] = "append"
    /\ LockFree
    /\ Move(TasksAt(w), "buffer")
    /\ Goes(w, IF Cardinality(TasksAt("buffer") \cup TasksAt(w)) >= BatchSize
               THEN "reflush" ELSE "loop")
    /\ UNCHANGED <<state, shutdown, retries, counts, attempts, inTime,
                   forgotten, clean>>

\* _check_batch_timeout(): due is whether batch_timeout_ms have passed.
ChecksTimeout(w) ==
    /\ pc[w] = "check"
    /\ LockFree
    /\ \E due \in BOOLEAN :
          Goes(w, IF due /\ TasksAt("buffer") # {} THEN "reflush" ELSE "loop")
    /\ UNCHANGED <<state, shutdown, place, retries, counts, attempts, inTime,
                   forgotten, clean>>
-----------------------------------------------------------------------------
(* _flush_batch(force=True), by a worker that ends, by stop() and by           *)
(* force_flush().  What would follow at "reflush" is not modelled: the lock is *)
(* never free there.                                                           *)
Returns(h) == Goes(h, IF h = Controller THEN "join" ELSE "idle")

TakesBatch(h) ==
    /\ pc[h] \in {"flush", "reflush"}
    /\ LockFree
    /\ IF TasksAt("buffer") = {}
         THEN Returns(h) /\ UNCHANGED place
         ELSE Goes(h, "write") /\ Move(TasksAt("buffer"), h)
    /\ UNCHANGED <<state, shutdown, retries, counts, attempts, inTime,
                   forgotten, clean>>

Counts(done, lost) == processed' = processed + done /\ failed' = failed + lost

Tried(tasks) == attempts' = [t \in Tasks |-> IF t \in tasks THEN attempts[t] + 1
                                             ELSE attempts[t]]

(* bulk_set() commits the batch, or rolls all of it back and still reports the *)
(* rows it had executed, the commit's failure included.                        *)
WritesBatch(h) ==
    LET batch == TasksAt(h) IN
    /\ pc[h] = "write"
    /\ Returns(h)
    /\ Move(batch, "gone")
    /\ Tried(batch)
    /\ \E done \in 0..Cardinality(batch) : Counts(done, Cardinality(batch) - done)
    /\ UNCHANGED <<state, shutdown, retries, inTime, forgotten, clean>>

(* Where the tasks of a write that raised go: to a timer, or to the failures.  *)
Retriable(tasks) == {t \in tasks : retries[t] < MaxRetries}

\* Mutant: a task out of retries is dropped without being counted.
RetryLaterUncounted(tasks) ==
    LET again == Retriable(tasks) IN
    /\ place' = [t \in Tasks |-> IF t \in again THEN "timer"
                                 ELSE IF t \in tasks THEN "gone" ELSE place[t]]
    /\ retries' = [t \in Tasks |-> IF t \in again THEN retries[t] + 1 ELSE retries[t]]
    /\ UNCHANGED counts

RetryLater(tasks) ==
    LET again == Retriable(tasks) IN
    /\ place' = [t \in Tasks |-> IF t \in again THEN "timer"
                                 ELSE IF t \in tasks THEN "gone" ELSE place[t]]
    /\ retries' = [t \in Tasks |-> IF t \in again THEN retries[t] + 1 ELSE retries[t]]
    /\ Counts(0, Cardinality(tasks \ again))

BatchRaises(h) ==
    /\ L2Raises
    /\ pc[h] = "write"
    /\ Returns(h)
    /\ RetryLater(TasksAt(h))
    /\ Tried(TasksAt(h))
    /\ UNCHANGED <<state, shutdown, inTime, forgotten, clean>>

(* _retry_task(), run by a timer: a queue that is not RUNNING forgets it.      *)
\* Mutant: the timer is set again, for when the queue runs again.
RetryRearmed(t) == place[t] = "timer" /\ state # "RUNNING" /\ UNCHANGED queueVars

RetryForgets(t) ==
    /\ place[t] = "timer" /\ state # "RUNNING"
    /\ Move({t}, "gone")
    /\ forgotten' = forgotten \cup {t}
    /\ UNCHANGED <<state, shutdown, retries, pc, counts, attempts, inTime, clean>>

RetryWrites(t) ==
    /\ place[t] = "timer" /\ state = "RUNNING"
    /\ Tried({t})
    /\ Move({t}, "gone")
    /\ Counts(1, 0) \/ Counts(0, 1)
    /\ UNCHANGED <<state, shutdown, retries, pc, inTime, forgotten, clean>>

RetryRaises(t) ==
    /\ L2Raises
    /\ place[t] = "timer" /\ state = "RUNNING"
    /\ Tried({t})
    /\ RetryLater({t})
    /\ UNCHANGED <<state, shutdown, pc, inTime, forgotten, clean>>
-----------------------------------------------------------------------------
(* start(); workers that an earlier stop() gave up on may still be alive.      *)
Start ==
    /\ pc[Controller] = "idle" /\ state # "RUNNING"
    /\ state' = "RUNNING" /\ shutdown' = FALSE
    /\ \E started \in SUBSET {w \in Workers : pc[w] = "idle"} :
          /\ Cardinality(started) = WorkerThreads
          /\ pc' = [h \in Threads |-> IF h \in started THEN "loop" ELSE pc[h]]
    /\ UNCHANGED <<place, retries, counts, attempts, inTime, forgotten, clean>>

(* stop(): the wait for the queue to drain and the joins all have timeouts.    *)
Stop(wait) ==
    /\ pc[Controller] = "idle" /\ state = "RUNNING"
    /\ state' = IF wait THEN "DRAINING" ELSE "STOPPING"
    /\ shutdown' = TRUE
    /\ Goes(Controller, IF wait THEN "drain" ELSE "join")
    /\ UNCHANGED <<place, retries, counts, attempts, inTime, forgotten, clean>>

Drained ==
    /\ pc[Controller] = "drain"
    /\ Goes(Controller, "flush")
    /\ UNCHANGED <<state, shutdown, place, retries, counts, attempts, inTime,
                   forgotten, clean>>

Joined ==
    /\ pc[Controller] = "join"
    /\ Goes(Controller, "idle")
    /\ state' = "STOPPED"
    /\ clean' = \A w \in Workers : pc[w] = "idle"
    /\ UNCHANGED <<shutdown, place, retries, counts, attempts, inTime, forgotten>>

ForceFlush ==
    /\ pc[Caller] = "idle"
    /\ Goes(Caller, "flush")
    /\ UNCHANGED <<state, shutdown, place, retries, counts, attempts, inTime,
                   forgotten, clean>>

Works(w) == Loops(w) \/ Gets(w) \/ Appends(w) \/ ChecksTimeout(w)
Flushes(h) == TakesBatch(h) \/ WritesBatch(h) \/ BatchRaises(h)
Retry(t) == RetryForgets(t) \/ RetryWrites(t) \/ RetryRaises(t)

QueueNext == \/ Start \/ Stop(TRUE) \/ Stop(FALSE) \/ Drained \/ Joined \/ ForceFlush
             \/ \E t \in Tasks : Checks(t) \/ Puts(t) \/ Retry(t)
             \/ \E w \in Workers : Works(w)
             \/ \E h \in Threads : Flushes(h)

QueueSpec == QueueInit /\ [][QueueNext]_queueVars

(* Threads run, waits have timeouts and timers fire.                           *)
FairSpec == /\ QueueSpec
            /\ WF_queueVars(Drained) /\ WF_queueVars(Joined)
            /\ \A t \in Tasks : WF_queueVars(Puts(t)) /\ WF_queueVars(Retry(t))
            /\ \A w \in Workers : WF_queueVars(Works(w))
            /\ \A h \in Threads : WF_queueVars(Flushes(h))
-----------------------------------------------------------------------------
(* A write is tried once, and retried at most max_retries times, whichever of  *)
(* the batch and the timers does it ("Maximum retry attempts for failed        *)
(* writes", line 118).                                                         *)
AttemptsBounded == \A t \in Tasks : attempts[t] <= MaxRetries + 1

(* The statistics account for every task that is done with: it is counted as   *)
(* processed or failed, exactly once, unless a retry found the queue stopping. *)
StatsAccount == processed + failed + Cardinality(forgotten) = Cardinality(TasksAt("gone"))

(* "Graceful shutdown with queue draining" (line 9): after a stop() that left  *)
(* no worker behind, nothing queued while it was RUNNING is still waiting to   *)
(* be written.                                                                 *)
DrainedOnStop ==
    state = "STOPPED" /\ clean
      => \A t \in inTime : place[t] \notin {"queue", "buffer"} \cup Workers

(* A write that failed is settled in the end, also while the queue stops,      *)
(* starts again or is stuck (_retry_task).                                     *)
RetriesEnd == \A t \in Tasks : place[t] = "timer" ~> place[t] = "gone"

=============================================================================
