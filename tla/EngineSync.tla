----------------------------- MODULE EngineSync -----------------------------
(***************************************************************************)
(* The threads of kronos::KronosEngine: any number of threads that call    *)
(* put() or remove(), the background worker, and the threads that call     *)
(* shutdown() (the destructor is one of them).  What is modelled is how    *)
(* they wait for one another: write_mutex_, the single immutable-Memtable  *)
(* slot with immutable_cleared_cv_, the flush queue, background_error_ and *)
(* the join.  Of the data only what decides a wait is kept.                *)
(*                                                                         *)
(* state_mutex_ and the queue's mutex are held for short sections that     *)
(* never block, so each section is one action; a notify_all() outside the  *)
(* section is an action of its own.                                        *)
(***************************************************************************)
EXTENDS Naturals

CONSTANTS
    Writers,    \* the threads that call put() and remove()
    Stoppers,   \* the threads that call shutdown()
    Worker,     \* background_worker_
    NoThread    \* write_mutex_ is free

ASSUME ThreadAssumption ==
    /\ Worker \notin Writers
    /\ NoThread \notin Writers \cup {Worker}

VARIABLES
    writeMutex,         \* the owner of write_mutex_
    active,             \* active_memtable_: "empty", "filled" or "null"
    slot,               \* immutable_memtable_ is set
    queued,             \* the number of tasks in flush_queue_
    queueClosed,        \* flush_queue_.shutting_down_
    shuttingDown,       \* shutting_down_
    backgroundError,    \* background_error_ is set
    writer,             \* where each writer is
    rotate,             \* the write of each writer needs a fresh Memtable
    worker,             \* where the worker is
    stopper             \* where each shutdown() is

flags == <<queueClosed, shuttingDown, backgroundError>>
memory == <<active, slot, queued>>
vars == <<writeMutex, memory, flags, writer, rotate, worker, stopper>>

\* cv.wait() re-evaluates its predicate after every wake-up: a notified writer
\* is back at "prepare", a notified shutdown() back at "check".
NotifyWriters == writer' = [w \in Writers |->
                              IF writer[w] = "wait" THEN "prepare" ELSE writer[w]]
NotifyStoppers(states) == stopper' = [s \in Stoppers |->
                              IF states[s] = "wait" THEN "check" ELSE states[s]]

-----------------------------------------------------------------------------
(* put() and remove() *)

Call(w) ==
    /\ writer[w] = "idle"
    /\ writer' = [writer EXCEPT ![w] = "lock"]
    /\ UNCHANGED <<writeMutex, memory, flags, rotate, worker, stopper>>

\* Whether the record fits the active Memtable is settled while the mutex is
\* held; an empty Memtable is never rotated.
LockWriteMutex(w) ==
    /\ writer[w] = "lock"
    /\ writeMutex = NoThread
    /\ writeMutex' = w
    /\ \E b \in BOOLEAN :
          /\ b => active = "filled"
          /\ rotate' = [rotate EXCEPT ![w] = b]
    /\ writer' = [writer EXCEPT ![w] = "prepare"]
    /\ UNCHANGED <<memory, flags, worker, stopper>>

MayWrite == ~shuttingDown /\ ~backgroundError

Leave(w) ==
    /\ writeMutex' = NoThread
    /\ writer' = [writer EXCEPT ![w] = "idle"]

\* prepareForWriteLocked() throws and the lock_guard releases the mutex.
Refuse(w) ==
    /\ writer[w] = "prepare"
    /\ ~MayWrite
    /\ Leave(w)
    /\ UNCHANGED <<memory, flags, rotate, worker, stopper>>

\* immutable_cleared_cv_.wait(): state_mutex_ is released, write_mutex_ is not.
AwaitSlot(w) ==
    /\ writer[w] = "prepare"
    /\ MayWrite
    /\ rotate[w]
    /\ slot
    /\ writer' = [writer EXCEPT ![w] = "wait"]
    /\ UNCHANGED <<writeMutex, memory, flags, rotate, worker, stopper>>

\* rotateActiveMemtableLocked()
Rotate(w) ==
    /\ writer[w] = "prepare"
    /\ MayWrite
    /\ rotate[w]
    /\ ~slot
    /\ ~queueClosed
    /\ slot' = TRUE
    /\ active' = "empty"
    /\ queued' = queued + 1
    /\ writer' = [writer EXCEPT ![w] = "append"]
    /\ UNCHANGED <<writeMutex, flags, rotate, worker, stopper>>

KeepMemtable(w) ==
    /\ writer[w] = "prepare"
    /\ MayWrite
    /\ ~rotate[w]
    /\ writer' = [writer EXCEPT ![w] = "append"]
    /\ UNCHANGED <<writeMutex, memory, flags, rotate, worker, stopper>>

\* wal_.put() or wal_.remove(), without any other mutex.
AppendToWal(w) ==
    /\ writer[w] = "append"
    /\ writer' = [writer EXCEPT ![w] = "apply"]
    /\ UNCHANGED <<writeMutex, memory, flags, rotate, worker, stopper>>

FailAppend(w) ==
    /\ writer[w] = "append"
    /\ Leave(w)
    /\ UNCHANGED <<memory, flags, rotate, worker, stopper>>

\* The record enters *active_memtable_.
Apply(w) ==
    /\ writer[w] = "apply"
    /\ active # "null"
    /\ active' = "filled"
    /\ Leave(w)
    /\ UNCHANGED <<slot, queued, flags, rotate, worker, stopper>>

-----------------------------------------------------------------------------
(* The background worker *)

\* Mutation: the popped task stays in the queue.
PeekTask ==
    /\ worker = "pop"
    /\ queued > 0
    /\ worker' = "flush"
    /\ UNCHANGED <<writeMutex, memory, flags, writer, rotate, stopper>>

PopTask ==
    /\ worker = "pop"
    /\ queued > 0
    /\ queued' = queued - 1
    /\ worker' = "flush"
    /\ UNCHANGED <<writeMutex, active, slot, flags, writer, rotate, stopper>>

\* wait_and_pop() returns nullopt: closed, and what was accepted is drained.
LeaveLoop ==
    /\ worker = "pop"
    /\ queued = 0
    /\ queueClosed
    /\ worker' = "exited"
    /\ UNCHANGED <<writeMutex, memory, flags, writer, rotate, stopper>>

\* The SSTable is built and the MANIFEST edit applied.
Flush ==
    /\ worker = "flush"
    /\ worker' = "clear"
    /\ UNCHANGED <<writeMutex, memory, flags, writer, rotate, stopper>>

ClearSlot ==
    /\ worker = "clear"
    /\ slot' = FALSE
    /\ worker' = "notify"
    /\ UNCHANGED <<writeMutex, active, queued, flags, writer, rotate, stopper>>

\* Mutation: nobody is notified.
ClearSilently ==
    /\ worker = "notify"
    /\ worker' = "lock"
    /\ UNCHANGED <<writeMutex, memory, flags, writer, rotate, stopper>>

NotifyCleared ==
    /\ worker = "notify"
    /\ NotifyWriters
    /\ NotifyStoppers(stopper)
    /\ worker' = "lock"
    /\ UNCHANGED <<writeMutex, memory, flags, rotate>>

LockForReclaim ==
    /\ worker = "lock"
    /\ writeMutex = NoThread
    /\ writeMutex' = Worker
    /\ worker' = "reclaim"
    /\ UNCHANGED <<memory, flags, writer, rotate, stopper>>

ReclaimWal ==
    /\ worker = "reclaim"
    /\ writeMutex' = NoThread
    /\ worker' = "compact"
    /\ UNCHANGED <<memory, flags, writer, rotate, stopper>>

\* maybeCompact(), whether or not it finds something to do.
Compact ==
    /\ worker = "compact"
    /\ worker' = "pop"
    /\ UNCHANGED <<writeMutex, memory, flags, writer, rotate, stopper>>

\* Mutation: the error is swallowed.
FailSilently ==
    /\ worker \in {"flush", "reclaim", "compact"}
    /\ writeMutex' = IF worker = "reclaim" THEN NoThread ELSE writeMutex
    /\ worker' = "close"
    /\ UNCHANGED <<memory, flags, writer, rotate, stopper>>

\* An exception unwinds to the worker's loop and releases write_mutex_.
FailMaintenance ==
    /\ worker \in {"flush", "reclaim", "compact"}
    /\ writeMutex' = IF worker = "reclaim" THEN NoThread ELSE writeMutex
    /\ worker' = "record"
    /\ UNCHANGED <<memory, flags, writer, rotate, stopper>>

RecordError ==
    /\ worker = "record"
    /\ backgroundError' = TRUE
    /\ worker' = "notifyError"
    /\ UNCHANGED <<writeMutex, memory, queueClosed, shuttingDown, writer, rotate,
                   stopper>>

\* Mutation: the backpressured writer is not notified of the error.
NotifyStoppersOnly ==
    /\ worker = "notifyError"
    /\ NotifyStoppers(stopper)
    /\ worker' = "close"
    /\ UNCHANGED <<writeMutex, memory, flags, writer, rotate>>

NotifyError ==
    /\ worker = "notifyError"
    /\ NotifyWriters
    /\ NotifyStoppers(stopper)
    /\ worker' = "close"
    /\ UNCHANGED <<writeMutex, memory, flags, rotate>>

CloseAfterError ==
    /\ worker = "close"
    /\ queueClosed' = TRUE
    /\ worker' = "exited"
    /\ UNCHANGED <<writeMutex, memory, shuttingDown, backgroundError, writer,
                   rotate, stopper>>

-----------------------------------------------------------------------------
(* shutdown() *)

\* Mutation: the queue is closed first.
BeginByClosingQueue(s) ==
    /\ stopper[s] = "idle"
    /\ ~shuttingDown
    /\ shuttingDown' = TRUE
    /\ queueClosed' = TRUE
    /\ stopper' = [stopper EXCEPT ![s] = "notify"]
    /\ UNCHANGED <<writeMutex, memory, backgroundError, writer, rotate, worker>>

BeginShutdown(s) ==
    /\ stopper[s] = "idle"
    /\ ~shuttingDown
    /\ shuttingDown' = TRUE
    /\ stopper' = [stopper EXCEPT ![s] = "notify"]
    /\ UNCHANGED <<writeMutex, memory, queueClosed, backgroundError, writer,
                   rotate, worker>>

\* A second call returns at once, whether or not the first has finished.
RepeatShutdown(s) ==
    /\ stopper[s] = "idle"
    /\ shuttingDown
    /\ stopper' = [stopper EXCEPT ![s] = "ignored"]
    /\ UNCHANGED <<writeMutex, memory, flags, writer, rotate, worker>>

\* Mutation: the backpressured writer is not notified of the shutdown.
SkipNotify(s) ==
    /\ stopper[s] = "notify"
    /\ stopper' = [stopper EXCEPT ![s] = "barrier"]
    /\ UNCHANGED <<writeMutex, memory, flags, writer, rotate, worker>>

NotifyShutdown(s) ==
    /\ stopper[s] = "notify"
    /\ NotifyWriters
    /\ NotifyStoppers([stopper EXCEPT ![s] = "barrier"])
    /\ UNCHANGED <<writeMutex, memory, flags, rotate, worker>>

\* Mutation: the barrier does not wait for the writer.
SkipBarrier(s) ==
    /\ stopper[s] = "barrier"
    /\ stopper' = [stopper EXCEPT ![s] = "check"]
    /\ UNCHANGED <<writeMutex, memory, flags, writer, rotate, worker>>

\* Acquires write_mutex_ and releases it at once.
PassBarrier(s) ==
    /\ stopper[s] = "barrier"
    /\ writeMutex = NoThread
    /\ stopper' = [stopper EXCEPT ![s] = "check"]
    /\ UNCHANGED <<writeMutex, memory, flags, writer, rotate, worker>>

AwaitFlush(s) ==
    /\ stopper[s] = "check"
    /\ slot
    /\ ~backgroundError
    /\ stopper' = [stopper EXCEPT ![s] = "wait"]
    /\ UNCHANGED <<writeMutex, memory, flags, writer, rotate, worker>>

\* The final Memtable takes the slot and must be accepted by the queue.
FinalFlush(s) ==
    /\ stopper[s] = "check"
    /\ ~slot
    /\ ~backgroundError
    /\ active = "filled"
    /\ ~queueClosed
    /\ slot' = TRUE
    /\ active' = "null"
    /\ queued' = queued + 1
    /\ stopper' = [stopper EXCEPT ![s] = "close"]
    /\ UNCHANGED <<writeMutex, flags, writer, rotate, worker>>

\* Mutation: the final Memtable is not looked at.
SkipFinalFlush(s) ==
    /\ stopper[s] = "check"
    /\ backgroundError \/ ~slot
    /\ stopper' = [stopper EXCEPT ![s] = "close"]
    /\ UNCHANGED <<writeMutex, memory, flags, writer, rotate, worker>>

NothingToFlush(s) ==
    /\ stopper[s] = "check"
    /\ \/ backgroundError
       \/ ~slot /\ active = "empty"
    /\ stopper' = [stopper EXCEPT ![s] = "close"]
    /\ UNCHANGED <<writeMutex, memory, flags, writer, rotate, worker>>

CloseQueue(s) ==
    /\ stopper[s] = "close"
    /\ queueClosed' = TRUE
    /\ stopper' = [stopper EXCEPT ![s] = "join"]
    /\ UNCHANGED <<writeMutex, memory, shuttingDown, backgroundError, writer,
                   rotate, worker>>

JoinWorker(s) ==
    /\ stopper[s] = "join"
    /\ worker = "exited"
    /\ stopper' = [stopper EXCEPT ![s] = "returned"]
    /\ UNCHANGED <<writeMutex, memory, flags, writer, rotate, worker>>

-----------------------------------------------------------------------------
\* The engine is open, the worker started; recovery may have left records.
Init ==
    /\ writeMutex = NoThread
    /\ active \in {"empty", "filled"}
    /\ slot = FALSE
    /\ queued = 0
    /\ queueClosed = FALSE
    /\ shuttingDown = FALSE
    /\ backgroundError = FALSE
    /\ writer = [w \in Writers |-> "idle"]
    /\ rotate = [w \in Writers |-> FALSE]
    /\ worker = "pop"
    /\ stopper = [s \in Stoppers |-> "idle"]

\* What a writer does once it holds write_mutex_ and is not asleep.
WriterStep(w) ==
    \/ Refuse(w)
    \/ AwaitSlot(w)
    \/ Rotate(w)
    \/ KeepMemtable(w)
    \/ AppendToWal(w)
    \/ Apply(w)

WorkerStep ==
    \/ PopTask
    \/ LeaveLoop
    \/ Flush
    \/ ClearSlot
    \/ NotifyCleared
    \/ ReclaimWal
    \/ Compact
    \/ RecordError
    \/ NotifyError
    \/ CloseAfterError

StopperStep(s) ==
    \/ NotifyShutdown(s)
    \/ AwaitFlush(s)
    \/ FinalFlush(s)
    \/ NothingToFlush(s)
    \/ CloseQueue(s)
    \/ JoinWorker(s)

Next ==
    \/ \E w \in Writers :
          Call(w) \/ LockWriteMutex(w) \/ FailAppend(w) \/ WriterStep(w)
    \/ WorkerStep
    \/ LockForReclaim
    \/ FailMaintenance
    \/ \E s \in Stoppers :
          \/ BeginShutdown(s)
          \/ RepeatShutdown(s)
          \/ PassBarrier(s)
          \/ StopperStep(s)

Spec == Init /\ [][Next]_vars

\* Every thread that can run is run, disk operations end, and a mutex that is
\* released over and over is not withheld from one waiting thread forever.
\* Nobody has to call put() or shutdown(), and nothing has to fail.
Fairness ==
    /\ \A w \in Writers : WF_vars(WriterStep(w)) /\ SF_vars(LockWriteMutex(w))
    /\ WF_vars(WorkerStep)
    /\ SF_vars(LockForReclaim)
    /\ \A s \in Stoppers : WF_vars(StopperStep(s)) /\ SF_vars(PassBarrier(s))

FairSpec == Spec /\ Fairness

-----------------------------------------------------------------------------
(* Properties *)

TypeOK ==
    /\ writeMutex \in Writers \cup {Worker, NoThread}
    /\ active \in {"empty", "filled", "null"}
    /\ slot \in BOOLEAN
    /\ queued \in {0, 1}
    /\ queueClosed \in BOOLEAN
    /\ shuttingDown \in BOOLEAN
    /\ backgroundError \in BOOLEAN
    /\ writer \in [Writers -> {"idle", "lock", "prepare", "wait", "append", "apply"}]
    /\ rotate \in [Writers -> BOOLEAN]
    /\ worker \in {"pop", "flush", "clear", "notify", "lock", "reclaim", "compact",
                   "record", "notifyError", "close", "exited"}
    /\ stopper \in [Stoppers -> {"idle", "ignored", "notify", "barrier", "check",
                                 "wait", "close", "join", "returned"}]

Writing(w) == writer[w] \in {"append", "apply"}
PastBarrier(s) == stopper[s] \in {"check", "wait", "close", "join", "returned"}
Failing == worker \in {"record", "notifyError", "close"}

\* The writer barrier of shutdown() works: once it is passed no writer is
\* between its check of shutting_down_ and its update of the Memtable, so none
\* finds active_memtable_ null (shutdown(), engine.cpp:892-904).
NoWriterPastBarrier ==
    \A w \in Writers :
        Writing(w) => active # "null" /\ \A s \in Stoppers : ~PastBarrier(s)

\* An occupied slot is queued, or being flushed, or its flush failed and the
\* error is recorded or about to be: nobody sleeps on an abandoned slot
\* (engine.cpp:187-191, 829-845).
SlotHasAKeeper ==
    /\ slot => \/ queued = 1
               \/ worker \in {"flush", "clear"}
               \/ Failing
               \/ backgroundError
    /\ queued = 1 \/ worker \in {"flush", "clear"} => slot
    /\ ~(queued = 1 /\ worker \in {"flush", "clear"})

\* The push of a rotation and of the final Memtable is never rejected: the queue
\* closes only after the flag that stops both is set (engine.cpp:187-195, 937-942).
PushIsAccepted ==
    queueClosed => /\ ~MayWrite
                   /\ backgroundError \/ \A s \in Stoppers : stopper[s] \notin {"check", "wait", "close"}

NotifyPending ==
    worker \in {"notify", "notifyError"} \/ \E s \in Stoppers : stopper[s] = "notify"

\* No wake-up is lost: a thread asleep on immutable_cleared_cv_ whose predicate
\* has become true will still be notified (engine.cpp:127-135, 589, 843, 868).
NoLostWakeup ==
    /\ \A w \in Writers :
          writer[w] = "wait" /\ (~slot \/ ~MayWrite) => NotifyPending
    /\ \A s \in Stoppers :
          stopper[s] = "wait" /\ (~slot \/ backgroundError) => NotifyPending

\* When the effective shutdown() has returned nothing is left behind: the worker
\* is gone, and without an error both Memtables and the queue have been drained
\* (engine.cpp:906-1002).
ShutdownDrains ==
    \A s \in Stoppers :
        stopper[s] = "returned" =>
            /\ worker = "exited"
            /\ ~backgroundError => ~slot /\ queued = 0 /\ active # "filled"

\* The comment at engine.cpp:594-595: when the worker is about to take
\* write_mutex_, "the immutable slot is already clear, so a thread holding
\* write_mutex_ is no longer waiting for this worker to make progress".
OwnerDoesNotAwaitWorker ==
    worker = "lock" =>
        \A w \in Writers : ~(writeMutex = w /\ writer[w] = "wait")

\* shutdown() returns, whatever writers do meanwhile and whether or not the
\* background maintenance fails.
ShutdownTerminates ==
    \A s \in Stoppers : stopper[s] = "notify" ~> stopper[s] = "returned"

\* After shutdown() begins or maintenance fails every call returns, the writer
\* that sleeps on the slot included.
WritersAreReleased ==
    \A w \in Writers :
        writer[w] # "idle" /\ ~MayWrite ~> writer[w] = "idle"
=============================================================================
