------------------------- MODULE EngineSync_proofs -------------------------
(***************************************************************************)
(* Machine-checked proofs about EngineSync, for any sets of writers and of *)
(* threads that call shutdown().                                           *)
(***************************************************************************)
EXTENDS EngineSync, TLAPS

\* Who owns write_mutex_ is where the code says it is.
MutexInv ==
    /\ \A w \in Writers :
          writer[w] \in {"prepare", "wait", "append", "apply"} <=> writeMutex = w
    /\ worker = "reclaim" <=> writeMutex = Worker

InShutdown(s) == stopper[s] \notin {"idle", "ignored"}

\* shutting_down_ lets one call through; only its final flush gives up active.
ShutdownInv ==
    /\ \A s \in Stoppers : InShutdown(s) => shuttingDown
    /\ \A s, t \in Stoppers : InShutdown(s) /\ InShutdown(t) => s = t
    /\ active = "null" => shuttingDown
    /\ \A s \in Stoppers : stopper[s] \in {"close", "join", "returned"} =>
                              backgroundError \/ active # "filled"

\* The queue closes after the error is recorded or after the final push.
QueueInv ==
    /\ worker \in {"notifyError", "close"} => backgroundError
    /\ worker = "exited" => backgroundError \/ (queueClosed /\ queued = 0)
    /\ queueClosed =>
          \/ backgroundError
          \/ /\ shuttingDown
             /\ \A s \in Stoppers :
                   stopper[s] \in {"idle", "ignored", "join", "returned"}

\* Each reason to wake up has its own notifier.
WakeupInv ==
    /\ \A w \in Writers : writer[w] = "wait" =>
          /\ slot \/ worker = "notify"
          /\ backgroundError => worker = "notifyError"
          /\ shuttingDown => \E s \in Stoppers : stopper[s] = "notify"
    /\ \A s \in Stoppers : stopper[s] = "wait" =>
          /\ slot \/ worker = "notify"
          /\ backgroundError => worker = "notifyError"

\* A returned shutdown() has joined the worker.
JoinInv == \A s \in Stoppers : stopper[s] = "returned" => worker = "exited"

\* The inductive invariant.
IInv ==
    /\ TypeOK
    /\ MutexInv
    /\ ShutdownInv
    /\ NoWriterPastBarrier
    /\ SlotHasAKeeper
    /\ QueueInv
    /\ WakeupInv
    /\ JoinInv

-----------------------------------------------------------------------------
\* The engine opens in a state of the invariant.
LEMMA InitEstablishesIInv == Init => IInv
<1> SUFFICES ASSUME Init PROVE IInv
  OBVIOUS
<1>1. TypeOK
  BY DEF Init, TypeOK
<1>2. MutexInv
  BY ThreadAssumption DEF Init, MutexInv
<1>3. ShutdownInv /\ QueueInv /\ WakeupInv /\ JoinInv
  BY DEF Init, ShutdownInv, InShutdown, QueueInv, WakeupInv, JoinInv
<1>4. NoWriterPastBarrier /\ SlotHasAKeeper
  BY DEF Init, NoWriterPastBarrier, Writing, SlotHasAKeeper
<1> QED
  BY <1>1, <1>2, <1>3, <1>4 DEF IInv

\* Every step of a thread that calls put() or remove() preserves it.
LEMMA WriterPreservesIInv ==
  ASSUME IInv, NEW w \in Writers,
         \/ Call(w)
         \/ LockWriteMutex(w)
         \/ FailAppend(w)
         \/ Refuse(w)
         \/ AwaitSlot(w)
         \/ Rotate(w)
         \/ KeepMemtable(w)
         \/ AppendToWal(w)
         \/ Apply(w)
  PROVE  IInv'
<1> USE ThreadAssumption
    DEF IInv, TypeOK, MutexInv, ShutdownInv, InShutdown, NoWriterPastBarrier,
        Writing, PastBarrier, SlotHasAKeeper, Failing, QueueInv, WakeupInv, JoinInv,
        MayWrite, memory, flags
<1>1. CASE Call(w)
  BY <1>1 DEF Call
<1>2. CASE LockWriteMutex(w)
  BY <1>2 DEF LockWriteMutex
<1>3. CASE FailAppend(w)
  BY <1>3 DEF FailAppend, Leave
<1>4. CASE Refuse(w)
  BY <1>4 DEF Refuse, Leave
<1>5. CASE AwaitSlot(w)
  BY <1>5 DEF AwaitSlot
<1>6. CASE Rotate(w)
  BY <1>6 DEF Rotate
<1>7. CASE KeepMemtable(w)
  BY <1>7 DEF KeepMemtable
<1>8. CASE AppendToWal(w)
  BY <1>8 DEF AppendToWal
<1>9. CASE Apply(w)
  BY <1>9 DEF Apply, Leave
<1> QED
  BY <1>1, <1>2, <1>3, <1>4, <1>5, <1>6, <1>7, <1>8, <1>9

\* Every step of the background worker preserves it.
LEMMA WorkerPreservesIInv ==
  ASSUME IInv,
         \/ PopTask
         \/ LeaveLoop
         \/ Flush
         \/ ClearSlot
         \/ NotifyCleared
         \/ ReclaimWal
         \/ Compact
         \/ RecordError
         \/ NotifyError
         \/ CloseAfterError
         \/ LockForReclaim
         \/ FailMaintenance
  PROVE  IInv'
<1> USE ThreadAssumption
    DEF IInv, TypeOK, MutexInv, ShutdownInv, InShutdown, NoWriterPastBarrier,
        Writing, PastBarrier, SlotHasAKeeper, Failing, QueueInv, WakeupInv, JoinInv,
        MayWrite, memory, flags
<1>1. CASE PopTask
  BY <1>1 DEF PopTask
<1>2. CASE LeaveLoop
  BY <1>2 DEF LeaveLoop
<1>3. CASE Flush
  BY <1>3 DEF Flush
<1>4. CASE ClearSlot
  BY <1>4 DEF ClearSlot
<1>5. CASE NotifyCleared
  BY <1>5 DEF NotifyCleared, NotifyWriters, NotifyStoppers
<1>6. CASE ReclaimWal
  BY <1>6 DEF ReclaimWal
<1>7. CASE Compact
  BY <1>7 DEF Compact
<1>8. CASE RecordError
  BY <1>8 DEF RecordError
<1>9. CASE NotifyError
  BY <1>9 DEF NotifyError, NotifyWriters, NotifyStoppers
<1>10. CASE CloseAfterError
  BY <1>10 DEF CloseAfterError
<1>11. CASE LockForReclaim
  BY <1>11 DEF LockForReclaim
<1>12. CASE FailMaintenance
  BY <1>12 DEF FailMaintenance
<1> QED
  BY <1>1, <1>2, <1>3, <1>4, <1>5, <1>6, <1>7, <1>8, <1>9, <1>10, <1>11, <1>12

\* Every step of a thread that calls shutdown() preserves it.
LEMMA StopperPreservesIInv ==
  ASSUME IInv, NEW s \in Stoppers,
         \/ BeginShutdown(s)
         \/ RepeatShutdown(s)
         \/ PassBarrier(s)
         \/ NotifyShutdown(s)
         \/ AwaitFlush(s)
         \/ FinalFlush(s)
         \/ NothingToFlush(s)
         \/ CloseQueue(s)
         \/ JoinWorker(s)
  PROVE  IInv'
<1> USE ThreadAssumption
    DEF IInv, TypeOK, MutexInv, ShutdownInv, InShutdown, NoWriterPastBarrier,
        Writing, PastBarrier, SlotHasAKeeper, Failing, QueueInv, WakeupInv, JoinInv,
        MayWrite, memory, flags
<1>1. CASE BeginShutdown(s)
  BY <1>1 DEF BeginShutdown
<1>2. CASE RepeatShutdown(s)
  BY <1>2 DEF RepeatShutdown
<1>3. CASE PassBarrier(s)
  BY <1>3 DEF PassBarrier
<1>4. CASE NotifyShutdown(s)
  BY <1>4 DEF NotifyShutdown, NotifyWriters, NotifyStoppers
<1>5. CASE AwaitFlush(s)
  BY <1>5 DEF AwaitFlush
<1>6. CASE FinalFlush(s)
  BY <1>6 DEF FinalFlush
<1>7. CASE NothingToFlush(s)
  BY <1>7 DEF NothingToFlush
<1>8. CASE CloseQueue(s)
  BY <1>8 DEF CloseQueue
<1>9. CASE JoinWorker(s)
  BY <1>9 DEF JoinWorker
<1> QED
  BY <1>1, <1>2, <1>3, <1>4, <1>5, <1>6, <1>7, <1>8, <1>9

-----------------------------------------------------------------------------
\* IInv is an invariant: it is inductive.
THEOREM IInvIsInvariant == Spec => []IInv
<1>1. IInv /\ [Next]_vars => IInv'
  <2> SUFFICES ASSUME IInv, [Next]_vars PROVE IInv'
    OBVIOUS
  <2>1. ASSUME NEW w \in Writers,
               Call(w) \/ LockWriteMutex(w) \/ FailAppend(w) \/ WriterStep(w)
        PROVE  IInv'
    BY <2>1, WriterPreservesIInv DEF WriterStep
  <2>2. CASE WorkerStep \/ LockForReclaim \/ FailMaintenance
    BY <2>2, WorkerPreservesIInv DEF WorkerStep
  <2>3. ASSUME NEW s \in Stoppers,
               \/ BeginShutdown(s) \/ RepeatShutdown(s)
               \/ PassBarrier(s) \/ StopperStep(s)
        PROVE  IInv'
    BY <2>3, StopperPreservesIInv DEF StopperStep
  <2>4. CASE UNCHANGED vars
    BY <2>4 DEF vars, memory, flags, IInv, TypeOK, MutexInv, ShutdownInv,
                InShutdown, NoWriterPastBarrier, Writing, PastBarrier,
                SlotHasAKeeper, Failing, QueueInv, WakeupInv, JoinInv
  <2> QED
    BY <2>1, <2>2, <2>3, <2>4 DEF Next
<1> QED
  BY <1>1, InitEstablishesIInv, PTL DEF Spec

\* Every variable keeps its type; in particular at most one task is queued.
THEOREM TypeCorrect == Spec => []TypeOK
<1>1. IInv => TypeOK
  BY DEF IInv
<1> QED
  BY <1>1, IInvIsInvariant, PTL

\* The write barrier of shutdown() holds back every writer that checked
\* shutting_down_ before it was set.
THEOREM BarrierIsSafe == Spec => []NoWriterPastBarrier
<1>1. IInv => NoWriterPastBarrier
  BY DEF IInv
<1> QED
  BY <1>1, IInvIsInvariant, PTL

\* No immutable Memtable is ever left in the slot without somebody to flush it
\* or an error to report it.
THEOREM SlotIsKept == Spec => []SlotHasAKeeper
<1>1. IInv => SlotHasAKeeper
  BY DEF IInv
<1> QED
  BY <1>1, IInvIsInvariant, PTL

\* The flush queue never rejects a Memtable (the throws at engine.cpp:194 and
\* 940-943 are unreachable).
THEOREM PushAlwaysAccepted == Spec => []PushIsAccepted
<1>1. IInv => PushIsAccepted
  BY DEF IInv, QueueInv, PushIsAccepted, MayWrite
<1> QED
  BY <1>1, IInvIsInvariant, PTL

\* No thread sleeps on immutable_cleared_cv_ past its wake-up.
THEOREM WakeupsAreNotLost == Spec => []NoLostWakeup
<1>1. IInv => NoLostWakeup
  BY DEF IInv, WakeupInv, NoLostWakeup, NotifyPending, MayWrite
<1> QED
  BY <1>1, IInvIsInvariant, PTL

\* A shutdown() that returned has joined the worker and drained both Memtables.
THEOREM ShutdownIsComplete == Spec => []ShutdownDrains
<1>1. ASSUME IInv, NEW s \in Stoppers, stopper[s] = "returned", ~backgroundError
      PROVE  ~slot /\ queued = 0 /\ active # "filled"
  <2>1. worker = "exited" /\ queued = 0
    BY <1>1 DEF IInv, JoinInv, QueueInv
  <2>2. ~slot
    BY <1>1, <2>1 DEF IInv, SlotHasAKeeper, Failing
  <2>3. active # "filled"
    BY <1>1 DEF IInv, ShutdownInv
  <2> QED
    BY <2>1, <2>2, <2>3
<1>2. IInv => ShutdownDrains
  BY <1>1 DEF IInv, JoinInv, ShutdownDrains
<1> QED
  BY <1>2, IInvIsInvariant, PTL
=============================================================================
