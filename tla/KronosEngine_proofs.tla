------------------------- MODULE KronosEngine_proofs -------------------------
(***************************************************************************)
(* Machine-checked proofs about KronosEngine, for any keys, readers,       *)
(* triggers, sequence bounds and crashes.                                  *)
(***************************************************************************)
EXTENDS KronosEngine, Compaction_proofs, SequenceTheorems

\* The fields of the two records, which is all their EXCEPTs need.
WorkerShape ==
    worker = [pc |-> worker.pc, task |-> worker.task, remove |-> worker.remove,
              add |-> worker.add]

WriterShape ==
    writer = [pc |-> writer.pc, key |-> writer.key,
              operation |-> writer.operation, sequence |-> writer.sequence,
              rotate |-> writer.rotate]

\* What is in the queue is what is in the slot, and once.
QueueInv ==
    flushQueue = <<>> \/ (immutable # {} /\ flushQueue = <<immutable>>)

\* The worker's task is the Memtable in the slot until the slot is cleared;
\* a compaction has none.
TaskInv ==
    /\ worker.pc \in {"build", "clear", "reclaim"} => worker.task # {}
    /\ worker.pc \in {"idle", "pick", "merge", "exited"} => worker.task = {}
    /\ worker.task # {} /\ worker.pc # "reclaim" =>
          immutable = worker.task /\ flushQueue = <<>>

\* A Memtable in the slot is queued, or in work, or its flush has failed.
KeeperInv ==
    immutable # {} /\ flushQueue = <<>> =>
        \/ backgroundError
        \/ /\ worker.task = immutable
           /\ worker.pc \in {"build", "commit", "publish", "clear"}

\* Between its decision to rotate and the rotation nobody empties the Memtable
\* of a writer; while the process is down there is neither slot nor worker.
RotateInv ==
    /\ writer.pc = "prepare" /\ writer.rotate => active # {} \/ ~MayWrite
    /\ engine = "down" => /\ writer = IdleWriter
                          /\ worker = IdleWorker
                          /\ immutable = {}
                          /\ flushQueue = <<>>

SlotInv ==
    /\ WorkerShape
    /\ WriterShape
    /\ QueueInv
    /\ TaskInv
    /\ KeeperInv
    /\ RotateInv

-----------------------------------------------------------------------------
\* What the queue operations do to the one task it ever holds.
LEMMA QueueOfOne ==
    ASSUME NEW x
    PROVE  /\ Append(<<>>, x) = <<x>>
           /\ Head(<<x>>) = x
           /\ Tail(<<x>>) = <<>>
           /\ <<x>> # <<>>
<1>1. Append(<<>>, x) = <<x>>
  OBVIOUS
<1>2. Head(<<x>>) = x
  OBVIOUS
<1>3. Tail(<<x>>) = <<>>
  OBVIOUS
<1>4. <<x>> # <<>>
  OBVIOUS
<1> QED
  BY <1>1, <1>2, <1>3, <1>4

LEMMA InitEstablishesSlotInv == Init => SlotInv
BY DEF Init, SlotInv, WorkerShape, WriterShape, QueueInv, TaskInv, KeeperInv,
   RotateInv, MayWrite, IdleWriter, IdleWorker

\* Steps that change none of the variables the invariant is about.
LEMMA FrameKeepsSlotInv ==
    ASSUME SlotInv,
           UNCHANGED <<active, immutable, flushQueue, backgroundError, writer,
                       worker, engine>>
    PROVE  SlotInv'
BY DEF SlotInv, WorkerShape, WriterShape, QueueInv, TaskInv, KeeperInv,
   RotateInv, MayWrite

LEMMA WriterPreservesSlotInv == SlotInv /\ WriterStep => SlotInv'
<1> SUFFICES ASSUME SlotInv, WriterStep PROVE SlotInv'
  OBVIOUS
<1>1. ASSUME NEW k \in Keys, NEW operation \in Operations,
             NEW rotate \in BOOLEAN, LockForWrite(k, operation, rotate)
      PROVE  SlotInv'
  BY <1>1 DEF LockForWrite, SlotInv, WorkerShape, WriterShape, QueueInv,
     TaskInv, KeeperInv, RotateInv, MayWrite, memory
<1>2. CASE RefuseWrite
  BY <1>2 DEF RefuseWrite, SlotInv, WorkerShape, WriterShape, QueueInv, TaskInv,
     KeeperInv, RotateInv, MayWrite, memory, IdleWriter, MemtablePut, WrittenRecord
<1>3. CASE PrepareInPlace
  BY <1>3 DEF PrepareInPlace, SlotInv, WorkerShape, WriterShape, QueueInv,
     TaskInv, KeeperInv, RotateInv, MayWrite, memory, IdleWriter, MemtablePut,
     WrittenRecord
<1>4. CASE PrepareRotating
  <2>1. /\ WriterShape'
        /\ writer'.pc = "append"
    BY <1>4 DEF PrepareRotating, SlotInv, WriterShape
  <2>2. immutable = {} /\ flushQueue = <<>> /\ active # {} /\ engine = "open"
    BY <1>4 DEF PrepareRotating, SlotInv, QueueInv, RotateInv, MayWrite
  <2>3. immutable' = active /\ flushQueue' = <<active>>
    BY <1>4, <2>2, QueueOfOne DEF PrepareRotating
  <2>4. UNCHANGED <<engine, backgroundError, worker>>
    BY <1>4 DEF PrepareRotating
  <2>5. worker.task = {} \/ worker.pc = "reclaim"
    BY <2>2 DEF SlotInv, TaskInv
  <2> QED
    BY <2>1, <2>2, <2>3, <2>4, <2>5, QueueOfOne DEF SlotInv, WorkerShape,
       WriterShape, QueueInv, TaskInv, KeeperInv, RotateInv, MayWrite
<1>5. CASE AppendToWal
  <2>1. /\ WriterShape'
        /\ writer'.pc = "fsync"
    BY <1>5 DEF AppendToWal, SlotInv, WriterShape
  <2>2. UNCHANGED <<engine, active, immutable, flushQueue, backgroundError, worker>>
    BY <1>5 DEF AppendToWal, memory, disk, readVars
  <2>3. engine # "down"
    BY <1>5 DEF AppendToWal, SlotInv, RotateInv, IdleWriter
  <2> QED
    BY <2>1, <2>2, <2>3 DEF SlotInv, WorkerShape, WriterShape, QueueInv, TaskInv,
       KeeperInv, RotateInv, MayWrite, IdleWriter
<1>6. CASE RefuseSequence
  BY <1>6 DEF RefuseSequence, SlotInv, WorkerShape, WriterShape, QueueInv,
     TaskInv, KeeperInv, RotateInv, MayWrite, memory, IdleWriter, MemtablePut,
     WrittenRecord
<1>7. CASE SyncWal
  BY <1>7 DEF SyncWal, SlotInv, WorkerShape, WriterShape, QueueInv, TaskInv,
     KeeperInv, RotateInv, MayWrite, memory, IdleWriter, MemtablePut, WrittenRecord
<1>8. CASE ApplyWrite
  BY <1>8 DEF ApplyWrite, SlotInv, WorkerShape, WriterShape, QueueInv, TaskInv,
     KeeperInv, RotateInv, MayWrite, memory, IdleWriter, MemtablePut, WrittenRecord
<1> QED
  BY <1>1, <1>2, <1>3, <1>4, <1>5, <1>6, <1>7, <1>8 DEF WriterStep

LEMMA WorkerPreservesSlotInv == SlotInv /\ WorkerStep => SlotInv'
<1> SUFFICES ASSUME SlotInv, WorkerStep PROVE SlotInv'
  OBVIOUS
<1>1. CASE PopTask
  <2>1. flushQueue = <<immutable>> /\ immutable # {}
    BY <1>1 DEF PopTask, SlotInv, QueueInv
  <2>2. flushQueue' = <<>> /\ Head(flushQueue) = immutable
    BY <1>1, <2>1, QueueOfOne DEF PopTask
  <2>3. worker' = [IdleWorker EXCEPT !.pc = "build", !.task = immutable]
    BY <1>1, <2>2 DEF PopTask
  <2>4. UNCHANGED <<engine, active, immutable, backgroundError, writer>>
    BY <1>1 DEF PopTask
  <2>5. engine # "down"
    BY <2>1 DEF SlotInv, RotateInv
  <2> QED
    BY <2>1, <2>2, <2>3, <2>4, <2>5 DEF SlotInv, WorkerShape, WriterShape,
       QueueInv, TaskInv, KeeperInv, RotateInv, MayWrite, IdleWorker
<1>2. CASE BuildSstable
  BY <1>2 DEF BuildSstable, SlotInv, WorkerShape, WriterShape, QueueInv,
     TaskInv, KeeperInv, RotateInv, MayWrite, memory, disk, IdleWorker,
     ExitedWorker
<1>3. CASE CommitManifest
  BY <1>3 DEF CommitManifest, SlotInv, WorkerShape, WriterShape, QueueInv,
     TaskInv, KeeperInv, RotateInv, MayWrite, memory, disk, IdleWorker,
     ExitedWorker
<1>4. CASE PublishManifest
  BY <1>4 DEF PublishManifest, SlotInv, WorkerShape, WriterShape, QueueInv,
     TaskInv, KeeperInv, RotateInv, MayWrite, memory, disk, IdleWorker,
     ExitedWorker
<1>5. CASE ClearSlot
  BY <1>5 DEF ClearSlot, SlotInv, WorkerShape, WriterShape, QueueInv, TaskInv,
     KeeperInv, RotateInv, MayWrite, memory, disk, IdleWorker, ExitedWorker
<1>6. CASE ReclaimWal
  <2>1. worker' = [IdleWorker EXCEPT !.pc = "pick"]
    BY <1>6, Zenon DEF ReclaimWal
  <2>2. UNCHANGED <<engine, active, immutable, flushQueue, backgroundError, writer>>
    BY <1>6 DEF ReclaimWal, memory, disk, readVars
  <2>3. engine # "down" /\ worker.pc = "reclaim"
    BY <1>6 DEF ReclaimWal, SlotInv, RotateInv, IdleWorker
  <2> QED
    BY <2>1, <2>2, <2>3 DEF SlotInv, WorkerShape, WriterShape, QueueInv, TaskInv,
       KeeperInv, RotateInv, MayWrite, IdleWorker, ExitedWorker
<1>7. CASE SkipCompaction
  BY <1>7 DEF SkipCompaction, SlotInv, WorkerShape, WriterShape, QueueInv,
     TaskInv, KeeperInv, RotateInv, MayWrite, memory, disk, IdleWorker,
     ExitedWorker
<1>8. CASE PlanCompaction
  <2>1. /\ WorkerShape'
        /\ worker'.pc = "merge"
        /\ worker'.task = worker.task
        /\ worker.pc = "pick"
    BY <1>8 DEF PlanCompaction, SlotInv, WorkerShape
  <2>2. UNCHANGED <<engine, active, immutable, flushQueue, backgroundError, writer>>
    BY <1>8 DEF PlanCompaction, memory, disk, readVars
  <2>3. engine # "down"
    BY <1>8 DEF PlanCompaction, SlotInv, RotateInv, IdleWorker
  <2> QED
    BY <2>1, <2>2, <2>3 DEF SlotInv, WorkerShape, WriterShape, QueueInv, TaskInv,
       KeeperInv, RotateInv, MayWrite, IdleWorker, ExitedWorker
<1>9. CASE MergeSstables
  <2>1. /\ WorkerShape'
        /\ worker'.pc = "commit"
        /\ worker'.task = worker.task
        /\ worker.pc = "merge"
    BY <1>9 DEF MergeSstables, SlotInv, WorkerShape
  <2>2. UNCHANGED <<engine, active, immutable, flushQueue, backgroundError, writer>>
    BY <1>9 DEF MergeSstables, memory, disk, readVars
  <2>3. engine # "down"
    BY <1>9 DEF MergeSstables, SlotInv, RotateInv, IdleWorker
  <2> QED
    BY <2>1, <2>2, <2>3 DEF SlotInv, WorkerShape, WriterShape, QueueInv, TaskInv,
       KeeperInv, RotateInv, MayWrite, IdleWorker, ExitedWorker
<1>10. CASE FailWorker
  <2>1. /\ worker' = ExitedWorker
        /\ backgroundError' = TRUE
    BY <1>10 DEF FailWorker, SlotInv, WorkerShape
  <2>2. UNCHANGED <<engine, active, immutable, flushQueue, writer>>
    BY <1>10 DEF FailWorker, memory, disk, readVars
  <2>3. engine # "down"
    BY <1>10 DEF FailWorker, SlotInv, RotateInv, IdleWorker
  <2> QED
    BY <2>1, <2>2, <2>3 DEF SlotInv, WorkerShape, WriterShape, QueueInv, TaskInv,
       KeeperInv, RotateInv, MayWrite, IdleWorker, ExitedWorker
<1>11. CASE ExitWorker
  BY <1>11 DEF ExitWorker, SlotInv, WorkerShape, WriterShape, QueueInv, TaskInv,
     KeeperInv, RotateInv, MayWrite, memory, disk, IdleWorker, ExitedWorker
<1> QED
  BY <1>1, <1>2, <1>3, <1>4, <1>5, <1>6, <1>7, <1>8, <1>9, <1>10, <1>11 DEF
     WorkerStep

LEMMA LifecyclePreservesSlotInv == SlotInv /\ LifecycleStep => SlotInv'
<1> SUFFICES ASSUME SlotInv, LifecycleStep PROVE SlotInv'
  OBVIOUS
<1>1. ASSUME NEW kind \in CrashKinds, Crash(kind) PROVE SlotInv'
  BY <1>1 DEF Crash, SlotInv, WorkerShape, WriterShape, QueueInv, TaskInv,
     KeeperInv, RotateInv, MayWrite, IdleWriter, IdleWorker
<1>2. CASE BeginShutdown
  BY <1>2 DEF BeginShutdown, SlotInv, WorkerShape, WriterShape, QueueInv,
     TaskInv, KeeperInv, RotateInv, MayWrite, memory, IdleWriter, IdleWorker
<1>3. CASE FinalFlush
  <2>1. /\ UNCHANGED <<backgroundError, writer, worker>>
        /\ engine' = "draining"
    BY <1>3 DEF FinalFlush
  <2>2. CASE UNCHANGED memory
    BY <1>3, <2>1, <2>2 DEF FinalFlush, memory, SlotInv, WorkerShape,
       WriterShape, QueueInv, TaskInv, KeeperInv, RotateInv, MayWrite
  <2>3. CASE ~backgroundError /\ active # {}
    <3>1. immutable = {} /\ flushQueue = <<>>
      BY <1>3, <2>3 DEF FinalFlush, SlotInv, QueueInv
    <3>2. immutable' = active /\ flushQueue' = <<active>>
      BY <1>3, <2>3, <3>1, QueueOfOne DEF FinalFlush
    <3>3. worker.task = {} \/ worker.pc = "reclaim"
      BY <3>1, <2>3 DEF SlotInv, TaskInv
    <3> QED
      BY <2>1, <2>3, <3>1, <3>2, <3>3, QueueOfOne DEF SlotInv, WorkerShape,
         WriterShape, QueueInv, TaskInv, KeeperInv, RotateInv, MayWrite
  <2> QED
    BY <1>3, <2>2, <2>3 DEF FinalFlush
<1>4. CASE JoinWorker
  BY <1>4 DEF JoinWorker, SlotInv, WorkerShape, WriterShape, QueueInv, TaskInv,
     KeeperInv, RotateInv, MayWrite, memory, IdleWriter, IdleWorker
<1>5. CASE Open
  BY <1>5 DEF Open, SlotInv, WorkerShape, WriterShape, QueueInv, TaskInv,
     KeeperInv, RotateInv, MayWrite, memory, IdleWriter, IdleWorker
<1> QED
  BY <1>1, <1>2, <1>3, <1>4, <1>5 DEF LifecycleStep

LEMMA ReaderPreservesSlotInv ==
    ASSUME SlotInv, NEW r \in Readers, ReaderStep(r)
    PROVE  SlotInv'
<1>1. ASSUME NEW k \in Keys, CallGet(r, k) PROVE SlotInv'
  BY <1>1, FrameKeepsSlotInv DEF CallGet, memory
<1>2. CASE ReadMemory(r)
  BY <1>2, FrameKeepsSlotInv DEF ReadMemory, memory
<1>3. CASE ReadManifest(r)
  BY <1>3, FrameKeepsSlotInv DEF ReadManifest, memory
<1>4. CASE ReadFiles(r)
  BY <1>4, FrameKeepsSlotInv DEF ReadFiles, memory
<1> QED
  BY <1>1, <1>2, <1>3, <1>4 DEF ReaderStep

\* The slot discipline is inductive: rotation, final flush, crash and recovery
\* fill or clear it only when the worker is not at it.
THEOREM SlotInvIsInvariant == Spec => []SlotInv
<1>1. SlotInv /\ [Next]_vars => SlotInv'
  <2> SUFFICES ASSUME SlotInv, [Next]_vars PROVE SlotInv'
    OBVIOUS
  <2>1. CASE Next
    BY <2>1, WriterPreservesSlotInv, WorkerPreservesSlotInv,
       ReaderPreservesSlotInv, LifecyclePreservesSlotInv DEF Next
  <2>2. CASE UNCHANGED vars
    BY <2>2, FrameKeepsSlotInv DEF vars, memory
  <2> QED
    BY <2>1, <2>2
<1> QED
  BY <1>1, InitEstablishesSlotInv, PTL DEF Spec

\* A frozen Memtable is never left in the slot without a queue entry, a worker
\* at it or a recorded error, and the worker finds in the slot what it flushed
\* (the logic_error of flushMemtable(), engine.cpp:569-571, is unreachable).
THEOREM SlotAlwaysScheduled == Spec => []SlotIsScheduled
<1>1. SlotInv => SlotIsScheduled
  BY DEF SlotInv, QueueInv, TaskInv, KeeperInv, SlotIsScheduled
<1> QED
  BY <1>1, SlotInvIsInvariant, PTL
-----------------------------------------------------------------------------
(* Tables, stores of files and what names them *)

\* A record with a number that Wal may assign.
Logged == [key : Keys, sequence : 0 .. MaxSequence - 1, operation : Operations]

IsMemtable(T) ==
    /\ T \subseteq Logged
    /\ IsFiniteSet(T)
    /\ IsTable(T)

\* The files of db_path_ and their records: no file is empty.
IsStore(store) ==
    /\ store = [p \in DOMAIN store |-> store[p]]
    /\ DOMAIN store \subseteq Path
    /\ IsFiniteSet(DOMAIN store)
    /\ \A p \in DOMAIN store : IsMemtable(store[p]) /\ store[p] # {}

\* Each of these files exists, with the key range its metadata says.
IsNamed(files, store) ==
    /\ IsFiniteSet(files)
    /\ \A f \in files : /\ f.path \in DOMAIN store
                        /\ f = MetadataFor(f.path, store[f.path])

RecordsIn(files, store) == UNION {store[f.path] : f \in files}

\* The second store has every file of the first one, unchanged.
Extends(s, t) ==
    \A p \in DOMAIN s : p \in DOMAIN t /\ t[p] = s[p]

LEMMA LoggedRecords == Logged \subseteq Record
BY SequenceAssumption DEF Logged, Record

LEMMA EmptyMemtable == IsMemtable({})
BY FS_EmptySet DEF IsMemtable, IsTable

LEMMA HighestOf ==
    ASSUME NEW T, T \subseteq Logged, IsFiniteSet(T), T # {}
    PROVE  /\ HighestSequence(T) \in 0 .. MaxSequence - 1
           /\ \E r \in T : r.sequence = HighestSequence(T)
           /\ \A r \in T : r.sequence <= HighestSequence(T)
<1>1. T \subseteq Record
  BY LoggedRecords
<1>2. Newest(T) \in T /\ \A s \in T : s.sequence <= Newest(T).sequence
  BY <1>1, NewestExists
<1> QED
  BY <1>2 DEF HighestSequence, Logged

LEMMA ValueTyped ==
    ASSUME NEW T, T \subseteq Logged, IsFiniteSet(T), NEW k
    PROVE  ValueIn(T, k) \in Value
<1> DEFINE V == Versions(T, k)
<1>1. V \in SUBSET T
  BY DEF Versions
<1>2. V \subseteq Record /\ IsFiniteSet(V)
  BY <1>1, FS_Subset, LoggedRecords
<1>3. CASE V = {}
  BY <1>3 DEF ValueIn, ValueOf, Value
<1>4. CASE V # {}
  <2>1. Newest(V) \in Logged
    BY <1>1, <1>2, <1>4, NewestExists
  <2>2. Newest(V).sequence \in 0 .. MaxSequence - 1
    BY <2>1 DEF Logged
  <2> QED
    BY <2>2 DEF ValueIn, ValueOf, Value
<1> QED
  BY <1>3, <1>4

LEMMA NamedFiles ==
    ASSUME NEW store, IsStore(store), NEW files, IsNamed(files, store)
    PROVE  /\ files \subseteq Metadata
           /\ RangesAreOrdered(files)
           /\ \A f \in files : \A r \in store[f.path] : InRange(r.key, f)
           /\ \A f \in files : /\ f.smallest_key \in KeysOf(store[f.path])
                               /\ f.largest_key \in KeysOf(store[f.path])
<1> SUFFICES ASSUME NEW f \in files
             PROVE  /\ f \in Metadata
                    /\ f.smallest_key <= f.largest_key
                    /\ \A r \in store[f.path] : InRange(r.key, f)
                    /\ f.smallest_key \in KeysOf(store[f.path])
                    /\ f.largest_key \in KeysOf(store[f.path])
  BY DEF RangesAreOrdered
<1> DEFINE T == store[f.path]
<1>1. /\ f.path \in Path
      /\ f = MetadataFor(f.path, T)
      /\ IsMemtable(T) /\ T # {}
  BY DEF IsNamed, IsStore
<1>2. T \subseteq Record /\ IsFiniteSet(T)
  BY <1>1, LoggedRecords DEF IsMemtable
<1> HIDE DEF T
<1>3. /\ f \in Metadata
      /\ \A r \in T : InRange(r.key, f)
      /\ f.smallest_key \in KeysOf(T)
      /\ f.largest_key \in KeysOf(T)
  BY <1>1, <1>2, MetadataRange
<1>4. PICK r \in T : TRUE
  BY <1>1
<1>5. InRange(r.key, f) /\ r.key \in Int
  BY <1>2, <1>3, KeysAssumption DEF Record
<1>6. f.smallest_key \in Int /\ f.largest_key \in Int
  BY <1>3, KeysAssumption DEF Metadata
<1>7. f.smallest_key <= f.largest_key
  BY <1>5, <1>6 DEF InRange
<1> QED
  BY <1>3, <1>7 DEF T

LEMMA NamedRecords ==
    ASSUME NEW store, IsStore(store), NEW files, IsNamed(files, store)
    PROVE  /\ RecordsIn(files, store) \subseteq Logged
           /\ IsFiniteSet(RecordsIn(files, store))
<1> DEFINE g == [f \in files |-> store[f.path]]
           Q == {g[f] : f \in files}
<1>1. \A f \in files : IsMemtable(store[f.path])
  BY DEF IsNamed, IsStore
<1>2. IsFiniteSet(Q)
  <2>1. IsFiniteSet(files)
    BY DEF IsNamed
  <2> QED
    BY <2>1, FiniteImage
<1>3. \A T \in Q : T \subseteq Logged /\ IsFiniteSet(T)
  BY <1>1 DEF IsMemtable
<1>4. RecordsIn(files, store) = UNION Q
  BY DEF RecordsIn
<1>5. IsFiniteSet(UNION Q)
  BY <1>2, <1>3, FS_UNION
<1> QED
  BY <1>3, <1>4, <1>5

LEMMA NamedSubset ==
    ASSUME NEW store, NEW files, IsNamed(files, store), NEW U \in SUBSET files
    PROVE  IsNamed(U, store)
BY FS_Subset DEF IsNamed

LEMMA NamedUnion ==
    ASSUME NEW store, NEW A, NEW B, IsNamed(A, store), IsNamed(B, store)
    PROVE  /\ IsNamed(A \cup B, store)
           /\ RecordsIn(A \cup B, store) = RecordsIn(A, store) \cup RecordsIn(B, store)
BY FS_Union DEF IsNamed, RecordsIn

LEMMA NamedNothing ==
    ASSUME NEW store
    PROVE  IsNamed({}, store) /\ RecordsIn({}, store) = {}
BY FS_EmptySet DEF IsNamed, RecordsIn

LEMMA NamedStays ==
    ASSUME NEW s, NEW t, Extends(s, t), NEW files, IsNamed(files, s)
    PROVE  IsNamed(files, t) /\ RecordsIn(files, t) = RecordsIn(files, s)
<1>1. \A f \in files : f.path \in DOMAIN t /\ t[f.path] = s[f.path]
  BY DEF IsNamed, Extends
<1> QED
  BY <1>1 DEF IsNamed, RecordsIn

\* A new file of a store.
LEMMA NewFile ==
    ASSUME NEW s, IsStore(s), NEW p \in Path, p \notin DOMAIN s,
           NEW T, IsMemtable(T), T # {},
           NEW t, t = [q \in DOMAIN s \cup {p} |-> IF q = p THEN T ELSE s[q]]
    PROVE  /\ IsStore(t)
           /\ Extends(s, t)
           /\ IsNamed({MetadataFor(p, T)}, t)
           /\ RecordsIn({MetadataFor(p, T)}, t) = T
           /\ MetadataFor(p, T).path = p
<1>1. DOMAIN t = DOMAIN s \cup {p} /\ t[p] = T
  OBVIOUS
<1>2. \A q \in DOMAIN s : t[q] = s[q]
  OBVIOUS
<1>3. IsStore(t)
  <2>1. IsFiniteSet(DOMAIN t)
    BY <1>1, FS_AddElement DEF IsStore
  <2>2. t = [q \in DOMAIN t |-> t[q]]
    BY <1>1, <1>2
  <2>3. \A q \in DOMAIN t : q \in Path /\ IsMemtable(t[q]) /\ t[q] # {}
    BY <1>1, <1>2 DEF IsStore
  <2> QED
    BY <2>1, <2>2, <2>3 DEF IsStore
<1>4. Extends(s, t)
  BY <1>1, <1>2 DEF Extends
<1>5. MetadataFor(p, T).path = p
  BY DEF MetadataFor
<1>6. IsNamed({MetadataFor(p, T)}, t)
  BY <1>1, <1>5, FS_Singleton DEF IsNamed
<1>7. RecordsIn({MetadataFor(p, T)}, t) = T
  BY <1>1, <1>5 DEF RecordsIn
<1> QED
  BY <1>3, <1>4, <1>5, <1>6, <1>7
-----------------------------------------------------------------------------
(* What every variable holds *)

ControlTypes ==
    /\ engine \in {"open", "closing", "draining", "stopped", "down"}
    /\ backgroundError \in BOOLEAN
    /\ crashes \in 0 .. MaxCrashes

\* A call that has passed its first line has a key, and a record a number.
WriterTypes ==
    /\ writer.pc \in {"idle", "prepare", "append", "fsync", "apply"}
    /\ writer.key \in Keys \cup {Absent}
    /\ writer.operation \in Operations
    /\ writer.sequence \in Value
    /\ writer.rotate \in BOOLEAN
    /\ writer.pc # "idle" => writer.key \in Keys
    /\ writer.pc \in {"fsync", "apply"} => writer.sequence \in 0 .. MaxSequence - 1

MemoryTypes == IsMemtable(active) /\ IsMemtable(immutable)

LogTypes ==
    /\ nextSequence \in 0 .. MaxSequence
    /\ wal \in Seq(Logged)
    /\ walSynced \in 0 .. Len(wal)

StoreTypes == IsStore(sstables) /\ nextSstableId \in Nat \ {0}

IsManifest(m, store) ==
    /\ m = [files |-> m.files, checkpoint |-> m.checkpoint]
    /\ m.checkpoint \in Value
    /\ IsNamed(m.files, store)

\* No MANIFEST, not even one that a power loss may bring back, names a file
\* that is missing.
ManifestTypes ==
    /\ IsManifest(manifest, sstables)
    /\ IsManifest(manifestDisk, sstables)
    /\ \A m \in manifestPossible : IsManifest(m, sstables)

WorkerTypes ==
    /\ worker.pc \in {"idle", "build", "commit", "publish", "clear", "reclaim",
                      "pick", "merge", "exited"}
    /\ IsMemtable(worker.task)
    /\ IsNamed(worker.remove, sstables)
    /\ IsNamed(worker.add, sstables)

ReaderTypes ==
    /\ reader \in [Readers -> [pc : {"idle", "memory", "manifest", "files",
                                     "returned"},
                               key : Keys \cup {Absent}, live : SUBSET Metadata,
                               result : Value]]
    /\ \A r \in Readers : IsNamed(reader[r].live, sstables)
    /\ candidates \in [Readers -> SUBSET Value]

TypeInv ==
    /\ ControlTypes
    /\ WriterTypes
    /\ MemoryTypes
    /\ LogTypes
    /\ StoreTypes
    /\ ManifestTypes
    /\ WorkerTypes
    /\ ReaderTypes

\* What does not change keeps its type.
LEMMA TypeFrame ==
    ASSUME TypeInv
    PROVE  /\ UNCHANGED <<engine, backgroundError, crashes>> => ControlTypes'
           /\ UNCHANGED writer => WriterTypes'
           /\ UNCHANGED <<active, immutable>> => MemoryTypes'
           /\ UNCHANGED <<nextSequence, wal, walSynced>> => LogTypes'
           /\ UNCHANGED <<sstables, nextSstableId>> => StoreTypes'
           /\ UNCHANGED <<manifest, manifestDisk, manifestPossible, sstables>>
                 => ManifestTypes'
           /\ UNCHANGED <<worker, sstables>> => WorkerTypes'
           /\ UNCHANGED <<reader, candidates, sstables>> => ReaderTypes'
<1>1. UNCHANGED <<engine, backgroundError, crashes>> => ControlTypes'
  BY DEF TypeInv, ControlTypes
<1>2. UNCHANGED writer => WriterTypes'
  BY DEF TypeInv, WriterTypes
<1>3. UNCHANGED <<active, immutable>> => MemoryTypes'
  BY DEF TypeInv, MemoryTypes
<1>4. UNCHANGED <<nextSequence, wal, walSynced>> => LogTypes'
  BY DEF TypeInv, LogTypes
<1>5. UNCHANGED <<sstables, nextSstableId>> => StoreTypes'
  BY DEF TypeInv, StoreTypes
<1>6. UNCHANGED <<manifest, manifestDisk, manifestPossible, sstables>>
         => ManifestTypes'
  BY DEF TypeInv, ManifestTypes
<1>7. UNCHANGED <<worker, sstables>> => WorkerTypes'
  BY DEF TypeInv, WorkerTypes
<1>8. UNCHANGED <<reader, candidates, sstables>> => ReaderTypes'
  BY DEF TypeInv, ReaderTypes
<1> QED
  BY <1>1, <1>2, <1>3, <1>4, <1>5, <1>6, <1>7, <1>8

\* A file that is added disturbs no name.
LEMMA TypesOfMoreFiles ==
    ASSUME TypeInv, Extends(sstables, sstables')
    PROVE  /\ UNCHANGED manifest => IsManifest(manifest', sstables')
           /\ \A m \in {manifestDisk} \cup manifestPossible : IsManifest(m, sstables')
           /\ IsNamed(worker.remove, sstables')
           /\ UNCHANGED <<reader, candidates>> => ReaderTypes'
<1>1. ASSUME NEW m, IsManifest(m, sstables) PROVE IsManifest(m, sstables')
  BY <1>1, NamedStays DEF IsManifest
<1>2. IsNamed(worker.remove, sstables')
  BY NamedStays DEF TypeInv, WorkerTypes
<1>3. ASSUME UNCHANGED <<reader, candidates>> PROVE ReaderTypes'
  <2>1. \A r \in Readers : IsNamed(reader[r].live, sstables')
    BY NamedStays DEF TypeInv, ReaderTypes
  <2> QED
    BY <1>3, <2>1 DEF TypeInv, ReaderTypes
<1> QED
  BY <1>1, <1>2, <1>3 DEF TypeInv, ManifestTypes

LEMMA RecordsOfIsIn ==
    ASSUME NEW files
    PROVE  RecordsOf(files) = RecordsIn(files, sstables)
BY DEF RecordsOf, RecordsIn

LEMMA EmptyManifestTyped ==
    ASSUME NEW store
    PROVE  IsManifest(EmptyManifest, store)
BY NamedNothing DEF EmptyManifest, IsManifest, Value, NoCheckpoint, Absent

\* The records that a reader can find are numbered and finitely many.
LEMMA VisibleTyped ==
    ASSUME TypeInv
    PROVE  VisibleRecords \subseteq Logged /\ IsFiniteSet(VisibleRecords)
<1> DEFINE F == RecordsIn(manifest.files, sstables)
<1>1. F \subseteq Logged /\ IsFiniteSet(F)
  BY NamedRecords DEF TypeInv, StoreTypes, ManifestTypes, IsManifest
<1>2. IsFiniteSet(active \cup immutable) /\ active \cup immutable \subseteq Logged
  BY FS_Union DEF TypeInv, MemoryTypes, IsMemtable
<1> HIDE DEF F
<1>3. IsFiniteSet((active \cup immutable) \cup F)
  BY <1>1, <1>2, FS_Union
<1>4. VisibleRecords = (active \cup immutable) \cup F
  BY DEF VisibleRecords, RecordsOf, RecordsIn, F
<1> QED
  BY <1>1, <1>2, <1>3, <1>4

\* allocateSstablePath() always finds a name, and one that is free.
LEMMA AllocatedPathIsFree ==
    ASSUME TypeInv, NEW level \in Levels
    PROVE  /\ AllocatedPath(level) \in Path
           /\ AllocatedPath(level) \notin DOMAIN sstables
           /\ AllocatedPath(level)[1] = level
           /\ AllocatedPath(level)[2] + 1 \in Nat \ {0}
<1> DEFINE n == nextSstableId
           S == DOMAIN sstables
<1>1. n \in Nat /\ n # 0 /\ IsFiniteSet(S)
  BY DEF TypeInv, StoreTypes, IsStore
<1>2. \E id \in n .. n + Cardinality(S) :
          /\ <<level, id>> \notin S
          /\ \A j \in n .. id - 1 : <<level, j>> \in S
  BY <1>1, FreeNumber
<1>3. /\ AllocatedId(level) \in n .. n + Cardinality(S)
      /\ <<level, AllocatedId(level)>> \notin S
  BY <1>2 DEF AllocatedId
<1>4. Cardinality(S) \in Nat
  BY <1>1, FS_CardinalityType
<1>5. AllocatedId(level) \in Nat \ {0}
  BY <1>1, <1>3, <1>4
<1> QED
  BY <1>3, <1>5 DEF AllocatedPath, Path

\* The records of a log that a checkpoint does not cover are a log again.
LEMMA BeyondTyped ==
    ASSUME NEW log \in Seq(Logged), NEW cp
    PROVE  Beyond(cp, log) \in Seq(Logged)
<1> DEFINE covered == {i \in DOMAIN log : log[i].sequence <= cp}
           c == Cardinality(covered)
<1>1. Len(log) \in Nat /\ DOMAIN log = 1 .. Len(log)
  BY LenProperties
<1>2. IsFiniteSet(1 .. Len(log)) /\ covered \in SUBSET (1 .. Len(log))
  BY <1>1, FS_Interval
<1>3. IsFiniteSet(covered)
  BY <1>2, FS_Subset
<1>4. c \in Nat
  BY <1>3, FS_CardinalityType
<1> HIDE DEF c
<1>5. \A i \in c + 1 .. Len(log) : log[i] \in Logged
  BY <1>1, <1>4, ElementOfSeq
<1>6. SubSeq(log, c + 1, Len(log)) \in Seq(Logged)
  BY <1>1, <1>4, <1>5, SubSeqProperties
<1> QED
  BY <1>6 DEF Beyond, c

LEMMA InitEstablishesTypeInv == Init => TypeInv
<1> SUFFICES ASSUME Init PROVE TypeInv
  OBVIOUS
<1>1. ControlTypes
  <2>1. 0 \in 0 .. MaxCrashes
    BY CrashAssumption
  <2> QED
    BY <2>1 DEF Init, ControlTypes
<1>2. WriterTypes
  BY DEF Init, WriterTypes, IdleWriter, Operations, Value
<1>3. MemoryTypes
  BY EmptyMemtable DEF Init, MemoryTypes
<1>4. LogTypes
  BY SequenceAssumption DEF Init, LogTypes
<1>5. StoreTypes
  <2>1. sstables = [p \in {} |-> {}] /\ nextSstableId = 1
    BY DEF Init
  <2>2. DOMAIN sstables = {}
    BY <2>1
  <2> QED
    BY <2>1, <2>2, FS_EmptySet DEF StoreTypes, IsStore
<1>6. ManifestTypes
  BY EmptyManifestTyped DEF Init, ManifestTypes
<1>7. WorkerTypes
  BY EmptyMemtable, NamedNothing DEF Init, WorkerTypes, IdleWorker
<1>8. ReaderTypes
  <2>1. IdleReader \in [pc : {"idle", "memory", "manifest", "files", "returned"},
                        key : Keys \cup {Absent}, live : SUBSET Metadata,
                        result : Value]
    BY DEF IdleReader, Value
  <2>2. \A r \in Readers : reader[r] = IdleReader
    BY DEF Init
  <2>3. \A r \in Readers : IsNamed(reader[r].live, sstables)
    BY <2>2, NamedNothing DEF IdleReader
  <2> QED
    BY <2>1, <2>3 DEF Init, ReaderTypes
<1> QED
  BY <1>1, <1>2, <1>3, <1>4, <1>5, <1>6, <1>7, <1>8 DEF TypeInv

LEMMA WriterPreservesTypeInv == TypeInv /\ SlotInv /\ WriterStep => TypeInv'
<1> SUFFICES ASSUME TypeInv, SlotInv, WriterStep PROVE TypeInv'
  OBVIOUS
<1> USE DEF memory, disk, manifests, readVars
<1>1. ASSUME NEW k \in Keys, NEW operation \in Operations,
             NEW rotate \in BOOLEAN, LockForWrite(k, operation, rotate)
      PROVE  TypeInv'
  <2>1. UNCHANGED <<engine, memory, backgroundError, worker, nextSequence, disk,
                    manifest, nextSstableId, readVars, crashes>>
    BY <1>1 DEF LockForWrite
  <2>2. WriterTypes'
    BY <1>1 DEF LockForWrite, WriterTypes, Value
  <2> QED
    BY <2>1, <2>2, TypeFrame DEF TypeInv
<1>2. ASSUME writer' = IdleWriter,
             UNCHANGED <<engine, memory, backgroundError, worker, nextSequence,
                         disk, manifest, nextSstableId, readVars, crashes>>
      PROVE  TypeInv'
  <2>1. WriterTypes'
    BY <1>2 DEF WriterTypes, IdleWriter, Operations, Value
  <2> QED
    BY <1>2, <2>1, TypeFrame DEF TypeInv
<1>3. CASE RefuseWrite
  BY <1>2, <1>3 DEF RefuseWrite
<1>4. CASE RefuseSequence
  BY <1>2, <1>4 DEF RefuseSequence
<1>5. CASE PrepareInPlace
  <2>1. UNCHANGED <<engine, memory, backgroundError, worker, nextSequence, disk,
                    manifest, nextSstableId, readVars, crashes>>
    BY <1>5 DEF PrepareInPlace
  <2>2. WriterTypes'
    BY <1>5 DEF PrepareInPlace, TypeInv, WriterTypes, SlotInv, WriterShape
  <2> QED
    BY <2>1, <2>2, TypeFrame DEF TypeInv
<1>6. CASE PrepareRotating
  <2>1. UNCHANGED <<engine, backgroundError, worker, nextSequence, disk,
                    manifest, nextSstableId, readVars, crashes>>
    BY <1>6 DEF PrepareRotating
  <2>2. WriterTypes'
    BY <1>6 DEF PrepareRotating, TypeInv, WriterTypes, SlotInv, WriterShape
  <2>3. MemoryTypes'
    BY <1>6, EmptyMemtable DEF PrepareRotating, TypeInv, MemoryTypes
  <2> QED
    BY <2>1, <2>2, <2>3, TypeFrame DEF TypeInv
<1>7. CASE AppendToWal
  <2>1. UNCHANGED <<engine, memory, backgroundError, worker, nextSequence,
                    walSynced, manifests, sstables, manifest, nextSstableId,
                    readVars, crashes>>
    BY <1>7 DEF AppendToWal
  <2>2. nextSequence \in 0 .. MaxSequence - 1
    BY <1>7, SequenceAssumption DEF AppendToWal, TypeInv, LogTypes
  <2>3. WriterTypes'
    BY <1>7, <2>2 DEF AppendToWal, TypeInv, WriterTypes, SlotInv, WriterShape, Value
  <2> DEFINE e == [key |-> writer.key, sequence |-> nextSequence,
                   operation |-> writer.operation]
  <2>4. e \in Logged
    BY <1>7, <2>2 DEF AppendToWal, TypeInv, WriterTypes, Logged
  <2>5. wal' = Append(wal, e)
    BY <1>7 DEF AppendToWal
  <2> HIDE DEF e
  <2>6. wal' \in Seq(Logged) /\ Len(wal') = Len(wal) + 1
    BY <2>4, <2>5 DEF TypeInv, LogTypes
  <2>7. LogTypes'
    BY <2>1, <2>6 DEF TypeInv, LogTypes
  <2> QED
    BY <2>1, <2>3, <2>7, TypeFrame DEF TypeInv
<1>8. CASE SyncWal
  <2>1. UNCHANGED <<engine, memory, backgroundError, worker, wal, manifests,
                    sstables, manifest, nextSstableId, readVars, crashes>>
    BY <1>8 DEF SyncWal
  <2>2. WriterTypes'
    BY <1>8 DEF SyncWal, TypeInv, WriterTypes, SlotInv, WriterShape
  <2>3. LogTypes'
    BY <1>8, SequenceAssumption DEF SyncWal, TypeInv, WriterTypes, LogTypes
  <2> QED
    BY <2>1, <2>2, <2>3, TypeFrame DEF TypeInv
<1>9. CASE ApplyWrite
  <2>1. UNCHANGED <<engine, immutable, flushQueue, backgroundError, worker,
                    nextSequence, disk, manifest, nextSstableId, reader, crashes>>
    BY <1>9 DEF ApplyWrite
  <2>2. WriterTypes'
    BY <1>9 DEF ApplyWrite, WriterTypes, IdleWriter, Operations, Value
  <2>3. WrittenRecord \in Logged
    BY <1>9 DEF ApplyWrite, TypeInv, WriterTypes, Logged, WrittenRecord
  <2>4. active' = {s \in active : s.key # WrittenRecord.key} \cup {WrittenRecord}
    BY <1>9 DEF ApplyWrite, MemtablePut
  <2>5. IsMemtable(active')
    <3>1. {s \in active : s.key # WrittenRecord.key} \in SUBSET active
      OBVIOUS
    <3>2. IsFiniteSet({s \in active : s.key # WrittenRecord.key})
      BY <3>1, FS_Subset DEF TypeInv, MemoryTypes, IsMemtable
    <3>3. IsFiniteSet(active')
      BY <2>4, <3>2, FS_AddElement
    <3>4. IsTable(active')
      BY <2>4 DEF TypeInv, MemoryTypes, IsMemtable, IsTable
    <3>5. active' \subseteq Logged
      BY <2>3, <2>4 DEF TypeInv, MemoryTypes, IsMemtable
    <3> QED
      BY <3>3, <3>4, <3>5 DEF IsMemtable
  <2>6. MemoryTypes'
    BY <2>1, <2>5 DEF TypeInv, MemoryTypes
  <2>7. ReaderTypes'
    <3>1. ValueOf({WrittenRecord}) \in Value
      <4>1. ValueIn({WrittenRecord}, WrittenRecord.key) \in Value
        BY <2>3, FS_Singleton, ValueTyped
      <4>2. Versions({WrittenRecord}, WrittenRecord.key) = {WrittenRecord}
        BY DEF Versions
      <4> QED
        BY <4>1, <4>2 DEF ValueIn
    <3>2. candidates' = [r \in Readers |->
                            IF InProgress(r) /\ reader[r].key = writer.key
                                THEN candidates[r] \cup {ValueOf({WrittenRecord})}
                                ELSE candidates[r]]
      BY <1>9 DEF ApplyWrite
    <3>3. candidates' \in [Readers -> SUBSET Value]
      BY <3>1, <3>2 DEF TypeInv, ReaderTypes
    <3> QED
      BY <2>1, <3>3 DEF TypeInv, ReaderTypes
  <2> QED
    BY <2>1, <2>2, <2>6, <2>7, TypeFrame DEF TypeInv
<1> QED
  BY <1>1, <1>3, <1>4, <1>5, <1>6, <1>7, <1>8, <1>9 DEF WriterStep

LEMMA ReaderPreservesTypeInv ==
    ASSUME TypeInv, NEW r \in Readers, ReaderStep(r)
    PROVE  TypeInv'
<1> USE DEF memory, disk, manifests, readVars
<1> DEFINE Get == [pc : {"idle", "memory", "manifest", "files", "returned"},
                   key : Keys \cup {Absent}, live : SUBSET Metadata, result : Value]
<1>1. reader \in [Readers -> Get] /\ reader[r] \in Get
  BY DEF TypeInv, ReaderTypes
<1>2. ASSUME NEW g \in Get, IsNamed(g.live, sstables),
             reader' = [reader EXCEPT ![r] = g],
             candidates' \in [Readers -> SUBSET Value], UNCHANGED sstables
      PROVE  ReaderTypes'
  <2>1. reader' \in [Readers -> Get]
    BY <1>1, <1>2
  <2>2. \A q \in Readers : reader'[q] = IF q = r THEN g ELSE reader[q]
    BY <1>1, <1>2
  <2>3. \A q \in Readers : IsNamed(reader'[q].live, sstables')
    BY <1>2, <2>2 DEF TypeInv, ReaderTypes
  <2> QED
    BY <1>2, <2>1, <2>3 DEF ReaderTypes
<1>3. UNCHANGED candidates => candidates' \in [Readers -> SUBSET Value]
  BY DEF TypeInv, ReaderTypes
<1>4. ASSUME NEW k \in Keys, CallGet(r, k) PROVE TypeInv'
  <2>1. UNCHANGED <<engine, memory, backgroundError, writer, worker,
                    nextSequence, disk, manifest, nextSstableId, crashes>>
    BY <1>4 DEF CallGet
  <2>2. ValueIn(VisibleRecords, k) \in Value
    BY VisibleTyped, ValueTyped
  <2>3. candidates' \in [Readers -> SUBSET Value]
    BY <1>4, <2>2 DEF CallGet, TypeInv, ReaderTypes
  <2> DEFINE g == [pc |-> "memory", key |-> k, live |-> {}, result |-> Absent]
  <2>4. g \in Get /\ IsNamed(g.live, sstables)
    BY NamedNothing DEF Value
  <2>5. reader' = [reader EXCEPT ![r] = g]
    BY <1>4 DEF CallGet
  <2>6. ReaderTypes'
    BY <1>2, <2>1, <2>3, <2>4, <2>5
  <2> QED
    BY <2>1, <2>6, TypeFrame DEF TypeInv
<1>5. CASE ReadMemory(r)
  <2>1. UNCHANGED <<engine, memory, backgroundError, writer, worker,
                    nextSequence, disk, manifest, nextSstableId, candidates,
                    crashes>>
    BY <1>5 DEF ReadMemory
  <2> DEFINE k == reader[r].key
             table == IF Versions(active, k) # {} THEN active ELSE immutable
             g == IF Versions(table, k) = {}
                      THEN [reader[r] EXCEPT !.pc = "manifest"]
                      ELSE [reader[r] EXCEPT !.pc = "returned",
                                             !.result = ValueIn(table, k)]
  <2>2. ValueIn(table, k) \in Value
    BY ValueTyped DEF TypeInv, MemoryTypes, IsMemtable
  <2>3. reader' = [reader EXCEPT ![r] = g]
    BY <1>5 DEF ReadMemory
  <2> HIDE DEF table
  <2>4. g \in Get /\ g.live = reader[r].live
    BY <1>1, <2>2
  <2> HIDE DEF g
  <2>5. ReaderTypes'
    BY <1>2, <1>3, <2>1, <2>3, <2>4 DEF TypeInv, ReaderTypes
  <2> QED
    BY <2>1, <2>5, TypeFrame DEF TypeInv
<1>6. CASE ReadManifest(r)
  <2>1. UNCHANGED <<engine, memory, backgroundError, writer, worker,
                    nextSequence, disk, manifest, nextSstableId, candidates,
                    crashes>>
    BY <1>6 DEF ReadManifest
  <2> DEFINE g == [reader[r] EXCEPT !.pc = "files", !.live = manifest.files]
  <2>2. reader' = [reader EXCEPT ![r] = g]
    BY <1>1, <1>6 DEF ReadManifest
  <2>3. IsNamed(manifest.files, sstables) /\ manifest.files \in SUBSET Metadata
    BY NamedFiles DEF TypeInv, StoreTypes, ManifestTypes, IsManifest
  <2>4. g \in Get /\ g.live = manifest.files
    BY <1>1, <2>3
  <2> HIDE DEF g
  <2>5. ReaderTypes'
    BY <1>2, <1>3, <2>1, <2>2, <2>3, <2>4
  <2> QED
    BY <2>1, <2>5, TypeFrame DEF TypeInv
<1>7. CASE ReadFiles(r)
  <2>1. UNCHANGED <<engine, memory, backgroundError, writer, worker,
                    nextSequence, disk, manifest, nextSstableId, candidates,
                    crashes>>
    BY <1>7 DEF ReadFiles
  <2> DEFINE k == reader[r].key
             consulted == {f \in reader[r].live : InRange(k, f)}
             v == ValueIn(RecordsOf(consulted), k)
             g == [reader[r] EXCEPT !.pc = "returned", !.live = {}, !.result = v]
  <2>2. v \in Value
    <3>1. IsNamed(consulted, sstables)
      BY NamedSubset DEF TypeInv, ReaderTypes
    <3> QED
      BY <3>1, NamedRecords, ValueTyped, RecordsOfIsIn DEF TypeInv, StoreTypes
  <2>3. reader' = [reader EXCEPT ![r] = g]
    BY <1>7 DEF ReadFiles
  <2> HIDE DEF v
  <2>4. g \in Get /\ g.live = {}
    BY <1>1, <2>2
  <2> HIDE DEF g
  <2>5. ReaderTypes'
    BY <1>2, <1>3, <2>1, <2>3, <2>4, NamedNothing
  <2> QED
    BY <2>1, <2>5, TypeFrame DEF TypeInv
<1> QED
  BY <1>4, <1>5, <1>6, <1>7 DEF ReaderStep
LEMMA WorkerPreservesTypeInv == TypeInv /\ SlotInv /\ WorkerStep => TypeInv'
<1> SUFFICES ASSUME TypeInv, SlotInv, WorkerStep PROVE TypeInv'
  OBVIOUS
<1> USE DEF memory, disk, manifests, readVars
<1>1. /\ IsStore(sstables)
      /\ IsNamed(worker.remove, sstables)
      /\ IsNamed(worker.add, sstables)
      /\ IsNamed(manifest.files, sstables)
      /\ IsMemtable(worker.task)
  BY DEF TypeInv, StoreTypes, WorkerTypes, ManifestTypes, IsManifest
<1>2. IsManifest(EditedManifest, sstables)
  <2>1. IsNamed(manifest.files \ worker.remove, sstables)
    BY <1>1, NamedSubset
  <2>2. IsNamed((manifest.files \ worker.remove) \cup worker.add, sstables)
    BY <1>1, <2>1, NamedUnion
  <2>3. manifest.checkpoint \in Value
    BY DEF TypeInv, ManifestTypes, IsManifest
  <2>4. worker.task # {} => HighestSequence(worker.task) \in Value
    BY <1>1, HighestOf DEF IsMemtable, Value
  <2> QED
    BY <2>2, <2>3, <2>4 DEF EditedManifest, IsManifest
<1>3. ASSUME NEW pc \in {"clear", "reclaim", "merge", "publish", "commit", "pick",
                         "idle", "exited", "build"},
             NEW T, IsMemtable(T), NEW R, IsNamed(R, sstables),
             NEW A, IsNamed(A, sstables),
             worker' = [pc |-> pc, task |-> T, remove |-> R, add |-> A],
             UNCHANGED sstables
      PROVE  WorkerTypes'
  BY <1>3 DEF WorkerTypes
<1>4. worker' \in {IdleWorker, ExitedWorker} /\ UNCHANGED sstables => WorkerTypes'
  BY EmptyMemtable, NamedNothing DEF IdleWorker, ExitedWorker, WorkerTypes
<1>5. DirectorySynced /\ UNCHANGED <<manifest, sstables>> => ManifestTypes'
  BY DEF DirectorySynced, TypeInv, ManifestTypes
<1>6. CASE PopTask
  <2>1. UNCHANGED <<engine, active, immutable, backgroundError, writer,
                    nextSequence, disk, manifest, nextSstableId, readVars, crashes>>
    BY <1>6 DEF PopTask
  <2>2. flushQueue = <<immutable>>
    BY <1>6 DEF PopTask, SlotInv, QueueInv
  <2>3. worker' = [IdleWorker EXCEPT !.pc = "build", !.task = immutable]
    BY <1>6, <2>2, QueueOfOne DEF PopTask
  <2>4. WorkerTypes'
    BY <2>1, <2>3, NamedNothing DEF IdleWorker, WorkerTypes, TypeInv, MemoryTypes
  <2> QED
    BY <2>1, <2>4, TypeFrame DEF TypeInv
<1>7. ASSUME NEW level \in Levels, NEW T, IsMemtable(T), T # {},
             sstables' = WithSstable(AllocatedPath(level), T),
             nextSstableId' = AllocatedPath(level)[2] + 1,
             worker' = [worker EXCEPT !.pc = "commit",
                            !.add = {MetadataFor(AllocatedPath(level), T)}],
             DirectorySynced,
             UNCHANGED <<engine, memory, backgroundError, writer, nextSequence,
                         wal, walSynced, manifest, readVars, crashes>>
      PROVE  TypeInv'
  <2> DEFINE p == AllocatedPath(level)
  <2>1. /\ p \in Path /\ p \notin DOMAIN sstables
        /\ p[2] + 1 \in Nat \ {0}
    BY <1>7, AllocatedPathIsFree
  <2>2. sstables' = [q \in DOMAIN sstables \cup {p} |->
                        IF q = p THEN T ELSE sstables[q]]
    BY <1>7 DEF WithSstable
  <2>3. /\ IsStore(sstables')
        /\ Extends(sstables, sstables')
        /\ IsNamed({MetadataFor(p, T)}, sstables')
    <3> HIDE DEF p
    <3>1. IsStore(sstables) /\ IsMemtable(T) /\ T # {}
      BY <1>1, <1>7
    <3> QED
      BY <2>1, <2>2, <3>1, NewFile
  <2>4. /\ worker'.pc = "commit" /\ worker'.task = worker.task
        /\ worker'.remove = worker.remove /\ worker'.add = {MetadataFor(p, T)}
    BY <1>7 DEF SlotInv, WorkerShape
  <2> HIDE DEF p
  <2>5. StoreTypes'
    BY <1>7, <2>1, <2>3 DEF StoreTypes, p
  <2>6. WorkerTypes'
    BY <1>1, <2>3, <2>4, TypesOfMoreFiles DEF WorkerTypes
  <2>7. ManifestTypes'
    BY <1>7, <2>3, TypesOfMoreFiles DEF ManifestTypes, DirectorySynced
  <2>8. ReaderTypes'
    BY <1>7, <2>3, TypesOfMoreFiles
  <2> QED
    BY <1>7, <2>5, <2>6, <2>7, <2>8, TypeFrame DEF TypeInv
<1>8. CASE BuildSstable
  <2>1. worker.task # {}
    BY <1>8 DEF BuildSstable, SlotInv, TaskInv
  <2>2. 0 \in Levels
    BY DEF Levels
  <2> QED
    BY <1>1, <1>7, <1>8, <2>1, <2>2, Zenon DEF BuildSstable
<1>9. CASE MergeSstables
  <2> DEFINE output == Merge(RecordsOf(worker.remove), CanDropTombstones)
             path == AllocatedPath(OutputLevel)
  <2>1. OutputLevel \in Levels /\ CanDropTombstones \in BOOLEAN
    BY DEF OutputLevel, Levels, CanDropTombstones
  <2>2. IsMemtable(output)
    <3>1. RecordsOf(worker.remove) \subseteq Logged
          /\ IsFiniteSet(RecordsOf(worker.remove))
      BY <1>1, NamedRecords, RecordsOfIsIn
    <3> QED
      BY <2>1, <3>1, MergeIsTable DEF IsMemtable
  <2>3. UNCHANGED <<engine, memory, backgroundError, writer, nextSequence, wal,
                    walSynced, manifest, readVars, crashes>>
    BY <1>9 DEF MergeSstables
  <2>4. /\ nextSstableId' = path[2] + 1
        /\ sstables' = IF output = {} THEN sstables ELSE WithSstable(path, output)
        /\ worker' = [worker EXCEPT
                        !.pc = "commit",
                        !.add = IF output = {} THEN {}
                                ELSE {MetadataFor(path, output)}]
        /\ IF output = {} THEN UNCHANGED manifests ELSE DirectorySynced
    BY <1>9, Zenon DEF MergeSstables
  <2> HIDE DEF output
  <2>5. CASE output = {}
    <3>1. path[2] + 1 \in Nat \ {0}
      BY <2>1, AllocatedPathIsFree
    <3>2. UNCHANGED <<sstables, manifestDisk, manifestPossible>>
      BY <2>4, <2>5
    <3>3. StoreTypes'
      BY <2>4, <3>1, <3>2 DEF TypeInv, StoreTypes
    <3>4. /\ worker'.pc = "commit" /\ worker'.task = worker.task
          /\ worker'.remove = worker.remove /\ worker'.add = {}
      BY <2>4, <2>5 DEF SlotInv, WorkerShape
    <3>5. WorkerTypes'
      BY <1>1, <3>2, <3>4, NamedNothing DEF WorkerTypes
    <3> QED
      BY <2>3, <3>2, <3>3, <3>5, TypeFrame DEF TypeInv
  <2>6. CASE output # {}
    <3>1. /\ sstables' = WithSstable(path, output)
          /\ worker' = [worker EXCEPT !.pc = "commit",
                                      !.add = {MetadataFor(path, output)}]
          /\ DirectorySynced
      BY <2>4, <2>6
    <3> QED
      BY <1>7, <2>1, <2>2, <2>3, <2>4, <2>6, <3>1, Zenon
  <2> QED
    BY <2>5, <2>6
<1>10. CASE CommitManifest
  <2>1. UNCHANGED <<engine, memory, backgroundError, writer, nextSequence, wal,
                    walSynced, sstables, manifest, nextSstableId, readVars, crashes>>
    BY <1>10 DEF CommitManifest
  <2>2. WorkerTypes'
    BY <1>10, <2>1 DEF CommitManifest, TypeInv, WorkerTypes, SlotInv, WorkerShape
  <2>3. ManifestTypes'
    BY <1>2, <1>10, <2>1 DEF CommitManifest, TypeInv, ManifestTypes
  <2> QED
    BY <2>1, <2>2, <2>3, TypeFrame DEF TypeInv
<1>11. CASE PublishManifest
  <2>1. UNCHANGED <<engine, memory, backgroundError, writer, nextSequence, wal,
                    walSynced, sstables, nextSstableId, readVars, crashes>>
    BY <1>11 DEF PublishManifest
  <2>2. WorkerTypes'
    <3>1. CASE worker.task = {}
      BY <1>4, <1>11, <2>1, <3>1 DEF PublishManifest
    <3>2. CASE worker.task # {}
      BY <1>11, <2>1, <3>2 DEF PublishManifest, TypeInv, WorkerTypes, SlotInv,
         WorkerShape
    <3> QED
      BY <3>1, <3>2
  <2>3. ManifestTypes'
    BY <1>2, <1>11, <2>1 DEF PublishManifest, DirectorySynced, TypeInv, ManifestTypes
  <2> QED
    BY <2>1, <2>2, <2>3, TypeFrame DEF TypeInv
<1>12. CASE ClearSlot
  <2>1. UNCHANGED <<engine, active, flushQueue, backgroundError, writer,
                    nextSequence, disk, manifest, nextSstableId, readVars, crashes>>
    BY <1>12 DEF ClearSlot
  <2>2. WorkerTypes'
    BY <1>12, <2>1 DEF ClearSlot, TypeInv, WorkerTypes, SlotInv, WorkerShape
  <2>3. MemoryTypes'
    BY <1>12, EmptyMemtable DEF ClearSlot, TypeInv, MemoryTypes
  <2> QED
    BY <2>1, <2>2, <2>3, TypeFrame DEF TypeInv
<1>13. CASE ReclaimWal
  <2>1. UNCHANGED <<engine, memory, backgroundError, writer, manifests,
                    sstables, manifest, nextSstableId, readVars, crashes>>
    BY <1>13 DEF ReclaimWal
  <2>2. worker' = [IdleWorker EXCEPT !.pc = "pick"]
    BY <1>13, Zenon DEF ReclaimWal
  <2>3. WorkerTypes'
    BY <2>1, <2>2, EmptyMemtable, NamedNothing DEF IdleWorker, WorkerTypes
  <2>4. wal' \in Seq(Logged) /\ walSynced' = Len(wal')
    BY <1>13, BeyondTyped DEF ReclaimWal, TypeInv, LogTypes
  <2>5. nextSequence' \in 0 .. MaxSequence
    <3>1. nextSequence' = AtLeast(nextSequence, SequenceAfter(wal))
      BY <1>13 DEF ReclaimWal
    <3>2. wal \in Seq(Logged) /\ nextSequence \in 0 .. MaxSequence
      BY DEF TypeInv, LogTypes
    <3>3. SequenceAfter(wal) \in 0 .. MaxSequence
      <4>1. CASE wal = <<>>
        BY <4>1, SequenceAssumption DEF SequenceAfter
      <4>2. CASE wal # <<>>
        <5>1. wal[Len(wal)] \in Logged
          BY <3>2, <4>2
        <5> QED
          BY <4>2, <5>1, SequenceAssumption DEF SequenceAfter, Logged
      <4> QED
        BY <4>1, <4>2
    <3> QED
      BY <3>1, <3>2, <3>3 DEF AtLeast
  <2>6. LogTypes'
    BY <2>4, <2>5 DEF LogTypes
  <2> QED
    BY <2>1, <2>3, <2>6, TypeFrame DEF TypeInv
<1>14. CASE SkipCompaction
  BY <1>4, <1>14, TypeFrame DEF SkipCompaction, TypeInv
<1>15. CASE PlanCompaction
  <2>1. UNCHANGED <<engine, memory, backgroundError, writer, nextSequence, disk,
                    manifest, nextSstableId, readVars, crashes>>
    BY <1>15 DEF PlanCompaction
  <2>2. /\ worker'.pc = "merge" /\ worker'.task = worker.task
        /\ worker'.remove = PickCompaction(manifest.files) /\ worker'.add = worker.add
    BY <1>15 DEF PlanCompaction, SlotInv, WorkerShape
  <2>3. PickCompaction(manifest.files) \in SUBSET manifest.files
    BY DEF PickCompaction, AtLevel
  <2>4. IsNamed(PickCompaction(manifest.files), sstables)
    BY <1>1, <2>3, NamedSubset
  <2>5. WorkerTypes'
    BY <1>1, <2>1, <2>2, <2>4 DEF WorkerTypes
  <2> QED
    BY <2>1, <2>5, TypeFrame DEF TypeInv
<1>16. CASE FailWorker
  <2>1. ControlTypes'
    BY <1>16 DEF FailWorker, TypeInv, ControlTypes
  <2> QED
    BY <1>4, <1>16, <2>1, TypeFrame DEF FailWorker, TypeInv
<1>17. CASE ExitWorker
  BY <1>4, <1>17, TypeFrame DEF ExitWorker, TypeInv
<1> QED
  BY <1>6, <1>8, <1>9, <1>10, <1>11, <1>12, <1>13, <1>14, <1>15, <1>16, <1>17
  DEF WorkerStep
\* What a stop leaves of the log.
LEMMA CrashedLog ==
    ASSUME TypeInv, NEW kind \in CrashKinds, Crash(kind)
    PROVE  \E n \in 0 .. Len(wal) :
              /\ wal' = SubSeq(wal, 1, n)
              /\ wal' \in Seq(Logged)
              /\ Len(wal') = n
              /\ \A i \in 1 .. n : wal'[i] = wal[i]
              /\ kind = "power" => walSynced <= n /\ walSynced' = n
              /\ kind # "power" => wal' = wal /\ walSynced' = walSynced
<1>1. /\ wal \in Seq(Logged) /\ walSynced \in 0 .. Len(wal) /\ Len(wal) \in Nat
      /\ \A i \in 1 .. Len(wal) : wal[i] \in Logged
  BY ElementOfSeq DEF TypeInv, LogTypes
<1>2. PICK n \in (IF kind = "power" THEN walSynced ELSE Len(wal)) .. Len(wal) :
          /\ wal' = SubSeq(wal, 1, n)
          /\ walSynced' = IF kind = "power" THEN n ELSE walSynced
  BY DEF Crash
<1>3. n \in 0 .. Len(wal) /\ (kind = "power" => walSynced <= n)
      /\ (kind # "power" => n = Len(wal))
  BY <1>1, <1>2
<1>4. \A i \in 1 .. n : wal[i] \in Logged
  BY <1>1, <1>3
<1>5. /\ SubSeq(wal, 1, n) \in Seq(Logged)
      /\ Len(SubSeq(wal, 1, n)) = n
      /\ \A i \in 1 .. n : SubSeq(wal, 1, n)[i] = wal[i]
  <2>1. /\ SubSeq(wal, 1, n) \in Seq(Logged)
        /\ Len(SubSeq(wal, 1, n)) = IF 1 <= n THEN n - 1 + 1 ELSE 0
        /\ \A i \in 1 .. n - 1 + 1 : SubSeq(wal, 1, n)[i] = wal[1 + i - 1]
    BY <1>3, <1>4, SubSeqProperties
  <2>2. n - 1 + 1 = n /\ \A i \in 1 .. n : 1 + i - 1 = i
    BY <1>3
  <2> QED
    BY <1>3, <2>1, <2>2
<1>6. kind # "power" => SubSeq(wal, 1, n) = wal
  BY <1>1, <1>3, SubSeqFull
<1> QED
  BY <1>2, <1>3, <1>5, <1>6

LEMMA LifecyclePreservesTypeInv == TypeInv /\ SlotInv /\ LifecycleStep => TypeInv'
<1> SUFFICES ASSUME TypeInv, SlotInv, LifecycleStep PROVE TypeInv'
  OBVIOUS
<1> USE DEF memory, disk, manifests, readVars
<1>1. ASSUME NEW kind \in CrashKinds, Crash(kind) PROVE TypeInv'
  <2>1. ControlTypes'
    <3>1. crashes \in 0 .. MaxCrashes /\ crashes < MaxCrashes /\ MaxCrashes \in Nat
      BY <1>1, CrashAssumption DEF Crash, TypeInv, ControlTypes
    <3>2. crashes' = crashes + 1 /\ engine' = "down" /\ backgroundError' = FALSE
      BY <1>1 DEF Crash
    <3>3. crashes' \in 0 .. MaxCrashes
      BY <3>1, <3>2
    <3> QED
      BY <3>2, <3>3 DEF ControlTypes
  <2>2. WriterTypes'
    BY <1>1 DEF Crash, WriterTypes, IdleWriter, Operations, Value
  <2>3. MemoryTypes'
    BY <1>1, EmptyMemtable DEF Crash, MemoryTypes
  <2>4. LogTypes'
    <3>1. walSynced \in 0 .. Len(wal)
      BY DEF TypeInv, LogTypes
    <3>2. wal' \in Seq(Logged) /\ walSynced' \in 0 .. Len(wal')
      BY <1>1, <3>1, CrashedLog
    <3>3. nextSequence' = 0
      BY <1>1 DEF Crash
    <3> QED
      BY <3>2, <3>3, SequenceAssumption DEF LogTypes
  <2>5. StoreTypes'
    BY <1>1 DEF Crash, TypeInv, StoreTypes
  <2>6. ManifestTypes'
    <3>1. UNCHANGED sstables /\ manifest' = EmptyManifest
      BY <1>1 DEF Crash
    <3>2. \/ manifestDisk' \in manifestPossible /\ manifestPossible' = {manifestDisk'}
          \/ UNCHANGED <<manifestDisk, manifestPossible>>
      BY <1>1 DEF Crash
    <3> QED
      BY <3>1, <3>2, EmptyManifestTyped DEF TypeInv, ManifestTypes
  <2>7. WorkerTypes'
    BY <1>1, EmptyMemtable, NamedNothing DEF Crash, WorkerTypes, IdleWorker
  <2>8. ReaderTypes'
    <3>1. IdleReader \in [pc : {"idle", "memory", "manifest", "files", "returned"},
                          key : Keys \cup {Absent}, live : SUBSET Metadata,
                          result : Value]
      BY DEF IdleReader, Value
    <3>2. reader' = [r \in Readers |-> IdleReader]
          /\ candidates' = [r \in Readers |-> {}]
      BY <1>1 DEF Crash
    <3>3. \A r \in Readers : IsNamed(reader'[r].live, sstables')
      BY <3>2, NamedNothing DEF IdleReader
    <3> QED
      BY <3>1, <3>2, <3>3 DEF ReaderTypes
  <2> QED
    BY <2>1, <2>2, <2>3, <2>4, <2>5, <2>6, <2>7, <2>8 DEF TypeInv
<1>2. CASE BeginShutdown
  <2>1. ControlTypes'
    BY <1>2 DEF BeginShutdown, TypeInv, ControlTypes
  <2> QED
    BY <1>2, <2>1, TypeFrame DEF BeginShutdown, TypeInv
<1>3. CASE FinalFlush
  <2>1. UNCHANGED <<backgroundError, writer, worker, nextSequence, disk,
                    manifest, nextSstableId, readVars, crashes>>
    BY <1>3 DEF FinalFlush
  <2>2. ControlTypes'
    BY <1>3 DEF FinalFlush, TypeInv, ControlTypes
  <2>3. MemoryTypes'
    BY <1>3, EmptyMemtable DEF FinalFlush, TypeInv, MemoryTypes
  <2> QED
    BY <2>1, <2>2, <2>3, TypeFrame DEF TypeInv
<1>4. CASE JoinWorker
  <2>1. ControlTypes'
    BY <1>4 DEF JoinWorker, TypeInv, ControlTypes
  <2> QED
    BY <1>4, <2>1, TypeFrame DEF JoinWorker, TypeInv
<1>5. CASE Open
  <2>1. UNCHANGED <<immutable, flushQueue, backgroundError, writer, worker, disk,
                    nextSstableId, readVars, crashes>>
    BY <1>5 DEF Open
  <2>2. ControlTypes'
    BY <1>5 DEF Open, TypeInv, ControlTypes
  <2>3. wal \in Seq(Logged) /\ manifestDisk.checkpoint \in Value
    BY DEF TypeInv, LogTypes, ManifestTypes, IsManifest
  <2>4. Len(wal) \in Nat /\ DOMAIN wal = 1 .. Len(wal)
    BY <2>3, LenProperties
  <2>5. MemoryTypes'
    <3> DEFINE fn == [i \in DOMAIN wal |-> wal[i]]
    <3>1. IsFiniteSet(DOMAIN wal)
      BY <2>4, FS_Interval
    <3>2. IsFiniteSet({fn[i] : i \in DOMAIN wal})
      BY <3>1, FiniteImage
    <3>3. WalRecords = {fn[i] : i \in DOMAIN wal}
      BY DEF WalRecords
    <3>4. WalRecords \subseteq Logged
      BY <2>3, <2>4, ElementOfSeq DEF WalRecords
    <3> DEFINE beyond == After(manifestDisk.checkpoint, WalRecords)
    <3>5. beyond \in SUBSET WalRecords
      BY DEF After
    <3>6. IsFiniteSet(beyond) /\ beyond \subseteq Logged
      BY <3>2, <3>3, <3>4, <3>5, FS_Subset
    <3> HIDE DEF beyond
    <3>7. IsMemtable(Merge(beyond, FALSE))
      BY <3>6, MergeIsTable DEF IsMemtable
    <3> QED
      BY <1>5, <3>7 DEF Open, Replayed, TypeInv, MemoryTypes, beyond
  <2>6. LogTypes'
    <3>1. /\ \A i \in DOMAIN wal : wal[i].sequence < MaxSequence
          /\ manifestDisk.checkpoint < MaxSequence
      BY <1>5 DEF Open, Recoverable
    <3>2. SequenceAfter(wal) \in 0 .. MaxSequence
      <4>1. CASE wal = <<>>
        BY <4>1, SequenceAssumption DEF SequenceAfter
      <4>2. CASE wal # <<>>
        <5>1. wal[Len(wal)] \in Logged
          BY <2>3, <4>2
        <5> QED
          BY <4>2, <5>1, SequenceAssumption DEF SequenceAfter, Logged
      <4> QED
        BY <4>1, <4>2
    <3>3. manifestDisk.checkpoint + 1 \in 0 .. MaxSequence
      BY <2>3, SequenceAssumption DEF Value, Absent
    <3>4. nextSequence' = AtLeast(SequenceAfter(wal), manifestDisk.checkpoint + 1)
      BY <1>5 DEF Open
    <3>5. nextSequence' \in 0 .. MaxSequence
      BY <3>2, <3>3, <3>4 DEF AtLeast
    <3> QED
      BY <2>1, <3>5 DEF TypeInv, LogTypes
  <2>7. ManifestTypes'
    BY <1>5, <2>1 DEF Open, TypeInv, ManifestTypes
  <2> QED
    BY <2>1, <2>2, <2>5, <2>6, <2>7, TypeFrame DEF TypeInv
<1> QED
  BY <1>1, <1>2, <1>3, <1>4, <1>5 DEF LifecycleStep

\* Nothing but the slot discipline is needed to keep every variable in its type.
THEOREM TypeInvIsInvariant == Spec => []TypeInv
<1>1. TypeInv /\ SlotInv /\ [Next]_vars => TypeInv'
  <2> SUFFICES ASSUME TypeInv, SlotInv, [Next]_vars PROVE TypeInv'
    OBVIOUS
  <2>1. CASE Next
    BY <2>1, WriterPreservesTypeInv, WorkerPreservesTypeInv,
       ReaderPreservesTypeInv, LifecyclePreservesTypeInv DEF Next
  <2>2. CASE UNCHANGED vars
    BY <2>2, TypeFrame DEF TypeInv, vars, memory, disk, manifests, readVars
  <2> QED
    BY <2>1, <2>2
<1> QED
  BY <1>1, InitEstablishesTypeInv, SlotInvIsInvariant, PTL DEF Spec

\* Every variable keeps to what its C++ counterpart can hold: a number below
\* UINT64_MAX for every record, an existing SSTable and its true key range for
\* every file that a MANIFEST or a reader names.
THEOREM EngineTypes == Spec => []TypeOK
<1>1. TypeInv /\ SlotInv => TypeOK
  <2> SUFFICES ASSUME TypeInv, SlotInv PROVE TypeOK
    OBVIOUS
  <2>1. /\ active \in SUBSET Record
        /\ immutable \in SUBSET Record
        /\ worker.task \in SUBSET Record
    BY LoggedRecords DEF TypeInv, MemoryTypes, WorkerTypes, IsMemtable
  <2>2. flushQueue \in Seq(SUBSET Record)
    <3>1. <<>> \in Seq(SUBSET Record) /\ <<immutable>> \in Seq(SUBSET Record)
      BY <2>1
    <3> QED
      BY <3>1 DEF SlotInv, QueueInv
  <2>3. writer \in [pc : {"idle", "prepare", "append", "fsync", "apply"},
                    key : Keys \cup {Absent}, operation : Operations,
                    sequence : Value, rotate : BOOLEAN]
    BY DEF TypeInv, WriterTypes, SlotInv, WriterShape
  <2>4. worker.remove \in SUBSET Metadata /\ worker.add \in SUBSET Metadata
    BY NamedFiles DEF TypeInv, StoreTypes, WorkerTypes
  <2>5. worker \in [pc : {"idle", "build", "commit", "publish", "clear",
                          "reclaim", "pick", "merge", "exited"},
                    task : SUBSET Record, remove : SUBSET Metadata,
                    add : SUBSET Metadata]
    BY <2>1, <2>4 DEF TypeInv, WorkerTypes, SlotInv, WorkerShape
  <2>6. wal \in Seq(Record)
    BY LoggedRecords, SeqMonotonic DEF TypeInv, LogTypes
  <2>7. ASSUME NEW m, IsManifest(m, sstables) PROVE m \in Manifests
    <3>1. m.files \in SUBSET Metadata
      BY <2>7, NamedFiles DEF TypeInv, StoreTypes, IsManifest
    <3> QED
      BY <2>7, <3>1 DEF IsManifest, Manifests
  <2>8. /\ manifest \in Manifests
        /\ manifestDisk \in Manifests
        /\ manifestPossible \subseteq Manifests
    BY <2>7 DEF TypeInv, ManifestTypes
  <2>9. /\ DOMAIN sstables \subseteq Path
        /\ \A p \in DOMAIN sstables : sstables[p] \in SUBSET Record
        /\ nextSstableId \in Nat \ {0}
    BY LoggedRecords DEF TypeInv, StoreTypes, IsStore, IsMemtable
  <2> QED
    BY <2>1, <2>2, <2>3, <2>5, <2>6, <2>8, <2>9
    DEF TypeOK, TypeInv, ControlTypes, LogTypes, ReaderTypes
<1> QED
  BY <1>1, TypeInvIsInvariant, SlotInvIsInvariant, PTL
\* Both kinds of files are written under a name that was free.
LEMMA StoreOnlyGrows == TypeInv /\ [Next]_vars => Extends(sstables, sstables')
<1> SUFFICES ASSUME TypeInv, [Next]_vars PROVE Extends(sstables, sstables')
  OBVIOUS
<1> USE DEF memory, disk, manifests, readVars
<1>1. UNCHANGED sstables => Extends(sstables, sstables')
  BY DEF Extends
<1>2. ASSUME NEW level \in Levels, NEW T, sstables' = WithSstable(AllocatedPath(level), T)
      PROVE  Extends(sstables, sstables')
  <2>1. AllocatedPath(level) \notin DOMAIN sstables
    BY <1>2, AllocatedPathIsFree
  <2> QED
    BY <1>2, <2>1 DEF WithSstable, Extends
<1>3. CASE WriterStep
  BY <1>1, <1>3 DEF WriterStep, LockForWrite, RefuseWrite, PrepareInPlace,
     PrepareRotating, AppendToWal, RefuseSequence, SyncWal, ApplyWrite
<1>4. CASE WorkerStep
  <2>1. CASE BuildSstable
    <3>1. 0 \in Levels /\ sstables' = WithSstable(AllocatedPath(0), worker.task)
      BY <2>1, Zenon DEF BuildSstable, Levels
    <3> QED
      BY <1>2, <3>1
  <2>2. CASE MergeSstables
    <3> DEFINE output == Merge(RecordsOf(worker.remove), CanDropTombstones)
    <3>1. /\ OutputLevel \in Levels
          /\ sstables' = IF output = {} THEN sstables
                         ELSE WithSstable(AllocatedPath(OutputLevel), output)
      BY <2>2, Zenon DEF MergeSstables, OutputLevel, Levels
    <3> HIDE DEF output
    <3> QED
      BY <1>1, <1>2, <3>1
  <2>3. CASE PopTask \/ CommitManifest \/ PublishManifest \/ ClearSlot
    BY <1>1, <2>3 DEF PopTask, CommitManifest, PublishManifest, ClearSlot
  <2>4. CASE ReclaimWal
    BY <1>1, <2>4 DEF ReclaimWal
  <2>5. CASE SkipCompaction \/ PlanCompaction \/ FailWorker \/ ExitWorker
    BY <1>1, <2>5 DEF SkipCompaction, PlanCompaction, FailWorker, ExitWorker
  <2> QED
    BY <1>4, <2>1, <2>2, <2>3, <2>4, <2>5 DEF WorkerStep
<1>5. ASSUME NEW r \in Readers, ReaderStep(r) PROVE Extends(sstables, sstables')
  BY <1>1, <1>5 DEF ReaderStep, CallGet, ReadMemory, ReadManifest, ReadFiles
<1>6. CASE LifecycleStep
  BY <1>1, <1>6 DEF LifecycleStep, BeginShutdown, FinalFlush, JoinWorker, Crash, Open
<1>7. CASE UNCHANGED vars
  BY <1>1, <1>7 DEF vars
<1> QED
  BY <1>3, <1>4, <1>5, <1>6, <1>7 DEF Next

\* An SSTable file never changes and never goes away, whatever the processes,
\* which all count from id 1, write after it (allocateSstablePath()).
THEOREM SstablesNeverChange == Spec => SstablesAreImmutable
<1>1. TypeInv /\ [Next]_vars =>
         [\A p \in DOMAIN sstables :
             p \in DOMAIN sstables' /\ sstables'[p] = sstables[p]]_vars
  BY StoreOnlyGrows DEF Extends
<1> QED
  BY <1>1, TypeInvIsInvariant, PTL DEF Spec, SstablesAreImmutable

-----------------------------------------------------------------------------
(* The log, the sequence numbers and the checkpoints *)

\* The first number that no finished write has: a record that is logged and
\* not yet in the Memtable already has its number.
Bound == IF writer.pc = "apply" THEN writer.sequence ELSE nextSequence

\* Before the fsync the number is in the file and not consumed, after it both.
WriterLog ==
    /\ writer.pc = "fsync" => /\ wal # <<>>
                              /\ wal[Len(wal)] = WrittenRecord
                              /\ writer.sequence = nextSequence
    /\ writer.pc = "apply" => /\ wal # <<>>
                              /\ wal[Len(wal)] = WrittenRecord
                              /\ writer.sequence + 1 = nextSequence

LogBelow ==
    engine # "down" =>
        \A i \in DOMAIN wal : \/ wal[i].sequence < nextSequence
                              \/ writer.pc = "fsync" /\ i = Len(wal)

MemoryBelow ==
    engine # "down" => /\ \A r \in active \cup immutable : r.sequence < Bound
                       /\ manifest.checkpoint < Bound
                       /\ manifestDisk.checkpoint < Bound

LogInv ==
    /\ StrictlyIncreasing(wal)
    /\ WriterLog
    /\ LogBelow
    /\ MemoryBelow

LEMMA LastIsHighest ==
    ASSUME NEW log \in Seq(Logged), StrictlyIncreasing(log), NEW i \in DOMAIN log
    PROVE  log[i].sequence < SequenceAfter(log)
<1>1. Len(log) \in Nat /\ DOMAIN log = 1 .. Len(log)
  BY LenProperties
<1>2. Len(log) \in DOMAIN log /\ log # <<>>
  BY <1>1
<1>3. log[i] \in Logged /\ log[Len(log)] \in Logged
  BY <1>1, <1>2, ElementOfSeq
<1>4. i < Len(log) \/ i = Len(log)
  BY <1>1
<1>5. log[i].sequence \in Nat /\ log[Len(log)].sequence \in Nat
  BY <1>3, SequenceAssumption DEF Logged
<1>6. log[i].sequence <= log[Len(log)].sequence
  BY <1>2, <1>4, <1>5 DEF StrictlyIncreasing
<1> QED
  BY <1>2, <1>5, <1>6 DEF SequenceAfter

\* What reclaimThrough() leaves of a log are the records that the checkpoint
\* does not cover, in their order.
LEMMA BeyondIsSuffix ==
    ASSUME NEW log \in Seq(Logged), StrictlyIncreasing(log), NEW cp \in Int
    PROVE  \E c \in 0 .. Len(log) :
              /\ Len(Beyond(cp, log)) = Len(log) - c
              /\ DOMAIN Beyond(cp, log) = 1 .. Len(log) - c
              /\ \A i \in 1 .. Len(log) - c : Beyond(cp, log)[i] = log[c + i]
              /\ \A i \in 1 .. Len(log) : i <= c <=> log[i].sequence <= cp
<1> DEFINE n == Len(log)
           covered == {i \in DOMAIN log : log[i].sequence <= cp}
           c == Cardinality(covered)
<1>1. n \in Nat /\ DOMAIN log = 1 .. n
  BY LenProperties
<1>2. \A i \in 1 .. n : log[i] \in Logged
  BY <1>1, ElementOfSeq
<1>3. \A i \in 1 .. n : log[i].sequence \in Nat
  BY <1>2, SequenceAssumption DEF Logged
<1>4. c \in 0 .. n /\ covered = 1 .. c
  <2>1. ASSUME NEW i \in covered, NEW j \in 1 .. n, j <= i PROVE j \in covered
    <3>1. i \in 1 .. n /\ log[i].sequence <= cp
      BY <1>1
    <3>2. j = i \/ j < i
      BY <2>1, <3>1
    <3>3. log[j].sequence <= log[i].sequence
      BY <1>1, <1>3, <3>1, <3>2 DEF StrictlyIncreasing
    <3>4. log[j].sequence <= cp
      BY <1>3, <3>1, <3>3
    <3> QED
      BY <1>1, <3>4
  <2>2. covered \subseteq 1 .. n
    BY <1>1
  <2> HIDE DEF n, covered
  <2> QED
    BY <1>1, <2>1, <2>2, InitialPart
<1>5. \A i \in 1 .. n : i \in covered <=> log[i].sequence <= cp
  BY <1>1
<1> HIDE DEF c
<1>6. \A i \in 1 .. n : i <= c <=> log[i].sequence <= cp
  BY <1>1, <1>4, <1>5
<1>7. \A i \in c + 1 .. n : log[i] \in Logged
  BY <1>1, <1>2, <1>4
<1> DEFINE b == SubSeq(log, c + 1, n)
<1>8. /\ b \in Seq(Logged)
      /\ Len(b) = IF c + 1 <= n THEN n - (c + 1) + 1 ELSE 0
      /\ \A i \in 1 .. n - (c + 1) + 1 : b[i] = log[c + 1 + i - 1]
  BY <1>1, <1>4, <1>7, SubSeqProperties
<1>9. /\ n - (c + 1) + 1 = n - c
      /\ c + 1 <= n \/ n - c = 0
      /\ \A i \in 1 .. n - c : c + 1 + i - 1 = c + i
  <2>1. n \in Nat /\ c \in Nat /\ c <= n
    BY <1>1, <1>4
  <2> QED
    BY <2>1
<1>10. Len(b) = n - c /\ \A i \in 1 .. n - c : b[i] = log[c + i]
  BY <1>8, <1>9
<1>11. DOMAIN b = 1 .. Len(b)
  BY <1>8, LenProperties
<1>12. Beyond(cp, log) = b
  BY DEF Beyond, c
<1> QED
  BY <1>4, <1>6, <1>10, <1>11, <1>12

LEMMA BoundTyped == TypeInv => Bound \in Nat
BY SequenceAssumption DEF TypeInv, WriterTypes, LogTypes, Bound

LEMMA InitEstablishesLogInv == Init => LogInv
BY DEF Init, LogInv, StrictlyIncreasing, WriterLog, LogBelow, MemoryBelow, IdleWriter
\* The log and what has been written to it, when the log is left alone.
LEMMA LogFrame ==
    ASSUME TypeInv, LogInv, UNCHANGED <<wal, writer, nextSequence>>,
           engine' # "down" => engine # "down"
    PROVE  StrictlyIncreasing(wal)' /\ WriterLog' /\ LogBelow'
BY DEF LogInv, StrictlyIncreasing, WriterLog, WrittenRecord, LogBelow

\* Memtables and checkpoints that are not new stay below a bound that grows.
LEMMA BelowFrame ==
    ASSUME TypeInv, LogInv, engine' # "down" => engine # "down",
           active' \cup immutable' \subseteq active \cup immutable,
           manifest'.checkpoint \in {manifest.checkpoint, manifestDisk.checkpoint},
           manifestDisk'.checkpoint \in {manifest.checkpoint, manifestDisk.checkpoint},
           Bound' \in Nat, Bound <= Bound'
    PROVE  MemoryBelow'
<1> SUFFICES ASSUME engine' # "down" PROVE MemoryBelow'
  BY DEF MemoryBelow
<1>1. /\ \A r \in active \cup immutable : r.sequence < Bound
      /\ manifest.checkpoint < Bound
      /\ manifestDisk.checkpoint < Bound
  BY DEF LogInv, MemoryBelow
<1>2. \A r \in active \cup immutable : r.sequence \in Nat
  BY SequenceAssumption DEF TypeInv, MemoryTypes, IsMemtable, Logged
<1>3. manifest.checkpoint \in Int /\ manifestDisk.checkpoint \in Int
  BY SequenceAssumption DEF TypeInv, ManifestTypes, IsManifest, Value, Absent
<1>4. Bound \in Nat
  BY BoundTyped
<1>5. \A r \in active' \cup immutable' : r.sequence < Bound'
  BY <1>1, <1>2, <1>4
<1>6. manifest'.checkpoint < Bound' /\ manifestDisk'.checkpoint < Bound'
  BY <1>1, <1>3, <1>4
<1> QED
  BY <1>5, <1>6 DEF MemoryBelow

LEMMA WriterPreservesLogInv ==
    ASSUME TypeInv, TypeInv', SlotInv, LogInv, WriterStep
    PROVE  LogInv'
<1> USE DEF memory, disk, manifests, readVars
<1>1. Bound \in Nat /\ Bound' \in Nat
  BY SequenceAssumption DEF TypeInv, WriterTypes, LogTypes, Bound
<1>2. wal \in Seq(Logged) /\ Len(wal) \in Nat /\ DOMAIN wal = 1 .. Len(wal)
  BY LenProperties DEF TypeInv, LogTypes
<1>3. \A i \in 1 .. Len(wal) : wal[i] \in Logged /\ wal[i].sequence \in Nat
  <2>1. \A i \in 1 .. Len(wal) : wal[i] \in Logged
    BY <1>2, ElementOfSeq
  <2> QED
    BY <2>1, SequenceAssumption DEF Logged
<1>4. nextSequence \in Nat
  BY DEF TypeInv, LogTypes
<1>5. ASSUME writer.pc \in {"idle", "prepare", "append"},
             writer'.pc \in {"idle", "prepare", "append"},
             UNCHANGED <<engine, wal, nextSequence, manifest, manifestDisk>>,
             active' \cup immutable' \subseteq active \cup immutable
      PROVE  LogInv'
  <2>1. StrictlyIncreasing(wal)'
    BY <1>5 DEF LogInv, StrictlyIncreasing
  <2>2. WriterLog'
    BY <1>5 DEF WriterLog
  <2>3. LogBelow'
    BY <1>5 DEF LogInv, LogBelow
  <2>4. Bound' = Bound
    BY <1>5 DEF Bound
  <2>5. MemoryBelow'
    BY <1>1, <1>5, <2>4, BelowFrame
  <2> QED
    BY <2>1, <2>2, <2>3, <2>5 DEF LogInv
<1>6. ASSUME NEW k \in Keys, NEW operation \in Operations,
             NEW rotate \in BOOLEAN, LockForWrite(k, operation, rotate)
      PROVE  LogInv'
  BY <1>5, <1>6 DEF LockForWrite
<1>7. CASE RefuseWrite
  BY <1>5, <1>7 DEF RefuseWrite, IdleWriter
<1>8. CASE RefuseSequence
  BY <1>5, <1>8 DEF RefuseSequence, IdleWriter
<1>9. CASE PrepareInPlace
  BY <1>5, <1>9 DEF PrepareInPlace, SlotInv, WriterShape
<1>10. CASE PrepareRotating
  BY <1>5, <1>10 DEF PrepareRotating, SlotInv, WriterShape
<1>11. CASE AppendToWal
  <2> DEFINE e == [key |-> writer.key, sequence |-> nextSequence,
                   operation |-> writer.operation]
  <2>1. /\ writer.pc = "append" /\ wal' = Append(wal, e)
        /\ writer' = [writer EXCEPT !.pc = "fsync", !.sequence = nextSequence]
        /\ UNCHANGED <<engine, active, immutable, nextSequence, manifest, manifestDisk>>
    BY <1>11 DEF AppendToWal
  <2>2. /\ writer'.pc = "fsync" /\ writer'.sequence = nextSequence
        /\ writer'.key = writer.key /\ writer'.operation = writer.operation
    BY <2>1 DEF SlotInv, WriterShape
  <2>3. engine # "down"
    BY <2>1 DEF SlotInv, RotateInv, IdleWriter
  <2>4. WrittenRecord' = e
    BY <2>1, <2>2 DEF WrittenRecord
  <2> HIDE DEF e
  <2>5. /\ Len(wal') = Len(wal) + 1
        /\ DOMAIN wal' = 1 .. Len(wal) + 1
        /\ wal'[Len(wal) + 1] = e
        /\ \A i \in 1 .. Len(wal) : wal'[i] = wal[i]
        /\ wal' # <<>>
    <3>1. e \in Logged
      <4>1. Len(wal') \in 1 .. Len(wal') /\ wal' \in Seq(Logged)
        BY <1>2, <2>1 DEF TypeInv, LogTypes
      <4>2. wal'[Len(wal')] = e
        BY <1>2, <2>1
      <4> QED
        BY <4>1, <4>2, ElementOfSeq
    <3> QED
      BY <1>2, <2>1, <3>1
  <2>6. \A i \in 1 .. Len(wal) : wal[i].sequence < nextSequence
    BY <1>2, <2>1, <2>3 DEF LogInv, LogBelow
  <2>7. e.sequence = nextSequence
    BY DEF e
  <2>8. StrictlyIncreasing(wal)'
    <3> SUFFICES ASSUME NEW i \in DOMAIN wal', NEW j \in DOMAIN wal', i < j
                 PROVE  wal'[i].sequence < wal'[j].sequence
      BY DEF StrictlyIncreasing
    <3>1. i \in 1 .. Len(wal) /\ wal'[i] = wal[i]
      BY <1>2, <2>5
    <3>2. CASE j = Len(wal) + 1
      BY <2>5, <2>6, <2>7, <3>1, <3>2
    <3>3. CASE j \in 1 .. Len(wal)
      BY <1>2, <2>5, <3>1, <3>3 DEF LogInv, StrictlyIncreasing
    <3> QED
      BY <1>2, <2>5, <3>2, <3>3
  <2>9. WriterLog'
    BY <1>2, <2>1, <2>2, <2>4, <2>5 DEF WriterLog
  <2>10. LogBelow'
    BY <1>2, <2>1, <2>2, <2>5, <2>6 DEF LogBelow
  <2>11. MemoryBelow'
    <3>1. Bound' = Bound
      BY <2>1, <2>2 DEF Bound
    <3> QED
      BY <1>1, <2>1, <3>1, BelowFrame
  <2> QED
    BY <2>8, <2>9, <2>10, <2>11 DEF LogInv
<1>12. CASE SyncWal
  <2>1. /\ writer.pc = "fsync" /\ writer'.pc = "apply"
        /\ writer'.key = writer.key /\ writer'.operation = writer.operation
        /\ writer'.sequence = writer.sequence
        /\ nextSequence' = writer.sequence + 1
        /\ UNCHANGED <<engine, wal, active, immutable, manifest, manifestDisk>>
    BY <1>12 DEF SyncWal, SlotInv, WriterShape
  <2>2. /\ wal # <<>> /\ wal[Len(wal)] = WrittenRecord
        /\ writer.sequence = nextSequence
    BY <2>1 DEF LogInv, WriterLog
  <2>3. StrictlyIncreasing(wal)'
    BY <2>1 DEF LogInv, StrictlyIncreasing
  <2>4. WriterLog'
    BY <2>1, <2>2 DEF WriterLog, WrittenRecord
  <2>5. LogBelow'
    <3>1. WrittenRecord.sequence = nextSequence
      BY <2>2 DEF WrittenRecord
    <3> QED
      BY <1>2, <1>3, <1>4, <2>1, <2>2, <3>1 DEF LogInv, LogBelow
  <2>6. MemoryBelow'
    <3>1. Bound' = Bound
      BY <2>1, <2>2 DEF Bound
    <3> QED
      BY <1>1, <2>1, <3>1, BelowFrame
  <2> QED
    BY <2>3, <2>4, <2>5, <2>6 DEF LogInv
<1>13. CASE ApplyWrite
  <2>1. /\ writer.pc = "apply" /\ writer' = IdleWriter
        /\ active' = {s \in active : s.key # WrittenRecord.key} \cup {WrittenRecord}
        /\ UNCHANGED <<engine, immutable, wal, nextSequence, manifest, manifestDisk>>
    BY <1>13 DEF ApplyWrite, MemtablePut
  <2>2. writer.sequence + 1 = nextSequence /\ writer.sequence \in Nat
    BY <2>1 DEF LogInv, WriterLog, TypeInv, WriterTypes
  <2>3. StrictlyIncreasing(wal)'
    BY <2>1 DEF LogInv, StrictlyIncreasing
  <2>4. WriterLog'
    BY <2>1 DEF WriterLog, IdleWriter
  <2>5. LogBelow'
    BY <2>1 DEF LogInv, LogBelow
  <2>6. MemoryBelow'
    <3> SUFFICES ASSUME engine' # "down" PROVE MemoryBelow'
      BY DEF MemoryBelow
    <3>1. Bound = writer.sequence /\ Bound' = writer.sequence + 1
      BY <2>1, <2>2 DEF Bound, IdleWriter
    <3>2. /\ \A r \in active \cup immutable : r.sequence < Bound
          /\ manifest.checkpoint < Bound
          /\ manifestDisk.checkpoint < Bound
      BY <2>1 DEF LogInv, MemoryBelow
    <3>3. \A r \in active \cup immutable : r.sequence \in Nat
      BY SequenceAssumption DEF TypeInv, MemoryTypes, IsMemtable, Logged
    <3>4. manifest.checkpoint \in Int /\ manifestDisk.checkpoint \in Int
      BY SequenceAssumption DEF TypeInv, ManifestTypes, IsManifest, Value, Absent
    <3>5. WrittenRecord.sequence = writer.sequence
      BY DEF WrittenRecord
    <3>6. \A r \in active' \cup immutable' : r.sequence < Bound'
      BY <2>1, <2>2, <3>1, <3>2, <3>3, <3>5
    <3>7. manifest'.checkpoint < Bound' /\ manifestDisk'.checkpoint < Bound'
      BY <2>1, <2>2, <3>1, <3>2, <3>4
    <3> QED
      BY <3>6, <3>7 DEF MemoryBelow
  <2> QED
    BY <2>3, <2>4, <2>5, <2>6 DEF LogInv
<1> QED
  BY <1>6, <1>7, <1>8, <1>9, <1>10, <1>11, <1>12, <1>13 DEF WriterStep
\* The checkpoint of an edit is the old one or the highest number of the slot.
LEMMA EditBelow ==
    ASSUME TypeInv, SlotInv, LogInv, engine # "down",
           worker.pc \in {"commit", "publish"}
    PROVE  EditedManifest.checkpoint < Bound
<1>1. CASE worker.task = {}
  BY <1>1 DEF EditedManifest, LogInv, MemoryBelow
<1>2. CASE worker.task # {}
  <2>1. immutable = worker.task
    BY <1>2 DEF SlotInv, TaskInv
  <2>2. PICK r \in immutable : r.sequence = HighestSequence(worker.task)
    BY <1>2, <2>1, HighestOf DEF TypeInv, MemoryTypes, IsMemtable
  <2> QED
    BY <1>2, <2>2 DEF EditedManifest, LogInv, MemoryBelow
<1> QED
  BY <1>1, <1>2

LEMMA WorkerPreservesLogInv ==
    ASSUME TypeInv, TypeInv', SlotInv, LogInv, WorkerStep
    PROVE  LogInv'
<1> USE DEF memory, disk, manifests, readVars
<1>1. Bound \in Nat /\ Bound' \in Nat
  BY SequenceAssumption DEF TypeInv, WriterTypes, LogTypes, Bound
<1>2. ASSUME UNCHANGED <<engine, wal, writer, nextSequence, manifest, manifestDisk>>,
             active' \cup immutable' \subseteq active \cup immutable
      PROVE  LogInv'
  <2>1. Bound' = Bound
    BY <1>2 DEF Bound
  <2> QED
    BY <1>1, <1>2, <2>1, LogFrame, BelowFrame DEF LogInv
<1>3. CASE PopTask
  BY <1>2, <1>3 DEF PopTask
<1>4. CASE BuildSstable
  BY <1>2, <1>4 DEF BuildSstable, DirectorySynced
<1>5. CASE MergeSstables
  <2>1. UNCHANGED <<engine, memory, writer, nextSequence, wal, manifest>>
    BY <1>5 DEF MergeSstables
  <2>2. UNCHANGED manifestDisk
    BY <1>5 DEF MergeSstables, DirectorySynced
  <2> QED
    BY <1>2, <2>1, <2>2
<1>6. ASSUME worker.pc \in {"commit", "publish"},
             UNCHANGED <<engine, memory, wal, writer, nextSequence>>,
             manifest' \in {manifest, EditedManifest},
             manifestDisk' \in {manifestDisk, EditedManifest}
      PROVE  LogInv'
  <2>1. MemoryBelow'
    <3>1. engine # "down"
      BY <1>6 DEF SlotInv, RotateInv, IdleWorker
    <3>2. EditedManifest.checkpoint < Bound
      BY <1>6, <3>1, EditBelow
    <3>3. Bound' = Bound
      BY <1>6 DEF Bound
    <3> QED
      BY <1>6, <3>1, <3>2, <3>3 DEF LogInv, MemoryBelow
  <2> QED
    BY <1>6, <2>1, LogFrame DEF LogInv
<1>7. CASE CommitManifest
  BY <1>6, <1>7 DEF CommitManifest
<1>8. CASE PublishManifest
  BY <1>6, <1>8 DEF PublishManifest, DirectorySynced
<1>9. CASE ClearSlot
  BY <1>2, <1>9 DEF ClearSlot
<1>10. CASE ReclaimWal
  <2>1. /\ worker.pc = "reclaim" /\ writer.pc = "idle"
        /\ wal' = Beyond(HighestSequence(worker.task), wal)
        /\ nextSequence' = AtLeast(nextSequence, SequenceAfter(wal))
        /\ UNCHANGED <<engine, memory, writer, manifest, manifestDisk>>
    BY <1>10 DEF ReclaimWal
  <2>2. engine # "down"
    BY <2>1 DEF SlotInv, RotateInv, IdleWorker
  <2>3. wal \in Seq(Logged) /\ nextSequence \in Nat /\ StrictlyIncreasing(wal)
        /\ Len(wal) \in Nat /\ DOMAIN wal = 1 .. Len(wal)
    BY LenProperties DEF TypeInv, LogTypes, LogInv
  <2>4. \A i \in 1 .. Len(wal) : wal[i].sequence < nextSequence
    BY <2>1, <2>2, <2>3 DEF LogInv, LogBelow
  <2>5. nextSequence' = nextSequence
    <3>1. CASE wal = <<>>
      BY <2>1, <2>3, <3>1 DEF AtLeast, SequenceAfter
    <3>2. CASE wal # <<>>
      <4>1. Len(wal) \in 1 .. Len(wal)
        BY <2>3, <3>2
      <4>2. wal[Len(wal)] \in Logged
        BY <2>3, <4>1, ElementOfSeq
      <4>3. wal[Len(wal)].sequence \in Nat
        BY <4>2, SequenceAssumption DEF Logged
      <4> QED
        BY <2>1, <2>3, <2>4, <3>2, <4>1, <4>3 DEF AtLeast, SequenceAfter
    <3> QED
      BY <3>1, <3>2
  <2>6. CASE HighestSequence(worker.task) \in Int
    <3>1. PICK c \in 0 .. Len(wal) :
              /\ DOMAIN wal' = 1 .. Len(wal) - c
              /\ \A i \in 1 .. Len(wal) - c : wal'[i] = wal[c + i]
      <4> DEFINE cp == HighestSequence(worker.task)
      <4>1. cp \in Int /\ wal' = Beyond(cp, wal)
        BY <2>1, <2>6
      <4> HIDE DEF cp
      <4>2. \E c \in 0 .. Len(wal) :
                /\ DOMAIN Beyond(cp, wal) = 1 .. Len(wal) - c
                /\ \A i \in 1 .. Len(wal) - c : Beyond(cp, wal)[i] = wal[c + i]
        BY <2>3, <4>1, BeyondIsSuffix
      <4> QED
        BY <4>1, <4>2
    <3>2. \A i \in 1 .. Len(wal) - c : c + i \in 1 .. Len(wal)
      BY <2>3
    <3>3. StrictlyIncreasing(wal)'
      <4> SUFFICES ASSUME NEW i \in DOMAIN wal', NEW j \in DOMAIN wal', i < j
                   PROVE  wal'[i].sequence < wal'[j].sequence
        BY DEF StrictlyIncreasing
      <4>1. wal'[i] = wal[c + i] /\ wal'[j] = wal[c + j] /\ c + i < c + j
        BY <3>1
      <4>2. c + i \in DOMAIN wal /\ c + j \in DOMAIN wal
        BY <2>3, <3>1, <3>2
      <4> QED
        BY <2>3, <4>1, <4>2 DEF StrictlyIncreasing
    <3>4. WriterLog'
      BY <2>1 DEF WriterLog
    <3>5. LogBelow'
      BY <2>4, <2>5, <3>1, <3>2 DEF LogBelow
    <3>6. MemoryBelow'
      <4>1. Bound' = Bound
        BY <2>1, <2>5 DEF Bound
      <4> QED
        BY <1>1, <2>1, <4>1, BelowFrame
    <3> QED
      BY <3>3, <3>4, <3>5, <3>6 DEF LogInv
  <2>7. worker.task # {}
    BY <2>1 DEF SlotInv, TaskInv
  <2> QED
    BY <2>6, <2>7, HighestOf DEF TypeInv, WorkerTypes, IsMemtable
<1>11. CASE SkipCompaction
  BY <1>2, <1>11 DEF SkipCompaction
<1>12. CASE PlanCompaction
  BY <1>2, <1>12 DEF PlanCompaction
<1>13. CASE FailWorker
  BY <1>2, <1>13 DEF FailWorker
<1>14. CASE ExitWorker
  BY <1>2, <1>14 DEF ExitWorker
<1> QED
  BY <1>3, <1>4, <1>5, <1>7, <1>8, <1>9, <1>10, <1>11, <1>12, <1>13, <1>14
  DEF WorkerStep
\* A get() changes nothing but the state of its reader.
LEMMA ReaderFrame ==
    ASSUME NEW r \in Readers, ReaderStep(r)
    PROVE  UNCHANGED <<engine, memory, backgroundError, writer, worker,
                       nextSequence, disk, manifest, nextSstableId, crashes>>
BY DEF ReaderStep, CallGet, ReadMemory, ReadManifest, ReadFiles

LEMMA ReplayedFromLog ==
    Replayed \subseteq WalRecords
BY DEF Replayed, Merge, After

LEMMA LifecyclePreservesLogInv ==
    ASSUME TypeInv, TypeInv', SlotInv, LogInv, LifecycleStep
    PROVE  LogInv'
<1> USE DEF memory, disk, manifests, readVars
<1>1. /\ wal \in Seq(Logged) /\ StrictlyIncreasing(wal)
      /\ Len(wal) \in Nat /\ DOMAIN wal = 1 .. Len(wal)
  BY LenProperties DEF TypeInv, LogTypes, LogInv
<1>2. Bound \in Nat /\ Bound' \in Nat
  BY SequenceAssumption DEF TypeInv, WriterTypes, LogTypes, Bound
<1>3. ASSUME UNCHANGED <<wal, writer, nextSequence, manifest, manifestDisk>>,
             engine # "down",
             active' \cup immutable' \subseteq active \cup immutable
      PROVE  LogInv'
  <2>1. Bound' = Bound
    BY <1>3 DEF Bound
  <2> QED
    BY <1>2, <1>3, <2>1, LogFrame, BelowFrame DEF LogInv
<1>4. ASSUME NEW kind \in CrashKinds, Crash(kind) PROVE LogInv'
  <2>1. engine' = "down" /\ writer' = IdleWriter
    BY <1>4 DEF Crash
  <2>2. PICK n \in 0 .. Len(wal) :
            /\ wal' \in Seq(Logged)
            /\ Len(wal') = n
            /\ \A i \in 1 .. n : wal'[i] = wal[i]
    BY <1>4, CrashedLog
  <2>3. DOMAIN wal' = 1 .. n
    BY <2>2, LenProperties
  <2>4. StrictlyIncreasing(wal)'
    <3>1. 1 .. n \subseteq DOMAIN wal
      BY <1>1
    <3> QED
      BY <1>1, <2>2, <2>3, <3>1 DEF StrictlyIncreasing
  <2> QED
    BY <2>1, <2>4 DEF LogInv, WriterLog, LogBelow, MemoryBelow, IdleWriter
<1>5. CASE BeginShutdown
  BY <1>3, <1>5 DEF BeginShutdown
<1>6. CASE FinalFlush
  BY <1>3, <1>6 DEF FinalFlush
<1>7. CASE JoinWorker
  BY <1>3, <1>7 DEF JoinWorker
<1>8. CASE Open
  <2>1. /\ writer = IdleWriter /\ immutable = {}
        /\ UNCHANGED <<immutable, writer, wal, manifestDisk>>
        /\ manifest' = manifestDisk
        /\ active' = Replayed
        /\ nextSequence' = AtLeast(SequenceAfter(wal), manifestDisk.checkpoint + 1)
    BY <1>8 DEF Open, SlotInv, RotateInv
  <2>2. manifestDisk.checkpoint \in Int
    BY SequenceAssumption DEF TypeInv, ManifestTypes, IsManifest, Value, Absent
  <2>3. SequenceAfter(wal) \in Int
    <3>1. CASE wal = <<>>
      BY <3>1 DEF SequenceAfter
    <3>2. CASE wal # <<>>
      <4>1. wal[Len(wal)] \in Logged
        BY <1>1, <3>2, ElementOfSeq
      <4> QED
        BY <3>2, <4>1, SequenceAssumption DEF SequenceAfter, Logged
    <3> QED
      BY <3>1, <3>2
  <2>4. /\ SequenceAfter(wal) <= nextSequence'
        /\ manifestDisk.checkpoint < nextSequence'
        /\ nextSequence' \in Int
    BY <2>1, <2>2, <2>3 DEF AtLeast
  <2>5. ASSUME NEW i \in DOMAIN wal PROVE wal[i].sequence < nextSequence'
    <3>1. wal[i].sequence < SequenceAfter(wal)
      BY <1>1, LastIsHighest
    <3>2. wal[i] \in Logged
      BY <1>1, ElementOfSeq
    <3>3. wal[i].sequence \in Nat
      BY <3>2, SequenceAssumption DEF Logged
    <3> QED
      BY <2>3, <2>4, <3>1, <3>3
  <2>6. StrictlyIncreasing(wal)' /\ WriterLog' /\ LogBelow'
    BY <1>1, <2>1, <2>5 DEF WriterLog, LogBelow, IdleWriter, StrictlyIncreasing
  <2>7. MemoryBelow'
    <3>1. Bound' = nextSequence'
      BY <2>1 DEF Bound, IdleWriter
    <3>2. \A r \in active' \cup immutable' : r.sequence < nextSequence'
      BY <2>1, <2>5, ReplayedFromLog DEF WalRecords
    <3> QED
      BY <2>1, <2>4, <3>1, <3>2 DEF MemoryBelow
  <2> QED
    BY <2>6, <2>7 DEF LogInv
<1> QED
  BY <1>4, <1>5, <1>6, <1>7, <1>8 DEF LifecycleStep

\* A number is in the file before it is consumed; no number in the Memtables
\* or in a checkpoint is still to be given out.
THEOREM LogInvIsInvariant == Spec => []LogInv
<1>1. TypeInv /\ TypeInv' /\ SlotInv /\ LogInv /\ [Next]_vars => LogInv'
  <2> SUFFICES ASSUME TypeInv, TypeInv', SlotInv, LogInv, [Next]_vars PROVE LogInv'
    OBVIOUS
  <2>1. ASSUME UNCHANGED <<engine, active, immutable, writer, nextSequence, wal,
                           manifest, manifestDisk>>
        PROVE  LogInv'
    BY <2>1 DEF LogInv, StrictlyIncreasing, WriterLog, WrittenRecord, LogBelow,
       MemoryBelow, Bound
  <2>2. ASSUME NEW r \in Readers, ReaderStep(r) PROVE LogInv'
    BY <2>1, <2>2, ReaderFrame DEF memory, disk, manifests
  <2>3. CASE UNCHANGED vars
    BY <2>1, <2>3 DEF vars, memory, disk, manifests
  <2> QED
    BY <2>2, <2>3, WriterPreservesLogInv, WorkerPreservesLogInv,
       LifecyclePreservesLogInv DEF Next
<1> QED
  BY <1>1, InitEstablishesLogInv, TypeInvIsInvariant, SlotInvIsInvariant, PTL DEF Spec

\* Whatever stops the process and whenever it does, recover() throws on nothing
\* that it finds: no SSTable of the MANIFEST is missing, the log is in order and
\* numbers remain.
THEOREM OpensAfterEveryStop == Spec => []DatabaseCanBeOpened
<1>1. TypeInv /\ LogInv => DatabaseCanBeOpened
  <2> SUFFICES ASSUME TypeInv, LogInv PROVE Recoverable
    BY DEF DatabaseCanBeOpened
  <2>1. \A f \in manifestDisk.files : f.path \in DOMAIN sstables
    BY DEF TypeInv, ManifestTypes, IsManifest, IsNamed
  <2>2. \A i \in DOMAIN wal : wal[i].sequence < MaxSequence
    <3> SUFFICES ASSUME NEW i \in DOMAIN wal PROVE wal[i].sequence < MaxSequence
      OBVIOUS
    <3>1. wal[i] \in Logged
      BY LenProperties, ElementOfSeq DEF TypeInv, LogTypes
    <3> QED
      BY <3>1, SequenceAssumption DEF Logged
  <2>3. manifestDisk.checkpoint < MaxSequence
    BY SequenceAssumption DEF TypeInv, ManifestTypes, IsManifest, Value, Absent
  <2> QED
    BY <2>1, <2>2, <2>3 DEF Recoverable, LogInv
<1> QED
  BY <1>1, TypeInvIsInvariant, LogInvIsInvariant, PTL
-----------------------------------------------------------------------------
(* The generations: the active Memtable, the immutable one, the files *)

\* Every record in the files is at or below the checkpoint and has a number of
\* its own; bottom files do not overlap.
IsConsistent(m, store) ==
    /\ \A r \in RecordsIn(m.files, store) : r.sequence <= m.checkpoint
    /\ SeqUnique(RecordsIn(m.files, store))
    /\ LevelOneDisjoint(m.files)

FilesInv ==
    /\ IsConsistent(manifest, sstables)
    /\ IsConsistent(manifestDisk, sstables)
    /\ \A m \in manifestPossible : IsConsistent(m, sstables)

\* Above the checkpoint the immutable Memtable, above that the active one.
\* When a flush is published and the slot not yet cleared, the newest records
\* of the files are those of the slot.
MemoryInv ==
    /\ engine = "down" => active = {}
    /\ SeqUnique(active) /\ SeqUnique(immutable)
    /\ \A r \in active : /\ manifest.checkpoint < r.sequence
                         /\ \A s \in immutable : s.sequence < r.sequence
    /\ worker.pc # "clear" => \A r \in immutable : manifest.checkpoint < r.sequence
    /\ worker.pc = "clear" =>
          /\ immutable \subseteq RecordsIn(manifest.files, sstables)
          /\ \A r \in immutable, s \in RecordsIn(manifest.files, sstables) \ immutable :
                s.sequence < r.sequence
    /\ worker.pc \in {"clear", "reclaim"} =>
          manifest.checkpoint = HighestSequence(worker.task)

\* The output of a compaction of these files.
IsOutput(add, files, store) ==
    /\ RecordsIn(add, store) = Merge(RecordsIn(PickCompaction(files), store), TRUE)
    /\ \A f \in add : LevelOf(f) = 1
    /\ \A f, g \in add : f = g

\* A flush adds one L0 file with the records of its Memtable.  A compaction
\* replaces its inputs, which are still live, by what they merge to.
EditInv ==
    /\ worker.pc \in {"build", "commit", "publish"} /\ worker.task # {} =>
          worker.remove = {}
    /\ worker.pc \in {"commit", "publish"} /\ worker.task # {} =>
          /\ RecordsIn(worker.add, sstables) = worker.task
          /\ \A f \in worker.add : LevelOf(f) = 0
    /\ worker.pc \in {"merge", "commit", "publish"} /\ worker.task = {} =>
          /\ ShouldCompact(manifest.files)
          /\ worker.remove = PickCompaction(manifest.files)
    /\ worker.pc \in {"commit", "publish"} /\ worker.task = {} =>
          IsOutput(worker.add, manifest.files, sstables)
    /\ worker.pc = "commit" =>
          \A f \in worker.add, g \in manifest.files : f.path # g.path

\* How the MANIFEST file and what a power loss may leave of it relate to the
\* view in memory.
ViewInv ==
    /\ manifestDisk \in manifestPossible
    /\ backgroundError => worker.pc = "exited"
    /\ worker.pc \in {"clear", "reclaim", "pick", "merge", "commit"} =>
          manifestPossible = {manifestDisk}
    /\ worker.pc = "publish" => /\ manifestDisk = EditedManifest
                                /\ manifestPossible = {manifest, manifestDisk}
    /\ engine # "down" /\ worker.pc # "publish" /\ ~backgroundError =>
          manifestDisk = manifest

GenInv ==
    /\ FilesInv
    /\ MemoryInv
    /\ EditInv
    /\ ViewInv

LEMMA EmptyManifestConsistent ==
    ASSUME NEW store
    PROVE  IsConsistent(EmptyManifest, store)
BY DEF EmptyManifest, IsConsistent, RecordsIn, SeqUnique, LevelOneDisjoint, AtLevel

LEMMA ConsistentStays ==
    ASSUME NEW s, NEW t, Extends(s, t), NEW m, IsNamed(m.files, s), IsConsistent(m, s)
    PROVE  IsConsistent(m, t)
BY NamedStays DEF IsConsistent

SameValues(R, S) == \A k : ValueIn(R, k) = ValueIn(S, k)

\* A compaction keeps the value of every key, and the bottom files apart.
LEMMA CompactionKeeps ==
    ASSUME NEW store, IsStore(store),
           NEW files, IsNamed(files, store), ShouldCompact(files),
           LevelOneDisjoint(files), SeqUnique(RecordsIn(files, store)),
           NEW add, IsNamed(add, store), IsOutput(add, files, store),
           NEW edited, edited = (files \ PickCompaction(files)) \cup add
    PROVE  /\ RecordsIn(edited, store) \subseteq RecordsIn(files, store)
           /\ LevelOneDisjoint(edited)
           /\ SameValues(RecordsIn(edited, store), RecordsIn(files, store))
<1> USE DEF IsOutput
<1> DEFINE Pick == PickCompaction(files)
           Keep == files \ Pick
           R == RecordsIn(Pick, store)
           K == RecordsIn(Keep, store)
           M == RecordsIn(add, store)
<1>1. Pick \in SUBSET files
  BY DEF PickCompaction, AtLevel
<1>2. files \subseteq Metadata /\ IsFiniteSet(files) /\ RangesAreOrdered(files)
  BY NamedFiles DEF IsNamed
<1>3. ASSUME NEW g \in Keep
      PROVE  \/ \A f \in Pick : f.largest_key < g.smallest_key
             \/ \A f \in Pick : g.largest_key < f.smallest_key
  BY <1>2, PickIsolates
<1>4. IsNamed(Pick, store) /\ IsNamed(Keep, store)
  BY <1>1, NamedSubset
<1>5. files = Pick \cup Keep /\ RecordsIn(files, store) = R \cup K
  <2>1. files = Pick \cup Keep
    BY <1>1
  <2> HIDE DEF Pick, Keep
  <2> QED
    BY <1>4, <2>1, NamedUnion
<1>6. RecordsIn(edited, store) = K \cup M
  BY <1>4, NamedUnion
<1>7. R \subseteq Logged /\ IsFiniteSet(R) /\ SeqUnique(R)
  BY <1>4, <1>5, NamedRecords DEF SeqUnique
<1>8. IsHistory(R)
  BY <1>7, LoggedRecords DEF IsHistory
<1>9. M = Merge(R, TRUE) /\ M \subseteq R
  BY DEF Merge
<1>10. /\ \A f \in files : f.smallest_key \in Int /\ f.largest_key \in Int
       /\ \A f \in add : f.smallest_key \in Int /\ f.largest_key \in Int
  <2>1. add \subseteq Metadata
    BY NamedFiles
  <2> QED
    BY <1>2, <2>1, KeysAssumption DEF Metadata
<1> HIDE DEF Pick, Keep, M
<1>11. ASSUME NEW r \in R
       PROVE  \E f \in Pick : f.smallest_key <= r.key /\ r.key <= f.largest_key
  <2>1. PICK f \in Pick : r \in store[f.path]
    BY DEF RecordsIn
  <2> QED
    BY <1>4, <2>1, NamedFiles DEF InRange
<1>12. ASSUME NEW r \in K
       PROVE  \E g \in Keep : g.smallest_key <= r.key /\ r.key <= g.largest_key
  <2>1. PICK g \in Keep : r \in store[g.path]
    BY DEF RecordsIn
  <2> QED
    BY <1>4, <2>1, NamedFiles DEF InRange
<1>13. ASSUME NEW r \in R, NEW s \in K PROVE r.key # s.key
  <2>1. PICK f \in Pick : f.smallest_key <= r.key /\ r.key <= f.largest_key
    BY <1>11
  <2>2. PICK g \in Keep : g.smallest_key <= s.key /\ s.key <= g.largest_key
    BY <1>12
  <2>3. r.key \in Int
    BY <1>7, KeysAssumption DEF Logged
  <2>4. f \in files /\ g \in files
    BY <1>5
  <2> QED
    BY <1>3, <1>10, <2>1, <2>2, <2>3, <2>4
<1>14. ASSUME NEW k
       PROVE  ValueIn(RecordsIn(edited, store), k) = ValueIn(RecordsIn(files, store), k)
  <2>1. /\ Versions(RecordsIn(edited, store), k) = Versions(K, k) \cup Versions(M, k)
        /\ Versions(RecordsIn(files, store), k) = Versions(R, k) \cup Versions(K, k)
    BY <1>5, <1>6 DEF Versions
  <2>2. CASE Versions(R, k) = {}
    <3>1. Versions(M, k) = {}
      BY <1>9, <2>2 DEF Versions
    <3> QED
      BY <2>1, <2>2, <3>1 DEF ValueIn
  <2>3. CASE Versions(R, k) # {}
    <3>1. Versions(K, k) = {}
      BY <1>13, <2>3 DEF Versions
    <3>2. ValueIn(M, k) = ValueIn(R, k)
      BY <1>8, <1>9, MergeValue
    <3> QED
      BY <2>1, <3>1, <3>2 DEF ValueIn
  <2> QED
    BY <2>2, <2>3
<1>15. ASSUME NEW f \in add, NEW g \in Keep
       PROVE  f.largest_key < g.smallest_key \/ g.largest_key < f.smallest_key
  <2>1. /\ f.smallest_key \in KeysOf(store[f.path])
        /\ f.largest_key \in KeysOf(store[f.path])
    BY NamedFiles
  <2>2. store[f.path] \subseteq R
    BY <1>9 DEF M, RecordsIn
  <2>3. PICK r \in R : r.key = f.smallest_key
    BY <2>1, <2>2 DEF KeysOf
  <2>4. PICK s \in R : s.key = f.largest_key
    BY <2>1, <2>2 DEF KeysOf
  <2>5. PICK a \in Pick : a.smallest_key <= r.key
    BY <1>11
  <2>6. PICK z \in Pick : s.key <= z.largest_key
    BY <1>11
  <2>7. a \in files /\ z \in files /\ g \in files
    BY <1>5
  <2> QED
    BY <1>3, <1>10, <2>3, <2>4, <2>5, <2>6, <2>7
<1>16. LevelOneDisjoint(edited)
  <2> SUFFICES ASSUME NEW f \in AtLevel(edited, 1), NEW g \in AtLevel(edited, 1), f # g
               PROVE  ~RangesOverlap(f.smallest_key, f.largest_key,
                                     g.smallest_key, g.largest_key)
    BY DEF LevelOneDisjoint
  <2>1. f \in Keep \cup add /\ g \in Keep \cup add
    BY DEF AtLevel, Pick, Keep
  <2>2. CASE f \in Keep /\ g \in Keep
    <3>1. f \in AtLevel(files, 1) /\ g \in AtLevel(files, 1)
      BY <1>5, <2>2 DEF AtLevel
    <3> QED
      BY <3>1 DEF LevelOneDisjoint
  <2>3. CASE f \in add /\ g \in Keep
    BY <1>15, <2>3 DEF RangesOverlap
  <2>4. CASE f \in Keep /\ g \in add
    BY <1>15, <2>4 DEF RangesOverlap
  <2> QED
    BY <2>1, <2>2, <2>3, <2>4
<1> QED
  BY <1>5, <1>6, <1>9, <1>14, <1>16 DEF SameValues

\* The records of a flush are above everything in the files.
LEMMA FlushKeeps ==
    ASSUME NEW store, NEW files, IsNamed(files, store), IsStore(store),
           NEW cp \in Int,
           \A r \in RecordsIn(files, store) : r.sequence <= cp,
           SeqUnique(RecordsIn(files, store)), LevelOneDisjoint(files),
           NEW T, T \subseteq Logged, IsFiniteSet(T), T # {}, SeqUnique(T),
           \A r \in T : cp < r.sequence,
           NEW add, IsNamed(add, store), RecordsIn(add, store) = T,
           \A f \in add : LevelOf(f) = 0
    PROVE  /\ RecordsIn(files \cup add, store) = RecordsIn(files, store) \cup T
           /\ \A r \in RecordsIn(files \cup add, store) :
                 r.sequence <= HighestSequence(T)
           /\ SeqUnique(RecordsIn(files \cup add, store))
           /\ LevelOneDisjoint(files \cup add)
           /\ cp < HighestSequence(T)
           /\ \A r \in T, s \in RecordsIn(files, store) : s.sequence < r.sequence
<1> DEFINE F == RecordsIn(files, store)
           h == HighestSequence(T)
<1>1. RecordsIn(files \cup add, store) = F \cup T
  BY NamedUnion
<1>2. F \subseteq Logged
  BY NamedRecords
<1>3. /\ h \in 0 .. MaxSequence - 1
      /\ \E r \in T : r.sequence = h
      /\ \A r \in T : r.sequence <= h
  BY HighestOf
<1> HIDE DEF F, h
<1>4. \A r \in F \cup T : r.sequence \in Nat
  BY <1>2, SequenceAssumption DEF Logged
<1>5. h \in Nat /\ cp < h
  BY <1>3, SequenceAssumption
<1>6. \A r \in T, s \in F : s.sequence < r.sequence
  BY <1>4 DEF F
<1>7. \A r \in F \cup T : r.sequence <= h
  BY <1>3, <1>4, <1>5 DEF F
<1>8. SeqUnique(F \cup T)
  <2> SUFFICES ASSUME NEW r \in F \cup T, NEW s \in F \cup T, r.sequence = s.sequence
               PROVE  r = s
    BY DEF SeqUnique
  <2>1. (r \in T /\ s \in T) \/ (r \in F /\ s \in F)
    BY <1>4, <1>6
  <2> QED
    BY <2>1 DEF SeqUnique, F
<1>9. AtLevel(files \cup add, 1) = AtLevel(files, 1)
  BY DEF AtLevel
<1>10. LevelOneDisjoint(files \cup add)
  BY <1>9 DEF LevelOneDisjoint
<1> QED
  BY <1>1, <1>5, <1>6, <1>7, <1>8, <1>10 DEF F, h

\* What the worker is about to make of the MANIFEST is as consistent as the
\* MANIFEST it starts from, and applyEdit() accepts it.
LEMMA EditKeeps ==
    ASSUME TypeInv, SlotInv, GenInv, worker.pc \in {"commit", "publish"}
    PROVE  /\ IsConsistent(EditedManifest, sstables)
           /\ manifest.checkpoint <= EditedManifest.checkpoint
           /\ worker.remove \subseteq manifest.files
           /\ worker.task # {} =>
                 /\ RecordsIn(EditedManifest.files, sstables)
                       = RecordsIn(manifest.files, sstables) \cup immutable
                 /\ \A r \in immutable, s \in RecordsIn(manifest.files, sstables) :
                       s.sequence < r.sequence
           /\ worker.task = {} =>
                 SameValues(RecordsIn(EditedManifest.files, sstables),
                            RecordsIn(manifest.files, sstables))
<1>1. /\ IsStore(sstables)
      /\ IsNamed(manifest.files, sstables)
      /\ IsNamed(worker.add, sstables)
      /\ manifest.checkpoint \in Int
  BY SequenceAssumption
  DEF TypeInv, StoreTypes, ManifestTypes, IsManifest, WorkerTypes, Value, Absent
<1>2. /\ \A r \in RecordsIn(manifest.files, sstables) : r.sequence <= manifest.checkpoint
      /\ SeqUnique(RecordsIn(manifest.files, sstables))
      /\ LevelOneDisjoint(manifest.files)
  BY DEF GenInv, FilesInv, IsConsistent
<1>3. CASE worker.task # {}
  <2>1. /\ worker.remove = {}
        /\ RecordsIn(worker.add, sstables) = immutable
        /\ \A f \in worker.add : LevelOf(f) = 0
        /\ immutable = worker.task
    BY <1>3 DEF GenInv, EditInv, SlotInv, TaskInv
  <2>2. /\ immutable \subseteq Logged /\ IsFiniteSet(immutable) /\ immutable # {}
        /\ SeqUnique(immutable)
        /\ \A r \in immutable : manifest.checkpoint < r.sequence
    BY <1>3, <2>1 DEF TypeInv, MemoryTypes, IsMemtable, GenInv, MemoryInv
  <2>3. /\ EditedManifest.files = manifest.files \cup worker.add
        /\ EditedManifest.checkpoint = HighestSequence(immutable)
    BY <1>3, <2>1 DEF EditedManifest
  <2>4. /\ RecordsIn(manifest.files \cup worker.add, sstables)
              = RecordsIn(manifest.files, sstables) \cup immutable
        /\ \A r \in RecordsIn(manifest.files \cup worker.add, sstables) :
              r.sequence <= HighestSequence(immutable)
        /\ SeqUnique(RecordsIn(manifest.files \cup worker.add, sstables))
        /\ LevelOneDisjoint(manifest.files \cup worker.add)
        /\ manifest.checkpoint < HighestSequence(immutable)
        /\ \A r \in immutable, s \in RecordsIn(manifest.files, sstables) :
              s.sequence < r.sequence
    <3> DEFINE F == manifest.files
               A == worker.add
               cp == manifest.checkpoint
    <3> HIDE DEF F, A, cp
    <3>1. /\ IsNamed(F, sstables) /\ IsStore(sstables) /\ cp \in Int
          /\ \A r \in RecordsIn(F, sstables) : r.sequence <= cp
          /\ SeqUnique(RecordsIn(F, sstables)) /\ LevelOneDisjoint(F)
          /\ \A r \in immutable : cp < r.sequence
          /\ IsNamed(A, sstables) /\ RecordsIn(A, sstables) = immutable
          /\ \A f \in A : LevelOf(f) = 0
      BY <1>1, <1>2, <2>1, <2>2 DEF F, A, cp
    <3>2. /\ RecordsIn(F \cup A, sstables) = RecordsIn(F, sstables) \cup immutable
          /\ \A r \in RecordsIn(F \cup A, sstables) :
                r.sequence <= HighestSequence(immutable)
          /\ SeqUnique(RecordsIn(F \cup A, sstables))
          /\ LevelOneDisjoint(F \cup A)
          /\ cp < HighestSequence(immutable)
          /\ \A r \in immutable, s \in RecordsIn(F, sstables) :
                s.sequence < r.sequence
      BY <2>2, <3>1, FlushKeeps
    <3> QED
      BY <3>2 DEF F, A, cp
  <2>5. HighestSequence(immutable) \in Int
    BY <2>2, HighestOf
  <2>6. IsConsistent(EditedManifest, sstables)
    BY <2>3, <2>4 DEF IsConsistent
  <2>7. manifest.checkpoint <= EditedManifest.checkpoint
    BY <1>1, <2>3, <2>4, <2>5
  <2> QED
    BY <1>3, <2>1, <2>3, <2>4, <2>6, <2>7
<1>4. CASE worker.task = {}
  <2>1. /\ ShouldCompact(manifest.files)
        /\ worker.remove = PickCompaction(manifest.files)
        /\ IsOutput(worker.add, manifest.files, sstables)
    BY <1>4 DEF GenInv, EditInv
  <2>2. /\ EditedManifest.files
              = (manifest.files \ PickCompaction(manifest.files)) \cup worker.add
        /\ EditedManifest.checkpoint = manifest.checkpoint
    BY <1>4, <2>1 DEF EditedManifest
  <2> DEFINE E == EditedManifest.files
  <2> HIDE DEF E
  <2>3. E = (manifest.files \ PickCompaction(manifest.files)) \cup worker.add
    BY <2>2 DEF E
  <2>5. /\ RecordsIn(E, sstables) \subseteq RecordsIn(manifest.files, sstables)
        /\ LevelOneDisjoint(E)
        /\ SameValues(RecordsIn(E, sstables), RecordsIn(manifest.files, sstables))
    <3> DEFINE F == manifest.files
               A == worker.add
    <3> HIDE DEF F, A
    <3>1. /\ IsNamed(F, sstables) /\ IsStore(sstables) /\ ShouldCompact(F)
          /\ LevelOneDisjoint(F) /\ SeqUnique(RecordsIn(F, sstables))
          /\ IsNamed(A, sstables) /\ IsOutput(A, F, sstables)
          /\ E = (F \ PickCompaction(F)) \cup A
      BY <1>1, <1>2, <2>1, <2>3 DEF F, A
    <3>2. /\ RecordsIn(E, sstables) \subseteq RecordsIn(F, sstables)
          /\ LevelOneDisjoint(E)
          /\ SameValues(RecordsIn(E, sstables), RecordsIn(F, sstables))
      BY <3>1, CompactionKeeps
    <3> QED
      BY <3>2 DEF F
  <2>6. IsConsistent(EditedManifest, sstables)
    BY <1>2, <2>2, <2>5 DEF IsConsistent, SeqUnique, E
  <2>7. worker.remove \subseteq manifest.files
    BY <2>1 DEF PickCompaction, AtLevel
  <2> QED
    BY <1>1, <1>4, <2>2, <2>5, <2>6, <2>7 DEF E
<1> QED
  BY <1>3, <1>4

LEMMA InitEstablishesGenInv == Init => GenInv
<1> SUFFICES ASSUME Init PROVE GenInv
  OBVIOUS
<1>1. FilesInv
  BY EmptyManifestConsistent DEF Init, FilesInv
<1>2. MemoryInv
  BY DEF Init, MemoryInv, SeqUnique, IdleWorker
<1>3. EditInv
  BY DEF Init, EditInv, IdleWorker
<1>4. ViewInv
  BY DEF Init, ViewInv, IdleWorker
<1> QED
  BY <1>1, <1>2, <1>3, <1>4 DEF GenInv

\* Files that are added leave the MANIFESTs as they were.
LEMMA FilesStay ==
    ASSUME TypeInv, GenInv, Extends(sstables, sstables')
    PROVE  \A m \in {manifest, manifestDisk} \cup manifestPossible :
              /\ IsConsistent(m, sstables')
              /\ RecordsIn(m.files, sstables') = RecordsIn(m.files, sstables)
<1>1. \A m \in {manifest, manifestDisk} \cup manifestPossible :
          IsNamed(m.files, sstables) /\ IsConsistent(m, sstables)
  BY DEF TypeInv, ManifestTypes, IsManifest, GenInv, FilesInv
<1> QED
  BY <1>1, ConsistentStays, NamedStays

\* What a step leaves alone, part by part.
LEMMA GenFrame ==
    ASSUME GenInv
    PROVE  /\ UNCHANGED <<manifest, manifestDisk, manifestPossible, sstables>>
                 => FilesInv'
           /\ UNCHANGED <<engine, active, immutable, worker, manifest, sstables>>
                 => MemoryInv'
           /\ UNCHANGED <<worker, manifest, sstables>> => EditInv'
           /\ UNCHANGED <<engine, backgroundError, worker, manifest, manifestDisk,
                          manifestPossible>> => ViewInv'
<1>1. UNCHANGED <<worker, manifest>> => EditedManifest' = EditedManifest
  BY DEF EditedManifest
<1>2. UNCHANGED <<manifest, manifestDisk, manifestPossible, sstables>> => FilesInv'
  BY DEF GenInv, FilesInv
<1>3. UNCHANGED <<engine, active, immutable, worker, manifest, sstables>> => MemoryInv'
  BY DEF GenInv, MemoryInv
<1>4. UNCHANGED <<worker, manifest, sstables>> => EditInv'
  BY DEF GenInv, EditInv
<1>5. UNCHANGED <<engine, backgroundError, worker, manifest, manifestDisk,
                  manifestPossible>> => ViewInv'
  BY <1>1 DEF GenInv, ViewInv
<1> QED
  BY <1>2, <1>3, <1>4, <1>5

LEMMA WriterPreservesGenInv ==
    ASSUME TypeInv, SlotInv, LogInv, GenInv, WriterStep
    PROVE  GenInv'
<1> USE DEF memory, disk, manifests, readVars
<1>1. ASSUME UNCHANGED <<engine, active, immutable, backgroundError, worker,
                         manifest, manifestDisk, manifestPossible, sstables>>
      PROVE  GenInv'
  BY <1>1, GenFrame DEF GenInv
<1>2. ASSUME NEW k \in Keys, NEW operation \in Operations,
             NEW rotate \in BOOLEAN, LockForWrite(k, operation, rotate)
      PROVE  GenInv'
  BY <1>1, <1>2 DEF LockForWrite
<1>3. CASE RefuseWrite
  BY <1>1, <1>3 DEF RefuseWrite
<1>4. CASE PrepareInPlace
  BY <1>1, <1>4 DEF PrepareInPlace
<1>5. CASE PrepareRotating
  <2>1. /\ immutable = {} /\ immutable' = active /\ active' = {}
        /\ UNCHANGED <<engine, backgroundError, worker, manifest, manifestDisk,
                       manifestPossible, sstables>>
    BY <1>5 DEF PrepareRotating
  <2>2. worker.pc # "clear"
    BY <2>1 DEF SlotInv, TaskInv
  <2>3. MemoryInv'
    BY <2>1, <2>2 DEF GenInv, MemoryInv, SeqUnique
  <2> QED
    BY <2>1, <2>3, GenFrame DEF GenInv
<1>6. CASE AppendToWal
  BY <1>1, <1>6 DEF AppendToWal
<1>7. CASE RefuseSequence
  BY <1>1, <1>7 DEF RefuseSequence
<1>8. CASE SyncWal
  BY <1>1, <1>8 DEF SyncWal
<1>9. CASE ApplyWrite
  <2>1. /\ writer.pc = "apply" /\ active' = MemtablePut(active, WrittenRecord)
        /\ UNCHANGED <<engine, immutable, backgroundError, worker, manifest,
                       manifestDisk, manifestPossible, sstables>>
    BY <1>9 DEF ApplyWrite
  <2>2. engine # "down"
    BY <2>1 DEF SlotInv, RotateInv, IdleWriter
  <2>3. WrittenRecord.sequence = Bound
    BY <2>1 DEF WrittenRecord, Bound
  <2>4. active' \subseteq active \cup {WrittenRecord}
    BY <2>1 DEF MemtablePut
  <2>5. /\ \A r \in active \cup immutable : r.sequence < Bound
        /\ manifest.checkpoint < Bound
    BY <2>2 DEF LogInv, MemoryBelow
  <2>6. \A r \in active : r.sequence \in Nat
    BY SequenceAssumption DEF TypeInv, MemoryTypes, IsMemtable, Logged
  <2>7. Bound \in Nat
    BY BoundTyped
  <2>8. SeqUnique(active')
    BY <2>3, <2>4, <2>5, <2>6, <2>7 DEF GenInv, MemoryInv, SeqUnique
  <2>9. \A r \in active' : /\ manifest.checkpoint < r.sequence
                            /\ \A s \in immutable : s.sequence < r.sequence
    BY <2>3, <2>4, <2>5 DEF GenInv, MemoryInv
  <2>10. MemoryInv'
    BY <2>1, <2>2, <2>8, <2>9 DEF GenInv, MemoryInv
  <2> QED
    BY <2>1, <2>10, GenFrame DEF GenInv
<1> QED
  BY <1>2, <1>3, <1>4, <1>5, <1>6, <1>7, <1>8, <1>9 DEF WriterStep

\* What a flush or a compaction finds when it has written its file.
LEMMA FileWritten ==
    ASSUME TypeInv, SlotInv, NEW level \in Levels, NEW T, IsMemtable(T), T # {},
           sstables' = WithSstable(AllocatedPath(level), T),
           worker' = [worker EXCEPT !.pc = "commit",
                          !.add = {MetadataFor(AllocatedPath(level), T)}]
    PROVE  /\ Extends(sstables, sstables')
           /\ RecordsIn(worker'.add, sstables') = T
           /\ \A f \in worker'.add : LevelOf(f) = level
           /\ \A f, g \in worker'.add : f = g
           /\ \A f \in worker'.add, g \in manifest.files : f.path # g.path
           /\ worker'.pc = "commit" /\ UNCHANGED <<worker.task, worker.remove>>
<1> DEFINE p == AllocatedPath(level)
<1>1. p \in Path /\ p \notin DOMAIN sstables /\ p[1] = level
  BY AllocatedPathIsFree
<1>2. sstables' = [q \in DOMAIN sstables \cup {p} |-> IF q = p THEN T ELSE sstables[q]]
  BY DEF WithSstable
<1>3. /\ worker'.pc = "commit" /\ worker'.task = worker.task
      /\ worker'.remove = worker.remove /\ worker'.add = {MetadataFor(p, T)}
  BY DEF SlotInv, WorkerShape
<1> HIDE DEF p
<1>4. IsStore(sstables)
  BY DEF TypeInv, StoreTypes
<1>5. /\ Extends(sstables, sstables')
      /\ RecordsIn({MetadataFor(p, T)}, sstables') = T
      /\ MetadataFor(p, T).path = p
  BY <1>1, <1>2, <1>4, NewFile
<1>6. \A g \in manifest.files : g.path \in DOMAIN sstables
  BY DEF TypeInv, ManifestTypes, IsManifest, IsNamed
<1> QED
  BY <1>1, <1>3, <1>5, <1>6 DEF LevelOf

LEMMA WorkerPreservesGenInv ==
    ASSUME TypeInv, SlotInv, GenInv, WorkerStep
    PROVE  GenInv'
<1> USE DEF memory, disk, manifests, readVars
<1>1. /\ manifestDisk \in manifestPossible
      /\ backgroundError => worker.pc = "exited"
      /\ engine # "down" /\ worker.pc # "publish" /\ ~backgroundError =>
            manifestDisk = manifest
      /\ worker.pc # "idle" => engine # "down"
  BY DEF GenInv, ViewInv, SlotInv, RotateInv, IdleWorker
<1>2. ASSUME NEW T, T # {}, IsMemtable(T), NEW level \in Levels,
             worker.pc \in {"build", "merge"},
             sstables' = WithSstable(AllocatedPath(level), T),
             worker' = [worker EXCEPT !.pc = "commit",
                            !.add = {MetadataFor(AllocatedPath(level), T)}],
             DirectorySynced,
             UNCHANGED <<engine, active, immutable, backgroundError, manifest>>
      PROVE  FilesInv' /\ MemoryInv' /\ ViewInv'
  <2>1. /\ Extends(sstables, sstables')
        /\ worker'.pc = "commit" /\ worker'.task = worker.task
    BY <1>2, FileWritten
  <2>2. FilesInv'
    BY <1>1, <1>2, <2>1, FilesStay DEF FilesInv, DirectorySynced
  <2>3. MemoryInv'
    BY <1>2, <2>1 DEF GenInv, MemoryInv
  <2>4. ViewInv'
    BY <1>1, <1>2, <2>1 DEF ViewInv, DirectorySynced
  <2> QED
    BY <2>2, <2>3, <2>4
<1>3. CASE PopTask
  <2>1. /\ worker.pc = "idle" /\ worker'.pc = "build" /\ worker'.remove = {}
        /\ UNCHANGED <<engine, active, immutable, backgroundError, manifest,
                       manifestDisk, manifestPossible, sstables>>
    BY <1>3 DEF PopTask, IdleWorker
  <2>2. MemoryInv' /\ EditInv' /\ ViewInv'
    BY <2>1 DEF GenInv, MemoryInv, EditInv, ViewInv
  <2> QED
    BY <2>1, <2>2, GenFrame DEF GenInv
<1>4. CASE BuildSstable
  <2>1. /\ worker.pc = "build"
        /\ sstables' = WithSstable(AllocatedPath(0), worker.task)
        /\ worker' = [worker EXCEPT !.pc = "commit",
                          !.add = {MetadataFor(AllocatedPath(0), worker.task)}]
        /\ DirectorySynced
        /\ UNCHANGED <<engine, active, immutable, backgroundError, manifest>>
    BY <1>4, Zenon DEF BuildSstable
  <2>2. worker.task # {} /\ IsMemtable(worker.task) /\ 0 \in Levels
    BY <2>1 DEF SlotInv, TaskInv, TypeInv, WorkerTypes, Levels
  <2>3. FilesInv' /\ MemoryInv' /\ ViewInv'
    BY <1>2, <2>1, <2>2
  <2>4. EditInv'
    <3>1. /\ RecordsIn(worker'.add, sstables') = worker.task
          /\ \A f \in worker'.add : LevelOf(f) = 0
          /\ \A f \in worker'.add, g \in manifest.files : f.path # g.path
          /\ worker'.pc = "commit" /\ UNCHANGED <<worker.task, worker.remove>>
      BY <2>1, <2>2, FileWritten
    <3>2. worker.remove = {}
      BY <2>1, <2>2 DEF GenInv, EditInv
    <3> QED
      BY <2>1, <2>2, <3>1, <3>2 DEF EditInv
  <2> QED
    BY <2>3, <2>4 DEF GenInv
<1>5. CASE MergeSstables
  <2> DEFINE output == Merge(RecordsOf(worker.remove), CanDropTombstones)
             path == AllocatedPath(OutputLevel)
  <2>1. /\ worker.pc = "merge"
        /\ sstables' = IF output = {} THEN sstables ELSE WithSstable(path, output)
        /\ worker' = [worker EXCEPT
                        !.pc = "commit",
                        !.add = IF output = {} THEN {}
                                ELSE {MetadataFor(path, output)}]
        /\ IF output = {} THEN UNCHANGED manifests ELSE DirectorySynced
    BY <1>5, Zenon DEF MergeSstables
  <2>2. UNCHANGED <<engine, active, immutable, backgroundError, manifest>>
    BY <1>5 DEF MergeSstables
  <2>3. /\ worker.task = {}
        /\ ShouldCompact(manifest.files)
        /\ worker.remove = PickCompaction(manifest.files)
    BY <2>1 DEF SlotInv, TaskInv, GenInv, EditInv
  <2>4. OutputLevel = 1 /\ OutputLevel \in Levels /\ CanDropTombstones = TRUE
    BY DEF OutputLevel, Levels, CanDropTombstones
  <2>5. output = Merge(RecordsIn(worker.remove, sstables), TRUE)
    BY <2>4, RecordsOfIsIn
  <2>6. IsMemtable(output)
    <3>1. /\ RecordsIn(worker.remove, sstables) \subseteq Logged
          /\ IsFiniteSet(RecordsIn(worker.remove, sstables))
      BY NamedRecords DEF TypeInv, StoreTypes, WorkerTypes
    <3> QED
      BY <2>5, <3>1, MergeIsTable DEF IsMemtable
  <2> HIDE DEF output
  <2>7. CASE output = {}
    <3>1. /\ worker'.pc = "commit" /\ worker'.task = worker.task
          /\ worker'.remove = worker.remove /\ worker'.add = {}
          /\ UNCHANGED <<sstables, manifestDisk, manifestPossible>>
      BY <2>1, <2>7 DEF SlotInv, WorkerShape
    <3>2. MemoryInv' /\ ViewInv'
      BY <2>1, <2>2, <3>1 DEF GenInv, MemoryInv, ViewInv
    <3>3. IsOutput({}, manifest.files, sstables)
      BY <2>3, <2>5, <2>7 DEF IsOutput, RecordsIn
    <3>4. EditInv'
      BY <2>2, <2>3, <3>1, <3>3 DEF EditInv
    <3> QED
      BY <2>2, <3>1, <3>2, <3>4, GenFrame DEF GenInv
  <2>8. CASE output # {}
    <3>1. /\ sstables' = WithSstable(path, output)
          /\ worker' = [worker EXCEPT !.pc = "commit",
                                      !.add = {MetadataFor(path, output)}]
          /\ DirectorySynced
      BY <2>1, <2>8
    <3>2. FilesInv' /\ MemoryInv' /\ ViewInv'
      BY <1>2, <2>1, <2>2, <2>4, <2>6, <2>8, <3>1, Zenon
    <3>3. /\ Extends(sstables, sstables')
          /\ RecordsIn(worker'.add, sstables') = output
          /\ \A f \in worker'.add : LevelOf(f) = OutputLevel
          /\ \A f, g \in worker'.add : f = g
          /\ \A f \in worker'.add, g \in manifest.files : f.path # g.path
          /\ worker'.pc = "commit" /\ UNCHANGED <<worker.task, worker.remove>>
      BY <2>4, <2>6, <2>8, <3>1, FileWritten, Zenon
    <3>4. RecordsIn(worker.remove, sstables') = RecordsIn(worker.remove, sstables)
      BY <3>3, NamedStays DEF TypeInv, WorkerTypes
    <3>5. IsOutput(worker'.add, manifest.files, sstables')
      BY <2>3, <2>4, <2>5, <3>3, <3>4 DEF IsOutput
    <3>6. EditInv'
      BY <2>2, <2>3, <3>3, <3>5 DEF EditInv
    <3> QED
      BY <3>2, <3>6 DEF GenInv
  <2> QED
    BY <2>7, <2>8
<1>6. CASE CommitManifest
  <2>1. /\ worker.pc = "commit"
        /\ manifestDisk' = EditedManifest
        /\ manifestPossible' = manifestPossible \cup {EditedManifest}
        /\ UNCHANGED <<engine, active, immutable, backgroundError, manifest, sstables>>
        /\ worker' = [worker EXCEPT !.pc = "publish"]
    BY <1>6 DEF CommitManifest
  <2>2. /\ worker'.pc = "publish" /\ worker'.task = worker.task
        /\ worker'.remove = worker.remove /\ worker'.add = worker.add
    BY <2>1 DEF SlotInv, WorkerShape
  <2>3. FilesInv'
    <3>1. IsConsistent(EditedManifest, sstables)
      BY <2>1, EditKeeps
    <3> QED
      BY <2>1, <3>1 DEF GenInv, FilesInv
  <2>4. MemoryInv' /\ EditInv'
    BY <2>1, <2>2 DEF GenInv, MemoryInv, EditInv
  <2>5. EditedManifest' = EditedManifest
    BY <2>1, <2>2 DEF EditedManifest
  <2>6. manifestPossible = {manifestDisk} /\ manifestDisk = manifest
    BY <1>1, <2>1 DEF GenInv, ViewInv
  <2>7. ViewInv'
    BY <1>1, <2>1, <2>2, <2>5, <2>6 DEF ViewInv
  <2> QED
    BY <2>3, <2>4, <2>7 DEF GenInv
<1>7. CASE PublishManifest
  <2>1. /\ worker.pc = "publish"
        /\ manifestDisk' = manifestDisk /\ manifestPossible' = {manifestDisk}
        /\ manifest' = EditedManifest
        /\ worker' = IF worker.task = {} THEN IdleWorker
                     ELSE [worker EXCEPT !.pc = "clear"]
        /\ UNCHANGED <<engine, active, immutable, backgroundError, sstables>>
    BY <1>7 DEF PublishManifest, DirectorySynced
  <2>2. manifestDisk = EditedManifest
    BY <2>1 DEF GenInv, ViewInv
  <2>3. FilesInv'
    <3>1. IsConsistent(EditedManifest, sstables)
      BY <2>1, EditKeeps
    <3> QED
      BY <2>1, <2>2, <3>1 DEF FilesInv
  <2>4. CASE worker.task = {}
    <3>1. worker' = IdleWorker /\ manifest'.checkpoint = manifest.checkpoint
      BY <2>1, <2>4 DEF EditedManifest
    <3>2. MemoryInv' /\ EditInv' /\ ViewInv'
      BY <1>1, <2>1, <2>2, <3>1 DEF GenInv, MemoryInv, EditInv, ViewInv, IdleWorker
    <3> QED
      BY <2>3, <3>2 DEF GenInv
  <2>5. CASE worker.task # {}
    <3>1. /\ worker'.pc = "clear" /\ worker'.task = worker.task
          /\ manifest'.checkpoint = HighestSequence(immutable)
          /\ immutable = worker.task
      BY <2>1, <2>5 DEF SlotInv, WorkerShape, TaskInv, EditedManifest
    <3>2. /\ RecordsIn(manifest'.files, sstables)
                = RecordsIn(manifest.files, sstables) \cup immutable
          /\ \A r \in immutable, s \in RecordsIn(manifest.files, sstables) :
                s.sequence < r.sequence
      BY <2>1, <2>5, EditKeeps
    <3>3. PICK s \in immutable : s.sequence = HighestSequence(immutable)
      BY <2>5, <3>1, HighestOf DEF TypeInv, MemoryTypes, IsMemtable
    <3>4. \A r \in active : manifest'.checkpoint < r.sequence
      BY <3>1, <3>3 DEF GenInv, MemoryInv
    <3>5. MemoryInv'
      BY <1>1, <2>1, <3>1, <3>2, <3>4 DEF GenInv, MemoryInv
    <3>6. EditInv' /\ ViewInv'
      BY <1>1, <2>1, <2>2, <3>1 DEF EditInv, ViewInv
    <3> QED
      BY <2>3, <3>5, <3>6 DEF GenInv
  <2> QED
    BY <2>4, <2>5
<1>8. CASE ClearSlot
  <2>1. /\ worker.pc = "clear" /\ immutable' = {}
        /\ worker' = [worker EXCEPT !.pc = "reclaim"]
        /\ UNCHANGED <<engine, active, backgroundError, manifest, manifestDisk,
                       manifestPossible, sstables>>
    BY <1>8 DEF ClearSlot
  <2>2. worker'.pc = "reclaim" /\ worker'.task = worker.task
    BY <2>1 DEF SlotInv, WorkerShape
  <2>3. MemoryInv' /\ EditInv' /\ ViewInv'
    BY <1>1, <2>1, <2>2 DEF GenInv, MemoryInv, EditInv, ViewInv, SeqUnique
  <2> QED
    BY <2>1, <2>3, GenFrame DEF GenInv
<1>9. CASE ReclaimWal
  <2>1. /\ worker.pc = "reclaim"
        /\ UNCHANGED <<engine, active, immutable, backgroundError, manifest,
                       manifestDisk, manifestPossible, sstables>>
    BY <1>9 DEF ReclaimWal
  <2>2. worker' = [IdleWorker EXCEPT !.pc = "pick"]
    BY <1>9, Zenon DEF ReclaimWal
  <2>3. worker'.pc = "pick" /\ worker'.task = {}
    BY <2>2 DEF IdleWorker
  <2>4. MemoryInv' /\ EditInv' /\ ViewInv'
    BY <1>1, <2>1, <2>3 DEF GenInv, MemoryInv, EditInv, ViewInv
  <2> QED
    BY <2>1, <2>4, GenFrame DEF GenInv
<1>10. CASE SkipCompaction
  <2>1. /\ worker.pc = "pick" /\ worker'.pc = "idle" /\ worker'.task = {}
        /\ UNCHANGED <<engine, active, immutable, backgroundError, manifest,
                       manifestDisk, manifestPossible, sstables>>
    BY <1>10 DEF SkipCompaction, IdleWorker
  <2>2. MemoryInv' /\ EditInv' /\ ViewInv'
    BY <1>1, <2>1 DEF GenInv, MemoryInv, EditInv, ViewInv
  <2> QED
    BY <2>1, <2>2, GenFrame DEF GenInv
<1>11. CASE PlanCompaction
  <2>1. /\ worker.pc = "pick" /\ ShouldCompact(manifest.files)
        /\ worker' = [worker EXCEPT !.pc = "merge",
                                    !.remove = PickCompaction(manifest.files)]
        /\ UNCHANGED <<engine, active, immutable, backgroundError, manifest,
                       manifestDisk, manifestPossible, sstables>>
    BY <1>11 DEF PlanCompaction
  <2>2. /\ worker'.pc = "merge" /\ worker'.task = worker.task
        /\ worker'.remove = PickCompaction(manifest.files)
    BY <2>1 DEF SlotInv, WorkerShape
  <2>3. MemoryInv' /\ EditInv' /\ ViewInv'
    BY <1>1, <2>1, <2>2 DEF GenInv, MemoryInv, EditInv, ViewInv
  <2> QED
    BY <2>1, <2>3, GenFrame DEF GenInv
<1>12. CASE FailWorker
  <2>1. /\ worker.pc \in {"build", "commit", "publish", "reclaim", "merge"}
        /\ backgroundError' = TRUE
        /\ worker' = ExitedWorker
        /\ UNCHANGED <<engine, active, immutable, manifest, manifestDisk,
                       manifestPossible, sstables>>
    BY <1>12 DEF FailWorker
  <2>2. worker'.pc = "exited" /\ worker'.task = {}
    BY <2>1 DEF ExitedWorker, IdleWorker
  <2>3. MemoryInv' /\ EditInv' /\ ViewInv'
    BY <1>1, <2>1, <2>2 DEF GenInv, MemoryInv, EditInv, ViewInv
  <2> QED
    BY <2>1, <2>3, GenFrame DEF GenInv
<1>13. CASE ExitWorker
  <2>1. /\ worker.pc = "idle" /\ worker' = ExitedWorker
        /\ UNCHANGED <<engine, active, immutable, backgroundError, manifest,
                       manifestDisk, manifestPossible, sstables>>
    BY <1>13 DEF ExitWorker
  <2>2. worker'.pc = "exited" /\ worker'.task = {}
    BY <2>1 DEF ExitedWorker, IdleWorker
  <2>3. MemoryInv' /\ EditInv' /\ ViewInv'
    BY <1>1, <2>1, <2>2 DEF GenInv, MemoryInv, EditInv, ViewInv
  <2> QED
    BY <2>1, <2>3, GenFrame DEF GenInv
<1> QED
  BY <1>3, <1>4, <1>5, <1>6, <1>7, <1>8, <1>9, <1>10, <1>11, <1>12, <1>13
  DEF WorkerStep

LEMMA LogIsSeqUnique ==
    ASSUME TypeInv, LogInv
    PROVE  SeqUnique(WalRecords)
<1>1. wal \in Seq(Logged) /\ Len(wal) \in Nat /\ DOMAIN wal = 1 .. Len(wal)
  BY LenProperties DEF TypeInv, LogTypes
<1> SUFFICES ASSUME NEW i \in DOMAIN wal, NEW j \in DOMAIN wal,
                    wal[i].sequence = wal[j].sequence
             PROVE  i = j
  BY DEF SeqUnique, WalRecords
<1>2. wal[i] \in Logged /\ wal[j] \in Logged
  BY <1>1, ElementOfSeq
<1>3. wal[i].sequence \in Nat
  BY <1>2, SequenceAssumption DEF Logged
<1>4. ~(i < j) /\ ~(j < i)
  BY <1>3 DEF LogInv, StrictlyIncreasing
<1> QED
  BY <1>1, <1>4

LEMMA LifecyclePreservesGenInv ==
    ASSUME TypeInv, SlotInv, LogInv, GenInv, LifecycleStep
    PROVE  GenInv'
<1> USE DEF memory, disk, manifests, readVars
<1>1. ASSUME UNCHANGED <<active, immutable, backgroundError, worker, manifest,
                         manifestDisk, manifestPossible, sstables>>,
             engine # "down", engine' # "down"
      PROVE  GenInv'
  <2>1. MemoryInv'
    BY <1>1 DEF GenInv, MemoryInv
  <2>2. EditedManifest' = EditedManifest
    BY <1>1 DEF EditedManifest
  <2>3. ViewInv'
    BY <1>1, <2>2 DEF GenInv, ViewInv
  <2> QED
    BY <1>1, <2>1, <2>3, GenFrame DEF GenInv
<1>2. CASE BeginShutdown
  BY <1>1, <1>2 DEF BeginShutdown
<1>3. CASE FinalFlush
  <2>1. /\ engine = "closing" /\ engine' = "draining"
        /\ UNCHANGED <<backgroundError, worker, manifest, manifestDisk,
                       manifestPossible, sstables>>
    BY <1>3 DEF FinalFlush
  <2>2. CASE UNCHANGED memory
    BY <1>1, <2>1, <2>2
  <2>3. CASE ~backgroundError /\ active # {}
    <3>1. /\ immutable = {} /\ immutable' = active /\ active' = {}
          /\ engine' = "draining"
      BY <1>3, <2>3 DEF FinalFlush
    <3>2. worker.pc # "clear"
      BY <3>1 DEF SlotInv, TaskInv
    <3>3. MemoryInv'
      BY <2>1, <3>1, <3>2 DEF GenInv, MemoryInv, SeqUnique
    <3>4. EditedManifest' = EditedManifest
      BY <2>1 DEF EditedManifest
    <3>5. ViewInv'
      BY <2>1, <3>1, <3>4 DEF GenInv, ViewInv
    <3> QED
      BY <2>1, <3>3, <3>5, GenFrame DEF GenInv
  <2> QED
    BY <1>3, <2>2, <2>3 DEF FinalFlush
<1>4. CASE JoinWorker
  BY <1>1, <1>4 DEF JoinWorker
<1>5. ASSUME NEW kind \in CrashKinds, Crash(kind) PROVE GenInv'
  <2>1. /\ engine' = "down" /\ active' = {} /\ immutable' = {}
        /\ backgroundError' = FALSE /\ worker' = IdleWorker
        /\ manifest' = EmptyManifest /\ sstables' = sstables
    BY <1>5 DEF Crash
  <2>2. /\ manifestDisk' \in manifestPossible
        /\ manifestPossible' \in {manifestPossible, {manifestDisk'}}
    BY <1>5 DEF Crash, GenInv, ViewInv
  <2>3. FilesInv'
    BY <2>1, <2>2, EmptyManifestConsistent DEF GenInv, FilesInv
  <2>4. MemoryInv' /\ EditInv' /\ ViewInv'
    BY <2>1, <2>2 DEF MemoryInv, EditInv, ViewInv, SeqUnique, IdleWorker
  <2> QED
    BY <2>3, <2>4 DEF GenInv
<1>6. CASE Open
  <2>1. /\ engine = "down" /\ engine' = "open" /\ manifest' = manifestDisk
        /\ active' = Replayed
        /\ UNCHANGED <<immutable, backgroundError, worker, manifestDisk,
                       manifestPossible, sstables>>
    BY <1>6 DEF Open
  <2>2. immutable = {} /\ worker = IdleWorker
    BY <2>1 DEF SlotInv, RotateInv
  <2>3. SeqUnique(Replayed)
    BY LogIsSeqUnique, ReplayedFromLog DEF SeqUnique
  <2>4. \A r \in Replayed : manifestDisk.checkpoint < r.sequence
    BY DEF Replayed, Merge, After
  <2>5. FilesInv'
    BY <2>1 DEF GenInv, FilesInv
  <2>6. MemoryInv' /\ EditInv' /\ ViewInv'
    BY <2>1, <2>2, <2>3, <2>4 DEF GenInv, MemoryInv, EditInv, ViewInv, SeqUnique,
       IdleWorker
  <2> QED
    BY <2>5, <2>6 DEF GenInv
<1> QED
  BY <1>2, <1>3, <1>4, <1>5, <1>6 DEF LifecycleStep

\* The generations stay apart: the checkpoint separates the files from the
\* Memtables, and an edit of the MANIFEST that is under way is as good as the
\* MANIFEST it starts from.
THEOREM GenInvIsInvariant == Spec => []GenInv
<1>1. TypeInv /\ SlotInv /\ LogInv /\ GenInv /\ [Next]_vars => GenInv'
  <2> SUFFICES ASSUME TypeInv, SlotInv, LogInv, GenInv, [Next]_vars PROVE GenInv'
    OBVIOUS
  <2>1. ASSUME NEW r \in Readers, ReaderStep(r) PROVE GenInv'
    BY <2>1, ReaderFrame, GenFrame DEF GenInv, memory, disk, manifests
  <2>2. CASE UNCHANGED vars
    BY <2>2, GenFrame DEF GenInv, vars, memory, disk, manifests
  <2> QED
    BY <2>1, <2>2, WriterPreservesGenInv, WorkerPreservesGenInv,
       LifecyclePreservesGenInv DEF Next
<1> QED
  BY <1>1, InitEstablishesGenInv, TypeInvIsInvariant, SlotInvIsInvariant,
     LogInvIsInvariant, PTL DEF Spec

\* Readers may stop at the first generation that knows their key: the order of
\* the sequence numbers is the order in which KronosEngine::get() asks.
THEOREM GenerationsStayOrdered == Spec => []GenerationsAreOrdered
<1>1. TypeInv /\ SlotInv /\ GenInv => GenerationsAreOrdered
  <2> SUFFICES ASSUME TypeInv, SlotInv, GenInv PROVE GenerationsAreOrdered
    OBVIOUS
  <2> DEFINE F == RecordsIn(manifest.files, sstables)
  <2>1. F \subseteq Logged
    BY NamedRecords DEF TypeInv, StoreTypes, ManifestTypes, IsManifest
  <2>2. \A s \in F : s.sequence <= manifest.checkpoint /\ s.sequence \in Nat
    BY <2>1, SequenceAssumption DEF GenInv, FilesInv, IsConsistent, Logged
  <2>3. manifest.checkpoint \in Int
    BY SequenceAssumption DEF TypeInv, ManifestTypes, IsManifest, Value, Absent
  <2>4. \A r \in active \cup immutable : r.sequence \in Nat
    BY SequenceAssumption DEF TypeInv, MemoryTypes, IsMemtable, Logged
  <2>5. RecordsOf(manifest.files) = F
    BY RecordsOfIsIn
  <2> HIDE DEF F
  <2>6. \A r \in active, s \in immutable \cup F : s.sequence < r.sequence
    BY <2>2, <2>3, <2>4 DEF GenInv, MemoryInv
  <2>7. CASE worker.pc # "clear"
    BY <2>2, <2>3, <2>4, <2>5, <2>6, <2>7 DEF GenInv, MemoryInv, GenerationsAreOrdered
  <2>8. CASE worker.pc = "clear"
    <3>1. manifest.checkpoint = HighestSequence(immutable)
      BY <2>8 DEF SlotInv, TaskInv, GenInv, MemoryInv
    <3> QED
      BY <2>5, <2>6, <3>1 DEF GenerationsAreOrdered
  <2> QED
    BY <2>7, <2>8
<1> QED
  BY <1>1, TypeInvIsInvariant, SlotInvIsInvariant, GenInvIsInvariant, PTL

\* No compaction leaves two bottom files that share a key, so the policy may
\* drop every tombstone it merges (compaction_policy.cpp:170-177, 199-215).
THEOREM BottomLevelStaysDisjoint == Spec => []BottomLevelIsDisjoint
<1>1. GenInv => BottomLevelIsDisjoint
  BY DEF GenInv, FilesInv, IsConsistent, LevelOneDisjoint, BottomLevelIsDisjoint
<1> QED
  BY <1>1, GenInvIsInvariant, PTL

\* Manifest::applyEdit() has no reason to throw (manifest.cpp:568-617).
THEOREM EditsAreNeverRejected == Spec => []ManifestEditsAreValid
<1>1. TypeInv /\ SlotInv /\ GenInv => ManifestEditsAreValid
  <2> SUFFICES ASSUME TypeInv, SlotInv, GenInv, worker.pc = "commit" PROVE EditIsValid
    BY DEF ManifestEditsAreValid
  <2>1. /\ manifest.checkpoint <= EditedManifest.checkpoint
        /\ worker.remove \subseteq manifest.files
    BY EditKeeps
  <2>2. \A f \in worker.add, g \in manifest.files : f.path # g.path
    BY DEF GenInv, EditInv
  <2> QED
    BY <2>1, <2>2 DEF EditIsValid
<1> QED
  BY <1>1, TypeInvIsInvariant, SlotInvIsInvariant, GenInvIsInvariant, PTL
=============================================================================
