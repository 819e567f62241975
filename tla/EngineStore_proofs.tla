-------------------------- MODULE EngineStore_proofs --------------------------
(***************************************************************************)
(* What the engine does for its callers: the log goes away only behind the *)
(* checkpoint, recovery yields what readers saw, reads are linearizable    *)
(* and every step is one of KronosStore.                                   *)
(***************************************************************************)
EXTENDS KronosEngine_proofs

-----------------------------------------------------------------------------
(* What the steps do to the records of the log *)

\* The records of the log whose write has been answered, or will be refused
\* no more: all but the one in flight.
Acknowledged == WalRecords \ InFlight

LEMMA LogTyped ==
    ASSUME TypeInv
    PROVE  /\ wal \in Seq(Logged) /\ Len(wal) \in Nat /\ DOMAIN wal = 1 .. Len(wal)
           /\ walSynced \in 0 .. Len(wal)
           /\ WalRecords \subseteq Logged /\ IsFiniteSet(WalRecords)
           /\ SyncedRecords \subseteq WalRecords
<1>1. /\ wal \in Seq(Logged) /\ Len(wal) \in Nat /\ DOMAIN wal = 1 .. Len(wal)
      /\ walSynced \in 0 .. Len(wal)
  BY LenProperties DEF TypeInv, LogTypes
<1>2. WalRecords \subseteq Logged
  BY <1>1, ElementOfSeq DEF WalRecords
<1>3. IsFiniteSet(WalRecords)
  <2>1. IsFiniteSet(1 .. Len(wal))
    BY <1>1, FS_Interval
  <2>2. wal = [i \in 1 .. Len(wal) |-> wal[i]]
    BY <1>1
  <2>3. IsFiniteSet({wal[i] : i \in 1 .. Len(wal)})
    BY <2>1, <2>2, FiniteImage
  <2> QED
    BY <1>1, <2>3 DEF WalRecords
<1>4. SyncedRecords \subseteq WalRecords
  BY <1>1 DEF SyncedRecords, WalRecords
<1> QED
  BY <1>1, <1>2, <1>3, <1>4

\* The record in flight is the last of the log, its number above the others.
LEMMA InFlightIsLast ==
    ASSUME TypeInv, SlotInv, LogInv
    PROVE  /\ InFlight \subseteq WalRecords
           /\ \A r \in Acknowledged : r.sequence \in Nat
           /\ \A r \in Acknowledged, s \in InFlight : r.sequence < s.sequence
           /\ engine # "down" => \A r \in Acknowledged : r.sequence < nextSequence
           /\ \A s \in InFlight : s \in Logged /\ s.sequence = Bound
<1>1. /\ wal \in Seq(Logged) /\ Len(wal) \in Nat /\ DOMAIN wal = 1 .. Len(wal)
      /\ WalRecords \subseteq Logged
  BY LogTyped
<1>2. \A i \in 1 .. Len(wal) : wal[i].sequence \in Nat
  <2>1. \A i \in 1 .. Len(wal) : wal[i] \in Logged
    BY <1>1, ElementOfSeq
  <2> QED
    BY <2>1, SequenceAssumption DEF Logged
<1>3. ASSUME writer.pc \in {"fsync", "apply"}
      PROVE  /\ Len(wal) \in 1 .. Len(wal)
             /\ wal[Len(wal)] = WrittenRecord
             /\ WrittenRecord.sequence = Bound
             /\ InFlight = {WrittenRecord}
  <2>1. wal # <<>> /\ wal[Len(wal)] = WrittenRecord
    BY <1>3 DEF LogInv, WriterLog
  <2>2. writer.sequence = Bound
    BY <1>3 DEF LogInv, WriterLog, Bound
  <2> QED
    BY <1>1, <1>3, <2>1, <2>2 DEF WrittenRecord, InFlight
<1>4. InFlight \subseteq WalRecords
  BY <1>1, <1>3 DEF InFlight, WalRecords
<1>5. ASSUME NEW r \in Acknowledged, NEW s \in InFlight
      PROVE  r.sequence < s.sequence
  <2>1. writer.pc \in {"fsync", "apply"}
    BY DEF InFlight
  <2>2. PICK i \in 1 .. Len(wal) : r = wal[i]
    BY <1>1 DEF Acknowledged, WalRecords
  <2>3. s = wal[Len(wal)] /\ r # s
    BY <1>3, <2>1 DEF Acknowledged
  <2>4. i < Len(wal)
    BY <1>1, <2>2, <2>3
  <2> QED
    BY <1>1, <1>3, <2>1, <2>2, <2>3, <2>4 DEF LogInv, StrictlyIncreasing
<1>6. ASSUME engine # "down", NEW r \in Acknowledged
      PROVE  r.sequence < nextSequence
  <2>1. PICK i \in DOMAIN wal : r = wal[i]
    BY DEF Acknowledged, WalRecords
  <2>2. ~(writer.pc = "fsync" /\ i = Len(wal))
    BY <1>3, <2>1 DEF Acknowledged
  <2> QED
    BY <1>6, <2>1, <2>2 DEF LogInv, LogBelow
<1> QED
  BY <1>1, <1>2, <1>3, <1>4, <1>5, <1>6 DEF Acknowledged, WalRecords, InFlight

\* Steps that leave the log and the write in progress alone.
LEMMA SameLog ==
    ASSUME UNCHANGED wal,
           UNCHANGED writer \/ ( /\ writer.pc \notin {"fsync", "apply"}
                                 /\ writer'.pc \notin {"fsync", "apply"})
    PROVE  /\ UNCHANGED <<WalRecords, InFlight, Acknowledged>>
BY DEF WalRecords, InFlight, Acknowledged, WrittenRecord

\* An append adds the record that is now in flight.
LEMMA LogOfAppend ==
    ASSUME TypeInv, SlotInv, LogInv, AppendToWal
    PROVE  /\ InFlight = {} /\ InFlight' = {WrittenRecord'}
           /\ WalRecords' = WalRecords \cup {WrittenRecord'}
           /\ Acknowledged' = Acknowledged
           /\ WrittenRecord'.key = writer.key
<1> DEFINE e == [key |-> writer.key, sequence |-> nextSequence,
                 operation |-> writer.operation]
<1>1. /\ writer.pc = "append" /\ wal' = Append(wal, e)
      /\ writer' = [writer EXCEPT !.pc = "fsync", !.sequence = nextSequence]
  BY DEF AppendToWal
<1>2. /\ writer'.pc = "fsync" /\ writer'.sequence = nextSequence
      /\ writer'.key = writer.key /\ writer'.operation = writer.operation
  BY <1>1 DEF SlotInv, WriterShape
<1>3. engine # "down"
  BY <1>1 DEF SlotInv, RotateInv, IdleWriter
<1>4. WrittenRecord' = e
  BY <1>2 DEF WrittenRecord
<1>5. /\ wal \in Seq(Logged) /\ Len(wal) \in Nat /\ DOMAIN wal = 1 .. Len(wal)
  BY LogTyped
<1>6. e.sequence = nextSequence /\ e.key = writer.key
  OBVIOUS
<1> HIDE DEF e
<1>7. /\ DOMAIN wal' = 1 .. Len(wal) + 1
      /\ wal'[Len(wal) + 1] = e
      /\ \A i \in 1 .. Len(wal) : wal'[i] = wal[i]
  BY <1>1, <1>5
<1>8. WalRecords' = WalRecords \cup {e}
  <2>1. ASSUME NEW x \in WalRecords' PROVE x \in WalRecords \cup {e}
    <3>1. PICK i \in 1 .. Len(wal) + 1 : x = wal'[i]
      BY <1>7 DEF WalRecords
    <3> QED
      BY <1>5, <1>7, <3>1 DEF WalRecords
  <2>2. ASSUME NEW x \in WalRecords \cup {e} PROVE x \in WalRecords'
    <3>1. CASE x = e
      <4>1. Len(wal) + 1 \in 1 .. Len(wal) + 1
        BY <1>5
      <4> QED
        BY <1>7, <3>1, <4>1 DEF WalRecords
    <3>2. CASE x \in WalRecords
      <4>1. PICK i \in 1 .. Len(wal) : x = wal[i]
        BY <1>5, <3>2 DEF WalRecords
      <4>2. i \in 1 .. Len(wal) + 1
        BY <1>5
      <4> QED
        BY <1>7, <4>1, <4>2 DEF WalRecords
    <3> QED
      BY <3>1, <3>2
  <2> QED
    BY <2>1, <2>2
<1>9. InFlight = {} /\ InFlight' = {e}
  BY <1>1, <1>2, <1>4 DEF InFlight
<1>10. e \notin WalRecords
  <2>1. \A r \in WalRecords : r.sequence < nextSequence /\ r.sequence \in Nat
    BY <1>3, <1>9, InFlightIsLast DEF Acknowledged
  <2> QED
    BY <1>6, <2>1
<1> QED
  BY <1>4, <1>6, <1>8, <1>9, <1>10 DEF Acknowledged

\* A reclamation drops what the checkpoint covers.
LEMMA LogOfReclaim ==
    ASSUME TypeInv, SlotInv, LogInv, ReclaimWal
    PROVE  /\ InFlight = {} /\ InFlight' = {}
           /\ WalRecords' = After(HighestSequence(worker.task), WalRecords)
<1> DEFINE cp == HighestSequence(worker.task)
<1>1. /\ worker.pc = "reclaim" /\ writer.pc = "idle" /\ writer' = writer
      /\ wal' = Beyond(cp, wal)
  BY DEF ReclaimWal
<1>2. cp \in Int
  <2>1. worker.task # {} /\ IsMemtable(worker.task)
    BY <1>1 DEF SlotInv, TaskInv, TypeInv, WorkerTypes
  <2>2. HighestSequence(worker.task) \in 0 .. MaxSequence - 1
    BY <2>1, HighestOf DEF IsMemtable
  <2> QED
    BY <2>2
<1>3. /\ wal \in Seq(Logged) /\ Len(wal) \in Nat /\ DOMAIN wal = 1 .. Len(wal)
      /\ StrictlyIncreasing(wal)
  BY LogTyped DEF LogInv
<1> HIDE DEF cp
<1>4. PICK c \in 0 .. Len(wal) :
          /\ DOMAIN Beyond(cp, wal) = 1 .. Len(wal) - c
          /\ \A i \in 1 .. Len(wal) - c : Beyond(cp, wal)[i] = wal[c + i]
          /\ \A i \in 1 .. Len(wal) : i <= c <=> wal[i].sequence <= cp
  BY <1>2, <1>3, BeyondIsSuffix
<1>5. \A i \in 1 .. Len(wal) : wal[i].sequence \in Nat
  <2>1. \A i \in 1 .. Len(wal) : wal[i] \in Logged
    BY <1>3, ElementOfSeq
  <2> QED
    BY <2>1, SequenceAssumption DEF Logged
<1>6. ASSUME NEW r \in WalRecords' PROVE r \in After(cp, WalRecords)
  <2>1. PICK i \in 1 .. Len(wal) - c : r = wal[c + i]
    BY <1>1, <1>4 DEF WalRecords
  <2>2. c + i \in 1 .. Len(wal) /\ ~(c + i <= c)
    BY <1>3
  <2>3. ~(wal[c + i].sequence <= cp)
    BY <1>4, <2>2
  <2>4. cp < wal[c + i].sequence
    BY <1>2, <1>5, <2>2, <2>3
  <2> QED
    BY <1>3, <2>1, <2>2, <2>4 DEF After, WalRecords
<1>7. ASSUME NEW r \in After(cp, WalRecords) PROVE r \in WalRecords'
  <2>1. PICK i \in 1 .. Len(wal) : r = wal[i] /\ cp < wal[i].sequence
    BY <1>3 DEF After, WalRecords
  <2>2. ~(wal[i].sequence <= cp)
    BY <1>2, <1>5, <2>1
  <2>3. ~(i <= c)
    BY <1>4, <2>2
  <2>4. i - c \in 1 .. Len(wal) - c /\ c + (i - c) = i
    BY <1>3, <2>3
  <2> QED
    BY <1>1, <1>4, <2>1, <2>4 DEF WalRecords
<1> QED
  BY <1>1, <1>6, <1>7 DEF InFlight, cp

\* A stop loses at most records that no fsync covers, and none unless the
\* power fails.
LEMMA LogOfCrash ==
    ASSUME TypeInv, NEW kind \in CrashKinds, Crash(kind)
    PROVE  /\ WalRecords' \subseteq WalRecords
           /\ SyncedRecords \subseteq WalRecords'
           /\ kind # "power" => WalRecords' = WalRecords
           /\ InFlight' = {}
<1>1. PICK n \in 0 .. Len(wal) :
          /\ wal' \in Seq(Logged)
          /\ Len(wal') = n
          /\ \A i \in 1 .. n : wal'[i] = wal[i]
          /\ kind = "power" => walSynced <= n
          /\ kind # "power" => wal' = wal
  BY CrashedLog
<1>2. /\ Len(wal) \in Nat /\ DOMAIN wal = 1 .. Len(wal)
      /\ walSynced \in 0 .. Len(wal)
      /\ SyncedRecords \subseteq WalRecords
  BY LogTyped
<1>3. DOMAIN wal' = 1 .. n
  BY <1>1, LenProperties
<1>4. WalRecords' \subseteq WalRecords
  <2> SUFFICES ASSUME NEW i \in 1 .. n PROVE wal'[i] \in WalRecords
    BY <1>3 DEF WalRecords
  <2>1. i \in DOMAIN wal
    BY <1>2
  <2> QED
    BY <1>1, <2>1 DEF WalRecords
<1>5. kind # "power" => WalRecords' = WalRecords
  BY <1>1 DEF WalRecords
<1>6. ASSUME kind = "power" PROVE SyncedRecords \subseteq WalRecords'
  <2> SUFFICES ASSUME NEW i \in 1 .. walSynced PROVE wal[i] \in WalRecords'
    BY DEF SyncedRecords
  <2>1. i \in 1 .. n
    BY <1>1, <1>2, <1>6
  <2> QED
    BY <1>1, <1>3, <2>1 DEF WalRecords
<1>7. InFlight' = {}
  BY DEF Crash, InFlight, IdleWriter
<1> QED
  BY <1>2, <1>4, <1>5, <1>6, <1>7
\* Nothing else touches the log or the record in flight.
LEMMA LogSteps ==
    ASSUME SlotInv, [Next]_vars, ~AppendToWal, ~ApplyWrite, ~ReclaimWal,
           \A kind \in CrashKinds : ~Crash(kind)
    PROVE  UNCHANGED <<WalRecords, InFlight, Acknowledged>>
<1> USE DEF memory, disk, manifests, readVars
<1>1. CASE WriterStep
  <2>1. CASE SyncWal
    <3>1. /\ writer.pc = "fsync" /\ writer'.pc = "apply" /\ wal' = wal
          /\ writer'.key = writer.key /\ writer'.operation = writer.operation
          /\ writer'.sequence = writer.sequence
      BY <2>1 DEF SyncWal, SlotInv, WriterShape
    <3> QED
      BY <3>1 DEF WalRecords, InFlight, Acknowledged, WrittenRecord
  <2>2. CASE PrepareInPlace \/ PrepareRotating
    <3>1. /\ writer.pc = "prepare" /\ writer'.pc = "append" /\ wal' = wal
      BY <2>2 DEF PrepareInPlace, PrepareRotating, SlotInv, WriterShape
    <3> QED
      BY <3>1, SameLog
  <2>3. CASE RefuseWrite \/ RefuseSequence
    <3>1. /\ writer.pc \in {"prepare", "append"} /\ writer'.pc = "idle" /\ wal' = wal
      BY <2>3 DEF RefuseWrite, RefuseSequence, IdleWriter
    <3> QED
      BY <3>1, SameLog
  <2>4. ASSUME NEW k \in Keys, NEW operation \in Operations,
               NEW rotate \in BOOLEAN, LockForWrite(k, operation, rotate)
        PROVE  UNCHANGED <<WalRecords, InFlight, Acknowledged>>
    <3>1. writer.pc = "idle" /\ writer'.pc = "prepare" /\ wal' = wal
      BY <2>4 DEF LockForWrite
    <3> QED
      BY <3>1, SameLog
  <2> QED
    BY <1>1, <2>1, <2>2, <2>3, <2>4 DEF WriterStep
<1>2. CASE WorkerStep
  <2>1. UNCHANGED <<wal, writer>>
    BY <1>2 DEF WorkerStep, PopTask, BuildSstable, CommitManifest,
       PublishManifest, ClearSlot, SkipCompaction, PlanCompaction, MergeSstables,
       FailWorker, ExitWorker
  <2> QED
    BY <2>1, SameLog
<1>3. ASSUME NEW r \in Readers, ReaderStep(r)
      PROVE  UNCHANGED <<WalRecords, InFlight, Acknowledged>>
  BY <1>3, ReaderFrame, SameLog
<1>4. CASE LifecycleStep
  <2>1. UNCHANGED <<wal, writer>>
    BY <1>4 DEF LifecycleStep, BeginShutdown, FinalFlush, JoinWorker, Open
  <2> QED
    BY <2>1, SameLog
<1>5. CASE UNCHANGED vars
  BY <1>5, SameLog DEF vars
<1> QED
  BY <1>1, <1>2, <1>3, <1>4, <1>5 DEF Next

\* The Memtable of a reclamation is covered by the one MANIFEST there can be.
LEMMA ReclaimIsCovered ==
    ASSUME SlotInv, GenInv, worker.pc = "reclaim"
    PROVE  /\ manifestPossible = {manifestDisk} /\ manifestDisk = manifest
           /\ manifest.checkpoint = HighestSequence(worker.task)
           /\ engine # "down"
<1>1. engine # "down"
  BY DEF SlotInv, RotateInv, IdleWorker
<1> QED
  BY <1>1 DEF GenInv, ViewInv, MemoryInv

\* Whatever happens to the process, a record that an fsync covered leaves the
\* log only when every MANIFEST that a stop may leave declares it flushed
\* (reclaimThrough() after applyEdit(), engine.cpp:544-600).
THEOREM ReclaimsBehindCheckpoint == Spec => WalIsReclaimedBehindCheckpoint
<1>1. TypeInv /\ SlotInv /\ LogInv /\ GenInv /\ [Next]_vars =>
         [\A r \in SyncedRecords, m \in manifestPossible :
             r \in WalRecords' \/ r.sequence <= m.checkpoint]_vars
  <2> SUFFICES ASSUME TypeInv, SlotInv, LogInv, GenInv, [Next]_vars,
                      NEW r \in SyncedRecords, NEW m \in manifestPossible
               PROVE  r \in WalRecords' \/ r.sequence <= m.checkpoint
    OBVIOUS
  <2>1. r \in WalRecords /\ r.sequence \in Nat
    BY LogTyped, SequenceAssumption DEF Logged
  <2>2. CASE AppendToWal
    BY <2>1, <2>2, LogOfAppend
  <2>3. CASE ReclaimWal
    <3>1. worker.pc = "reclaim"
      BY <2>3 DEF ReclaimWal
    <3>2. m.checkpoint = HighestSequence(worker.task) /\ m.checkpoint \in Int
      BY <3>1, ReclaimIsCovered, SequenceAssumption
      DEF TypeInv, ManifestTypes, IsManifest, Value, Absent
    <3>3. WalRecords' = After(m.checkpoint, WalRecords)
      BY <2>3, <3>2, LogOfReclaim
    <3> QED
      BY <2>1, <3>2, <3>3 DEF After
  <2>4. CASE ApplyWrite
    BY <2>1, <2>4 DEF ApplyWrite, disk, WalRecords
  <2>5. ASSUME NEW kind \in CrashKinds, Crash(kind) PROVE r \in WalRecords'
    BY <2>5, LogOfCrash
  <2> QED
    BY <2>1, <2>2, <2>3, <2>4, <2>5, LogSteps
<1> QED
  BY <1>1, TypeInvIsInvariant, SlotInvIsInvariant, LogInvIsInvariant,
     GenInvIsInvariant, PTL DEF Spec, WalIsReclaimedBehindCheckpoint

-----------------------------------------------------------------------------
(* The MANIFEST as an atomic store *)

LEMMA ManifestTyped ==
    ASSUME NEW store, IsStore(store), NEW m, IsManifest(m, store)
    PROVE  m \in Manifests
BY NamedFiles DEF IsManifest, Manifests

\* The engine asks of the MANIFEST only what ManifestStore promises: a flush or
\* a compaction replaces the file, syncs of the directory settle it, and the
\* view follows a settled file; nothing is built on a MANIFEST in doubt
\* (flushMemtable(), maybeCompact(), recover()).
THEOREM EngineUsesManifestStore == Spec => UsesManifestStore
<1>1. Init => LiveFiles!Init
  BY DEF Init, LiveFiles!Init, EmptyManifest, LiveFiles!EmptyManifest, NoCheckpoint
<1>2. TypeInv /\ TypeInv' /\ SlotInv /\ GenInv /\ [Next]_vars
         => [LiveFiles!Next]_LiveFiles!vars
  <2> SUFFICES ASSUME TypeInv, TypeInv', SlotInv, GenInv, [Next]_vars
               PROVE  LiveFiles!Next \/ UNCHANGED LiveFiles!vars
    OBVIOUS
  <2> USE DEF memory, disk, manifests, readVars
  <2>1. ASSUME (engine # "down")' = (engine # "down"),
               UNCHANGED <<manifest, manifestDisk, manifestPossible>>
        PROVE  UNCHANGED LiveFiles!vars
    BY <2>1 DEF LiveFiles!vars
  <2>2. CASE WriterStep
    <3>1. UNCHANGED <<engine, manifest, manifestDisk, manifestPossible>>
      BY <2>2 DEF WriterStep, LockForWrite, RefuseWrite, PrepareInPlace,
         PrepareRotating, AppendToWal, RefuseSequence, SyncWal, ApplyWrite
    <3> QED
      BY <2>1, <3>1
  <2>3. CASE WorkerStep
    <3>1. worker.pc # "idle" => engine # "down"
      BY DEF SlotInv, RotateInv, IdleWorker
    <3>2. ASSUME DirectorySynced, worker.pc # "idle", UNCHANGED <<engine, manifest>>
          PROVE  LiveFiles!Settle
      BY <3>1, <3>2 DEF DirectorySynced, LiveFiles!Settle
    <3>3. CASE BuildSstable
      BY <3>2, <3>3 DEF BuildSstable, LiveFiles!Next
    <3>4. CASE MergeSstables
      <4>1. /\ worker.pc = "merge" /\ UNCHANGED <<engine, manifest>>
            /\ DirectorySynced \/ UNCHANGED manifests
        BY <3>4, Zenon DEF MergeSstables
      <4> QED
        BY <2>1, <3>2, <4>1 DEF LiveFiles!Next
    <3>5. CASE CommitManifest
      <4>1. /\ worker.pc = "commit" /\ manifestDisk' = EditedManifest
            /\ manifestPossible' = manifestPossible \cup {EditedManifest}
            /\ UNCHANGED <<engine, manifest>>
        BY <3>5 DEF CommitManifest
      <4>2. manifest.checkpoint <= EditedManifest.checkpoint
        BY <4>1, EditKeeps
      <4>3. manifestDisk' \in Manifests
        BY ManifestTyped DEF TypeInv, StoreTypes, ManifestTypes
      <4>4. LiveFiles!Replace
        BY <3>1, <4>1, <4>2, <4>3 DEF LiveFiles!Replace
      <4> QED
        BY <4>4 DEF LiveFiles!Next
    <3>6. CASE PublishManifest
      <4>1. /\ worker.pc = "publish" /\ manifest' = EditedManifest
            /\ DirectorySynced /\ UNCHANGED engine
        BY <3>6 DEF PublishManifest
      <4>2. manifestDisk = EditedManifest
        BY <4>1 DEF GenInv, ViewInv
      <4>3. LiveFiles!Publish
        BY <3>1, <4>1, <4>2 DEF DirectorySynced, LiveFiles!Publish
      <4> QED
        BY <4>3 DEF LiveFiles!Next
    <3>7. CASE \/ PopTask \/ ClearSlot \/ ReclaimWal \/ SkipCompaction
               \/ PlanCompaction \/ FailWorker \/ ExitWorker
      <4>1. UNCHANGED <<engine, manifest, manifestDisk, manifestPossible>>
        BY <3>7 DEF PopTask, ClearSlot, ReclaimWal, SkipCompaction,
           PlanCompaction, FailWorker, ExitWorker
      <4> QED
        BY <2>1, <4>1
    <3> QED
      BY <2>3, <3>3, <3>4, <3>5, <3>6, <3>7 DEF WorkerStep
  <2>4. ASSUME NEW r \in Readers, ReaderStep(r) PROVE UNCHANGED LiveFiles!vars
    BY <2>1, <2>4, ReaderFrame
  <2>5. CASE LifecycleStep
    <3>1. CASE BeginShutdown
      BY <2>1, <3>1 DEF BeginShutdown
    <3>2. CASE FinalFlush
      BY <2>1, <3>2 DEF FinalFlush
    <3>3. CASE JoinWorker
      BY <2>1, <3>3 DEF JoinWorker
    <3>4. ASSUME NEW kind \in CrashKinds, Crash(kind) PROVE LiveFiles!Next
      <4>1. /\ engine # "down" /\ engine' = "down" /\ manifest' = EmptyManifest
            /\ IF kind = "power"
                  THEN /\ manifestDisk' \in manifestPossible
                       /\ manifestPossible' = {manifestDisk'}
                  ELSE UNCHANGED manifests
        BY <3>4 DEF Crash
      <4>2. EmptyManifest = LiveFiles!EmptyManifest
        BY DEF EmptyManifest, LiveFiles!EmptyManifest, NoCheckpoint
      <4>3. LiveFiles!LosePower \/ LiveFiles!Stop
        BY <4>1, <4>2 DEF LiveFiles!LosePower, LiveFiles!Stop
      <4> QED
        BY <4>3 DEF LiveFiles!Next
    <3>5. CASE Open
      <4>1. LiveFiles!Load
        BY <3>5 DEF Open, LiveFiles!Load
      <4> QED
        BY <4>1 DEF LiveFiles!Next
    <3> QED
      BY <2>5, <3>1, <3>2, <3>3, <3>4, <3>5 DEF LifecycleStep
  <2>6. CASE UNCHANGED vars
    BY <2>1, <2>6 DEF vars
  <2> QED
    BY <2>2, <2>3, <2>4, <2>5, <2>6 DEF Next
<1> QED
  BY <1>1, <1>2, TypeInvIsInvariant, SlotInvIsInvariant, GenInvIsInvariant, PTL
  DEF Spec, UsesManifestStore, LiveFiles!Spec
-----------------------------------------------------------------------------
(* The log and the Memtables cover each other *)

\* The steps that move records between the generations, or start or stop the
\* process.
LEMMA MemorySteps ==
    ASSUME SlotInv, [Next]_vars, ~ApplyWrite, ~PublishManifest, ~ClearSlot, ~Open,
           \A kind \in CrashKinds : ~Crash(kind)
    PROVE  /\ active' \cup immutable' = active \cup immutable
           /\ UNCHANGED manifest
           /\ engine' # "down" <=> engine # "down"
<1> USE DEF memory, disk, manifests, readVars
<1>1. CASE WriterStep
  <2>1. CASE PrepareRotating
    BY <2>1 DEF PrepareRotating
  <2>2. CASE ~PrepareRotating
    BY <1>1, <2>2 DEF WriterStep, LockForWrite, RefuseWrite, PrepareInPlace,
       AppendToWal, RefuseSequence, SyncWal
  <2> QED
    BY <2>1, <2>2
<1>2. CASE WorkerStep
  BY <1>2 DEF WorkerStep, PopTask, BuildSstable, CommitManifest, ReclaimWal,
     SkipCompaction, PlanCompaction, MergeSstables, FailWorker, ExitWorker
<1>3. ASSUME NEW r \in Readers, ReaderStep(r)
      PROVE  UNCHANGED <<engine, active, immutable, manifest>>
  BY <1>3, ReaderFrame
<1>4. CASE LifecycleStep
  <2>1. CASE FinalFlush
    <3>1. /\ engine = "closing" /\ engine' = "draining" /\ UNCHANGED manifest
          /\ IF ~backgroundError /\ active # {}
                THEN immutable' = active /\ active' = {}
                ELSE UNCHANGED memory
          /\ immutable = {} \/ backgroundError
      BY <2>1 DEF FinalFlush
    <3> QED
      BY <3>1
  <2>2. CASE BeginShutdown \/ JoinWorker
    BY <2>2 DEF BeginShutdown, JoinWorker
  <2> QED
    BY <1>4, <2>1, <2>2 DEF LifecycleStep
<1>5. CASE UNCHANGED vars
  BY <1>5 DEF vars
<1> QED
  BY <1>1, <1>2, <1>3, <1>4, <1>5 DEF Next

\* An acknowledged record is in the files, or a Memtable has a record of its
\* key that is as new.
LogCovered ==
    engine # "down" =>
        \A w \in Acknowledged :
            \/ w.sequence <= manifest.checkpoint
            \/ \E s \in active \cup immutable :
                  s.key = w.key /\ w.sequence <= s.sequence

\* What is only in a Memtable is in the log.
MemoryLogged ==
    \A s \in active \cup immutable :
        s.sequence <= manifest.checkpoint \/ s \in WalRecords

CoverInv == LogCovered /\ MemoryLogged

LEMMA CoverSteps ==
    ASSUME TypeInv, TypeInv', SlotInv, LogInv, GenInv, CoverInv, [Next]_vars
    PROVE  CoverInv'
<1> USE DEF memory, disk, manifests, readVars
<1>1. /\ manifest.checkpoint \in Int /\ manifest'.checkpoint \in Int
  BY SequenceAssumption DEF TypeInv, ManifestTypes, IsManifest, Value, Absent
<1>2. /\ \A s \in active \cup immutable : s.sequence \in Nat
      /\ \A w \in WalRecords : w.sequence \in Nat
      /\ \A w \in Acknowledged : w.sequence \in Nat /\ w \in WalRecords
  BY LogTyped, SequenceAssumption
  DEF TypeInv, MemoryTypes, IsMemtable, Logged, Acknowledged
<1>3. CASE ApplyWrite
  <2>1. /\ writer.pc = "apply"
        /\ active' = {s \in active : s.key # WrittenRecord.key} \cup {WrittenRecord}
        /\ UNCHANGED <<engine, immutable, manifest, wal>>
        /\ writer' = IdleWriter
    BY <1>3 DEF ApplyWrite, MemtablePut
  <2>2. InFlight = {WrittenRecord} /\ InFlight' = {} /\ WalRecords' = WalRecords
    BY <2>1 DEF InFlight, IdleWriter, WalRecords
  <2>3. WrittenRecord \in WalRecords /\ WrittenRecord.sequence = Bound
    BY <2>2, InFlightIsLast
  <2>4. engine # "down"
    BY <2>1 DEF SlotInv, RotateInv, IdleWriter
  <2>5. \A s \in active \cup immutable : s.sequence < Bound
    BY <2>4 DEF LogInv, MemoryBelow
  <2>6. Acknowledged' = Acknowledged \cup {WrittenRecord}
    BY <2>2, <2>3 DEF Acknowledged
  <2>7. WrittenRecord \in active' \cup immutable' /\ WrittenRecord.sequence \in Nat
    BY <1>2, <2>1, <2>3
  <2>8. ASSUME NEW w \in Acknowledged, ~(w.sequence <= manifest.checkpoint)
        PROVE  \E s \in active' \cup immutable' :
                   s.key = w.key /\ w.sequence <= s.sequence
    <3>1. PICK s \in active \cup immutable : s.key = w.key /\ w.sequence <= s.sequence
      BY <2>4, <2>8 DEF CoverInv, LogCovered
    <3>2. CASE s \in active /\ s.key = WrittenRecord.key
      <4>1. WrittenRecord.key = w.key /\ w.sequence <= WrittenRecord.sequence
        BY <1>2, <2>3, <2>5, <2>7, <3>1, <3>2
      <4> QED
        BY <2>7, <4>1
    <3>3. CASE ~(s \in active /\ s.key = WrittenRecord.key)
      BY <2>1, <3>1, <3>3
    <3> QED
      BY <3>2, <3>3
  <2>9. LogCovered'
    <3> SUFFICES ASSUME NEW w \in Acknowledged \cup {WrittenRecord},
                        ~(w.sequence <= manifest.checkpoint)
                 PROVE  \E s \in active' \cup immutable' :
                            s.key = w.key /\ w.sequence <= s.sequence
      BY <2>1, <2>6 DEF LogCovered
    <3>1. CASE w = WrittenRecord
      BY <2>7, <3>1
    <3> QED
      BY <2>8, <3>1
  <2>10. MemoryLogged'
    BY <2>1, <2>2, <2>3 DEF CoverInv, MemoryLogged
  <2> QED
    BY <2>9, <2>10 DEF CoverInv
<1>4. CASE PublishManifest
  <2>1. /\ worker.pc = "publish" /\ manifest' = EditedManifest
        /\ UNCHANGED <<engine, active, immutable, wal, writer>>
    BY <1>4 DEF PublishManifest
  <2>2. UNCHANGED <<WalRecords, Acknowledged>>
    BY <2>1, SameLog
  <2>3. manifest.checkpoint <= manifest'.checkpoint
    BY <2>1, EditKeeps
  <2>4. \A s \in active \cup immutable \cup Acknowledged :
            s.sequence <= manifest.checkpoint => s.sequence <= manifest'.checkpoint
    BY <1>1, <1>2, <2>3
  <2> QED
    BY <2>1, <2>2, <2>4 DEF CoverInv, LogCovered, MemoryLogged
<1>5. CASE ClearSlot
  <2>1. /\ worker.pc = "clear" /\ immutable' = {}
        /\ UNCHANGED <<engine, active, manifest, wal, writer>>
    BY <1>5 DEF ClearSlot
  <2>2. UNCHANGED <<WalRecords, Acknowledged>>
    BY <2>1, SameLog
  <2>3. worker.task = immutable /\ immutable # {}
    BY <2>1 DEF SlotInv, TaskInv
  <2>4. manifest.checkpoint = HighestSequence(immutable)
    BY <2>1, <2>3 DEF GenInv, MemoryInv
  <2>5. \A s \in immutable : s.sequence <= manifest.checkpoint
    BY <2>3, <2>4, HighestOf DEF TypeInv, MemoryTypes, IsMemtable
  <2>6. \A w \in Acknowledged, s \in immutable :
            w.sequence <= s.sequence => w.sequence <= manifest.checkpoint
    BY <1>1, <1>2, <2>5
  <2>7. LogCovered'
    BY <2>1, <2>2, <2>6 DEF CoverInv, LogCovered
  <2>8. MemoryLogged'
    BY <2>1, <2>2 DEF CoverInv, MemoryLogged
  <2> QED
    BY <2>7, <2>8 DEF CoverInv
<1>6. CASE Open
  <2>1. /\ engine = "down" /\ active' = Replayed /\ manifest' = manifestDisk
        /\ UNCHANGED <<immutable, wal, writer>>
    BY <1>6 DEF Open
  <2>2. UNCHANGED <<WalRecords, Acknowledged>>
    BY <2>1, SameLog
  <2> DEFINE A == After(manifestDisk.checkpoint, WalRecords)
  <2>3. A \in SUBSET WalRecords
    BY DEF After
  <2>4. A \subseteq Record /\ IsFiniteSet(A)
    BY <2>3, FS_Subset, LogTyped, LoggedRecords
  <2>5. \A w \in A : \E s \in Merge(A, FALSE) : s.key = w.key /\ w.sequence <= s.sequence
    <3> HIDE DEF A
    <3> QED
      BY <2>4, MergeCovers
  <2>6. manifestDisk.checkpoint \in Int
    BY SequenceAssumption DEF TypeInv, ManifestTypes, IsManifest, Value, Absent
  <2>7. \A w \in Acknowledged : w.sequence <= manifestDisk.checkpoint \/ w \in A
    BY <1>2, <2>6 DEF After
  <2>8. LogCovered'
    BY <2>1, <2>2, <2>5, <2>7 DEF LogCovered, Replayed
  <2>9. immutable = {}
    BY <2>1 DEF SlotInv, RotateInv
  <2>10. MemoryLogged'
    BY <2>1, <2>2, <2>9, ReplayedFromLog DEF MemoryLogged
  <2> QED
    BY <2>8, <2>10 DEF CoverInv
<1>7. ASSUME NEW kind \in CrashKinds, Crash(kind) PROVE CoverInv'
  BY <1>7 DEF Crash, CoverInv, LogCovered, MemoryLogged
<1>8. CASE AppendToWal
  <2>1. /\ UNCHANGED <<engine, active, immutable, manifest>>
    BY <1>8 DEF AppendToWal
  <2>2. Acknowledged' = Acknowledged /\ WalRecords \subseteq WalRecords'
    BY <1>8, LogOfAppend
  <2> QED
    BY <2>1, <2>2 DEF CoverInv, LogCovered, MemoryLogged
<1>9. CASE ReclaimWal
  <2>1. /\ worker.pc = "reclaim" /\ UNCHANGED <<engine, active, immutable, manifest>>
    BY <1>9 DEF ReclaimWal
  <2>2. manifest.checkpoint = HighestSequence(worker.task)
    BY <2>1, ReclaimIsCovered
  <2>3. /\ WalRecords' = After(manifest.checkpoint, WalRecords)
        /\ Acknowledged' \subseteq Acknowledged
    BY <1>9, <2>2, LogOfReclaim DEF Acknowledged, After
  <2>4. \A s \in active \cup immutable :
            s \in WalRecords => s.sequence <= manifest.checkpoint \/ s \in WalRecords'
    BY <1>1, <1>2, <2>3 DEF After
  <2>5. LogCovered'
    BY <2>1, <2>3 DEF CoverInv, LogCovered
  <2>6. MemoryLogged'
    BY <2>1, <2>4 DEF CoverInv, MemoryLogged
  <2> QED
    BY <2>5, <2>6 DEF CoverInv
<1>10. CASE /\ ~ApplyWrite /\ ~PublishManifest /\ ~ClearSlot /\ ~Open
            /\ \A kind \in CrashKinds : ~Crash(kind)
            /\ ~AppendToWal /\ ~ReclaimWal
  <2>1. /\ active' \cup immutable' = active \cup immutable
        /\ UNCHANGED manifest
        /\ engine' # "down" <=> engine # "down"
    BY <1>10, MemorySteps
  <2>2. UNCHANGED <<WalRecords, Acknowledged>>
    BY <1>10, LogSteps
  <2> QED
    BY <2>1, <2>2 DEF CoverInv, LogCovered, MemoryLogged
<1> QED
  BY <1>3, <1>4, <1>5, <1>6, <1>7, <1>8, <1>9, <1>10

\* Until the checkpoint covers it, an acknowledged write is both in the log and
\* in a Memtable.
THEOREM CoverInvIsInvariant == Spec => []CoverInv
<1>1. Init => CoverInv
  BY DEF Init, CoverInv, LogCovered, MemoryLogged
<1> QED
  BY <1>1, CoverSteps, TypeInvIsInvariant, SlotInvIsInvariant, LogInvIsInvariant,
     GenInvIsInvariant, PTL DEF Spec
-----------------------------------------------------------------------------
(* Shutdown *)

\* Past the write barrier of shutdown() nobody is between the log and the
\* Memtable, and the final Memtable is frozen; only the closed and drained queue
\* or a recorded error ends the worker, and only its end ends the shutdown.
ShutdownInv ==
    /\ engine \in {"draining", "stopped"} =>
          /\ writer.pc \in {"idle", "prepare"}
          /\ ~backgroundError => active = {}
    /\ engine = "stopped" => worker.pc = "exited"
    /\ worker.pc = "exited" =>
          \/ backgroundError
          \/ flushQueue = <<>> /\ engine \in {"draining", "stopped"}

LEMMA ShutdownFrame ==
    ASSUME ShutdownInv,
           UNCHANGED <<engine, active, flushQueue, backgroundError, writer, worker>>
    PROVE  ShutdownInv'
BY DEF ShutdownInv

LEMMA ShutdownSteps ==
    ASSUME TypeInv, SlotInv, GenInv, ShutdownInv, [Next]_vars
    PROVE  ShutdownInv'
<1> USE DEF memory, disk, manifests, readVars
<1>1. CASE WriterStep
  <2>1. ASSUME NEW k \in Keys, NEW operation \in Operations,
               NEW rotate \in BOOLEAN, LockForWrite(k, operation, rotate)
        PROVE  ShutdownInv'
    BY <2>1 DEF LockForWrite, ShutdownInv
  <2>2. CASE RefuseWrite
    BY <2>2 DEF RefuseWrite, ShutdownInv, IdleWriter
  <2>3. CASE PrepareInPlace
    BY <2>3 DEF PrepareInPlace, MayWrite, ShutdownInv
  <2>4. CASE PrepareRotating
    BY <2>4 DEF PrepareRotating, MayWrite, ShutdownInv
  <2>5. CASE AppendToWal
    BY <2>5 DEF AppendToWal, ShutdownInv
  <2>6. CASE RefuseSequence
    BY <2>6 DEF RefuseSequence, ShutdownInv, IdleWriter
  <2>7. CASE SyncWal
    BY <2>7 DEF SyncWal, ShutdownInv
  <2>8. CASE ApplyWrite
    BY <2>8 DEF ApplyWrite, ShutdownInv, IdleWriter
  <2> QED
    BY <1>1, <2>1, <2>2, <2>3, <2>4, <2>5, <2>6, <2>7, <2>8 DEF WriterStep
<1>2. CASE WorkerStep
  <2>1. ASSUME worker.pc # "exited", worker'.pc # "exited",
               UNCHANGED <<engine, active, backgroundError, writer>>
        PROVE  ShutdownInv'
    BY <2>1 DEF ShutdownInv
  <2>2. CASE PopTask
    BY <2>1, <2>2 DEF PopTask, IdleWorker
  <2>3. CASE BuildSstable
    <3>1. /\ worker.pc = "build" /\ worker'.pc = "commit"
          /\ UNCHANGED <<engine, active, backgroundError, writer>>
      BY <2>3 DEF BuildSstable, SlotInv, WorkerShape
    <3> QED
      BY <2>1, <3>1
  <2>4. CASE MergeSstables
    <3>1. /\ worker.pc = "merge" /\ worker'.pc = "commit"
          /\ UNCHANGED <<engine, active, backgroundError, writer>>
      BY <2>4 DEF MergeSstables, SlotInv, WorkerShape
    <3> QED
      BY <2>1, <3>1
  <2>5. CASE CommitManifest
    BY <2>1, <2>5 DEF CommitManifest, SlotInv, WorkerShape
  <2>6. CASE PublishManifest
    BY <2>1, <2>6 DEF PublishManifest, SlotInv, WorkerShape, IdleWorker
  <2>7. CASE ClearSlot
    BY <2>1, <2>7 DEF ClearSlot, SlotInv, WorkerShape
  <2>8. CASE ReclaimWal
    <3>1. worker' = [IdleWorker EXCEPT !.pc = "pick"]
      BY <2>8, Zenon DEF ReclaimWal
    <3> QED
      BY <2>1, <2>8, <3>1 DEF ReclaimWal, IdleWorker
  <2>9. CASE SkipCompaction
    BY <2>1, <2>9 DEF SkipCompaction, IdleWorker
  <2>10. CASE PlanCompaction
    BY <2>1, <2>10 DEF PlanCompaction, SlotInv, WorkerShape
  <2>11. CASE FailWorker
    BY <2>11 DEF FailWorker, ExitedWorker, IdleWorker, ShutdownInv
  <2>12. CASE ExitWorker
    BY <2>12 DEF ExitWorker, ExitedWorker, IdleWorker, ShutdownInv
  <2> QED
    BY <1>2, <2>2, <2>3, <2>4, <2>5, <2>6, <2>7, <2>8, <2>9, <2>10, <2>11, <2>12
    DEF WorkerStep
<1>3. ASSUME NEW r \in Readers, ReaderStep(r) PROVE ShutdownInv'
  BY <1>3, ReaderFrame, ShutdownFrame
<1>4. CASE LifecycleStep
  <2>1. CASE BeginShutdown
    BY <2>1 DEF BeginShutdown, ShutdownInv
  <2>2. CASE FinalFlush
    <3>1. /\ engine = "closing" /\ writer.pc = "idle" /\ engine' = "draining"
          /\ UNCHANGED <<backgroundError, writer, worker>>
          /\ ~backgroundError => active' = {}
      BY <2>2 DEF FinalFlush
    <3>2. worker.pc = "exited" => backgroundError
      BY <3>1 DEF ShutdownInv
    <3> QED
      BY <3>1, <3>2 DEF ShutdownInv
  <2>3. CASE JoinWorker
    BY <2>3 DEF JoinWorker, ShutdownInv
  <2>4. ASSUME NEW kind \in CrashKinds, Crash(kind) PROVE ShutdownInv'
    BY <2>4 DEF Crash, ShutdownInv, IdleWorker
  <2>5. CASE Open
    <3>1. engine' = "open" /\ worker' = worker /\ engine = "down"
      BY <2>5 DEF Open
    <3>2. worker.pc = "idle"
      BY <3>1 DEF SlotInv, RotateInv, IdleWorker
    <3> QED
      BY <3>1, <3>2 DEF ShutdownInv
  <2> QED
    BY <1>4, <2>1, <2>2, <2>3, <2>4, <2>5 DEF LifecycleStep
<1>5. CASE UNCHANGED vars
  BY <1>5, ShutdownFrame DEF vars
<1> QED
  BY <1>1, <1>2, <1>3, <1>4, <1>5 DEF Next

\* A shutdown that has passed a step has left nothing behind it (shutdown()).
THEOREM ShutdownInvIsInvariant == Spec => []ShutdownInv
<1>1. Init => ShutdownInv
  BY DEF Init, ShutdownInv, IdleWorker
<1> QED
  BY <1>1, ShutdownSteps, TypeInvIsInvariant, SlotInvIsInvariant,
     GenInvIsInvariant, PTL DEF Spec

\* A shutdown that meets no error leaves every acknowledged write in the files
\* of the MANIFEST on disk and nothing to replay (shutdown(),
\* engine.cpp:906-944).
THEOREM ShutdownLeavesNothingToReplay == Spec => []ShutdownPersistsEverything
<1>1. TypeInv /\ SlotInv /\ GenInv /\ CoverInv /\ ShutdownInv
         => ShutdownPersistsEverything
  <2> SUFFICES ASSUME TypeInv, SlotInv, GenInv, CoverInv, ShutdownInv,
                      engine = "stopped", ~backgroundError
               PROVE  /\ VisibleRecords = RecordsOf(manifestDisk.files)
                      /\ After(manifestDisk.checkpoint, WalRecords) = {}
    BY DEF ShutdownPersistsEverything
  <2>1. /\ worker.pc = "exited" /\ flushQueue = <<>> /\ active = {}
        /\ writer.pc \in {"idle", "prepare"}
    BY DEF ShutdownInv
  <2>2. immutable = {}
    BY <2>1 DEF SlotInv, KeeperInv
  <2>3. manifestDisk = manifest
    BY <2>1 DEF GenInv, ViewInv
  <2>4. VisibleRecords = RecordsOf(manifestDisk.files)
    BY <2>1, <2>2, <2>3 DEF VisibleRecords
  <2>5. Acknowledged = WalRecords
    BY <2>1 DEF Acknowledged, InFlight
  <2>6. \A w \in WalRecords : w.sequence <= manifest.checkpoint
    BY <2>1, <2>2, <2>5 DEF CoverInv, LogCovered
  <2>7. \A w \in WalRecords : w.sequence \in Nat
    BY LogTyped, SequenceAssumption DEF Logged
  <2>8. manifest.checkpoint \in Int
    BY SequenceAssumption DEF TypeInv, ManifestTypes, IsManifest, Value, Absent
  <2>9. After(manifestDisk.checkpoint, WalRecords) = {}
    BY <2>3, <2>6, <2>7, <2>8 DEF After
  <2> QED
    BY <2>4, <2>9
<1> QED
  BY <1>1, TypeInvIsInvariant, SlotInvIsInvariant, GenInvIsInvariant,
     CoverInvIsInvariant, ShutdownInvIsInvariant, PTL
-----------------------------------------------------------------------------
(* What readers find *)

\* Every record of the one is newer than every record of the other.
IsAbove(A, B) == \A r \in A, s \in B : s.sequence < r.sequence

LEMMA LayersAreHistory ==
    ASSUME NEW A, NEW B, IsHistory(A), IsHistory(B), IsAbove(A, B)
    PROVE  IsHistory(A \cup B)
<1>1. A \cup B \subseteq Record /\ IsFiniteSet(A \cup B)
  BY FS_Union DEF IsHistory
<1>2. ASSUME NEW r \in A \cup B, NEW s \in A \cup B, r.sequence = s.sequence
      PROVE  r = s
  <2>1. r.sequence \in Nat /\ s.sequence \in Nat
    BY <1>1 DEF Record
  <2>2. (r \in A /\ s \in A) \/ (r \in B /\ s \in B)
    BY <1>2, <2>1 DEF IsAbove
  <2> QED
    BY <1>2, <2>2 DEF IsHistory, SeqUnique
<1>3. SeqUnique(A \cup B)
  BY <1>2 DEF SeqUnique
<1> QED
  BY <1>1, <1>3 DEF IsHistory

LEMMA ValueAbove ==
    ASSUME NEW A, NEW B, IsHistory(A), IsHistory(B), IsAbove(A, B), NEW k
    PROVE  ValueIn(A \cup B, k) = IF Versions(A, k) = {} THEN ValueIn(B, k)
                                  ELSE ValueIn(A, k)
<1>1. IsHistory(A \cup B)
  BY LayersAreHistory
<1>2. \A r \in Versions(A, k), s \in Versions(B, k) : s.sequence < r.sequence
  BY DEF IsAbove, Versions
<1> QED
  BY <1>1, <1>2, ValueLayered

\* A layer may be replaced by one that holds the same values.
LEMMA LayerReplaced ==
    ASSUME NEW A, NEW B, NEW C, IsHistory(A), IsHistory(B), IsHistory(C),
           IsAbove(A, B), IsAbove(A, C), SameValues(B, C)
    PROVE  SameValues(A \cup B, A \cup C)
<1> SUFFICES ASSUME NEW k PROVE ValueIn(A \cup B, k) = ValueIn(A \cup C, k)
  BY DEF SameValues
<1>1. ValueIn(A \cup B, k) = IF Versions(A, k) = {} THEN ValueIn(B, k)
                             ELSE ValueIn(A, k)
  BY ValueAbove
<1>2. ValueIn(A \cup C, k) = IF Versions(A, k) = {} THEN ValueIn(C, k)
                             ELSE ValueIn(A, k)
  BY ValueAbove
<1> QED
  BY <1>1, <1>2 DEF SameValues

Live == RecordsIn(manifest.files, sstables)

LEMMA FilesAreHistory ==
    ASSUME NEW store, IsStore(store), NEW m, IsManifest(m, store), IsConsistent(m, store)
    PROVE  /\ IsHistory(RecordsIn(m.files, store))
           /\ RecordsIn(m.files, store) \subseteq Logged
           /\ \A r \in RecordsIn(m.files, store) :
                 r.sequence \in Nat /\ r.sequence <= m.checkpoint
           /\ m.checkpoint \in Int
<1>1. /\ RecordsIn(m.files, store) \subseteq Logged
      /\ IsFiniteSet(RecordsIn(m.files, store))
  BY NamedRecords DEF IsManifest
<1>2. IsHistory(RecordsIn(m.files, store))
  BY <1>1, LoggedRecords DEF IsHistory, IsConsistent
<1>3. \A r \in RecordsIn(m.files, store) : r.sequence \in Nat
  BY <1>1, SequenceAssumption DEF Logged
<1>4. m.checkpoint \in Int
  BY SequenceAssumption DEF IsManifest, Value, Absent
<1> QED
  BY <1>1, <1>2, <1>3, <1>4 DEF IsConsistent

\* The layers readers look at, and what each knows of the others.
LEMMA VisibleLayers ==
    ASSUME TypeInv, SlotInv, GenInv
    PROVE  /\ VisibleRecords = (active \cup immutable) \cup Live
           /\ IsHistory(active) /\ IsHistory(immutable) /\ IsHistory(Live)
           /\ IsHistory(active \cup immutable) /\ IsHistory(VisibleRecords)
           /\ IsAbove(active, immutable \cup Live)
           /\ worker.pc # "clear" => IsAbove(active \cup immutable, Live)
           /\ worker.pc = "clear" => /\ immutable \subseteq Live
                                     /\ IsAbove(immutable, Live \ immutable)
           /\ \A r \in Live : r.sequence \in Nat /\ r.sequence <= manifest.checkpoint
           /\ manifest.checkpoint \in Int
           /\ \A r \in active \cup immutable : r.sequence \in Nat
<1>1. /\ IsHistory(Live)
      /\ \A r \in Live : r.sequence \in Nat /\ r.sequence <= manifest.checkpoint
      /\ manifest.checkpoint \in Int
  BY FilesAreHistory DEF TypeInv, StoreTypes, ManifestTypes, GenInv, FilesInv, Live
<1>2. IsHistory(active) /\ IsHistory(immutable)
  BY LoggedRecords DEF TypeInv, MemoryTypes, IsMemtable, GenInv, MemoryInv, IsHistory
<1>3. \A r \in active \cup immutable : r.sequence \in Nat
  BY SequenceAssumption DEF TypeInv, MemoryTypes, IsMemtable, Logged
<1>4. IsAbove(active, immutable)
  BY DEF GenInv, MemoryInv, IsAbove
<1>5. IsAbove(active, Live)
  BY <1>1, <1>3 DEF GenInv, MemoryInv, IsAbove
<1>6. ASSUME worker.pc # "clear" PROVE IsAbove(immutable, Live)
  BY <1>1, <1>3, <1>6 DEF GenInv, MemoryInv, IsAbove
<1>7. ASSUME worker.pc = "clear"
      PROVE  immutable \subseteq Live /\ IsAbove(immutable, Live \ immutable)
  BY <1>7 DEF GenInv, MemoryInv, IsAbove, Live
<1>8. VisibleRecords = (active \cup immutable) \cup Live
  BY DEF VisibleRecords, RecordsOf, RecordsIn, Live
<1>9. IsHistory(active \cup immutable)
  BY <1>2, <1>4, LayersAreHistory
<1>10. IsHistory(immutable \cup Live)
  <2>1. CASE worker.pc # "clear"
    BY <1>1, <1>2, <1>6, <2>1, LayersAreHistory
  <2>2. CASE worker.pc = "clear"
    <3>1. immutable \cup Live = Live
      BY <1>7, <2>2
    <3> QED
      BY <1>1, <3>1
  <2> QED
    BY <2>1, <2>2
<1>11. IsAbove(active, immutable \cup Live)
  BY <1>4, <1>5 DEF IsAbove
<1>12. IsHistory(VisibleRecords)
  <2>1. IsHistory(active \cup (immutable \cup Live))
    BY <1>2, <1>10, <1>11, LayersAreHistory
  <2>2. VisibleRecords = active \cup (immutable \cup Live)
    BY <1>8
  <2> QED
    BY <2>1, <2>2
<1>13. worker.pc # "clear" => IsAbove(active \cup immutable, Live)
  BY <1>5, <1>6 DEF IsAbove
<1> QED
  BY <1>1, <1>2, <1>3, <1>7, <1>8, <1>9, <1>11, <1>12, <1>13

\* A write that is applied becomes the value of its key, and of no other.
LEMMA VisibleApply ==
    ASSUME TypeInv, SlotInv, LogInv, GenInv, ApplyWrite
    PROVE  /\ WrittenRecord.key = writer.key
           /\ ValueIn(VisibleRecords', writer.key) = ValueOf({WrittenRecord})
           /\ \A k : k # writer.key =>
                 ValueIn(VisibleRecords', k) = ValueIn(VisibleRecords, k)
<1> DEFINE w == WrittenRecord
<1>1. /\ writer.pc = "apply"
      /\ active' = {s \in active : s.key # w.key} \cup {w}
      /\ UNCHANGED <<immutable, manifest, sstables>>
  BY DEF ApplyWrite, MemtablePut, disk
<1>2. w.key = writer.key
  BY DEF WrittenRecord
<1>3. engine # "down"
  BY <1>1 DEF SlotInv, RotateInv, IdleWriter
<1>4. w \in Logged /\ w.sequence = Bound
  BY <1>1, InFlightIsLast DEF InFlight
<1>5. w.sequence \in Nat
  BY <1>4, BoundTyped
<1> HIDE DEF w
<1>6. /\ VisibleRecords = (active \cup immutable) \cup Live
      /\ IsHistory(VisibleRecords)
      /\ \A r \in Live : r.sequence \in Nat /\ r.sequence <= manifest.checkpoint
      /\ manifest.checkpoint \in Int
  BY VisibleLayers
<1>7. IsAbove({w}, VisibleRecords)
  <2>1. /\ \A r \in active \cup immutable : r.sequence < w.sequence
        /\ manifest.checkpoint < w.sequence
    BY <1>3, <1>4 DEF LogInv, MemoryBelow
  <2>2. \A r \in Live : r.sequence < w.sequence
    BY <1>5, <1>6, <2>1
  <2> QED
    BY <1>6, <2>1, <2>2 DEF IsAbove
<1>8. IsHistory({w})
  BY <1>4, LoggedRecords, FS_Singleton DEF IsHistory, SeqUnique
<1>9. IsHistory({w} \cup VisibleRecords)
  BY <1>6, <1>7, <1>8, LayersAreHistory
<1>10. VisibleRecords' = (active' \cup immutable) \cup Live
  BY <1>1 DEF VisibleRecords, RecordsOf, RecordsIn, Live
<1>11. VisibleRecords' \subseteq {w} \cup VisibleRecords /\ w \in VisibleRecords'
  BY <1>1, <1>6, <1>10
<1>12. IsHistory(VisibleRecords')
  BY <1>9, <1>11, HistorySubset
<1>13. w \in Versions(VisibleRecords', writer.key)
  BY <1>2, <1>11 DEF Versions
<1>14. \A s \in Versions(VisibleRecords', writer.key) : s.sequence <= w.sequence
  <2> SUFFICES ASSUME NEW s \in VisibleRecords' PROVE s.sequence <= w.sequence
    BY DEF Versions
  <2>1. CASE s = w
    BY <1>5, <2>1
  <2>2. CASE s \in VisibleRecords
    <3>1. s.sequence \in Nat /\ s.sequence < w.sequence
      BY <1>6, <1>7, <2>2 DEF IsAbove, IsHistory, Record
    <3> QED
      BY <1>5, <3>1
  <2> QED
    BY <1>11, <2>1, <2>2
<1>15. ValueIn(VisibleRecords', writer.key) = ValueOf({w})
  BY <1>12, <1>13, <1>14, ValueOfNewest
<1>16. ASSUME NEW k, k # writer.key
       PROVE  ValueIn(VisibleRecords', k) = ValueIn(VisibleRecords, k)
  <2>1. Versions(VisibleRecords', k) = Versions(VisibleRecords, k)
    BY <1>1, <1>2, <1>6, <1>10, <1>16 DEF Versions
  <2> QED
    BY <2>1 DEF ValueIn
<1> QED
  BY <1>2, <1>15, <1>16 DEF w

\* No other step of a running process changes what a reader can find: not a
\* rotation, not the publication of a flush or of a compaction, not the
\* clearing of the slot.
LEMMA VisibleSteps ==
    ASSUME TypeInv, TypeInv', SlotInv, GenInv, GenInv', [Next]_vars, ~ApplyWrite,
           engine # "down", engine' # "down"
    PROVE  SameValues(VisibleRecords', VisibleRecords)
<1> USE DEF memory, disk, manifests, readVars
<1>1. /\ VisibleRecords = (active \cup immutable) \cup Live
      /\ IsHistory(active \cup immutable) /\ IsHistory(Live)
      /\ worker.pc # "clear" => IsAbove(active \cup immutable, Live)
      /\ worker.pc = "clear" => immutable \subseteq Live
      /\ manifest.checkpoint \in Int
      /\ \A r \in active \cup immutable : r.sequence \in Nat
  BY VisibleLayers
<1>2. VisibleRecords' = (active' \cup immutable') \cup RecordsIn(manifest'.files, sstables')
  BY DEF VisibleRecords, RecordsOf, RecordsIn
<1>3. VisibleRecords' = VisibleRecords => SameValues(VisibleRecords', VisibleRecords)
  BY DEF SameValues
<1>4. CASE PublishManifest
  <2>1. /\ worker.pc = "publish" /\ manifest' = EditedManifest
        /\ UNCHANGED <<active, immutable, sstables>>
    BY <1>4 DEF PublishManifest
  <2>2. CASE worker.task # {}
    <3>1. RecordsIn(EditedManifest.files, sstables) = Live \cup immutable
      BY <2>1, <2>2, EditKeeps DEF Live
    <3>2. VisibleRecords' = VisibleRecords
      BY <1>1, <1>2, <2>1, <3>1
    <3> QED
      BY <1>3, <3>2
  <2>3. CASE worker.task = {}
    <3> DEFINE E == RecordsIn(EditedManifest.files, sstables)
               M == active \cup immutable
    <3>1. /\ SameValues(E, Live)
          /\ IsConsistent(EditedManifest, sstables)
          /\ EditedManifest.checkpoint = manifest.checkpoint
      BY <2>1, <2>3, EditKeeps DEF Live, EditedManifest
    <3>2. IsStore(sstables) /\ IsManifest(EditedManifest, sstables)
      BY <2>1 DEF TypeInv, StoreTypes, ManifestTypes
    <3>3. /\ IsHistory(E)
          /\ \A r \in E : r.sequence \in Nat /\ r.sequence <= manifest.checkpoint
      <4> DEFINE m == EditedManifest
      <4> HIDE DEF m
      <4>1. IsManifest(m, sstables) /\ IsConsistent(m, sstables)
        BY <3>1, <3>2 DEF m
      <4>2. /\ IsHistory(RecordsIn(m.files, sstables))
            /\ \A r \in RecordsIn(m.files, sstables) :
                  r.sequence \in Nat /\ r.sequence <= m.checkpoint
        BY <3>2, <4>1, FilesAreHistory
      <4> QED
        BY <3>1, <4>2 DEF m
    <3>4. VisibleRecords' = M \cup E /\ VisibleRecords = M \cup Live
      BY <1>1, <1>2, <2>1
    <3>5. IsHistory(M) /\ IsAbove(M, Live)
      BY <1>1, <2>1
    <3>6. \A r \in M : manifest.checkpoint < r.sequence /\ r.sequence \in Nat
      BY <1>1, <2>1 DEF GenInv, MemoryInv
    <3> HIDE DEF M, E
    <3>7. IsAbove(M, E)
      BY <1>1, <3>3, <3>6 DEF IsAbove
    <3>8. SameValues(M \cup E, M \cup Live)
      BY <1>1, <3>1, <3>3, <3>5, <3>7, LayerReplaced
    <3> QED
      BY <3>4, <3>8
  <2> QED
    BY <2>2, <2>3
<1>5. CASE ClearSlot
  <2>1. /\ worker.pc = "clear" /\ immutable' = {}
        /\ UNCHANGED <<active, manifest, sstables>>
    BY <1>5 DEF ClearSlot
  <2>2. VisibleRecords' = VisibleRecords
    BY <1>1, <1>2, <2>1 DEF Live
  <2> QED
    BY <1>3, <2>2
<1>6. CASE ~PublishManifest /\ ~ClearSlot
  <2>1. ~Open /\ \A kind \in CrashKinds : ~Crash(kind)
    BY DEF Open, Crash
  <2>2. /\ active' \cup immutable' = active \cup immutable
        /\ UNCHANGED manifest
    BY <1>6, <2>1, MemorySteps
  <2>3. RecordsIn(manifest.files, sstables') = Live
    BY StoreOnlyGrows, FilesStay DEF Live
  <2>4. VisibleRecords' = VisibleRecords
    BY <1>1, <1>2, <2>2, <2>3
  <2> QED
    BY <1>3, <2>4
<1> QED
  BY <1>4, <1>5, <1>6
-----------------------------------------------------------------------------
(* Reads *)

\* A get() under way knows of every value that the layers it has still to look
\* at may give it.  One that has left the Memtables behind found nothing there,
\* so what they hold of its key was written during the call; it may yet find it
\* in the files.
ReaderInv(r) ==
    /\ reader[r].pc # "idle" => reader[r].key \in Keys /\ engine # "down"
    /\ InProgress(r) => ValueIn(VisibleRecords, reader[r].key) \in candidates[r]
    /\ reader[r].pc \in {"manifest", "files"} =>
          \A s \in Versions(active \cup immutable, reader[r].key) :
              ValueOf({s}) \in candidates[r]
    /\ reader[r].pc = "manifest" => ValueIn(Live, reader[r].key) \in candidates[r]
    /\ reader[r].pc = "files" =>
          ValueIn(RecordsIn(reader[r].live, sstables), reader[r].key) \in candidates[r]
    /\ reader[r].pc = "returned" => reader[r].result \in candidates[r]

ReadInv == \A r \in Readers : ReaderInv(r)

LEMMA ReaderWaits ==
    ASSUME NEW r \in Readers, ReaderInv(r),
           UNCHANGED <<engine, active, immutable, manifest, sstables>>,
           reader'[r] = reader[r], candidates'[r] = candidates[r]
    PROVE  ReaderInv(r)'
BY DEF ReaderInv, InProgress, VisibleRecords, RecordsOf, Live

LEMMA ReadersStay ==
    ASSUME [Next]_vars, ~ApplyWrite, \A kind \in CrashKinds : ~Crash(kind),
           \A r \in Readers : ~ReaderStep(r)
    PROVE  UNCHANGED <<reader, candidates>>
<1> USE DEF memory, disk, manifests, readVars
<1>1. CASE WriterStep
  BY <1>1 DEF WriterStep, LockForWrite, RefuseWrite, PrepareInPlace,
     PrepareRotating, AppendToWal, RefuseSequence, SyncWal
<1>2. CASE WorkerStep
  BY <1>2 DEF WorkerStep, PopTask, BuildSstable, CommitManifest, PublishManifest,
     ClearSlot, ReclaimWal, SkipCompaction, PlanCompaction, MergeSstables,
     FailWorker, ExitWorker
<1>3. CASE LifecycleStep
  BY <1>3 DEF LifecycleStep, BeginShutdown, FinalFlush, JoinWorker, Open
<1>4. CASE UNCHANGED vars
  BY <1>4 DEF vars
<1> QED
  BY <1>1, <1>2, <1>3, <1>4 DEF Next

\* The Memtables answer what all the layers together say, or nothing.
LEMMA MemoryAnswers ==
    ASSUME TypeInv, SlotInv, GenInv, NEW k,
           NEW table, table = IF Versions(active, k) # {} THEN active ELSE immutable
    PROVE  /\ Versions(table, k) # {} => ValueIn(table, k) = ValueIn(VisibleRecords, k)
           /\ Versions(table, k) = {} =>
                 /\ Versions(active \cup immutable, k) = {}
                 /\ ValueIn(Live, k) = ValueIn(VisibleRecords, k)
<1>1. /\ VisibleRecords = (active \cup immutable) \cup Live
      /\ IsHistory(active) /\ IsHistory(immutable) /\ IsHistory(Live)
      /\ IsHistory(VisibleRecords)
      /\ IsAbove(active, immutable \cup Live)
      /\ worker.pc # "clear" => IsAbove(active \cup immutable, Live)
      /\ worker.pc = "clear" => /\ immutable \subseteq Live
                                /\ IsAbove(immutable, Live \ immutable)
  BY VisibleLayers
<1>2. VisibleRecords = active \cup (immutable \cup Live)
  BY <1>1
<1>3. IsHistory(immutable \cup Live)
  BY <1>1, <1>2, HistorySubset
<1>4. ValueIn(VisibleRecords, k) = IF Versions(active, k) = {}
                                   THEN ValueIn(immutable \cup Live, k)
                                   ELSE ValueIn(active, k)
  <2> DEFINE B == immutable \cup Live
  <2>1. IsHistory(active) /\ IsHistory(B) /\ IsAbove(active, B) /\ VisibleRecords = active \cup B
    BY <1>1, <1>2, <1>3
  <2> HIDE DEF B
  <2>2. ValueIn(active \cup B, k) = IF Versions(active, k) = {} THEN ValueIn(B, k)
                                    ELSE ValueIn(active, k)
    BY <2>1, ValueAbove
  <2> QED
    BY <2>1, <2>2 DEF B
<1>5. PICK rest : /\ immutable \cup Live = immutable \cup rest
                  /\ IsHistory(rest) /\ IsAbove(immutable, rest)
                  /\ Versions(immutable, k) = {} => Versions(rest, k) = Versions(Live, k)
  <2>1. CASE worker.pc # "clear"
    <3>1. IsAbove(immutable, Live)
      BY <1>1, <2>1 DEF IsAbove
    <3> QED
      BY <1>1, <3>1
  <2>2. CASE worker.pc = "clear"
    <3> DEFINE rest == Live \ immutable
    <3>1. IsHistory(rest)
      BY <1>1, HistorySubset
    <3>2. immutable \cup Live = immutable \cup rest
      OBVIOUS
    <3>3. Versions(immutable, k) = {} => Versions(rest, k) = Versions(Live, k)
      BY DEF Versions
    <3> QED
      BY <1>1, <2>2, <3>1, <3>2, <3>3
  <2> QED
    BY <2>1, <2>2
<1>6. ValueIn(immutable \cup Live, k) = IF Versions(immutable, k) = {}
                                        THEN ValueIn(rest, k)
                                        ELSE ValueIn(immutable, k)
  BY <1>1, <1>5, ValueAbove
<1>7. Versions(immutable, k) = {} => ValueIn(rest, k) = ValueIn(Live, k)
  BY <1>5 DEF ValueIn
<1>8. Versions(active, k) = {} /\ Versions(immutable, k) = {}
         => Versions(active \cup immutable, k) = {}
  BY DEF Versions
<1> QED
  BY <1>4, <1>6, <1>7, <1>8

\* The clauses of ReaderInv, one for each value of pc.
LEMMA ReaderInvFrom ==
    ASSUME NEW r \in Readers, NEW k \in Keys, NEW pc, NEW C,
           UNCHANGED <<engine, active, immutable, manifest, sstables>>,
           engine # "down", ValueIn(VisibleRecords, k) \in C,
           reader'[r].pc = pc, reader'[r].key = k, candidates'[r] = C,
           pc \in {"manifest", "files"} =>
              \A s \in Versions(active \cup immutable, k) : ValueOf({s}) \in C,
           pc = "manifest" => ValueIn(Live, k) \in C,
           pc = "files" =>
              ValueIn(RecordsIn(reader'[r].live, sstables), k) \in C,
           pc = "returned" => reader'[r].result \in C
    PROVE  ReaderInv(r)'
<1>1. VisibleRecords' = VisibleRecords /\ Live' = Live
  BY DEF VisibleRecords, RecordsOf, Live
<1>2. active' \cup immutable' = active \cup immutable
  OBVIOUS
<1> QED
  BY <1>1, <1>2 DEF ReaderInv

LEMMA ReaderPreservesReadInv ==
    ASSUME TypeInv, SlotInv, GenInv, ReadInv, NEW r \in Readers, ReaderStep(r)
    PROVE  ReadInv'
<1>1. UNCHANGED <<engine, active, immutable, manifest, sstables, worker>>
  BY ReaderFrame DEF memory, disk
<1>2. /\ reader \in [Readers -> [pc : {"idle", "memory", "manifest", "files",
                                       "returned"},
                                 key : Keys \cup {Absent}, live : SUBSET Metadata,
                                 result : Value]]
      /\ candidates \in [Readers -> SUBSET Value]
      /\ IsNamed(reader[r].live, sstables)
  BY DEF TypeInv, ReaderTypes
<1>3. ReaderInv(r)
  BY DEF ReadInv
<1>4. ASSUME NEW q \in Readers, q # r PROVE ReaderInv(q)'
  <2>1. reader'[q] = reader[q] /\ candidates'[q] = candidates[q]
    BY <1>2, <1>4 DEF ReaderStep, CallGet, ReadMemory, ReadManifest, ReadFiles
  <2> QED
    BY <1>1, <2>1, ReaderWaits DEF ReadInv
<1>5. /\ VisibleRecords' = VisibleRecords /\ Live' = Live
  BY <1>1 DEF VisibleRecords, RecordsOf, Live
<1>6. ASSUME NEW k \in Keys, CallGet(r, k) PROVE ReaderInv(r)'
  <2>1. /\ reader'[r] = [pc |-> "memory", key |-> k, live |-> {}, result |-> Absent]
        /\ candidates'[r] = {ValueIn(VisibleRecords, k)}
        /\ engine # "down"
    BY <1>2, <1>6 DEF CallGet
  <2> QED
    BY <1>1, <1>5, <2>1 DEF ReaderInv, InProgress
<1>7. ASSUME ReadMemory(r) PROVE ReaderInv(r)'
  <2> DEFINE k == reader[r].key
             table == IF Versions(active, k) # {} THEN active ELSE immutable
  <2>1. /\ reader[r].pc = "memory" /\ candidates' = candidates
        /\ reader' = [reader EXCEPT ![r] =
                        IF Versions(table, k) = {}
                            THEN [@ EXCEPT !.pc = "manifest"]
                            ELSE [@ EXCEPT !.pc = "returned",
                                           !.result = ValueIn(table, k)]]
    BY <1>7 DEF ReadMemory
  <2>2. k \in Keys /\ engine # "down" /\ ValueIn(VisibleRecords, k) \in candidates[r]
    BY <1>3, <2>1 DEF ReaderInv, InProgress
  <2>3. /\ Versions(table, k) # {} => ValueIn(table, k) = ValueIn(VisibleRecords, k)
        /\ Versions(table, k) = {} =>
              /\ Versions(active \cup immutable, k) = {}
              /\ ValueIn(Live, k) = ValueIn(VisibleRecords, k)
    BY MemoryAnswers
  <2> HIDE DEF table
  <2>4. CASE Versions(table, k) = {}
    <3>1. reader'[r].pc = "manifest" /\ reader'[r].key = k
      BY <1>2, <2>1, <2>4
    <3>2. /\ candidates'[r] = candidates[r]
          /\ ValueIn(Live, k) \in candidates[r]
          /\ Versions(active \cup immutable, k) = {}
      BY <2>1, <2>2, <2>3, <2>4
    <3> QED
      BY <1>1, <2>2, <3>1, <3>2, ReaderInvFrom
  <2>5. CASE Versions(table, k) # {}
    <3>1. /\ reader'[r].pc = "returned" /\ reader'[r].key = k
          /\ reader'[r].result = ValueIn(table, k)
      BY <1>2, <2>1, <2>5
    <3>2. /\ candidates'[r] = candidates[r]
          /\ reader'[r].result \in candidates[r]
      BY <2>1, <2>2, <2>3, <2>5, <3>1
    <3> QED
      BY <1>1, <2>2, <3>1, <3>2, ReaderInvFrom
  <2> QED
    BY <2>4, <2>5
<1>8. ASSUME ReadManifest(r) PROVE ReaderInv(r)'
  <2>1. /\ reader[r].pc = "manifest" /\ candidates' = candidates
        /\ reader'[r].pc = "files" /\ reader'[r].key = reader[r].key
        /\ reader'[r].live = manifest.files
    BY <1>2, <1>8 DEF ReadManifest
  <2>2. /\ reader[r].key \in Keys /\ engine # "down"
        /\ ValueIn(VisibleRecords, reader[r].key) \in candidates[r]
        /\ \A s \in Versions(active \cup immutable, reader[r].key) :
              ValueOf({s}) \in candidates[r]
        /\ ValueIn(Live, reader[r].key) \in candidates[r]
    BY <1>3, <2>1 DEF ReaderInv, InProgress
  <2>3. candidates'[r] = candidates[r]
    BY <2>1
  <2>4. ValueIn(RecordsIn(reader'[r].live, sstables), reader[r].key) \in candidates[r]
    BY <2>1, <2>2 DEF Live
  <2> QED
    BY <1>1, <2>1, <2>2, <2>3, <2>4, ReaderInvFrom
<1>9. ASSUME ReadFiles(r) PROVE ReaderInv(r)'
  <2> DEFINE k == reader[r].key
             consulted == {f \in reader[r].live : InRange(k, f)}
  <2>1. /\ reader[r].pc = "files" /\ candidates' = candidates
        /\ reader'[r].pc = "returned" /\ reader'[r].key = k
        /\ reader'[r].result = ValueIn(RecordsOf(consulted), k)
    BY <1>2, <1>9 DEF ReadFiles
  <2>2. /\ k \in Keys /\ engine # "down"
        /\ ValueIn(RecordsIn(reader[r].live, sstables), k) \in candidates[r]
        /\ ValueIn(VisibleRecords, k) \in candidates[r]
    BY <1>3, <2>1 DEF ReaderInv, InProgress
  <2>3. \A f \in reader[r].live : \A s \in sstables[f.path] : InRange(s.key, f)
    BY <1>2, NamedFiles DEF TypeInv, StoreTypes
  <2>4. Versions(RecordsOf(consulted), k) = Versions(RecordsIn(reader[r].live, sstables), k)
    BY <2>3 DEF Versions, RecordsOf, RecordsIn
  <2>5. ValueIn(RecordsOf(consulted), k) = ValueIn(RecordsIn(reader[r].live, sstables), k)
    BY <2>4 DEF ValueIn
  <2>6. candidates'[r] = candidates[r] /\ reader'[r].result \in candidates[r]
    BY <2>1, <2>2, <2>5
  <2> QED
    BY <1>1, <2>1, <2>2, <2>6, ReaderInvFrom
<1>10. ReaderInv(r)'
  <2>1. CASE \E k \in Keys : CallGet(r, k)
    BY <1>6, <2>1
  <2> QED
    BY <1>7, <1>8, <1>9, <2>1 DEF ReaderStep
<1> QED
  BY <1>4, <1>10 DEF ReadInv

\* A flush that is published moves the records of the slot into the files: what
\* a reader may find there next is an old value or one it knows.
LEMMA PublishReads ==
    ASSUME TypeInv, SlotInv, GenInv, PublishManifest,
           NEW k, NEW C, ValueIn(Live, k) \in C,
           \A s \in Versions(active \cup immutable, k) : ValueOf({s}) \in C
    PROVE  ValueIn(Live', k) \in C
<1>1. /\ worker.pc = "publish" /\ manifest' = EditedManifest /\ sstables' = sstables
  BY DEF PublishManifest, disk
<1>2. Live' = RecordsIn(EditedManifest.files, sstables)
  BY <1>1 DEF Live
<1>3. CASE worker.task = {}
  BY <1>1, <1>2, <1>3, EditKeeps DEF SameValues, Live
<1>4. CASE worker.task # {}
  <2>1. Live' = immutable \cup Live /\ IsAbove(immutable, Live)
    BY <1>1, <1>2, <1>4, EditKeeps DEF Live, IsAbove
  <2>2. IsHistory(immutable) /\ IsHistory(Live)
    BY VisibleLayers
  <2>3. ValueIn(Live', k) = IF Versions(immutable, k) = {} THEN ValueIn(Live, k)
                            ELSE ValueIn(immutable, k)
    BY <2>1, <2>2, ValueAbove
  <2>4. ASSUME Versions(immutable, k) # {} PROVE ValueIn(immutable, k) \in C
    <3>1. PICK s \in Versions(immutable, k) :
              \A t \in Versions(immutable, k) : t.sequence <= s.sequence
      BY <2>2, <2>4, NewestVersion
    <3>2. ValueIn(immutable, k) = ValueOf({s})
      BY <2>2, <3>1, ValueOfNewest
    <3>3. s \in Versions(active \cup immutable, k)
      BY DEF Versions
    <3> QED
      BY <3>2, <3>3
  <2> QED
    BY <2>3, <2>4
<1> QED
  BY <1>3, <1>4

LEMMA ReadInvSteps ==
    ASSUME TypeInv, TypeInv', SlotInv, LogInv, GenInv, GenInv', ReadInv, [Next]_vars
    PROVE  ReadInv'
<1> USE DEF memory, disk, manifests, readVars
<1>1. ASSUME NEW kind \in CrashKinds, Crash(kind) PROVE ReadInv'
  BY <1>1 DEF Crash, ReadInv, ReaderInv, InProgress, IdleReader
<1>2. CASE ApplyWrite
  <2> SUFFICES ASSUME NEW r \in Readers PROVE ReaderInv(r)'
    BY DEF ReadInv
  <2>1. /\ active' = {s \in active : s.key # WrittenRecord.key} \cup {WrittenRecord}
        /\ UNCHANGED <<engine, immutable, manifest, sstables, reader>>
        /\ candidates'[r] = IF InProgress(r) /\ reader[r].key = writer.key
                               THEN candidates[r] \cup {ValueOf({WrittenRecord})}
                               ELSE candidates[r]
    BY <1>2 DEF ApplyWrite, MemtablePut
  <2>2. /\ WrittenRecord.key = writer.key
        /\ ValueIn(VisibleRecords', writer.key) = ValueOf({WrittenRecord})
        /\ \A k : k # writer.key =>
              ValueIn(VisibleRecords', k) = ValueIn(VisibleRecords, k)
    BY <1>2, VisibleApply
  <2> DEFINE k == reader[r].key
  <2>3. ReaderInv(r)
    BY DEF ReadInv
  <2>4. InProgress(r) => ValueIn(VisibleRecords', k) \in candidates'[r]
    BY <2>1, <2>2, <2>3 DEF ReaderInv
  <2>5. ASSUME reader[r].pc \in {"manifest", "files"},
               NEW s \in Versions(active' \cup immutable', k)
        PROVE  ValueOf({s}) \in candidates'[r]
    <3>1. InProgress(r)
      BY <2>5 DEF InProgress
    <3>2. CASE s = WrittenRecord
      <4>1. k = writer.key
        BY <2>2, <2>5, <3>2 DEF Versions
      <4> QED
        BY <2>1, <3>1, <3>2, <4>1
    <3>3. CASE s # WrittenRecord
      <4>1. s \in Versions(active \cup immutable, k)
        BY <2>1, <2>5, <3>3 DEF Versions
      <4> QED
        BY <2>1, <2>3, <2>5, <4>1 DEF ReaderInv
    <3> QED
      BY <3>2, <3>3
  <2>6. candidates[r] \subseteq candidates'[r]
    BY <2>1
  <2>7. Live' = Live
    BY <2>1 DEF Live
  <2> QED
    BY <2>1, <2>3, <2>4, <2>5, <2>6, <2>7 DEF ReaderInv, InProgress
<1>3. ASSUME NEW r \in Readers, ReaderStep(r) PROVE ReadInv'
  BY <1>3, ReaderPreservesReadInv
<1>4. ASSUME ~ApplyWrite, \A kind \in CrashKinds : ~Crash(kind),
             \A r \in Readers : ~ReaderStep(r)
      PROVE  ReadInv'
  <2> SUFFICES ASSUME NEW r \in Readers PROVE ReaderInv(r)'
    BY DEF ReadInv
  <2>1. reader' = reader /\ candidates' = candidates
    BY <1>4, ReadersStay
  <2> DEFINE k == reader[r].key
  <2>2. ReaderInv(r)
    BY DEF ReadInv
  <2>3. CASE reader[r].pc = "idle"
    BY <2>1, <2>3 DEF ReaderInv, InProgress
  <2>4. CASE reader[r].pc # "idle"
    <3>1. k \in Keys /\ engine # "down"
      BY <2>2, <2>4 DEF ReaderInv
    <3>2. ~Open
      BY <3>1 DEF Open
    <3>3. /\ engine' # "down"
          /\ active' \cup immutable' \subseteq active \cup immutable
          /\ PublishManifest \/ UNCHANGED manifest
      <4>1. CASE PublishManifest
        BY <3>1, <4>1 DEF PublishManifest
      <4>2. CASE ClearSlot
        BY <3>1, <4>2 DEF ClearSlot
      <4>3. CASE ~PublishManifest /\ ~ClearSlot
        BY <1>4, <3>1, <3>2, <4>3, MemorySteps
      <4> QED
        BY <4>1, <4>2, <4>3
    <3>4. ValueIn(VisibleRecords', k) = ValueIn(VisibleRecords, k)
      BY <1>4, <3>1, <3>3, VisibleSteps DEF SameValues
    <3>5. Extends(sstables, sstables')
      BY StoreOnlyGrows
    <3>6. RecordsIn(reader[r].live, sstables') = RecordsIn(reader[r].live, sstables)
      BY <3>5, NamedStays DEF TypeInv, ReaderTypes
    <3>7. Versions(active' \cup immutable', k) \subseteq Versions(active \cup immutable, k)
      BY <3>3 DEF Versions
    <3>8. ASSUME reader[r].pc = "manifest" PROVE ValueIn(Live', k) \in candidates[r]
      <4>1. CASE PublishManifest
        BY <2>2, <3>8, <4>1, PublishReads DEF ReaderInv
      <4>2. CASE UNCHANGED manifest
        <5>1. RecordsIn(manifest.files, sstables') = RecordsIn(manifest.files, sstables)
          BY <3>5, FilesStay
        <5>2. Live' = Live
          BY <4>2, <5>1 DEF Live
        <5> QED
          BY <2>2, <3>8, <5>2 DEF ReaderInv
      <4> QED
        BY <3>3, <4>1, <4>2
    <3> QED
      BY <2>1, <2>2, <3>1, <3>3, <3>4, <3>6, <3>7, <3>8 DEF ReaderInv, InProgress
  <2> QED
    BY <2>3, <2>4
<1> QED
  BY <1>1, <1>2, <1>3, <1>4

\* No get() loses sight of a value it may have to return (KronosEngine::get).
THEOREM ReadInvIsInvariant == Spec => []ReadInv
<1>1. Init => ReadInv
  BY DEF Init, ReadInv, ReaderInv, InProgress, IdleReader
<1> QED
  BY <1>1, ReadInvSteps, TypeInvIsInvariant, SlotInvIsInvariant, LogInvIsInvariant,
     GenInvIsInvariant, PTL DEF Spec

\* Reads are linearizable: though get() looks at the Memtables and at the files
\* at different moments, what it returns was the value of its key at a moment of
\* the call (KronosEngine::get, engine.cpp:261-432).
THEOREM EngineReadsAreLinearizable == Spec => []ReadsAreLinearizable
<1>1. ReadInv => ReadsAreLinearizable
  BY DEF ReadInv, ReaderInv, ReadsAreLinearizable
<1> QED
  BY <1>1, ReadInvIsInvariant, PTL
-----------------------------------------------------------------------------
(* What a stop leaves *)

\* A process that was killed leaves writes that no fsync covers, and the next
\* process takes them for durable.  Everything below is about stops of one
\* kind: either none of them is a power loss, or all of them are.
OneKindOfStop == "power" \in CrashKinds => "process" \notin CrashKinds

\* Only the record whose fsync is pending is not durable.
SyncInv ==
    "power" \in CrashKinds =>
        \/ walSynced = Len(wal)
        \/ writer.pc = "fsync" /\ walSynced = Len(wal) - 1

\* A power loss brings back the MANIFEST before the last replacement, which is
\* what the process believes in, or none but the file.
PossInv ==
    "power" \in CrashKinds =>
        \A m \in manifestPossible :
            m = manifestDisk \/ (engine # "down" /\ m = manifest)

StopInv == SyncInv /\ PossInv

LEMMA StopFrame ==
    ASSUME StopInv
    PROVE  /\ UNCHANGED <<wal, walSynced>> /\ writer.pc # "fsync" => SyncInv'
           /\ UNCHANGED <<wal, walSynced, writer>> => SyncInv'
           /\ UNCHANGED <<engine, manifest, manifestDisk, manifestPossible>> => PossInv'
           /\ DirectorySynced => PossInv'
BY DEF StopInv, SyncInv, PossInv, DirectorySynced

LEMMA StopSteps ==
    ASSUME OneKindOfStop, TypeInv, SlotInv, GenInv, StopInv, [Next]_vars
    PROVE  StopInv'
<1> USE DEF memory, disk, manifests, readVars
<1>1. CASE WriterStep
  <2>1. UNCHANGED <<engine, manifest, manifestDisk, manifestPossible>>
    BY <1>1 DEF WriterStep, LockForWrite, RefuseWrite, PrepareInPlace,
       PrepareRotating, AppendToWal, RefuseSequence, SyncWal, ApplyWrite
  <2>2. PossInv'
    BY <2>1, StopFrame
  <2>3. CASE AppendToWal
    <3> DEFINE e == [key |-> writer.key, sequence |-> nextSequence,
                     operation |-> writer.operation]
    <3>1. /\ writer.pc = "append" /\ wal' = Append(wal, e) /\ walSynced' = walSynced
          /\ writer' = [writer EXCEPT !.pc = "fsync", !.sequence = nextSequence]
      BY <2>3 DEF AppendToWal
    <3>2. writer'.pc = "fsync"
      BY <3>1 DEF SlotInv, WriterShape
    <3> HIDE DEF e
    <3>3. Len(wal') = Len(wal) + 1 /\ Len(wal) \in Nat
      BY <3>1, LogTyped
    <3>4. "power" \in CrashKinds => walSynced = Len(wal)
      BY <3>1 DEF StopInv, SyncInv
    <3> QED
      BY <2>2, <3>1, <3>2, <3>3, <3>4 DEF StopInv, SyncInv
  <2>4. CASE SyncWal
    BY <2>2, <2>4 DEF SyncWal, StopInv, SyncInv
  <2>5. CASE ~AppendToWal /\ ~SyncWal
    <3>1. UNCHANGED <<wal, walSynced>> /\ writer.pc # "fsync"
      BY <1>1, <2>5 DEF WriterStep, LockForWrite, RefuseWrite, PrepareInPlace,
         PrepareRotating, RefuseSequence, ApplyWrite
    <3> QED
      BY <2>2, <3>1, StopFrame DEF StopInv
  <2> QED
    BY <2>3, <2>4, <2>5
<1>2. CASE WorkerStep
  <2>1. writer' = writer
    BY <1>2 DEF WorkerStep, PopTask, BuildSstable, CommitManifest,
       PublishManifest, ClearSlot, ReclaimWal, SkipCompaction, PlanCompaction,
       MergeSstables, FailWorker, ExitWorker
  <2>2. SyncInv'
    <3>1. CASE ReclaimWal
      BY <3>1 DEF ReclaimWal, SyncInv
    <3>2. CASE ~ReclaimWal
      <4>1. UNCHANGED <<wal, walSynced>>
        BY <1>2, <3>2 DEF WorkerStep, PopTask, BuildSstable, CommitManifest,
           PublishManifest, ClearSlot, SkipCompaction, PlanCompaction,
           MergeSstables, FailWorker, ExitWorker
      <4> QED
        BY <2>1, <4>1, StopFrame
    <3> QED
      BY <3>1, <3>2
  <2>3. PossInv'
    <3>1. CASE CommitManifest
      <4>1. /\ worker.pc = "commit" /\ manifestDisk' = EditedManifest
            /\ manifestPossible' = manifestPossible \cup {EditedManifest}
            /\ UNCHANGED <<engine, manifest>>
        BY <3>1 DEF CommitManifest
      <4>2. engine # "down" /\ ~backgroundError
        BY <4>1 DEF SlotInv, RotateInv, IdleWorker, GenInv, ViewInv
      <4>3. manifestPossible = {manifestDisk} /\ manifestDisk = manifest
        BY <4>1, <4>2 DEF GenInv, ViewInv
      <4> QED
        BY <4>1, <4>2, <4>3 DEF PossInv
    <3>2. CASE BuildSstable
      BY <3>2, StopFrame DEF BuildSstable
    <3>3. CASE PublishManifest
      BY <3>3, StopFrame DEF PublishManifest
    <3>4. CASE MergeSstables
      <4>1. /\ UNCHANGED <<engine, manifest>>
            /\ DirectorySynced \/ UNCHANGED manifests
        BY <3>4, Zenon DEF MergeSstables
      <4> QED
        BY <4>1, StopFrame
    <3>5. CASE /\ ~CommitManifest /\ ~BuildSstable /\ ~PublishManifest
               /\ ~MergeSstables
      <4>1. UNCHANGED <<engine, manifest, manifestDisk, manifestPossible>>
        BY <1>2, <3>5 DEF WorkerStep, PopTask, ClearSlot, ReclaimWal,
           SkipCompaction, PlanCompaction, FailWorker, ExitWorker
      <4> QED
        BY <4>1, StopFrame
    <3> QED
      BY <3>1, <3>2, <3>3, <3>4, <3>5
  <2> QED
    BY <2>2, <2>3 DEF StopInv
<1>3. ASSUME NEW r \in Readers, ReaderStep(r) PROVE StopInv'
  BY <1>3, ReaderFrame, StopFrame DEF StopInv
<1>4. CASE LifecycleStep
  <2>1. CASE BeginShutdown
    BY <2>1 DEF BeginShutdown, StopInv, SyncInv, PossInv
  <2>2. CASE FinalFlush
    BY <2>2 DEF FinalFlush, StopInv, SyncInv, PossInv
  <2>3. CASE JoinWorker
    BY <2>3 DEF JoinWorker, StopInv, SyncInv, PossInv
  <2>4. CASE Open
    BY <2>4 DEF Open, StopInv, SyncInv, PossInv
  <2>5. ASSUME NEW kind \in CrashKinds, Crash(kind) PROVE StopInv'
    <3> SUFFICES ASSUME "power" \in CrashKinds PROVE StopInv'
      BY DEF StopInv, SyncInv, PossInv
    <3>1. kind = "power"
      BY CrashAssumption DEF OneKindOfStop
    <3>2. PICK n \in 0 .. Len(wal) : Len(wal') = n /\ walSynced' = n
      BY <2>5, <3>1, CrashedLog
    <3>3. manifestPossible' = {manifestDisk'}
      BY <2>5, <3>1 DEF Crash
    <3> QED
      BY <3>2, <3>3 DEF StopInv, SyncInv, PossInv
  <2> QED
    BY <1>4, <2>1, <2>2, <2>3, <2>4, <2>5 DEF LifecycleStep
<1>5. CASE UNCHANGED vars
  BY <1>5, StopFrame DEF vars, StopInv
<1> QED
  BY <1>1, <1>2, <1>3, <1>4, <1>5 DEF Next

\* At any moment at most one record is not durable and at most one replacement
\* of the MANIFEST can be undone.
THEOREM StopInvIsInvariant ==
    ASSUME OneKindOfStop
    PROVE  Spec => []StopInv
<1>1. Init => StopInv
  BY DEF Init, StopInv, SyncInv, PossInv
<1>2. TypeInv /\ SlotInv /\ GenInv /\ StopInv /\ [Next]_vars => StopInv'
  BY StopSteps
<1> QED
  BY <1>1, <1>2, TypeInvIsInvariant, SlotInvIsInvariant, GenInvIsInvariant, PTL
  DEF Spec

\* What a stop at this moment leaves of the log holds every acknowledged record.
LEMMA SurvivingLog ==
    ASSUME TypeInv, SlotInv, LogInv, StopInv
    PROVE  /\ Acknowledged \subseteq SurvivingWal
           /\ SurvivingWal \subseteq WalRecords
           /\ SurvivingWal \ InFlight = Acknowledged
<1>1. Len(wal) \in Nat /\ DOMAIN wal = 1 .. Len(wal) /\ SyncedRecords \subseteq WalRecords
  BY LogTyped
<1>2. ASSUME "power" \in CrashKinds, NEW r \in Acknowledged
      PROVE  r \in SyncedRecords
  <2>1. PICK i \in 1 .. Len(wal) : r = wal[i]
    BY <1>1 DEF Acknowledged, WalRecords
  <2>2. CASE walSynced = Len(wal)
    BY <2>1, <2>2 DEF SyncedRecords
  <2>3. CASE writer.pc = "fsync" /\ walSynced = Len(wal) - 1
    <3>1. wal[Len(wal)] \in InFlight
      BY <2>3 DEF LogInv, WriterLog, InFlight
    <3>2. i # Len(wal)
      BY <2>1, <3>1 DEF Acknowledged
    <3> DEFINE n == Len(wal)
    <3>3. n \in Nat /\ i \in 1 .. n /\ i # n /\ walSynced = n - 1
      BY <1>1, <2>1, <2>3, <3>2
    <3> HIDE DEF n
    <3>4. i \in 1 .. walSynced
      BY <3>3
    <3> QED
      BY <2>1, <3>4 DEF SyncedRecords
  <2> QED
    BY <1>2, <2>2, <2>3 DEF StopInv, SyncInv
<1>3. Acknowledged \subseteq SurvivingWal /\ SurvivingWal \subseteq WalRecords
  BY <1>1, <1>2 DEF SurvivingWal, Acknowledged
<1> QED
  BY <1>3 DEF Acknowledged

\* And a stop does leave them all, whatever else it takes.
LEMMA StopKeepsAcknowledged ==
    ASSUME TypeInv, SlotInv, LogInv, StopInv, NEW kind \in CrashKinds, Crash(kind)
    PROVE  /\ Acknowledged \subseteq WalRecords'
           /\ WalRecords' \subseteq Acknowledged \cup InFlight
           /\ InFlight' = {}
<1>1. /\ WalRecords' \subseteq WalRecords /\ SyncedRecords \subseteq WalRecords'
      /\ kind # "power" => WalRecords' = WalRecords
      /\ InFlight' = {}
  BY LogOfCrash
<1>2. CASE kind # "power"
  BY <1>1, <1>2 DEF Acknowledged
<1>3. CASE kind = "power"
  <2>1. SurvivingWal = SyncedRecords
    BY <1>3 DEF SurvivingWal
  <2> QED
    BY <1>1, <2>1, SurvivingLog DEF Acknowledged
<1> QED
  BY <1>2, <1>3
-----------------------------------------------------------------------------
(* A replacement of the MANIFEST in doubt *)

\* What the MANIFEST file says beside the view of the process: the same, or
\* also the flush of the Memtable that is still in the slot, or the same values
\* in compacted files.
FileIsCurrent ==
    LET R == RecordsIn(manifestDisk.files, sstables)
    IN  \/ manifestDisk = manifest
        \/ /\ immutable # {} /\ worker.pc # "clear"
           /\ manifestDisk.checkpoint = HighestSequence(immutable)
           /\ R = Live \cup immutable
        \/ /\ manifestDisk.checkpoint = manifest.checkpoint
           /\ SameValues(R, Live)

\* When the fsync of the directory fails the process goes on with its old view
\* and serves reads, but nothing is built on that view any more.
DoubtInv == backgroundError => FileIsCurrent

LEMMA NoErrorNoDoubt ==
    TypeInv /\ SlotInv /\ GenInv /\ engine # "down" /\ ~backgroundError => FileIsCurrent
<1> SUFFICES ASSUME TypeInv, SlotInv, GenInv, engine # "down", ~backgroundError
             PROVE  FileIsCurrent
  OBVIOUS
<1>1. CASE worker.pc # "publish"
  BY <1>1 DEF GenInv, ViewInv, FileIsCurrent
<1>2. CASE worker.pc = "publish" /\ worker.task # {}
  <2>1. manifestDisk = EditedManifest
    BY <1>2 DEF GenInv, ViewInv
  <2>2. immutable = worker.task
    BY <1>2 DEF SlotInv, TaskInv
  <2>3. manifestDisk.checkpoint = HighestSequence(immutable)
    BY <1>2, <2>1, <2>2 DEF EditedManifest
  <2>4. RecordsIn(manifestDisk.files, sstables) = Live \cup immutable
    BY <1>2, <2>1, EditKeeps DEF Live
  <2> QED
    BY <1>2, <2>2, <2>3, <2>4 DEF FileIsCurrent
<1>3. CASE worker.pc = "publish" /\ worker.task = {}
  <2>1. manifestDisk = EditedManifest
    BY <1>3 DEF GenInv, ViewInv
  <2>2. manifestDisk.checkpoint = manifest.checkpoint
    BY <1>3, <2>1 DEF EditedManifest
  <2>3. SameValues(RecordsIn(manifestDisk.files, sstables), Live)
    BY <1>3, <2>1, EditKeeps DEF Live
  <2> QED
    BY <2>2, <2>3 DEF FileIsCurrent
<1> QED
  BY <1>1, <1>2, <1>3

\* After an error no step but a stop touches the slot, the files or the view.
LEMMA ErrorFreezes ==
    ASSUME SlotInv, GenInv, backgroundError, [Next]_vars,
           \A kind \in CrashKinds : ~Crash(kind)
    PROVE  UNCHANGED <<immutable, manifest, manifestDisk, sstables, worker>>
<1> USE DEF memory, disk, manifests, readVars
<1>1. worker.pc = "exited" /\ engine # "down"
  BY DEF GenInv, ViewInv, SlotInv, RotateInv, IdleWorker
<1>2. CASE WriterStep
  BY <1>2 DEF WriterStep, LockForWrite, RefuseWrite, PrepareInPlace, MayWrite,
     PrepareRotating, AppendToWal, RefuseSequence, SyncWal, ApplyWrite
<1>3. ~WorkerStep
  BY <1>1 DEF WorkerStep, PopTask, BuildSstable, CommitManifest, PublishManifest,
     ClearSlot, ReclaimWal, SkipCompaction, PlanCompaction, MergeSstables,
     FailWorker, ExitWorker
<1>4. ASSUME NEW r \in Readers, ReaderStep(r)
      PROVE  UNCHANGED <<immutable, manifest, manifestDisk, sstables, worker>>
  BY <1>4, ReaderFrame
<1>5. CASE LifecycleStep
  <2>1. CASE FinalFlush
    BY <2>1 DEF FinalFlush
  <2> QED
    BY <1>1, <1>5, <2>1 DEF LifecycleStep, BeginShutdown, JoinWorker, Open
<1>6. CASE UNCHANGED vars
  BY <1>6 DEF vars
<1> QED
  BY <1>2, <1>3, <1>4, <1>5, <1>6 DEF Next

LEMMA DoubtSteps ==
    ASSUME TypeInv, SlotInv, GenInv, DoubtInv, [Next]_vars
    PROVE  DoubtInv'
<1> USE DEF memory, disk, manifests, readVars
<1> SUFFICES ASSUME backgroundError' PROVE FileIsCurrent'
  BY DEF DoubtInv
<1>1. \A kind \in CrashKinds : ~Crash(kind)
  BY DEF Crash
<1>2. CASE backgroundError
  BY <1>1, <1>2, ErrorFreezes DEF DoubtInv, FileIsCurrent, Live
<1>3. CASE ~backgroundError
  <2>1. FailWorker
    <3>1. CASE WriterStep
      BY <1>3, <3>1 DEF WriterStep, LockForWrite, RefuseWrite, PrepareInPlace,
         PrepareRotating, AppendToWal, RefuseSequence, SyncWal, ApplyWrite
    <3>2. CASE WorkerStep
      BY <1>3, <3>2 DEF WorkerStep, PopTask, BuildSstable, CommitManifest,
         PublishManifest, ClearSlot, ReclaimWal, SkipCompaction, PlanCompaction,
         MergeSstables, ExitWorker
    <3>3. \A r \in Readers : ~ReaderStep(r)
      BY <1>3, ReaderFrame
    <3>4. CASE LifecycleStep
      BY <1>1, <1>3, <3>4 DEF LifecycleStep, BeginShutdown, FinalFlush,
         JoinWorker, Open
    <3>5. ~UNCHANGED vars
      BY <1>3 DEF vars
    <3> QED
      BY <3>1, <3>2, <3>3, <3>4, <3>5 DEF Next
  <2>2. /\ worker.pc \in {"build", "commit", "publish", "reclaim", "merge"}
        /\ worker' = ExitedWorker
        /\ UNCHANGED <<engine, immutable, manifest, manifestDisk, sstables>>
    BY <2>1 DEF FailWorker
  <2>3. FileIsCurrent
    BY <1>3, <2>2, NoErrorNoDoubt DEF SlotInv, RotateInv, IdleWorker
  <2> QED
    BY <2>2, <2>3 DEF FileIsCurrent, Live, ExitedWorker
<1> QED
  BY <1>2, <1>3

\* The MANIFEST file is never further from the view of a running process than
\* one flush of the slot or one compaction (flushMemtable(), maybeCompact()).
THEOREM FileStaysCurrent == Spec => [](engine # "down" => FileIsCurrent)
<1>1. Init => DoubtInv
  BY DEF Init, DoubtInv
<1>2. TypeInv /\ SlotInv /\ GenInv /\ DoubtInv => (engine # "down" => FileIsCurrent)
  BY NoErrorNoDoubt DEF DoubtInv
<1> QED
  BY <1>1, <1>2, DoubtSteps, TypeInvIsInvariant, SlotInvIsInvariant,
     GenInvIsInvariant, PTL DEF Spec
-----------------------------------------------------------------------------
(* Sequence numbers *)

\* Recovery from this MANIFEST starts above this number.
IsPassed(n, m) ==
    n <= m.checkpoint \/ \E w \in Acknowledged : n <= w.sequence

\* Recovery starts above the number of every record in every file, also in the
\* files of flushes and compactions that no MANIFEST names.
AllPassed(m) ==
    \A p \in DOMAIN sstables : \A r \in sstables[p] : IsPassed(r.sequence, m)

NumbersInv ==
    /\ AllPassed(manifestDisk)
    /\ engine # "down" => AllPassed(manifest)

LEMMA NumbersTyped ==
    ASSUME TypeInv
    PROVE  /\ \A p \in DOMAIN sstables : \A r \in sstables[p] : r.sequence \in Nat
           /\ \A w \in WalRecords : w.sequence \in Nat
           /\ \A w \in Acknowledged : w.sequence \in Nat
           /\ \A m \in {manifest, manifestDisk} \cup manifestPossible :
                 m.checkpoint \in Int
<1>1. \A p \in DOMAIN sstables : sstables[p] \subseteq Logged
  BY DEF TypeInv, StoreTypes, IsStore, IsMemtable
<1>2. WalRecords \subseteq Logged
  BY LogTyped
<1> QED
  BY <1>1, <1>2, SequenceAssumption
  DEF TypeInv, ManifestTypes, IsManifest, Value, Absent, Logged, Acknowledged

\* The log keeps what it had, or loses what the checkpoint covers.
LEMMA PassedStays ==
    ASSUME TypeInv, UNCHANGED sstables, NEW m, AllPassed(m),
           NEW n, m.checkpoint \in Int, n.checkpoint \in Int,
           m.checkpoint <= n.checkpoint,
           \A w \in Acknowledged : w \in Acknowledged' \/ w.sequence <= n.checkpoint
    PROVE  \A p \in DOMAIN sstables' : \A r \in sstables'[p] :
               \/ r.sequence <= n.checkpoint
               \/ \E w \in Acknowledged' : r.sequence <= w.sequence
<1> SUFFICES ASSUME NEW p \in DOMAIN sstables, NEW r \in sstables[p],
                    ~(r.sequence <= n.checkpoint)
             PROVE  \E w \in Acknowledged' : r.sequence <= w.sequence
  OBVIOUS
<1>1. r.sequence \in Nat /\ \A w \in Acknowledged : w.sequence \in Nat
  BY NumbersTyped
<1>2. ~(r.sequence <= m.checkpoint)
  BY <1>1
<1>3. PICK w \in Acknowledged : r.sequence <= w.sequence
  BY <1>2 DEF AllPassed, IsPassed
<1>4. w \in Acknowledged'
  BY <1>1, <1>3
<1> QED
  BY <1>3, <1>4

LEMMA NumbersStay ==
    ASSUME TypeInv, TypeInv', NumbersInv, UNCHANGED sstables,
           engine' # "down" => engine # "down" \/ manifest' = manifestDisk,
           UNCHANGED manifestDisk,
           engine # "down" => UNCHANGED manifest,
           \A w \in Acknowledged :
              \/ w \in Acknowledged'
              \/ w.sequence <= manifestDisk.checkpoint /\ w.sequence <= manifest.checkpoint
    PROVE  NumbersInv'
<1>1. /\ manifestDisk.checkpoint \in Int /\ manifest.checkpoint \in Int
      /\ manifest'.checkpoint \in Int
  BY SequenceAssumption DEF TypeInv, ManifestTypes, IsManifest, Value, Absent
<1>2. AllPassed(manifestDisk)'
  <2>1. \A p \in DOMAIN sstables' : \A r \in sstables'[p] :
            \/ r.sequence <= manifestDisk.checkpoint
            \/ \E w \in Acknowledged' : r.sequence <= w.sequence
    BY <1>1, PassedStays DEF NumbersInv
  <2> QED
    BY <2>1 DEF AllPassed, IsPassed
<1>3. ASSUME engine' # "down" PROVE AllPassed(manifest)'
  <2>1. CASE manifest' = manifestDisk
    BY <1>2, <2>1 DEF AllPassed, IsPassed
  <2>2. CASE engine # "down"
    <3>1. manifest' = manifest /\ AllPassed(manifest)
      BY <2>2 DEF NumbersInv
    <3>2. \A p \in DOMAIN sstables' : \A r \in sstables'[p] :
              \/ r.sequence <= manifest.checkpoint
              \/ \E w \in Acknowledged' : r.sequence <= w.sequence
      BY <1>1, <3>1, PassedStays
    <3> QED
      BY <3>1, <3>2 DEF AllPassed, IsPassed
  <2> QED
    BY <1>3, <2>1, <2>2
<1> QED
  BY <1>2, <1>3 DEF NumbersInv

\* A new file holds records that the log still has, or that were in files.
LEMMA NumbersOfNewFile ==
    ASSUME TypeInv, SlotInv, NumbersInv, UNCHANGED <<engine, manifest, manifestDisk>>,
           UNCHANGED Acknowledged, engine # "down", NEW level \in Levels,
           NEW T, \A r \in T : IsPassed(r.sequence, manifest)
                               /\ IsPassed(r.sequence, manifestDisk),
           sstables' = WithSstable(AllocatedPath(level), T)
    PROVE  NumbersInv'
<1>1. \A p \in DOMAIN sstables' : \A r \in sstables'[p] :
          r \in T \/ (p \in DOMAIN sstables /\ r \in sstables[p])
  <2>1. DOMAIN sstables' = DOMAIN sstables \cup {AllocatedPath(level)}
    BY DEF WithSstable
  <2>2. \A p \in DOMAIN sstables' :
            sstables'[p] = IF p = AllocatedPath(level) THEN T ELSE sstables[p]
    BY DEF WithSstable
  <2> QED
    BY <2>1, <2>2
<1>2. \A p \in DOMAIN sstables' : \A r \in sstables'[p] :
          IsPassed(r.sequence, manifest) /\ IsPassed(r.sequence, manifestDisk)
  BY <1>1 DEF NumbersInv, AllPassed
<1> QED
  BY <1>2 DEF NumbersInv, AllPassed, IsPassed

LEMMA NumbersSteps ==
    ASSUME OneKindOfStop, TypeInv, TypeInv', SlotInv, LogInv, GenInv, CoverInv,
           StopInv, NumbersInv, [Next]_vars
    PROVE  NumbersInv'
<1> USE DEF memory, disk, manifests, readVars
<1>1. ASSUME worker.pc \notin {"idle", "publish", "exited"}
      PROVE  manifestDisk = manifest /\ engine # "down"
  BY <1>1 DEF GenInv, ViewInv, SlotInv, RotateInv, IdleWorker
<1>2. ASSUME NEW kind \in CrashKinds, Crash(kind) PROVE NumbersInv'
  <2>1. /\ engine # "down" /\ engine' = "down" /\ sstables' = sstables
        /\ manifestDisk' = manifestDisk \/ manifestDisk' = manifest
    BY <1>2, CrashAssumption DEF Crash, StopInv, PossInv
  <2>2. Acknowledged \subseteq Acknowledged'
    BY <1>2, StopKeepsAcknowledged DEF Acknowledged
  <2>3. AllPassed(manifestDisk) /\ AllPassed(manifest)
    BY <2>1 DEF NumbersInv
  <2>4. AllPassed(manifestDisk)'
    BY <2>1, <2>2, <2>3 DEF AllPassed, IsPassed
  <2> QED
    BY <2>1, <2>4 DEF NumbersInv
<1>3. CASE ReclaimWal
  <2>1. /\ worker.pc = "reclaim"
        /\ UNCHANGED <<engine, manifest, manifestDisk, sstables>>
    BY <1>3 DEF ReclaimWal
  <2>2. /\ manifest.checkpoint = HighestSequence(worker.task)
        /\ manifestDisk = manifest
    BY <2>1, ReclaimIsCovered
  <2>3. WalRecords' = After(manifest.checkpoint, WalRecords) /\ InFlight' = {}
    BY <1>3, <2>2, LogOfReclaim
  <2>4. \A w \in Acknowledged : w \in WalRecords /\ w.sequence \in Nat
    BY NumbersTyped DEF Acknowledged
  <2>5. manifest.checkpoint \in Int
    BY NumbersTyped
  <2>6. \A w \in Acknowledged : w \in Acknowledged' \/ w.sequence <= manifest.checkpoint
    BY <2>3, <2>4, <2>5 DEF Acknowledged, After
  <2> QED
    BY <2>1, <2>2, <2>6, NumbersStay
<1>4. CASE BuildSstable
  <2>1. /\ worker.pc = "build" /\ sstables' = WithSstable(AllocatedPath(0), worker.task)
        /\ UNCHANGED <<engine, manifest, manifestDisk, wal, writer>>
    BY <1>4 DEF BuildSstable, DirectorySynced
  <2>2. Acknowledged' = Acknowledged
    BY <2>1, SameLog
  <2>3. manifestDisk = manifest /\ engine # "down"
    BY <1>1, <2>1
  <2>4. worker.task = immutable
    BY <2>1 DEF SlotInv, TaskInv
  <2>5. ASSUME NEW r \in immutable PROVE IsPassed(r.sequence, manifest)
    <3>1. r.sequence < Bound /\ r.sequence \in Nat
      BY <2>3, SequenceAssumption
      DEF LogInv, MemoryBelow, TypeInv, MemoryTypes, IsMemtable, Logged
    <3>2. r \notin InFlight
      BY <3>1, InFlightIsLast
    <3>3. r.sequence <= manifest.checkpoint \/ r \in Acknowledged
      BY <3>2 DEF CoverInv, MemoryLogged, Acknowledged
    <3> QED
      BY <3>1, <3>3 DEF IsPassed
  <2>6. 0 \in Levels
    BY DEF Levels
  <2> QED
    BY <2>1, <2>2, <2>3, <2>4, <2>5, <2>6, NumbersOfNewFile
<1>5. CASE MergeSstables
  <2> DEFINE output == Merge(RecordsOf(worker.remove), CanDropTombstones)
  <2>1. /\ worker.pc = "merge"
        /\ sstables' = IF output = {} THEN sstables
                       ELSE WithSstable(AllocatedPath(OutputLevel), output)
        /\ UNCHANGED <<engine, manifest, wal, writer>>
        /\ DirectorySynced \/ UNCHANGED manifests
    BY <1>5, Zenon DEF MergeSstables
  <2>2. Acknowledged' = Acknowledged /\ manifestDisk' = manifestDisk
    BY <2>1, SameLog DEF DirectorySynced
  <2>3. manifestDisk = manifest /\ engine # "down"
    BY <1>1, <2>1
  <2>4. \A r \in output : \E p \in DOMAIN sstables : r \in sstables[p]
    BY DEF Merge, RecordsOf, TypeInv, WorkerTypes, IsNamed
  <2> HIDE DEF output
  <2>5. \A r \in output : IsPassed(r.sequence, manifest)
    BY <2>3, <2>4 DEF NumbersInv, AllPassed
  <2>6. OutputLevel \in Levels
    BY DEF OutputLevel, Levels
  <2>7. CASE output = {}
    BY <2>1, <2>2, <2>3, <2>7, NumbersStay
  <2>8. CASE output # {}
    BY <2>1, <2>2, <2>3, <2>5, <2>6, <2>8, NumbersOfNewFile
  <2> QED
    BY <2>7, <2>8
<1>6. CASE CommitManifest
  <2>1. /\ worker.pc = "commit" /\ manifestDisk' = EditedManifest
        /\ UNCHANGED <<engine, manifest, sstables, wal, writer>>
    BY <1>6 DEF CommitManifest
  <2>2. Acknowledged' = Acknowledged
    BY <2>1, SameLog
  <2>3. manifest.checkpoint <= manifestDisk'.checkpoint
    BY <2>1, EditKeeps
  <2>4. AllPassed(manifest)
    BY <1>1, <2>1 DEF NumbersInv
  <2>5. manifest.checkpoint \in Int /\ manifestDisk'.checkpoint \in Int
    BY SequenceAssumption DEF TypeInv, ManifestTypes, IsManifest, Value, Absent
  <2>6. AllPassed(manifestDisk)'
    <3>1. \A p \in DOMAIN sstables' : \A r \in sstables'[p] :
              \/ r.sequence <= manifestDisk'.checkpoint
              \/ \E w \in Acknowledged' : r.sequence <= w.sequence
      <4> DEFINE n == manifestDisk'
      <4>1. n.checkpoint \in Int /\ manifest.checkpoint <= n.checkpoint
        BY <2>3, <2>5
      <4> HIDE DEF n
      <4>2. \A p \in DOMAIN sstables' : \A r \in sstables'[p] :
                \/ r.sequence <= n.checkpoint
                \/ \E w \in Acknowledged' : r.sequence <= w.sequence
        BY <2>1, <2>2, <2>4, <2>5, <4>1, PassedStays
      <4> QED
        BY <4>2 DEF n
    <3> QED
      BY <3>1 DEF AllPassed, IsPassed
  <2>7. AllPassed(manifest)'
    BY <2>1, <2>2, <2>4 DEF AllPassed, IsPassed
  <2> QED
    BY <2>6, <2>7 DEF NumbersInv
<1>7. CASE PublishManifest
  <2>1. /\ worker.pc = "publish" /\ manifest' = EditedManifest
        /\ UNCHANGED <<manifestDisk, sstables, wal, writer>>
    BY <1>7 DEF PublishManifest, DirectorySynced
  <2>2. Acknowledged' = Acknowledged
    BY <2>1, SameLog
  <2>3. manifest' = manifestDisk
    BY <2>1 DEF GenInv, ViewInv
  <2> QED
    BY <2>1, <2>2, <2>3 DEF NumbersInv, AllPassed, IsPassed
<1>8. CASE Open
  <2>1. /\ manifest' = manifestDisk /\ engine = "down"
        /\ UNCHANGED <<manifestDisk, sstables, wal, writer>>
    BY <1>8 DEF Open
  <2>2. Acknowledged' = Acknowledged
    BY <2>1, SameLog
  <2> QED
    BY <2>1, <2>2 DEF NumbersInv, AllPassed, IsPassed
<1>9. CASE /\ \A kind \in CrashKinds : ~Crash(kind)
           /\ ~ReclaimWal /\ ~BuildSstable /\ ~MergeSstables /\ ~CommitManifest
           /\ ~PublishManifest /\ ~Open
  <2>1. /\ UNCHANGED <<manifest, manifestDisk, sstables>>
        /\ engine' # "down" => engine # "down"
    <3>1. CASE WriterStep
      BY <3>1 DEF WriterStep, LockForWrite, RefuseWrite, PrepareInPlace,
         PrepareRotating, AppendToWal, RefuseSequence, SyncWal, ApplyWrite
    <3>2. CASE WorkerStep
      BY <1>9, <3>2 DEF WorkerStep, PopTask, ClearSlot, SkipCompaction,
         PlanCompaction, FailWorker, ExitWorker
    <3>3. CASE \E r \in Readers : ReaderStep(r)
      BY <3>3, ReaderFrame
    <3>4. CASE LifecycleStep
      BY <1>9, <3>4 DEF LifecycleStep, BeginShutdown, FinalFlush, JoinWorker
    <3>5. CASE UNCHANGED vars
      BY <3>5 DEF vars
    <3> QED
      BY <3>1, <3>2, <3>3, <3>4, <3>5 DEF Next
  <2>2. Acknowledged \subseteq Acknowledged'
    <3>1. CASE AppendToWal
      BY <3>1, LogOfAppend
    <3>2. CASE ApplyWrite
      BY <3>2 DEF ApplyWrite, Acknowledged, WalRecords, InFlight, IdleWriter
    <3>3. CASE ~AppendToWal /\ ~ApplyWrite
      BY <1>9, <3>3, LogSteps
    <3> QED
      BY <3>1, <3>2, <3>3
  <2> QED
    BY <2>1, <2>2, NumbersStay
<1> QED
  BY <1>2, <1>3, <1>4, <1>5, <1>6, <1>7, <1>8, <1>9

\* Recovery starts above every number that any file holds, whatever was lost.
THEOREM NumbersInvIsInvariant ==
    ASSUME OneKindOfStop
    PROVE  Spec => []NumbersInv
<1>1. Init => NumbersInv
  BY DEF Init, NumbersInv, AllPassed
<1>2. TypeInv /\ TypeInv' /\ SlotInv /\ LogInv /\ GenInv /\ CoverInv /\ StopInv
         /\ NumbersInv /\ [Next]_vars => NumbersInv'
  BY NumbersSteps
<1> QED
  BY <1>1, <1>2, TypeInvIsInvariant, SlotInvIsInvariant, LogInvIsInvariant,
     GenInvIsInvariant, CoverInvIsInvariant, StopInvIsInvariant, PTL DEF Spec

\* No process ever gives out a sequence number that a record of the log or of
\* any SSTable file has, be the file an orphan of a flush that was interrupted
\* (recover(), engine.cpp:792-813, and Wal::recover()).
THEOREM SequencesStayFresh ==
    ASSUME OneKindOfStop
    PROVE  Spec => []SequencesAreFresh
<1>1. TypeInv /\ SlotInv /\ LogInv /\ NumbersInv => SequencesAreFresh
  <2> SUFFICES ASSUME TypeInv, SlotInv, LogInv, NumbersInv, engine # "down",
                      NEW r \in Acknowledged
                                \cup RecordsOf({[path |-> p] : p \in DOMAIN sstables})
               PROVE  r.sequence < nextSequence
    BY DEF SequencesAreFresh, Acknowledged
  <2>1. \A w \in Acknowledged : w.sequence < nextSequence
    BY InFlightIsLast
  <2>2. CASE r \in Acknowledged
    BY <2>1, <2>2
  <2>3. CASE r \in RecordsOf({[path |-> p] : p \in DOMAIN sstables})
    <3>1. PICK p \in DOMAIN sstables : r \in sstables[p]
      BY <2>3 DEF RecordsOf
    <3>2. IsPassed(r.sequence, manifest) /\ r.sequence \in Nat
      BY <3>1, NumbersTyped DEF NumbersInv, AllPassed
    <3>3. manifest.checkpoint \in Int /\ manifest.checkpoint < Bound
      BY NumbersTyped DEF LogInv, MemoryBelow
    <3>4. Bound <= nextSequence /\ Bound \in Nat /\ nextSequence \in Nat
      BY BoundTyped, SequenceAssumption DEF Bound, LogInv, WriterLog, TypeInv, LogTypes
    <3>5. \A w \in Acknowledged : w.sequence \in Nat
      BY NumbersTyped
    <3> QED
      BY <2>1, <3>2, <3>3, <3>4, <3>5 DEF IsPassed
  <2> QED
    BY <2>2, <2>3
<1> QED
  BY <1>1, TypeInvIsInvariant, SlotInvIsInvariant, LogInvIsInvariant,
     NumbersInvIsInvariant, PTL
-----------------------------------------------------------------------------
(* What recovery rebuilds *)

\* What recovery makes of a MANIFEST and of the records that are left of a log.
Rebuilt(m, log) == RecordsIn(m.files, sstables) \cup After(m.checkpoint, log)

LEMMA RebuiltLayers ==
    ASSUME TypeInv, LogInv, GenInv,
           NEW m \in {manifest, manifestDisk} \cup manifestPossible,
           NEW log, log \subseteq WalRecords
    PROVE  /\ IsHistory(RecordsIn(m.files, sstables))
           /\ IsHistory(After(m.checkpoint, log))
           /\ IsAbove(After(m.checkpoint, log), RecordsIn(m.files, sstables))
           /\ IsHistory(Rebuilt(m, log))
           /\ m.checkpoint \in Int
           /\ \A r \in RecordsIn(m.files, sstables) : r.sequence \in Nat
                                                      /\ r.sequence <= m.checkpoint
           /\ \A r \in WalRecords : r.sequence \in Nat
<1>1. IsStore(sstables) /\ IsManifest(m, sstables) /\ IsConsistent(m, sstables)
  BY DEF TypeInv, StoreTypes, ManifestTypes, GenInv, FilesInv
<1> DEFINE F == RecordsIn(m.files, sstables)
           A == After(m.checkpoint, log)
<1>2. /\ IsHistory(F) /\ m.checkpoint \in Int
      /\ \A r \in F : r.sequence \in Nat /\ r.sequence <= m.checkpoint
  BY <1>1, FilesAreHistory
<1>3. A \subseteq WalRecords /\ \A r \in A : m.checkpoint < r.sequence
  BY DEF After
<1> HIDE DEF F, A
<1>4. WalRecords \subseteq Record /\ IsFiniteSet(WalRecords) /\ SeqUnique(WalRecords)
  BY LogTyped, LogIsSeqUnique, LoggedRecords
<1>5. IsHistory(A)
  BY <1>3, <1>4, HistorySubset DEF IsHistory
<1>6. \A r \in WalRecords : r.sequence \in Nat
  BY <1>4 DEF Record
<1>7. IsAbove(A, F)
  BY <1>2, <1>3, <1>6 DEF IsAbove
<1>8. IsHistory(A \cup F)
  BY <1>2, <1>5, <1>7, LayersAreHistory
<1>9. IsHistory(F \cup A)
  <2>1. F \cup A = A \cup F
    OBVIOUS
  <2> QED
    BY <1>8, <2>1
<1> QED
  BY <1>2, <1>5, <1>6, <1>7, <1>9 DEF F, A, Rebuilt

\* The readers' layers leave out of it only versions that are not the newest.
LEMMA RebuiltCovered ==
    ASSUME TypeInv, LogInv, GenInv,
           NEW m \in {manifest, manifestDisk} \cup manifestPossible,
           NEW log, log \subseteq WalRecords,
           NEW visible, visible \subseteq Rebuilt(m, log),
           RecordsIn(m.files, sstables) \subseteq visible,
           \A w \in After(m.checkpoint, log) :
              \E s \in visible : s.key = w.key /\ w.sequence <= s.sequence
    PROVE  SameValues(visible, Rebuilt(m, log))
<1>1. IsHistory(Rebuilt(m, log))
  BY RebuiltLayers
<1> SUFFICES ASSUME NEW k PROVE ValueIn(visible, k) = ValueIn(Rebuilt(m, log), k)
  BY DEF SameValues
<1>2. ASSUME NEW r \in Versions(Rebuilt(m, log), k)
      PROVE  \E s \in Versions(visible, k) : r.sequence <= s.sequence
  <2>1. r \in Rebuilt(m, log) /\ r.key = k /\ r.sequence \in Nat
    BY <1>1 DEF Versions, IsHistory, Record
  <2>2. CASE r \in RecordsIn(m.files, sstables)
    <3>1. r \in Versions(visible, k) /\ r.sequence <= r.sequence
      BY <2>1, <2>2 DEF Versions
    <3> QED
      BY <3>1
  <2>3. CASE r \in After(m.checkpoint, log)
    <3>1. PICK s \in visible : s.key = r.key /\ r.sequence <= s.sequence
      BY <2>3
    <3>2. s \in Versions(visible, k)
      BY <2>1, <3>1 DEF Versions
    <3> QED
      BY <3>1, <3>2
  <2> QED
    BY <2>1, <2>2, <2>3 DEF Rebuilt
<1> QED
  BY <1>1, <1>2, ValueOfCover

\* Where the records of the Memtables are found after a stop.
LEMMA MemoryRebuilt ==
    ASSUME TypeInv, SlotInv, LogInv, GenInv, CoverInv, engine # "down"
    PROVE  /\ active \subseteq After(manifest.checkpoint, Acknowledged)
           /\ worker.pc # "clear" =>
                 immutable \subseteq After(manifest.checkpoint, Acknowledged)
<1>1. \A s \in active \cup immutable : s.sequence < Bound /\ s.sequence \in Nat
  BY SequenceAssumption
  DEF LogInv, MemoryBelow, TypeInv, MemoryTypes, IsMemtable, Logged
<1>2. \A s \in active \cup immutable : s \notin InFlight
  BY <1>1, InFlightIsLast
<1>3. \A s \in active \cup immutable :
          s.sequence <= manifest.checkpoint \/ s \in Acknowledged
  BY <1>2 DEF CoverInv, MemoryLogged, Acknowledged
<1>4. manifest.checkpoint \in Int
  BY NumbersTyped
<1>5. ASSUME NEW s \in active \cup immutable, manifest.checkpoint < s.sequence
      PROVE  s \in After(manifest.checkpoint, Acknowledged)
  BY <1>1, <1>3, <1>4, <1>5 DEF After
<1> QED
  BY <1>5 DEF GenInv, MemoryInv

\* From the MANIFEST the process believes in.
LEMMA RebuiltFromView ==
    ASSUME TypeInv, SlotInv, LogInv, GenInv, CoverInv, engine # "down"
    PROVE  SameValues(VisibleRecords, Rebuilt(manifest, Acknowledged))
<1>1. /\ VisibleRecords = (active \cup immutable) \cup Live
      /\ worker.pc = "clear" => immutable \subseteq Live
  BY VisibleLayers
<1>2. VisibleRecords \subseteq Rebuilt(manifest, Acknowledged)
  BY <1>1, MemoryRebuilt DEF Rebuilt, Live
<1>3. ASSUME NEW w \in After(manifest.checkpoint, Acknowledged)
      PROVE  \E s \in VisibleRecords : s.key = w.key /\ w.sequence <= s.sequence
  <2>1. /\ w \in Acknowledged /\ manifest.checkpoint < w.sequence
        /\ w.sequence \in Nat /\ manifest.checkpoint \in Int
    BY NumbersTyped DEF After
  <2>2. PICK s \in active \cup immutable : s.key = w.key /\ w.sequence <= s.sequence
    BY <2>1 DEF CoverInv, LogCovered
  <2> QED
    BY <1>1, <2>2
<1>4. Acknowledged \subseteq WalRecords
  BY DEF Acknowledged
<1> DEFINE m == manifest
<1>5. /\ m \in {manifest, manifestDisk} \cup manifestPossible
      /\ VisibleRecords \subseteq Rebuilt(m, Acknowledged)
      /\ RecordsIn(m.files, sstables) \subseteq VisibleRecords
      /\ \A w \in After(m.checkpoint, Acknowledged) :
            \E s \in VisibleRecords : s.key = w.key /\ w.sequence <= s.sequence
  BY <1>1, <1>2, <1>3 DEF Live
<1> HIDE DEF m
<1>6. SameValues(VisibleRecords, Rebuilt(m, Acknowledged))
  BY <1>4, <1>5, RebuiltCovered
<1> QED
  BY <1>6 DEF m

\* From the MANIFEST file, which may be ahead of it.
LEMMA RebuiltFromFile ==
    ASSUME TypeInv, SlotInv, LogInv, GenInv, CoverInv, FileIsCurrent, engine # "down"
    PROVE  SameValues(VisibleRecords, Rebuilt(manifestDisk, Acknowledged))
<1> DEFINE m == manifestDisk
           R == RecordsIn(m.files, sstables)
           A == After(m.checkpoint, Acknowledged)
<1>1. Acknowledged \subseteq WalRecords
  BY DEF Acknowledged
<1>2. /\ VisibleRecords = (active \cup immutable) \cup Live
      /\ IsAbove(active, immutable \cup Live)
      /\ \A r \in active \cup immutable : r.sequence \in Nat
  BY VisibleLayers
<1>3. CASE m = manifest
  BY <1>3, RebuiltFromView
<1>4. CASE /\ immutable # {} /\ worker.pc # "clear"
           /\ m.checkpoint = HighestSequence(immutable)
           /\ R = Live \cup immutable
  <2>1. /\ m.checkpoint \in Nat
        /\ \E r \in immutable : r.sequence = m.checkpoint
    BY <1>4, HighestOf, SequenceAssumption DEF TypeInv, MemoryTypes, IsMemtable
  <2>2. manifest.checkpoint < m.checkpoint
    BY <1>4, <2>1 DEF GenInv, MemoryInv
  <2>3. active \subseteq A
    <3>1. \A s \in active : m.checkpoint < s.sequence
      BY <1>2, <2>1 DEF IsAbove
    <3>2. active \subseteq Acknowledged
      BY MemoryRebuilt DEF After
    <3> QED
      BY <3>1, <3>2 DEF After
  <2>4. /\ VisibleRecords \subseteq Rebuilt(m, Acknowledged)
        /\ R \subseteq VisibleRecords
    BY <1>2, <1>4, <2>3 DEF Rebuilt
  <2>5. ASSUME NEW w \in A
        PROVE  \E s \in VisibleRecords : s.key = w.key /\ w.sequence <= s.sequence
    <3>1. /\ w \in Acknowledged /\ m.checkpoint < w.sequence
          /\ w.sequence \in Nat /\ manifest.checkpoint \in Int
      BY NumbersTyped DEF After
    <3>2. ~(w.sequence <= manifest.checkpoint)
      BY <2>1, <2>2, <3>1
    <3>3. PICK s \in active \cup immutable : s.key = w.key /\ w.sequence <= s.sequence
      BY <3>1, <3>2 DEF CoverInv, LogCovered
    <3> QED
      BY <1>2, <3>3
  <2>6. m \in {manifest, manifestDisk} \cup manifestPossible
    OBVIOUS
  <2> HIDE DEF m
  <2>7. /\ RecordsIn(m.files, sstables) \subseteq VisibleRecords
        /\ \A w \in After(m.checkpoint, Acknowledged) :
              \E s \in VisibleRecords : s.key = w.key /\ w.sequence <= s.sequence
    BY <2>4, <2>5
  <2>8. SameValues(VisibleRecords, Rebuilt(m, Acknowledged))
    BY <1>1, <2>4, <2>6, <2>7, RebuiltCovered
  <2> QED
    BY <2>8 DEF m
<1>5. CASE m.checkpoint = manifest.checkpoint /\ SameValues(R, Live)
  <2>1. /\ IsHistory(R) /\ IsHistory(A) /\ IsAbove(A, R)
    BY <1>1, RebuiltLayers
  <2> DEFINE v == manifest
  <2>2. v \in {manifest, manifestDisk} \cup manifestPossible
    OBVIOUS
  <2> HIDE DEF v
  <2>3. /\ IsHistory(RecordsIn(v.files, sstables))
        /\ IsAbove(After(v.checkpoint, Acknowledged), RecordsIn(v.files, sstables))
    BY <1>1, <2>2, RebuiltLayers
  <2>4. IsHistory(Live) /\ IsAbove(A, Live)
    BY <1>5, <2>3 DEF v, Live
  <2>5. Rebuilt(m, Acknowledged) = A \cup R
    BY DEF Rebuilt
  <2>6. Rebuilt(manifest, Acknowledged) = A \cup Live
    BY <1>5 DEF Rebuilt, Live
  <2> HIDE DEF A, R, m
  <2>7. SameValues(A \cup R, A \cup Live)
    BY <1>5, <2>1, <2>4, LayerReplaced
  <2>8. SameValues(VisibleRecords, Rebuilt(manifest, Acknowledged))
    BY RebuiltFromView
  <2>9. SameValues(VisibleRecords, Rebuilt(m, Acknowledged))
    BY <2>5, <2>6, <2>7, <2>8 DEF SameValues
  <2> QED
    BY <2>9 DEF m
<1> QED
  BY <1>3, <1>4, <1>5 DEF FileIsCurrent

\* At any moment a stop of any permitted kind leaves files from which recovery
\* rebuilds, for every key, the value that readers see (recover(),
\* engine.cpp:743-813).
THEOREM RecoveryYieldsWhatWasVisible ==
    ASSUME OneKindOfStop
    PROVE  Spec => []DurableBeforeVisible
<1>1. /\ TypeInv /\ SlotInv /\ LogInv /\ GenInv /\ CoverInv /\ StopInv
      /\ (engine # "down" => FileIsCurrent)
      => DurableBeforeVisible
  <2> SUFFICES ASSUME TypeInv, SlotInv, LogInv, GenInv, CoverInv, StopInv,
                      engine # "down", FileIsCurrent,
                      NEW k \in Keys, NEW m \in SurvivingManifests
               PROVE  ValueIn(VisibleRecords, k)
                         = ValueIn(RecoveredRecords(m) \ InFlight, k)
    BY DEF DurableBeforeVisible
  <2>1. m = manifestDisk \/ m = manifest
    BY DEF SurvivingManifests, StopInv, PossInv
  <2>2. m \in {manifest, manifestDisk} \cup manifestPossible
    BY <2>1
  <2>3. SameValues(VisibleRecords, Rebuilt(m, Acknowledged))
    BY <2>1, RebuiltFromView, RebuiltFromFile
  <2>4. RecoveredRecords(m) \ InFlight = Rebuilt(m, Acknowledged)
    <3>1. \A r \in RecordsIn(m.files, sstables) : r \notin InFlight
      <4>1. Acknowledged \subseteq WalRecords
        BY DEF Acknowledged
      <4>2. /\ m.checkpoint \in Int
            /\ \A r \in RecordsIn(m.files, sstables) : r.sequence \in Nat
                                                       /\ r.sequence <= m.checkpoint
        BY <2>2, <4>1, RebuiltLayers
      <4>3. m.checkpoint < Bound /\ Bound \in Nat
        BY <2>1, BoundTyped DEF LogInv, MemoryBelow
      <4>4. \A s \in InFlight : s.sequence = Bound
        BY InFlightIsLast
      <4> QED
        BY <4>2, <4>3, <4>4
    <3>2. After(m.checkpoint, SurvivingWal) \ InFlight
             = After(m.checkpoint, Acknowledged)
      BY SurvivingLog DEF After
    <3>3. RecoveredRecords(m)
             = RecordsIn(m.files, sstables) \cup After(m.checkpoint, SurvivingWal)
      BY DEF RecoveredRecords, RecordsOf, RecordsIn
    <3> QED
      BY <3>1, <3>2, <3>3 DEF Rebuilt
  <2> QED
    BY <2>3, <2>4 DEF SameValues
<1> QED
  BY <1>1, TypeInvIsInvariant, SlotInvIsInvariant, LogInvIsInvariant,
     GenInvIsInvariant, CoverInvIsInvariant, StopInvIsInvariant, FileStaysCurrent, PTL
-----------------------------------------------------------------------------
(* Every step is one of the abstract store *)

Pending == {[key |-> r.key, value |-> ValueOf({r})] : r \in InFlight}

StoredValues == [k \in Keys |-> StoredValue(k)]

ReadStatuses == [r \in Readers |-> ReadStatus(r)]

\* While the process is down only recovery can happen.
LEMMA DownIsStill ==
    ASSUME SlotInv, ReadInv, engine = "down", [Next]_vars, ~Open
    PROVE  UNCHANGED vars
<1>1. /\ writer.pc = "idle" /\ worker.pc = "idle" /\ flushQueue = <<>>
  BY DEF SlotInv, RotateInv, IdleWriter, IdleWorker
<1>2. ~WriterStep
  BY <1>1 DEF WriterStep, LockForWrite, RefuseWrite, PrepareInPlace,
     PrepareRotating, AppendToWal, RefuseSequence, SyncWal, ApplyWrite
<1>3. ~WorkerStep
  BY <1>1 DEF WorkerStep, PopTask, BuildSstable, CommitManifest, PublishManifest,
     ClearSlot, ReclaimWal, SkipCompaction, PlanCompaction, MergeSstables,
     FailWorker, ExitWorker
<1>4. ASSUME NEW r \in Readers PROVE ~ReaderStep(r)
  <2>1. reader[r].pc = "idle"
    BY DEF ReadInv, ReaderInv
  <2> QED
    BY <2>1 DEF ReaderStep, CallGet, ReadMemory, ReadManifest, ReadFiles
<1>5. ~LifecycleStep
  BY DEF LifecycleStep, BeginShutdown, FinalFlush, JoinWorker, Crash
<1> QED
  BY <1>2, <1>3, <1>4, <1>5 DEF Next

LEMMA StoreStutters ==
    ASSUME \A k \in Keys : StoredValue(k)' = StoredValue(k),
           UNCHANGED <<InFlight, reader, candidates>>
    PROVE  UNCHANGED Store!vars
<1>1. StoredValues' = StoredValues
  BY DEF StoredValues
<1>2. Pending' = Pending
  BY DEF Pending
<1>3. ReadStatuses' = ReadStatuses
  BY DEF ReadStatuses, ReadStatus, InProgress
<1> QED
  BY <1>1, <1>2, <1>3 DEF Store!vars, StoredValues, Pending, ReadStatuses

\* A log record without a caller's answer becomes the pending write.
LEMMA AppendBegins ==
    ASSUME TypeInv, TypeInv', SlotInv, LogInv, AppendToWal
    PROVE  Store!Next
<1> USE DEF memory, disk, manifests, readVars
<1>1. /\ writer.pc = "append"
      /\ UNCHANGED <<engine, active, immutable, manifest, sstables, reader, candidates>>
  BY DEF AppendToWal
<1>2. engine # "down"
  BY <1>1 DEF SlotInv, RotateInv, IdleWriter
<1>3. /\ InFlight = {} /\ InFlight' = {WrittenRecord'}
      /\ WrittenRecord'.key = writer.key
  BY LogOfAppend
<1>4. writer.key \in Keys
  BY <1>1 DEF TypeInv, WriterTypes
<1>5. WrittenRecord' \in Logged
  <2>1. WalRecords' = WalRecords \cup {WrittenRecord'}
    BY LogOfAppend
  <2>2. WalRecords' \subseteq Logged
    <3>1. \A i \in DOMAIN wal' : wal'[i] \in Logged
      BY ElementOfSeq, LenProperties DEF TypeInv, LogTypes
    <3> QED
      BY <3>1 DEF WalRecords
  <2> QED
    BY <2>1, <2>2
<1> DEFINE w == WrittenRecord'
           v == ValueOf({w})
<1>6. v \in 0 .. MaxSequence - 1 \cup {Absent}
  <2> HIDE DEF w
  <2>1. v = IF w.operation = "DELETE" THEN Absent ELSE w.sequence
    BY SingleValue, LoggedRecords, <1>5 DEF w
  <2> QED
    BY <1>5, <2>1 DEF Logged, w
<1>7. Pending = {} /\ Pending' = {[key |-> writer.key, value |-> v]}
  BY <1>3 DEF Pending
<1>8. PICK k \in Keys, x \in 0 .. MaxSequence - 1 \cup {Absent} :
             k = writer.key /\ x = v
  BY <1>4, <1>6
<1>9. StoredValues' = StoredValues
  BY <1>1, <1>2 DEF StoredValues, StoredValue, VisibleRecords, RecordsOf
<1>10. ReadStatuses' = ReadStatuses
  BY <1>1 DEF ReadStatuses, ReadStatus, InProgress
<1> HIDE DEF v, w
<1>11. Store!Begin(k, x)
  BY <1>7, <1>8, <1>9, <1>10 DEF Store!Begin, StoredValues, Pending, ReadStatuses
<1> QED
  BY <1>11 DEF Store!Next

\* Its entry in the Memtable makes it visible.
LEMMA ApplyCommits ==
    ASSUME TypeInv, SlotInv, LogInv, GenInv, ApplyWrite
    PROVE  Store!Next
<1> USE DEF memory, disk, manifests, readVars
<1> DEFINE w == WrittenRecord
           v == ValueOf({w})
           p == [key |-> writer.key, value |-> v]
<1>1. /\ writer.pc = "apply" /\ writer' = IdleWriter
      /\ UNCHANGED <<engine, reader>>
      /\ candidates' = [r \in Readers |->
                          IF InProgress(r) /\ reader[r].key = writer.key
                              THEN candidates[r] \cup {v}
                              ELSE candidates[r]]
  BY DEF ApplyWrite
<1>2. engine # "down" /\ writer.key \in Keys
  BY <1>1 DEF SlotInv, RotateInv, IdleWriter, TypeInv, WriterTypes
<1>3. /\ w.key = writer.key
      /\ ValueIn(VisibleRecords', writer.key) = v
      /\ \A k : k # writer.key =>
            ValueIn(VisibleRecords', k) = ValueIn(VisibleRecords, k)
  BY VisibleApply
<1>4. InFlight = {w} /\ InFlight' = {}
  BY <1>1 DEF InFlight, IdleWriter
<1>5. Pending = {p} /\ Pending' = {}
  BY <1>3, <1>4 DEF Pending
<1> HIDE DEF w, v
<1>6. StoredValues' = [StoredValues EXCEPT ![p.key] = p.value]
  <2>1. \A k \in Keys : /\ StoredValue(k) = ValueIn(VisibleRecords, k)
                        /\ StoredValue(k)' = ValueIn(VisibleRecords', k)
    BY <1>1, <1>2 DEF StoredValue
  <2> QED
    BY <1>2, <1>3, <2>1 DEF StoredValues
<1>7. ReadStatuses' = [r \in Readers |->
          IF ReadStatuses[r].status = "running" /\ ReadStatuses[r].key = p.key
              THEN [ReadStatuses[r] EXCEPT !.candidates = @ \cup {p.value}]
              ELSE ReadStatuses[r]]
  <2> SUFFICES ASSUME NEW r \in Readers
               PROVE  ReadStatus(r)' =
                         IF ReadStatus(r).status = "running" /\ ReadStatus(r).key = p.key
                             THEN [ReadStatus(r) EXCEPT !.candidates = @ \cup {p.value}]
                             ELSE ReadStatus(r)
    BY DEF ReadStatuses
  <2>1. CASE InProgress(r) /\ reader[r].key = writer.key
    BY <1>1, <2>1 DEF ReadStatus, InProgress
  <2>2. CASE ~(InProgress(r) /\ reader[r].key = writer.key)
    BY <1>1, <2>2 DEF ReadStatus, InProgress
  <2> QED
    BY <2>1, <2>2
<1> HIDE DEF p
<1>8. Store!Commit
  BY <1>5, <1>6, <1>7
  DEF Store!Commit, Store!Stored, StoredValues, Pending, ReadStatuses
<1> QED
  BY <1>8 DEF Store!Next

\* The steps of a get(): only the call and the return show.
LEMMA ReaderIsStoreStep ==
    ASSUME TypeInv, TypeInv', ReadInv, ReadInv', NEW r \in Readers, ReaderStep(r)
    PROVE  Store!Next \/ UNCHANGED Store!vars
<1>1. UNCHANGED <<engine, active, immutable, manifest, sstables, writer>>
  BY ReaderFrame DEF memory, disk
<1>2. /\ reader \in [Readers -> [pc : {"idle", "memory", "manifest", "files",
                                       "returned"},
                                 key : Keys \cup {Absent}, live : SUBSET Metadata,
                                 result : Value]]
      /\ reader' \in [Readers -> [pc : {"idle", "memory", "manifest", "files",
                                        "returned"},
                                  key : Keys \cup {Absent}, live : SUBSET Metadata,
                                  result : Value]]
      /\ candidates \in [Readers -> SUBSET Value]
  BY DEF TypeInv, ReaderTypes
<1>3. /\ UNCHANGED <<manifestDisk, wal>>
  BY ReaderFrame DEF disk, manifests
<1>4. StoredValues' = StoredValues /\ Pending' = Pending
  BY <1>1, <1>3 DEF StoredValues, StoredValue, VisibleRecords, RecordsOf, WalRecords,
     Pending, InFlight, WrittenRecord
<1>5. ASSUME NEW q \in Readers, q # r PROVE ReadStatus(q)' = ReadStatus(q)
  <2>1. reader'[q] = reader[q] /\ candidates'[q] = candidates[q]
    BY <1>2, <1>5 DEF ReaderStep, CallGet, ReadMemory, ReadManifest, ReadFiles
  <2> QED
    BY <2>1 DEF ReadStatus, InProgress
<1>6. ASSUME NEW k \in Keys, CallGet(r, k) PROVE Store!Invoke(r, k)
  <2>1. /\ engine # "down" /\ ~InProgress(r)
        /\ reader'[r] = [pc |-> "memory", key |-> k, live |-> {}, result |-> Absent]
        /\ candidates'[r] = {ValueIn(VisibleRecords, k)}
    BY <1>2, <1>6 DEF CallGet
  <2>2. StoredValues[k] = ValueIn(VisibleRecords, k)
    BY <2>1 DEF StoredValues, StoredValue
  <2>3. ReadStatus(r)' = [status |-> "running", key |-> k,
                          candidates |-> {StoredValues[k]}]
    BY <2>1, <2>2 DEF ReadStatus, InProgress
  <2>4. ReadStatuses[r].status # "running"
    BY <2>1 DEF ReadStatuses, ReadStatus
  <2>5. ReadStatuses' = [ReadStatuses EXCEPT ![r] =
                            [status |-> "running", key |-> k,
                             candidates |-> {StoredValues[k]}]]
    BY <1>5, <2>3 DEF ReadStatuses
  <2> QED
    BY <1>4, <2>4, <2>5 DEF Store!Invoke, StoredValues, Pending, ReadStatuses
<1>7. ASSUME InProgress(r), reader'[r].pc = "returned",
             reader'[r].key = reader[r].key, candidates' = candidates
      PROVE  Store!Next
  <2> DEFINE v == reader'[r].result
  <2>1. v \in candidates[r] /\ v \in Value
    BY <1>2, <1>7 DEF ReadInv, ReaderInv
  <2>2. PICK x \in 0 .. MaxSequence - 1 \cup {Absent} : x = v
    BY <2>1 DEF Value
  <2>3. ReadStatus(r) = [status |-> "running", key |-> reader[r].key,
                         candidates |-> candidates[r]]
    BY <1>7 DEF ReadStatus, InProgress
  <2>4. ReadStatus(r)' = [status |-> "returned", key |-> reader[r].key,
                          candidates |-> {x}]
    BY <1>7, <2>2 DEF ReadStatus, InProgress
  <2>5. /\ ReadStatuses[r].status = "running"
        /\ x \in ReadStatuses[r].candidates
    BY <2>1, <2>2, <2>3 DEF ReadStatuses
  <2>6. ReadStatuses' = [ReadStatuses EXCEPT ![r].status = "returned",
                                             ![r].candidates = {x}]
    <3> DEFINE called == [status |-> "running", key |-> reader[r].key,
                          candidates |-> candidates[r]]
               half == [status |-> "returned", key |-> reader[r].key,
                        candidates |-> candidates[r]]
               done == [status |-> "returned", key |-> reader[r].key,
                        candidates |-> {x}]
    <3>1. /\ [called EXCEPT !.status = "returned"] = half
          /\ [half EXCEPT !.candidates = {x}] = done
      OBVIOUS
    <3>2. ReadStatuses[r] = called
      BY <2>3 DEF ReadStatuses
    <3> HIDE DEF called, half, done
    <3>3. [ReadStatuses EXCEPT ![r].status = "returned"]
             = [q \in Readers |-> IF q = r THEN half ELSE ReadStatus(q)]
      BY <3>1, <3>2 DEF ReadStatuses
    <3>4. [[q \in Readers |-> IF q = r THEN half ELSE ReadStatus(q)]
              EXCEPT ![r].candidates = {x}]
             = [q \in Readers |-> IF q = r THEN done ELSE ReadStatus(q)]
      BY <3>1
    <3>5. ReadStatuses' = [q \in Readers |-> IF q = r THEN done ELSE ReadStatus(q)]
      BY <1>5, <2>4 DEF ReadStatuses, done
    <3> QED
      BY <3>3, <3>4, <3>5
  <2>7. Store!Return(r, x)
    BY <1>4, <2>5, <2>6 DEF Store!Return, StoredValues, Pending, ReadStatuses
  <2> QED
    BY <2>7 DEF Store!Next
<1>8. ASSUME InProgress(r), InProgress(r)', reader'[r].key = reader[r].key,
             candidates' = candidates
      PROVE  UNCHANGED Store!vars
  <2>1. ReadStatus(r)' = ReadStatus(r)
    BY <1>8 DEF ReadStatus, InProgress
  <2>2. ReadStatuses' = ReadStatuses
    BY <1>5, <2>1 DEF ReadStatuses
  <2> QED
    BY <1>4, <2>2 DEF Store!vars, StoredValues, Pending, ReadStatuses
<1>9. CASE ReadMemory(r)
  <2> DEFINE k == reader[r].key
             table == IF Versions(active, k) # {} THEN active ELSE immutable
             on == [reader[r] EXCEPT !.pc = "manifest"]
             back == [reader[r] EXCEPT !.pc = "returned", !.result = ValueIn(table, k)]
             next == IF Versions(table, k) = {} THEN on ELSE back
  <2>1. /\ reader[r].pc = "memory"
        /\ reader' = [reader EXCEPT ![r] = next]
        /\ candidates' = candidates
    BY <1>9 DEF ReadMemory
  <2>2. \E a, b, c, d : reader[r] = [pc |-> a, key |-> b, live |-> c, result |-> d]
    BY <1>2
  <2> HIDE DEF table
  <2>3. on.pc = "manifest" /\ on.key = reader[r].key
    BY <2>2
  <2>4. back.pc = "returned" /\ back.key = reader[r].key
    BY <2>2
  <2> HIDE DEF on, back
  <2>5. next.pc \in {"manifest", "returned"} /\ next.key = reader[r].key
    BY <2>3, <2>4
  <2> HIDE DEF next
  <2>6. reader'[r] = next
    BY <1>2, <2>1
  <2>7. InProgress(r)
    BY <2>1 DEF InProgress
  <2> QED
    BY <1>7, <1>8, <2>1, <2>5, <2>6, <2>7 DEF InProgress
<1>10. CASE ReadManifest(r)
  <2>1. /\ InProgress(r) /\ InProgress(r)' /\ candidates' = candidates
        /\ reader'[r].key = reader[r].key
    BY <1>2, <1>10 DEF ReadManifest, InProgress
  <2> QED
    BY <1>8, <2>1
<1>11. CASE ReadFiles(r)
  <2>1. /\ InProgress(r) /\ reader'[r].pc = "returned" /\ candidates' = candidates
        /\ reader'[r].key = reader[r].key
    BY <1>2, <1>11 DEF ReadFiles, InProgress
  <2> QED
    BY <1>7, <2>1
<1>12. CASE \E k \in Keys : CallGet(r, k)
  BY <1>6, <1>12 DEF Store!Next
<1> QED
  BY <1>9, <1>10, <1>11, <1>12 DEF ReaderStep

\* Recovery changes no value: the replayed Memtable has the newest record of
\* every key that the log has beyond the checkpoint.
LEMMA OpenStutters ==
    ASSUME TypeInv, SlotInv, LogInv, GenInv, Open
    PROVE  UNCHANGED Store!vars
<1> USE DEF memory, disk, manifests, readVars
<1> DEFINE m == manifestDisk
           A == After(m.checkpoint, WalRecords)
           F == RecordsIn(m.files, sstables)
<1>1. /\ engine = "down" /\ engine' = "open" /\ manifest' = m
      /\ active' = Merge(A, FALSE)
      /\ UNCHANGED <<immutable, sstables, wal, writer, reader, candidates>>
  BY DEF Open, Replayed
<1>2. immutable = {}
  BY <1>1 DEF SlotInv, RotateInv
<1>3. VisibleRecords' = Merge(A, FALSE) \cup F
  BY <1>1, <1>2 DEF VisibleRecords, RecordsOf, RecordsIn
<1>4. Rebuilt(m, WalRecords) = F \cup A
  BY DEF Rebuilt
<1>5. SameValues(VisibleRecords', Rebuilt(m, WalRecords))
  <2>1. A \subseteq Record /\ IsFiniteSet(A)
    BY RebuiltLayers DEF IsHistory
  <2>2. Merge(A, FALSE) \subseteq A
    BY DEF Merge
  <2>3. \A w \in A : \E s \in Merge(A, FALSE) : s.key = w.key /\ w.sequence <= s.sequence
    <3> HIDE DEF A
    <3> QED
      BY <2>1, MergeCovers
  <2> DEFINE V == VisibleRecords'
  <2>4. V \subseteq Rebuilt(m, WalRecords) /\ RecordsIn(m.files, sstables) \subseteq V
    BY <1>3, <1>4, <2>2
  <2>5. \A w \in After(m.checkpoint, WalRecords) :
            \E s \in V : s.key = w.key /\ w.sequence <= s.sequence
    BY <1>3, <2>3
  <2>6. m \in {manifest, manifestDisk} \cup manifestPossible
    OBVIOUS
  <2> HIDE DEF m, V
  <2>7. PICK visible : visible = V
    OBVIOUS
  <2>8. SameValues(visible, Rebuilt(m, WalRecords))
    BY <2>4, <2>5, <2>6, <2>7, RebuiltCovered
  <2> QED
    BY <2>7, <2>8 DEF V
<1>6. ASSUME NEW k \in Keys PROVE StoredValue(k)' = StoredValue(k)
  <2>1. StoredValue(k)' = ValueIn(VisibleRecords', k)
    BY <1>1 DEF StoredValue
  <2>2. StoredValue(k) = ValueIn(Rebuilt(m, WalRecords), k)
    BY <1>1 DEF StoredValue, Rebuilt, RecordsOf, RecordsIn
  <2> QED
    BY <1>5, <2>1, <2>2 DEF SameValues
<1>7. InFlight' = InFlight
  BY <1>1 DEF InFlight, WrittenRecord
<1> QED
  BY <1>1, <1>6, <1>7, StoreStutters

\* A stop leaves the store as it was, or with the pending write in it.
LEMMA CrashIsStoreStep ==
    ASSUME TypeInv, SlotInv, LogInv, GenInv, CoverInv, StopInv,
           engine # "down" => FileIsCurrent, NEW kind \in CrashKinds, Crash(kind)
    PROVE  Store!Next
<1> USE DEF memory, disk, manifests, readVars
<1> DEFINE B == Rebuilt(manifestDisk', Acknowledged)
<1>1. /\ engine # "down" /\ engine' = "down" /\ sstables' = sstables
      /\ reader' = [r \in Readers |-> IdleReader]
      /\ candidates' = [r \in Readers |-> {}]
  BY DEF Crash
<1>2. PICK m : /\ m = manifestDisk'
               /\ m = manifestDisk \/ m = manifest
  BY <1>1 DEF Crash, StopInv, PossInv
<1>3. /\ Acknowledged \subseteq WalRecords'
      /\ WalRecords' \subseteq Acknowledged \cup InFlight
      /\ InFlight' = {}
  BY StopKeepsAcknowledged
<1>4. SameValues(VisibleRecords, Rebuilt(m, Acknowledged))
  BY <1>1, <1>2, RebuiltFromView, RebuiltFromFile
<1>5. /\ \A k \in Keys : StoredValue(k) = ValueIn(Rebuilt(m, Acknowledged), k)
      /\ \A k \in Keys : StoredValue(k)' = ValueIn(Rebuilt(m, WalRecords'), k)
  <2>1. \A k \in Keys : StoredValue(k) = ValueIn(VisibleRecords, k)
    BY <1>1 DEF StoredValue
  <2>2. \A k \in Keys : StoredValue(k)' = ValueIn(Rebuilt(m, WalRecords'), k)
    BY <1>1, <1>2 DEF StoredValue, Rebuilt, RecordsOf, RecordsIn
  <2> QED
    BY <1>4, <2>1, <2>2 DEF SameValues
<1>6. Pending' = {}
  BY <1>3 DEF Pending
<1>7. ReadStatuses' = [r \in Readers |-> Store!NoRead]
  BY <1>1 DEF ReadStatuses, ReadStatus, InProgress, IdleReader, Store!NoRead
<1>8. CASE WalRecords' = Acknowledged
  <2>1. StoredValues' = StoredValues
    BY <1>5, <1>8 DEF StoredValues
  <2> QED
    BY <1>6, <1>7, <2>1 DEF Store!Next, Store!Crash, StoredValues, Pending, ReadStatuses
<1>9. CASE WalRecords' # Acknowledged
  <2>1. PICK w \in InFlight : w \in WalRecords'
    BY <1>3, <1>9
  <2>2. InFlight = {w}
    BY <2>1 DEF InFlight
  <2>3. WalRecords' = {w} \cup Acknowledged
    BY <1>3, <2>1, <2>2
  <2>4. /\ w \in Logged /\ w.sequence = Bound /\ Bound \in Nat
        /\ m.checkpoint < Bound
        /\ \A r \in Acknowledged : r.sequence < w.sequence /\ r.sequence \in Nat
    BY <1>1, <1>2, <2>1, InFlightIsLast, BoundTyped DEF LogInv, MemoryBelow
  <2>5. After(m.checkpoint, WalRecords') = {w} \cup After(m.checkpoint, Acknowledged)
    BY <2>3, <2>4 DEF After
  <2>6. Rebuilt(m, WalRecords') = {w} \cup Rebuilt(m, Acknowledged)
    BY <2>5 DEF Rebuilt
  <2>7. /\ IsHistory(Rebuilt(m, Acknowledged))
        /\ \A r \in Rebuilt(m, Acknowledged) : r.sequence < w.sequence
    <3>1. Acknowledged \subseteq WalRecords
      BY DEF Acknowledged
    <3>2. m \in {manifest, manifestDisk} \cup manifestPossible
      BY <1>2
    <3>3. /\ IsHistory(Rebuilt(m, Acknowledged)) /\ m.checkpoint \in Int
          /\ \A r \in RecordsIn(m.files, sstables) : r.sequence \in Nat
                                                     /\ r.sequence <= m.checkpoint
      BY <3>1, <3>2, RebuiltLayers
    <3>4. \A r \in RecordsIn(m.files, sstables) : r.sequence < w.sequence
      BY <2>4, <3>3
    <3> QED
      BY <2>4, <3>3, <3>4 DEF Rebuilt, After
  <2>8. IsHistory({w})
    BY <2>4, LoggedRecords, FS_Singleton DEF IsHistory, SeqUnique
  <2>9. ASSUME NEW k
        PROVE  ValueIn(Rebuilt(m, WalRecords'), k)
                  = IF k = w.key THEN ValueOf({w}) ELSE ValueIn(Rebuilt(m, Acknowledged), k)
    <3> DEFINE R == Rebuilt(m, Acknowledged)
    <3>1. IsHistory(R) /\ IsAbove({w}, R)
      BY <2>7 DEF IsAbove
    <3>2. Rebuilt(m, WalRecords') = {w} \cup R
      BY <2>6
    <3> HIDE DEF R
    <3>3. ValueIn({w} \cup R, k) = IF Versions({w}, k) = {} THEN ValueIn(R, k)
                                   ELSE ValueIn({w}, k)
      BY <2>8, <3>1, ValueAbove
    <3>4. Versions({w}, k) = IF k = w.key THEN {w} ELSE {}
      BY DEF Versions
    <3>5. k = w.key => ValueIn({w}, k) = ValueOf({w})
      BY <3>4 DEF ValueIn
    <3> QED
      BY <3>2, <3>3, <3>4, <3>5 DEF R
  <2> DEFINE p == [key |-> w.key, value |-> ValueOf({w})]
  <2>10. w.key \in Keys
    BY <2>4 DEF Logged
  <2>11. StoredValues' = [StoredValues EXCEPT ![p.key] = p.value]
    <3>1. \A k \in Keys : StoredValue(k)' = IF k = p.key THEN p.value ELSE StoredValue(k)
      BY <1>5, <2>9
    <3> QED
      BY <2>10, <3>1 DEF StoredValues
  <2>12. p \in Pending
    BY <2>1 DEF Pending
  <2> HIDE DEF p
  <2> QED
    BY <1>6, <1>7, <2>11, <2>12
    DEF Store!Next, Store!Crash, Store!Stored, StoredValues, Pending, ReadStatuses
<1> QED
  BY <1>8, <1>9

\* The engine is a durable, linearizable map as long as it stops in one way
\* only.  An append to the log begins a write and its entry in the Memtable
\* commits it; a call and a return of get() are those of the store; flushes,
\* compactions, shutdown and recovery change nothing a caller can see.
THEOREM EngineImplementsStore ==
    ASSUME OneKindOfStop
    PROVE  Spec => ImplementsStore
<1>1. Init => Store!Init
  <2> SUFFICES ASSUME Init PROVE Store!Init
    OBVIOUS
  <2>1. /\ engine = "down" /\ wal = <<>> /\ manifestDisk.files = {}
        /\ writer.pc = "idle"
        /\ reader = [r \in Readers |-> IdleReader]
        /\ candidates = [r \in Readers |-> {}]
    BY DEF Init, EmptyManifest, IdleWriter
  <2>2. WalRecords = {}
    BY <2>1 DEF WalRecords
  <2>3. \A k \in Keys : StoredValue(k) = Absent
    BY <2>1, <2>2 DEF StoredValue, RecordsOf, After, ValueIn, ValueOf, Versions
  <2>4. StoredValues = [k \in Keys |-> Absent]
    BY <2>3 DEF StoredValues
  <2>5. Pending = {}
    BY <2>1 DEF Pending, InFlight
  <2>6. ReadStatuses = [r \in Readers |-> Store!NoRead]
    BY <2>1 DEF ReadStatuses, ReadStatus, InProgress, IdleReader, Store!NoRead
  <2> QED
    BY <2>4, <2>5, <2>6 DEF Store!Init, StoredValues, Pending, ReadStatuses
<1>2. TypeInv /\ TypeInv' /\ SlotInv /\ LogInv /\ GenInv /\ GenInv' /\ CoverInv
         /\ StopInv /\ ReadInv /\ ReadInv' /\ (engine # "down" => FileIsCurrent)
         /\ [Next]_vars => [Store!Next]_Store!vars
  <2> SUFFICES ASSUME TypeInv, TypeInv', SlotInv, LogInv, GenInv, GenInv', CoverInv,
                      StopInv, ReadInv, ReadInv', engine # "down" => FileIsCurrent,
                      [Next]_vars
               PROVE  Store!Next \/ UNCHANGED Store!vars
    OBVIOUS
  <2>1. CASE AppendToWal
    BY <2>1, AppendBegins
  <2>2. CASE ApplyWrite
    BY <2>2, ApplyCommits
  <2>3. ASSUME NEW r \in Readers, ReaderStep(r)
        PROVE  Store!Next \/ UNCHANGED Store!vars
    BY <2>3, ReaderIsStoreStep
  <2>4. ASSUME NEW kind \in CrashKinds, Crash(kind) PROVE Store!Next
    BY <2>4, CrashIsStoreStep
  <2>5. CASE Open
    BY <2>5, OpenStutters
  <2>6. CASE engine = "down" /\ ~Open
    <3>1. UNCHANGED vars
      BY <2>6, DownIsStill
    <3>2. \A k \in Keys : StoredValue(k)' = StoredValue(k)
      BY <3>1 DEF vars, memory, disk, manifests, StoredValue, RecordsOf, WalRecords,
         VisibleRecords
    <3>3. UNCHANGED <<InFlight, reader, candidates>>
      BY <3>1 DEF vars, readVars, InFlight, WrittenRecord
    <3> QED
      BY <3>2, <3>3, StoreStutters
  <2>7. CASE /\ engine # "down" /\ ~AppendToWal /\ ~ApplyWrite /\ ~Open
             /\ \A r \in Readers : ~ReaderStep(r)
             /\ \A kind \in CrashKinds : ~Crash(kind)
    <3>1. engine' # "down"
      <4>1. CASE PublishManifest \/ ClearSlot
        BY <2>7, <4>1 DEF PublishManifest, ClearSlot
      <4>2. CASE ~PublishManifest /\ ~ClearSlot
        BY <2>7, <4>2, MemorySteps
      <4> QED
        BY <4>1, <4>2
    <3>2. SameValues(VisibleRecords', VisibleRecords)
      BY <2>7, <3>1, VisibleSteps
    <3>3. \A k \in Keys : StoredValue(k)' = StoredValue(k)
      BY <2>7, <3>1, <3>2 DEF StoredValue, SameValues
    <3>4. InFlight' = InFlight
      <4>1. CASE ReclaimWal
        BY <4>1, LogOfReclaim
      <4>2. CASE ~ReclaimWal
        BY <2>7, <4>2, LogSteps
      <4> QED
        BY <4>1, <4>2
    <3>5. UNCHANGED <<reader, candidates>>
      BY <2>7, ReadersStay
    <3> QED
      BY <3>3, <3>4, <3>5, StoreStutters
  <2> QED
    BY <2>1, <2>2, <2>3, <2>4, <2>5, <2>6, <2>7
<1> QED
  BY <1>1, <1>2, TypeInvIsInvariant, SlotInvIsInvariant, LogInvIsInvariant,
     GenInvIsInvariant, CoverInvIsInvariant, StopInvIsInvariant, ReadInvIsInvariant,
     FileStaysCurrent, PTL DEF Spec, ImplementsStore, Store!Spec
-----------------------------------------------------------------------------
(* The log as WalStore *)

Numbered == 0 .. MaxSequence - 1

UpTo(m) == {s \in Numbered : s <= m.checkpoint}

LogNumbers == SequencesOf(WalRecords) \ CoveredSequences
SettledNumbers == SequencesOf(SyncedRecords) \ CoveredSequences

\* A MANIFEST in doubt that covers more than another one ends at a record of
\* the log: its checkpoint was read off the Memtable that was flushed.
CheckpointInv ==
    \A m \in manifestPossible :
        \/ m.checkpoint \in SequencesOf(WalRecords)
        \/ \A n \in manifestPossible : m.checkpoint <= n.checkpoint

LEMMA LogNumbered ==
    ASSUME TypeInv
    PROVE  /\ SequencesOf(WalRecords) \subseteq Numbered
           /\ SequencesOf(SyncedRecords) \subseteq SequencesOf(WalRecords)
           /\ CoveredSequences \subseteq Numbered
           /\ \A m \in manifestPossible : m.checkpoint \in Int
<1>1. /\ WalRecords \subseteq Logged /\ SyncedRecords \subseteq WalRecords
  BY LogTyped
<1>2. \A m \in manifestPossible : m.checkpoint \in Int
  BY SequenceAssumption DEF TypeInv, ManifestTypes, IsManifest, Value, Absent
<1> QED
  BY <1>1, <1>2 DEF SequencesOf, Logged, CoveredSequences, Numbered

\* What a MANIFEST covers once it is the only one there can be.
LEMMA Decided ==
    ASSUME TypeInv, CheckpointInv, NEW m \in manifestPossible
    PROVE  /\ CoveredSequences \subseteq UpTo(m)
           /\ \/ UpTo(m) = CoveredSequences
              \/ \E c \in LogNumbers :
                    UpTo(m) = CoveredSequences \cup {n \in Numbered : n <= c}
<1>1. /\ \A n \in manifestPossible : n.checkpoint \in Int
      /\ SequencesOf(WalRecords) \subseteq Numbered
      /\ \A s \in Numbered : s \in Int
  BY LogNumbered DEF Numbered
<1>2. CoveredSequences \subseteq UpTo(m)
  BY DEF CoveredSequences, UpTo, Numbered
<1>3. ASSUME \A n \in manifestPossible : m.checkpoint <= n.checkpoint
      PROVE  UpTo(m) = CoveredSequences
  <2>1. ASSUME NEW s \in Numbered, s <= m.checkpoint, NEW n \in manifestPossible
        PROVE  s <= n.checkpoint
    BY ONLY <2>1, <1>1, <1>3
  <2> QED
    BY <1>2, <2>1 DEF CoveredSequences, UpTo, Numbered
<1>4. ASSUME m.checkpoint \in SequencesOf(WalRecords),
             m.checkpoint \notin CoveredSequences
      PROVE  /\ m.checkpoint \in LogNumbers
             /\ UpTo(m) = CoveredSequences \cup {n \in Numbered : n <= m.checkpoint}
  BY <1>2, <1>4 DEF LogNumbers, UpTo
<1>5. ASSUME m.checkpoint \in CoveredSequences
      PROVE  \A n \in manifestPossible : m.checkpoint <= n.checkpoint
  BY <1>5 DEF CoveredSequences
<1> QED
  BY <1>2, <1>3, <1>4, <1>5 DEF CheckpointInv

LEMMA CoveredByOne ==
    ASSUME NEW m, manifestPossible = {m}
    PROVE  CoveredSequences = UpTo(m)
BY DEF CoveredSequences, UpTo, Numbered

LEMMA CheckpointOfOne ==
    ASSUME TypeInv, NEW m \in manifestPossible, manifestPossible' = {m}
    PROVE  CheckpointInv'
<1>1. m.checkpoint \in Int
  BY LogNumbered
<1>2. m.checkpoint <= m.checkpoint
  BY <1>1
<1> QED
  BY <1>2 DEF CheckpointInv

LEMMA CheckpointFrame ==
    ASSUME CheckpointInv, WalRecords \subseteq WalRecords',
           UNCHANGED manifestPossible
    PROVE  CheckpointInv'
BY DEF CheckpointInv, SequencesOf

\* The checkpoint of a flush is the number of a record that is still logged.
LEMMA CommitKeepsCheckpointInv ==
    ASSUME TypeInv, SlotInv, GenInv, CoverInv, CommitManifest
    PROVE  CheckpointInv'
<1>1. /\ worker.pc = "commit" /\ wal' = wal
      /\ manifestPossible' = manifestPossible \cup {EditedManifest}
  BY DEF CommitManifest, disk, manifests
<1>2. engine # "down" /\ ~backgroundError
  BY <1>1 DEF SlotInv, RotateInv, IdleWorker, GenInv, ViewInv
<1>3. manifestPossible = {manifestDisk} /\ manifestDisk = manifest
  BY <1>1, <1>2 DEF GenInv, ViewInv
<1>4. manifest.checkpoint <= EditedManifest.checkpoint
  BY <1>1, EditKeeps
<1>5. manifest.checkpoint \in Int
  BY <1>3, LogNumbered
<1>6. CASE worker.task = {}
  <2>1. EditedManifest.checkpoint = manifest.checkpoint
    BY <1>6 DEF EditedManifest
  <2>2. manifest.checkpoint <= manifest.checkpoint
    BY <1>5
  <2> QED
    BY <1>1, <1>3, <2>1, <2>2 DEF CheckpointInv
<1>7. CASE worker.task # {}
  <2>1. worker.task = immutable /\ EditedManifest.checkpoint = HighestSequence(immutable)
    BY <1>1, <1>7 DEF SlotInv, TaskInv, EditedManifest
  <2>2. PICK r \in immutable : r.sequence = HighestSequence(immutable)
    BY <1>7, <2>1, HighestOf DEF TypeInv, MemoryTypes, IsMemtable
  <2>3. manifest.checkpoint < r.sequence /\ r.sequence \in Int
    BY <1>1, SequenceAssumption
    DEF GenInv, MemoryInv, TypeInv, MemoryTypes, IsMemtable, Logged
  <2>4. ~(r.sequence <= manifest.checkpoint)
    BY <1>5, <2>3
  <2>5. r \in WalRecords'
    BY <1>1, <2>4 DEF CoverInv, MemoryLogged, WalRecords
  <2>6. EditedManifest.checkpoint \in SequencesOf(WalRecords')
    BY <2>1, <2>2, <2>5 DEF SequencesOf
  <2>7. manifest.checkpoint <= manifest.checkpoint
    BY <1>5
  <2> QED
    BY <1>1, <1>3, <1>4, <2>6, <2>7 DEF CheckpointInv, SequencesOf
<1> QED
  BY <1>6, <1>7

\* Nobody else touches what may be on disk after a power loss.
LEMMA PossibleSteps ==
    ASSUME [Next]_vars, ~BuildSstable, ~CommitManifest, ~PublishManifest,
           ~MergeSstables, \A kind \in CrashKinds : ~Crash(kind)
    PROVE  UNCHANGED manifestPossible
<1> USE DEF disk, manifests
<1>1. CASE WriterStep
  BY <1>1 DEF WriterStep, LockForWrite, RefuseWrite, PrepareInPlace,
     PrepareRotating, AppendToWal, RefuseSequence, SyncWal, ApplyWrite
<1>2. CASE WorkerStep
  BY <1>2 DEF WorkerStep, PopTask, ClearSlot, ReclaimWal, SkipCompaction,
     PlanCompaction, FailWorker, ExitWorker
<1>3. ASSUME NEW r \in Readers, ReaderStep(r) PROVE UNCHANGED manifestPossible
  BY <1>3, ReaderFrame
<1>4. CASE LifecycleStep
  BY <1>4 DEF LifecycleStep, BeginShutdown, FinalFlush, JoinWorker, Open
<1>5. CASE UNCHANGED vars
  BY <1>5 DEF vars
<1> QED
  BY <1>1, <1>2, <1>3, <1>4, <1>5 DEF Next

\* The steps that settle the MANIFEST file leave the log and the process alone.
LEMMA SettlingSteps ==
    ASSUME SlotInv, BuildSstable \/ PublishManifest \/ MergeSstables
    PROVE  /\ engine # "down" /\ UNCHANGED <<engine, wal, walSynced>>
           /\ UNCHANGED manifestPossible \/ manifestPossible' = {manifestDisk}
<1> USE DEF disk, manifests
<1>1. engine # "down"
  <2>1. worker.pc # "idle"
    <3>1. CASE BuildSstable
      BY <3>1 DEF BuildSstable
    <3>2. CASE PublishManifest
      BY <3>2 DEF PublishManifest
    <3>3. CASE MergeSstables
      BY <3>3, Zenon DEF MergeSstables
    <3> QED
      BY <3>1, <3>2, <3>3
  <2> QED
    BY <2>1 DEF SlotInv, RotateInv, IdleWorker
<1>2. CASE BuildSstable
  BY <1>1, <1>2, Zenon DEF BuildSstable, DirectorySynced
<1>3. CASE PublishManifest
  BY <1>1, <1>3 DEF PublishManifest, DirectorySynced
<1>4. CASE MergeSstables
  <2>1. /\ UNCHANGED <<engine, wal, walSynced>>
        /\ DirectorySynced \/ UNCHANGED manifests
    BY <1>4, Zenon DEF MergeSstables
  <2> QED
    BY <1>1, <2>1 DEF DirectorySynced
<1> QED
  BY <1>2, <1>3, <1>4

LEMMA CheckpointSteps ==
    ASSUME TypeInv, SlotInv, LogInv, GenInv, CoverInv, CheckpointInv, [Next]_vars
    PROVE  CheckpointInv'
<1>1. manifestDisk \in manifestPossible
  BY DEF GenInv, ViewInv
<1>2. CASE CommitManifest
  BY <1>2, CommitKeepsCheckpointInv
<1>3. CASE BuildSstable \/ PublishManifest \/ MergeSstables
  <2>1. WalRecords' = WalRecords
    BY <1>3, SettlingSteps DEF WalRecords
  <2> QED
    BY <1>1, <1>3, <2>1, SettlingSteps, CheckpointFrame, CheckpointOfOne
<1>4. ASSUME NEW kind \in CrashKinds, Crash(kind) PROVE CheckpointInv'
  <2>1. CASE kind = "power"
    <3>1. manifestDisk' \in manifestPossible /\ manifestPossible' = {manifestDisk'}
      BY <1>4, <2>1 DEF Crash
    <3> QED
      BY <3>1, CheckpointOfOne
  <2>2. CASE kind # "power"
    <3>1. WalRecords' = WalRecords
      BY <1>4, <2>2, LogOfCrash
    <3>2. UNCHANGED manifestPossible
      BY <1>4, <2>2 DEF Crash, manifests
    <3> QED
      BY <3>1, <3>2, CheckpointFrame
  <2> QED
    BY <2>1, <2>2
<1>5. CASE ReclaimWal
  <2>1. UNCHANGED manifestPossible /\ worker.pc = "reclaim"
    BY <1>5 DEF ReclaimWal, manifests
  <2>2. manifestPossible' = {manifestDisk}
    BY <2>1, ReclaimIsCovered
  <2> QED
    BY <1>1, <2>2, CheckpointOfOne
<1>6. CASE /\ ~CommitManifest /\ ~BuildSstable /\ ~PublishManifest
           /\ ~MergeSstables /\ ~ReclaimWal
           /\ \A kind \in CrashKinds : ~Crash(kind)
  <2>1. UNCHANGED manifestPossible
    BY <1>6, PossibleSteps
  <2>2. WalRecords \subseteq WalRecords'
    <3>1. CASE AppendToWal
      BY <3>1, LogOfAppend
    <3>2. CASE ApplyWrite
      BY <3>2 DEF ApplyWrite, disk, WalRecords
    <3>3. CASE ~AppendToWal /\ ~ApplyWrite
      BY <1>6, <3>3, LogSteps
    <3> QED
      BY <3>1, <3>2, <3>3
  <2> QED
    BY <2>1, <2>2, CheckpointFrame
<1> QED
  BY <1>2, <1>3, <1>4, <1>5, <1>6

LEMMA NumbersFrame ==
    ASSUME UNCHANGED <<wal, walSynced, manifestPossible>>
    PROVE  UNCHANGED <<LogNumbers, SettledNumbers, CoveredSequences>>
<1>1. UNCHANGED <<WalRecords, SyncedRecords>>
  BY DEF WalRecords, SyncedRecords
<1>2. CoveredSequences' = CoveredSequences
  BY DEF CoveredSequences
<1> QED
  BY <1>1, <1>2 DEF LogNumbers, SettledNumbers, SequencesOf

LEMMA LogStands ==
    ASSUME UNCHANGED <<wal, walSynced, manifestPossible>>,
           (engine # "down")' = (engine # "down")
    PROVE  UNCHANGED ReplayLog!vars
BY NumbersFrame DEF ReplayLog!vars, LogNumbers, SettledNumbers

\* The number of a new record is above the log and above every checkpoint.
LEMMA AppendIsLogAppend ==
    ASSUME TypeInv, SlotInv, LogInv, GenInv, AppendToWal
    PROVE  ReplayLog!Next
<1>1. /\ writer.pc = "append" /\ nextSequence < MaxSequence
      /\ wal' = Append(wal, [key |-> writer.key, sequence |-> nextSequence,
                             operation |-> writer.operation])
      /\ writer' = [writer EXCEPT !.pc = "fsync", !.sequence = nextSequence]
      /\ UNCHANGED <<engine, walSynced, manifestPossible>>
  BY DEF AppendToWal, manifests
<1>2. engine # "down"
  BY <1>1 DEF SlotInv, RotateInv, IdleWriter
<1>3. nextSequence \in Numbered /\ nextSequence \in Int
  BY <1>1, SequenceAssumption DEF TypeInv, LogTypes, Numbered
<1>4. WalRecords' = WalRecords \cup {WrittenRecord'} /\ WalRecords = Acknowledged
  BY LogOfAppend DEF Acknowledged
<1>5. WrittenRecord'.sequence = nextSequence
  BY <1>1 DEF WrittenRecord, SlotInv, WriterShape
<1>6. SequencesOf(WalRecords') = SequencesOf(WalRecords) \cup {nextSequence}
  BY <1>4, <1>5 DEF SequencesOf
<1>7. \A s \in SequencesOf(WalRecords) : s < nextSequence
  BY <1>2, <1>4, InFlightIsLast DEF SequencesOf
<1>8. \A s \in CoveredSequences : s < nextSequence
  <2>1. manifestDisk \in manifestPossible /\ manifestDisk.checkpoint \in Int
    BY LogNumbered DEF GenInv, ViewInv
  <2>2. manifestDisk.checkpoint < nextSequence
    BY <1>1, <1>2 DEF LogInv, MemoryBelow, Bound
  <2>3. \A s \in CoveredSequences : s \in Int /\ s <= manifestDisk.checkpoint
    BY <2>1 DEF CoveredSequences
  <2> QED
    BY <1>3, <2>1, <2>2, <2>3
<1>9. CoveredSequences' = CoveredSequences
  BY <1>1 DEF CoveredSequences
<1>10. SyncedRecords' = SyncedRecords
  <2>1. wal \in Seq(Logged) /\ walSynced \in 0 .. Len(wal) /\ Len(wal) \in Nat
    BY LogTyped
  <2> DEFINE e == [key |-> writer.key, sequence |-> nextSequence,
                   operation |-> writer.operation]
  <2>2. wal' = Append(wal, e)
    BY <1>1
  <2> HIDE DEF e
  <2>3. \A i \in 1 .. walSynced : wal'[i] = wal[i]
    BY <2>1, <2>2
  <2> QED
    BY <1>1, <2>3 DEF SyncedRecords
<1>11. LogNumbers' = LogNumbers \cup {nextSequence}
  <2>1. ~(nextSequence < nextSequence)
    BY <1>3
  <2>2. nextSequence \notin CoveredSequences
    BY <1>8, <2>1
  <2>3. SequencesOf(WalRecords)' = SequencesOf(WalRecords) \cup {nextSequence}
    BY <1>6 DEF SequencesOf
  <2> QED
    BY <1>9, <2>2, <2>3 DEF LogNumbers
<1>12. SettledNumbers' = SettledNumbers
  BY <1>9, <1>10 DEF SettledNumbers, SequencesOf
<1>13. \A m \in LogNumbers \cup CoveredSequences : m < nextSequence
  BY <1>7, <1>8 DEF LogNumbers
<1>14. ReplayLog!Append(nextSequence)
  BY <1>1, <1>2, <1>9, <1>11, <1>12, <1>13
  DEF ReplayLog!Append, LogNumbers, SettledNumbers
<1> QED
  BY <1>3, <1>14 DEF ReplayLog!Next, Numbered

\* An fsync and the rewriting of the log settle all that is in it.
LEMMA LogSettles ==
    ASSUME TypeInv, engine # "down", UNCHANGED engine,
           UNCHANGED <<LogNumbers, CoveredSequences>>,
           walSynced' = Len(wal'), wal' \in Seq(Logged)
    PROVE  ReplayLog!Next
<1>1. SyncedRecords' = WalRecords'
  <2>1. DOMAIN wal' = 1 .. Len(wal')
    BY LenProperties
  <2> QED
    BY <2>1 DEF SyncedRecords, WalRecords
<1>2. SettledNumbers' = LogNumbers'
  BY <1>1 DEF SettledNumbers, LogNumbers, SequencesOf
<1>3. SettledNumbers \subseteq LogNumbers
  BY LogNumbered DEF SettledNumbers, LogNumbers
<1>4. ReplayLog!Settle
  BY <1>2, <1>3 DEF ReplayLog!Settle, LogNumbers, SettledNumbers
<1> QED
  BY <1>4 DEF ReplayLog!Next

\* What a reclamation drops no replay would have read.
LEMMA ReclaimSettlesLog ==
    ASSUME TypeInv, TypeInv', SlotInv, LogInv, GenInv, ReclaimWal
    PROVE  ReplayLog!Next
<1>1. /\ worker.pc = "reclaim" /\ walSynced' = Len(wal')
      /\ UNCHANGED <<engine, manifestPossible>>
  BY DEF ReclaimWal, manifests
<1> DEFINE cp == HighestSequence(worker.task)
<1>2. /\ manifestPossible = {manifestDisk} /\ engine # "down"
      /\ manifestDisk.checkpoint = cp
  BY <1>1, ReclaimIsCovered
<1>3. WalRecords' = After(cp, WalRecords)
  BY LogOfReclaim
<1>4. cp \in Int /\ \A s \in SequencesOf(WalRecords) : s \in Numbered /\ s \in Int
  BY <1>2, LogNumbered DEF Numbered
<1>5. CoveredSequences = {s \in Numbered : s <= cp} /\ CoveredSequences' = CoveredSequences
  BY <1>1, <1>2, CoveredByOne DEF UpTo, CoveredSequences
<1> HIDE DEF cp
<1>6. \A s \in SequencesOf(WalRecords) : s \in CoveredSequences <=> ~(cp < s)
  BY <1>4, <1>5
<1>7. SequencesOf(WalRecords)' = {s \in SequencesOf(WalRecords) : cp < s}
  BY <1>3 DEF SequencesOf, After
<1>8. LogNumbers' = LogNumbers
  BY <1>5, <1>6, <1>7 DEF LogNumbers
<1>9. wal' \in Seq(Logged)
  BY DEF TypeInv, LogTypes
<1> QED
  BY <1>1, <1>2, <1>5, <1>8, <1>9, LogSettles

\* With the directory synced the flushed records are not replayed any more.
LEMMA LogIsCovered ==
    ASSUME TypeInv, CheckpointInv, NEW m \in manifestPossible, engine # "down",
           UNCHANGED <<engine, wal, walSynced>>, manifestPossible' = {m}
    PROVE  ReplayLog!Next \/ UNCHANGED ReplayLog!vars
<1>1. CoveredSequences' = UpTo(m)
  BY DEF CoveredSequences, UpTo, Numbered
<1>2. UNCHANGED <<SequencesOf(WalRecords), SequencesOf(SyncedRecords)>>
  BY DEF SequencesOf, WalRecords, SyncedRecords
<1>3. CASE UpTo(m) = CoveredSequences
  BY <1>1, <1>2, <1>3 DEF ReplayLog!vars
<1>4. ASSUME NEW c \in LogNumbers,
             UpTo(m) = CoveredSequences \cup {n \in Numbered : n <= c}
      PROVE  ReplayLog!Next
  <2>1. ReplayLog!Covering(c)
    BY <1>1, <1>4 DEF ReplayLog!Covering, Numbered
  <2>2. CoveredSequences \subseteq CoveredSequences'
    BY <1>1, <1>4
  <2>3. /\ LogNumbers' = LogNumbers \ CoveredSequences'
        /\ SettledNumbers' = SettledNumbers \ CoveredSequences'
    BY <1>2, <2>2 DEF LogNumbers, SettledNumbers
  <2>4. ReplayLog!Cover(c)
    BY <1>4, <2>1, <2>3 DEF ReplayLog!Cover, LogNumbers, SettledNumbers
  <2> QED
    BY <1>4, <2>4 DEF ReplayLog!Next, LogNumbers
<1> QED
  BY <1>3, <1>4, Decided

\* A kill leaves the log and the checkpoint as they are.
LEMMA KillStopsLog ==
    ASSUME TypeInv, NEW kind \in CrashKinds, Crash(kind), kind # "power"
    PROVE  ReplayLog!Next
<1>1. /\ engine # "down" /\ engine' = "down" /\ UNCHANGED manifestPossible
  BY DEF Crash, manifests
<1>2. UNCHANGED <<wal, walSynced>>
  BY CrashedLog
<1>3. ReplayLog!Stop
  BY <1>1, <1>2, NumbersFrame DEF ReplayLog!Stop, LogNumbers, SettledNumbers
<1> QED
  BY <1>3 DEF ReplayLog!Next

\* A power loss takes the end of the log and decides what the MANIFEST says.
LEMMA PowerLossStopsLog ==
    ASSUME TypeInv, LogInv, CheckpointInv, NEW kind \in CrashKinds, Crash(kind),
           kind = "power"
    PROVE  ReplayLog!Next
<1>1. /\ engine' = "down"
      /\ manifestDisk' \in manifestPossible /\ manifestPossible' = {manifestDisk'}
  BY DEF Crash
<1>2. PICK n \in 0 .. Len(wal) :
          /\ wal' \in Seq(Logged)
          /\ Len(wal') = n
          /\ \A i \in 1 .. n : wal'[i] = wal[i]
          /\ walSynced <= n /\ walSynced' = n
  BY CrashedLog
<1>3. /\ Len(wal) \in Nat /\ DOMAIN wal = 1 .. Len(wal) /\ walSynced \in 0 .. Len(wal)
      /\ DOMAIN wal' = 1 .. n
  BY <1>2, LogTyped, LenProperties
<1> DEFINE before == SequencesOf(WalRecords)
           after == {wal[i].sequence : i \in 1 .. n}
           synced == {wal[i].sequence : i \in 1 .. walSynced}
<1>4. before = {wal[i].sequence : i \in 1 .. Len(wal)}
  BY <1>3 DEF SequencesOf, WalRecords
<1>5. SequencesOf(SyncedRecords) = synced
  BY DEF SequencesOf, SyncedRecords
<1>6. SequencesOf(WalRecords)' = after /\ SequencesOf(SyncedRecords)' = after
  BY <1>2, <1>3 DEF SequencesOf, WalRecords, SyncedRecords
<1>7. after \subseteq before /\ synced \subseteq after
  BY <1>2, <1>3, <1>4
<1>8. ASSUME NEW x \in before \ after, NEW m \in after PROVE m < x
  <2>1. PICK i \in 1 .. Len(wal) : x = wal[i].sequence
    BY <1>4
  <2>2. PICK j \in 1 .. n : m = wal[j].sequence
    OBVIOUS
  <2>3. i \notin 1 .. n
    BY <2>1
  <2>4. j < i /\ j \in 1 .. Len(wal)
    BY <1>3, <2>3
  <2> QED
    BY <1>3, <2>1, <2>2, <2>4 DEF LogInv, StrictlyIncreasing
<1>9. CoveredSequences' = UpTo(manifestDisk')
  BY <1>1 DEF CoveredSequences, UpTo, Numbered
<1> HIDE DEF before, after, synced
<1>10. /\ LogNumbers = before \ CoveredSequences
       /\ SettledNumbers = synced \ CoveredSequences
       /\ LogNumbers' = after \ CoveredSequences'
       /\ SettledNumbers' = after \ CoveredSequences'
  BY <1>5, <1>6 DEF LogNumbers, SettledNumbers, before
<1> DEFINE lost == LogNumbers \ after
<1>11. CoveredSequences \subseteq CoveredSequences'
  BY <1>1, <1>9, Decided
<1>12. \/ CoveredSequences' = CoveredSequences
       \/ \E c \in LogNumbers : ReplayLog!Covering(c)
  BY <1>1, <1>9, Decided DEF ReplayLog!Covering, Numbered
<1>13. lost \in SUBSET (LogNumbers \ SettledNumbers)
  BY <1>7, <1>10
<1>14. \A x \in lost, m \in LogNumbers \ lost : m < x
  BY <1>8, <1>10
<1>15. LogNumbers' = (LogNumbers \ lost) \ CoveredSequences'
  BY <1>7, <1>10, <1>11
<1>16. SettledNumbers' \in SUBSET LogNumbers'
  BY <1>10
<1>17. SettledNumbers \subseteq SettledNumbers' \cup CoveredSequences'
  BY <1>7, <1>10
<1> HIDE DEF lost
<1>18. ReplayLog!LosePower
  BY <1>1, <1>12, <1>13, <1>14, <1>15, <1>16, <1>17
  DEF ReplayLog!LosePower, LogNumbers, SettledNumbers
<1> QED
  BY <1>18 DEF ReplayLog!Next

\* The engine asks of the log only what WalStore promises, and Wal has been
\* shown to provide it: a record is logged before it is settled, settled before
\* its write is applied, and covered only by the checkpoint of a MANIFEST that
\* no stop undoes; what is reclaimed no start would replay
\* (KronosEngine::put(), flushMemtable(), recover()).
THEOREM EngineUsesWalStore == Spec => UsesWalStore
<1>1. Init => ReplayLog!Init
  <2> SUFFICES ASSUME Init PROVE ReplayLog!Init
    OBVIOUS
  <2>1. /\ engine = "down" /\ wal = <<>> /\ walSynced = 0
        /\ manifestPossible = {EmptyManifest} /\ EmptyManifest.checkpoint = -1
    BY DEF Init, EmptyManifest, NoCheckpoint
  <2>2. WalRecords = {} /\ SyncedRecords = {}
    BY <2>1 DEF WalRecords, SyncedRecords
  <2>3. CoveredSequences = {}
    <3>1. \A s \in Numbered : ~(s <= -1)
      BY DEF Numbered
    <3> QED
      BY <2>1, <3>1 DEF CoveredSequences, Numbered
  <2> QED
    BY <2>1, <2>2, <2>3 DEF ReplayLog!Init, SequencesOf
<1>2. Init => CheckpointInv
  BY DEF Init, CheckpointInv, EmptyManifest, NoCheckpoint
<1>3. TypeInv /\ TypeInv' /\ SlotInv /\ LogInv /\ GenInv /\ CheckpointInv
         /\ [Next]_vars => [ReplayLog!Next]_ReplayLog!vars
  <2> SUFFICES ASSUME TypeInv, TypeInv', SlotInv, LogInv, GenInv, CheckpointInv,
                      [Next]_vars
               PROVE  ReplayLog!Next \/ UNCHANGED ReplayLog!vars
    OBVIOUS
  <2> USE DEF disk, manifests
  <2>1. manifestDisk \in manifestPossible
    BY DEF GenInv, ViewInv
  <2>2. CASE WriterStep
    <3>1. CASE AppendToWal
      BY <3>1, AppendIsLogAppend
    <3>2. CASE SyncWal
      <4>1. /\ walSynced' = Len(wal') /\ UNCHANGED <<engine, wal, manifestPossible>>
            /\ writer.pc = "fsync"
        BY <3>2 DEF SyncWal
      <4>2. engine # "down"
        BY <4>1 DEF SlotInv, RotateInv, IdleWriter
      <4>3. UNCHANGED <<LogNumbers, CoveredSequences>>
        BY <4>1 DEF LogNumbers, CoveredSequences, SequencesOf, WalRecords
      <4>4. wal' \in Seq(Logged)
        BY DEF TypeInv, LogTypes
      <4> QED
        BY <4>1, <4>2, <4>3, <4>4, LogSettles
    <3>3. CASE ~AppendToWal /\ ~SyncWal
      <4>1. UNCHANGED <<engine, wal, walSynced, manifestPossible>>
        BY <2>2, <3>3 DEF WriterStep, LockForWrite, RefuseWrite, PrepareInPlace,
           PrepareRotating, RefuseSequence, ApplyWrite
      <4> QED
        BY <4>1, LogStands
    <3> QED
      BY <3>1, <3>2, <3>3
  <2>3. CASE WorkerStep
    <3>1. CASE ReclaimWal
      BY <3>1, ReclaimSettlesLog
    <3>2. CASE BuildSstable \/ PublishManifest \/ MergeSstables
      BY <2>1, <3>2, SettlingSteps, LogStands, LogIsCovered
    <3>3. CASE CommitManifest
      <4>1. /\ worker.pc = "commit" /\ UNCHANGED <<engine, manifest, wal, walSynced>>
            /\ manifestPossible' = manifestPossible \cup {EditedManifest}
        BY <3>3 DEF CommitManifest
      <4>2. manifestPossible = {manifest}
        BY <4>1 DEF SlotInv, RotateInv, IdleWorker, GenInv, ViewInv
      <4>3. manifest.checkpoint <= EditedManifest.checkpoint
        BY <4>1, EditKeeps
      <4>4. /\ manifest.checkpoint \in Int
            /\ EditedManifest.checkpoint \in Int
        <5>1. manifest.checkpoint \in Int
          BY <4>2, LogNumbered
        <5>2. EditedManifest \in manifestPossible'
          BY <4>1
        <5>3. EditedManifest.checkpoint \in Value
          BY <5>2 DEF TypeInv, ManifestTypes, IsManifest
        <5> QED
          BY <5>1, <5>3, SequenceAssumption DEF Value, Absent
      <4>5. \A s \in Numbered :
               s <= manifest.checkpoint => s <= EditedManifest.checkpoint
        <5>1. \A s \in Numbered : s \in Int
          BY DEF Numbered
        <5> QED
          BY <4>3, <4>4, <5>1
      <4>6. CoveredSequences' = CoveredSequences
        BY <4>1, <4>2, <4>5 DEF CoveredSequences, Numbered
      <4>7. UNCHANGED <<LogNumbers, SettledNumbers>>
        BY <4>1, <4>6
        DEF LogNumbers, SettledNumbers, SequencesOf, WalRecords, SyncedRecords
      <4> QED
        BY <4>1, <4>6, <4>7 DEF ReplayLog!vars, LogNumbers, SettledNumbers
    <3>4. CASE \/ PopTask \/ ClearSlot \/ SkipCompaction \/ PlanCompaction
               \/ FailWorker \/ ExitWorker
      <4>1. UNCHANGED <<engine, wal, walSynced, manifestPossible>>
        BY <3>4 DEF PopTask, ClearSlot, SkipCompaction, PlanCompaction,
           FailWorker, ExitWorker
      <4> QED
        BY <4>1, LogStands
    <3> QED
      BY <2>3, <3>1, <3>2, <3>3, <3>4 DEF WorkerStep
  <2>4. ASSUME NEW r \in Readers, ReaderStep(r) PROVE UNCHANGED ReplayLog!vars
    BY <2>4, ReaderFrame, LogStands
  <2>5. CASE LifecycleStep
    <3>1. CASE BeginShutdown \/ FinalFlush \/ JoinWorker
      <4>1. /\ UNCHANGED <<wal, walSynced, manifestPossible>>
            /\ engine # "down" /\ engine' # "down"
        BY <3>1 DEF BeginShutdown, FinalFlush, JoinWorker
      <4> QED
        BY <4>1, LogStands
    <3>2. ASSUME NEW kind \in CrashKinds, Crash(kind) PROVE ReplayLog!Next
      BY <3>2, KillStopsLog, PowerLossStopsLog
    <3>3. CASE Open
      <4>1. /\ engine = "down" /\ engine' = "open"
            /\ UNCHANGED <<wal, walSynced, manifestPossible>>
        BY <3>3 DEF Open
      <4>2. ReplayLog!Open
        BY <4>1, NumbersFrame DEF ReplayLog!Open, LogNumbers, SettledNumbers
      <4> QED
        BY <4>2 DEF ReplayLog!Next
    <3> QED
      BY <2>5, <3>1, <3>2, <3>3 DEF LifecycleStep
  <2>6. CASE UNCHANGED vars
    BY <2>6, LogStands DEF vars
  <2> QED
    BY <2>2, <2>3, <2>4, <2>5, <2>6 DEF Next
<1>4. TypeInv /\ SlotInv /\ LogInv /\ GenInv /\ CoverInv /\ CheckpointInv
         /\ [Next]_vars => CheckpointInv'
  BY CheckpointSteps
<1> QED
  BY <1>1, <1>2, <1>3, <1>4, TypeInvIsInvariant, SlotInvIsInvariant,
     LogInvIsInvariant, GenInvIsInvariant, CoverInvIsInvariant, PTL
  DEF Spec, UsesWalStore, ReplayLog!Spec
=============================================================================
