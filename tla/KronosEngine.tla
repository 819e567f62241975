---------------------------- MODULE KronosEngine ----------------------------
(***************************************************************************)
(* The data path of kronos::KronosEngine: foreground writers, the active   *)
(* and the immutable Memtable, the WAL, the MANIFEST, the SSTables, the    *)
(* background worker that flushes and compacts, readers, shutdown, crash   *)
(* and recovery.                                                           *)
(*                                                                         *)
(* Every section the code runs under state_mutex_ or manifest_mutex_, and  *)
(* every system call whose effect survives a crash, is one action.  The    *)
(* writer that holds write_mutex_ is the value of `writer`: put() and      *)
(* remove() hold the mutex from their first line to their last.            *)
(***************************************************************************)
EXTENDS Compaction, Sequences

CONSTANTS
    Readers,        \* the threads that call get()
    MaxSequence,    \* UINT64_MAX: the sequence number that is never assigned
    CrashKinds,     \* the ways the process may stop: "process", "power"
    MaxCrashes      \* bound on the number of stops

ASSUME SequenceAssumption == MaxSequence \in Nat \ {0}
ASSUME CrashAssumption == CrashKinds \subseteq {"process", "power"}
                          /\ MaxCrashes \in Nat

VARIABLES
    engine,             \* "open", "closing", "draining", "stopped" or "down"
    active,             \* *active_memtable_; {} when it is empty or null
    immutable,          \* *immutable_memtable_; {} when the slot is clear
    flushQueue,         \* flush_queue_
    backgroundError,    \* background_error_ is set and the queue is closed
    writer,             \* the call that holds write_mutex_
    worker,             \* background_worker_ and its local variables
    nextSequence,       \* wal_.next_sequence_
    wal,                \* the complete records of the WAL file, in file order
    walSynced,          \* how many of them an fsync covers
    manifest,           \* manifest_: live_files_ and persisted_through_
    manifestDisk,       \* the MANIFEST file
    manifestPossible,   \* what it may be after a power loss
    sstables,           \* the *.sst files of db_path_ and their records
    nextSstableId,      \* next_sstable_id_
    reader,             \* the get() of each reader
    candidates,         \* history: the values its key held during that get()
    crashes             \* how many times the process stopped

manifests == <<manifestDisk, manifestPossible>>
disk == <<wal, walSynced, manifests, sstables>>
memory == <<active, immutable, flushQueue>>
readVars == <<reader, candidates>>
vars == <<engine, memory, backgroundError, writer, worker, nextSequence, disk,
          manifest, nextSstableId, readVars, crashes>>

NoCheckpoint == -1

EmptyManifest == [files |-> {}, checkpoint |-> NoCheckpoint]

IdleWriter == [pc |-> "idle", key |-> Absent, operation |-> "PUT",
               sequence |-> Absent, rotate |-> FALSE]

IdleWorker == [pc |-> "idle", task |-> {}, remove |-> {}, add |-> {}]

ExitedWorker == [IdleWorker EXCEPT !.pc = "exited"]

IdleReader == [pc |-> "idle", key |-> Absent, live |-> {}, result |-> Absent]

WrittenRecord == [key |-> writer.key, sequence |-> writer.sequence,
                  operation |-> writer.operation]

\* The records of the WAL file, and those an fsync has made durable.
WalRecords == {wal[i] : i \in DOMAIN wal}
SyncedRecords == {wal[i] : i \in 1..walSynced}

\* The records of the SSTables that a MANIFEST declares live.
RecordsOf(files) == UNION {sstables[f.path] : f \in files}

\* What readers can find: the two Memtables and the published live files.
VisibleRecords == active \cup immutable \cup RecordsOf(manifest.files)

\* Mutation: the record at the checkpoint is replayed too.
FromCheckpoint(checkpoint, records) == {r \in records : checkpoint <= r.sequence}

\* The checkpoint covers every record up to it, so replay starts after it.
After(checkpoint, records) == {r \in records : checkpoint < r.sequence}

\* What reclaimThrough() keeps of a log.  recover() has just been through it, so
\* the records are in order and those the checkpoint covers come first.
Beyond(checkpoint, log) ==
    LET covered == {i \in DOMAIN log : log[i].sequence <= checkpoint}
    IN  SubSeq(log, Cardinality(covered) + 1, Len(log))

\* One past the last record of a log, which Wal::recover() restores.
SequenceAfter(log) == IF log = <<>> THEN 0 ELSE log[Len(log)].sequence + 1

AtLeast(m, n) == IF m < n THEN n ELSE m

-----------------------------------------------------------------------------
(* Foreground writes *)

\* put(k, ...) or remove(k) acquires write_mutex_.  Whether the record would
\* push a non-empty active Memtable past its target depends on byte counts.
LockForWrite(k, operation, rotate) ==
    /\ engine # "down"
    /\ writer.pc = "idle"
    /\ rotate => active # {}
    /\ writer' = [pc |-> "prepare", key |-> k, operation |-> operation,
                  sequence |-> Absent, rotate |-> rotate]
    /\ UNCHANGED <<engine, memory, backgroundError, worker, nextSequence, disk,
                   manifest, nextSstableId, readVars, crashes>>

MayWrite == engine = "open" /\ ~backgroundError

\* prepareForWriteLocked() throws, at once or when a wait for the slot ends.
RefuseWrite ==
    /\ writer.pc = "prepare"
    /\ ~MayWrite
    /\ writer' = IdleWriter
    /\ UNCHANGED <<engine, memory, backgroundError, worker, nextSequence, disk,
                   manifest, nextSstableId, readVars, crashes>>

PrepareInPlace ==
    /\ writer.pc = "prepare"
    /\ MayWrite
    /\ ~writer.rotate
    /\ writer' = [writer EXCEPT !.pc = "append"]
    /\ UNCHANGED <<engine, memory, backgroundError, worker, nextSequence, disk,
                   manifest, nextSstableId, readVars, crashes>>

\* Mutation: the frozen Memtable is not queued.
PrepareWithoutPush ==
    /\ writer.pc = "prepare"
    /\ MayWrite
    /\ writer.rotate
    /\ immutable = {}
    /\ immutable' = active
    /\ active' = {}
    /\ writer' = [writer EXCEPT !.pc = "append"]
    /\ UNCHANGED <<engine, flushQueue, backgroundError, worker, nextSequence,
                   disk, manifest, nextSstableId, readVars, crashes>>

\* Backpressure: with the slot occupied the writer sleeps, and keeps the mutex.
PrepareRotating ==
    /\ writer.pc = "prepare"
    /\ MayWrite
    /\ writer.rotate
    /\ immutable = {}
    /\ immutable' = active
    /\ active' = {}
    /\ flushQueue' = Append(flushQueue, active)
    /\ writer' = [writer EXCEPT !.pc = "append"]
    /\ UNCHANGED <<engine, backgroundError, worker, nextSequence, disk,
                   manifest, nextSstableId, readVars, crashes>>

\* Mutation: the last sequence number is given out.
AppendWithoutLimit ==
    /\ writer.pc = "append"
    /\ writer' = [writer EXCEPT !.pc = "fsync", !.sequence = nextSequence]
    /\ wal' = Append(wal, [key |-> writer.key, sequence |-> nextSequence,
                           operation |-> writer.operation])
    /\ UNCHANGED <<engine, memory, backgroundError, worker, nextSequence,
                   walSynced, manifests, sstables, manifest, nextSstableId,
                   readVars, crashes>>

\* Wal::writeRecord() up to its fsync: the record is in the file.
AppendToWal ==
    /\ writer.pc = "append"
    /\ nextSequence < MaxSequence
    /\ writer' = [writer EXCEPT !.pc = "fsync", !.sequence = nextSequence]
    /\ wal' = Append(wal, [key |-> writer.key, sequence |-> nextSequence,
                           operation |-> writer.operation])
    /\ UNCHANGED <<engine, memory, backgroundError, worker, nextSequence,
                   walSynced, manifests, sstables, manifest, nextSstableId,
                   readVars, crashes>>

\* "WAL sequence space exhausted"
RefuseSequence ==
    /\ writer.pc = "append"
    /\ nextSequence = MaxSequence
    /\ writer' = IdleWriter
    /\ UNCHANGED <<engine, memory, backgroundError, worker, nextSequence, disk,
                   manifest, nextSstableId, readVars, crashes>>

\* Mutation: the sequence number is not consumed.
SyncWithoutAdvance ==
    /\ writer.pc = "fsync"
    /\ walSynced' = Len(wal)
    /\ writer' = [writer EXCEPT !.pc = "apply"]
    /\ UNCHANGED <<engine, memory, backgroundError, worker, nextSequence, wal,
                   manifests, sstables, manifest, nextSstableId, readVars,
                   crashes>>

SyncWal ==
    /\ writer.pc = "fsync"
    /\ walSynced' = Len(wal)
    /\ nextSequence' = writer.sequence + 1
    /\ writer' = [writer EXCEPT !.pc = "apply"]
    /\ UNCHANGED <<engine, memory, backgroundError, worker, wal, manifests,
                   sstables, manifest, nextSstableId, readVars, crashes>>

InProgress(r) == reader[r].pc \in {"memory", "manifest", "files"}

\* The WAL-backed record enters the active Memtable and the call returns.
ApplyWrite ==
    LET value == ValueOf({WrittenRecord})
    IN  /\ writer.pc = "apply"
        /\ MemtableAccepts(active, WrittenRecord)
        /\ active' = MemtablePut(active, WrittenRecord)
        /\ writer' = IdleWriter
        /\ candidates' = [r \in Readers |->
                            IF InProgress(r) /\ reader[r].key = writer.key
                                THEN candidates[r] \cup {value}
                                ELSE candidates[r]]
        /\ UNCHANGED <<engine, immutable, flushQueue, backgroundError, worker,
                       nextSequence, disk, manifest, nextSstableId, reader,
                       crashes>>

-----------------------------------------------------------------------------
(* The background worker *)

\* Mutation: existing files are not looked for.
NextIdUnchecked(level) == nextSstableId

\* Ids restart at 1 in every process; a name that exists is never reused.
AllocatedId(level) ==
    CHOOSE id \in nextSstableId .. nextSstableId + Cardinality(DOMAIN sstables) :
        /\ <<level, id>> \notin DOMAIN sstables
        /\ \A j \in nextSstableId .. id - 1 : <<level, j>> \in DOMAIN sstables

AllocatedPath(level) == <<level, AllocatedId(level)>>

WithSstable(path, table) ==
    [p \in DOMAIN sstables \cup {path} |->
        IF p = path THEN table ELSE sstables[p]]

PopTask ==
    /\ worker.pc = "idle"
    /\ flushQueue # <<>>
    /\ worker' = [IdleWorker EXCEPT !.pc = "build", !.task = Head(flushQueue)]
    /\ flushQueue' = Tail(flushQueue)
    /\ UNCHANGED <<engine, active, immutable, backgroundError, writer,
                   nextSequence, disk, manifest, nextSstableId, readVars,
                   crashes>>

\* An fsync of the directory, which the files share, settles the last rename.
DirectorySynced ==
    /\ manifestPossible' = {manifestDisk}
    /\ manifestDisk' = manifestDisk

\* The SSTable is complete and durable before the MANIFEST may name it.
BuildSstable ==
    LET path == AllocatedPath(0)
    IN  /\ worker.pc = "build"
        /\ sstables' = WithSstable(path, worker.task)
        /\ nextSstableId' = path[2] + 1
        /\ worker' = [worker EXCEPT !.pc = "commit",
                                    !.add = {MetadataFor(path, worker.task)}]
        /\ DirectorySynced
        /\ UNCHANGED <<engine, memory, backgroundError, writer, nextSequence,
                       wal, walSynced, manifest, readVars, crashes>>

\* Mutation: the checkpoint covers every write logged so far.
EditCoveringTheLog ==
    [files |-> (manifest.files \ worker.remove) \cup worker.add,
     checkpoint |-> IF worker.task = {} THEN manifest.checkpoint
                    ELSE nextSequence - 1]

\* Mutation: an edit without a checkpoint clears the old one.
EditResettingCheckpoint ==
    [files |-> (manifest.files \ worker.remove) \cup worker.add,
     checkpoint |-> IF worker.task = {} THEN NoCheckpoint
                    ELSE HighestSequence(worker.task)]

\* A flush carries the highest sequence of its Memtable, a compaction none.
EditedManifest ==
    [files |-> (manifest.files \ worker.remove) \cup worker.add,
     checkpoint |-> IF worker.task = {} THEN manifest.checkpoint
                    ELSE HighestSequence(worker.task)]

\* What Manifest::applyEdit() throws on.
EditIsValid ==
    /\ worker.remove \subseteq manifest.files
    /\ \A f \in worker.add, g \in manifest.files \ worker.remove : f.path # g.path
    /\ EditedManifest.checkpoint >= manifest.checkpoint

\* The worker takes manifest_mutex_ and renames the new MANIFEST into place.
CommitManifest ==
    /\ worker.pc = "commit"
    /\ EditIsValid
    /\ manifestDisk' = EditedManifest
    /\ manifestPossible' = manifestPossible \cup {EditedManifest}
    /\ worker' = [worker EXCEPT !.pc = "publish"]
    /\ UNCHANGED <<engine, memory, backgroundError, writer, nextSequence, wal,
                   walSynced, sstables, manifest, nextSstableId, readVars,
                   crashes>>

\* Mutation: the directory is not fsynced.
PublishUnsettled ==
    /\ worker.pc = "publish"
    /\ manifest' = EditedManifest
    /\ worker' = IF worker.task = {} THEN IdleWorker
                 ELSE [worker EXCEPT !.pc = "clear"]
    /\ UNCHANGED <<engine, memory, backgroundError, writer, nextSequence, disk,
                   nextSstableId, readVars, crashes>>

\* The directory is fsynced, the in-memory view follows and manifest_mutex_ is
\* released.
PublishManifest ==
    /\ worker.pc = "publish"
    /\ DirectorySynced
    /\ manifest' = EditedManifest
    /\ worker' = IF worker.task = {} THEN IdleWorker
                 ELSE [worker EXCEPT !.pc = "clear"]
    /\ UNCHANGED <<engine, memory, backgroundError, writer, nextSequence, wal,
                   walSynced, sstables, nextSstableId, readVars, crashes>>

ClearSlot ==
    /\ worker.pc = "clear"
    /\ immutable = worker.task
    /\ immutable' = {}
    /\ worker' = [worker EXCEPT !.pc = "reclaim"]
    /\ UNCHANGED <<engine, active, flushQueue, backgroundError, writer,
                   nextSequence, disk, manifest, nextSstableId, readVars,
                   crashes>>

\* Mutation: the whole log is dropped, newer records included.
ReclaimEverything ==
    /\ worker.pc = "reclaim"
    /\ writer.pc = "idle"
    /\ wal' = <<>>
    /\ walSynced' = 0
    /\ nextSequence' = AtLeast(nextSequence, SequenceAfter(wal))
    /\ worker' = [IdleWorker EXCEPT !.pc = "pick"]
    /\ UNCHANGED <<engine, memory, backgroundError, writer, manifests,
                   sstables, manifest, nextSstableId, readVars, crashes>>

\* Wal::reclaimThrough(), under write_mutex_.
ReclaimWal ==
    /\ worker.pc = "reclaim"
    /\ writer.pc = "idle"
    /\ wal' = Beyond(HighestSequence(worker.task), wal)
    /\ walSynced' = Len(wal')
    /\ nextSequence' = AtLeast(nextSequence, SequenceAfter(wal))
    /\ worker' = [IdleWorker EXCEPT !.pc = "pick"]
    /\ UNCHANGED <<engine, memory, backgroundError, writer, manifests,
                   sstables, manifest, nextSstableId, readVars, crashes>>

\* maybeCompact() returns early: a flush is waiting or there are few L0 files.
SkipCompaction ==
    /\ worker.pc = "pick"
    /\ immutable # {} \/ ~ShouldCompact(manifest.files)
    /\ worker' = IdleWorker
    /\ UNCHANGED <<engine, memory, backgroundError, writer, nextSequence, disk,
                   manifest, nextSstableId, readVars, crashes>>

PlanCompaction ==
    /\ worker.pc = "pick"
    /\ immutable = {}
    /\ ShouldCompact(manifest.files)
    /\ worker' = [worker EXCEPT !.pc = "merge",
                                !.remove = PickCompaction(manifest.files)]
    /\ UNCHANGED <<engine, memory, backgroundError, writer, nextSequence, disk,
                   manifest, nextSstableId, readVars, crashes>>

\* No output file when every surviving record is a droppable tombstone.
MergeSstables ==
    LET path == AllocatedPath(OutputLevel)
        output == Merge(RecordsOf(worker.remove), CanDropTombstones)
    IN  /\ worker.pc = "merge"
        /\ nextSstableId' = path[2] + 1
        /\ sstables' = IF output = {} THEN sstables ELSE WithSstable(path, output)
        /\ worker' = [worker EXCEPT
                        !.pc = "commit",
                        !.add = IF output = {} THEN {}
                                ELSE {MetadataFor(path, output)}]
        /\ IF output = {} THEN UNCHANGED manifests ELSE DirectorySynced
        /\ UNCHANGED <<engine, memory, backgroundError, writer, nextSequence,
                       wal, walSynced, manifest, readVars, crashes>>

\* A disk error: background_error_ is recorded, the queue closed, the loop left.
\* At "publish" the rename is done and the fsync of the directory failed.
FailWorker ==
    /\ worker.pc \in {"build", "commit", "publish", "reclaim", "merge"}
    /\ backgroundError' = TRUE
    /\ worker' = ExitedWorker
    /\ UNCHANGED <<engine, memory, writer, nextSequence, disk, manifest,
                   nextSstableId, readVars, crashes>>

\* wait_and_pop() returns nullopt: the queue is closed and drained.
ExitWorker ==
    /\ worker.pc = "idle"
    /\ engine = "draining"
    /\ flushQueue = <<>>
    /\ worker' = ExitedWorker
    /\ UNCHANGED <<engine, memory, backgroundError, writer, nextSequence, disk,
                   manifest, nextSstableId, readVars, crashes>>

-----------------------------------------------------------------------------
(* get() *)

CallGet(r, k) ==
    /\ engine # "down"
    /\ ~InProgress(r)
    /\ reader' = [reader EXCEPT ![r] = [pc |-> "memory", key |-> k, live |-> {},
                                        result |-> Absent]]
    /\ candidates' = [candidates EXCEPT ![r] =
                        {ValueIn(VisibleRecords, k)}]
    /\ UNCHANGED <<engine, memory, backgroundError, writer, worker, nextSequence,
                   disk, manifest, nextSstableId, crashes>>

\* Mutation: the immutable Memtable is not consulted.
ReadActiveOnly(r) ==
    /\ reader[r].pc = "memory"
    /\ reader' = [reader EXCEPT ![r] =
                    IF Versions(active, reader[r].key) = {}
                        THEN [@ EXCEPT !.pc = "manifest"]
                        ELSE [@ EXCEPT !.pc = "returned",
                                       !.result = ValueIn(active, reader[r].key)]]
    /\ UNCHANGED <<engine, memory, backgroundError, writer, worker, nextSequence,
                   disk, manifest, nextSstableId, candidates, crashes>>

\* The active Memtable, then the immutable one, under or right after the same
\* state_mutex_ section; a frozen Memtable does not change in between.
ReadMemory(r) ==
    LET k == reader[r].key
        table == IF Versions(active, k) # {} THEN active ELSE immutable
    IN  /\ reader[r].pc = "memory"
        /\ reader' = [reader EXCEPT ![r] =
                        IF Versions(table, k) = {}
                            THEN [@ EXCEPT !.pc = "manifest"]
                            ELSE [@ EXCEPT !.pc = "returned",
                                           !.result = ValueIn(table, k)]]
        /\ UNCHANGED <<engine, memory, backgroundError, writer, worker,
                       nextSequence, disk, manifest, nextSstableId, candidates,
                       crashes>>

\* A copy of the live files, while nobody else holds manifest_mutex_.
ReadManifest(r) ==
    /\ reader[r].pc = "manifest"
    /\ worker.pc # "publish"
    /\ reader' = [reader EXCEPT ![r].pc = "files", ![r].live = manifest.files]
    /\ UNCHANGED <<engine, memory, backgroundError, writer, worker, nextSequence,
                   disk, manifest, nextSstableId, candidates, crashes>>

\* The newest version among the snapshot's files whose range holds the key.
ReadFiles(r) ==
    LET k == reader[r].key
        consulted == {f \in reader[r].live : InRange(k, f)}
    IN  /\ reader[r].pc = "files"
        /\ reader' = [reader EXCEPT
                        ![r] = [@ EXCEPT !.pc = "returned", !.live = {},
                                         !.result = ValueIn(RecordsOf(consulted), k)]]
        /\ UNCHANGED <<engine, memory, backgroundError, writer, worker,
                       nextSequence, disk, manifest, nextSstableId, candidates,
                       crashes>>

-----------------------------------------------------------------------------
(* shutdown() *)

BeginShutdown ==
    /\ engine = "open"
    /\ engine' = "closing"
    /\ UNCHANGED <<memory, backgroundError, writer, worker, nextSequence, disk,
                   manifest, nextSstableId, readVars, crashes>>

\* Mutation: the queue is closed without a final flush.
CloseWithoutFlush ==
    /\ engine = "closing"
    /\ writer.pc = "idle"
    /\ immutable = {} \/ backgroundError
    /\ engine' = "draining"
    /\ UNCHANGED <<memory, backgroundError, writer, worker, nextSequence, disk,
                   manifest, nextSstableId, readVars, crashes>>

\* Past the write_mutex_ barrier and the wait for the slot: the final Memtable
\* is frozen and queued unless maintenance failed, then the queue is closed.
FinalFlush ==
    /\ engine = "closing"
    /\ writer.pc = "idle"
    /\ immutable = {} \/ backgroundError
    /\ IF ~backgroundError /\ active # {}
           THEN /\ immutable' = active
                /\ active' = {}
                /\ flushQueue' = Append(flushQueue, active)
           ELSE UNCHANGED memory
    /\ engine' = "draining"
    /\ UNCHANGED <<backgroundError, writer, worker, nextSequence, disk, manifest,
                   nextSstableId, readVars, crashes>>

JoinWorker ==
    /\ engine = "draining"
    /\ worker.pc = "exited"
    /\ engine' = "stopped"
    /\ UNCHANGED <<memory, backgroundError, writer, worker, nextSequence, disk,
                   manifest, nextSstableId, readVars, crashes>>

-----------------------------------------------------------------------------
(* Crash and recovery *)

\* The process stops: all but the files is lost.  A kill leaves every byte that
\* was written; a power loss may also take records that no fsync covers, and
\* undo a rename of the MANIFEST that no fsync of the directory covers.
Crash(kind) ==
    /\ engine # "down"
    /\ crashes < MaxCrashes
    /\ crashes' = crashes + 1
    /\ \E n \in (IF kind = "power" THEN walSynced ELSE Len(wal)) .. Len(wal) :
          /\ wal' = SubSeq(wal, 1, n)
          /\ walSynced' = IF kind = "power" THEN n ELSE walSynced
    /\ IF kind = "power"
           THEN /\ manifestDisk' \in manifestPossible
                /\ manifestPossible' = {manifestDisk'}
           ELSE UNCHANGED manifests
    /\ engine' = "down"
    /\ active' = {}
    /\ immutable' = {}
    /\ flushQueue' = <<>>
    /\ backgroundError' = FALSE
    /\ writer' = IdleWriter
    /\ worker' = IdleWorker
    /\ nextSequence' = 0
    /\ manifest' = EmptyManifest
    /\ nextSstableId' = 1
    /\ reader' = [r \in Readers |-> IdleReader]
    /\ candidates' = [r \in Readers |-> {}]
    /\ UNCHANGED sstables

StrictlyIncreasing(log) ==
    \A i, j \in DOMAIN log : i < j => log[i].sequence < log[j].sequence

\* What the constructor, validateManifestSstables() and recover() throw on.
Recoverable ==
    /\ \A f \in manifestDisk.files : f.path \in DOMAIN sstables
    /\ StrictlyIncreasing(wal)
    /\ \A i \in DOMAIN wal : wal[i].sequence < MaxSequence
    /\ manifestDisk.checkpoint < MaxSequence

\* The Memtable that replays the records of the log beyond the checkpoint.
Replayed == Merge(After(manifestDisk.checkpoint, WalRecords), FALSE)

\* Mutation: ensureNextSequenceAtLeast() is not called.
OpenFromLogOnly ==
    /\ engine = "down"
    /\ Recoverable
    /\ engine' = "open"
    /\ manifest' = manifestDisk
    /\ active' = Replayed
    /\ nextSequence' = SequenceAfter(wal)
    /\ UNCHANGED <<immutable, flushQueue, backgroundError, writer, worker, disk,
                   nextSstableId, readVars, crashes>>

Open ==
    /\ engine = "down"
    /\ Recoverable
    /\ engine' = "open"
    /\ manifest' = manifestDisk
    /\ active' = Replayed
    /\ nextSequence' = AtLeast(SequenceAfter(wal), manifestDisk.checkpoint + 1)
    /\ UNCHANGED <<immutable, flushQueue, backgroundError, writer, worker, disk,
                   nextSstableId, readVars, crashes>>

-----------------------------------------------------------------------------
Init ==
    /\ engine = "down"
    /\ active = {}
    /\ immutable = {}
    /\ flushQueue = <<>>
    /\ backgroundError = FALSE
    /\ writer = IdleWriter
    /\ worker = IdleWorker
    /\ nextSequence = 0
    /\ wal = <<>>
    /\ walSynced = 0
    /\ manifest = EmptyManifest
    /\ manifestDisk = EmptyManifest
    /\ manifestPossible = {EmptyManifest}
    /\ sstables = [p \in {} |-> {}]
    /\ nextSstableId = 1
    /\ reader = [r \in Readers |-> IdleReader]
    /\ candidates = [r \in Readers |-> {}]
    /\ crashes = 0

WriterStep ==
    \/ \E k \in Keys, operation \in Operations, rotate \in BOOLEAN :
          LockForWrite(k, operation, rotate)
    \/ RefuseWrite
    \/ PrepareInPlace
    \/ PrepareRotating
    \/ AppendToWal
    \/ RefuseSequence
    \/ SyncWal
    \/ ApplyWrite

WorkerStep ==
    \/ PopTask
    \/ BuildSstable
    \/ CommitManifest
    \/ PublishManifest
    \/ ClearSlot
    \/ ReclaimWal
    \/ SkipCompaction
    \/ PlanCompaction
    \/ MergeSstables
    \/ FailWorker
    \/ ExitWorker

ReaderStep(r) ==
    \/ \E k \in Keys : CallGet(r, k)
    \/ ReadMemory(r)
    \/ ReadManifest(r)
    \/ ReadFiles(r)

LifecycleStep ==
    \/ BeginShutdown
    \/ FinalFlush
    \/ JoinWorker
    \/ \E kind \in CrashKinds : Crash(kind)
    \/ Open

Next ==
    \/ WriterStep
    \/ WorkerStep
    \/ \E r \in Readers : ReaderStep(r)
    \/ LifecycleStep

Spec == Init /\ [][Next]_vars
-----------------------------------------------------------------------------
(* Properties *)

Value == {Absent} \cup 0 .. MaxSequence - 1

Manifests == [files : SUBSET Metadata, checkpoint : Value]

\* Every variable holds what its C++ counterpart can hold.
TypeOK ==
    /\ engine \in {"open", "closing", "draining", "stopped", "down"}
    /\ active \in SUBSET Record
    /\ immutable \in SUBSET Record
    /\ flushQueue \in Seq(SUBSET Record)
    /\ backgroundError \in BOOLEAN
    /\ writer \in [pc : {"idle", "prepare", "append", "fsync", "apply"},
                   key : Keys \cup {Absent}, operation : Operations,
                   sequence : Value, rotate : BOOLEAN]
    /\ worker \in [pc : {"idle", "build", "commit", "publish", "clear",
                         "reclaim", "pick", "merge", "exited"},
                   task : SUBSET Record, remove : SUBSET Metadata,
                   add : SUBSET Metadata]
    /\ nextSequence \in 0 .. MaxSequence
    /\ wal \in Seq(Record)
    /\ walSynced \in 0 .. Len(wal)
    /\ manifest \in Manifests
    /\ manifestDisk \in Manifests
    /\ manifestPossible \subseteq Manifests
    /\ DOMAIN sstables \subseteq Path
    /\ \A p \in DOMAIN sstables : sstables[p] \in SUBSET Record
    /\ nextSstableId \in Nat \ {0}
    /\ reader \in [Readers -> [pc : {"idle", "memory", "manifest", "files",
                                     "returned"},
                               key : Keys \cup {Absent}, live : SUBSET Metadata,
                               result : Value]]
    /\ candidates \in [Readers -> SUBSET Value]
    /\ crashes \in 0 .. MaxCrashes

\* What Open would rebuild after the worst stop that CrashKinds allows.
SurvivingWal == IF "power" \in CrashKinds THEN SyncedRecords ELSE WalRecords

SurvivingManifests ==
    IF "power" \in CrashKinds THEN manifestPossible ELSE {manifestDisk}

RecoveredRecords(m) == RecordsOf(m.files) \cup After(m.checkpoint, SurvivingWal)

\* The record whose caller has no answer yet.
InFlight == IF writer.pc \in {"fsync", "apply"} THEN {WrittenRecord} ELSE {}

\* Durability before visibility (README.md:286): for every key, recovery after
\* a stop at this very moment yields the value that get() returns now, whichever
\* MANIFEST the stop leaves, and leaving aside the one write that is not
\* acknowledged.  It relates the Memtables, the
\* published MANIFEST and the readers' rule "active over immutable over disk"
\* to the WAL, the MANIFEST file and the replay of recover().
DurableBeforeVisible ==
    engine # "down" =>
        \A k \in Keys, m \in SurvivingManifests :
            ValueIn(VisibleRecords, k) = ValueIn(RecoveredRecords(m) \ InFlight, k)

\* A reader stops at the first generation that knows the key, so every record
\* of the active Memtable must be newer than every immutable one and those
\* newer than the SSTables, unless the flush of the Memtable is already
\* published (the ordering comment of KronosEngine::get, engine.cpp:279-291).
GenerationsAreOrdered ==
    /\ \A r \in active, s \in immutable \cup RecordsOf(manifest.files) :
            s.sequence < r.sequence
    /\ \A r \in immutable, s \in RecordsOf(manifest.files) :
            s.sequence < r.sequence \/ manifest.checkpoint = HighestSequence(immutable)

\* No sequence number is given out twice: the next one is above every record
\* in the WAL and in every SSTable file, orphans of failed or interrupted
\* flushes included (recover(), engine.cpp:792-813, and Wal::recover()).
SequencesAreFresh ==
    engine # "down" =>
        \A r \in (WalRecords \ InFlight) \cup RecordsOf({[path |-> p] : p \in DOMAIN sstables}) :
            r.sequence < nextSequence

\* Whenever the process is stopped the database can be opened again: no missing
\* SSTable, no regression in the WAL (recover(), Wal::recover()).
DatabaseCanBeOpened == engine = "down" => Recoverable

\* The files of the bottom level never share a key, which is what lets the
\* policy drop tombstones (compaction_policy.cpp:170-177 and 199-215).
BottomLevelIsDisjoint ==
    \A f, g \in AtLevel(manifestDisk.files, 1) :
        f # g => ~RangesOverlap(f.smallest_key, f.largest_key,
                                g.smallest_key, g.largest_key)

\* Manifest::applyEdit() never has a reason to throw: the inputs of a compaction
\* are still live and no checkpoint moves backwards (manifest.cpp:568-617).
ManifestEditsAreValid == worker.pc = "commit" => EditIsValid

\* An occupied slot is always somebody's job: queued, or the worker's current
\* task, or left behind by a worker that recorded an error.  Otherwise writers
\* and shutdown() would wait for it forever (engine.cpp:187-191, 569-571).
SlotIsScheduled ==
    \/ immutable = {} /\ flushQueue = <<>>
    \/ immutable # {} /\ flushQueue = <<immutable>> /\ worker.pc # "clear"
    \/ /\ immutable # {} /\ flushQueue = <<>>
       /\ \/ worker.task = immutable
             /\ worker.pc \in {"build", "commit", "publish", "clear"}
          \/ backgroundError

\* A graceful shutdown leaves nothing to replay: everything that was written is
\* in live SSTables under the checkpoint (shutdown(), engine.cpp:906-944).
ShutdownPersistsEverything ==
    engine = "stopped" /\ ~backgroundError =>
        /\ VisibleRecords = RecordsOf(manifestDisk.files)
        /\ After(manifestDisk.checkpoint, WalRecords) = {}

\* A get() returns a value its key held between the call and the return, though
\* it looks at the Memtables and at the files at different moments and flushes,
\* compactions and writes go on in between (KronosEngine::get).
ReadsAreLinearizable ==
    \A r \in Readers :
        reader[r].pc = "returned" => reader[r].result \in candidates[r]

\* An SSTable file is written once: no later flush or compaction, not even one
\* of a process that counts ids from 1 again, changes a file that readers and
\* their cache know by its path (allocateSstablePath(), getSstableReader()).
SstablesAreImmutable ==
    [][\A p \in DOMAIN sstables :
          p \in DOMAIN sstables' /\ sstables'[p] = sstables[p]]_vars

\* A durable WAL record goes away only when every MANIFEST that a stop may leave
\* covers it with its checkpoint (reclaimThrough() after applyEdit(),
\* engine.cpp:544-600).
WalIsReclaimedBehindCheckpoint ==
    [][\A r \in SyncedRecords, m \in manifestPossible :
          r \in WalRecords' \/ r.sequence <= m.checkpoint]_vars

-----------------------------------------------------------------------------
(* The MANIFEST as the engine uses it. *)

LiveFiles == INSTANCE ManifestStore WITH
    open <- engine # "down",
    view <- manifest,
    disk <- manifestDisk,
    possible <- manifestPossible

\* The engine asks of the MANIFEST what Manifest has been shown to provide: an
\* atomic replacement that is in doubt until the directory fsync, believed and
\* built upon only afterwards (flushMemtable(), maybeCompact(), recover()).
UsesManifestStore == LiveFiles!Spec

-----------------------------------------------------------------------------
(* The log as the engine uses it. *)

SequencesOf(records) == {r.sequence : r \in records}

\* What every MANIFEST covers that a stop may leave.
CoveredSequences ==
    {s \in 0 .. MaxSequence - 1 : \A m \in manifestPossible : s <= m.checkpoint}

ReplayLog == INSTANCE WalStore WITH
    Numbers <- 0 .. MaxSequence - 1,
    open <- engine # "down",
    log <- SequencesOf(WalRecords) \ CoveredSequences,
    settled <- SequencesOf(SyncedRecords) \ CoveredSequences,
    covered <- CoveredSequences,
    trouble <- FALSE,
    misplaced <- FALSE,
    reliable <- TRUE

\* The engine asks of the log what Wal has been shown to provide: a number is
\* logged above every other one and settled before its write is applied, it is
\* covered when the fsync behind a flush settles the checkpoint, and what a
\* reclamation drops no start would replay (put(), flushMemtable(), recover()).
UsesWalStore == ReplayLog!Spec

-----------------------------------------------------------------------------
(* The abstract store this engine implements. *)

StoredValue(k) ==
    ValueIn(IF engine = "down"
                THEN RecordsOf(manifestDisk.files)
                         \cup After(manifestDisk.checkpoint, WalRecords)
                ELSE VisibleRecords, k)

ReadStatus(r) ==
    [status |-> CASE InProgress(r) -> "running"
                  [] reader[r].pc = "returned" -> "returned"
                  [] OTHER -> "idle",
     key |-> reader[r].key,
     candidates |-> IF reader[r].pc = "returned" THEN {reader[r].result}
                    ELSE candidates[r]]

Store == INSTANCE KronosStore WITH
    Values <- 0 .. MaxSequence - 1,
    store <- [k \in Keys |-> StoredValue(k)],
    pending <- {[key |-> r.key, value |-> ValueOf({r})] : r \in InFlight},
    reads <- [r \in Readers |-> ReadStatus(r)]

\* The engine is a durable, linearizable map: every step of every thread, every
\* crash and every recovery is a step of KronosStore or changes nothing a caller
\* can see.
ImplementsStore == Store!Spec
=============================================================================
