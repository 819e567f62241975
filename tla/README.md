# A verification development for Kronos

Kronos is an embedded LSM-tree key-value store in C++: a write goes to a
write-ahead log and to a sorted Memtable, a full Memtable is frozen and flushed
by one background thread into an immutable SSTable, SSTables are merged by
leveled compaction (L0 and L1), and a MANIFEST names the files that are live.
This directory holds TLA+ modules that model the engine from its source, the
TLC configurations that check them on small instances, and theorems about them
that TLAPS checks for every instance.

Paths below are relative to the root of the repository's copy (`src/`), so the
engine is `src/src/engine.cpp` and its header `src/include/kronos/engine.hpp`.

## 1. Inventory

| Component | State | Operations | Correct when |
|---|---|---|---|
| `KronosEngine` (`engine.cpp`) | `active_memtable_`, `immutable_memtable_` (one slot), `flush_queue_`, `write_mutex_`, `state_mutex_`, `manifest_mutex_`, `immutable_cleared_cv_`, `shutting_down_`, `background_error_`, `background_worker_`, `next_sstable_id_`, reader and block caches | `put`, `remove`, `get`, rotation, `flushMemtable`, `maybeCompact`, `recover`, `shutdown` | an acknowledged write is never lost; what is visible can be recovered; `get` is linearizable; shutdown returns and leaves nothing behind; nobody waits forever |
| Flush queue (`thread_safe_queue.hpp`) | a deque, a closed flag, its own mutex and condition variable | `push`, `wait_and_pop`, `try_pop`, `shutdown` | accepted work is drained before `nullopt`; nothing is accepted after closing |
| Memtable (`memtable.cpp`) | a sorted map, a byte count, a frozen flag | `put`, `remove`, `lookupEntry`, `freeze`, `would_exceed_target` | newest sequence wins; a frozen table does not change; the byte count is the sum of the entries |
| WAL (`wal.cpp`) | a file (header, records with CRC), `fd_`, `next_sequence_` | `put`, `remove`, `recover`, `reclaimThrough`, `ensureNextSequenceAtLeast` | an acknowledged record is replayed after any crash until a checkpoint covers it; a torn tail is cut and nothing else |
| MANIFEST (`manifest.cpp`) | live files, `persisted_through_`, a text file without a checksum | `applyEdit`, load, `filesAtLevel` | an edit is atomic across crashes; checkpoints do not move back; live files exist |
| SSTable (`sstable.cpp`) | blocks, sparse index, Bloom filter, footer | `SstableBuilder::add/finish`, `SstableReader::get/lookupEntry`, iterator | a stored key is found with its newest record; a file is complete or absent |
| Bloom filter (`bloom_filter.cpp`) | a bit array | `add`, `mayContain` | no false negatives |
| Compaction policy (`compaction_policy.cpp`) | the L0 trigger | `shouldCompact`, `pickCompaction` | L1 stays disjoint; a tombstone is dropped only when nothing older can remain |
| Compactor (`compactor.cpp`) | a heap of table iterators | `compact` | the newest version of each key survives, in key order |
| Config, logger, `main.cpp`, benchmarks | text in, text out | | no part of the protocol |
| `engine 2.cpp` | | | an older copy that the build does not compile |

How the components interact. A foreground call takes `write_mutex_` for its whole
length, makes room under `state_mutex_` (rotating the Memtable and pushing it to
the queue, or sleeping on `immutable_cleared_cv_` while the slot is occupied, with
`write_mutex_` still held), appends to the WAL and fsyncs it, then updates the
active Memtable under `state_mutex_`. The worker pops the frozen table, writes an
SSTable, commits `{add file, checkpoint}` through the MANIFEST under
`manifest_mutex_`, clears the slot under `state_mutex_`, notifies, takes
`write_mutex_` to reclaim the WAL, and possibly compacts. `get` looks at the
Memtables under `state_mutex_`, copies the live files under `manifest_mutex_` and
reads the files under no lock. `shutdown` sets a flag, passes through
`write_mutex_` as a barrier, waits for the slot, pushes the last Memtable, closes
the queue and joins the worker. The constructor validates the MANIFEST against
the files, replays the WAL beyond the checkpoint and starts the worker.

What is hard here, and what `PROJECT.json` lists line by line as hazards:
the lock that a sleeping writer holds and the worker needs; wakeups; the moment
between a check and the update it allows (rotation, shutdown, failure); the three
different moments at which `get` looks at three generations; crashes between the
flush, the MANIFEST commit, the clearing of the slot and the reclamation;
bytes that were written but not fsynced; failures of any of these steps; sequence
numbers and file ids across restarts; tombstones and overlapping files.

## 2. Plan

The order is that of importance: what a caller can lose comes first.

1. `Compaction`: records, tables and the pure algorithms the engine is built
   from (newest-wins, overlap, plan, merge). *Done.*
2. `KronosEngine` over it: the data path with crashes and failures, and
   `KronosStore`, the abstract map it implements. *Done*, with
   `Compaction_proofs`, `KronosEngine_proofs` and `EngineStore_proofs`.
3. `EngineSync`: the threads, locks and wakeups, with fairness and without data.
   *Done*, with `EngineSync_proofs`. It is a module of its own because what it is
   about (who waits for whom, holding what) is lost in the steps `KronosEngine`
   merges, and because its state is small enough for liveness.
4. `Wal`: the log as a file: torn tails, failed appends, the rename and the
   descriptor of a reclamation, the header, against `WalStore`, the log that
   `KronosEngine` relies on. *Done*, with `Wal_proofs`.
5. `Manifest`: temporary file, fsync, rename, directory fsync, and the SSTable that
   an edit adds, against `ManifestStore`, the commit that `KronosEngine` relies on.
   *Done*, with `Manifest_proofs`.
6. `BloomFilter` and `Sstable`: block boundaries, sparse index, filter, footer,
   lookups and iterators, as operators against "the set of the records".
   *Done*, with `Sstable_proofs`.
7. `Tables` over them: the byte count of the Memtable and the rotation it decides,
   the flush, the `Compactor`'s heap against `Merge`, damaged files. *Done*, with
   `Tables_proofs`.

Every safety invariant and every action property that a passing run checks is also
a theorem; what is left to TLC is liveness (section 6).

No module that is proved about declares a RECURSIVE operator.

## 3. Modules and code

### `Compaction`

Constant-level: no variables. A record is `[key, sequence, operation]`; the value
bytes are abstracted by the sequence number of the write that supplied them, so a
stale answer can always be told from a fresh one. A table is the set of its
records. `ValueOf` is the reader's rule (highest sequence wins, a tombstone is no
value); NOT_FOUND and DELETED are one answer, `Absent`, for callers of `get` treat
them alike. `MemtablePut` and `MemtableAccepts` are `put` and `remove` of the
Memtable, which refuse a record that is not newer. `PickCompaction` is the policy's plan (all of L0 and the L1 files
within the envelope of its keys), `Merge` what the compactor writes,
`CanDropTombstones` its rule (always, because the output is L1).

### `KronosEngine`

| Variable | Code |
|---|---|
| `active`, `immutable`, `flushQueue` | `active_memtable_`, `immutable_memtable_`, `flush_queue_` |
| `writer` | the call that holds `write_mutex_`; `put` and `remove` hold it from first line to last, so there is one |
| `worker` | `background_worker_`: where it is, its task, the edit it is about to make |
| `nextSequence`, `wal`, `walSynced` | `next_sequence_`, the records of the log, how many an fsync covers |
| `manifest`, `manifestDisk` | the in-memory view and the MANIFEST file |
| `manifestPossible` | the snapshots a start after a power loss may find, while a rename awaits the fsync of the directory |
| `sstables`, `nextSstableId` | the files of `db_path_`, the id counter that restarts at 1 in every process |
| `reader`, `candidates` | each `get()`, and (history) the values its key held during it |
| `engine`, `backgroundError`, `crashes` | life cycle, `background_error_` with the closed queue, the bound's counter |

One action is one section under `state_mutex_` or `manifest_mutex_`, or one system
call whose effect survives a crash: `LockForWrite`, `PrepareInPlace` /
`PrepareRotating` / `RefuseWrite`, `AppendToWal`, `SyncWal`, `ApplyWrite` for a
writer; `PopTask`, `BuildSstable`, `CommitManifest`, `PublishManifest`,
`ClearSlot`, `ReclaimWal`, `PlanCompaction` / `SkipCompaction`, `MergeSstables`,
`FailWorker`, `ExitWorker` for the worker; `CallGet`, `ReadMemory`,
`ReadManifest`, `ReadFiles` for a reader; `BeginShutdown`, `FinalFlush`,
`JoinWorker`; `Crash` and `Open` (the constructor with `recover()`).

Abstractions: whether a record would push a non-empty Memtable past its byte
target is a free choice (`rotate`), which `Tables` makes by counting; an SSTable is
the set of its records, a compaction `Merge`, which `Tables` shows of the bytes; the
MANIFEST is replaced as `ManifestStore` allows (`UsesManifestStore` is that
refinement, and `Manifest` implements the same specification); the log is used as
`WalStore` allows (`UsesWalStore`, and `Wal` implements it), while an append that
fails, and the rename inside a reclamation, are the business of `Wal`; the two lookups in
the Memtables are one step, because a frozen Memtable does not change and the
pointers are copied in one section. Files that a compaction replaced are never
deleted, as in the code.

### `KronosStore`

What callers may rely on: a map, at most one write without an answer, and for each
reader the values it may return. A crash may keep or drop the unanswered write and
nothing else.

### `EngineSync`

The same engine without data: owner of `write_mutex_`, the slot, the queue and its
closed flag, `shutting_down_`, `background_error_`, and the position of each
writer, of the worker and of each `shutdown()`. A wait on `immutable_cleared_cv_`
is left only by a notification that finds it asleep, and re-evaluates its
predicate; notifications are separate actions, for the code sends them after it
has released `state_mutex_`. `MCEngineSync` adds the symmetry of writers and of
stoppers, which no action or property tells apart; it is used for safety only.

### `WalStore` and `Wal`

`WalStore` is what the log promises: the set of the numbers a start would replay
(`log`), those that no stop takes away (`settled`), those a checkpoint has covered
(`covered`). A number is in doubt from the write to the fsync; a kill takes at most
the last one, a power loss an end of the log without settled numbers; a
reclamation does not show. `reliable` holds until somebody writes behind a failure
(`trouble`), or after a kill in the middle of a reclamation or of the creation of
the log; from then on only what was settled is promised, until a scan finds the log
in order (`Regain`). After a scan that failed half-way the log is `misplaced`: a write
then takes settled numbers away, all behind some point (`Overwrite`). `WalStore`
says nothing about a number below the checkpoint, for no start replays it; that none
is given out again is `SequencesIncrease` and `SequencesAreFresh`. `KronosEngine` uses it
with `misplaced` false: its data path has no failing scans.

`Wal` has the log as pieces of a file, in units of header, payload and CRC, with the two
inodes of a reclamation and what the path names.

| Variable | Code |
|---|---|
| `process` | the constructor at work on a new file, a process that uses the log, one whose constructor threw |
| `header` | `[Magic][Version]`; `"written"` is a header that nobody has fsynced, in a file whose directory entry nobody has fsynced |
| `file`, `position` | the inode of `fd_`, and where `fd_` stands: at the end, or behind `whole` pieces and `part` units where a scan has left it |
| `other`, `link` | the other inode of a replacement; whether the path names the one of `fd_`, for good or until a power loss |
| `nextSequence` | `next_sequence_` |
| `writer`, `worker` | the call that holds `write_mutex_`; how far a reclamation is |
| `checkpoint`, `memtable` | `persisted_through_`; the numbers in the Memtables, written or replayed, the highest of which a flush makes the checkpoint |
| `acknowledged`, `failed`, `exposed`, `atRisk` | history: what was answered; whether something failed that no scan has looked at since; whether the log was written to after that; which records that puts at risk |

*Opening.* `CreateFile` and `CompleteHeader` are the branch of the constructor for a
new file, with its two fsyncs. A kill or an error (`FailCreate`) between header
and fsyncs leaves a `"written"` log. The next constructor finds a file, takes the
other branch (`OpenFile`) and fsyncs neither; the log stays `"written"` until a
reclamation has replaced it, and a power loss may take it with everything in it. What
is acknowledged meanwhile is at risk.

*Scanning.* `Repaired`, `MayCut` and `MayRefuse` are `recover()`: a piece that is torn
and followed by too few bytes is cut off, one followed by enough is a CRC mismatch,
a torn header borrows its lengths from the following record and may go either way.
In a reclamation the scan may also end by an exception: a call fails before `fd_` has
moved (`FailScanEarly`), or at any point of a log in order or not (`FailScan`), the
tail is cut but not fsynced, or `fd_` not moved to the end (`FailRepair`), or the log
is corrupt (`FindCorruption`). Then `next_sequence_` is what the last record read has
made of it, `fd_` stays where it stopped, and writers do not know of it yet: `write_mutex_` is
released first, and `background_error_` set later (`RecordError`).

*Writing.* `WriteRecord` and `FailWrite` append. When `fd_` is inside the file,
`OverwriteRecord` and `FailOverwrite` replace what is there instead: `Ahead` is what
is left in front of the record, with a hole if `fd_` stood behind the end, `Behind`
what is left of the pieces after it, unit by unit, for a record may end inside of
another. What is not read in front of the record is at risk from then on,
whenever it was acknowledged. `Kill` may interrupt either loop, and a power loss may
bring back some of the bytes that were replaced.

`Replayable` is what the file that the path names would be read as, beyond the
checkpoint, and `Promised` what has been acknowledged and is not at risk; they are
`log` and `settled`. In the engine the numbers are those of its records, and covered
is what *every* MANIFEST covers that a stop may leave (`CoveredSequences`).

An fsync that succeeds after one that failed is taken to cover the whole file, a
power loss to leave a prefix of what was appended, a truncation not to be undone by
a later power loss, and bytes not to be, by accident, those they replace. All of this
favours the code.

### `ManifestStore` and `Manifest`

`ManifestStore` is what the MANIFEST promises: a file in one piece (`disk`), the
process's `view`, and `possible`, what a start after a power loss may load. A
replacement is in doubt from the rename until the directory is fsynced, and the
process believes in it only afterwards.

`Manifest` is the code: `SstableBuilder::finish()` and `Manifest::applyEdit()` with
`persistSnapshot()`, one action per system call that can fail or that a crash can
follow.

| Variable | Code |
|---|---|
| `at` | the next step of the caller, which holds `manifest_mutex_` |
| `view`, `next` | `live_files_` and `persisted_through_`; `next_state` and `next_checkpoint` |
| `file`, `tmp` | what `MANIFEST` and `MANIFEST.tmp` name: what `load()` would make of the bytes, and whether they are fsynced |
| `mayReappear` | the files `MANIFEST` may name after a power loss |
| `building`, `named`, `namesDurable`, `dataDurable` | the SSTable in progress, and which have a name, a durable name, durable bytes |
| `reclaimed` | history: the checkpoint `applyEdit()` has returned with, behind which the log is dropped |

`Truncated` is what a prefix of an unsynced text may load as: nothing, an empty
manifest, fewer records, or a checkpoint that lost its last digit. It matters only
if an fsync is left out, which is what the mutants do. The directory is shared, so
the fsync of the SSTable's directory settles an earlier rename of the MANIFEST too.
After a failed directory fsync the rename is not taken back: `view` and `file`
differ, and the next edit starts from `view`.

### `BloomFilter`

For any hash function: the probes `h + i * delta` in arithmetic of `HashBits` bits,
`delta` being `h` rotated, the number of probes, the bits set by `add()` and looked
at by `mayContain()`, and the persisted counts.

### `Sstable`

A file is a record of sections. Each has its offset, its length in bytes, what it
says and what its CRC was computed from; the reader accepts a section only at the
offset and with the length the footer or the index gives. `AddRecord`,
`FlushCurrentBlock` and `Finish` are the builder, `Opens` and `LookupEntry` the
reader (constructor included), `Iterators` and `Advanced` the iterator. Their
results are sets: one member for an answer, none for an exception.

### `Tables` and `MCTables`

| Variable | Code |
|---|---|
| `active`, `memoryUsage`, `frozen`, `lastSequence` | `active_memtable_` and its `memory_usage_`, `immutable_memtable_`, the last sequence number |
| `mode`, `replayed` | recovering, running, shut down; (history) the active Memtable was filled by replay, which does not rotate |
| `worker`, `rest`, `builder` | what the worker does, the part of the Memtable its iterator has not passed, its `SstableBuilder` |
| `inputs`, `iterators`, `heap`, `canDrop` | `Compactor::compact()` between two keys |
| `files`, `live`, `held`, `damaged` | the files ever finished, those not merged away, and (history) the records each was made of and the files the medium has damaged |

`Write` and `Rotate` split on `WouldExceedTarget`; `FlushRecord` is one round of the
flush loop, `MergeKey` one of the merge loop (the winner and every iterator at its
key). Any two or more live files may be merged, with or without dropping
tombstones: more than the policy picks, so that the merge does not depend on it.
`Damage` garbles one section of a finished file; readers then throw, and a merge that
meets it ends in `background_error_`. `MCTables` gives the keys sizes and hashes.

## 4. Runs

| Run | Question | Bounds | Result |
|---|---|---|---|
| `engine_recovery` | is anything lost, reused or left behind across flushes, compactions, failures, a power loss and shutdown, and are MANIFEST and log used as `ManifestStore` and `WalStore` allow? | 2 keys, 3 writes, compaction after every flush, 1 power loss, 0 readers | holds |
| `engine_reads` | is `get` linearizable? | 1 key, 3 writes, 1 reader, 1 power loss | holds |
| `engine_store` | does the engine implement `KronosStore`? | 1 key, 2 writes, 1 reader, 2 kills | holds |
| `engine_kill_then_power` | durability before visibility when a kill precedes a power loss | 1 key, 2 writes, 2 stops | violated, see 7 |
| `sync_safety` | barrier, slot, queue, wakeups, complete shutdown | 3 writers, 2 shutdown callers | holds |
| `sync_liveness` | do shutdown and blocked writers return? | 2 writers, 2 shutdown callers | holds |
| `sync_deadlock` | is the comment before the reclamation right? | 2 writers | violated, see 7 |
| `wal_failures` | what survives failing system calls, and is it what `WalStore` promises? | 3 sequence numbers, records of 4 units, 2 failures, 2 stops | holds |
| `wal_failed_append` | can every acknowledged write be replayed after a failed append? | 1 failure, 1 stop | violated, see 7 |
| `manifest_publication` | is an SSTable durable before the MANIFEST names it, and an edit atomic across failures and crashes? | 3 SSTables, checkpoints 3 and 12, 1 failure, 2 crashes | holds |
| `tables` | bytes: rotation, blocks, index, filter, lookups, iterators, merge, damage | 3 keys of 2 sizes, 4 writes of 2 sizes or tombstones, 1 damaged file | holds |
| `wal_failed_reclaim` | and after a failed reclamation? | 1 failure, 1 stop | violated, see 7 |

Why the bounds suffice. Two keys give files with disjoint, equal and overlapping
ranges; three writes give an overwritten or deleted key in L1, a newer version in
L0 and one in memory, which is what tombstone dropping, replay and generation
order need; a trigger of 1 makes every flush followed by a compaction, so that
compactions meet rotations as often as possible. With one key and three writes a
reader can see a key in each of the three generations while it moves. `MaxSequence`
is also `UINT64_MAX`: the run reaches the end of the sequence space, and the
refusal there is part of what is checked. Three writers are the fewest with one
asleep holding the mutex, one blocked on it and one not yet called; two shutdown
callers are the fewest where one repeats the other. For `Wal`, three
sequence numbers are the fewest with one that the checkpoint covers, so that a
reclamation runs, one in front of the descriptor that a failed scan has left, and one
that is overwritten. A record of 4 units has a torn header, a whole one and a torn
payload, and when it is written where a scan has stopped it ends inside of the next.
Two failures let a scan fail and the write after it as well, or a log whose creation
failed be scanned; and the log become unreliable, be repaired and fail again. Two
stops let a power loss follow a kill. Records of different lengths, with which a torn
record can swallow the whole of the next one, are in `wal_failed_append` (3 and 5
units); `wal_failures` holds with 3 and 4 units and one stop as well, which are 6.8
million states and a matter of minutes.

For `Manifest`, three SSTables let an edit add, keep and remove, or replace, at once;
a checkpoint of two digits can lose one; one failure before and one crash after it,
and a second crash during the repair, reach every combination of a file that was
renamed and a view that was not.

For `Tables` the numbers are chosen so that the boundaries are hit exactly: with
records of 18 to 22 bytes a block of 45 holds two small records to the byte
(4 + 18 + 19 + 4) and not two larger ones, so that files have one, two and three
blocks; with an overhead of 112 a target of 343 is the sum of three entries to the
byte. Eight hash bits make probes wrap around, three
bits per key make false positives. Four writes give two overlapping files of
two records, or an overwritten key and a tombstone in two files.

Every run but `tables` checks deadlock: no reachable state of any of them is stuck,
because an engine can always be stopped, called again or reopened. `tables` has
CHECK_DEADLOCK FALSE, for it may really stop: the writes are used up, or the worker
has failed.

Each property of a passing run has a mutant in `PROJECT.json`: a plausible bug
(written next to the definition it replaces, as a "Mutation") under which the run
finds the property violated.

## 5. Fairness

Only `sync_liveness` assumes any. Weak fairness on every step of every thread: a
runnable thread is run and disk operations end. Strong fairness on acquiring
`write_mutex_` (a writer, the worker's reclamation, the barrier of `shutdown()`):
a `std::mutex` does not promise it, so this is an assumption about the platform,
that a mutex released over and over is not withheld from one waiting thread
forever. Without it `shutdown()` may starve behind callers that keep calling
`put()`. No fairness on calls of `put` or `shutdown` or on failures: nobody has to
call, nothing has to fail. Under it `ShutdownTerminates` holds although writers and
worker can wait for one another (section 7): the notification of `shutdown()` wakes
the writer. That blocked writers return is claimed only after a shutdown has begun
or maintenance has failed; in between it is false, which is that finding.

## 6. Proofs

`EngineSync_proofs`, for any sets of writers and of shutdown callers. The
properties are not inductive on their own. `IInv` adds who owns `write_mutex_` at
which program point (`MutexInv`), that one shutdown call at most is past the flag
and that only it gives the active Memtable away (`ShutdownInv`), when the queue may
be closed and the worker gone (`QueueInv`), which notification is still to come for
each reason to wake (`WakeupInv`) and that a returned shutdown has joined
(`JoinInv`). The lemmas go through the steps of writers, worker and stoppers; from
`IInvIsInvariant` follow type correctness, the barrier, the keeper of the slot, the
accepted pushes, the wakeups and the complete shutdown. The only assumption is
`ThreadAssumption` (the worker is not a writer).

`Compaction_proofs`, for any keys and records, holds the facts about the operators
of `Compaction` that the engine's proofs rest on: a finite set of records in which no
number occurs twice has one newest version per key, a merge keeps the value of
every key, records above all others decide it, and a compaction that takes all of
L0 and what its envelope meets in L1 can drop tombstones. Finiteness matters: without
it there need be no newest version. Least and greatest elements come from
the well-foundedness of the naturals, so no induction over data is needed.

`KronosEngine_proofs` and `EngineStore_proofs`, for any keys, readers, trigger,
sequence bound and number of crashes. No property is inductive on its own. The
invariants build on one another, each proved once and then used:

| Invariant | What it adds | Properties that follow |
|---|---|---|
| `SlotInv` | the queue holds the slot's table or nothing (`QueueInv`), the worker's task is the slot (`TaskInv`), an occupied slot has a keeper (`KeeperInv`), nobody else empties the Memtable of a writer that decided to rotate (`RotateInv`) | `SlotIsScheduled` |
| `TypeInv` | types, finite tables, and that whatever names a file names one that exists with that key range | `TypeOK`, `SstablesAreImmutable` |
| `LogInv` | the log is in order, and all numbers in it, in memory and in checkpoints are below `Bound`, the number of the write in flight or the next one | `DatabaseCanBeOpened` |
| `GenInv` | every MANIFEST that exists or may reappear is consistent (unique numbers, disjoint L1, nothing above its checkpoint); files, slot and active Memtable are three generations; what the edit in the worker's hand will do | `GenerationsAreOrdered`, `BottomLevelIsDisjoint`, `ManifestEditsAreValid`, `UsesManifestStore`, `WalIsReclaimedBehindCheckpoint` |
| `CoverInv` | until the checkpoint covers it, an answered record is in the log and a Memtable has a record of its key that is as new | used below |
| `ShutdownInv` | after the barrier nobody is between log and Memtable, and the worker ends only with a drained queue or an error | `ShutdownPersistsEverything` |
| `ReadInv` | each value that the layers a `get` has yet to look at may still give is one its key had during the call | `ReadsAreLinearizable` |
| `DoubtInv` | the MANIFEST file is ahead of the view by no more than the flush of the slot or one compaction (`FileIsCurrent`), also after an error | used below |
| `CheckpointInv` | a MANIFEST in doubt that covers more than another one ends at a record of the log | `UsesWalStore` |
| `StopInv` | only the record whose fsync is pending is not durable, and a power loss brings back the MANIFEST file or the view | used below |
| `NumbersInv` | recovery starts above every number in every file, orphans of interrupted flushes included | `SequencesAreFresh` |

With them `DurableBeforeVisible` is the argument that recovery makes: the MANIFEST
that is left has the same values as the view, perhaps with the slot in it; the log
beyond its checkpoint has the rest of what the Memtables hold. The refinement
`EngineImplementsStore` adds, step by step, what each action is to a caller:
`AppendToWal` is `Begin`, `ApplyWrite` is `Commit`, `CallGet` and `ReadFiles` (or a
hit in a Memtable) are the call and the return of a read, a crash keeps or drops the
pending write, and everything else changes no value.

`SequencesAreFresh`, `DurableBeforeVisible` and the refinement are stated under
`OneKindOfStop`: the stops a behaviour may contain are all kills or all power losses.
This is not a convenience but the border of what is true. A kill leaves writes
that no fsync covers, recovery takes them for durable, and a power loss after that can
still remove them; TLC finds the counterexample (`engine_kill_then_power`,
section 7), and in the same way a number that an orphan file holds is given out
again. Everything else is proved for all kinds of stops, mixed. The assumptions on
constants are those of the modules: keys are integers (`KeysAssumption`, a total
order), the trigger and the sequence bound are positive, and the kinds of crash are
the two that exist.

`Wal_proofs`, for any record lengths, sequence bound, failures and crashes: types,
`SafeRecordsStayReadable`, `UnexposedLogOpens` and `SequencesIncrease`. `WalInv` says:
before the header is written there is no record (`HeaderInv`); the writer is kept out
of a reclamation, which starts with a scan that repairs what had failed
(`ControlInv`); `fd_` is away from the end only between a scan that threw and the end
of the process (`PositionInv`); as long as nothing has failed the live log, and the one that is to
replace it, are in order below the next number (`OrderInv`); a log nobody
wrote to behind a failure breaks off at its last piece only (`TailInv`); and, the heart
of it, *each* file the path may name holds every safe record: it is
durable there with nothing before it that stops a scan, or the checkpoint covers it
and the file has only later records (`SafeInv`). The second half of that
alternative is what keeps the allocator above all safe records when a scan throws
half-way and has already lowered `next_sequence_` (`NumberInv`): the records behind
the place where it stopped are above the next number, but whoever consumes it has
written at that place, and has put them at risk. The lemma under
all stops is `Remains`: a power loss, or a kill in the middle of a write, leaves a
prefix whose last piece may be shorter, and that keeps `TailOK` and what is held;
for a file written to in the middle, `ReadShortened` and its neighbours say that
nothing in front of the write is touched.

`WalImplementsWalStore` is the refinement, under a mapping that changes with
`Reliable`. While the log is reliable its replay is the abstract one, and the proof
says for each system call what a scan makes of the pieces: a torn record is not
read, so a write is an `Append` only when it is whole; an fsync settles the record
of its call; a rename replaces the file by one with the same replay; a repair cuts
what was not read anyway. The invariants
it needs beside `WalInv` are `MemoryInv`, that a number in a Memtable is read from the log
or at risk, so that a checkpoint, which may be a replayed number that nobody
acknowledged, is one of a reliable log; and `OtherInv`: between rename and directory fsync the two
inodes have the same replay, so it does not matter which of them a power loss
leaves. What is promised is always held and read (`PromisedIsHeld`, `PromisedIsRead`),
which carries the steps of the unreliable log. `EngineUsesWalStore` is the other side
of the interface, for all kinds of stops: a power loss that decides which MANIFEST is
left covers the log up to one of its records (`CheckpointInv`, `Decided`), because
the checkpoint of a flush is the number of a record of the slot, which
`CoverInv` says is still logged.

`Manifest_proofs`, for any SSTables, checkpoints and bounds: types, that a file the
MANIFEST names, or may name after a power loss, is durable, that a checkpoint the
log was dropped behind is not undone, and the refinement of `ManifestStore`. `IInv`
adds what the builder has reached (`TableInv`), that view and edit name only durable
tables (`ViewInv`, `EditInv`), where the edit is on its way to the disk (`FileInv`)
and that every file that may reappear is as good as the view (`DiskInv`).

`Sstable_proofs`, for any records, sizes and hashes, about operators. `BuilderInv`
says what a builder is after any number of `add()`: keys increase within and across
blocks, the index has an entry per block with its first key, place and length, and
the filter's keys are those of the records. `AddRecordInv` and `FinishInv` keep it,
so a finished file satisfies `FileInv`; that is stated over the *checksums*, which
survive damage, so that `LookupIsExact` covers both an intact file (the answer is
exact) and a damaged one (exact, or an exception). The argument of the lookup is
that the index leads to at most one block (`OneCandidate`), that the block found at
its offset is the one written there (`EntryLeadsToItsBlock`, places do not overlap)
and that its scan is exact (`ScanIsExact`). The iterator lemmas say that what is
ahead of it loses exactly its current record with each step.

`Tables_proofs` carries this through the state machine, for any values of the
constants. `IInv` says: sequence numbers are unique among all records in memory
and in files (`SequenceInv`); the builder of a flush and the records still to come
make up the frozen table (`FlushInv`); during a merge every key an iterator has
passed is below every key any iterator has ahead, the heap holds the current key of
each iterator, and the builder holds exactly the records of `Merge` whose keys
nobody has ahead (`MergeInv`). When the heap is empty that is the whole of `Merge`.
From it follow exact lookups and merges, no false negatives, that `add()` never
refuses, and the two targets. `AccountInv` is about `memory_usage_`: the bytes of the
active Memtable, taken one by one as a set (`Bytes`), are finite, and the counter is
their number. A cardinality says the same as a sum over the entries, but it can be
reasoned about with the library's theorems: a record that enters or leaves a table
brings or takes its own bytes (`BytesOfTables`), so that `put` over an old version is
exact (`ReplacedBytes`), and what is subtracted, there and in the projection that
decides rotation, is never more than the counter holds (`MemoryUsageNeverWraps`: the
`size_t` does not wrap). The assumptions are those of the modules: sizes are
naturals, hashes are in range, 0 is a size (a tombstone has no value).

Model-checked only: the liveness properties (TLAPS proves no liveness under
fairness). What a recursive definition or a fold computes for every input is out of
the provers' reach; where a theorem needs a sum it is a cardinality (above).
`SelectSeq` is opaque to the provers as well; what a reclamation keeps is
therefore written as a suffix of the log (`Beyond`), which is the same because
the log is in order when it is reclaimed (`BeyondIsSuffix`).

## 7. Disagreements with the repository's own words

* **Writers and worker can wait for one another** (`engine.cpp:594-598`). After the
  worker has cleared the slot and before it takes `write_mutex_`, a writer may
  rotate again and a second one, holding the mutex, may sleep on the refilled slot.
  The worker then waits for the mutex before it could flush. Only `shutdown()` ends it.
* **Visible before durable** (README, "durability before visibility"). After a kill,
  recovery replays and shows records that no fsync covers.
* **A failed append spoils later ones** (`wal.cpp:317-352`). A torn record stays in
  the file and the next write goes behind it: the acknowledged record is refused or
  truncated away at the next start.
* **A failed reclamation leaves the descriptor behind** (`wal.cpp:913-924`). Until the
  error is recorded a write may be acknowledged into the file that was replaced.

Two more contradictions have no run of their own, but TLC finds them with
`WalFailedAppend.cfg` and the constants given here:

* **A failed scan moves the allocator back** (`wal.cpp:732-740`, `772`; the comment at
  766-770: "reclamation must never move the allocator backwards"). When `read()` or
  `lseek()` fails in the scan of a reclamation, on an intact log, `next_sequence_` stays
  at what was read so far and `fd_`, opened without `O_APPEND`, in the middle. A
  `put()` that gets `write_mutex_` before `background_error_` is set may reuse a number and
  is written over what lies there: it, or a record acknowledged before, is not
  replayed. `Failures = {"scan"}` violates `AcknowledgedSurvive`. The run `wal_failures` shows what is left: everything in
  front of the place where the scan stopped.
* **An interrupted creation is never made durable** (`wal.cpp:161-176`: the header "must
  be durable before the database begins accepting writes", and "Persist creation of
  the WAL directory entry"). A constructor that finds the file of one that was killed
  accepts it and fsyncs neither: `Failures = {}` and `MaxCrashes = 2` (a kill,
  then a power loss) violate it.

## 8. Not modelled

* Configuration parsing, logging, `main.cpp` and the benchmarks: they keep no state
  that a property is about. `engine 2.cpp` is not built.
* The letters of a MANIFEST record (quoting, decimal numbers). `Truncated` is what
  they amount to when cut short.
* CRC32 as a function: no two contents that occur have the same sum. Bytes damaged in
  a way that keeps the sum are outside the model.
* Lengths at 32 bits: `bit_count`, block sizes and key lengths are unbounded here; a
  block of 4 GiB, or a filter of 2^32 bits (512 MiB), would be cut to 32 bits by
  the code.
* An fsync of a directory that fails with EINVAL or ENOTSUP, which the code takes for
  success: the model has file systems that support it.
* The engine's reader and block caches, and with them a reader that has its index and
  filter in memory while the file is damaged: cached contents are immutable, which
  `SstablesAreImmutable` justifies. The scan that makes a file's metadata after a
  build is its key range.
* The queue's own mutex and condition variable: a `push` or `pop` is one step, so the
  flush queue is listed as partly modelled.
* Damage to the WAL and MANIFEST, damage twice to one file, and damage to a file that
  a merge has replaced and nobody reads.
* The refusal of an older sequence number, or of a frozen Memtable, by the Memtable:
  both are in the model (`MemtableAccepts`, and nobody writes to `frozen`), but the
  engine never meets them.
* A log whose header was cut short by a crash or an error is modelled in `Wal`
  (`CreateFile`, `FailCreate`, `RefuseToOpen`): it is refused at every later start, which nothing in the
  repository promises otherwise.
