------------------------------- MODULE Tables -------------------------------
(***************************************************************************)
(* The way of a record through the tables: the active Memtable and its     *)
(* count of bytes, the rotation that the count decides, the flush through  *)
(* SstableBuilder, and the Compactor's k-way merge of SSTables, read by    *)
(* their iterators.  The writer and the worker run side by side; at any    *)
(* time the storage medium may damage a file that is complete.             *)
(*                                                                         *)
(* Which record is acknowledged, visible and covered by a checkpoint is    *)
(* the business of KronosEngine, which takes an SSTable as the set of its  *)
(* records and a compaction as Merge: this module is about both.           *)
(***************************************************************************)
EXTENDS Sstable

CONSTANTS
    ValueBytes,     \* the sizes of the values written
    TargetBytes,    \* target_bytes_
    EntryOverhead,  \* what estimate_entry_size() adds to key and value
    MaxWrites,      \* bound on the number of records
    MaxDamages      \* bound on the number of damaged files

ASSUME TablesAssumption ==
    /\ ValueBytes \subseteq Nat
    /\ 0 \in ValueBytes
    /\ TargetBytes \in Nat
    /\ EntryOverhead \in Nat
    /\ MaxWrites \in Nat
    /\ MaxDamages \in Nat

VARIABLES
    mode,           \* the engine recovers, runs, or has been shut down
    active,         \* active_memtable_: the set of its records
    memoryUsage,    \* its memory_usage_
    replayed,       \* history: recover() put records into active_memtable_
    frozen,         \* immutable_memtable_, {} when the slot is empty
    lastSequence,   \* the last sequence number assigned
    worker,         \* what background_worker_ does
    rest,           \* the records the Memtable iterator of the flush has not passed
    builder,        \* the SstableBuilder of the flush or of the merge
    inputs,         \* the files that are merged
    iterators,      \* their iterators
    heap,           \* the heap of the merge
    canDrop,        \* can_drop_tombstones
    files,          \* the SSTables, numbered as they were finished
    live,           \* those that no merge has replaced
    held,           \* history: the records each was made of
    damaged         \* history: the files the medium has damaged

memtableVars == <<mode, active, memoryUsage, replayed, lastSequence>>
mergeVars == <<inputs, iterators, heap, canDrop>>
fileVars == <<files, live, held, damaged>>
vars == <<memtableVars, frozen, worker, rest, builder, mergeVars, fileVars>>

-----------------------------------------------------------------------------
(* Memtable *)

EntryBytes(r) == EntryOverhead + KeyBytes[r.key] + r.valueBytes

\* The estimated cost of the entry that r would replace.
OldBytes(r) ==
    IF Versions(active, r.key) = {} THEN 0
    ELSE EntryBytes(CHOOSE s \in Versions(active, r.key) : TRUE)

\* Mutation: what is replaced is counted on.
ProjectedWithoutOld(r) == memoryUsage + EntryBytes(r)

ProjectedUsage(r) == memoryUsage - OldBytes(r) + EntryBytes(r)

WouldExceedTarget(r) ==
    /\ MemtableAccepts(active, r)
    /\ ProjectedUsage(r) > TargetBytes

\* put() and remove() of the Memtable refuse a record that is not newer.
PutRecord(r) ==
    /\ MemtableAccepts(active, r)
    /\ memoryUsage' = ProjectedUsage(r)
    /\ active' = MemtablePut(active, r)
    /\ lastSequence' = r.sequence

\* A tombstone has no value.
Candidates(sequence) ==
    {r \in [key : Keys, sequence : {sequence}, operation : Operations,
            valueBytes : ValueBytes] :
        r.operation = "DELETE" => r.valueBytes = 0}

NextRecords == {r \in Candidates(lastSequence + 1) : lastSequence < MaxWrites}

\* recover() replays the log into the active Memtable, however long it is.
Replay(r) ==
    /\ mode = "recovering"
    /\ PutRecord(r)
    /\ replayed' = TRUE
    /\ UNCHANGED <<mode, frozen, worker, rest, builder, mergeVars, fileVars>>

StartWorker ==
    /\ mode = "recovering"
    /\ mode' = "running"
    /\ UNCHANGED <<active, memoryUsage, replayed, frozen, lastSequence, worker, rest,
                   builder, mergeVars, fileVars>>

\* Mutation: rotation waits until the target has been exceeded.
RotationIsRequiredLate(r) == active # {} /\ memoryUsage > TargetBytes

\* prepareForWriteLocked() asks for a candidate with the highest sequence number.
RotationIsRequired(r) == active # {} /\ WouldExceedTarget(r)

MayWrite == mode = "running" /\ worker # "failed"

Write(r) ==
    /\ MayWrite
    /\ ~RotationIsRequired(r)
    /\ PutRecord(r)
    /\ UNCHANGED <<mode, replayed, frozen, worker, rest, builder, mergeVars, fileVars>>

\* freeze(): nobody writes to the Memtable in the slot.
Freeze ==
    /\ frozen = {}
    /\ frozen' = active
    /\ active' = {}
    /\ memoryUsage' = 0
    /\ replayed' = FALSE

Rotate(r) ==
    /\ MayWrite
    /\ RotationIsRequired(r)
    /\ Freeze
    /\ UNCHANGED <<mode, lastSequence, worker, rest, builder, mergeVars, fileVars>>

\* shutdown() flushes the last Memtable; an empty one is not pushed.
Shutdown ==
    /\ MayWrite
    /\ mode' = "closed"
    /\ Freeze
    /\ UNCHANGED <<lastSequence, worker, rest, builder, mergeVars, fileVars>>

-----------------------------------------------------------------------------
(* KronosEngine::flushMemtable() *)

StartFlush ==
    /\ worker = "idle"
    /\ frozen # {}
    /\ worker' = "flush"
    /\ rest' = frozen
    /\ builder' = NewBuilder
    /\ UNCHANGED <<memtableVars, frozen, mergeVars, fileVars>>

\* The iterator walks the map in the order of the keys.
IsNext(r) == \A s \in rest : r.key <= s.key

\* add() throws on a key that is not above the last one.
FlushRecord(r) ==
    /\ worker = "flush"
    /\ r \in rest
    /\ IsNext(r)
    /\ AddAccepts(builder, r)
    /\ builder' = AddRecord(builder, r)
    /\ rest' = rest \ {r}
    /\ UNCHANGED <<memtableVars, frozen, worker, mergeVars, fileVars>>

\* finish() has returned; the MANIFEST names the file.
AddFile(file, records) ==
    /\ files' = Append(files, file)
    /\ held' = Append(held, records)

FinishFlush ==
    /\ worker = "flush"
    /\ rest = {}
    /\ AddFile(Finish(builder), frozen)
    /\ live' = live \cup {Len(files) + 1}
    /\ frozen' = {}
    /\ builder' = NewBuilder
    /\ worker' = "idle"
    /\ UNCHANGED <<memtableVars, rest, mergeVars, damaged>>

-----------------------------------------------------------------------------
(* Compactor::compact() *)

HeapItem(i, it) == [key |-> CurrentRecord(it).key, iterator |-> i]

\* An item for every iterator of the set that has not come to its end.
HeapItems(set, its) == {HeapItem(i, its[i]) : i \in {j \in set : Valid(its[j])}}

MayMerge(set) ==
    /\ worker = "idle"
    /\ frozen = {}
    /\ Cardinality(set) >= L0FileTrigger

StartMerge(set, drop) ==
    /\ MayMerge(set)
    /\ \A i \in set : Iterators(files[i]) # {}
    /\ inputs' = set
    /\ canDrop' = drop
    /\ builder' = NewBuilder
    /\ worker' = "merge"
    /\ iterators' = [i \in set |-> CHOOSE it \in Iterators(files[i]) : TRUE]
    /\ heap' = HeapItems(set, iterators')
    /\ UNCHANGED <<memtableVars, frozen, rest, fileVars>>

\* The exception becomes background_error_.
WorkerFails ==
    /\ worker' = "failed"
    /\ inputs' = {}
    /\ iterators' = <<>>
    /\ heap' = {}
    /\ builder' = NewBuilder
    /\ UNCHANGED <<memtableVars, frozen, rest, canDrop, fileVars>>

\* A reader or its iterator throws.
RefuseMerge(set) ==
    /\ MayMerge(set)
    /\ \E i \in set : Iterators(files[i]) = {}
    /\ WorkerFails

AtTop(k) ==
    /\ \E item \in heap : item.key = k
    /\ \A item \in heap : k <= item.key

\* Mutation: of the items with the same key only one is taken from the heap.
OneWithKey(k) == {CHOOSE i \in inputs : HeapItem(i, iterators[i]) \in heap
                                            /\ CurrentRecord(iterators[i]).key = k}

SameKey(k) == {item.iterator : item \in {i \in heap : i.key = k}}

\* Mutation: the first of the iterators wins, whatever its sequence number.
IsFirst(k, i) ==
    /\ i \in SameKey(k)
    /\ \A j \in SameKey(k) : i <= j

IsWinner(k, i) ==
    /\ i \in SameKey(k)
    /\ \A j \in SameKey(k) : CurrentRecord(iterators[j]).sequence
                                <= CurrentRecord(iterators[i]).sequence

IsWritten(r) == ~(canDrop /\ r.operation = "DELETE")

\* The loop's body for the key at the top, where iterator i has the newest
\* version.  The builder is made when first needed; every iterator at the key
\* moves on.
MergeKey(k, i) ==
    LET winner == CurrentRecord(iterators[i])
    IN  /\ worker = "merge"
        /\ AtTop(k)
        /\ IsWinner(k, i)
        /\ \A j \in SameKey(k) : Advanced(files[j], iterators[j]) # {}
        /\ IsWritten(winner) => AddAccepts(builder, winner)
        /\ builder' = IF IsWritten(winner) THEN AddRecord(builder, winner)
                      ELSE builder
        /\ iterators' =
              [j \in inputs |->
                  IF j \in SameKey(k)
                  THEN CHOOSE it \in Advanced(files[j], iterators[j]) : TRUE
                  ELSE iterators[j]]
        /\ heap' = {item \in heap : item.iterator \notin SameKey(k)}
                      \cup HeapItems(SameKey(k), iterators')
        /\ UNCHANGED <<memtableVars, frozen, worker, rest, inputs, canDrop,
                       fileVars>>

\* next() throws on a block that it cannot read.
FailMerge(k) ==
    /\ worker = "merge"
    /\ AtTop(k)
    /\ \E j \in SameKey(k) : Advanced(files[j], iterators[j]) = {}
    /\ WorkerFails

\* A merge of which nothing survives makes no file.
FinishMerge ==
    /\ worker = "merge"
    /\ heap = {}
    /\ IF builder.keys = <<>>
       THEN /\ live' = live \ inputs
            /\ UNCHANGED <<files, held>>
       ELSE /\ AddFile(Finish(builder), RecordsIn(builder))
            /\ live' = (live \ inputs) \cup {Len(files) + 1}
    /\ worker' = "idle"
    /\ inputs' = {}
    /\ iterators' = <<>>
    /\ builder' = NewBuilder
    /\ UNCHANGED <<memtableVars, frozen, rest, heap, canDrop, damaged>>

-----------------------------------------------------------------------------
(* The storage medium *)

\* The magic, a block, the filter, the index or the footer does not say any
\* more what was written.  A file that lost its end has no footer at its end.
Garbled(file) ==
    {[file EXCEPT !.header = "KRNS 0"],
     [file EXCEPT !.filter.says.bits = {}],
     [file EXCEPT !.index.says = Tail(@)],
     [file EXCEPT !.footer.says.index_offset = HeaderBytes]}
        \cup {[file EXCEPT !.blocks[i].says = Tail(@)] : i \in DOMAIN file.blocks}

\* What a file loses first is enough.
Damage(t) ==
    /\ Cardinality(damaged) < MaxDamages
    /\ t \notin damaged
    /\ \E file \in Garbled(files[t]) : files' = [files EXCEPT ![t] = file]
    /\ damaged' = damaged \cup {t}
    /\ UNCHANGED <<memtableVars, frozen, worker, rest, builder, mergeVars, live, held>>

-----------------------------------------------------------------------------
Init ==
    /\ mode = "recovering"
    /\ active = {}
    /\ memoryUsage = 0
    /\ replayed = FALSE
    /\ frozen = {}
    /\ lastSequence = 0
    /\ worker = "idle"
    /\ rest = {}
    /\ builder = NewBuilder
    /\ inputs = {}
    /\ iterators = <<>>
    /\ heap = {}
    /\ canDrop = FALSE
    /\ files = <<>>
    /\ live = {}
    /\ held = <<>>
    /\ damaged = {}

Next ==
    \/ \E r \in NextRecords : Replay(r) \/ Write(r)
    \/ StartWorker
    \/ \E r \in Candidates(MaxWrites + 1) : Rotate(r)
    \/ Shutdown
    \/ StartFlush
    \/ \E r \in rest : FlushRecord(r)
    \/ FinishFlush
    \/ \E set \in SUBSET live :
          \/ \E drop \in BOOLEAN : StartMerge(set, drop)
          \/ RefuseMerge(set)
    \/ \E k \in Keys :
          \/ \E i \in inputs : MergeKey(k, i)
          \/ FailMerge(k)
    \/ FinishMerge
    \/ \E t \in live : Damage(t)

Spec == Init /\ [][Next]_vars

-----------------------------------------------------------------------------
(* Properties *)

TableRecords == UNION {Candidates(s) : s \in 1 .. MaxWrites}

\* Every variable holds what its C++ counterpart can hold; the keys kept for the
\* filter are those of the records given to add().
TypeOK ==
    /\ mode \in {"recovering", "running", "closed"}
    /\ active \subseteq TableRecords /\ IsTable(active)
    /\ frozen \subseteq TableRecords /\ IsTable(frozen)
    /\ memoryUsage \in Int
    /\ replayed \in BOOLEAN
    /\ lastSequence \in 0 .. MaxWrites
    /\ worker \in {"idle", "flush", "merge", "failed"}
    /\ rest \subseteq frozen
    /\ RecordsIn(builder) \subseteq TableRecords
    /\ KeysOf(RecordsIn(builder)) = ToSet(builder.keys)
    /\ DOMAIN iterators = inputs
    /\ inputs \subseteq live
    /\ \A item \in heap : item.iterator \in inputs
    /\ canDrop \in BOOLEAN
    /\ live \subseteq DOMAIN files
    /\ DOMAIN held = DOMAIN files
    /\ damaged \subseteq DOMAIN files

\* The entries of a Memtable, byte by byte: a sum that can be reasoned about.
Bytes(table) == UNION {{r} \X (1 .. EntryBytes(r)) : r \in table}

\* memory_usage_, kept by adding and subtracting, is the sum of the estimates of
\* the entries, and so never negative (memtable.cpp:34-36, 73-76 and 108-111).
MemoryIsAccounted == memoryUsage = Cardinality(Bytes(active))

\* "Rotation is meaningful only when the active Memtable already contains at
\* least one record" (engine.cpp:115-121): unless recover() filled it, a Memtable
\* exceeds its target only with a single record that does so by itself.
MemtableFitsTarget ==
    memoryUsage <= TargetBytes \/ Cardinality(active) = 1 \/ replayed

\* "SSTable keys must be strictly increasing" (sstable.cpp:173-176) never makes
\* a flush or a merge fail.
AddIsNeverRefused ==
    /\ worker = "flush" =>
          \A r \in rest : IsNext(r) => AddAccepts(builder, r)
    /\ worker = "merge" =>
          \A k \in Keys, i \in inputs :
              AtTop(k) /\ IsWinner(k, i) => AddAccepts(builder, CurrentRecord(iterators[i]))

\* A Bloom filter that can be read never denies a record of its file
\* (bloom_filter.cpp:45-80, sstable.cpp:1026).
NoFalseNegatives ==
    \A t \in DOMAIN files : \A r \in held[t] :
        Opens(files[t]) => MayContain(files[t].filter.says, r.key)

\* lookupEntry() finds in a file the record of every key it was made of, and no
\* other; from a damaged file it gets that or an exception (sstable.cpp:1022-1151).
LookupsFindTheRecord ==
    \A t \in DOMAIN files, k \in Keys :
        \/ LookupEntry(files[t], k) = {Versions(held[t], k)}
        \/ LookupEntry(files[t], k) = {} /\ t \in damaged

\* The k-way merge gives add() what the versions of the input files amount to
\* (compactor.cpp:178-312).
MergeIsExact ==
    worker = "merge" /\ heap = {}
        => RecordsIn(builder) = Merge(UNION {held[i] : i \in inputs}, canDrop)

\* A block is longer than the target only with a single record, its count and
\* checksum included (sstable.cpp:213-219).
BlocksFitTarget ==
    \A t \in DOMAIN files : \A i \in DOMAIN files[t].blocks :
        \/ files[t].blocks[i].bytes <= BlockSize
        \/ Len(files[t].blocks[i].checksum) = 1
=============================================================================
