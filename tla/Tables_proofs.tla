---------------------------- MODULE Tables_proofs ----------------------------
(***************************************************************************)
(* Proofs about Tables for any keys, sizes, hashes and bounds: the target  *)
(* of the Memtable, and the way of a record through flushes and merges.    *)
(***************************************************************************)
EXTENDS Tables, Sstable_proofs, FiniteSetTheorems

-----------------------------------------------------------------------------
(* The inductive invariant *)

MemoryInv ==
    /\ lastSequence \in Nat
    /\ memoryUsage \in Int
    /\ active \subseteq AnyRecord /\ IsTable(active)
    /\ frozen \subseteq AnyRecord /\ IsTable(frozen)
    /\ MemtableFitsTarget

IsSequence(s) == s \in Seq(ToSet(s))

\* Every file is what a builder made of the records in held, but for what the
\* medium has done to it.
FilesInv ==
    /\ IsSequence(files)
    /\ IsSequence(held)
    /\ Len(held) = Len(files)
    /\ live \subseteq 1 .. Len(files)
    /\ \A t \in 1 .. Len(files) :
          /\ FileInv(files[t])
          /\ held[t] = Stored(files[t])
          /\ t \notin damaged => Undamaged(files[t])

\* The records that are in memory or in a file.
AllRecords == active \cup frozen \cup UNION {held[t] : t \in 1 .. Len(held)}

\* No sequence number is used twice.
SequenceInv ==
    /\ \A r \in AllRecords : r.sequence <= lastSequence
    /\ \A r, s \in AllRecords : r.sequence = s.sequence => r = s

\* A key that add() would take.
Accepts(b, k) == b.keys # <<>> => Last(b.keys) < k

FlushInv ==
    worker = "flush" =>
        /\ frozen # {}
        /\ BuilderInv(builder)
        /\ RecordsIn(builder) \cup rest = frozen
        /\ \A r \in rest : Accepts(builder, r.key)

\* What iterator i has not passed, and what it has.
Ahead(i) == Remaining(files[i], iterators[i])
Passed(i) == held[i] \ Ahead(i)

Merged == UNION {held[i] : i \in inputs}

MergeInv ==
    worker = "merge" =>
        /\ inputs \subseteq live
        /\ BuilderInv(builder)
        /\ \A i \in inputs : IterInv(files[i], iterators[i]) /\ Ahead(i) \subseteq held[i]
        /\ heap = HeapItems(inputs, iterators)
        /\ \A i \in inputs : \A r \in Ahead(i) : Accepts(builder, r.key)
        /\ \A i, j \in inputs : \A r \in Passed(i), s \in Ahead(j) : r.key < s.key
        /\ RecordsIn(builder) =
              {r \in Merge(Merged, canDrop) :
                  \A i \in inputs : r.key \notin KeysOf(Ahead(i))}

\* What the worker does not use is empty.
WorkerInv ==
    /\ worker \in {"idle", "flush", "merge", "failed"}
    /\ worker # "flush" => rest = {}
    /\ worker # "merge" => inputs = {} /\ heap = {}
    /\ worker \in {"idle", "failed"} => builder = NewBuilder
    /\ DOMAIN iterators = inputs
    /\ canDrop \in BOOLEAN

BoundsInv ==
    /\ mode \in {"recovering", "running", "closed"}
    /\ replayed \in BOOLEAN
    /\ lastSequence \in 0 .. MaxWrites
    /\ AllRecords \subseteq TableRecords
    /\ damaged \subseteq 1 .. Len(files)

IInv ==
    /\ MemoryInv
    /\ FilesInv
    /\ SequenceInv
    /\ FlushInv
    /\ MergeInv
    /\ WorkerInv
    /\ BoundsInv

-----------------------------------------------------------------------------
(* The Memtable and its target *)

LEMMA CandidateTypes ==
  ASSUME NEW q \in Nat, NEW r \in Candidates(q)
  PROVE  r \in AnyRecord /\ r.sequence = q
  BY TablesAssumption DEF Candidates, AnyRecord

LEMMA EntryBytesType ==
  ASSUME NEW r \in AnyRecord
  PROVE  EntryBytes(r) \in Nat
  <1>1. KeyBytes[r.key] \in Nat /\ r.valueBytes \in Nat /\ EntryOverhead \in Nat
    BY SstableAssumption, TablesAssumption DEF AnyRecord
  <1> QED
    BY <1>1 DEF EntryBytes

LEMMA ProjectedUsageType ==
  ASSUME MemoryInv, NEW r \in AnyRecord
  PROVE  ProjectedUsage(r) \in Int
  <1>1. OldBytes(r) \in Int
    <2>1. CASE Versions(active, r.key) = {}
      BY <2>1 DEF OldBytes
    <2>2. CASE Versions(active, r.key) # {}
      <3>1. (CHOOSE s \in Versions(active, r.key) : TRUE) \in AnyRecord
        BY <2>2 DEF Versions, MemoryInv
      <3> QED
        BY <2>2, <3>1, EntryBytesType DEF OldBytes
    <2> QED
      BY <2>1, <2>2
  <1>2. EntryBytes(r) \in Int /\ memoryUsage \in Int
    BY EntryBytesType DEF MemoryInv
  <1> QED
    BY ONLY <1>1, <1>2 DEF ProjectedUsage

LEMMA PutRecordInv ==
  ASSUME MemoryInv, NEW r \in NextRecords, PutRecord(r)
  PROVE  /\ r \in AnyRecord
         /\ r.sequence = lastSequence + 1
         /\ lastSequence' \in Nat
         /\ memoryUsage' \in Int
         /\ active' \subseteq AnyRecord
         /\ IsTable(active')
  <1>1. r \in AnyRecord /\ r.sequence = lastSequence + 1
    BY CandidateTypes DEF NextRecords, MemoryInv
  <1>2. lastSequence' = lastSequence + 1
    BY <1>1 DEF PutRecord
  <1>3. memoryUsage' \in Int
    BY <1>1, ProjectedUsageType DEF PutRecord
  <1>4. active' = {s \in active : s.key # r.key} \cup {r}
    BY DEF PutRecord, MemtablePut
  <1>5. IsTable(active')
    BY <1>4 DEF IsTable, MemoryInv
  <1> QED
    BY <1>1, <1>2, <1>3, <1>4, <1>5 DEF MemoryInv

\* A record that does not make its Memtable exceed the target, or is alone in it.
LEMMA WrittenMemtableFits ==
  ASSUME MemoryInv, NEW r \in NextRecords, PutRecord(r), ~RotationIsRequired(r)
  PROVE  memoryUsage' <= TargetBytes \/ Cardinality(active') = 1
  <1>1. CASE active = {}
    <2>1. active' = {r}
      BY <1>1 DEF PutRecord, MemtablePut
    <2> QED
      BY <2>1, FS_Singleton
  <1>2. CASE active # {}
    <2>1. ~(ProjectedUsage(r) > TargetBytes)
      BY <1>2 DEF PutRecord, RotationIsRequired, WouldExceedTarget
    <2>2. ProjectedUsage(r) \in Int /\ TargetBytes \in Int
      BY PutRecordInv, ProjectedUsageType, TablesAssumption
    <2>3. ProjectedUsage(r) <= TargetBytes
      BY ONLY <2>1, <2>2
    <2> QED
      BY <2>3 DEF PutRecord
  <1> QED
    BY <1>1, <1>2

LEMMA FrozenMemtable ==
  ASSUME MemoryInv, Freeze, UNCHANGED lastSequence
  PROVE  MemoryInv'
  <1>1. 0 <= TargetBytes
    BY TablesAssumption
  <1> QED
    BY <1>1 DEF MemoryInv, Freeze, IsTable, MemtableFitsTarget

LEMMA MemoryStep ==
  ASSUME MemoryInv, [Next]_vars
  PROVE  MemoryInv'
  <1> USE DEF memtableVars
  <1>1. ASSUME NEW r \in NextRecords, Replay(r)
        PROVE  MemoryInv'
    BY <1>1, PutRecordInv DEF Replay, MemoryInv, MemtableFitsTarget
  <1>2. ASSUME NEW r \in NextRecords, Write(r)
        PROVE  MemoryInv'
    BY <1>2, PutRecordInv, WrittenMemtableFits DEF Write, MemoryInv, MemtableFitsTarget
  <1>3. CASE (\E r \in Candidates(MaxWrites + 1) : Rotate(r)) \/ Shutdown
    <2>1. Freeze /\ UNCHANGED lastSequence
      BY <1>3 DEF Rotate, Shutdown
    <2> QED
      BY <2>1, FrozenMemtable
  <1>4. CASE FinishFlush
    BY <1>4 DEF FinishFlush, MemoryInv, MemtableFitsTarget, IsTable
  <1>5. ASSUME UNCHANGED <<active, memoryUsage, replayed, frozen, lastSequence>>
        PROVE  MemoryInv'
    BY <1>5 DEF MemoryInv, MemtableFitsTarget, IsTable
  <1>6. CASE \/ StartWorker \/ StartFlush \/ FinishMerge
             \/ \E r \in rest : FlushRecord(r)
             \/ \E t \in live : Damage(t)
    BY <1>5, <1>6 DEF StartWorker, StartFlush, FinishMerge, FlushRecord, Damage
  <1>7. CASE \/ \E set \in SUBSET live :
                   \/ \E drop \in BOOLEAN : StartMerge(set, drop)
                   \/ RefuseMerge(set)
             \/ \E k \in Keys :
                   \/ \E i \in inputs : MergeKey(k, i)
                   \/ FailMerge(k)
    BY <1>5, <1>7 DEF StartMerge, RefuseMerge, MergeKey, FailMerge, WorkerFails
  <1>8. CASE UNCHANGED vars
    BY <1>5, <1>8 DEF vars
  <1> QED
    BY <1>1, <1>2, <1>3, <1>4, <1>6, <1>7, <1>8 DEF Next

-----------------------------------------------------------------------------
(* The files *)

LEMMA SequenceDomain ==
  ASSUME NEW s, IsSequence(s)
  PROVE  /\ Len(s) \in Nat
         /\ DOMAIN s = 1 .. Len(s)
  BY LenProperties DEF IsSequence

LEMMA AppendedIsSequence ==
  ASSUME NEW s, IsSequence(s), NEW e
  PROVE  /\ IsSequence(Append(s, e))
         /\ Len(Append(s, e)) = Len(s) + 1
         /\ \A i \in 1 .. Len(s) : Append(s, e)[i] = s[i]
         /\ Append(s, e)[Len(s) + 1] = e
  <1> DEFINE S == ToSet(s) \cup {e}
  <1>1. s \in Seq(S) /\ e \in S
    BY SeqMonotonic DEF IsSequence
  <1> HIDE DEF S
  <1>2. ToSet(Append(s, e)) = S
    BY <1>1, AppendedSequence DEF S
  <1> QED
    BY <1>1, <1>2, AppendProperties DEF IsSequence

LEMMA ReplacedIsSequence ==
  ASSUME NEW s, IsSequence(s), NEW t \in 1 .. Len(s), NEW e
  PROVE  /\ IsSequence([s EXCEPT ![t] = e])
         /\ Len([s EXCEPT ![t] = e]) = Len(s)
         /\ \A i \in 1 .. Len(s) : i # t => [s EXCEPT ![t] = e][i] = s[i]
         /\ [s EXCEPT ![t] = e][t] = e
  <1> DEFINE S == ToSet(s) \cup {e}
             u == [s EXCEPT ![t] = e]
  <1>1. s \in Seq(S) /\ e \in S
    BY SeqMonotonic DEF IsSequence
  <1> HIDE DEF S
  <1>2. /\ u \in Seq(S)
        /\ Len(u) = Len(s)
        /\ \A j \in 1 .. Len(s) : u[j] = IF j = t THEN e ELSE s[j]
    BY <1>1, ExceptSeq
  <1> HIDE DEF u
  <1>3. \A i \in 1 .. Len(u) : u[i] \in ToSet(u)
    BY <1>2, ToSetProperties
  <1>4. u \in Seq(ToSet(u))
    <2>1. u \in [1 .. Len(u) -> S] /\ Len(u) \in Nat
      BY <1>2, LenProperties
    <2>2. u \in [1 .. Len(u) -> ToSet(u)]
      BY <2>1, <1>3
    <2> QED
      BY <2>1, <2>2
  <1> QED
    BY <1>2, <1>4 DEF IsSequence, u

\* The index is about the checksums, the places and the sizes of the blocks.
LEMMA IndexedAlike ==
  ASSUME NEW blocks, NEW others, NEW index,
         Len(others) = Len(blocks),
         \A i \in 1 .. Len(blocks) : /\ others[i].checksum = blocks[i].checksum
                                    /\ others[i].offset = blocks[i].offset
                                    /\ others[i].bytes = blocks[i].bytes,
         Indexed(blocks, index)
  PROVE  Indexed(others, index)
  <1>1. \A i \in 1 .. Len(others) :
           /\ others[i].checksum # <<>>
           /\ Ascending(others[i].checksum)
           /\ index[i].firstKey = others[i].checksum[1].key
           /\ index[i].offset = others[i].offset
           /\ index[i].bytes = others[i].bytes
    BY DEF Indexed
  <1>2. \A i, j \in 1 .. Len(others) :
           i < j => /\ others[i].offset < others[j].offset
                    /\ Before(others[i].checksum, others[j].checksum)
    BY DEF Indexed
  <1> QED
    BY <1>1, <1>2 DEF Indexed

\* What the medium does to a file leaves what its checksums were computed from.
LEMMA GarbledInv ==
  ASSUME NEW file, FileInv(file), Undamaged(file), NEW after \in Garbled(file)
  PROVE  /\ FileInv(after)
         /\ Stored(after) = Stored(file)
         /\ Len(after.blocks) = Len(file.blocks)
         /\ \A i \in 1 .. Len(file.blocks) :
               after.blocks[i].checksum = file.blocks[i].checksum
         /\ after.index.checksum = file.index.checksum
  <1>1. IsFile(file)
    BY DEF FileInv
  <1> DEFINE Same(g) ==
               /\ g = [header |-> g.header, blocks |-> g.blocks, filter |-> g.filter,
                       index |-> g.index, footer |-> g.footer]
               /\ IsSection(g.filter) /\ g.filter.checksum = file.filter.checksum
               /\ IsSection(g.index) /\ g.index.checksum = file.index.checksum
               /\ IsSection(g.footer)
  <1>2. Same(file)
    BY <1>1 DEF IsFile
  <1>3. ASSUME after.blocks = file.blocks, Same(after)
        PROVE  /\ FileInv(after)
               /\ Stored(after) = Stored(file)
    <2>1. IsFile(after)
      BY <1>1, <1>3 DEF IsFile
    <2>2. Stored(after) = Stored(file)
      BY <1>3 DEF Stored
    <2> QED
      BY <2>1, <2>2, <1>3 DEF FileInv
  <1>4. CASE after = [file EXCEPT !.header = "KRNS 0"]
    <2>1. after.blocks = file.blocks /\ Same(after)
      BY <1>2, <1>4
    <2> QED
      BY <2>1, <1>3
  <1>5. CASE after = [file EXCEPT !.filter.says.bits = {}]
    <2>1. after = [file EXCEPT !.filter = [file.filter EXCEPT !.says = after.filter.says]]
      BY <1>2, <1>5 DEF IsSection
    <2>2. after.blocks = file.blocks /\ Same(after)
      BY <1>2, <2>1 DEF IsSection
    <2> QED
      BY <2>2, <1>3
  <1>6. CASE after = [file EXCEPT !.index.says = Tail(@)]
    <2>1. after.blocks = file.blocks /\ Same(after)
      BY <1>2, <1>6 DEF IsSection
    <2> QED
      BY <2>1, <1>3
  <1>7. CASE after = [file EXCEPT !.footer.says.index_offset = HeaderBytes]
    <2>1. after = [file EXCEPT !.footer = [file.footer EXCEPT !.says = after.footer.says]]
      BY <1>2, <1>7 DEF IsSection
    <2>2. after.blocks = file.blocks /\ Same(after)
      BY <1>2, <2>1 DEF IsSection
    <2> QED
      BY <2>2, <1>3
  <1>8. ASSUME NEW i \in DOMAIN file.blocks,
               after = [file EXCEPT !.blocks[i].says = Tail(@)]
        PROVE  /\ FileInv(after)
               /\ Stored(after) = Stored(file)
               /\ Len(after.blocks) = Len(file.blocks)
               /\ \A j \in 1 .. Len(file.blocks) :
                     after.blocks[j].checksum = file.blocks[j].checksum
    <2> DEFINE n == Len(file.blocks)
               block == [file.blocks[i] EXCEPT !.says = Tail(@)]
    <2>1. /\ i \in 1 .. n
          /\ file.blocks[i] \in BlockSection
          /\ file.blocks[i].says = file.blocks[i].checksum
          /\ file.blocks[i].checksum # <<>>
      BY <1>8, FileTypes DEF Undamaged, FileInv, Indexed
    <2>2. /\ block \in BlockSection
          /\ block.offset = file.blocks[i].offset
          /\ block.bytes = file.blocks[i].bytes
          /\ block.checksum = file.blocks[i].checksum
      <3>1. Tail(file.blocks[i].says) \in Seq(AnyRecord)
        BY <2>1, HeadTailProperties DEF BlockSection
      <3> QED
        BY <2>1, <3>1 DEF BlockSection
    <2>3. after.blocks = [file.blocks EXCEPT ![i] = block]
      BY <1>2, <1>8
    <2> HIDE DEF block
    <2>4. Same(after)
      BY <1>2, <1>8
    <2>5. /\ after.blocks \in Seq(BlockSection)
          /\ Len(after.blocks) = n
          /\ \A j \in 1 .. n : after.blocks[j] = IF j = i THEN block ELSE file.blocks[j]
      BY <2>1, <2>2, <2>3, ExceptSeq, FileTypes
    <2>6. \A j \in 1 .. n : /\ after.blocks[j].checksum = file.blocks[j].checksum
                            /\ after.blocks[j].offset = file.blocks[j].offset
                            /\ after.blocks[j].bytes = file.blocks[j].bytes
      BY <2>2, <2>5
    <2>7. IsFile(after)
      BY <1>1, <2>4, <2>5 DEF IsFile
    <2>8. Stored(after) = Stored(file)
      BY <2>5, <2>6 DEF Stored
    <2>9. Indexed(after.blocks, after.index.checksum)
      <3>1. after.index.checksum = file.index.checksum
        BY <2>4
      <3>2. Indexed(file.blocks, file.index.checksum)
        BY DEF FileInv
      <3> QED
        BY <2>5, <2>6, <3>1, <3>2, IndexedAlike
    <2>10. \A j \in 1 .. Len(after.blocks) : Fits(after.blocks[j])
      BY <2>5, <2>6 DEF FileInv, Fits
    <2>11. \E m : after.filter.checksum = FilterOf(KeysOf(Stored(after)), m)
      BY <2>4, <2>8 DEF FileInv
    <2> QED
      BY <2>5, <2>6, <2>7, <2>8, <2>9, <2>10, <2>11 DEF FileInv
  <1>9. after.index.checksum = file.index.checksum
    BY <1>2, <1>4, <1>5, <1>6, <1>7, <1>8 DEF Garbled, IsSection
  <1>10. CASE after.blocks = file.blocks
    BY <1>3, <1>4, <1>5, <1>6, <1>7, <1>8, <1>9, <1>10 DEF Garbled
  <1> QED
    BY <1>4, <1>5, <1>6, <1>7, <1>8, <1>9, <1>10 DEF Garbled

LEMMA AddedFileInv ==
  ASSUME FilesInv, NEW b, BuilderInv(b),
         AddFile(Finish(b), RecordsIn(b)),
         live' \subseteq live \cup {Len(files) + 1},
         damaged' = damaged
  PROVE  FilesInv'
  <1> DEFINE n == Len(files)
  <1>1. /\ IsSequence(files) /\ IsSequence(held) /\ Len(held) = n
        /\ n \in Nat /\ live \subseteq 1 .. n
    BY SequenceDomain DEF FilesInv
  <1>2. files' = Append(files, Finish(b)) /\ held' = Append(held, RecordsIn(b))
    BY DEF AddFile
  <1> HIDE DEF n
  <1>3. /\ IsSequence(files')
        /\ Len(files') = n + 1
        /\ \A t \in 1 .. n : files'[t] = files[t]
        /\ files'[n + 1] = Finish(b)
    BY <1>1, <1>2, AppendedIsSequence DEF n
  <1>4. /\ IsSequence(held')
        /\ Len(held') = n + 1
        /\ \A t \in 1 .. n : held'[t] = held[t]
        /\ held'[n + 1] = RecordsIn(b)
    BY <1>1, <1>2, AppendedIsSequence
  <1>5. live' \subseteq 1 .. n + 1
    BY <1>1 DEF n
  <1>6. ASSUME NEW t \in 1 .. n + 1
        PROVE  /\ FileInv(files'[t])
               /\ held'[t] = Stored(files'[t])
               /\ t \notin damaged' => Undamaged(files'[t])
    <2>1. CASE t \in 1 .. n
      BY <2>1, <1>3, <1>4 DEF FilesInv, n
    <2>2. CASE t = n + 1
      BY <2>2, <1>3, <1>4, FinishInv
    <2> QED
      BY <2>1, <2>2, <1>1
  <1> QED
    BY <1>3, <1>4, <1>5, <1>6 DEF FilesInv

\* A damaged file is what it was made of, to those who read its checksums.
LEMMA DamagedFile ==
  ASSUME FilesInv, NEW t \in live, Damage(t)
  PROVE  /\ FilesInv'
         /\ \A u \in 1 .. Len(files) :
               /\ FileInv(files[u])
               /\ FileInv(files'[u])
               /\ Len(files'[u].blocks) = Len(files[u].blocks)
               /\ \A i \in 1 .. Len(files[u].blocks) :
                     files'[u].blocks[i].checksum = files[u].blocks[i].checksum
               /\ files'[u].index.checksum = files[u].index.checksum
  <1>1. /\ IsSequence(files)
        /\ t \in 1 .. Len(files)
        /\ FileInv(files[t])
        /\ Undamaged(files[t])
    BY DEF FilesInv, Damage
  <1>2. PICK file \in Garbled(files[t]) : files' = [files EXCEPT ![t] = file]
    BY DEF Damage
  <1>3. /\ IsSequence(files')
        /\ Len(files') = Len(files)
        /\ \A u \in 1 .. Len(files) : u # t => files'[u] = files[u]
        /\ files'[t] = file
    <2> DEFINE after == [files EXCEPT ![t] = file]
    <2>1. /\ IsSequence(after)
          /\ Len(after) = Len(files)
          /\ \A u \in 1 .. Len(files) : u # t => after[u] = files[u]
          /\ after[t] = file
      BY <1>1, ReplacedIsSequence
    <2> HIDE DEF after
    <2>2. files' = after
      BY <1>2 DEF after
    <2> QED
      BY <2>1, <2>2
  <1>4. /\ FileInv(file)
        /\ Stored(file) = Stored(files[t])
        /\ Len(file.blocks) = Len(files[t].blocks)
        /\ \A i \in 1 .. Len(files[t].blocks) :
              file.blocks[i].checksum = files[t].blocks[i].checksum
        /\ file.index.checksum = files[t].index.checksum
    BY <1>1, GarbledInv
  <1>5. held' = held /\ live' = live /\ damaged' = damaged \cup {t}
    BY DEF Damage
  <1>6. FilesInv'
    BY <1>1, <1>3, <1>4, <1>5 DEF FilesInv
  <1>7. ASSUME NEW u \in 1 .. Len(files)
        PROVE  /\ FileInv(files[u])
               /\ FileInv(files'[u])
               /\ Len(files'[u].blocks) = Len(files[u].blocks)
               /\ \A i \in 1 .. Len(files[u].blocks) :
                     files'[u].blocks[i].checksum = files[u].blocks[i].checksum
               /\ files'[u].index.checksum = files[u].index.checksum
    <2>1. CASE u = t
      BY <2>1, <1>1, <1>3, <1>4
    <2>2. CASE u # t
      BY <2>2, <1>3 DEF FilesInv
    <2> QED
      BY <2>1, <2>2
  <1> QED
    BY <1>6, <1>7

LEMMA FilesStep ==
  ASSUME FilesInv, FlushInv, MergeInv, [Next]_vars
  PROVE  FilesInv'
  <1>1. ASSUME UNCHANGED fileVars
        PROVE  FilesInv'
    BY <1>1 DEF FilesInv, fileVars, IsSequence
  <1>2. CASE \/ \E r \in NextRecords : Replay(r) \/ Write(r)
             \/ StartWorker
             \/ \E r \in Candidates(MaxWrites + 1) : Rotate(r)
             \/ Shutdown
             \/ StartFlush
             \/ \E r \in rest : FlushRecord(r)
    BY <1>1, <1>2
    DEF Replay, Write, StartWorker, Rotate, Shutdown, StartFlush, FlushRecord
  <1>3. CASE \/ \E set \in SUBSET live :
                   \/ \E drop \in BOOLEAN : StartMerge(set, drop)
                   \/ RefuseMerge(set)
             \/ \E k \in Keys :
                   \/ \E i \in inputs : MergeKey(k, i)
                   \/ FailMerge(k)
    BY <1>1, <1>3 DEF StartMerge, RefuseMerge, MergeKey, FailMerge, WorkerFails
  <1>4. CASE FinishFlush
    <2>1. BuilderInv(builder) /\ RecordsIn(builder) = frozen
      BY <1>4 DEF FinishFlush, FlushInv
    <2>2. /\ AddFile(Finish(builder), RecordsIn(builder))
          /\ live' = live \cup {Len(files) + 1}
          /\ damaged' = damaged
      BY <1>4, <2>1 DEF FinishFlush
    <2> QED
      BY <2>1, <2>2, AddedFileInv
  <1>5. CASE FinishMerge
    <2>1. BuilderInv(builder) /\ damaged' = damaged
      BY <1>5 DEF FinishMerge, MergeInv
    <2>2. CASE builder.keys = <<>>
      <3>1. live' = live \ inputs /\ UNCHANGED <<files, held>>
        BY <1>5, <2>2 DEF FinishMerge
      <3> QED
        BY <3>1, <2>1 DEF FilesInv, IsSequence
    <2>3. CASE builder.keys # <<>>
      <3>1. /\ AddFile(Finish(builder), RecordsIn(builder))
            /\ live' = (live \ inputs) \cup {Len(files) + 1}
        BY <1>5, <2>3 DEF FinishMerge
      <3> QED
        BY <3>1, <2>1, AddedFileInv
    <2> QED
      BY <2>2, <2>3
  <1>6. CASE \E t \in live : Damage(t)
    BY <1>6, DamagedFile
  <1>7. CASE UNCHANGED vars
    BY <1>1, <1>7 DEF vars
  <1> QED
    BY <1>2, <1>3, <1>4, <1>5, <1>6, <1>7 DEF Next

-----------------------------------------------------------------------------
(* The flush *)

LEMMA EmptyBuilder ==
  /\ BuilderInv(NewBuilder)
  /\ RecordsIn(NewBuilder) = {}
  /\ NewBuilder.keys = <<>>
  <1>1. NewBuilder.block = <<>> /\ NewBuilder.blocks = <<>> /\ NewBuilder.keys = <<>>
    BY DEF NewBuilder
  <1>2. DOMAIN <<>> = {} /\ ToSet(<<>>) = {}
    BY DEF ToSet
  <1> QED
    BY <1>1, <1>2, NewBuilderInv DEF RecordsIn

LEMMA FlushStep ==
  ASSUME MemoryInv, FlushInv, [Next]_vars
  PROVE  FlushInv'
  <1>1. ASSUME UNCHANGED <<worker, frozen, builder, rest>>
        PROVE  FlushInv'
    BY <1>1 DEF FlushInv, Accepts
  <1>2. CASE \/ \E r \in NextRecords : Replay(r) \/ Write(r)
             \/ StartWorker
             \/ \E t \in live : Damage(t)
    BY <1>1, <1>2 DEF Replay, Write, StartWorker, Damage
  <1>3. CASE (\E r \in Candidates(MaxWrites + 1) : Rotate(r)) \/ Shutdown
    <2>1. Freeze /\ worker' = worker
      BY <1>3 DEF Rotate, Shutdown
    <2> QED
      BY <2>1 DEF Freeze, FlushInv
  <1>4. CASE StartFlush
    <2>1. frozen # {} /\ rest' = frozen /\ frozen' = frozen /\ builder' = NewBuilder
      BY <1>4 DEF StartFlush
    <2>2. BuilderInv(NewBuilder) /\ RecordsIn(NewBuilder) = {} /\ NewBuilder.keys = <<>>
      BY EmptyBuilder
    <2> QED
      BY <2>1, <2>2 DEF FlushInv, Accepts
  <1>5. ASSUME NEW r \in rest, FlushRecord(r)
        PROVE  FlushInv'
    <2>1. /\ worker = "flush" /\ worker' = "flush"
          /\ IsNext(r)
          /\ AddAccepts(builder, r)
          /\ builder' = AddRecord(builder, r)
          /\ rest' = rest \ {r}
          /\ frozen' = frozen
      BY <1>5 DEF FlushRecord
    <2>2. /\ frozen # {}
          /\ BuilderInv(builder)
          /\ RecordsIn(builder) \cup rest = frozen
      BY <2>1 DEF FlushInv
    <2>3. r \in frozen /\ rest \subseteq frozen /\ frozen \subseteq AnyRecord
      BY <2>2 DEF MemoryInv
    <2>4. /\ BuilderInv(builder')
          /\ RecordsIn(builder') = RecordsIn(builder) \cup {r}
          /\ builder'.keys = Append(builder.keys, r.key)
      BY <2>1, <2>2, <2>3, AddRecordInv
    <2>5. Last(builder'.keys) = r.key
      <3>1. builder.keys \in Seq(Keys) /\ r.key \in Keys
        BY <2>2, <2>3, BlockTypes DEF BuilderInv, AnyRecord
      <3> QED
        BY <3>1, <2>4, AppendedSequence
    <2>6. ASSUME NEW s \in rest'
          PROVE  r.key < s.key
      <3>1. s \in rest /\ s # r /\ s \in frozen
        BY <2>1, <2>3
      <3>2. r.key <= s.key
        BY <2>1, <3>1 DEF IsNext
      <3>3. r.key # s.key
        BY <3>1, <2>3 DEF MemoryInv, IsTable
      <3>4. r.key \in Int /\ s.key \in Int
        BY <3>1, <2>3, KeysAreIntegers DEF AnyRecord
      <3> QED
        BY ONLY <3>2, <3>3, <3>4
    <2>7. RecordsIn(builder') \cup rest' = frozen'
      BY <2>1, <2>2, <2>4
    <2> QED
      BY <2>1, <2>2, <2>4, <2>5, <2>6, <2>7 DEF FlushInv, Accepts
  <1>6. CASE FinishFlush \/ FinishMerge
    BY <1>6 DEF FinishFlush, FinishMerge, FlushInv
  <1>7. CASE \E set \in SUBSET live :
                \/ \E drop \in BOOLEAN : StartMerge(set, drop)
                \/ RefuseMerge(set)
    BY <1>7 DEF StartMerge, RefuseMerge, WorkerFails, FlushInv
  <1>8. CASE \E k \in Keys :
                \/ \E i \in inputs : MergeKey(k, i)
                \/ FailMerge(k)
    BY <1>8 DEF MergeKey, FailMerge, WorkerFails, FlushInv
  <1>9. CASE UNCHANGED vars
    BY <1>1, <1>9 DEF vars
  <1> QED
    BY <1>2, <1>3, <1>4, <1>5, <1>6, <1>7, <1>8, <1>9 DEF Next

-----------------------------------------------------------------------------
(* The merge *)

LEMMA StoredTypes ==
  ASSUME NEW file, FileInv(file)
  PROVE  Stored(file) \subseteq AnyRecord
  <1>1. \A i \in 1 .. Len(file.blocks) : file.blocks[i].checksum \in Seq(AnyRecord)
    BY FileTypes
  <1>2. \A i \in 1 .. Len(file.blocks) : ToSet(file.blocks[i].checksum) \subseteq AnyRecord
    BY <1>1, ToSetProperties
  <1> QED
    BY <1>2 DEF Stored

LEMMA AllRecordsTypes ==
  ASSUME MemoryInv, FilesInv
  PROVE  AllRecords \subseteq AnyRecord
  <1>1. \A t \in 1 .. Len(held) : held[t] \subseteq AnyRecord
    BY StoredTypes DEF FilesInv
  <1> QED
    BY <1>1 DEF AllRecords, MemoryInv

LEMMA MergedRecords ==
  ASSUME FilesInv, MergeInv, worker = "merge"
  PROVE  /\ Merged \subseteq AllRecords
         /\ RecordsIn(builder) \subseteq Merged
  <1>1. inputs \subseteq 1 .. Len(held)
    BY DEF FilesInv, MergeInv
  <1>2. RecordsIn(builder) \subseteq Merge(Merged, canDrop)
    BY DEF MergeInv
  <1> QED
    BY <1>1, <1>2 DEF Merged, Merge, AllRecords

\* The iterators at k, and what is ahead of all.
LEMMA AtTheTop ==
  ASSUME FilesInv, MergeInv, worker = "merge", NEW k \in Int, AtTop(k)
  PROVE  /\ SameKey(k) = {j \in inputs : /\ Valid(iterators[j])
                                         /\ CurrentRecord(iterators[j]).key = k}
         /\ \A j \in SameKey(k) : CurrentRecord(iterators[j]) \in Ahead(j)
         /\ \A j \in inputs : \A r \in Ahead(j) :
               \/ k < r.key
               \/ j \in SameKey(k) /\ r = CurrentRecord(iterators[j])
  <1>1. heap = {HeapItem(j, iterators[j]) : j \in {i \in inputs : Valid(iterators[i])}}
    BY DEF MergeInv, HeapItems
  <1>2. \A j \in inputs : FileInv(files[j]) /\ IterInv(files[j], iterators[j])
    BY DEF FilesInv, MergeInv
  <1>3. SameKey(k) = {j \in inputs : /\ Valid(iterators[j])
                                    /\ CurrentRecord(iterators[j]).key = k}
    <2>1. \A item \in heap : \E j \in inputs :
             /\ Valid(iterators[j])
             /\ item.iterator = j
             /\ item.key = CurrentRecord(iterators[j]).key
      BY <1>1 DEF HeapItem
    <2>2. \A j \in inputs :
             Valid(iterators[j]) =>
                \E item \in heap : /\ item.iterator = j
                                   /\ item.key = CurrentRecord(iterators[j]).key
      <3> SUFFICES ASSUME NEW j \in inputs, Valid(iterators[j])
                   PROVE  \E item \in heap : /\ item.iterator = j
                                             /\ item.key = CurrentRecord(iterators[j]).key
        OBVIOUS
      <3>1. HeapItem(j, iterators[j]) \in heap
        BY <1>1
      <3>2. /\ HeapItem(j, iterators[j]).iterator = j
            /\ HeapItem(j, iterators[j]).key = CurrentRecord(iterators[j]).key
        BY DEF HeapItem
      <3> QED
        BY <3>1, <3>2
    <2>3. \A j : j \in SameKey(k) <=>
                    \E item \in heap : item.key = k /\ j = item.iterator
      BY DEF SameKey
    <2> QED
      BY <2>1, <2>2, <2>3
  <1>4. ASSUME NEW j \in inputs, NEW r \in Ahead(j)
        PROVE  \/ k < r.key
               \/ j \in SameKey(k) /\ r = CurrentRecord(iterators[j])
    <2> DEFINE it == iterators[j]
               c == CurrentRecord(it)
    <2>1. /\ Valid(it)
          /\ c \in AnyRecord
          /\ r = c \/ c.key < r.key
          /\ r \in AnyRecord
      BY <1>2, <1>4, IteratorStands DEF Ahead
    <2>2. HeapItem(j, it) \in heap
      BY <2>1, <1>1
    <2>3. k <= c.key
      BY <2>2 DEF AtTop, HeapItem
    <2>4. c.key \in Int /\ r.key \in Int
      BY <2>1, KeysAreIntegers DEF AnyRecord
    <2>5. CASE r = c /\ c.key = k
      BY <2>1, <2>5, <1>3
    <2>6. CASE ~(r = c /\ c.key = k)
      <3>1. k < r.key
        <4> HIDE DEF c
        <4> QED
          BY ONLY <2>1, <2>3, <2>4, <2>6, k \in Int
      <3> QED
        BY <3>1
    <2> QED
      BY <2>5, <2>6
  <1>5. \A j \in SameKey(k) : CurrentRecord(iterators[j]) \in Ahead(j)
    BY <1>2, <1>3, IteratorStands DEF Ahead
  <1> QED
    BY <1>3, <1>4, <1>5

\* Of the versions of the key, the winner is the newest.
LEMMA WinnerIsNewest ==
  ASSUME MemoryInv, FilesInv, SequenceInv, MergeInv, worker = "merge",
         NEW k \in Int, AtTop(k), NEW i, IsWinner(k, i)
  PROVE  Newest(Versions(Merged, k)) = CurrentRecord(iterators[i])
  <1> DEFINE w == CurrentRecord(iterators[i])
             V == Versions(Merged, k)
  <1>1. i \in SameKey(k) /\ i \in inputs /\ w.key = k /\ w \in Ahead(i)
    BY AtTheTop DEF IsWinner
  <1>2. w \in V
    BY <1>1 DEF MergeInv, Merged, Versions
  <1>3. ASSUME NEW r \in V
        PROVE  \E j \in SameKey(k) : r = CurrentRecord(iterators[j])
    <2>1. r.key = k /\ \E j \in inputs : r \in held[j]
      BY DEF Versions, Merged
    <2>2. PICK j \in inputs : r \in held[j]
      BY <2>1
    <2>3. r \in Ahead(j)
      <3> SUFFICES ASSUME r \notin Ahead(j)
                   PROVE  FALSE
        OBVIOUS
      <3>1. r \in Passed(j)
        BY <2>2 DEF Passed
      <3>2. r.key < w.key
        BY <3>1, <1>1 DEF MergeInv
      <3> QED
        BY <3>2, <1>1, <2>1
    <2> QED
      BY <2>1, <2>3, AtTheTop
  <1>4. V \subseteq AllRecords /\ V \subseteq AnyRecord
    BY MergedRecords, AllRecordsTypes DEF Versions
  <1>5. \A r \in V : r.sequence <= w.sequence
    BY <1>3 DEF IsWinner
  <1>6. ASSUME NEW r \in V, \A s \in V : s.sequence <= r.sequence
        PROVE  r = w
    <2>1. r.sequence \in Nat /\ w.sequence \in Nat
      BY <1>2, <1>4 DEF AnyRecord
    <2>2. r.sequence = w.sequence
      BY <2>1, <1>2, <1>5, <1>6
    <2> QED
      BY <2>2, <1>2, <1>4 DEF SequenceInv
  <1> HIDE DEF V, w
  <1>7. Newest(V) = w
    BY <1>2, <1>5, <1>6 DEF Newest
  <1> QED
    BY <1>7 DEF V, w

LEMMA HeldForever ==
  ASSUME FilesInv, NEW record, held' = Append(held, record)
  PROVE  AllRecords' \subseteq active' \cup frozen' \cup AllRecords \cup record
  <1>1. /\ IsSequence(held)
        /\ Len(held') = Len(held) + 1
        /\ \A t \in 1 .. Len(held) : held'[t] = held[t]
        /\ held'[Len(held) + 1] = record
    BY AppendedIsSequence DEF FilesInv
  <1>2. \A t \in 1 .. Len(held') : t \in 1 .. Len(held) \/ t = Len(held) + 1
    BY <1>1, SequenceDomain
  <1> QED
    BY <1>1, <1>2 DEF AllRecords

\* A step writes one record, or none.
LEMMA RecordsStep ==
  ASSUME MemoryInv, FilesInv, FlushInv, MergeInv, [Next]_vars
  PROVE  \/ AllRecords' \subseteq AllRecords /\ lastSequence' = lastSequence
         \/ \E r \in NextRecords : /\ AllRecords' \subseteq AllRecords \cup {r}
                                   /\ lastSequence' = r.sequence
  <1> DEFINE Goal ==
               \/ AllRecords' \subseteq AllRecords /\ lastSequence' = lastSequence
               \/ \E r \in NextRecords : /\ AllRecords' \subseteq AllRecords \cup {r}
                                         /\ lastSequence' = r.sequence
  <1> USE DEF memtableVars, fileVars
  <1>2. ASSUME UNCHANGED <<active, frozen, held, lastSequence>>
        PROVE  Goal
    BY <1>2 DEF AllRecords
  <1>3. ASSUME NEW r \in NextRecords, Replay(r) \/ Write(r)
        PROVE  Goal
    <2>1. /\ lastSequence' = r.sequence
          /\ frozen' = frozen /\ held' = held
          /\ active' \subseteq active \cup {r}
      BY <1>3 DEF Replay, Write, PutRecord, MemtablePut
    <2> QED
      BY <2>1 DEF AllRecords
  <1>4. CASE (\E r \in Candidates(MaxWrites + 1) : Rotate(r)) \/ Shutdown
    <2>1. Freeze /\ held' = held /\ lastSequence' = lastSequence
      BY <1>4 DEF Rotate, Shutdown
    <2> QED
      BY <2>1 DEF Freeze, AllRecords
  <1>5. CASE FinishFlush
    <2>1. /\ held' = Append(held, frozen)
          /\ active' = active /\ frozen' = {} /\ lastSequence' = lastSequence
      BY <1>5 DEF FinishFlush, AddFile
    <2>2. AllRecords' \subseteq active' \cup frozen' \cup AllRecords \cup frozen
      BY <2>1, HeldForever
    <2>3. active \subseteq AllRecords /\ frozen \subseteq AllRecords
      BY DEF AllRecords
    <2> QED
      BY <2>1, <2>2, <2>3
  <1>6. CASE FinishMerge
    <2>1. worker = "merge" /\ active' = active /\ frozen' = frozen
             /\ lastSequence' = lastSequence
      BY <1>6 DEF FinishMerge
    <2>2. active \subseteq AllRecords /\ frozen \subseteq AllRecords
      BY DEF AllRecords
    <2>3. CASE builder.keys = <<>>
      BY <1>2, <1>6, <2>1, <2>3 DEF FinishMerge
    <2>4. CASE builder.keys # <<>>
      <3>1. held' = Append(held, RecordsIn(builder))
        BY <1>6, <2>4 DEF FinishMerge, AddFile
      <3>2. RecordsIn(builder) \subseteq AllRecords
        BY <2>1, MergedRecords
      <3>3. AllRecords' \subseteq active' \cup frozen' \cup AllRecords \cup RecordsIn(builder)
        BY <3>1, HeldForever
      <3> QED
        BY <3>2, <3>3, <2>1, <2>2
    <2> QED
      BY <2>3, <2>4
  <1>7. CASE \/ StartWorker \/ StartFlush
             \/ \E r \in rest : FlushRecord(r)
             \/ \E t \in live : Damage(t)
    BY <1>2, <1>7 DEF StartWorker, StartFlush, FlushRecord, Damage
  <1>8. CASE \/ \E set \in SUBSET live :
                   \/ \E drop \in BOOLEAN : StartMerge(set, drop)
                   \/ RefuseMerge(set)
             \/ \E k \in Keys :
                   \/ \E i \in inputs : MergeKey(k, i)
                   \/ FailMerge(k)
    BY <1>2, <1>8 DEF StartMerge, RefuseMerge, MergeKey, FailMerge, WorkerFails
  <1>9. CASE UNCHANGED vars
    BY <1>2, <1>9 DEF vars
  <1> QED
    BY <1>3, <1>4, <1>5, <1>6, <1>7, <1>8, <1>9 DEF Next

LEMMA SequenceStep ==
  ASSUME MemoryInv, FilesInv, SequenceInv, FlushInv, MergeInv, [Next]_vars
  PROVE  SequenceInv'
  <1>1. CASE AllRecords' \subseteq AllRecords /\ lastSequence' = lastSequence
    BY <1>1 DEF SequenceInv
  <1>2. ASSUME NEW r \in NextRecords,
               AllRecords' \subseteq AllRecords \cup {r},
               lastSequence' = r.sequence
        PROVE  SequenceInv'
    <2>1. r.sequence = lastSequence + 1 /\ lastSequence \in Nat
      BY CandidateTypes DEF NextRecords, MemoryInv
    <2>2. \A s \in AllRecords : s.sequence \in Nat
      BY AllRecordsTypes DEF AnyRecord
    <2>3. \A s \in AllRecords : s.sequence < r.sequence
      BY <2>1, <2>2 DEF SequenceInv
    <2>4. \A s \in AllRecords' : s.sequence <= lastSequence'
      BY <1>2, <2>1, <2>2, <2>3
    <2>5. ASSUME NEW s \in AllRecords', NEW t \in AllRecords', s.sequence = t.sequence
          PROVE  s = t
      <3>1. CASE s \in AllRecords /\ t \in AllRecords
        BY <2>5, <3>1 DEF SequenceInv
      <3>2. CASE s = r \/ t = r
        BY <3>2, <1>2, <2>1, <2>2, <2>3, <2>5
      <3> QED
        BY <3>1, <3>2, <1>2
    <2> QED
      BY <2>4, <2>5 DEF SequenceInv
  <1> QED
    BY <1>1, <1>2, RecordsStep

LEMMA StartMergeStep ==
  ASSUME FilesInv, NEW set \in SUBSET live, NEW drop, StartMerge(set, drop)
  PROVE  MergeInv'
  <1>1. /\ inputs' = set
        /\ builder' = NewBuilder
        /\ iterators' = [j \in set |-> CHOOSE it \in Iterators(files[j]) : TRUE]
        /\ heap' = HeapItems(set, iterators')
        /\ files' = files /\ held' = held /\ live' = live
    BY DEF StartMerge, fileVars
  <1>2. ASSUME NEW j \in set
        PROVE  /\ IterInv(files[j], iterators'[j])
               /\ Ahead(j)' = held[j]
    <2>1. iterators'[j] \in Iterators(files[j])
      BY <1>1 DEF StartMerge
    <2>2. FileInv(files[j]) /\ held[j] = Stored(files[j])
      BY DEF FilesInv
    <2> QED
      BY <2>1, <2>2, <1>1, IteratorStarts DEF Ahead
  <1>3. RecordsIn(builder') =
           {r \in Merge(Merged', canDrop') :
               \A j \in set : r.key \notin KeysOf(Ahead(j)')}
    <2>1. RecordsIn(builder') = {}
      BY <1>1, EmptyBuilder
    <2>2. ASSUME NEW r \in Merged'
          PROVE  \E j \in set : r.key \in KeysOf(Ahead(j)')
      BY <1>1, <1>2 DEF Merged, KeysOf
    <2> QED
      BY <2>1, <2>2 DEF Merge
  <1>4. \A j \in set : Passed(j)' = {}
    BY <1>1, <1>2 DEF Passed
  <1>5. BuilderInv(builder') /\ \A k : Accepts(builder', k)
    BY <1>1, EmptyBuilder DEF Accepts
  <1> QED
    BY <1>1, <1>2, <1>3, <1>4, <1>5 DEF MergeInv

\* The iterators at the key pass it, the others have nothing of it.
LEMMA IteratorsPassTheKey ==
  ASSUME FilesInv, MergeInv, worker = "merge", NEW k \in Int, AtTop(k),
         NEW i, MergeKey(k, i)
  PROVE  \A j \in inputs :
            /\ IterInv(files[j], iterators'[j])
            /\ Ahead(j)' = {r \in Ahead(j) : k < r.key}
            /\ \A r \in Ahead(j) : r \notin Ahead(j)' => r.key = k
  <1> SUFFICES ASSUME NEW j \in inputs
               PROVE  /\ IterInv(files[j], iterators'[j])
                      /\ Ahead(j)' = {r \in Ahead(j) : k < r.key}
                      /\ \A r \in Ahead(j) : r \notin Ahead(j)' => r.key = k
    OBVIOUS
  <1> DEFINE it == iterators[j]
             c == CurrentRecord(it)
  <1>1. FileInv(files[j]) /\ IterInv(files[j], it) /\ files' = files
    BY DEF FilesInv, MergeInv, MergeKey, fileVars
  <1>2. \A r \in Ahead(j) : k < r.key \/ (j \in SameKey(k) /\ r = c)
    BY AtTheTop
  <1>3. CASE j \in SameKey(k)
    <2>1. Valid(it) /\ c.key = k
      BY <1>3, AtTheTop
    <2>2. iterators'[j] \in Advanced(files[j], it)
      BY <1>3 DEF MergeKey
    <2>3. IterInv(files[j], iterators'[j]) /\ Ahead(j)' = Ahead(j) \ {c}
      BY <2>1, <2>2, <1>1, IteratorAdvances DEF Ahead
    <2> QED
      BY <2>1, <2>3, <1>2
  <1>4. CASE j \notin SameKey(k)
    <2>1. iterators'[j] = it
      BY <1>4 DEF MergeKey
    <2>2. Ahead(j)' = Ahead(j)
      BY <2>1, <1>1 DEF Ahead
    <2> QED
      BY <2>1, <2>2, <1>1, <1>2, <1>4
  <1> QED
    BY <1>3, <1>4

\* What the merge keeps of the key at the top.
LEMMA MergedAtKey ==
  ASSUME MemoryInv, FilesInv, SequenceInv, MergeInv, worker = "merge",
         NEW k \in Int, AtTop(k), NEW i, IsWinner(k, i)
  PROVE  {r \in Merge(Merged, canDrop) : r.key = k} =
            IF IsWritten(CurrentRecord(iterators[i]))
            THEN {CurrentRecord(iterators[i])} ELSE {}
  <1> DEFINE w == CurrentRecord(iterators[i])
  <1>1. Newest(Versions(Merged, k)) = w
    BY WinnerIsNewest
  <1>2. i \in inputs /\ w.key = k /\ w \in Ahead(i)
    BY AtTheTop DEF IsWinner
  <1>3. w \in Merged
    BY <1>2 DEF MergeInv, Merged
  <1> HIDE DEF w
  <1>4. ASSUME NEW r
        PROVE  r \in Merge(Merged, canDrop) /\ r.key = k <=> r = w /\ IsWritten(w)
    BY <1>1, <1>2, <1>3 DEF Merge, IsWritten
  <1>5. {r \in Merge(Merged, canDrop) : r.key = k} = IF IsWritten(w) THEN {w} ELSE {}
    BY <1>4
  <1> QED
    BY <1>5 DEF w

LEMMA MergeKeyStep ==
  ASSUME MemoryInv, FilesInv, SequenceInv, MergeInv,
         NEW k \in Keys, NEW i \in inputs, MergeKey(k, i)
  PROVE  MergeInv'
  <1> DEFINE w == CurrentRecord(iterators[i])
             kept == IF IsWritten(w) THEN {w} ELSE {}
  <1>1. /\ worker = "merge" /\ worker' = "merge"
        /\ AtTop(k) /\ IsWinner(k, i) /\ k \in Int
        /\ IsWritten(w) => AddAccepts(builder, w)
        /\ builder' = IF IsWritten(w) THEN AddRecord(builder, w) ELSE builder
        /\ inputs' = inputs /\ canDrop' = canDrop
        /\ files' = files /\ held' = held /\ live' = live
    BY KeysAreIntegers DEF MergeKey, fileVars
  <1>2. /\ inputs \subseteq live
        /\ BuilderInv(builder)
        /\ \A j \in inputs : Ahead(j) \subseteq held[j]
        /\ \A j \in inputs : \A r \in Ahead(j) : Accepts(builder, r.key)
        /\ \A j, l \in inputs : \A r \in Passed(j), s \in Ahead(l) : r.key < s.key
        /\ RecordsIn(builder) =
              {r \in Merge(Merged, canDrop) :
                  \A j \in inputs : r.key \notin KeysOf(Ahead(j))}
    BY <1>1 DEF MergeInv
  <1>3. w.key = k /\ w \in Ahead(i) /\ w \in AnyRecord
    <2>1. w.key = k /\ w \in Ahead(i)
      BY <1>1, AtTheTop DEF IsWinner
    <2>2. held[i] \subseteq AnyRecord
      BY <1>2, StoredTypes DEF FilesInv
    <2> QED
      BY <2>1, <2>2, <1>2
  <1>4. \A j \in inputs :
           /\ IterInv(files[j], iterators'[j])
           /\ Ahead(j)' = {r \in Ahead(j) : k < r.key}
           /\ \A r \in Ahead(j) : r \notin Ahead(j)' => r.key = k
    BY <1>1, IteratorsPassTheKey
  <1>5. heap' = HeapItems(inputs, iterators')
    <2>1. heap = HeapItems(inputs, iterators)
      BY <1>1 DEF MergeInv
    <2>2. heap' = {item \in heap : item.iterator \notin SameKey(k)}
                     \cup HeapItems(SameKey(k), iterators')
      BY DEF MergeKey
    <2>3. SameKey(k) \subseteq inputs
      BY <1>1, AtTheTop
    <2>4. \A j \in inputs : j \notin SameKey(k) => iterators'[j] = iterators[j]
      BY DEF MergeKey
    <2> QED
      BY <2>1, <2>2, <2>3, <2>4 DEF HeapItems, HeapItem
  <1> HIDE DEF w
  <1>6. /\ BuilderInv(builder')
        /\ RecordsIn(builder') = RecordsIn(builder) \cup kept
        /\ \A j \in inputs : \A r \in Ahead(j)' : Accepts(builder', r.key)
    <2>1. CASE IsWritten(w)
      <3>1. /\ BuilderInv(builder')
            /\ RecordsIn(builder') = RecordsIn(builder) \cup {w}
            /\ builder'.keys = Append(builder.keys, w.key)
        BY <2>1, <1>1, <1>2, <1>3, AddRecordInv
      <3>2. builder.keys \in Seq(Keys) /\ w.key \in Keys
        BY <1>2, <1>3, BlockTypes DEF BuilderInv, AnyRecord
      <3>3. Last(builder'.keys) = k
        BY <3>1, <3>2, <1>3, AppendedSequence
      <3> QED
        BY <2>1, <3>1, <3>3, <1>4 DEF Accepts
    <2>2. CASE ~IsWritten(w)
      BY <2>2, <1>1, <1>2, <1>4
    <2> QED
      BY <2>1, <2>2
  <1>7. ASSUME NEW j \in inputs, NEW l \in inputs,
               NEW r \in Passed(j)', NEW s \in Ahead(l)'
        PROVE  r.key < s.key
    <2>1. s \in Ahead(l) /\ k < s.key /\ r \in held[j] /\ r \notin Ahead(j)'
      BY <1>1, <1>4 DEF Passed
    <2>2. CASE r \in Ahead(j)
      BY <2>1, <2>2, <1>4
    <2>3. CASE r \notin Ahead(j)
      BY <2>1, <2>3, <1>2 DEF Passed
    <2> QED
      BY <2>2, <2>3
  <1>8. Merged' = Merged
    BY <1>1 DEF Merged
  <1>9. RecordsIn(builder') =
           {r \in Merge(Merged, canDrop) :
               \A j \in inputs : r.key \notin KeysOf(Ahead(j)')}
    <2>1. {r \in Merge(Merged, canDrop) : r.key = k} = kept
      BY <1>1, MergedAtKey DEF w
    <2>2. ASSUME NEW r
          PROVE  (\A j \in inputs : r.key \notin KeysOf(Ahead(j)'))
                    <=> \/ \A j \in inputs : r.key \notin KeysOf(Ahead(j))
                        \/ r.key = k
      <3>1. ASSUME r.key = k, NEW j \in inputs
            PROVE  r.key \notin KeysOf(Ahead(j)')
        BY <3>1, <1>1, <1>4 DEF KeysOf
      <3>2. ASSUME NEW j \in inputs, r.key \notin KeysOf(Ahead(j))
            PROVE  r.key \notin KeysOf(Ahead(j)')
        BY <3>2, <1>4 DEF KeysOf
      <3>3. ASSUME NEW j \in inputs, r.key \in KeysOf(Ahead(j)), r.key # k
            PROVE  r.key \in KeysOf(Ahead(j)')
        BY <3>3, <1>4 DEF KeysOf
      <3> QED
        BY <3>1, <3>2, <3>3
    <2> HIDE DEF kept
    <2> QED
      BY <2>1, <2>2, <1>2, <1>6
  <1>10. \A j \in inputs : Ahead(j)' \subseteq held[j]
    BY <1>2, <1>4
  <1> QED
    BY <1>1, <1>2, <1>4, <1>5, <1>6, <1>7, <1>8, <1>9, <1>10 DEF MergeInv

\* A damaged input is noticed when it is read; what was read of it stays.
LEMMA DamageDuringMerge ==
  ASSUME FilesInv, MergeInv, worker = "merge", NEW t \in live, Damage(t)
  PROVE  MergeInv'
  <1>1. /\ inputs' = inputs /\ builder' = builder /\ iterators' = iterators
        /\ heap' = heap /\ canDrop' = canDrop /\ held' = held /\ live' = live
    BY DEF Damage, mergeVars
  <1>2. ASSUME NEW j \in inputs
        PROVE  /\ IterInv(files'[j], iterators[j])
               /\ Ahead(j)' = Ahead(j)
    <2> DEFINE it == iterators[j]
    <2>1. j \in 1 .. Len(files) /\ IterInv(files[j], it)
      BY DEF FilesInv, MergeInv
    <2>2. /\ Len(files'[j].blocks) = Len(files[j].blocks)
          /\ Len(files[j].blocks) \in Nat
          /\ \A i \in 1 .. Len(files[j].blocks) :
                files'[j].blocks[i].checksum = files[j].blocks[i].checksum
          /\ files'[j].index.checksum = files[j].index.checksum
      BY <2>1, DamagedFile, FileTypes
    <2>3. \A i \in it.block + 1 .. Len(files[j].blocks) : i \in 1 .. Len(files[j].blocks)
      <3>1. it.block \in 1 .. Len(files[j].blocks) + 1
        BY <2>1 DEF IterInv
      <3> QED
        BY <3>1, <2>2
    <2>4. IterInv(files'[j], it)
      BY <2>1, <2>2, <2>3 DEF IterInv
    <2>5. Remaining(files'[j], it) = Remaining(files[j], it)
      BY <2>2, <2>3 DEF Remaining
    <2> QED
      BY <2>4, <2>5, <1>1 DEF Ahead
  <1>3. Merged' = Merged /\ \A j \in inputs : Passed(j)' = Passed(j)
    BY <1>1, <1>2 DEF Merged, Passed
  <1> QED
    BY <1>1, <1>2, <1>3 DEF MergeInv

LEMMA MergeStep ==
  ASSUME MemoryInv, FilesInv, SequenceInv, FlushInv, MergeInv, [Next]_vars
  PROVE  MergeInv'
  <1>1. ASSUME UNCHANGED <<worker, builder, mergeVars, fileVars>>
        PROVE  MergeInv'
    BY <1>1 DEF MergeInv, mergeVars, fileVars, Ahead, Passed, Merged
  <1>2. CASE \/ \E r \in NextRecords : Replay(r) \/ Write(r)
             \/ StartWorker
             \/ \E r \in Candidates(MaxWrites + 1) : Rotate(r)
             \/ Shutdown
    BY <1>1, <1>2 DEF Replay, Write, StartWorker, Rotate, Shutdown
  <1>3. CASE \/ StartFlush
             \/ \E r \in rest : FlushRecord(r)
             \/ FinishFlush
             \/ FinishMerge
    BY <1>3 DEF StartFlush, FlushRecord, FinishFlush, FinishMerge, MergeInv
  <1>4. CASE \/ \E set \in SUBSET live : RefuseMerge(set)
             \/ \E k \in Keys : FailMerge(k)
    BY <1>4 DEF RefuseMerge, FailMerge, WorkerFails, MergeInv
  <1>5. CASE \E set \in SUBSET live : \E drop \in BOOLEAN : StartMerge(set, drop)
    BY <1>5, StartMergeStep
  <1>6. CASE \E k \in Keys : \E i \in inputs : MergeKey(k, i)
    BY <1>6, MergeKeyStep
  <1>7. ASSUME NEW t \in live, Damage(t)
        PROVE  MergeInv'
    <2>1. CASE worker = "merge"
      BY <1>7, <2>1, DamageDuringMerge
    <2>2. CASE worker # "merge"
      BY <1>7, <2>2 DEF Damage, MergeInv
    <2> QED
      BY <2>1, <2>2
  <1>8. CASE UNCHANGED vars
    BY <1>1, <1>8 DEF vars
  <1> QED
    BY <1>2, <1>3, <1>4, <1>5, <1>6, <1>7, <1>8 DEF Next

-----------------------------------------------------------------------------
(* The worker and the bounds *)

LEMMA WorkerStep ==
  ASSUME WorkerInv, [Next]_vars
  PROVE  WorkerInv'
  <1>1. ASSUME UNCHANGED <<worker, rest, builder, mergeVars>>
        PROVE  WorkerInv'
    BY <1>1 DEF WorkerInv, mergeVars
  <1>2. CASE \/ \E r \in NextRecords : Replay(r) \/ Write(r)
             \/ StartWorker
             \/ \E r \in Candidates(MaxWrites + 1) : Rotate(r)
             \/ Shutdown
             \/ \E t \in live : Damage(t)
    BY <1>1, <1>2 DEF Replay, Write, StartWorker, Rotate, Shutdown, Damage
  <1>3. CASE \/ StartFlush
             \/ \E r \in rest : FlushRecord(r)
             \/ FinishFlush
    BY <1>3 DEF StartFlush, FlushRecord, FinishFlush, WorkerInv, mergeVars
  <1>4. CASE \/ FinishMerge
             \/ \E set \in SUBSET live : RefuseMerge(set)
             \/ \E k \in Keys : FailMerge(k)
    <2>1. DOMAIN <<>> = {}
      OBVIOUS
    <2> QED
      BY <2>1, <1>4
      DEF FinishMerge, RefuseMerge, MayMerge, FailMerge, WorkerFails, WorkerInv
  <1>5. CASE \E set \in SUBSET live : \E drop \in BOOLEAN : StartMerge(set, drop)
    BY <1>5 DEF StartMerge, MayMerge, WorkerInv
  <1>6. CASE \E k \in Keys : \E i \in inputs : MergeKey(k, i)
    BY <1>6 DEF MergeKey, WorkerInv
  <1>7. CASE UNCHANGED vars
    BY <1>1, <1>7 DEF vars
  <1> QED
    BY <1>2, <1>3, <1>4, <1>5, <1>6, <1>7 DEF Next

LEMMA BoundsStep ==
  ASSUME MemoryInv, FilesInv, FlushInv, MergeInv, BoundsInv, [Next]_vars
  PROVE  BoundsInv'
  <1> USE DEF memtableVars, fileVars
  <1>1. lastSequence' \in 0 .. MaxWrites /\ AllRecords' \subseteq TableRecords
    <2>1. CASE AllRecords' \subseteq AllRecords /\ lastSequence' = lastSequence
      BY <2>1 DEF BoundsInv
    <2>2. ASSUME NEW r \in NextRecords,
                 AllRecords' \subseteq AllRecords \cup {r},
                 lastSequence' = r.sequence
          PROVE  lastSequence' \in 0 .. MaxWrites /\ AllRecords' \subseteq TableRecords
      <3>1. /\ r \in Candidates(lastSequence + 1)
            /\ r.sequence = lastSequence + 1
            /\ lastSequence < MaxWrites
            /\ lastSequence \in Nat
        BY CandidateTypes DEF NextRecords, MemoryInv
      <3>2. lastSequence + 1 \in 1 .. MaxWrites
        BY <3>1, TablesAssumption
      <3>3. r \in TableRecords
        BY <3>1, <3>2 DEF TableRecords
      <3>4. lastSequence + 1 \in 0 .. MaxWrites
        BY <3>2
      <3> QED
        BY <2>2, <3>1, <3>3, <3>4 DEF BoundsInv
    <2> QED
      BY <2>1, <2>2, RecordsStep
  <1>2. Len(files) \in Nat
    BY SequenceDomain DEF FilesInv
  <1>3. damaged' \subseteq 1 .. Len(files')
    <2>1. ASSUME UNCHANGED <<files, damaged>>
          PROVE  damaged' \subseteq 1 .. Len(files')
      BY <2>1 DEF BoundsInv
    <2>2. ASSUME NEW file, files' = Append(files, file), damaged' = damaged
          PROVE  damaged' \subseteq 1 .. Len(files')
      <3>1. Len(files') = Len(files) + 1
        BY <2>2, AppendedIsSequence DEF FilesInv
      <3> QED
        BY <2>2, <3>1, <1>2 DEF BoundsInv
    <2>3. CASE \/ \E r \in NextRecords : Replay(r) \/ Write(r)
               \/ StartWorker
               \/ \E r \in Candidates(MaxWrites + 1) : Rotate(r)
               \/ Shutdown
               \/ StartFlush
               \/ \E r \in rest : FlushRecord(r)
      BY <2>1, <2>3
      DEF Replay, Write, StartWorker, Rotate, Shutdown, StartFlush, FlushRecord
    <2>4. CASE \/ \E set \in SUBSET live :
                     \/ \E drop \in BOOLEAN : StartMerge(set, drop)
                     \/ RefuseMerge(set)
               \/ \E k \in Keys :
                     \/ \E i \in inputs : MergeKey(k, i)
                     \/ FailMerge(k)
      BY <2>1, <2>4 DEF StartMerge, RefuseMerge, MergeKey, FailMerge, WorkerFails
    <2>5. CASE FinishFlush \/ FinishMerge
      BY <2>1, <2>2, <2>5 DEF FinishFlush, FinishMerge, AddFile
    <2>6. CASE \E t \in live : Damage(t)
      <3>1. PICK t \in live : Damage(t)
        BY <2>6
      <3>2. PICK file : files' = [files EXCEPT ![t] = file]
        BY <3>1 DEF Damage
      <3>3. Len(files') = Len(files) /\ t \in 1 .. Len(files)
        BY <3>2, ReplacedIsSequence DEF FilesInv
      <3> QED
        BY <3>1, <3>3 DEF Damage, BoundsInv
    <2>7. CASE UNCHANGED vars
      BY <2>1, <2>7 DEF vars
    <2> QED
      BY <2>3, <2>4, <2>5, <2>6, <2>7 DEF Next
  <1>4. mode' \in {"recovering", "running", "closed"} /\ replayed' \in BOOLEAN
    <2>1. CASE \/ \E r \in NextRecords : Replay(r) \/ Write(r)
               \/ StartWorker
               \/ \E r \in Candidates(MaxWrites + 1) : Rotate(r)
               \/ Shutdown
      BY <2>1 DEF Replay, Write, StartWorker, Rotate, Shutdown, Freeze, BoundsInv
    <2>2. ASSUME UNCHANGED memtableVars
          PROVE  mode' \in {"recovering", "running", "closed"} /\ replayed' \in BOOLEAN
      BY <2>2 DEF BoundsInv
    <2>3. CASE \/ StartFlush \/ FinishFlush \/ FinishMerge
               \/ \E r \in rest : FlushRecord(r)
               \/ \E t \in live : Damage(t)
      BY <2>2, <2>3 DEF StartFlush, FinishFlush, FinishMerge, FlushRecord, Damage
    <2>4. CASE \/ \E set \in SUBSET live :
                     \/ \E drop \in BOOLEAN : StartMerge(set, drop)
                     \/ RefuseMerge(set)
               \/ \E k \in Keys :
                     \/ \E i \in inputs : MergeKey(k, i)
                     \/ FailMerge(k)
      BY <2>2, <2>4 DEF StartMerge, RefuseMerge, MergeKey, FailMerge, WorkerFails
    <2>5. CASE UNCHANGED vars
      BY <2>2, <2>5 DEF vars
    <2> QED
      BY <2>1, <2>3, <2>4, <2>5 DEF Next
  <1> QED
    BY <1>1, <1>3, <1>4 DEF BoundsInv

-----------------------------------------------------------------------------
LEMMA InitIInv == Init => IInv
  <1> SUFFICES ASSUME Init
               PROVE  IInv
    OBVIOUS
  <1>1. /\ active = {} /\ frozen = {} /\ memoryUsage = 0 /\ lastSequence = 0
        /\ worker = "idle" /\ files = <<>> /\ held = <<>> /\ live = {}
        /\ rest = {} /\ inputs = {} /\ heap = {} /\ iterators = <<>>
        /\ builder = NewBuilder /\ canDrop = FALSE
        /\ mode = "recovering" /\ replayed = FALSE /\ damaged = {}
    BY DEF Init
  <1>2. Len(<<>>) = 0 /\ \A t \in 1 .. 0 : FALSE
    OBVIOUS
  <1>3. IsSequence(<<>>)
    BY EmptySeq DEF IsSequence
  <1>4. 0 <= TargetBytes
    BY TablesAssumption
  <1>5. MemoryInv
    BY <1>1, <1>4 DEF MemoryInv, MemtableFitsTarget, IsTable
  <1>6. FilesInv
    BY <1>1, <1>2, <1>3 DEF FilesInv
  <1>7. AllRecords = {}
    BY <1>1, <1>2 DEF AllRecords
  <1>8. SequenceInv
    BY <1>7 DEF SequenceInv
  <1>9. FlushInv /\ MergeInv
    BY <1>1 DEF FlushInv, MergeInv
  <1>10. WorkerInv
    <2>1. DOMAIN <<>> = {}
      OBVIOUS
    <2> QED
      BY <2>1, <1>1 DEF WorkerInv
  <1>11. BoundsInv
    <2>1. 0 \in 0 .. MaxWrites
      BY TablesAssumption
    <2> QED
      BY <2>1, <1>1, <1>7 DEF BoundsInv
  <1> QED
    BY <1>5, <1>6, <1>8, <1>9, <1>10, <1>11 DEF IInv

LEMMA NextIInv == IInv /\ [Next]_vars => IInv'
  BY MemoryStep, FilesStep, SequenceStep, FlushStep, MergeStep, WorkerStep,
     BoundsStep
  DEF IInv

THEOREM InductiveInvariant == Spec => []IInv
  BY InitIInv, NextIInv, PTL DEF Spec

-----------------------------------------------------------------------------
(* The theorems *)

\* TypeOK: the variables hold what their C++ counterparts can hold, and bloom_keys_
\* holds the keys of the records given to the builder's add().
THEOREM TableTypesAreCorrect == Spec => []TypeOK
  <1>1. IInv => TypeOK
    <2> SUFFICES ASSUME IInv
                 PROVE  TypeOK
      OBVIOUS
    <2> USE DEF IInv
    <2>1. /\ active \subseteq TableRecords /\ IsTable(active)
          /\ frozen \subseteq TableRecords /\ IsTable(frozen)
          /\ memoryUsage \in Int
      BY DEF MemoryInv, BoundsInv, AllRecords
    <2>2. DOMAIN files = 1 .. Len(files) /\ DOMAIN held = DOMAIN files
      BY SequenceDomain DEF FilesInv
    <2>3. live \subseteq DOMAIN files /\ damaged \subseteq DOMAIN files
      BY <2>2 DEF FilesInv, BoundsInv
    <2>4. rest \subseteq frozen
      BY DEF FlushInv, WorkerInv
    <2>5. BuilderInv(builder) /\ RecordsIn(builder) \subseteq AllRecords
      <3>1. CASE worker = "flush"
        BY <3>1 DEF FlushInv, AllRecords
      <3>2. CASE worker = "merge"
        BY <3>2, MergedRecords DEF MergeInv
      <3>3. CASE worker \in {"idle", "failed"}
        BY <3>3, EmptyBuilder DEF WorkerInv
      <3> QED
        BY <3>1, <3>2, <3>3 DEF WorkerInv
    <2>6. /\ RecordsIn(builder) \subseteq TableRecords
          /\ KeysOf(RecordsIn(builder)) = ToSet(builder.keys)
      BY <2>5 DEF BoundsInv, BuilderInv
    <2>7. inputs \subseteq live /\ \A item \in heap : item.iterator \in inputs
      <3>1. CASE worker = "merge"
        BY <3>1 DEF MergeInv, HeapItems, HeapItem
      <3>2. CASE worker # "merge"
        BY <3>2 DEF WorkerInv
      <3> QED
        BY <3>1, <3>2
    <2> QED
      BY <2>1, <2>2, <2>3, <2>4, <2>6, <2>7 DEF TypeOK, WorkerInv, BoundsInv
  <1> QED
    BY <1>1, InductiveInvariant, PTL

\* MemtableFitsTarget: prepareForWriteLocked() rotates before the target of the
\* Memtable is exceeded, unless recovery or a single record exceeds it.
THEOREM MemtablesFitTheTarget == Spec => []MemtableFitsTarget
  <1>1. IInv => MemtableFitsTarget
    BY DEF IInv, MemoryInv
  <1> QED
    BY <1>1, InductiveInvariant, PTL

\* AddIsNeverRefused: neither a flush nor a merge gives add() a key that is not
\* above the last one.
THEOREM RecordsAreAdded == Spec => []AddIsNeverRefused
  <1>1. IInv => AddIsNeverRefused
    <2> SUFFICES ASSUME IInv
                 PROVE  AddIsNeverRefused
      OBVIOUS
    <2>1. worker = "flush" => \A r \in rest : AddAccepts(builder, r)
      BY DEF IInv, FlushInv, Accepts, AddAccepts
    <2>2. ASSUME worker = "merge", NEW k \in Keys, NEW i \in inputs,
                 AtTop(k), IsWinner(k, i)
          PROVE  AddAccepts(builder, CurrentRecord(iterators[i]))
      <3>1. CurrentRecord(iterators[i]) \in Ahead(i)
        BY <2>2, AtTheTop, KeysAreIntegers DEF IInv, IsWinner
      <3> QED
        BY <3>1, <2>2 DEF IInv, MergeInv, Accepts, AddAccepts
    <2> QED
      BY <2>1, <2>2 DEF AddIsNeverRefused
  <1> QED
    BY <1>1, InductiveInvariant, PTL

\* NoFalseNegatives: mayContain() says yes to every key that was given to the
\* builder's add(), whatever the hash.
THEOREM FiltersNeverDeny == Spec => []NoFalseNegatives
  <1>1. IInv => NoFalseNegatives
    <2> SUFFICES ASSUME IInv,
                        NEW t \in DOMAIN files, NEW r \in held[t], Opens(files[t])
                 PROVE  MayContain(files[t].filter.says, r.key)
      BY DEF NoFalseNegatives
    <2>1. FileInv(files[t]) /\ held[t] = Stored(files[t])
      BY SequenceDomain DEF IInv, FilesInv
    <2>2. files[t].filter.says = files[t].filter.checksum
      BY DEF Opens, FilterIsLoaded, Readable
    <2>3. r.key \in KeysOf(Stored(files[t]))
      BY <2>1 DEF KeysOf
    <2> QED
      BY <2>1, <2>2, <2>3, NoFilterDeniesItsKeys DEF FileInv
  <1> QED
    BY <1>1, InductiveInvariant, PTL

\* LookupsFindTheRecord: lookupEntry() finds exactly the record of the key, at
\* every block boundary, and a damaged file can only make it throw.
THEOREM LookupsAreExact == Spec => []LookupsFindTheRecord
  <1>1. IInv => LookupsFindTheRecord
    <2> SUFFICES ASSUME IInv, NEW t \in DOMAIN files, NEW k \in Keys
                 PROVE  \/ LookupEntry(files[t], k) = {Versions(held[t], k)}
                        \/ LookupEntry(files[t], k) = {} /\ t \in damaged
      BY DEF LookupsFindTheRecord
    <2>1. /\ FileInv(files[t])
          /\ held[t] = Stored(files[t])
          /\ t \notin damaged => Undamaged(files[t])
      BY SequenceDomain DEF IInv, FilesInv
    <2> QED
      BY <2>1, LookupIsExact
  <1> QED
    BY <1>1, InductiveInvariant, PTL

\* MergeIsExact: when the heap of compact() is empty, the builder has been given
\* the newest version of every key of the inputs, without the tombstones to drop.
THEOREM MergesAreExact == Spec => []MergeIsExact
  <1>1. IInv => MergeIsExact
    <2> SUFFICES ASSUME IInv, worker = "merge", heap = {}
                 PROVE  RecordsIn(builder) = Merge(Merged, canDrop)
      BY DEF MergeIsExact, Merged
    <2>1. ASSUME NEW i \in inputs
          PROVE  Ahead(i) = {}
      <3>1. ~Valid(iterators[i])
        BY DEF IInv, MergeInv, HeapItems
      <3>2. FileInv(files[i]) /\ IterInv(files[i], iterators[i])
        BY DEF IInv, FilesInv, MergeInv
      <3> QED
        BY <3>1, <3>2, IteratorStands DEF Ahead
    <2>2. \A i \in inputs : KeysOf(Ahead(i)) = {}
      BY <2>1 DEF KeysOf
    <2> QED
      BY <2>2 DEF IInv, MergeInv
  <1> QED
    BY <1>1, InductiveInvariant, PTL

\* BlocksFitTarget: add() begins a new block before the block, its count and its
\* checksum would be longer than the target.
THEOREM BlocksFitTheTarget == Spec => []BlocksFitTarget
  <1>1. IInv => BlocksFitTarget
    <2> SUFFICES ASSUME IInv, NEW t \in DOMAIN files, NEW i \in DOMAIN files[t].blocks
                 PROVE  \/ files[t].blocks[i].bytes <= BlockSize
                        \/ Len(files[t].blocks[i].checksum) = 1
      BY DEF BlocksFitTarget
    <2>1. FileInv(files[t])
      BY SequenceDomain DEF IInv, FilesInv
    <2> QED
      BY <2>1, FileTypes DEF FileInv, Fits
  <1> QED
    BY <1>1, InductiveInvariant, PTL

-----------------------------------------------------------------------------
(* The count of the bytes in the active Memtable *)

\* Its bytes are a finite set, and memory_usage_ is how many there are.
AccountInv == IsFiniteSet(Bytes(active)) /\ MemoryIsAccounted

\* The bytes of a table with one record.
LEMMA BytesOfRecord ==
  ASSUME NEW r \in AnyRecord
  PROVE  /\ IsFiniteSet(Bytes({r}))
         /\ Cardinality(Bytes({r})) = EntryBytes(r)
  <1> DEFINE n == EntryBytes(r)
  <1>1. n \in Nat
    BY EntryBytesType
  <1>2. Bytes({r}) = {r} \X (1 .. n)
    BY DEF Bytes
  <1> HIDE DEF n
  <1>3. IsFiniteSet(1 .. n) /\ Cardinality(1 .. n) = n
    BY <1>1, FS_Interval
  <1>4. IsFiniteSet({r}) /\ Cardinality({r}) = 1
    BY FS_Singleton
  <1>5. /\ IsFiniteSet({r} \X (1 .. n))
        /\ Cardinality({r} \X (1 .. n)) = Cardinality({r}) * Cardinality(1 .. n)
    BY <1>3, <1>4, FS_Product
  <1>6. Cardinality({r} \X (1 .. n)) = n
    BY ONLY <1>1, <1>3, <1>4, <1>5
  <1> QED
    BY <1>2, <1>5, <1>6 DEF n

\* What a record brings into a table, or takes from it, is its own estimate.
LEMMA BytesOfTables ==
  ASSUME NEW table, NEW r \in AnyRecord, r \notin table
  PROVE  /\ IsFiniteSet(Bytes(table)) <=> IsFiniteSet(Bytes(table \cup {r}))
         /\ IsFiniteSet(Bytes(table)) =>
               Cardinality(Bytes(table \cup {r}))
                  = Cardinality(Bytes(table)) + EntryBytes(r)
  <1>1. /\ Bytes(table \cup {r}) = Bytes(table) \cup Bytes({r})
        /\ Bytes(table) \cap Bytes({r}) = {}
    BY DEF Bytes
  <1>2. IsFiniteSet(Bytes({r})) /\ Cardinality(Bytes({r})) = EntryBytes(r)
    BY BytesOfRecord
  <1>3. IsFiniteSet(Bytes(table \cup {r})) => IsFiniteSet(Bytes(table))
    BY <1>1, FS_Subset
  <1>4. ASSUME IsFiniteSet(Bytes(table))
        PROVE  /\ IsFiniteSet(Bytes(table \cup {r}))
               /\ Cardinality(Bytes(table \cup {r}))
                     = Cardinality(Bytes(table)) + EntryBytes(r)
    <2>1. /\ IsFiniteSet(Bytes(table) \cup Bytes({r}))
          /\ Cardinality(Bytes(table) \cup Bytes({r}))
                = Cardinality(Bytes(table)) + Cardinality(Bytes({r}))
                     - Cardinality(Bytes(table) \cap Bytes({r}))
      BY <1>2, <1>4, FS_Union
    <2>2. Cardinality(Bytes(table) \cap Bytes({r})) = 0
      BY <1>1, FS_EmptySet
    <2>3. Cardinality(Bytes(table)) \in Nat /\ EntryBytes(r) \in Nat
      BY <1>4, EntryBytesType, FS_CardinalityType
    <2> DEFINE c == Cardinality(Bytes(table))
               n == EntryBytes(r)
    <2>4. /\ IsFiniteSet(Bytes(table \cup {r}))
          /\ Cardinality(Bytes(table \cup {r})) = c + n - 0
      BY <1>1, <1>2, <2>1, <2>2
    <2> HIDE DEF c, n
    <2>5. c + n - 0 = c + n
      BY <2>3 DEF c, n
    <2> QED
      BY <2>4, <2>5 DEF c, n
  <1> QED
    BY <1>3, <1>4

\* What is counted for the key of a record can be taken from the count; what is
\* left are the bytes of the others.
LEMMA OldBytesAreCounted ==
  ASSUME MemoryInv, AccountInv, NEW r \in AnyRecord
  PROVE  /\ IsFiniteSet(Bytes({s \in active : s.key # r.key}))
         /\ Cardinality(Bytes({s \in active : s.key # r.key})) = memoryUsage - OldBytes(r)
         /\ OldBytes(r) \in Nat
  <1> DEFINE others == {s \in active : s.key # r.key}
  <1>1. /\ IsFiniteSet(Bytes(active))
        /\ memoryUsage = Cardinality(Bytes(active))
    BY DEF AccountInv, MemoryIsAccounted
  <1>2. CASE Versions(active, r.key) = {}
    <2>1. others = active /\ OldBytes(r) = 0
      BY <1>2 DEF Versions, OldBytes
    <2>2. memoryUsage \in Int
      BY DEF MemoryInv
    <2> QED
      BY <1>1, <2>1, <2>2
  <1>3. CASE Versions(active, r.key) # {}
    <2> DEFINE old == CHOOSE s \in Versions(active, r.key) : TRUE
    <2>1. old \in active /\ old.key = r.key /\ OldBytes(r) = EntryBytes(old)
      BY <1>3 DEF Versions, OldBytes
    <2> HIDE DEF old
    <2>2. old \in AnyRecord /\ \A s \in active : s.key = r.key => s = old
      BY <2>1 DEF MemoryInv, IsTable
    <2>3. active = others \cup {old} /\ old \notin others
      BY <2>1, <2>2
    <2> HIDE DEF others
    <2>4. /\ IsFiniteSet(Bytes(others)) <=> IsFiniteSet(Bytes(others \cup {old}))
          /\ IsFiniteSet(Bytes(others)) =>
                Cardinality(Bytes(others \cup {old}))
                   = Cardinality(Bytes(others)) + EntryBytes(old)
      BY <2>2, <2>3, BytesOfTables
    <2>5. /\ IsFiniteSet(Bytes(others))
          /\ memoryUsage = Cardinality(Bytes(others)) + EntryBytes(old)
      BY <1>1, <2>3, <2>4
    <2>6. Cardinality(Bytes(others)) \in Nat /\ EntryBytes(old) \in Nat
      BY <2>2, <2>5, EntryBytesType, FS_CardinalityType
    <2>7. Cardinality(Bytes(others)) = memoryUsage - OldBytes(r) /\ OldBytes(r) \in Nat
      BY <2>1, <2>5, <2>6
    <2> QED
      BY <2>5, <2>7 DEF others
  <1> QED
    BY <1>2, <1>3

\* put() over an old version of the key takes that version's bytes away.
LEMMA ReplacedBytes ==
  ASSUME MemoryInv, AccountInv, NEW r \in AnyRecord, PutRecord(r)
  PROVE  AccountInv'
  <1> DEFINE others == {s \in active : s.key # r.key}
  <1>1. /\ active' = others \cup {r} /\ r \notin others
        /\ memoryUsage' = memoryUsage - OldBytes(r) + EntryBytes(r)
    BY DEF PutRecord, MemtablePut, ProjectedUsage
  <1>2. IsFiniteSet(Bytes(others)) /\ Cardinality(Bytes(others)) = memoryUsage - OldBytes(r)
    BY OldBytesAreCounted
  <1> HIDE DEF others
  <1>3. /\ IsFiniteSet(Bytes(others \cup {r}))
        /\ Cardinality(Bytes(others \cup {r})) = Cardinality(Bytes(others)) + EntryBytes(r)
    BY <1>1, <1>2, BytesOfTables
  <1> QED
    BY <1>1, <1>2, <1>3 DEF AccountInv, MemoryIsAccounted

LEMMA NoBytes == active = {} /\ memoryUsage = 0 => AccountInv
  <1>1. Bytes({}) = {}
    BY DEF Bytes
  <1> QED
    BY <1>1, FS_EmptySet DEF AccountInv, MemoryIsAccounted

LEMMA AccountStep ==
  ASSUME MemoryInv, AccountInv, [Next]_vars
  PROVE  AccountInv'
  <1>1. ASSUME UNCHANGED <<active, memoryUsage>>
        PROVE  AccountInv'
    BY <1>1 DEF AccountInv, MemoryIsAccounted, Bytes, EntryBytes
  <1>2. CASE \E r \in NextRecords : Replay(r) \/ Write(r)
    <2>1. PICK r \in NextRecords : PutRecord(r)
      BY <1>2 DEF Replay, Write
    <2> QED
      BY <2>1, PutRecordInv, ReplacedBytes
  <1>3. CASE (\E r \in Candidates(MaxWrites + 1) : Rotate(r)) \/ Shutdown
    <2>1. active' = {} /\ memoryUsage' = 0
      BY <1>3 DEF Rotate, Shutdown, Freeze
    <2>2. (active = {} /\ memoryUsage = 0 => AccountInv)'
      BY NoBytes, PTL
    <2> QED
      BY <2>1, <2>2
  <1>4. CASE \/ StartWorker \/ StartFlush \/ FinishFlush \/ FinishMerge
             \/ \E r \in rest : FlushRecord(r)
             \/ \E t \in live : Damage(t)
    BY <1>1, <1>4
    DEF StartWorker, StartFlush, FinishFlush, FinishMerge, FlushRecord, Damage,
        memtableVars
  <1>5. CASE \/ \E set \in SUBSET live :
                   \/ \E drop \in BOOLEAN : StartMerge(set, drop)
                   \/ RefuseMerge(set)
             \/ \E k \in Keys :
                   \/ \E i \in inputs : MergeKey(k, i)
                   \/ FailMerge(k)
    BY <1>1, <1>5
    DEF StartMerge, RefuseMerge, MergeKey, FailMerge, WorkerFails, memtableVars
  <1>6. CASE UNCHANGED vars
    BY <1>1, <1>6 DEF vars, memtableVars
  <1> QED
    BY <1>2, <1>3, <1>4, <1>5, <1>6 DEF Next

LEMMA AccountIsInvariant == Spec => [](MemoryInv /\ AccountInv)
  <1>1. Init => AccountInv
    BY NoBytes DEF Init
  <1>2. IInv /\ AccountInv /\ [Next]_vars => AccountInv'
    BY AccountStep DEF IInv
  <1>3. IInv => MemoryInv
    BY DEF IInv
  <1> QED
    BY <1>1, <1>2, <1>3, InductiveInvariant, PTL DEF Spec

\* MemoryIsAccounted: memory_usage_ never drifts from what the Memtable holds
\* (memtable.cpp:34-36, 73-76 and 108-111).
THEOREM MemoryUsageIsExact == Spec => []MemoryIsAccounted
  <1>1. AccountInv => MemoryIsAccounted
    BY DEF AccountInv
  <1> QED
    BY <1>1, AccountIsInvariant, PTL

\* memory_usage_ is a size_t from which put(), remove() and the projection of the
\* rotation take the estimate of the old version: that never wraps below zero.
NothingWraps ==
    /\ memoryUsage \in Nat
    /\ \A r \in AnyRecord : OldBytes(r) \in 0 .. memoryUsage

THEOREM MemoryUsageNeverWraps == Spec => []NothingWraps
  <1>1. ASSUME MemoryInv, AccountInv
        PROVE  NothingWraps
    <2>1. memoryUsage \in Nat
      BY <1>1, FS_CardinalityType DEF AccountInv, MemoryIsAccounted
    <2>2. ASSUME NEW r \in AnyRecord
          PROVE  OldBytes(r) \in 0 .. memoryUsage
      <3> DEFINE left == Cardinality(Bytes({s \in active : s.key # r.key}))
      <3>1. /\ left \in Nat /\ OldBytes(r) \in Nat
            /\ left = memoryUsage - OldBytes(r)
        BY <1>1, OldBytesAreCounted, FS_CardinalityType
      <3> HIDE DEF left
      <3> QED
        BY <2>1, <3>1
    <2> QED
      BY <2>1, <2>2 DEF NothingWraps
  <1> QED
    BY <1>1, AccountIsInvariant, PTL
=============================================================================
