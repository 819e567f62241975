----------------------------- MODULE Compaction -----------------------------
(***************************************************************************)
(* Records, tables and the pure algorithms on them: what a Memtable keeps, *)
(* which version of a key a reader believes, which SSTables a compaction   *)
(* consumes and what it writes.                                            *)
(*                                                                         *)
(* Keys are integers: the code only compares them.  The bytes of a value   *)
(* are abstracted by the sequence number of the write that supplied them,  *)
(* so that two writes never store the same value.  A table, in memory or   *)
(* in an SSTable, is the set of its records.                               *)
(***************************************************************************)
EXTENDS Integers, FiniteSets

CONSTANTS
    Keys,           \* the keys of the store, ordered as integers
    L0FileTrigger   \* l0_file_trigger_: how many L0 files start a compaction

ASSUME KeysAssumption == Keys \subseteq Int
ASSUME TriggerAssumption == L0FileTrigger \in Nat \ {0}

Operations == {"PUT", "DELETE"}

Record == [key : Keys, sequence : Nat, operation : Operations]

\* What get() hands back for a key that has no value: NOT_FOUND and DELETED
\* both say so.  No sequence number is negative.
Absent == -1

KeysOf(table) == {r.key : r \in table}

Versions(records, k) == {r \in records : r.key = k}

\* A Memtable is a map and an SSTable rejects duplicates: one record per key.
IsTable(table) == \A r, s \in table : r.key = s.key => r = s

\* The highest sequence number wins, whatever the operation.
Newest(records) ==
    CHOOSE r \in records : \A s \in records : s.sequence <= r.sequence

\* The value a reader derives from the versions of one key.
ValueOf(versions) ==
    IF versions = {} \/ Newest(versions).operation = "DELETE"
        THEN Absent
        ELSE Newest(versions).sequence

ValueIn(records, k) == ValueOf(Versions(records, k))

-----------------------------------------------------------------------------
(* Memtable::put and Memtable::remove.  A delete is kept as a tombstone.   *)

MemtableAccepts(table, r) ==
    \A s \in Versions(table, r.key) : s.sequence < r.sequence

MemtablePut(table, r) == {s \in table : s.key # r.key} \cup {r}

HighestSequence(table) == Newest(table).sequence

-----------------------------------------------------------------------------
(* SSTable metadata: the path <<level, id>> and the inclusive key range.   *)

Levels == {0, 1}
Path == Levels \X (Nat \ {0})
Metadata == [path : Path, smallest_key : Keys, largest_key : Keys]

LevelOf(file) == file.path[1]
AtLevel(files, level) == {f \in files : LevelOf(f) = level}

SmallestKey(keys) == CHOOSE k \in keys : \A j \in keys : k <= j
LargestKey(keys) == CHOOSE k \in keys : \A j \in keys : j <= k

MetadataFor(path, table) ==
    [path |-> path,
     smallest_key |-> SmallestKey(KeysOf(table)),
     largest_key |-> LargestKey(KeysOf(table))]

InRange(k, file) == file.smallest_key <= k /\ k <= file.largest_key

-----------------------------------------------------------------------------
(* CompactionPolicy *)

RangesOverlap(aSmallest, aLargest, bSmallest, bLargest) ==
    ~(aLargest < bSmallest \/ bLargest < aSmallest)

ShouldCompact(liveFiles) ==
    Cardinality(AtLevel(liveFiles, 0)) >= L0FileTrigger

\* Mutation: the bottom level is left out of the plan.
PickLevelZeroOnly(liveFiles) == AtLevel(liveFiles, 0)

\* Every L0 file and every L1 file that overlaps their common envelope.
PickCompaction(liveFiles) ==
    LET l0 == AtLevel(liveFiles, 0)
        smallest == SmallestKey({f.smallest_key : f \in l0})
        largest == LargestKey({f.largest_key : f \in l0})
    IN  l0 \cup {f \in AtLevel(liveFiles, 1) :
                    RangesOverlap(smallest, largest,
                                  f.smallest_key, f.largest_key)}

\* The output goes to the bottom level, so tombstones may always disappear.
OutputLevel == 1
CanDropTombstones == OutputLevel = 1

-----------------------------------------------------------------------------
(* Compactor::compact: the result of the k-way merge of the inputs.        *)

\* Mutation: tombstones are skipped before the winner is chosen.
MergeSkippingTombstones(records, dropTombstones) ==
    LET kept == {r \in records : ~(dropTombstones /\ r.operation = "DELETE")}
    IN  {r \in kept : r = Newest(Versions(kept, r.key))}

Merge(records, dropTombstones) ==
    {r \in records :
        /\ r = Newest(Versions(records, r.key))
        /\ ~(dropTombstones /\ r.operation = "DELETE")}
=============================================================================
