------------------------------ MODULE Sstable ------------------------------
(***************************************************************************)
(* The SSTable file: what SstableBuilder makes of the records given to     *)
(* add(), and what SstableReader and its iterator make of the file.        *)
(*                                                                         *)
(* A file is a header, data blocks, a Bloom filter, a sparse index and a   *)
(* footer.  A section has its place in the file, the number of its bytes,  *)
(* what the bytes say and what its CRC32 was computed from; no two         *)
(* contents that occur have the same one.  Bytes read from a place where   *)
(* no section of that size begins do not carry a matching CRC32 either.    *)
(***************************************************************************)
EXTENDS Compaction, BloomFilter, SequencesExt

CONSTANTS
    KeyBytes,       \* key.size(), of every key
    BlockSize       \* target_blockSize_

ASSUME SstableAssumption ==
    /\ KeyBytes \in [Keys -> Nat]
    /\ BlockSize \in Nat
    /\ Keys \subseteq DOMAIN Hash

\* [sequence:8][operation:1][key_len:4][value_len:4][key][value]
RecordBytes(r) == 8 + 1 + 4 + 4 + KeyBytes[r.key] + r.valueBytes

Section(offset, bytes, content) ==
    [offset |-> offset, bytes |-> bytes, says |-> content, checksum |-> content]

\* The magic and the version.  They are compared, not summed.
Magic == "KRNS 1"
HeaderBytes == 4 + 4

-----------------------------------------------------------------------------
(* SstableBuilder *)

\* The blocks written, the position in the file, current_block_ and its size,
\* sparse_index_, and bloom_keys_, whose last element is last_key_.
NewBuilder ==
    [blocks |-> <<>>, position |-> HeaderBytes, block |-> <<>>, blockBytes |-> 0,
     index |-> <<>>, keys |-> <<>>]

\* The records given to add().
RecordsIn(b) ==
    ToSet(b.block) \cup UNION {ToSet(b.blocks[i].says) : i \in DOMAIN b.blocks}

AddAccepts(b, r) == b.keys # <<>> => Last(b.keys) < r.key

FlushCurrentBlock(b) ==
    LET bytes == 4 + b.blockBytes + 4
    IN  IF b.block = <<>> THEN b
        ELSE [b EXCEPT
                !.blocks = Append(@, Section(b.position, bytes, b.block)),
                !.position = @ + bytes,
                !.block = <<>>,
                !.blockBytes = 0,
                !.index = Append(@, [firstKey |-> Head(b.block).key,
                                     offset |-> b.position, bytes |-> bytes])]

\* Mutation: the checksum of the block is not counted.
BlockIsFullWithoutChecksum(b, r) ==
    b.block # <<>> /\ 4 + b.blockBytes + RecordBytes(r) > BlockSize

BlockIsFull(b, r) ==
    b.block # <<>> /\ 4 + b.blockBytes + RecordBytes(r) + 4 > BlockSize

\* Mutation: a key that begins a block is not remembered for the filter.
AddForgettingKey(b, r) ==
    LET c == IF BlockIsFull(b, r) THEN FlushCurrentBlock(b) ELSE b
    IN  [c EXCEPT !.block = Append(@, r),
                  !.blockBytes = @ + RecordBytes(r),
                  !.keys = IF c.block = <<>> /\ c.blocks # <<>> THEN @
                           ELSE Append(@, r.key)]

AddRecord(b, r) ==
    LET c == IF BlockIsFull(b, r) THEN FlushCurrentBlock(b) ELSE b
    IN  [c EXCEPT !.block = Append(@, r),
                  !.blockBytes = @ + RecordBytes(r),
                  !.keys = Append(@, r.key)]

FilterBytes(filter) == 4 + 4 + ByteCount(filter) + 4

IndexBytes(index) ==
    4 + MapThenSumSet(LAMBDA i : 4 + KeyBytes[index[i].firstKey] + 8 + 4,
                      DOMAIN index) + 4

FooterBytes == 8 + 8 + 8 + 8 + 4

\* The last block, then the other sections; the footer says where they are.
Finish(builder) ==
    LET b == FlushCurrentBlock(builder)
        content == FilterOf(ToSet(b.keys), Len(b.keys))
        filter == Section(b.position, FilterBytes(content), content)
        index == Section(filter.offset + filter.bytes, IndexBytes(b.index), b.index)
    IN  [header |-> Magic,
         blocks |-> b.blocks,
         filter |-> filter,
         index |-> index,
         footer |-> Section(index.offset + index.bytes, FooterBytes,
                            [bloom_offset |-> filter.offset,
                             bloom_size |-> filter.bytes,
                             index_offset |-> index.offset,
                             index_size |-> index.bytes])]

-----------------------------------------------------------------------------
(* SstableReader *)

\* A read of so many bytes at an offset finds the section and its checksum
\* matches; otherwise the reader throws.
Readable(section, offset, bytes) ==
    /\ section.offset = offset
    /\ section.bytes = bytes
    /\ section.says = section.checksum

HeaderIsRead(file) == file.header = Magic

\* The footer is sought in the last bytes of the file.
FooterIsRead(file) == Readable(file.footer, file.footer.offset, FooterBytes)

\* A filter and an index that some builder wrote pass the checks of their
\* lengths and counts.
FilterIsLoaded(file) ==
    Readable(file.filter, file.footer.says.bloom_offset,
             file.footer.says.bloom_size)

IndexIsLoaded(file) ==
    Readable(file.index, file.footer.says.index_offset,
             file.footer.says.index_size)

\* The constructor returns.
Opens(file) ==
    /\ HeaderIsRead(file)
    /\ FooterIsRead(file)
    /\ FilterIsLoaded(file)
    /\ IndexIsLoaded(file)

\* The records that can be read where an entry of the index points.
BlockRecords(file, entry) ==
    {file.blocks[i].says :
        i \in {j \in DOMAIN file.blocks :
                  Readable(file.blocks[j], entry.offset, entry.bytes)}}

\* Mutation: a key that begins a block is sought in the block before.
CandidatesBefore(index, k) ==
    {i \in DOMAIN index :
        /\ \A j \in 2 .. i : index[j].firstKey < k
        /\ i # Len(index) => k <= index[i + 1].firstKey}

\* The block that lookupEntry() picks: the first keys are not above k up to
\* it, and the next one is.
CandidateBlocks(index, k) ==
    {i \in DOMAIN index :
        /\ \A j \in 2 .. i : index[j].firstKey <= k
        /\ i # Len(index) => k < index[i + 1].firstKey}

\* The scan of a block ends at the key, or at the first one behind it.
Scanned(records, k) ==
    {records[i] : i \in {j \in DOMAIN records :
                            /\ records[j].key = k
                            /\ \A n \in 1 .. j - 1 : records[n].key < k}}

\* What the constructor and lookupEntry() answer: {{r}} for a record, {{}} for
\* nullopt, {} for an exception.
LookupEntry(file, k) ==
    IF ~Opens(file) THEN {}
    ELSE IF \/ ~MayContain(file.filter.says, k)
            \/ file.index.says = <<>>
            \/ k < file.index.says[1].firstKey
    THEN {{}}
    ELSE UNION {{Scanned(records, k) :
                    records \in BlockRecords(file, file.index.says[i])} :
                       i \in CandidateBlocks(file.index.says, k)}

-----------------------------------------------------------------------------
(* SstableReader::Iterator.  It has the index of its reader and, of the     *)
(* block it is in, the records from the current one on; {} is an exception. *)

AtBlock(file, index, i) ==
    IF i > Len(index) THEN {[index |-> index, block |-> i, records |-> <<>>]}
    ELSE {[index |-> index, block |-> i, records |-> records] :
             records \in BlockRecords(file, index[i]) \ {<<>>}}

Iterators(file) ==
    IF Opens(file) THEN AtBlock(file, file.index.says, 1) ELSE {}

Valid(it) == it.records # <<>>
CurrentRecord(it) == Head(it.records)

Advanced(file, it) ==
    IF Len(it.records) > 1 THEN {[it EXCEPT !.records = Tail(@)]}
    ELSE AtBlock(file, it.index, it.block + 1)
=============================================================================
