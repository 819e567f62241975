--------------------------- MODULE Sstable_proofs ---------------------------
(***************************************************************************)
(* Proofs about Sstable for any keys, hashes and sizes: what the builder   *)
(* keeps from one record to the next, what a finished file is, and what    *)
(* its reader and its iterator make of it.                                 *)
(***************************************************************************)
EXTENDS Sstable, SequenceTheorems, WellFoundedInduction, TLAPS

AnyRecord ==
    [key : Keys, sequence : Nat, operation : Operations, valueBytes : Nat]

BlockSection ==
    [offset : Nat, bytes : Nat, says : Seq(AnyRecord), checksum : Seq(AnyRecord)]

IndexEntry == [firstKey : Keys, offset : Nat, bytes : Nat]

Builder ==
    [blocks : Seq(BlockSection), position : Nat, block : Seq(AnyRecord),
     blockBytes : Nat, index : Seq(IndexEntry), keys : Seq(Keys)]

Ascending(s) == \A m, n \in 1 .. Len(s) : m < n => s[m].key < s[n].key

Before(s, t) == \A m \in 1 .. Len(s), n \in 1 .. Len(t) : s[m].key < t[n].key

\* The blocks follow one another, in the file and in the order of the keys, and
\* the index says where each of them is.
Indexed(blocks, index) ==
    /\ Len(index) = Len(blocks)
    /\ \A i \in 1 .. Len(blocks) :
          /\ blocks[i].checksum # <<>>
          /\ Ascending(blocks[i].checksum)
          /\ index[i].firstKey = blocks[i].checksum[1].key
          /\ index[i].offset = blocks[i].offset
          /\ index[i].bytes = blocks[i].bytes
    /\ \A i, j \in 1 .. Len(blocks) :
          i < j => /\ blocks[i].offset < blocks[j].offset
                   /\ Before(blocks[i].checksum, blocks[j].checksum)

Fits(section) == section.bytes <= BlockSize \/ Len(section.checksum) = 1

Written(b) ==
    \A i \in 1 .. Len(b.blocks) :
        /\ b.blocks[i].says = b.blocks[i].checksum
        /\ b.blocks[i].offset < b.position
        /\ Before(b.blocks[i].checksum, b.block)
        /\ Fits(b.blocks[i])

BuilderInv(b) ==
    /\ b \in Builder
    /\ Indexed(b.blocks, b.index)
    /\ Written(b)
    /\ Ascending(b.block)
    /\ Len(b.block) <= 1 \/ 4 + b.blockBytes + 4 <= BlockSize
    /\ KeysOf(RecordsIn(b)) = ToSet(b.keys)
    /\ \A k \in ToSet(b.keys) : k <= Last(b.keys)

-----------------------------------------------------------------------------
(* SstableBuilder *)

LEMMA KeysAreIntegers == Keys \subseteq Int
  BY KeysAssumption

LEMMA RecordBytesType ==
  ASSUME NEW r \in AnyRecord
  PROVE  RecordBytes(r) \in Nat
  <1>1. KeyBytes[r.key] \in Nat
    BY SstableAssumption DEF AnyRecord
  <1> QED
    BY <1>1 DEF AnyRecord, RecordBytes

LEMMA AppendedSequence ==
  ASSUME NEW S, NEW s \in Seq(S), NEW e \in S
  PROVE  /\ Last(Append(s, e)) = e
         /\ ToSet(Append(s, e)) = ToSet(s) \cup {e}
  <1>1. /\ Append(s, e) \in Seq(S)
        /\ Len(Append(s, e)) = Len(s) + 1
        /\ Len(s) \in Nat
        /\ \A i \in 1 .. Len(s) : Append(s, e)[i] = s[i]
        /\ Append(s, e)[Len(s) + 1] = e
    OBVIOUS
  <1>2. DOMAIN s = 1 .. Len(s) /\ DOMAIN Append(s, e) = 1 .. Len(s) + 1
    BY <1>1, LenProperties
  <1>3. ToSet(Append(s, e)) = ToSet(s) \cup {e}
    BY <1>1, <1>2 DEF ToSet
  <1> QED
    BY <1>1, <1>3 DEF Last

LEMMA ToSetProperties ==
  ASSUME NEW S, NEW s \in Seq(S)
  PROVE  /\ ToSet(s) \subseteq S
         /\ ToSet(s) = {s[i] : i \in 1 .. Len(s)}
         /\ s = <<>> <=> ToSet(s) = {}
         /\ s = <<>> <=> Len(s) = 0
  <1>1. Len(s) \in Nat /\ DOMAIN s = 1 .. Len(s)
    BY LenProperties
  <1>2. ToSet(s) = {s[i] : i \in 1 .. Len(s)}
    BY <1>1 DEF ToSet
  <1>3. \A i \in 1 .. Len(s) : s[i] \in S
    OBVIOUS
  <1>4. s = <<>> <=> Len(s) = 0
    BY EmptySeq
  <1>5. Len(s) # 0 => 1 \in 1 .. Len(s)
    BY <1>1
  <1>6. Len(s) = 0 => \A i \in 1 .. Len(s) : FALSE
    BY <1>1
  <1> QED
    BY <1>2, <1>3, <1>4, <1>5, <1>6

LEMMA BlockTypes ==
  ASSUME NEW b \in Builder
  PROVE  /\ b.blocks \in Seq(BlockSection)
         /\ b.block \in Seq(AnyRecord)
         /\ b.index \in Seq(IndexEntry)
         /\ b.keys \in Seq(Keys)
         /\ b.position \in Nat
         /\ b.blockBytes \in Nat
         /\ Len(b.blocks) \in Nat
         /\ DOMAIN b.blocks = 1 .. Len(b.blocks)
         /\ \A i \in 1 .. Len(b.blocks) :
               /\ b.blocks[i] \in BlockSection
               /\ b.blocks[i].says \in Seq(AnyRecord)
               /\ b.blocks[i].checksum \in Seq(AnyRecord)
               /\ b.blocks[i].offset \in Nat
               /\ b.blocks[i].bytes \in Nat
  <1>1. /\ b.blocks \in Seq(BlockSection)
        /\ b.block \in Seq(AnyRecord)
        /\ b.index \in Seq(IndexEntry)
        /\ b.keys \in Seq(Keys)
        /\ b.position \in Nat
        /\ b.blockBytes \in Nat
    BY DEF Builder
  <1>2. \A i \in 1 .. Len(b.blocks) : b.blocks[i] \in BlockSection
    BY <1>1, ElementOfSeq
  <1> QED
    BY <1>1, <1>2, LenProperties DEF BlockSection

-----------------------------------------------------------------------------
LEMMA NewBuilderInv == BuilderInv(NewBuilder)
  <1>1. NewBuilder \in Builder
    BY DEF NewBuilder, Builder, HeaderBytes
  <1>2. /\ NewBuilder.blocks = <<>>
        /\ NewBuilder.block = <<>>
        /\ NewBuilder.keys = <<>>
        /\ NewBuilder.index = <<>>
    BY DEF NewBuilder
  <1>3. Len(<<>>) = 0 /\ DOMAIN <<>> = {} /\ ToSet(<<>>) = {}
    BY DEF ToSet
  <1>4. RecordsIn(NewBuilder) = {}
    BY <1>2, <1>3 DEF RecordsIn
  <1>5. KeysOf({}) = {}
    BY DEF KeysOf
  <1>6. Indexed(<<>>, <<>>) /\ Ascending(<<>>) /\ Written(NewBuilder)
    BY <1>2, <1>3 DEF Indexed, Ascending, Written
  <1>7. \A k \in ToSet(NewBuilder.keys) : k <= Last(NewBuilder.keys)
    BY <1>2, <1>3
  <1>8. Len(NewBuilder.block) <= 1
    BY <1>2, <1>3
  <1> QED
    BY <1>1, <1>2, <1>3, <1>4, <1>5, <1>6, <1>7, <1>8 DEF BuilderInv

\* The block's size, count and checksum included.
SectionOf(b) == Section(b.position, 4 + b.blockBytes + 4, b.block)

EntryOf(b) ==
    [firstKey |-> Head(b.block).key, offset |-> b.position,
     bytes |-> 4 + b.blockBytes + 4]

\* What flush_current_block() does, field by field.
LEMMA FlushedBuilder ==
  ASSUME NEW b \in Builder, b.block # <<>>
  PROVE  LET c == FlushCurrentBlock(b)
         IN  /\ c \in Builder
             /\ c.blocks = Append(b.blocks, SectionOf(b))
             /\ c.index = Append(b.index, EntryOf(b))
             /\ c.position = b.position + (4 + b.blockBytes + 4)
             /\ c.block = <<>>
             /\ c.keys = b.keys
             /\ SectionOf(b) \in BlockSection
             /\ EntryOf(b) \in IndexEntry
  <1> DEFINE c == FlushCurrentBlock(b)
  <1>1. SectionOf(b) \in BlockSection
    BY BlockTypes DEF SectionOf, Section, BlockSection
  <1>2. Head(b.block) \in AnyRecord
    BY BlockTypes, HeadTailProperties
  <1>3. EntryOf(b) \in IndexEntry
    BY <1>2, BlockTypes DEF EntryOf, IndexEntry, AnyRecord
  <1>4. c = [b EXCEPT
                !.blocks = Append(@, SectionOf(b)),
                !.position = @ + (4 + b.blockBytes + 4),
                !.block = <<>>,
                !.blockBytes = 0,
                !.index = Append(@, EntryOf(b))]
    BY DEF FlushCurrentBlock, SectionOf, EntryOf
  <1>5. /\ c.blocks = Append(b.blocks, SectionOf(b))
        /\ c.index = Append(b.index, EntryOf(b))
        /\ c.position = b.position + (4 + b.blockBytes + 4)
        /\ c.block = <<>>
        /\ c.keys = b.keys
    BY <1>4 DEF Builder
  <1>6. c = [blocks |-> Append(b.blocks, SectionOf(b)),
             position |-> b.position + (4 + b.blockBytes + 4),
             block |-> <<>>,
             blockBytes |-> 0,
             index |-> Append(b.index, EntryOf(b)),
             keys |-> b.keys]
    BY <1>4 DEF Builder
  <1>7. c \in Builder
    BY <1>1, <1>3, <1>6, BlockTypes, AppendProperties DEF Builder
  <1> QED
    BY <1>1, <1>3, <1>5, <1>7

LEMMA RecordsInBlocks ==
  ASSUME NEW b \in Builder, NEW r
  PROVE  r \in RecordsIn(b) <=>
            \/ r \in ToSet(b.block)
            \/ \E i \in 1 .. Len(b.blocks) : r \in ToSet(b.blocks[i].says)
  BY BlockTypes DEF RecordsIn

LEMMA FlushedInv ==
  ASSUME NEW b, BuilderInv(b), b.block # <<>>
  PROVE  /\ BuilderInv(FlushCurrentBlock(b))
         /\ RecordsIn(FlushCurrentBlock(b)) = RecordsIn(b)
  <1> DEFINE c == FlushCurrentBlock(b)
             n == Len(b.blocks)
             new == SectionOf(b)
  <1>1. b \in Builder
    BY DEF BuilderInv
  <1>2. /\ c \in Builder
        /\ c.blocks = Append(b.blocks, new)
        /\ c.index = Append(b.index, EntryOf(b))
        /\ c.position = b.position + (4 + b.blockBytes + 4)
        /\ c.block = <<>>
        /\ c.keys = b.keys
        /\ new \in BlockSection
        /\ EntryOf(b) \in IndexEntry
    BY <1>1, FlushedBuilder
  <1> HIDE DEF c, new
  <1>3. /\ n \in Nat
        /\ Len(c.blocks) = n + 1
        /\ \A i \in 1 .. n : c.blocks[i] = b.blocks[i]
        /\ c.blocks[n + 1] = new
    <2>1. b.blocks \in Seq(BlockSection) /\ n \in Nat
      BY <1>1, BlockTypes
    <2> QED
      BY ONLY <2>1, <1>2, AppendProperties
  <1>4. /\ Len(b.index) = n
        /\ Len(c.index) = n + 1
        /\ \A i \in 1 .. n : c.index[i] = b.index[i]
        /\ c.index[n + 1] = EntryOf(b)
    <2>1. b.index \in Seq(IndexEntry) /\ Len(b.index) = n
      BY <1>1, BlockTypes DEF BuilderInv, Indexed
    <2> QED
      BY ONLY <2>1, <1>2, AppendProperties
  <1>5. /\ new.says = b.block
        /\ new.checksum = b.block
        /\ new.offset = b.position
        /\ new.bytes = 4 + b.blockBytes + 4
    BY DEF new, SectionOf, Section
  <1>6. /\ EntryOf(b).firstKey = b.block[1].key
        /\ EntryOf(b).offset = b.position
        /\ EntryOf(b).bytes = 4 + b.blockBytes + 4
    BY <1>1, BlockTypes DEF EntryOf
  <1>7. Indexed(c.blocks, c.index)
    <2>1. ASSUME NEW i \in 1 .. n + 1
          PROVE  /\ c.blocks[i].checksum # <<>>
                 /\ Ascending(c.blocks[i].checksum)
                 /\ c.index[i].firstKey = c.blocks[i].checksum[1].key
                 /\ c.index[i].offset = c.blocks[i].offset
                 /\ c.index[i].bytes = c.blocks[i].bytes
      <3>1. CASE i \in 1 .. n
        BY <3>1, <1>3, <1>4 DEF BuilderInv, Indexed
      <3>2. CASE i = n + 1
        BY <3>2, <1>3, <1>4, <1>5, <1>6 DEF BuilderInv
      <3> QED
        BY <3>1, <3>2, <1>3
    <2>2. ASSUME NEW i \in 1 .. n + 1, NEW j \in 1 .. n + 1, i < j
          PROVE  /\ c.blocks[i].offset < c.blocks[j].offset
                 /\ Before(c.blocks[i].checksum, c.blocks[j].checksum)
      <3>1. i \in 1 .. n
        BY <2>2, <1>3
      <3>2. CASE j \in 1 .. n
        BY <2>2, <3>1, <3>2, <1>3 DEF BuilderInv, Indexed
      <3>3. CASE j = n + 1
        BY <3>1, <3>3, <1>3, <1>5 DEF BuilderInv, Written
      <3> QED
        BY <3>2, <3>3, <1>3
    <2> QED
      BY <2>1, <2>2, <1>3, <1>4 DEF Indexed
  <1>8. Len(b.block) \in Nat \ {0} /\ Len(<<>>) = 0
    BY <1>1, BlockTypes, EmptySeq
  <1>9. Written(c)
    <2> SUFFICES ASSUME NEW i \in 1 .. n + 1
                 PROVE  /\ c.blocks[i].says = c.blocks[i].checksum
                        /\ c.blocks[i].offset < c.position
                        /\ Before(c.blocks[i].checksum, c.block)
                        /\ Fits(c.blocks[i])
      BY <1>3 DEF Written
    <2>1. Before(c.blocks[i].checksum, c.block)
      BY <1>2, <1>8 DEF Before
    <2>2. CASE i \in 1 .. n
      <3>1. /\ b.blocks[i].says = b.blocks[i].checksum
            /\ b.blocks[i].offset < b.position
            /\ Fits(b.blocks[i])
        BY <2>2 DEF BuilderInv, Written
      <3>2. /\ b.blocks[i].offset \in Nat
            /\ b.position \in Nat
            /\ b.blockBytes \in Nat
        BY <1>1, <2>2, BlockTypes
      <3> QED
        BY <3>1, <3>2, <2>1, <2>2, <1>2, <1>3
    <2>3. CASE i = n + 1
      <3>1. b.position \in Nat /\ b.blockBytes \in Nat
        BY <1>1, BlockTypes
      <3>2. Len(new.checksum) = 1 \/ 4 + b.blockBytes + 4 <= BlockSize
        <4>1. Len(b.block) <= 1 \/ 4 + b.blockBytes + 4 <= BlockSize
          BY DEF BuilderInv
        <4>2. \A x \in Nat \ {0} : x <= 1 => x = 1
          OBVIOUS
        <4>3. Len(b.block) <= 1 => Len(b.block) = 1
          BY ONLY <4>2, <1>8, Zenon
        <4> QED
          BY ONLY <4>1, <4>3, <1>5
      <3>3. Fits(new)
        BY <3>2, <1>5 DEF Fits
      <3> QED
        BY <3>1, <3>3, <2>1, <2>3, <1>2, <1>3, <1>5
    <2> QED
      BY <2>2, <2>3, <1>3
  <1>10. RecordsIn(c) = RecordsIn(b)
    <2> SUFFICES ASSUME NEW r
                 PROVE  r \in RecordsIn(c) <=> r \in RecordsIn(b)
      OBVIOUS
    <2>1. ToSet(<<>>) = {}
      BY DEF ToSet
    <2>2. r \in RecordsIn(c) <=>
             \E i \in 1 .. n + 1 : r \in ToSet(c.blocks[i].says)
      BY <2>1, <1>2, <1>3, RecordsInBlocks
    <2>3. r \in RecordsIn(b) <=>
             \/ r \in ToSet(b.block)
             \/ \E i \in 1 .. n : r \in ToSet(b.blocks[i].says)
      BY <1>1, RecordsInBlocks
    <2>4. \A i \in 1 .. n + 1 : i \in 1 .. n \/ i = n + 1
      BY <1>3
    <2>5. n + 1 \in 1 .. n + 1 /\ \A i \in 1 .. n : i \in 1 .. n + 1
      BY <1>3
    <2> QED
      BY <2>2, <2>3, <2>4, <2>5, <1>3, <1>5
  <1>11. Ascending(c.block) /\ Len(c.block) <= 1
    BY <1>2, <1>8 DEF Ascending
  <1>12. /\ KeysOf(RecordsIn(c)) = ToSet(c.keys)
         /\ \A k \in ToSet(c.keys) : k <= Last(c.keys)
    BY <1>2, <1>10 DEF BuilderInv
  <1> QED
    BY <1>2, <1>7, <1>9, <1>10, <1>11, <1>12 DEF BuilderInv, c

Added(c, r) ==
    [c EXCEPT !.block = Append(@, r),
              !.blockBytes = @ + RecordBytes(r),
              !.keys = Append(@, r.key)]

\* add() of a record, once the builder has room for it.
LEMMA AddedInv ==
  ASSUME NEW c, BuilderInv(c), NEW r \in AnyRecord,
         AddAccepts(c, r),
         ~BlockIsFull(c, r)
  PROVE  /\ BuilderInv(Added(c, r))
         /\ RecordsIn(Added(c, r)) = RecordsIn(c) \cup {r}
         /\ Added(c, r).keys = Append(c.keys, r.key)
  <1> DEFINE d == Added(c, r)
  <1>1. c \in Builder
    BY DEF BuilderInv
  <1>2. /\ RecordBytes(r) \in Nat
        /\ r.key \in Keys
        /\ r.key \in Int
    BY RecordBytesType, KeysAreIntegers DEF AnyRecord
  <1>0. d = [c EXCEPT !.block = Append(@, r),
                      !.blockBytes = @ + RecordBytes(r),
                      !.keys = Append(@, r.key)]
    BY DEF Added
  <1> HIDE DEF d
  <1>3. d = [blocks |-> c.blocks,
             position |-> c.position,
             block |-> Append(c.block, r),
             blockBytes |-> c.blockBytes + RecordBytes(r),
             index |-> c.index,
             keys |-> Append(c.keys, r.key)]
    BY <1>1, <1>0 DEF Builder
  <1>4. /\ d.blocks = c.blocks
        /\ d.position = c.position
        /\ d.block = Append(c.block, r)
        /\ d.blockBytes = c.blockBytes + RecordBytes(r)
        /\ d.index = c.index
        /\ d.keys = Append(c.keys, r.key)
    BY <1>3
  <1>5. /\ Append(c.block, r) \in Seq(AnyRecord)
        /\ Append(c.keys, r.key) \in Seq(Keys)
        /\ c.blockBytes + RecordBytes(r) \in Nat
    BY <1>1, <1>2, BlockTypes, AppendProperties
  <1>6. d \in Builder
    BY <1>1, <1>3, <1>5 DEF Builder
  <1>7. /\ ToSet(d.block) = ToSet(c.block) \cup {r}
        /\ ToSet(d.keys) = ToSet(c.keys) \cup {r.key}
        /\ Last(d.keys) = r.key
    <2>1. c.block \in Seq(AnyRecord) /\ c.keys \in Seq(Keys)
      BY <1>1, BlockTypes
    <2> QED
      BY <2>1, <1>2, <1>4, AppendedSequence
  <1>8. RecordsIn(d) = RecordsIn(c) \cup {r}
    <2> SUFFICES ASSUME NEW s
                 PROVE  s \in RecordsIn(d) <=> s \in RecordsIn(c) \/ s = r
      OBVIOUS
    <2> QED
      BY <1>1, <1>4, <1>6, <1>7, RecordsInBlocks
  <1>9. \A k \in ToSet(c.keys) : k < r.key
    <2> SUFFICES ASSUME NEW k \in ToSet(c.keys)
                 PROVE  k < r.key
      OBVIOUS
    <2>1. c.keys # <<>> /\ k \in Keys
      BY <1>1, BlockTypes, ToSetProperties
    <2>2. Last(c.keys) \in Keys
      <3>1. c.keys \in Seq(Keys)
        BY <1>1, BlockTypes
      <3>2. Len(c.keys) \in 1 .. Len(c.keys)
        BY <2>1, <3>1, EmptySeq
      <3> QED
        BY <3>1, <3>2, ElementOfSeq DEF Last
    <2>3. k <= Last(c.keys) /\ Last(c.keys) < r.key
      BY <2>1 DEF BuilderInv, AddAccepts
    <2>4. k \in Int /\ Last(c.keys) \in Int
      BY <2>1, <2>2, KeysAreIntegers
    <2> QED
      BY ONLY <2>3, <2>4, <1>2
  <1>10. \A s \in RecordsIn(c) : s.key < r.key
    BY <1>9 DEF BuilderInv, KeysOf
  <1>11. KeysOf(RecordsIn(d)) = ToSet(d.keys)
    BY <1>7, <1>8 DEF KeysOf, BuilderInv
  <1>12. \A k \in ToSet(d.keys) : k <= Last(d.keys)
    <2>1. \A k \in ToSet(c.keys) : k \in Int
      BY <1>1, BlockTypes, ToSetProperties, KeysAreIntegers
    <2> QED
      BY <2>1, <1>2, <1>7, <1>9
  <1>13. /\ Len(c.block) \in Nat
         /\ Len(d.block) = Len(c.block) + 1
         /\ \A m \in 1 .. Len(c.block) : d.block[m] = c.block[m]
         /\ d.block[Len(c.block) + 1] = r
    <2>1. c.block \in Seq(AnyRecord) /\ Len(c.block) \in Nat
      BY <1>1, BlockTypes
    <2> QED
      BY ONLY <2>1, <1>4, AppendProperties, r \in AnyRecord
  <1>14. \A m \in 1 .. Len(c.block) : c.block[m].key < r.key
    <2>1. \A m \in 1 .. Len(c.block) : c.block[m] \in ToSet(c.block)
      BY <1>1, BlockTypes, ToSetProperties
    <2> QED
      BY <2>1, <1>1, <1>10, RecordsInBlocks
  <1>15. Ascending(d.block)
    <2> SUFFICES ASSUME NEW m \in 1 .. Len(d.block), NEW n \in 1 .. Len(d.block),
                        m < n
                 PROVE  d.block[m].key < d.block[n].key
      BY DEF Ascending
    <2>1. m \in 1 .. Len(c.block)
      BY <1>13
    <2>2. CASE n \in 1 .. Len(c.block)
      BY <2>1, <2>2, <1>13 DEF BuilderInv, Ascending
    <2>3. CASE n = Len(c.block) + 1
      BY <2>1, <2>3, <1>13, <1>14
    <2> QED
      BY <2>2, <2>3, <1>13
  <1>16. ASSUME NEW i \in 1 .. Len(d.blocks)
         PROVE  Before(d.blocks[i].checksum, d.block)
    <2>1. /\ Before(c.blocks[i].checksum, c.block)
          /\ c.blocks[i].says = c.blocks[i].checksum
      BY <1>4 DEF BuilderInv, Written
    <2>2. \A m \in 1 .. Len(c.blocks[i].says) : c.blocks[i].says[m].key < r.key
      <3>1. \A m \in 1 .. Len(c.blocks[i].says) :
               c.blocks[i].says[m] \in ToSet(c.blocks[i].says)
        <4>1. c.blocks[i].says \in Seq(AnyRecord)
          BY <1>1, <1>4, BlockTypes
        <4> QED
          BY ONLY <4>1, ToSetProperties
      <3> QED
        BY <3>1, <1>1, <1>4, <1>10, RecordsInBlocks
    <2> SUFFICES ASSUME NEW m \in 1 .. Len(c.blocks[i].checksum),
                        NEW n \in 1 .. Len(d.block)
                 PROVE  c.blocks[i].checksum[m].key < d.block[n].key
      BY <1>4 DEF Before
    <2>3. CASE n \in 1 .. Len(c.block)
      BY <2>1, <2>3, <1>13 DEF Before
    <2>4. CASE n = Len(c.block) + 1
      BY <2>1, <2>2, <2>4, <1>13
    <2> QED
      BY <2>3, <2>4, <1>13
  <1>17. Indexed(d.blocks, d.index)
    BY <1>4 DEF BuilderInv
  <1>18. Written(d)
    BY <1>4, <1>16 DEF Written, BuilderInv
  <1>19. Len(d.block) <= 1 \/ 4 + d.blockBytes + 4 <= BlockSize
    <2>1. CASE c.block = <<>>
      BY <2>1, <1>13, EmptySeq
    <2>2. CASE c.block # <<>>
      <3>1. ~(4 + c.blockBytes + RecordBytes(r) + 4 > BlockSize)
        BY <2>2 DEF BlockIsFull
      <3>2. c.blockBytes \in Nat /\ BlockSize \in Nat
        BY <1>1, BlockTypes, SstableAssumption
      <3> QED
        BY ONLY <3>1, <3>2, <1>2, <1>4
    <2> QED
      BY <2>1, <2>2
  <1> QED
    BY <1>4, <1>6, <1>8, <1>11, <1>12, <1>15, <1>17, <1>18, <1>19
    DEF BuilderInv, d

\* add() keeps the order of the keys, and the record is in the file to be.
LEMMA AddRecordInv ==
  ASSUME NEW b, BuilderInv(b), NEW r \in AnyRecord, AddAccepts(b, r)
  PROVE  /\ BuilderInv(AddRecord(b, r))
         /\ RecordsIn(AddRecord(b, r)) = RecordsIn(b) \cup {r}
         /\ AddRecord(b, r).keys = Append(b.keys, r.key)
  <1> DEFINE c == IF BlockIsFull(b, r) THEN FlushCurrentBlock(b) ELSE b
  <1>1. AddRecord(b, r) = Added(c, r)
    BY DEF AddRecord, Added
  <1>2. /\ BuilderInv(c)
        /\ RecordsIn(c) = RecordsIn(b)
        /\ c.keys = b.keys
        /\ ~BlockIsFull(c, r)
    <2>1. CASE BlockIsFull(b, r)
      <3>1. b.block # <<>> /\ b \in Builder
        BY <2>1 DEF BlockIsFull, BuilderInv
      <3>2. /\ FlushCurrentBlock(b).block = <<>>
            /\ FlushCurrentBlock(b).keys = b.keys
        BY <3>1, FlushedBuilder
      <3> QED
        BY <2>1, <3>1, <3>2, FlushedInv DEF BlockIsFull
    <2>2. CASE ~BlockIsFull(b, r)
      BY <2>2
    <2> QED
      BY <2>1, <2>2
  <1>3. AddAccepts(c, r)
    BY <1>2 DEF AddAccepts
  <1> HIDE DEF c
  <1> QED
    BY <1>1, <1>2, <1>3, AddedInv

-----------------------------------------------------------------------------
(* The finished file.  What its checksums were computed from stays, whatever *)
(* becomes of its bytes.                                                     *)

IsSection(s) ==
    s = [offset |-> s.offset, bytes |-> s.bytes,
         says |-> s.says, checksum |-> s.checksum]

IsFile(file) ==
    /\ file = [header |-> file.header, blocks |-> file.blocks, filter |-> file.filter,
               index |-> file.index, footer |-> file.footer]
    /\ file.blocks \in Seq(BlockSection)
    /\ IsSection(file.filter)
    /\ IsSection(file.index)
    /\ IsSection(file.footer)
    /\ file.index.checksum \in Seq(IndexEntry)

\* The records that the blocks were made of.
Stored(file) ==
    UNION {ToSet(file.blocks[i].checksum) : i \in 1 .. Len(file.blocks)}

FileInv(file) ==
    /\ IsFile(file)
    /\ Indexed(file.blocks, file.index.checksum)
    /\ \A i \in 1 .. Len(file.blocks) : Fits(file.blocks[i])
    /\ \E n : file.filter.checksum = FilterOf(KeysOf(Stored(file)), n)

Undamaged(file) ==
    /\ file.header = Magic
    /\ \A i \in 1 .. Len(file.blocks) : file.blocks[i].says = file.blocks[i].checksum
    /\ file.filter.says = file.filter.checksum
    /\ file.index.says = file.index.checksum
    /\ file.footer.says = file.footer.checksum
    /\ file.footer.bytes = FooterBytes
    /\ file.footer.says.bloom_offset = file.filter.offset
    /\ file.footer.says.bloom_size = file.filter.bytes
    /\ file.footer.says.index_offset = file.index.offset
    /\ file.footer.says.index_size = file.index.bytes

\* Nothing is left in the block of a finished file.
LEMMA FinishInv ==
  ASSUME NEW b, BuilderInv(b)
  PROVE  /\ FileInv(Finish(b))
         /\ Undamaged(Finish(b))
         /\ Stored(Finish(b)) = RecordsIn(b)
  <1> DEFINE c == FlushCurrentBlock(b)
             file == Finish(b)
  <1>1. /\ BuilderInv(c)
        /\ RecordsIn(c) = RecordsIn(b)
        /\ c.block = <<>>
    <2>1. CASE b.block = <<>>
      BY <2>1 DEF FlushCurrentBlock
    <2>2. CASE b.block # <<>>
      BY <2>2, FlushedInv, FlushedBuilder DEF BuilderInv
    <2> QED
      BY <2>1, <2>2
  <1> HIDE DEF c
  <1> DEFINE content == FilterOf(ToSet(c.keys), Len(c.keys))
             filter == Section(c.position, FilterBytes(content), content)
             index == Section(filter.offset + filter.bytes, IndexBytes(c.index), c.index)
             footer == Section(index.offset + index.bytes, FooterBytes,
                               [bloom_offset |-> filter.offset,
                                bloom_size |-> filter.bytes,
                                index_offset |-> index.offset,
                                index_size |-> index.bytes])
  <1>2. file = [header |-> Magic, blocks |-> c.blocks, filter |-> filter,
                index |-> index, footer |-> footer]
    BY DEF Finish, c
  <1>3. /\ file.header = Magic
        /\ file.blocks = c.blocks
        /\ file.filter = filter
        /\ file.index = index
        /\ file.footer = footer
    BY <1>2
  <1>4. /\ IsSection(filter) /\ filter.says = content /\ filter.checksum = content
        /\ IsSection(index) /\ index.says = c.index /\ index.checksum = c.index
        /\ IsSection(footer) /\ footer.says = footer.checksum
        /\ footer.bytes = FooterBytes
        /\ footer.says.bloom_offset = filter.offset
        /\ footer.says.bloom_size = filter.bytes
        /\ footer.says.index_offset = index.offset
        /\ footer.says.index_size = index.bytes
    BY DEF Section, IsSection
  <1> HIDE DEF file, footer, index, filter, content
  <1>5. c \in Builder
    BY <1>1 DEF BuilderInv
  <1>6. IsFile(file)
    BY <1>2, <1>3, <1>4, <1>5, BlockTypes DEF IsFile
  <1>7. \A i \in 1 .. Len(c.blocks) :
            c.blocks[i].says = c.blocks[i].checksum /\ Fits(c.blocks[i])
    BY <1>1 DEF BuilderInv, Written
  <1>8. Undamaged(file)
    BY <1>3, <1>4, <1>7 DEF Undamaged
  <1>9. Stored(file) = RecordsIn(b)
    <2> SUFFICES ASSUME NEW r
                 PROVE  r \in Stored(file) <=> r \in RecordsIn(c)
      BY <1>1
    <2>1. ToSet(<<>>) = {}
      BY DEF ToSet
    <2> QED
      BY <2>1, <1>1, <1>3, <1>5, <1>7, RecordsInBlocks DEF Stored
  <1>10. file.filter.checksum = FilterOf(KeysOf(Stored(file)), Len(c.keys))
    BY <1>1, <1>3, <1>4, <1>9 DEF content, BuilderInv
  <1>11. Indexed(file.blocks, file.index.checksum)
    BY <1>1, <1>3, <1>4 DEF BuilderInv
  <1> QED
    BY <1>3, <1>6, <1>7, <1>8, <1>9, <1>10, <1>11 DEF FileInv, file

-----------------------------------------------------------------------------
(* The Bloom filter *)

\* The bits that mayContain() looks at are among those that add() has set.
LEMMA NoFilterDeniesItsKeys ==
  ASSUME NEW keys, NEW n, NEW k \in keys
  PROVE  MayContain(FilterOf(keys, n), k)
  BY DEF MayContain, FilterOf, Adding

-----------------------------------------------------------------------------
(* SstableReader *)

LEMMA LeastExists ==
  ASSUME NEW T, T \subseteq Nat, T # {}
  PROVE  \E x \in T : \A y \in T : x <= y
  <1>1. PICK x \in T : \A y \in T : ~(<<y, x>> \in OpToRel(<, Nat))
    BY NatLessThanWellFounded, WFMin
  <1>2. \A y \in T : ~(y < x)
    BY <1>1 DEF OpToRel
  <1> QED
    BY <1>2

LEMMA FileTypes ==
  ASSUME NEW file, FileInv(file)
  PROVE  /\ file.blocks \in Seq(BlockSection)
         /\ Len(file.blocks) \in Nat
         /\ DOMAIN file.blocks = 1 .. Len(file.blocks)
         /\ file.index.checksum \in Seq(IndexEntry)
         /\ Len(file.index.checksum) = Len(file.blocks)
         /\ \A i \in 1 .. Len(file.blocks) :
               /\ file.blocks[i] \in BlockSection
               /\ file.blocks[i].checksum \in Seq(AnyRecord)
               /\ Len(file.blocks[i].checksum) \in Nat \ {0}
               /\ file.blocks[i].offset \in Nat
               /\ file.index.checksum[i].firstKey \in Int
  <1>1. /\ file.blocks \in Seq(BlockSection)
        /\ file.index.checksum \in Seq(IndexEntry)
        /\ Len(file.index.checksum) = Len(file.blocks)
    BY DEF FileInv, IsFile, Indexed
  <1>2. /\ Len(file.blocks) \in Nat
        /\ DOMAIN file.blocks = 1 .. Len(file.blocks)
    BY <1>1, LenProperties
  <1> SUFFICES ASSUME NEW i \in 1 .. Len(file.blocks)
               PROVE  /\ file.blocks[i] \in BlockSection
                      /\ file.blocks[i].checksum \in Seq(AnyRecord)
                      /\ Len(file.blocks[i].checksum) \in Nat \ {0}
                      /\ file.blocks[i].offset \in Nat
                      /\ file.index.checksum[i].firstKey \in Int
    BY <1>1, <1>2
  <1>3. file.blocks[i] \in BlockSection /\ file.index.checksum[i] \in IndexEntry
    BY <1>1, ElementOfSeq
  <1>4. file.blocks[i].checksum \in Seq(AnyRecord) /\ file.blocks[i].offset \in Nat
    BY <1>3 DEF BlockSection
  <1>5. file.blocks[i].checksum # <<>>
    BY DEF FileInv, Indexed
  <1>6. Len(file.blocks[i].checksum) \in Nat \ {0}
    BY <1>4, <1>5, EmptySeq
  <1>7. file.index.checksum[i].firstKey \in Int
    BY <1>3, KeysAreIntegers DEF IndexEntry
  <1> QED
    BY <1>3, <1>4, <1>6, <1>7

LEMMA RecordsOfBlock ==
  ASSUME NEW file, FileInv(file), NEW i \in 1 .. Len(file.blocks)
  PROVE  ToSet(file.blocks[i].checksum) =
            {file.blocks[i].checksum[m] : m \in 1 .. Len(file.blocks[i].checksum)}
  <1>1. file.blocks[i].checksum \in Seq(AnyRecord)
    BY FileTypes
  <1> QED
    BY ONLY <1>1, ToSetProperties

\* The records of a block lie between its first key and that of the next one.
LEMMA BlockBounds ==
  ASSUME NEW file, FileInv(file),
         NEW i \in 1 .. Len(file.blocks),
         NEW m \in 1 .. Len(file.blocks[i].checksum)
  PROVE  /\ file.blocks[i].checksum[m].key \in Int
         /\ file.index.checksum[i].firstKey <= file.blocks[i].checksum[m].key
         /\ \A j \in 1 .. Len(file.blocks) :
               i < j => file.blocks[i].checksum[m].key < file.index.checksum[j].firstKey
  <1> DEFINE s == file.blocks[i].checksum
             ix == file.index.checksum
  <1>1. s \in Seq(AnyRecord) /\ Len(s) \in Nat \ {0}
    BY FileTypes
  <1>2. s[m] \in AnyRecord
    BY <1>1, ElementOfSeq
  <1>3. s[m].key \in Int
    BY <1>2, KeysAreIntegers DEF AnyRecord
  <1>4. ix[i].firstKey = s[1].key /\ Ascending(s)
    BY DEF FileInv, Indexed
  <1>5. ix[i].firstKey <= s[m].key
    <2> HIDE DEF s, ix
    <2>1. CASE m = 1
      BY <2>1, <1>3, <1>4
    <2>2. CASE m # 1
      <3>1. 1 < m /\ 1 \in 1 .. Len(s) /\ m \in 1 .. Len(s)
        BY <2>2, <1>1 DEF s
      <3>2. s[1].key < s[m].key
        BY <3>1, <1>4 DEF Ascending
      <3>3. ix[i].firstKey \in Int
        BY FileTypes DEF ix
      <3> QED
        BY ONLY <3>2, <3>3, <1>3, <1>4
    <2> QED
      BY <2>1, <2>2
  <1>6. ASSUME NEW j \in 1 .. Len(file.blocks), i < j
        PROVE  s[m].key < ix[j].firstKey
    <2>1. Before(s, file.blocks[j].checksum) /\ ix[j].firstKey = file.blocks[j].checksum[1].key
      BY <1>6 DEF FileInv, Indexed
    <2>2. Len(file.blocks[j].checksum) \in Nat \ {0}
      BY FileTypes
    <2>3. 1 \in 1 .. Len(file.blocks[j].checksum)
      BY <2>2
    <2> QED
      BY <2>1, <2>3 DEF Before
  <1> QED
    BY <1>3, <1>5, <1>6

\* An entry of the index leads to its block, or to an exception.
LEMMA EntryLeadsToItsBlock ==
  ASSUME NEW file, FileInv(file), NEW i \in 1 .. Len(file.blocks)
  PROVE  BlockRecords(file, file.index.checksum[i]) =
            IF file.blocks[i].says = file.blocks[i].checksum
            THEN {file.blocks[i].checksum} ELSE {}
  <1> DEFINE e == file.index.checksum[i]
  <1>1. e.offset = file.blocks[i].offset /\ e.bytes = file.blocks[i].bytes
    BY DEF FileInv, Indexed
  <1>2. \A j \in 1 .. Len(file.blocks) : file.blocks[j].offset = e.offset => j = i
    <2> SUFFICES ASSUME NEW j \in 1 .. Len(file.blocks), j # i
                 PROVE  file.blocks[j].offset # e.offset
      OBVIOUS
    <2>1. file.blocks[j].offset \in Nat /\ file.blocks[i].offset \in Nat
      BY FileTypes
    <2>2. \/ file.blocks[j].offset < file.blocks[i].offset
          \/ file.blocks[i].offset < file.blocks[j].offset
      BY FileTypes DEF FileInv, Indexed
    <2> QED
      BY ONLY <2>1, <2>2, <1>1
  <1>3. \A j \in 1 .. Len(file.blocks) :
           Readable(file.blocks[j], e.offset, e.bytes)
              <=> j = i /\ file.blocks[i].says = file.blocks[i].checksum
    BY <1>1, <1>2 DEF Readable
  <1> QED
    BY <1>3, FileTypes DEF BlockRecords

\* Where the key would be: the block before the first one that begins behind it.
LEMMA OneCandidate ==
  ASSUME NEW file, FileInv(file), NEW k \in Int,
         Len(file.blocks) # 0,
         ~(k < file.index.checksum[1].firstKey)
  PROVE  \E c \in 1 .. Len(file.blocks) :
            /\ CandidateBlocks(file.index.checksum, k) = {c}
            /\ file.index.checksum[c].firstKey <= k
            /\ c # Len(file.blocks) => k < file.index.checksum[c + 1].firstKey
  <1> DEFINE ix == file.index.checksum
             n == Len(file.blocks)
             T == {i \in 2 .. n : k < ix[i].firstKey} \cup {n + 1}
  <1>1. n \in Nat \ {0} /\ Len(ix) = n /\ DOMAIN ix = 1 .. n
    BY FileTypes, LenProperties
  <1>2. \A i \in 1 .. n : ix[i].firstKey \in Int
    BY FileTypes
  <1>3. ~(k < ix[1].firstKey)
    OBVIOUS
  <1> HIDE DEF ix, n
  <1>4. CandidateBlocks(ix, k) =
           {i \in 1 .. n : /\ \A j \in 2 .. i : ix[j].firstKey <= k
                           /\ i # n => k < ix[i + 1].firstKey}
    <2>1. CandidateBlocks(ix, k) =
             {i \in DOMAIN ix : /\ \A j \in 2 .. i : ix[j].firstKey <= k
                                /\ i # Len(ix) => k < ix[i + 1].firstKey}
      BY DEF CandidateBlocks
    <2> QED
      BY ONLY <2>1, <1>1, Zenon
  <1>5. T \subseteq Nat /\ T # {}
    BY <1>1
  <1>6. PICK x \in T : \A y \in T : x <= y
    BY <1>5, LeastExists
  <1>7. x \in 2 .. n + 1
    BY <1>1
  <1> DEFINE c == x - 1
  <1>8. c \in 1 .. n /\ c + 1 = x
    BY <1>1, <1>7
  <1>9. \A j \in 2 .. c : ix[j].firstKey <= k
    <2> SUFFICES ASSUME NEW j \in 2 .. c
                 PROVE  ix[j].firstKey <= k
      OBVIOUS
    <2>1. j \in 2 .. n /\ j < x /\ j \in 1 .. n
      BY <1>1, <1>7
    <2>2. j \notin T
      BY <2>1, <1>6, <1>7
    <2>3. ~(k < ix[j].firstKey)
      BY <2>1, <2>2
    <2> QED
      BY <2>1, <2>3, <1>2
  <1>10. c # n => k < ix[c + 1].firstKey
    BY <1>1, <1>7, <1>8
  <1> HIDE DEF c
  <1>11. ix[c].firstKey <= k
    <2>1. CASE c = 1
      BY <2>1, <1>1, <1>2, <1>3
    <2>2. CASE c # 1
      BY <2>2, <1>1, <1>8, <1>9
    <2> QED
      BY <2>1, <2>2
  <1>12. ASSUME NEW i \in 1 .. n, i # c,
                \A j \in 2 .. i : ix[j].firstKey <= k,
                i # n => k < ix[i + 1].firstKey
         PROVE  FALSE
    <2>1. CASE i < c
      <3>1. i # n /\ i + 1 \in 2 .. c /\ i + 1 \in 1 .. n
        BY <2>1, <1>1, <1>8
      <3> QED
        BY <3>1, <1>2, <1>9, <1>12
    <2>2. CASE c < i
      <3>1. c # n /\ c + 1 \in 2 .. i /\ c + 1 \in 1 .. n
        BY <2>2, <1>1, <1>8
      <3> QED
        BY <3>1, <1>2, <1>10, <1>12
    <2> QED
      BY <2>1, <2>2, <1>1, <1>8, <1>12
  <1>13. CandidateBlocks(ix, k) = {c}
    <2>1. \A i \in CandidateBlocks(ix, k) : i = c
      <3> SUFFICES ASSUME NEW i \in CandidateBlocks(ix, k), i # c
                   PROVE  FALSE
        OBVIOUS
      <3>1. /\ i \in 1 .. n
            /\ \A j \in 2 .. i : ix[j].firstKey <= k
            /\ i # n => k < ix[i + 1].firstKey
        BY <1>4
      <3> QED
        BY <3>1, <1>12
    <2>2. c \in CandidateBlocks(ix, k)
      BY <1>4, <1>8, <1>9, <1>10
    <2> QED
      BY <2>1, <2>2
  <1> QED
    BY <1>8, <1>10, <1>11, <1>13 DEF ix, n

\* The scan of the block finds what the file holds of the key.
LEMMA ScanIsExact ==
  ASSUME NEW file, FileInv(file), NEW k \in Int,
         NEW c \in 1 .. Len(file.blocks),
         file.index.checksum[c].firstKey <= k,
         c # Len(file.blocks) => k < file.index.checksum[c + 1].firstKey
  PROVE  Scanned(file.blocks[c].checksum, k) = Versions(Stored(file), k)
  <1> DEFINE s == file.blocks[c].checksum
             n == Len(file.blocks)
             ix == file.index.checksum
  <1>1. s \in Seq(AnyRecord) /\ DOMAIN s = 1 .. Len(s) /\ Len(s) \in Nat
    BY FileTypes, LenProperties
  <1>2. n \in Nat
    BY FileTypes
  <1>3. \A i \in 1 .. n : ix[i].firstKey \in Int
    BY FileTypes
  <1>4. Ascending(s)
    BY DEF FileInv, Indexed
  <1>5. \A m \in 1 .. Len(s) : s[m].key \in Int
    BY BlockBounds
  <1>6. Scanned(s, k) = {s[i] : i \in {j \in 1 .. Len(s) : s[j].key = k}}
    <2>1. \A j \in 1 .. Len(s) :
             s[j].key = k => \A i \in 1 .. j - 1 : s[i].key < k
      <3> SUFFICES ASSUME NEW j \in 1 .. Len(s), s[j].key = k,
                          NEW i \in 1 .. j - 1
                   PROVE  s[i].key < k
        OBVIOUS
      <3> HIDE DEF s
      <3>1. i \in 1 .. Len(s) /\ i < j
        BY <1>1
      <3> QED
        BY <3>1, <1>4 DEF Ascending
    <2> QED
      BY <2>1, <1>1 DEF Scanned
  <1>7. ASSUME NEW j \in 1 .. n, NEW m \in 1 .. Len(file.blocks[j].checksum),
               file.blocks[j].checksum[m].key = k
        PROVE  j = c
    <2>1. /\ ix[j].firstKey <= k
          /\ \A i \in 1 .. n : j < i => k < ix[i].firstKey
      BY <1>7, BlockBounds
    <2>2. ~(j < c)
      BY <2>1, <1>3
    <2>3. ~(c < j)
      <3> SUFFICES ASSUME c < j
                   PROVE  FALSE
        OBVIOUS
      <3>1. c # n /\ c + 1 \in 1 .. n /\ k < ix[c + 1].firstKey
        BY <1>2
      <3>2. ix[c + 1].firstKey <= ix[j].firstKey
        <4>1. CASE j = c + 1
          BY <4>1, <1>3
        <4>2. CASE j # c + 1
          <5>1. c + 1 < j
            BY <4>2, <1>2
          <5>2. 1 \in 1 .. Len(file.blocks[c + 1].checksum)
            <6>1. Len(file.blocks[c + 1].checksum) \in Nat \ {0}
              BY <3>1, FileTypes
            <6> QED
              BY ONLY <6>1
          <5>3. /\ file.blocks[c + 1].checksum[1].key \in Int
                /\ ix[c + 1].firstKey <= file.blocks[c + 1].checksum[1].key
                /\ file.blocks[c + 1].checksum[1].key < ix[j].firstKey
            BY <3>1, <5>1, <5>2, BlockBounds
          <5> QED
            BY ONLY <5>3, <3>1, <1>3, j \in 1 .. n
        <4> QED
          BY <4>1, <4>2
      <3> QED
        BY ONLY <2>1, <3>1, <3>2, <1>3, j \in 1 .. n, k \in Int
    <2> QED
      BY <2>2, <2>3, <1>2
  <1>8. \A i \in 1 .. n : ToSet(file.blocks[i].checksum)
           = {file.blocks[i].checksum[m] : m \in 1 .. Len(file.blocks[i].checksum)}
    BY RecordsOfBlock
  <1> SUFFICES ASSUME NEW r
               PROVE  (\E m \in 1 .. Len(s) : r = s[m] /\ s[m].key = k)
                         <=> r \in Stored(file) /\ r.key = k
    BY <1>6 DEF Versions, Stored
  <1>9. ASSUME NEW m \in 1 .. Len(s), r = s[m]
        PROVE  r \in Stored(file)
    BY <1>8, <1>9 DEF Stored
  <1>10. ASSUME r \in Stored(file), r.key = k
         PROVE  \E m \in 1 .. Len(s) : r = s[m] /\ s[m].key = k
    <2>1. PICK j \in 1 .. n : r \in ToSet(file.blocks[j].checksum)
      BY <1>10 DEF Stored
    <2>2. PICK m \in 1 .. Len(file.blocks[j].checksum) : r = file.blocks[j].checksum[m]
      BY <2>1, <1>8
    <2>3. j = c
      BY <2>2, <1>7, <1>10
    <2> QED
      BY <2>2, <2>3, <1>10
  <1> QED
    BY <1>9, <1>10

\* lookupEntry() answers what the file holds of the key, or throws.
LEMMA LookupIsExact ==
  ASSUME NEW file, FileInv(file), NEW k \in Keys
  PROVE  /\ LookupEntry(file, k) \in {{}, {Versions(Stored(file), k)}}
         /\ Undamaged(file) => LookupEntry(file, k) = {Versions(Stored(file), k)}
  <1> DEFINE ix == file.index.checksum
             n == Len(file.blocks)
             answer == {Versions(Stored(file), k)}
  <1>1. k \in Int /\ n \in Nat /\ Len(ix) = n /\ ix \in Seq(IndexEntry)
    BY FileTypes, KeysAreIntegers
  <1>2. Undamaged(file) => Opens(file)
    BY DEF Undamaged, Opens, HeaderIsRead, FooterIsRead, FilterIsLoaded,
       IndexIsLoaded, Readable
  <1>3. Opens(file) => /\ file.filter.says = file.filter.checksum
                       /\ file.index.says = ix
    BY DEF Opens, FilterIsLoaded, IndexIsLoaded, Readable
  <1>4. CASE ~Opens(file)
    BY <1>2, <1>4 DEF LookupEntry
  <1>5. CASE Opens(file)
    <2>1. LookupEntry(file, k) =
             IF \/ ~MayContain(file.filter.checksum, k)
                \/ ix = <<>>
                \/ k < ix[1].firstKey
             THEN {{}}
             ELSE UNION {{Scanned(records, k) : records \in BlockRecords(file, ix[i])} :
                            i \in CandidateBlocks(ix, k)}
      BY <1>3, <1>5 DEF LookupEntry
    <2>2. CASE ~MayContain(file.filter.checksum, k)
      <3>1. k \notin KeysOf(Stored(file))
        BY <2>2, NoFilterDeniesItsKeys DEF FileInv
      <3>2. Versions(Stored(file), k) = {}
        BY <3>1 DEF Versions, KeysOf
      <3> QED
        BY <2>1, <2>2, <3>2
    <2>3. CASE ix = <<>>
      <3>1. n = 0
        BY <2>3, <1>1, EmptySeq
      <3>2. Stored(file) = {}
        BY <3>1 DEF Stored
      <3>3. Versions(Stored(file), k) = {}
        BY <3>2 DEF Versions
      <3> QED
        BY <2>1, <2>3, <3>3
    <2>4. CASE ix # <<>> /\ k < ix[1].firstKey
      <3>1. ASSUME NEW r \in Stored(file)
            PROVE  r.key # k
        <4>1. PICK j \in 1 .. n : r \in ToSet(file.blocks[j].checksum)
          BY DEF Stored
        <4>2. PICK m \in 1 .. Len(file.blocks[j].checksum) :
                      r = file.blocks[j].checksum[m]
          <5>1. ToSet(file.blocks[j].checksum) =
                   {file.blocks[j].checksum[m] : m \in 1 .. Len(file.blocks[j].checksum)}
            BY RecordsOfBlock
          <5> QED
            BY <4>1, <5>1
        <4>3. /\ r.key \in Int
              /\ ix[j].firstKey <= r.key
              /\ ix[j].firstKey \in Int /\ ix[1].firstKey \in Int
          <5>1. 1 \in 1 .. n
            BY <1>1
          <5>2. ix[j].firstKey \in Int /\ ix[1].firstKey \in Int
            BY <5>1, FileTypes
          <5>3. r.key \in Int /\ ix[j].firstKey <= r.key
            BY <4>2, BlockBounds
          <5> QED
            BY <5>2, <5>3
        <4>4. ix[1].firstKey <= ix[j].firstKey
          <5>1. CASE j = 1
            BY <5>1, <4>3
          <5>2. CASE j # 1
            <6>1. 1 < j /\ 1 \in 1 .. n
              BY <5>2, <1>1
            <6>2. 1 \in 1 .. Len(file.blocks[1].checksum)
              <7>1. 1 \in 1 .. Len(file.blocks)
                BY <6>1
              <7>2. Len(file.blocks[1].checksum) \in Nat \ {0}
                BY <7>1, FileTypes
              <7> QED
                BY ONLY <7>2
            <6>3. /\ file.blocks[1].checksum[1].key \in Int
                  /\ ix[1].firstKey <= file.blocks[1].checksum[1].key
                  /\ file.blocks[1].checksum[1].key < ix[j].firstKey
              BY <6>1, <6>2, BlockBounds
            <6> QED
              BY ONLY <6>3, <4>3
          <5> QED
            BY <5>1, <5>2
        <4> QED
          BY ONLY <4>3, <4>4, <2>4, <1>1
      <3>2. Versions(Stored(file), k) = {}
        BY <3>1 DEF Versions
      <3> QED
        BY <2>1, <2>4, <3>2
    <2>5. CASE /\ MayContain(file.filter.checksum, k)
               /\ ix # <<>>
               /\ ~(k < ix[1].firstKey)
      <3>1. n # 0
        BY <2>5, <1>1, EmptySeq
      <3>2. PICK c \in 1 .. n :
                    /\ CandidateBlocks(ix, k) = {c}
                    /\ ix[c].firstKey <= k
                    /\ c # n => k < ix[c + 1].firstKey
        BY <2>5, <3>1, <1>1, OneCandidate
      <3>3. Scanned(file.blocks[c].checksum, k) = Versions(Stored(file), k)
        BY <3>2, <1>1, ScanIsExact
      <3>4. LookupEntry(file, k) =
               {Scanned(records, k) : records \in BlockRecords(file, ix[c])}
        BY <2>1, <2>5, <3>2
      <3>5. BlockRecords(file, ix[c]) =
               IF file.blocks[c].says = file.blocks[c].checksum
               THEN {file.blocks[c].checksum} ELSE {}
        BY EntryLeadsToItsBlock
      <3>6. CASE file.blocks[c].says = file.blocks[c].checksum
        BY <3>3, <3>4, <3>5, <3>6
      <3>7. CASE file.blocks[c].says # file.blocks[c].checksum
        BY <3>4, <3>5, <3>7 DEF Undamaged
      <3> QED
        BY <3>6, <3>7
    <2> QED
      BY <2>2, <2>3, <2>4, <2>5
  <1> QED
    BY <1>4, <1>5

-----------------------------------------------------------------------------
(* SstableReader::Iterator *)

\* The iterator of a file: it knows the index, and has the end of a block.
IterInv(file, it) ==
    /\ it = [index |-> it.index, block |-> it.block, records |-> it.records]
    /\ it.index = file.index.checksum
    /\ it.block \in 1 .. Len(file.blocks) + 1
    /\ it.records \in Seq(AnyRecord)
    /\ Ascending(it.records)
    /\ it.records = <<>> <=> it.block = Len(file.blocks) + 1
    /\ \A j \in it.block + 1 .. Len(file.blocks) :
          Before(it.records, file.blocks[j].checksum)

\* What an iterator has not passed.
Remaining(file, it) ==
    ToSet(it.records)
        \cup UNION {ToSet(file.blocks[j].checksum) :
                       j \in it.block + 1 .. Len(file.blocks)}

LEMMA EnteredBlock ==
  ASSUME NEW file, FileInv(file), NEW i \in 1 .. Len(file.blocks) + 1,
         NEW it \in AtBlock(file, file.index.checksum, i)
  PROVE  /\ IterInv(file, it)
         /\ Remaining(file, it) =
               UNION {ToSet(file.blocks[j].checksum) : j \in i .. Len(file.blocks)}
  <1> DEFINE ix == file.index.checksum
             n == Len(file.blocks)
  <1>1. n \in Nat /\ Len(ix) = n
    BY FileTypes
  <1>2. CASE i = n + 1
    <2>1. it = [index |-> ix, block |-> i, records |-> <<>>]
      BY <1>1, <1>2 DEF AtBlock
    <2>2. it.records = <<>> /\ it.block = i /\ it.index = ix
      BY <2>1
    <2>3. Len(<<>>) = 0 /\ <<>> \in Seq(AnyRecord) /\ ToSet(<<>>) = {}
      BY EmptySeq DEF ToSet
    <2>4. \A j \in i .. n : FALSE
      BY <1>1, <1>2
    <2>5. \A j \in i + 1 .. n : FALSE
      BY <1>1, <1>2
    <2>6. Ascending(<<>>)
      BY <2>3 DEF Ascending
    <2>7. IterInv(file, it)
      BY <1>2, <2>1, <2>2, <2>3, <2>5, <2>6 DEF IterInv
    <2> QED
      BY <2>2, <2>3, <2>4, <2>5, <2>7 DEF Remaining
  <1>3. CASE i \in 1 .. n
    <2> DEFINE s == file.blocks[i].checksum
    <2>1. it = [index |-> ix, block |-> i, records |-> s]
      <3>1. ~(i > Len(ix))
        BY <1>1, <1>3
      <3>2. PICK records \in BlockRecords(file, ix[i]) :
                    it = [index |-> ix, block |-> i, records |-> records]
        BY <3>1 DEF AtBlock
      <3> QED
        BY <3>2, <1>3, EntryLeadsToItsBlock
    <2>2. it.records = s /\ it.block = i /\ it.index = ix
      BY <2>1
    <2>3. s \in Seq(AnyRecord) /\ s # <<>> /\ Ascending(s)
      BY <1>3, FileTypes DEF FileInv, Indexed
    <2>4. \A j \in i + 1 .. n : j \in 1 .. n /\ i < j
      BY <1>1, <1>3
    <2>5. \A j \in i + 1 .. n : Before(s, file.blocks[j].checksum)
      BY <1>3, <2>4 DEF FileInv, Indexed
    <2>6. i # n + 1
      BY <1>1, <1>3
    <2>7. IterInv(file, it)
      BY <2>1, <2>2, <2>3, <2>5, <2>6 DEF IterInv
    <2>8. \A j : j \in i .. n <=> j = i \/ j \in i + 1 .. n
      BY <1>1, <1>3
    <2>9. Remaining(file, it) =
             UNION {ToSet(file.blocks[j].checksum) : j \in i .. n}
      <3> SUFFICES ASSUME NEW r
                   PROVE  r \in Remaining(file, it) <=>
                             \E j \in i .. n : r \in ToSet(file.blocks[j].checksum)
        OBVIOUS
      <3> QED
        BY <2>2, <2>8 DEF Remaining
    <2> QED
      BY <2>7, <2>9
  <1> QED
    BY <1>1, <1>2, <1>3

\* A new iterator has everything before it.
LEMMA IteratorStarts ==
  ASSUME NEW file, FileInv(file), NEW it \in Iterators(file)
  PROVE  /\ IterInv(file, it)
         /\ Remaining(file, it) = Stored(file)
  <1>1. file.index.says = file.index.checksum
    BY DEF Iterators, Opens, IndexIsLoaded, Readable
  <1>2. it \in AtBlock(file, file.index.checksum, 1)
    BY <1>1 DEF Iterators
  <1>3. 1 \in 1 .. Len(file.blocks) + 1
    BY FileTypes
  <1> QED
    BY <1>2, <1>3, EnteredBlock DEF Stored

\* An iterator stands at the first of the records that it has not passed.
LEMMA IteratorStands ==
  ASSUME NEW file, FileInv(file), NEW it, IterInv(file, it)
  PROVE  /\ Remaining(file, it) \subseteq AnyRecord
         /\ ~Valid(it) => Remaining(file, it) = {}
         /\ Valid(it) => /\ CurrentRecord(it) \in Remaining(file, it)
                         /\ CurrentRecord(it) \in AnyRecord
                         /\ \A r \in Remaining(file, it) :
                               r = CurrentRecord(it) \/ CurrentRecord(it).key < r.key
  <1> DEFINE s == it.records
             n == Len(file.blocks)
  <1>1. /\ s \in Seq(AnyRecord)
        /\ Ascending(s)
        /\ ToSet(s) = {s[m] : m \in 1 .. Len(s)}
        /\ ToSet(s) \subseteq AnyRecord
        /\ Len(s) \in Nat
    BY ToSetProperties DEF IterInv
  <1>2. n \in Nat /\ it.block \in 1 .. n + 1
    BY FileTypes DEF IterInv
  <1>3. ASSUME NEW j \in it.block + 1 .. n
        PROVE  /\ ToSet(file.blocks[j].checksum) =
                     {file.blocks[j].checksum[m] : m \in 1 .. Len(file.blocks[j].checksum)}
               /\ ToSet(file.blocks[j].checksum) \subseteq AnyRecord
               /\ Before(s, file.blocks[j].checksum)
    <2>1. j \in 1 .. n
      BY <1>2
    <2>2. file.blocks[j].checksum \in Seq(AnyRecord)
      BY <2>1, FileTypes
    <2>3. Before(s, file.blocks[j].checksum)
      BY DEF IterInv
    <2> QED
      BY <2>2, <2>3, ToSetProperties
  <1>4. Remaining(file, it) \subseteq AnyRecord
    BY <1>1, <1>3 DEF Remaining
  <1>5. ASSUME ~Valid(it)
        PROVE  Remaining(file, it) = {}
    <2>1. s = <<>> /\ it.block = n + 1
      BY <1>5 DEF Valid, IterInv
    <2>2. ToSet(s) = {}
      BY <2>1 DEF ToSet
    <2>3. \A j \in it.block + 1 .. n : FALSE
      BY <2>1, <1>2
    <2> QED
      BY <2>2, <2>3 DEF Remaining
  <1>6. ASSUME Valid(it)
        PROVE  /\ CurrentRecord(it) \in Remaining(file, it)
               /\ CurrentRecord(it) \in AnyRecord
               /\ \A r \in Remaining(file, it) :
                     r = CurrentRecord(it) \/ CurrentRecord(it).key < r.key
    <2>1. s # <<>> /\ Len(s) \in Nat \ {0}
      BY <1>1, <1>6, EmptySeq DEF Valid
    <2>2. CurrentRecord(it) = s[1] /\ 1 \in 1 .. Len(s)
      BY <1>1, <2>1 DEF CurrentRecord
    <2>3. s[1] \in ToSet(s)
      BY <1>1, <2>2
    <2>4. CurrentRecord(it) \in Remaining(file, it)
      BY <2>2, <2>3 DEF Remaining
    <2>5. ASSUME NEW r \in Remaining(file, it)
          PROVE  r = s[1] \/ s[1].key < r.key
      <3>1. CASE r \in ToSet(s)
        <4>1. PICK m \in 1 .. Len(s) : r = s[m]
          BY <3>1, <1>1
        <4>2. CASE m = 1
          BY <4>1, <4>2
        <4>3. CASE m # 1
          <5>1. 1 < m
            BY <4>3, <1>1
          <5> QED
            BY <4>1, <5>1, <2>2, <1>1 DEF Ascending
        <4> QED
          BY <4>2, <4>3
      <3>2. CASE r \notin ToSet(s)
        <4>1. PICK j \in it.block + 1 .. n : r \in ToSet(file.blocks[j].checksum)
          BY <3>2 DEF Remaining
        <4>2. PICK m \in 1 .. Len(file.blocks[j].checksum) :
                      r = file.blocks[j].checksum[m]
          BY <4>1, <1>3
        <4>3. Before(s, file.blocks[j].checksum)
          BY <1>3
        <4> QED
          BY <4>2, <4>3, <2>2 DEF Before
      <3> QED
        BY <3>1, <3>2
    <2> QED
      BY <2>2, <2>4, <2>5, <1>4
  <1> QED
    BY <1>4, <1>5, <1>6

\* next() passes the record it was at, and no other.
LEMMA IteratorAdvances ==
  ASSUME NEW file, FileInv(file), NEW it, IterInv(file, it), Valid(it),
         NEW after \in Advanced(file, it)
  PROVE  /\ IterInv(file, after)
         /\ Remaining(file, after) = Remaining(file, it) \ {CurrentRecord(it)}
  <1> DEFINE s == it.records
             n == Len(file.blocks)
             later == UNION {ToSet(file.blocks[j].checksum) : j \in it.block + 1 .. n}
  <1>1. /\ s \in Seq(AnyRecord) /\ s # <<>> /\ Len(s) \in Nat \ {0}
        /\ s = <<>> <=> it.block = n + 1
        /\ n \in Nat /\ it.block \in 1 .. n + 1
        /\ ToSet(s) = {s[m] : m \in 1 .. Len(s)}
    BY EmptySeq, FileTypes, ToSetProperties DEF IterInv, Valid
  <1>2. it.block \in 1 .. n
    BY <1>1
  <1>3. CurrentRecord(it) = s[1]
    BY <1>1 DEF CurrentRecord
  <1>4. Remaining(file, it) = ToSet(s) \cup later
    BY DEF Remaining
  <1>5. CurrentRecord(it).key \in Int
    BY IteratorStands, KeysAreIntegers DEF AnyRecord
  <1>6. \A r \in later : r # s[1]
    <2> SUFFICES ASSUME NEW j \in it.block + 1 .. n,
                        NEW r \in ToSet(file.blocks[j].checksum)
                 PROVE  r # s[1]
      OBVIOUS
    <2>1. j \in 1 .. n
      BY <1>2
    <2>2. PICK m \in 1 .. Len(file.blocks[j].checksum) :
                  r = file.blocks[j].checksum[m]
      <3>1. ToSet(file.blocks[j].checksum) =
               {file.blocks[j].checksum[m] : m \in 1 .. Len(file.blocks[j].checksum)}
        BY <2>1, RecordsOfBlock
      <3> QED
        BY <3>1
    <2>3. 1 \in 1 .. Len(s)
      BY <1>1
    <2>4. s[1].key < r.key
      BY <2>2, <2>3 DEF IterInv, Before
    <2> QED
      BY <2>4, <1>3, <1>5
  <1>7. CASE Len(s) > 1
    <2> DEFINE t == Tail(s)
    <2>1. after = [it EXCEPT !.records = Tail(@)]
      BY <1>7 DEF Advanced
    <2>2. /\ after = [index |-> it.index, block |-> it.block, records |-> t]
          /\ after.index = it.index
          /\ after.block = it.block
          /\ after.records = t
      BY <2>1 DEF IterInv
    <2>3. /\ t \in Seq(AnyRecord)
          /\ Len(t) = Len(s) - 1
          /\ \A m \in 1 .. Len(t) : t[m] = s[m + 1]
      BY <1>1, HeadTailProperties
    <2>4. t # <<>>
      <3>1. Len(t) # 0
        <4>1. \A x \in Nat \ {0} : x > 1 => x - 1 # 0
          OBVIOUS
        <4> QED
          BY ONLY <4>1, <2>3, <1>1, <1>7
      <3> QED
        BY <3>1, <2>3, EmptySeq
    <2> HIDE DEF s, t
    <2>5. \A m \in 1 .. Len(t) : m + 1 \in 1 .. Len(s)
      BY <2>3, <1>1
    <2>6. Ascending(t)
      <3> SUFFICES ASSUME NEW m \in 1 .. Len(t), NEW l \in 1 .. Len(t), m < l
                   PROVE  t[m].key < t[l].key
        BY DEF Ascending
      <3>1. m + 1 < l + 1
        BY <2>3, <1>1
      <3> QED
        BY <3>1, <2>3, <2>5 DEF IterInv, Ascending, s
    <2>7. \A j \in it.block + 1 .. n : Before(t, file.blocks[j].checksum)
      BY <2>3, <2>5 DEF IterInv, Before, s
    <2>8. IterInv(file, after)
      <3>1. /\ it.index = file.index.checksum
            /\ it.block \in 1 .. n + 1
        BY DEF IterInv
      <3>2. ~(t = <<>>) /\ ~(it.block = n + 1)
        BY <2>4, <1>1
      <3> QED
        BY <2>2, <2>3, <2>6, <2>7, <3>1, <3>2 DEF IterInv
    <2>9. ToSet(t) = ToSet(s) \ {s[1]}
      <3>1. ToSet(t) = {t[m] : m \in 1 .. Len(t)}
        BY <2>3, ToSetProperties
      <3>2. \A m \in 1 .. Len(t) : t[m] \in ToSet(s) /\ t[m] # s[1]
        <4> SUFFICES ASSUME NEW m \in 1 .. Len(t)
                     PROVE  s[m + 1] \in ToSet(s) /\ s[m + 1] # s[1]
          BY <2>3
        <4>1. 1 \in 1 .. Len(s) /\ m + 1 \in 1 .. Len(s) /\ 1 < m + 1
          BY <2>3, <1>1
        <4>2. s[1].key < s[m + 1].key
          BY <4>1 DEF IterInv, Ascending, s
        <4> QED
          BY <4>1, <4>2, <1>1, <1>3, <1>5
      <3>3. \A m \in 1 .. Len(s) : s[m] # s[1] => s[m] \in ToSet(t)
        <4> SUFFICES ASSUME NEW m \in 1 .. Len(s), s[m] # s[1]
                     PROVE  s[m] \in ToSet(t)
          OBVIOUS
        <4>1. m - 1 \in 1 .. Len(t) /\ (m - 1) + 1 = m
          BY <2>3, <1>1
        <4> QED
          BY <4>1, <3>1, <2>3
      <3> QED
        BY <3>1, <3>2, <3>3, <1>1
    <2>10. Remaining(file, after) = ToSet(t) \cup later
      BY <2>2 DEF Remaining
    <2> QED
      BY <2>8, <2>9, <2>10, <1>3, <1>4, <1>6
  <1>8. CASE ~(Len(s) > 1)
    <2>1. Len(s) = 1
      <3>1. \A x \in Nat \ {0} : ~(x > 1) => x = 1
        OBVIOUS
      <3> QED
        BY ONLY <3>1, <1>1, <1>8
    <2>2. ToSet(s) = {s[1]}
      BY <2>1, <1>1
    <2>3. after \in AtBlock(file, file.index.checksum, it.block + 1)
      BY <1>8 DEF Advanced, IterInv
    <2>4. it.block + 1 \in 1 .. n + 1
      BY <1>2
    <2>5. IterInv(file, after) /\ Remaining(file, after) = later
      BY <2>3, <2>4, EnteredBlock
    <2> QED
      BY <2>2, <2>5, <1>3, <1>4, <1>6
  <1> QED
    BY <1>7, <1>8
=============================================================================
