------------------------------ MODULE Wal_proofs ------------------------------
(***************************************************************************)
(* Machine-checked proofs about Wal, for any record lengths, sequence      *)
(* bound, kinds and numbers of failures and number of crashes.             *)
(***************************************************************************)
EXTENDS Wal, FiniteSetTheorems, FunctionTheorems, SequenceTheorems,
        NaturalsInduction, WellFoundedInduction, TLAPS

\* The pieces of a file: each is there at least in part.
IsLog(pieces) ==
    /\ pieces \in Seq(Pieces)
    /\ \A i \in 1 .. Len(pieces) : pieces[i].written \in 1 .. pieces[i].size

IsFile(f) ==
    /\ f = [pieces |-> f.pieces, synced |-> f.synced]
    /\ IsLog(f.pieces)
    /\ f.synced \in 0 .. Len(f.pieces)

\* What is left of pieces, the first kept of which are durable: at most the last
\* piece that is left has lost bytes.
Remains(left, pieces, kept) ==
    /\ IsLog(left)
    /\ kept <= Len(left)
    /\ Len(left) <= Len(pieces)
    /\ \A i \in 1 .. Len(left) :
          /\ left[i].sequence = pieces[i].sequence
          /\ left[i].size = pieces[i].size
          /\ left[i].written <= pieces[i].written
          /\ i < Len(left) \/ i <= kept => left[i] = pieces[i]

-----------------------------------------------------------------------------
(* Numbers and sequences *)

LEMMA LeastNatural ==
  ASSUME NEW T, T \subseteq Nat, T # {}
  PROVE  \E x \in T : \A y \in T : x <= y
<1>1. PICK x \in T : \A y \in T : ~(<<y, x>> \in OpToRel(<, Nat))
  BY NatLessThanWellFounded, WFMin
<1>2. \A y \in T : ~(y < x)
  BY <1>1 DEF OpToRel
<1> QED
  BY <1>2

\* A set of numbers up to n that is closed downwards is as long as it has
\* elements.
LEMMA InitialPart ==
  ASSUME NEW n \in Nat, NEW C, C \subseteq 1 .. n,
         \A i \in C, j \in 1 .. n : j <= i => j \in C
  PROVE  Cardinality(C) \in 0 .. n /\ C = 1 .. Cardinality(C)
<1> DEFINE T == {m \in 1 .. n + 1 : m \notin C}
<1>1. n + 1 \in T /\ T \subseteq Nat
  OBVIOUS
<1>2. PICK m \in T : \A y \in T : m <= y
  BY <1>1, LeastNatural
<1>3. m \in 1 .. n + 1 /\ m \notin C
  BY <1>2
<1>4. \A i \in 1 .. m - 1 : i \in C
  BY <1>2, <1>3
<1>5. \A i \in C : i \in 1 .. n /\ i < m
  <2>1. ASSUME NEW i \in C, ~(i < m) PROVE FALSE
    <3>1. i \in 1 .. n /\ m <= i /\ m \in 1 .. n
      BY <1>3, <2>1
    <3> QED
      BY <1>3, <3>1
  <2> QED
    BY <2>1
<1>6. C = 1 .. m - 1
  <2>1. \A i \in C : i \in 1 .. m - 1
    BY <1>3, <1>5
  <2> QED
    BY <1>4, <2>1
<1>7. Cardinality(1 .. m - 1) = m - 1
  <2>1. 1 \in Int /\ m - 1 \in Int
    BY <1>3
  <2>2. Cardinality(1 .. m - 1) = IF 1 > m - 1 THEN 0 ELSE (m - 1) - 1 + 1
    BY <2>1, FS_Interval
  <2> QED
    BY <1>3, <2>2
<1> QED
  BY <1>3, <1>6, <1>7

LEMMA PieceTyped ==
  ASSUME NEW p \in Pieces
  PROVE  /\ p.sequence \in Nat /\ p.sequence < MaxSequence
         /\ p.written \in Nat
         /\ p.size \in Nat /\ p.size > 0
         /\ p.size \in RecordSizes \cup {2}
         /\ p = [sequence |-> p.sequence, written |-> p.written, size |-> p.size]
<1>1. \A n \in RecordSizes : n \in Nat /\ n > 2
  BY WalAssumption DEF HeaderUnits
<1>2. /\ p.sequence \in 0 .. MaxSequence - 1 /\ p.written \in Nat
      /\ p.size \in RecordSizes \cup {2}
      /\ p = [sequence |-> p.sequence, written |-> p.written, size |-> p.size]
  BY DEF Pieces, HeaderUnits
<1>3. MaxSequence \in Nat
  BY WalAssumption
<1>4. p.size \in Nat /\ p.size > 0
  BY <1>1, <1>2
<1> QED
  BY <1>2, <1>3, <1>4

LEMMA LogTyped ==
  ASSUME NEW p, IsLog(p)
  PROVE  /\ Len(p) \in Nat /\ DOMAIN p = 1 .. Len(p)
         /\ \A i \in 1 .. Len(p) :
               /\ p[i] \in Pieces
               /\ p[i].sequence \in Nat /\ p[i].sequence < MaxSequence
               /\ p[i].written \in Nat /\ p[i].written <= p[i].size
               /\ p[i].size \in Nat
<1>1. Len(p) \in Nat /\ DOMAIN p = 1 .. Len(p)
  BY LenProperties DEF IsLog
<1>2. \A i \in 1 .. Len(p) : p[i] \in Pieces
  BY ElementOfSeq DEF IsLog
<1>3. \A i \in 1 .. Len(p) : p[i].written <= p[i].size
  <2>1. \A i \in 1 .. Len(p) : p[i].written \in 1 .. p[i].size
    BY DEF IsLog
  <2> QED
    BY <1>2, <2>1, PieceTyped
<1> QED
  BY <1>1, <1>2, <1>3, PieceTyped

LEMMA EmptyLog == IsLog(<<>>) /\ Len(<<>>) = 0
BY EmptySeq DEF IsLog

LEMMA EmptyFileTyped ==
    IsFile(EmptyFile) /\ EmptyFile.pieces = <<>> /\ EmptyFile.synced = 0
BY EmptyLog DEF EmptyFile, IsFile

LEMMA SyncedTyped ==
  ASSUME NEW p, IsLog(p)
  PROVE  IsFile(Synced(p)) /\ Synced(p).pieces = p /\ Synced(p).synced = Len(p)
BY LogTyped DEF Synced, IsFile

-----------------------------------------------------------------------------
(* The scan of Wal::recover() *)

LEMMA StopAt ==
  ASSUME NEW p, IsLog(p), NEW i
  PROVE  i \in Stops(p) <=>
            /\ i \in 1 .. Len(p)
            /\ Torn(p[i]) \/ (i > 1 /\ p[i].sequence <= p[i - 1].sequence)
BY LogTyped DEF Stops

\* Where two files hold the same pieces up to n, the scan goes the same way.
LEMMA StopsAgree ==
  ASSUME NEW p, NEW q, IsLog(p), IsLog(q), NEW n \in Nat,
         n <= Len(p), n <= Len(q), \A i \in 1 .. n : q[i] = p[i],
         NEW i \in 1 .. n
  PROVE  i \in Stops(q) <=> i \in Stops(p)
<1>1. i \in 1 .. Len(p) /\ i \in 1 .. Len(q) /\ q[i] = p[i]
  BY LogTyped
<1>2. i > 1 => q[i - 1] = p[i - 1]
  OBVIOUS
<1> QED
  BY <1>1, <1>2, StopAt

\* Before the first stop the sequence numbers increase.
LEMMA InOrder ==
  ASSUME NEW p, IsLog(p), NEW n \in Nat, n <= Len(p),
         \A i \in 1 .. n : i \notin Stops(p),
         NEW i \in 1 .. n, NEW j \in 1 .. n, i < j
  PROVE  p[i].sequence < p[j].sequence
<1> DEFINE T == {k \in i + 1 .. n : ~(p[i].sequence < p[k].sequence)}
<1>1. \A k \in 1 .. n : p[k].sequence \in Nat
  BY LogTyped
<1>2. \A k \in 1 .. n : k > 1 => p[k - 1].sequence < p[k].sequence
  <2>1. ASSUME NEW k \in 1 .. n, k > 1
        PROVE  p[k - 1].sequence < p[k].sequence
    <3>1. k \in 1 .. Len(p) /\ k \notin Stops(p) /\ k - 1 \in 1 .. n
      BY <2>1, LogTyped
    <3>2. ~(p[k].sequence <= p[k - 1].sequence)
      BY <2>1, <3>1, StopAt
    <3> QED
      BY <1>1, <3>1, <3>2
  <2> QED
    BY <2>1
<1>3. ASSUME T # {} PROVE FALSE
  <2>1. T \subseteq Nat
    OBVIOUS
  <2>2. PICK k \in T : \A y \in T : k <= y
    BY <1>3, <2>1, LeastNatural
  <2>3. k \in i + 1 .. n /\ ~(p[i].sequence < p[k].sequence)
    BY <2>2
  <2>4. p[k - 1].sequence < p[k].sequence
    BY <1>2, <2>3
  <2>5. CASE k = i + 1
    BY <2>3, <2>4, <2>5
  <2>6. CASE k > i + 1
    <3>1. k - 1 \in i + 1 .. n /\ k - 1 \notin T
      BY <2>2, <2>3, <2>6
    <3>2. p[i].sequence < p[k - 1].sequence
      BY <3>1
    <3>3. k \in 1 .. n /\ k - 1 \in 1 .. n
      BY <2>3, <2>6
    <3> QED
      BY <1>1, <2>3, <2>4, <3>2, <3>3
  <2> QED
    BY <2>3, <2>5, <2>6
<1>4. j \in i + 1 .. n
  OBVIOUS
<1> QED
  BY <1>3, <1>4

LEMMA FirstStop ==
  ASSUME NEW p, IsLog(p), Stops(p) # {}
  PROVE  /\ Min(Stops(p)) \in Stops(p)
         /\ Min(Stops(p)) \in 1 .. Len(p)
         /\ \A y \in Stops(p) : Min(Stops(p)) <= y
<1>1. \A y \in Stops(p) : y \in 1 .. Len(p)
  BY StopAt
<1>2. Stops(p) \subseteq Nat
  BY <1>1, LogTyped
<1>3. \E x \in Stops(p) : \A y \in Stops(p) : x =< y
  BY <1>2, LeastNatural
<1>4. Min(Stops(p)) \in Stops(p) /\ \A y \in Stops(p) : Min(Stops(p)) =< y
  BY <1>3 DEF Min
<1> QED
  BY <1>1, <1>4

\* The first n pieces of a file.
LEMMA CutLog ==
  ASSUME NEW p, IsLog(p), NEW n \in Nat, n <= Len(p)
  PROVE  /\ IsLog(SubSeq(p, 1, n))
         /\ Len(SubSeq(p, 1, n)) = n
         /\ \A i \in 1 .. n : SubSeq(p, 1, n)[i] = p[i]
<1> DEFINE q == SubSeq(p, 1, n)
<1>1. \A i \in 1 .. n : i \in 1 .. Len(p)
  BY LogTyped
<1>2. \A i \in 1 .. n : p[i] \in Pieces
  BY <1>1, LogTyped
<1>3. /\ q \in Seq(Pieces)
      /\ Len(q) = IF 1 <= n THEN n - 1 + 1 ELSE 0
      /\ \A i \in 1 .. n - 1 + 1 : q[i] = p[1 + i - 1]
  BY <1>2, SubSeqProperties
<1>4. Len(q) = n /\ \A i \in 1 .. n : q[i] = p[i]
  <2>1. Len(q) = n
    BY <1>3
  <2>2. ASSUME NEW i \in 1 .. n PROVE q[i] = p[i]
    <3>1. i \in 1 .. n - 1 + 1 /\ 1 + i - 1 = i
      OBVIOUS
    <3> QED
      BY <1>3, <3>1
  <2> QED
    BY <2>1, <2>2
<1>5. \A i \in 1 .. Len(q) : q[i].written \in 1 .. q[i].size
  <2>1. \A i \in 1 .. Len(p) : p[i].written \in 1 .. p[i].size
    BY DEF IsLog
  <2> HIDE DEF q
  <2> QED
    BY <1>1, <1>4, <2>1
<1> QED
  BY <1>3, <1>4, <1>5 DEF IsLog

LEMMA AppendToLog ==
  ASSUME NEW p, IsLog(p), NEW e \in Pieces, e.written \in 1 .. e.size
  PROVE  /\ IsLog(Append(p, e))
         /\ Len(Append(p, e)) = Len(p) + 1
         /\ \A i \in 1 .. Len(p) : Append(p, e)[i] = p[i]
         /\ Append(p, e)[Len(p) + 1] = e
<1> DEFINE q == Append(p, e)
<1>1. /\ q \in Seq(Pieces) /\ Len(q) = Len(p) + 1
      /\ \A i \in 1 .. Len(p) : q[i] = p[i]
      /\ q[Len(p) + 1] = e
  BY AppendProperties DEF IsLog
<1>2. \A i \in 1 .. Len(q) : q[i].written \in 1 .. q[i].size
  <2>1. \A i \in 1 .. Len(p) : p[i].written \in 1 .. p[i].size
    BY DEF IsLog
  <2>2. Len(p) \in Nat
    BY LogTyped
  <2>3. \A i \in 1 .. Len(q) : i \in 1 .. Len(p) \/ i = Len(p) + 1
    BY <1>1, <2>2
  <2> HIDE DEF q
  <2> QED
    BY <1>1, <2>1, <2>3
<1> QED
  BY <1>1, <1>2 DEF IsLog

\* What is read is the file up to the first stop, and is in order.
LEMMA ScanReadsUpToStop ==
  ASSUME NEW p, IsLog(p)
  PROVE  /\ IsLog(ValidPrefix(p))
         /\ Len(ValidPrefix(p)) <= Len(p)
         /\ Stops(ValidPrefix(p)) = {}
         /\ \A i \in 1 .. Len(ValidPrefix(p)) : ValidPrefix(p)[i] = p[i]
         /\ \A i \in 1 .. Len(p) :
               (\A j \in 1 .. i : j \notin Stops(p)) => i <= Len(ValidPrefix(p))
<1>1. Len(p) \in Nat
  BY LogTyped
<1>2. CASE Stops(p) = {}
  BY <1>1, <1>2 DEF ValidPrefix
<1>3. CASE Stops(p) # {}
  <2> DEFINE m == Min(Stops(p))
             q == SubSeq(p, 1, m - 1)
  <2>1. m \in Stops(p) /\ m \in 1 .. Len(p) /\ \A y \in Stops(p) : m <= y
    BY <1>3, FirstStop
  <2>2. m - 1 \in Nat /\ m - 1 <= Len(p)
    BY <1>1, <2>1
  <2>3. ValidPrefix(p) = q
    BY <1>3 DEF ValidPrefix
  <2> HIDE DEF m
  <2>4. IsLog(q) /\ Len(q) = m - 1 /\ \A i \in 1 .. m - 1 : q[i] = p[i]
    BY <2>2, CutLog
  <2> HIDE DEF q
  <2>5. ASSUME NEW i \in Stops(q) PROVE FALSE
    <3>1. i \in 1 .. m - 1
      BY <2>4, StopAt
    <3>2. i \in Stops(p)
      BY <2>2, <2>4, <2>5, <3>1, StopsAgree
    <3>3. m <= i
      BY <2>1, <3>2
    <3> QED
      BY <1>1, <2>1, <3>1, <3>3
  <2>6. ASSUME NEW i \in 1 .. Len(p), \A j \in 1 .. i : j \notin Stops(p)
        PROVE  i <= m - 1
    <3>1. m \notin 1 .. i
      BY <2>1, <2>6
    <3> QED
      BY <1>1, <2>1, <3>1
  <2> QED
    BY <2>2, <2>3, <2>4, <2>5, <2>6
<1> QED
  BY <1>2, <1>3

-----------------------------------------------------------------------------
(* What a stop leaves *)

\* Only the last piece may be incomplete, and the order is never broken.
TailOK(pieces) == \A i \in Stops(pieces) : i = Len(pieces) /\ Torn(pieces[i])

\* A log in order, with all its numbers below a bound.
Ordered(pieces, bound) ==
    /\ Stops(pieces) = {}
    /\ \A i \in 1 .. Len(pieces) : pieces[i].sequence < bound

\* All that is complete in a file has a later number.
OnlyLater(pieces, t) ==
    \A i \in 1 .. Len(pieces) : Torn(pieces[i]) \/ t < pieces[i].sequence

\* A record is durable with nothing before it that stops a scan, or the
\* checkpoint covers it and the file holds only later ones.
Held(f, records, through) ==
    \A t \in records :
        \/ \E i \in 1 .. f.synced :
              /\ f.pieces[i].sequence = t
              /\ \A j \in 1 .. i : j \notin Stops(f.pieces)
        \/ t <= through /\ OnlyLater(f.pieces, t)

LEMMA TailCanBeCut ==
  ASSUME NEW p, IsLog(p), TailOK(p)
  PROVE  ~MayRefuse(p)
<1> SUFFICES ASSUME NEW i \in Stops(p),
                    ~Torn(p[i]) \/ i < Len(p)
             PROVE  FALSE
  BY DEF MayRefuse
<1>1. i = Len(p) /\ Torn(p[i])
  BY DEF TailOK
<1> QED
  BY <1>1, LogTyped

LEMMA OrderedIsOK ==
  ASSUME NEW p, Stops(p) = {}
  PROVE  TailOK(p) /\ ~MayRefuse(p)
BY DEF TailOK, MayRefuse

LEMMA TailRemains ==
  ASSUME NEW p, NEW q, IsLog(p), NEW n \in Nat, Remains(q, p, n), TailOK(p)
  PROVE  TailOK(q)
<1> SUFFICES ASSUME NEW i \in Stops(q)
             PROVE  i = Len(q) /\ Torn(q[i])
  BY DEF TailOK
<1>1. IsLog(q) /\ Len(q) <= Len(p)
  BY DEF Remains
<1>2. /\ Len(q) \in Nat /\ Len(p) \in Nat /\ i \in 1 .. Len(q)
      /\ Torn(q[i]) \/ (i > 1 /\ q[i].sequence <= q[i - 1].sequence)
  BY <1>1, LogTyped, StopAt
<1>3. i \in 1 .. Len(p)
  BY <1>1, <1>2
<1>4. /\ q[i].sequence = p[i].sequence /\ q[i].size = p[i].size
      /\ q[i].written <= p[i].written
      /\ i < Len(q) => q[i] = p[i]
      /\ i > 1 => q[i - 1].sequence = p[i - 1].sequence
  BY <1>2 DEF Remains
<1>5. i < Len(q) => i \in Stops(p)
  BY <1>1, <1>2, <1>3, <1>4, StopAt
<1>6. i = Len(q)
  BY <1>1, <1>2, <1>5 DEF TailOK
<1>7. CASE Torn(q[i])
  BY <1>6, <1>7
<1>8. CASE i > 1 /\ q[i].sequence <= q[i - 1].sequence
  <2>1. i \in Stops(p)
    BY <1>3, <1>4, <1>8, StopAt
  <2>2. Torn(p[i])
    BY <2>1 DEF TailOK
  <2>3. /\ p[i].written \in Nat /\ p[i].size \in Nat
        /\ q[i].written \in Nat
    BY <1>1, <1>2, <1>3, LogTyped
  <2>4. Torn(q[i])
    BY <1>4, <2>2, <2>3 DEF Torn
  <2> QED
    BY <1>6, <2>4
<1> QED
  BY <1>2, <1>7, <1>8

\* Where what is durable stays, and whatever else there is was there or is torn,
\* no record is lost.
LEMMA HeldKept ==
  ASSUME NEW f, IsFile(f), NEW g, IsFile(g), f.synced <= g.synced,
         \A i \in 1 .. f.synced : g.pieces[i] = f.pieces[i],
         \A j \in 1 .. Len(g.pieces) :
            \/ Torn(g.pieces[j])
            \/ \E i \in 1 .. Len(f.pieces) : g.pieces[j] = f.pieces[i],
         NEW S, NEW c, Held(f, S, c)
  PROVE  Held(g, S, c)
<1> DEFINE p == f.pieces
           q == g.pieces
<1>1. /\ IsLog(p) /\ IsLog(q) /\ f.synced \in 0 .. Len(p)
      /\ g.synced \in 0 .. Len(q) /\ f.synced <= Len(q)
      /\ Len(p) \in Nat /\ Len(q) \in Nat
  BY LogTyped DEF IsFile
<1>2. /\ \A i \in 1 .. f.synced : q[i] = p[i]
      /\ \A j \in 1 .. Len(q) : Torn(q[j]) \/ \E i \in 1 .. Len(p) : q[j] = p[i]
  OBVIOUS
<1> SUFFICES ASSUME NEW t \in S
             PROVE  \/ \E i \in 1 .. g.synced :
                          /\ q[i].sequence = t
                          /\ \A j \in 1 .. i : j \notin Stops(q)
                    \/ t <= c /\ OnlyLater(q, t)
  BY DEF Held
<1>3. \/ \E i \in 1 .. f.synced :
            p[i].sequence = t /\ \A j \in 1 .. i : j \notin Stops(p)
      \/ t <= c /\ OnlyLater(p, t)
  BY DEF Held
<1> HIDE DEF p, q
<1>4. CASE \E i \in 1 .. f.synced :
              p[i].sequence = t /\ \A j \in 1 .. i : j \notin Stops(p)
  <2>1. PICK i \in 1 .. f.synced :
              p[i].sequence = t /\ \A j \in 1 .. i : j \notin Stops(p)
    BY <1>4
  <2>2. i \in 1 .. g.synced /\ q[i].sequence = t
    BY <1>1, <1>2, <2>1
  <2>3. ASSUME NEW j \in 1 .. i PROVE j \notin Stops(q)
    <3>1. j \in 1 .. f.synced /\ f.synced \in Nat /\ f.synced <= Len(p)
      BY <1>1, <2>1
    <3>2. j \in Stops(q) <=> j \in Stops(p)
      BY <1>1, <1>2, <3>1, StopsAgree
    <3> QED
      BY <2>1, <3>2
  <2> QED
    BY <2>2, <2>3
<1>5. CASE t <= c /\ OnlyLater(p, t)
  BY <1>2, <1>5 DEF OnlyLater
<1> QED
  BY <1>3, <1>4, <1>5

LEMMA HeldRemains ==
  ASSUME NEW f, IsFile(f), NEW g, IsFile(g),
         Remains(g.pieces, f.pieces, f.synced), f.synced <= g.synced,
         NEW S, NEW c, Held(f, S, c)
  PROVE  Held(g, S, c)
<1> DEFINE p == f.pieces
           q == g.pieces
<1>1. /\ IsLog(p) /\ IsLog(q) /\ f.synced \in 0 .. Len(p)
      /\ Len(p) \in Nat /\ Len(q) \in Nat
  BY LogTyped DEF IsFile
<1>2. /\ f.synced <= Len(q) /\ Len(q) <= Len(p)
      /\ \A i \in 1 .. Len(q) :
            /\ q[i].sequence = p[i].sequence /\ q[i].size = p[i].size
            /\ q[i].written <= p[i].written
            /\ i <= f.synced => q[i] = p[i]
  BY DEF Remains
<1> HIDE DEF p, q
<1>3. \A i \in 1 .. f.synced : q[i] = p[i]
  BY <1>1, <1>2
<1>4. ASSUME NEW j \in 1 .. Len(q)
      PROVE  Torn(q[j]) \/ \E i \in 1 .. Len(p) : q[j] = p[i]
  <2>1. j \in 1 .. Len(p)
    BY <1>1, <1>2
  <2>2. /\ q[j] \in Pieces /\ q[j].written \in Nat /\ q[j].size \in Nat
        /\ p[j] \in Pieces /\ p[j].written \in Nat /\ p[j].written <= p[j].size
    BY <1>1, <2>1, LogTyped
  <2>3. CASE q[j].written = p[j].written
    <3>1. q[j] = p[j]
      <4>1. /\ q[j] = [sequence |-> q[j].sequence, written |-> q[j].written,
                       size |-> q[j].size]
            /\ p[j] = [sequence |-> p[j].sequence, written |-> p[j].written,
                       size |-> p[j].size]
        BY <2>2, PieceTyped
      <4>2. q[j].sequence = p[j].sequence /\ q[j].size = p[j].size
        BY <1>2
      <4> QED
        BY <2>3, <4>1, <4>2
    <3> QED
      BY <2>1, <3>1
  <2>4. CASE q[j].written < p[j].written
    BY <1>2, <2>2, <2>4 DEF Torn
  <2> QED
    BY <1>2, <2>2, <2>3, <2>4
<1> QED
  BY <1>3, <1>4, HeldKept DEF p, q

\* The file as it is.
LEMMA AllRemains ==
  ASSUME NEW f, IsFile(f)
  PROVE  Remains(f.pieces, f.pieces, f.synced)
<1>1. /\ IsLog(f.pieces) /\ f.synced <= Len(f.pieces) /\ Len(f.pieces) \in Nat
      /\ \A i \in 1 .. Len(f.pieces) : f.pieces[i].written \in Nat
  BY LogTyped DEF IsFile
<1> QED
  BY <1>1 DEF Remains

\* A power loss takes some of the bytes that no fsync has covered.
LEMMA PowerLossRemains ==
  ASSUME NEW f, IsFile(f), NEW q \in AfterPowerLoss(f)
  PROVE  Remains(q, f.pieces, f.synced)
<1> DEFINE p == f.pieces
<1>1. IsLog(p) /\ f.synced \in 0 .. Len(p) /\ Len(p) \in Nat
  BY LogTyped DEF IsFile
<1>2. ASSUME NEW n \in f.synced .. Len(p), q = SubSeq(p, 1, n)
      PROVE  Remains(q, p, f.synced)
  <2>1. n \in Nat /\ n <= Len(p)
    BY <1>1
  <2>2. IsLog(q) /\ Len(q) = n /\ \A i \in 1 .. n : q[i] = p[i]
    BY <1>1, <1>2, <2>1, CutLog
  <2>3. \A i \in 1 .. n : i \in 1 .. Len(p)
    BY <1>1
  <2>4. \A i \in 1 .. n : p[i].written \in Nat
    BY <1>1, <2>3, LogTyped
  <2> HIDE DEF p
  <2> QED
    BY <1>1, <2>1, <2>2, <2>4 DEF Remains
<1>3. ASSUME NEW n \in f.synced .. Len(p) - 1, NEW w \in 1 .. p[n + 1].written,
             q = Append(SubSeq(p, 1, n), [p[n + 1] EXCEPT !.written = w])
      PROVE  Remains(q, p, f.synced)
  <2> DEFINE e == [p[n + 1] EXCEPT !.written = w]
             s == SubSeq(p, 1, n)
  <2>1. n \in Nat /\ n + 1 <= Len(p) /\ n + 1 \in 1 .. Len(p) /\ n <= Len(p)
    BY <1>1
  <2>2. IsLog(s) /\ Len(s) = n /\ \A i \in 1 .. n : s[i] = p[i]
    BY <1>1, <2>1, CutLog
  <2>3. /\ p[n + 1] \in Pieces /\ p[n + 1].written \in Nat
        /\ p[n + 1].written <= p[n + 1].size /\ p[n + 1].size \in Nat
    BY <1>1, <2>1, LogTyped
  <2>4. p[n + 1] = [sequence |-> p[n + 1].sequence, written |-> p[n + 1].written,
                    size |-> p[n + 1].size]
    BY <2>3, PieceTyped
  <2>5. e = [sequence |-> p[n + 1].sequence, written |-> w, size |-> p[n + 1].size]
    BY <2>4
  <2>6. w \in Nat /\ w <= p[n + 1].written /\ w \in 1 .. p[n + 1].size
    BY <2>3
  <2>7. e \in Pieces
    BY <2>3, <2>5, <2>6 DEF Pieces
  <2>8. /\ e.sequence = p[n + 1].sequence /\ e.written = w
        /\ e.size = p[n + 1].size
    BY <2>5
  <2> HIDE DEF e, s
  <2>9. /\ IsLog(q) /\ Len(q) = n + 1
        /\ \A i \in 1 .. n : q[i] = s[i]
        /\ q[n + 1] = e
    <3>1. q = Append(s, e)
      BY <1>3 DEF s, e
    <3> QED
      BY <2>2, <2>6, <2>7, <2>8, <3>1, AppendToLog
  <2>10. \A i \in 1 .. n : q[i] = p[i] /\ p[i].written \in Nat
    <3>1. \A i \in 1 .. n : i \in 1 .. Len(p)
      BY <2>1
    <3> QED
      BY <1>1, <2>2, <2>9, <3>1, LogTyped
  <2>11. \A i \in 1 .. n + 1 : i \in 1 .. n \/ i = n + 1
    BY <2>1
  <2>12. f.synced <= n /\ f.synced \in Nat
    BY <1>1
  <2> HIDE DEF p
  <2>13. ASSUME NEW i \in 1 .. Len(q)
         PROVE  /\ q[i].sequence = p[i].sequence
                /\ q[i].size = p[i].size
                /\ q[i].written <= p[i].written
                /\ i < Len(q) \/ i <= f.synced => q[i] = p[i]
    <3>1. CASE i \in 1 .. n
      BY <2>10, <3>1
    <3>2. CASE i = n + 1
      BY <2>1, <2>6, <2>8, <2>9, <2>12, <3>2
    <3> QED
      BY <2>9, <2>11, <3>1, <3>2
  <2> QED
    BY <2>1, <2>9, <2>12, <2>13 DEF Remains
<1> QED
  BY <1>2, <1>3 DEF AfterPowerLoss

\* A kill takes bytes only of the record that is being written.
LEMMA KillRemains ==
  ASSUME NEW f, IsFile(f), NEW q \in AfterKill(f),
         writer = "fsync" =>
            /\ f.synced < InFlight
            /\ InFlight \in 1 .. Len(f.pieces)
  PROVE  \/ Remains(q, f.pieces, f.synced)
         \/ /\ writer = "fsync" /\ position # AtEnd
            /\ q \in HalfOverwritten(f.pieces, InFlight)
<1>1. CASE q = f.pieces
  BY <1>1, AllRemains
<1>2. CASE /\ writer = "fsync" /\ InFlight = Len(f.pieces)
           /\ q \in AfterPowerLoss([f EXCEPT !.synced = Len(f.pieces) - 1])
  <2> DEFINE g == [f EXCEPT !.synced = Len(f.pieces) - 1]
  <2>1. /\ f = [pieces |-> f.pieces, synced |-> f.synced]
        /\ IsLog(f.pieces) /\ Len(f.pieces) \in Nat
        /\ f.synced \in Nat /\ f.synced < Len(f.pieces)
    <3>1. Len(f.pieces) \in Nat /\ f.synced \in 0 .. Len(f.pieces)
      BY LogTyped DEF IsFile
    <3>2. f.synced < InFlight /\ InFlight \in 1 .. Len(f.pieces)
      BY <1>2
    <3>3. f.synced < Len(f.pieces)
      BY <3>1, <3>2
    <3> QED
      BY <3>1, <3>3 DEF IsFile
  <2>2. g = [pieces |-> f.pieces, synced |-> Len(f.pieces) - 1]
    BY <2>1
  <2>3. g.pieces = f.pieces /\ g.synced = Len(f.pieces) - 1 /\ IsFile(g)
    BY <2>1, <2>2 DEF IsFile
  <2> HIDE DEF g
  <2>4. Remains(q, f.pieces, Len(f.pieces) - 1)
    <3>1. q \in AfterPowerLoss(g)
      BY <1>2 DEF g
    <3>2. Remains(q, g.pieces, g.synced)
      BY <2>3, <3>1, PowerLossRemains
    <3> QED
      BY <2>3, <3>2
  <2>5. Len(q) \in Nat
    BY <2>4, LogTyped DEF Remains
  <2> QED
    BY <2>1, <2>4, <2>5 DEF Remains
<1> QED
  BY <1>1, <1>2 DEF AfterKill

LEMMA ShorterFile ==
  ASSUME NEW f, IsFile(f), NEW q, Remains(q, f.pieces, f.synced)
  PROVE  /\ IsFile(Shorter(f, q))
         /\ Shorter(f, q).pieces = q
         /\ Shorter(f, q).synced = f.synced
<1>1. IsLog(q) /\ Len(q) \in Nat /\ f.synced \in Nat /\ f.synced <= Len(q)
  BY LogTyped DEF Remains, IsFile
<1>2. AtMost(f.synced, Len(q)) = f.synced
  BY <1>1 DEF AtMost
<1> QED
  BY <1>1, <1>2 DEF Shorter, IsFile

-----------------------------------------------------------------------------
(* Repair and reclamation *)

\* recover() leaves what it could read, and all of it durable if it had to cut.
LEMMA RepairedFile ==
  ASSUME NEW f, IsFile(f)
  PROVE  /\ IsFile(Repaired(f))
         /\ Repaired(f).pieces = ValidPrefix(f.pieces)
         /\ Repaired(f) = f \/ Repaired(f).synced = Len(Repaired(f).pieces)
<1>1. IsLog(f.pieces) /\ IsLog(ValidPrefix(f.pieces))
  BY ScanReadsUpToStop DEF IsFile
<1>2. CASE Stops(f.pieces) = {}
  BY <1>2 DEF Repaired, ValidPrefix
<1>3. CASE Stops(f.pieces) # {}
  BY <1>1, <1>3, SyncedTyped DEF Repaired
<1> QED
  BY <1>2, <1>3

LEMMA HeldIsRead ==
  ASSUME NEW f, IsFile(f), NEW S, NEW c, Held(f, S, c), NEW t \in S
  PROVE  \/ \E i \in 1 .. Len(ValidPrefix(f.pieces)) :
               /\ i <= f.synced
               /\ ValidPrefix(f.pieces)[i].sequence = t
         \/ t <= c /\ OnlyLater(f.pieces, t)
<1> DEFINE p == f.pieces
           v == ValidPrefix(p)
<1>1. IsLog(p) /\ f.synced \in 0 .. Len(p) /\ Len(p) \in Nat
  BY LogTyped DEF IsFile
<1>2. /\ IsLog(v) /\ Len(v) <= Len(p)
      /\ \A i \in 1 .. Len(v) : v[i] = p[i]
      /\ \A i \in 1 .. Len(p) : (\A j \in 1 .. i : j \notin Stops(p)) => i <= Len(v)
  BY <1>1, ScanReadsUpToStop
<1>3. Len(v) \in Nat
  BY <1>2, LogTyped
<1>4. ASSUME NEW i \in 1 .. f.synced, p[i].sequence = t,
             \A j \in 1 .. i : j \notin Stops(p)
      PROVE  i \in 1 .. Len(v) /\ i <= f.synced /\ v[i].sequence = t
  <2>1. i \in 1 .. Len(p)
    BY <1>1
  <2>2. i <= Len(v)
    BY <1>2, <1>4, <2>1
  <2>3. i \in 1 .. Len(v) /\ i <= f.synced
    BY <1>1, <1>3, <2>2
  <2> QED
    BY <1>2, <1>4, <2>3
<1> QED
  BY <1>4 DEF Held

LEMMA HeldIsRepaired ==
  ASSUME NEW f, IsFile(f), NEW S, NEW c, Held(f, S, c)
  PROVE  Held(Repaired(f), S, c)
<1> DEFINE p == f.pieces
           v == ValidPrefix(p)
           g == Repaired(f)
<1>1. /\ IsFile(g) /\ g.pieces = v
      /\ g = f \/ g.synced = Len(g.pieces)
  BY RepairedFile
<1>2. /\ IsLog(v) /\ Len(v) <= Len(p) /\ Stops(v) = {}
      /\ \A i \in 1 .. Len(v) : v[i] = p[i]
      /\ Len(p) \in Nat /\ Len(v) \in Nat
  BY ScanReadsUpToStop, LogTyped DEF IsFile
<1>3. CASE g = f
  BY <1>3
<1>4. CASE g.synced = Len(g.pieces)
  <2> SUFFICES ASSUME NEW t \in S
               PROVE  \/ \E i \in 1 .. g.synced :
                            /\ g.pieces[i].sequence = t
                            /\ \A j \in 1 .. i : j \notin Stops(g.pieces)
                      \/ t <= c /\ OnlyLater(g.pieces, t)
    BY DEF Held
  <2>1. \/ \E i \in 1 .. Len(v) : i <= f.synced /\ v[i].sequence = t
        \/ t <= c /\ OnlyLater(p, t)
    BY HeldIsRead
  <2>2. \A i \in 1 .. Len(v) : i \in 1 .. Len(p)
    BY <1>2
  <2> HIDE DEF p, v, g
  <2>3. OnlyLater(p, t) => OnlyLater(v, t)
    BY <1>2, <2>2 DEF OnlyLater
  <2> QED
    BY <1>1, <1>2, <1>4, <2>1, <2>2, <2>3
<1> QED
  BY <1>1, <1>3, <1>4

\* The number after the last record, and after all others.
LEMMA NumberAfterLog ==
  ASSUME NEW p, IsLog(p), Stops(p) = {}, NEW d \in 0 .. MaxSequence
  PROVE  /\ SequenceAfter(p, d) \in 0 .. MaxSequence
         /\ \A i \in 1 .. Len(p) : p[i].sequence < SequenceAfter(p, d)
         /\ Len(p) = 0 => SequenceAfter(p, d) = d
<1>1. /\ Len(p) \in Nat /\ MaxSequence \in Nat
      /\ \A i \in 1 .. Len(p) : p[i].sequence \in Nat /\ p[i].sequence < MaxSequence
  BY LogTyped, WalAssumption
<1>2. CASE p = <<>>
  BY <1>2, EmptyLog DEF SequenceAfter
<1>3. CASE p # <<>>
  <2> DEFINE n == Len(p)
  <2>1. n \in Nat /\ n # 0 /\ n \in 1 .. n
    <3>1. p \in Seq(Pieces)
      BY DEF IsLog
    <3>2. Len(p) \in Nat \ {0}
      BY <1>3, <3>1, EmptySeq
    <3> QED
      BY <3>2
  <2>2. SequenceAfter(p, d) = p[n].sequence + 1
    BY <1>3 DEF SequenceAfter
  <2>3. p[n].sequence \in Nat /\ p[n].sequence < MaxSequence
    BY <1>1, <2>1
  <2>4. ASSUME NEW i \in 1 .. n PROVE p[i].sequence <= p[n].sequence
    <3>1. CASE i = n
      BY <2>3, <3>1
    <3>2. CASE i < n
      <4>1. n <= Len(p) /\ \A k \in 1 .. n : k \notin Stops(p)
        BY <2>1
      <4>2. p[i].sequence < p[n].sequence
        BY <2>1, <3>2, <4>1, InOrder
      <4> QED
        BY <1>1, <2>3, <4>2
    <3> QED
      BY <2>1, <3>1, <3>2
  <2> QED
    BY <1>1, <2>1, <2>2, <2>3, <2>4
<1> QED
  BY <1>2, <1>3

\* What reclaimThrough() keeps of a log that is in order.
LEMMA BeyondIsSuffix ==
  ASSUME NEW p, IsLog(p), Stops(p) = {}, checkpoint \in Int
  PROVE  \E c \in 0 .. Len(p) :
            /\ IsLog(Beyond(p))
            /\ Len(Beyond(p)) = Len(p) - c
            /\ \A i \in 1 .. Len(p) - c : Beyond(p)[i] = p[c + i]
            /\ \A i \in 1 .. Len(p) : i <= c <=> p[i].sequence <= checkpoint
<1> DEFINE n == Len(p)
           covered == {i \in DOMAIN p : p[i].sequence <= checkpoint}
           c == Cardinality(covered)
           b == SubSeq(p, c + 1, n)
<1>1. /\ n \in Nat /\ DOMAIN p = 1 .. n
      /\ \A i \in 1 .. n : p[i] \in Pieces /\ p[i].sequence \in Nat
  BY LogTyped
<1>2. c \in 0 .. n /\ covered = 1 .. c
  <2>1. ASSUME NEW i \in covered, NEW j \in 1 .. n, j <= i PROVE j \in covered
    <3>1. i \in 1 .. n /\ p[i].sequence <= checkpoint
      BY <1>1
    <3>2. p[j].sequence <= p[i].sequence
      <4>1. CASE j = i
        BY <1>1, <3>1, <4>1
      <4>2. CASE j < i
        <5>1. n <= Len(p) /\ \A k \in 1 .. n : k \notin Stops(p)
          BY <1>1
        <5>2. p[j].sequence < p[i].sequence
          BY <1>1, <3>1, <4>2, <5>1, InOrder
        <5> QED
          BY <1>1, <3>1, <5>2
      <4> QED
        BY <2>1, <3>1, <4>1, <4>2
    <3>3. p[j].sequence <= checkpoint
      BY <1>1, <3>1, <3>2
    <3> QED
      BY <1>1, <3>3
  <2>2. covered \subseteq 1 .. n
    BY <1>1
  <2> HIDE DEF n, covered
  <2> QED
    BY <1>1, <2>1, <2>2, InitialPart
<1>3. \A i \in 1 .. n : i <= c <=> p[i].sequence <= checkpoint
  <2>1. \A i \in 1 .. n : i \in covered <=> p[i].sequence <= checkpoint
    BY <1>1
  <2> HIDE DEF covered, c
  <2> QED
    BY <1>1, <1>2, <2>1
<1>4. Beyond(p) = b
  BY DEF Beyond
<1> HIDE DEF c
<1>5. \A i \in c + 1 .. n : p[i] \in Pieces
  BY <1>1, <1>2
<1>6. /\ b \in Seq(Pieces)
      /\ Len(b) = IF c + 1 <= n THEN n - (c + 1) + 1 ELSE 0
      /\ \A i \in 1 .. n - (c + 1) + 1 : b[i] = p[c + 1 + i - 1]
  BY <1>1, <1>2, <1>5, SubSeqProperties
<1>7. /\ n - (c + 1) + 1 = n - c
      /\ c + 1 <= n \/ n - c = 0
      /\ \A i \in 1 .. n - c : c + 1 + i - 1 = c + i /\ c + i \in 1 .. n
  <2>1. n \in Nat /\ c \in Nat /\ c <= n
    BY <1>1, <1>2
  <2> HIDE DEF n
  <2> QED
    BY <2>1
<1>8. Len(b) = n - c /\ \A i \in 1 .. n - c : b[i] = p[c + i]
  BY <1>6, <1>7
<1>9. \A i \in 1 .. Len(b) : b[i].written \in 1 .. b[i].size
  <2>1. \A i \in 1 .. n : p[i].written \in 1 .. p[i].size
    BY DEF IsLog
  <2> HIDE DEF b, n
  <2> QED
    BY <1>7, <1>8, <2>1
<1>10. IsLog(b)
  BY <1>6, <1>9 DEF IsLog
<1> QED
  BY <1>2, <1>3, <1>4, <1>8, <1>10

LEMMA ReclaimedLog ==
  ASSUME NEW p, IsLog(p), NEW n \in Nat, Ordered(p, n), checkpoint \in Int
  PROVE  IsLog(Beyond(p)) /\ Ordered(Beyond(p), n)
<1> DEFINE b == Beyond(p)
<1>1. Stops(p) = {} /\ \A i \in 1 .. Len(p) : p[i].sequence < n
  BY DEF Ordered
<1>2. PICK c \in 0 .. Len(p) :
          /\ IsLog(b)
          /\ Len(b) = Len(p) - c
          /\ \A i \in 1 .. Len(p) - c : b[i] = p[c + i]
  BY <1>1, BeyondIsSuffix
<1>3. Len(p) \in Nat
  BY LogTyped
<1> HIDE DEF b
<1>4. \A i \in 1 .. Len(b) : b[i] = p[c + i] /\ c + i \in 1 .. Len(p)
  BY <1>2, <1>3
<1>5. ASSUME NEW i \in Stops(b) PROVE FALSE
  <2>1. /\ i \in 1 .. Len(b)
        /\ Torn(b[i]) \/ (i > 1 /\ b[i].sequence <= b[i - 1].sequence)
    BY <1>2, StopAt
  <2>2. b[i] = p[c + i] /\ c + i \in 1 .. Len(p)
    BY <1>4, <2>1
  <2>3. i > 1 => b[i - 1] = p[c + i - 1] /\ c + i > 1
    <3>1. i > 1 => i - 1 \in 1 .. Len(b) /\ c + (i - 1) = c + i - 1
      BY <1>2, <1>3, <2>1
    <3>2. i > 1 => b[i - 1] = p[c + (i - 1)]
      BY <1>4, <3>1
    <3> QED
      BY <1>3, <2>1, <3>1, <3>2
  <2>4. c + i \in Stops(p)
    BY <2>1, <2>2, <2>3, StopAt
  <2> QED
    BY <1>1, <2>4
<1> QED
  BY <1>1, <1>2, <1>4, <1>5 DEF Ordered, b

\* No record that is held is lost by a reclamation.
LEMMA HeldIsReclaimed ==
  ASSUME NEW f, IsFile(f), NEW n \in Nat, Ordered(f.pieces, n),
         checkpoint \in Int, NEW S, S \subseteq Nat, Held(f, S, checkpoint)
  PROVE  Held(Synced(Beyond(f.pieces)), S, checkpoint)
<1> DEFINE p == f.pieces
           b == Beyond(p)
           g == Synced(b)
<1>1. IsLog(p) /\ Len(p) \in Nat /\ Stops(p) = {} /\ f.synced \in 0 .. Len(p)
  BY LogTyped DEF IsFile, Ordered
<1>2. PICK c \in 0 .. Len(p) :
          /\ IsLog(b)
          /\ Len(b) = Len(p) - c
          /\ \A i \in 1 .. Len(p) - c : b[i] = p[c + i]
          /\ \A i \in 1 .. Len(p) : i <= c <=> p[i].sequence <= checkpoint
  BY <1>1, BeyondIsSuffix
<1>3. Stops(b) = {}
  BY <1>1, ReclaimedLog DEF Ordered
<1>4. g.pieces = b /\ g.synced = Len(b)
  BY <1>2, SyncedTyped
<1> SUFFICES ASSUME NEW t \in S
             PROVE  \/ \E i \in 1 .. g.synced :
                          /\ g.pieces[i].sequence = t
                          /\ \A j \in 1 .. i : j \notin Stops(g.pieces)
                    \/ t <= checkpoint /\ OnlyLater(g.pieces, t)
  BY DEF Held
<1>5. \/ \E i \in 1 .. f.synced : p[i].sequence = t
      \/ t <= checkpoint
  BY DEF Held
<1> HIDE DEF b, g, p
<1>6. \A i \in 1 .. Len(b) :
          /\ c + i \in 1 .. Len(p) /\ ~(c + i <= c)
          /\ b[i] = p[c + i] /\ p[c + i].sequence \in Nat
  <2>1. \A i \in 1 .. Len(b) : c + i \in 1 .. Len(p) /\ ~(c + i <= c)
    BY <1>1, <1>2
  <2> QED
    BY <1>1, <1>2, <2>1, LogTyped
<1>7. \A i \in 1 .. Len(b) : ~(b[i].sequence <= checkpoint) /\ b[i].sequence \in Nat
  BY <1>2, <1>6
<1>8. CASE t <= checkpoint
  <2>1. ASSUME NEW i \in 1 .. Len(b) PROVE t < b[i].sequence
    <3>1. t \in Nat /\ b[i].sequence \in Nat /\ ~(b[i].sequence <= checkpoint)
      BY <1>7
    <3> QED
      BY <1>8, <3>1
  <2> QED
    BY <1>4, <1>8, <2>1 DEF OnlyLater
<1>9. CASE ~(t <= checkpoint)
  <2>1. PICK i \in 1 .. f.synced : p[i].sequence = t
    BY <1>5, <1>9
  <2>2. i \in 1 .. Len(p) /\ ~(i <= c)
    BY <1>1, <1>2, <1>9, <2>1
  <2>3. i - c \in 1 .. Len(b) /\ c + (i - c) = i
    BY <1>1, <1>2, <2>2
  <2>4. b[i - c].sequence = t
    BY <1>6, <2>1, <2>3
  <2> QED
    BY <1>3, <1>4, <2>3, <2>4
<1> QED
  BY <1>8, <1>9

-----------------------------------------------------------------------------
(* Appending *)

LEMMA StopsOfAppend ==
  ASSUME NEW p, IsLog(p), NEW e \in Pieces, e.written \in 1 .. e.size,
         NEW i \in Stops(Append(p, e))
  PROVE  \/ i \in Stops(p)
         \/ /\ i = Len(p) + 1
            /\ \/ Torn(e)
               \/ Len(p) \in 1 .. Len(p) /\ e.sequence <= p[Len(p)].sequence
<1> DEFINE q == Append(p, e)
<1>1. /\ IsLog(q) /\ Len(q) = Len(p) + 1 /\ Len(p) \in Nat
      /\ \A k \in 1 .. Len(p) : q[k] = p[k]
      /\ q[Len(p) + 1] = e
  BY AppendToLog, LogTyped
<1> HIDE DEF q
<1>2. /\ i \in 1 .. Len(q) /\ i \in Stops(q)
      /\ Torn(q[i]) \/ (i > 1 /\ q[i].sequence <= q[i - 1].sequence)
  BY <1>1, StopAt DEF q
<1>3. CASE i \in 1 .. Len(p)
  <2>1. Len(p) <= Len(q)
    BY <1>1
  <2>2. i \in Stops(q) <=> i \in Stops(p)
    BY <1>1, <1>3, <2>1, StopsAgree
  <2> QED
    BY <1>2, <2>2
<1>4. CASE i = Len(p) + 1
  <2>1. i > 1 => i - 1 = Len(p) /\ Len(p) \in 1 .. Len(p)
    BY <1>1, <1>4
  <2> QED
    BY <1>1, <1>2, <1>4, <2>1
<1> QED
  BY <1>1, <1>2, <1>3, <1>4

LEMMA HeldAfterAppend ==
  ASSUME NEW f, IsFile(f), NEW e \in Pieces, e.written \in 1 .. e.size,
         NEW S, NEW c, Held(f, S, c), \A t \in S : t < e.sequence,
         NEW g, IsFile(g), g.pieces = Append(f.pieces, e), g.synced = f.synced
  PROVE  Held(g, S, c)
<1> DEFINE p == f.pieces
           q == g.pieces
<1>1. IsLog(p) /\ IsLog(q) /\ Len(p) \in Nat /\ f.synced \in 0 .. Len(p)
  BY LogTyped DEF IsFile
<1>2. /\ Len(q) = Len(p) + 1
      /\ \A i \in 1 .. Len(p) : q[i] = p[i]
      /\ q[Len(p) + 1] = e
  BY <1>1, AppendToLog
<1>3. \A i \in 1 .. Len(p) : i \in Stops(q) <=> i \in Stops(p)
  <2>1. Len(p) <= Len(q) /\ Len(p) <= Len(p)
    BY <1>1, <1>2
  <2> HIDE DEF p, q
  <2> QED
    BY <1>1, <1>2, <2>1, StopsAgree
<1> SUFFICES ASSUME NEW t \in S
             PROVE  \/ \E i \in 1 .. g.synced :
                          /\ q[i].sequence = t
                          /\ \A j \in 1 .. i : j \notin Stops(q)
                    \/ t <= c /\ OnlyLater(q, t)
  BY DEF Held
<1>4. \/ \E i \in 1 .. f.synced :
            p[i].sequence = t /\ \A j \in 1 .. i : j \notin Stops(p)
      \/ t <= c /\ OnlyLater(p, t)
  BY DEF Held
<1>5. t < e.sequence /\ g.synced = f.synced
  OBVIOUS
<1> HIDE DEF p, q
<1>6. CASE \E i \in 1 .. f.synced :
            p[i].sequence = t /\ \A j \in 1 .. i : j \notin Stops(p)
  <2>1. PICK i \in 1 .. f.synced :
            p[i].sequence = t /\ \A j \in 1 .. i : j \notin Stops(p)
    BY <1>6
  <2>2. i \in 1 .. Len(p) /\ \A j \in 1 .. i : j \in 1 .. Len(p)
    BY <1>1
  <2> QED
    BY <1>2, <1>3, <1>5, <2>1, <2>2
<1>7. CASE t <= c /\ OnlyLater(p, t)
  <2>1. \A i \in 1 .. Len(q) : i \in 1 .. Len(p) \/ i = Len(p) + 1
    BY <1>1, <1>2
  <2> QED
    BY <1>2, <1>5, <1>7, <2>1 DEF OnlyLater
<1> QED
  BY <1>4, <1>6, <1>7

LEMMA HeldWhenSynced ==
  ASSUME NEW f, IsFile(f), NEW S, NEW c, Held(f, S, c)
  PROVE  Held(Synced(f.pieces), S, c)
<1>1. /\ IsFile(Synced(f.pieces)) /\ Synced(f.pieces).pieces = f.pieces
      /\ Synced(f.pieces).synced = Len(f.pieces) /\ f.synced <= Len(f.pieces)
      /\ Remains(f.pieces, f.pieces, f.synced)
  BY AllRemains, SyncedTyped, LogTyped DEF IsFile
<1> QED
  BY <1>1, HeldRemains

\* The record that an fsync has just covered.
LEMMA HeldAfterSync ==
  ASSUME NEW f, IsFile(f), Stops(f.pieces) = {}, NEW i \in 1 .. Len(f.pieces),
         NEW S, NEW c, Held(f, S, c)
  PROVE  Held(Synced(f.pieces), S \cup {f.pieces[i].sequence}, c)
<1>1. Held(Synced(f.pieces), S, c)
  BY HeldWhenSynced
<1>2. Synced(f.pieces).pieces = f.pieces /\ Synced(f.pieces).synced = Len(f.pieces)
  BY SyncedTyped DEF IsFile
<1> QED
  BY <1>1, <1>2 DEF Held

LEMMA HeldLess ==
  ASSUME NEW f, NEW S, NEW T, T \subseteq S, NEW c \in Int, NEW d \in Int, c <= d,
         S \subseteq Nat, Held(f, S, c)
  PROVE  Held(f, T, d)
<1> SUFFICES ASSUME NEW t \in T, t <= c PROVE t <= d
  BY DEF Held
<1> QED
  OBVIOUS

-----------------------------------------------------------------------------
(* Cutting and overwriting *)

LEMMA JoinedLogs ==
  ASSUME NEW p, IsLog(p), NEW q, IsLog(q)
  PROVE  /\ IsLog(p \o q)
         /\ Len(p \o q) = Len(p) + Len(q)
         /\ \A i \in 1 .. Len(p) : (p \o q)[i] = p[i]
         /\ \A j \in 1 .. Len(p \o q) :
               \/ j \in 1 .. Len(p) /\ (p \o q)[j] = p[j]
               \/ j - Len(p) \in 1 .. Len(q) /\ (p \o q)[j] = q[j - Len(p)]
<1> DEFINE r == p \o q
<1>1. /\ p \in Seq(Pieces) /\ q \in Seq(Pieces)
      /\ Len(p) \in Nat /\ Len(q) \in Nat
      /\ \A i \in 1 .. Len(p) : p[i].written \in 1 .. p[i].size
      /\ \A i \in 1 .. Len(q) : q[i].written \in 1 .. q[i].size
  BY LogTyped DEF IsLog
<1>2. /\ r \in Seq(Pieces) /\ Len(r) = Len(p) + Len(q)
      /\ \A i \in 1 .. Len(p) + Len(q) :
            r[i] = IF i <= Len(p) THEN p[i] ELSE q[i - Len(p)]
  BY <1>1, ConcatProperties
<1> HIDE DEF r
<1>3. \A i \in 1 .. Len(p) : r[i] = p[i]
  BY <1>1, <1>2
<1>4. ASSUME NEW j \in 1 .. Len(r)
      PROVE  \/ j \in 1 .. Len(p) /\ r[j] = p[j]
             \/ j - Len(p) \in 1 .. Len(q) /\ r[j] = q[j - Len(p)]
  <2>1. CASE j <= Len(p)
    BY <1>1, <1>2, <2>1
  <2>2. CASE ~(j <= Len(p))
    BY <1>1, <1>2, <2>2
  <2> QED
    BY <2>1, <2>2
<1>5. \A j \in 1 .. Len(r) : r[j].written \in 1 .. r[j].size
  BY <1>1, <1>4
<1> QED
  BY <1>2, <1>3, <1>4, <1>5 DEF IsLog, r

LEMMA LooseLog ==
  ASSUME NEW n \in Nat, MaxSequence > 0
  PROVE  /\ IsLog(Loose(n))
         /\ Len(Loose(n)) = n
         /\ \A i \in 1 .. n : Torn(Loose(n)[i])
<1> DEFINE e == Piece(0, 1, HeaderUnits)
<1>1. MaxSequence \in Nat
  BY WalAssumption
<1>2. e = [sequence |-> 0, written |-> 1, size |-> 2]
  BY DEF Piece, HeaderUnits
<1>3. 0 \in 0 .. MaxSequence - 1
  BY <1>1
<1>4. e \in Pieces /\ e.written \in 1 .. e.size /\ Torn(e)
  BY <1>2, <1>3 DEF Pieces, HeaderUnits, Torn
<1> HIDE DEF e
<1>5. Loose(n) = [i \in 1 .. n |-> e]
  BY DEF Loose, e
<1>6. Loose(n) \in [1 .. n -> Pieces] /\ \A i \in 1 .. n : Loose(n)[i] = e
  BY <1>4, <1>5
<1>7. Loose(n) \in Seq(Pieces) /\ Len(Loose(n)) = n
  BY <1>6
<1> QED
  BY <1>4, <1>6, <1>7 DEF IsLog

\* The pieces behind the first n.
LEMMA RestOfLog ==
  ASSUME NEW p, IsLog(p), NEW n \in Nat, n <= Len(p)
  PROVE  /\ IsLog(SubSeq(p, n + 1, Len(p)))
         /\ \A j \in 1 .. Len(SubSeq(p, n + 1, Len(p))) :
               \E i \in 1 .. Len(p) : SubSeq(p, n + 1, Len(p))[j] = p[i]
<1> DEFINE m == Len(p)
           q == SubSeq(p, n + 1, m)
<1>1. m \in Nat /\ \A i \in 1 .. m : p[i] \in Pieces
  BY LogTyped
<1>2. \A i \in n + 1 .. m : i \in 1 .. m
  BY <1>1
<1>3. /\ q \in Seq(Pieces)
      /\ Len(q) = IF n + 1 <= m THEN m - (n + 1) + 1 ELSE 0
      /\ \A i \in 1 .. m - (n + 1) + 1 : q[i] = p[n + 1 + i - 1]
  BY <1>1, <1>2, SubSeqProperties
<1>4. \A i \in 1 .. m : p[i].written \in 1 .. p[i].size
  BY DEF IsLog
<1>5. n <= m
  OBVIOUS
<1> HIDE DEF q, m
<1>6. ASSUME NEW j \in 1 .. Len(q) PROVE \E i \in 1 .. m : q[j] = p[i]
  <2>1. j \in 1 .. m - (n + 1) + 1 /\ n + 1 + j - 1 \in 1 .. m
    BY <1>1, <1>3, <1>5
  <2> QED
    BY <1>3, <2>1
<1>7. \A j \in 1 .. Len(q) : q[j].written \in 1 .. q[j].size
  BY <1>4, <1>6
<1> QED
  BY <1>3, <1>6, <1>7 DEF IsLog, q, m

\* A piece of which only some units are there.
LEMMA PartOfPiece ==
  ASSUME NEW e \in Pieces, e.written \in 1 .. e.size, NEW w \in 1 .. e.written - 1
  PROVE  /\ [e EXCEPT !.written = w] \in Pieces
         /\ [e EXCEPT !.written = w].written \in 1 .. [e EXCEPT !.written = w].size
         /\ Torn([e EXCEPT !.written = w])
<1> DEFINE d == [e EXCEPT !.written = w]
<1>1. /\ e = [sequence |-> e.sequence, written |-> e.written, size |-> e.size]
      /\ e.written \in Nat /\ e.size \in Nat
  BY PieceTyped
<1>2. d = [sequence |-> e.sequence, written |-> w, size |-> e.size]
  BY <1>1
<1>3. w \in Nat /\ w \in 1 .. e.size /\ w < e.size
  BY <1>1
<1>4. e.sequence \in 0 .. MaxSequence - 1 /\ e.size \in RecordSizes \cup {HeaderUnits}
  BY DEF Pieces
<1> HIDE DEF d
<1>5. d \in Pieces
  BY <1>2, <1>3, <1>4 DEF Pieces
<1> QED
  BY <1>2, <1>3, <1>5 DEF Torn, d

LEMMA HalfOverwrittenLog ==
  ASSUME NEW p, IsLog(p), NEW i \in 1 .. Len(p), NEW q \in HalfOverwritten(p, i)
  PROVE  /\ IsLog(q)
         /\ i <= Len(q)
         /\ \A j \in 1 .. i - 1 : q[j] = p[j]
         /\ \A j \in 1 .. Len(q) :
               Torn(q[j]) \/ \E k \in 1 .. Len(p) : q[j] = p[k]
<1>1. PICK w \in 1 .. p[i].written - 1 :
          q = SubSeq(p, 1, i - 1) \o <<[p[i] EXCEPT !.written = w]>>
                \o Loose(p[i].written - w) \o SubSeq(p, i + 1, Len(p))
  BY DEF HalfOverwritten
<1> DEFINE a == SubSeq(p, 1, i - 1)
           e == [p[i] EXCEPT !.written = w]
           b == <<e>>
           l == Loose(p[i].written - w)
           r == SubSeq(p, i + 1, Len(p))
<1>2. /\ Len(p) \in Nat /\ p[i] \in Pieces /\ p[i].written \in 1 .. p[i].size
      /\ p[i].written \in Nat /\ p[i].sequence \in Nat /\ p[i].sequence < MaxSequence
  BY LogTyped DEF IsLog
<1>3. MaxSequence > 0 /\ p[i].written - w \in Nat
  BY <1>2, WalAssumption
<1>4. IsLog(a) /\ Len(a) = i - 1 /\ \A j \in 1 .. i - 1 : a[j] = p[j]
  <2>1. i - 1 \in Nat /\ i - 1 <= Len(p)
    BY <1>2
  <2> QED
    BY <2>1, CutLog
<1>5. e \in Pieces /\ e.written \in 1 .. e.size /\ Torn(e)
  BY <1>2, PartOfPiece
<1>6. IsLog(l) /\ Len(l) = p[i].written - w /\ \A j \in 1 .. Len(l) : Torn(l[j])
  BY <1>3, LooseLog
<1>7. IsLog(r) /\ \A j \in 1 .. Len(r) : \E k \in 1 .. Len(p) : r[j] = p[k]
  <2>1. i \in Nat /\ i <= Len(p)
    BY <1>2
  <2> QED
    BY <2>1, RestOfLog
<1> HIDE DEF a, e, l, r
<1>8. IsLog(b) /\ Len(b) = 1 /\ b[1] = e
  <2>1. b \in Seq(Pieces) /\ Len(b) = 1 /\ b[1] = e
    BY <1>5
  <2> QED
    BY <1>5, <2>1 DEF IsLog
<1> HIDE DEF b
<1> DEFINE ab == a \o b
           abl == ab \o l
<1>9. /\ IsLog(ab) /\ Len(ab) = i
      /\ \A j \in 1 .. i - 1 : ab[j] = p[j]
      /\ \A j \in 1 .. Len(ab) : Torn(ab[j]) \/ \E k \in 1 .. Len(p) : ab[j] = p[k]
  <2>1. /\ IsLog(ab) /\ Len(ab) = Len(a) + Len(b)
        /\ \A j \in 1 .. Len(a) : ab[j] = a[j]
        /\ \A j \in 1 .. Len(ab) :
              \/ j \in 1 .. Len(a) /\ ab[j] = a[j]
              \/ j - Len(a) \in 1 .. Len(b) /\ ab[j] = b[j - Len(a)]
    BY <1>4, <1>8, JoinedLogs
  <2> HIDE DEF ab
  <2>2. Len(ab) = i
    BY <1>2, <1>4, <1>8, <2>1
  <2>3. \A j \in 1 .. i - 1 : ab[j] = p[j] /\ j \in 1 .. Len(p)
    BY <1>2, <1>4, <2>1
  <2>4. \A j \in 1 .. Len(ab) : j \in 1 .. i - 1 \/ j - Len(a) = 1
    BY <1>2, <1>4, <2>2
  <2>5. ASSUME NEW j \in 1 .. Len(ab), j \notin 1 .. i - 1 PROVE Torn(ab[j])
    <3>1. j - Len(a) = 1 /\ ab[j] = b[1]
      BY <1>4, <2>1, <2>4, <2>5
    <3> QED
      BY <1>5, <1>8, <3>1
  <2> QED
    BY <2>1, <2>2, <2>3, <2>5
<1> HIDE DEF ab
<1>10. /\ IsLog(abl) /\ Len(abl) = Len(ab) + Len(l)
       /\ \A j \in 1 .. Len(ab) : abl[j] = ab[j]
       /\ \A j \in 1 .. Len(abl) :
             \/ j \in 1 .. Len(ab) /\ abl[j] = ab[j]
             \/ j - Len(ab) \in 1 .. Len(l) /\ abl[j] = l[j - Len(ab)]
  <2>1. IsLog(ab) /\ IsLog(l)
    BY <1>6, <1>9
  <2> HIDE DEF ab
  <2> QED
    BY <2>1, JoinedLogs
<1> HIDE DEF abl
<1>11. /\ IsLog(q) /\ Len(q) = Len(abl) + Len(r)
       /\ \A j \in 1 .. Len(abl) : q[j] = abl[j]
       /\ \A j \in 1 .. Len(q) :
             \/ j \in 1 .. Len(abl) /\ q[j] = abl[j]
             \/ j - Len(abl) \in 1 .. Len(r) /\ q[j] = r[j - Len(abl)]
  <2>1. q = abl \o r
    BY <1>1 DEF abl, ab, a, b, e, l, r
  <2>2. IsLog(abl) /\ IsLog(r)
    BY <1>7, <1>10
  <2> QED
    BY <2>1, <2>2, JoinedLogs
<1>12. Len(l) \in Nat /\ Len(r) \in Nat
  BY <1>6, <1>7, LogTyped
<1>13. i <= Len(q) /\ \A j \in 1 .. i - 1 : j \in 1 .. Len(ab) /\ j \in 1 .. Len(abl)
  BY <1>2, <1>9, <1>10, <1>11, <1>12
<1>14. \A j \in 1 .. i - 1 : q[j] = p[j]
  BY <1>9, <1>10, <1>11, <1>13
<1>15. \A j \in 1 .. Len(abl) : Torn(abl[j]) \/ \E k \in 1 .. Len(p) : abl[j] = p[k]
  BY <1>6, <1>9, <1>10
<1>16. \A j \in 1 .. Len(q) : Torn(q[j]) \/ \E k \in 1 .. Len(p) : q[j] = p[k]
  <2>1. SUFFICES ASSUME NEW j \in 1 .. Len(q), j \notin 1 .. Len(abl)
                 PROVE  \E k \in 1 .. Len(p) : q[j] = p[k]
    BY <1>11, <1>15
  <2>2. j - Len(abl) \in 1 .. Len(r) /\ q[j] = r[j - Len(abl)]
    BY <1>11, <2>1
  <2> QED
    BY <1>7, <2>2
<1> QED
  BY <1>11, <1>13, <1>14, <1>16

\* What a scan reads: the numbers before the first stop.
LEMMA ReadAt ==
  ASSUME NEW p, IsLog(p), NEW t
  PROVE  t \in ReadIn(p) <=>
            \E i \in 1 .. Len(p) :
               p[i].sequence = t /\ \A j \in 1 .. i : j \notin Stops(p)
<1> DEFINE v == ValidPrefix(p)
<1>1. /\ IsLog(v) /\ Len(v) <= Len(p) /\ Stops(v) = {}
      /\ \A i \in 1 .. Len(v) : v[i] = p[i]
      /\ \A i \in 1 .. Len(p) : (\A j \in 1 .. i : j \notin Stops(p)) => i <= Len(v)
      /\ Len(p) \in Nat /\ Len(v) \in Nat /\ DOMAIN v = 1 .. Len(v)
  BY ScanReadsUpToStop, LogTyped
<1>2. t \in ReadIn(p) <=> \E i \in 1 .. Len(v) : v[i].sequence = t
  BY <1>1 DEF ReadIn
<1> HIDE DEF v
<1>3. ASSUME NEW i \in 1 .. Len(v), v[i].sequence = t
      PROVE  /\ i \in 1 .. Len(p) /\ p[i].sequence = t
             /\ \A j \in 1 .. i : j \notin Stops(p)
  <2>1. i \in 1 .. Len(p) /\ p[i].sequence = t
    BY <1>1, <1>3
  <2>2. ASSUME NEW j \in 1 .. i PROVE j \notin Stops(p)
    <3>1. j \in 1 .. Len(v)
      BY <1>1
    <3>2. j \in Stops(v) <=> j \in Stops(p)
      BY <1>1, <3>1, StopsAgree
    <3> QED
      BY <1>1, <3>2
  <2> QED
    BY <2>1, <2>2
<1>4. ASSUME NEW i \in 1 .. Len(p), p[i].sequence = t,
             \A j \in 1 .. i : j \notin Stops(p)
      PROVE  i \in 1 .. Len(v) /\ v[i].sequence = t
  <2>1. i <= Len(v)
    BY <1>1, <1>4
  <2>2. i \in 1 .. Len(v)
    BY <1>1, <2>1
  <2> QED
    BY <1>1, <1>4, <2>2
<1> QED
  BY <1>2, <1>3, <1>4

\* What is read of the first n pieces.
LEMMA ReadInFront ==
  ASSUME NEW p, IsLog(p), NEW n \in Nat, n <= Len(p), NEW t
  PROVE  t \in ReadIn(SubSeq(p, 1, n)) <=>
            \E i \in 1 .. n :
               p[i].sequence = t /\ \A j \in 1 .. i : j \notin Stops(p)
<1> DEFINE q == SubSeq(p, 1, n)
<1>1. IsLog(q) /\ Len(q) = n /\ \A i \in 1 .. n : q[i] = p[i]
  BY CutLog
<1>2. t \in ReadIn(q) <=>
          \E i \in 1 .. n : q[i].sequence = t /\ \A j \in 1 .. i : j \notin Stops(q)
  BY <1>1, ReadAt
<1> HIDE DEF q
<1>3. \A j \in 1 .. n : j \in Stops(q) <=> j \in Stops(p)
  BY <1>1, StopsAgree
<1>4. \A i \in 1 .. n : \A j \in 1 .. i : j \in 1 .. n
  OBVIOUS
<1> QED
  BY <1>1, <1>2, <1>3, <1>4 DEF q

\* A record that is held and read among the first n pieces is one of those which
\* are durable.
LEMMA HeldInFront ==
  ASSUME NEW f, IsFile(f), NEW t \in Nat, NEW c, Held(f, {t}, c),
         NEW n \in Nat, n <= Len(f.pieces),
         t \in ReadIn(SubSeq(f.pieces, 1, n))
  PROVE  \E i \in 1 .. AtMost(f.synced, n) :
            /\ f.pieces[i].sequence = t
            /\ \A j \in 1 .. i : j \notin Stops(f.pieces)
<1> DEFINE p == f.pieces
<1>1. IsLog(p) /\ Len(p) \in Nat /\ f.synced \in 0 .. Len(p) /\ t \in Nat
  BY LogTyped DEF IsFile
<1>2. PICK k \in 1 .. n : p[k].sequence = t /\ \A j \in 1 .. k : j \notin Stops(p)
  BY <1>1, ReadInFront
<1>3. k \in 1 .. Len(p) /\ k \notin Stops(p)
  BY <1>1, <1>2
<1>4. ~Torn(p[k])
  BY <1>1, <1>3, StopAt
<1>5. ~OnlyLater(p, t)
  BY <1>1, <1>2, <1>3, <1>4 DEF OnlyLater
<1>6. PICK i \in 1 .. f.synced : p[i].sequence = t /\ \A j \in 1 .. i : j \notin Stops(p)
  BY <1>5 DEF Held
<1> HIDE DEF p
<1>7. ~(k < i)
  <2> SUFFICES ASSUME k < i PROVE FALSE
    OBVIOUS
  <2>1. i \in Nat /\ i <= Len(p) /\ k \in 1 .. i /\ i \in 1 .. i
    BY <1>1
  <2>2. p[k].sequence < p[i].sequence
    BY <1>1, <1>6, <2>1, InOrder
  <2> QED
    BY <1>1, <1>2, <1>6, <2>2
<1>8. i <= n /\ i <= f.synced
  BY <1>1, <1>7
<1>9. i \in 1 .. AtMost(f.synced, n)
  BY <1>1, <1>8 DEF AtMost
<1> QED
  BY <1>6, <1>9 DEF p

\* A write behind the first n pieces leaves what is read in front of it.
LEMMA HeldWhenOverwritten ==
  ASSUME NEW f, IsFile(f), NEW S, S \subseteq Nat, NEW c, Held(f, S, c),
         NEW n \in Nat, n <= Len(f.pieces),
         NEW g, IsFile(g), n <= Len(g.pieces), g.synced = AtMost(f.synced, n),
         \A i \in 1 .. n : g.pieces[i] = f.pieces[i],
         NEW T, T \subseteq S, T \subseteq ReadIn(SubSeq(f.pieces, 1, n))
  PROVE  Held(g, T, c)
<1> DEFINE p == f.pieces
           q == g.pieces
<1>1. /\ IsLog(p) /\ Len(p) \in Nat /\ f.synced \in 0 .. Len(p)
      /\ IsLog(q) /\ n <= Len(q) /\ n <= Len(p)
      /\ \A i \in 1 .. n : q[i] = p[i]
  BY LogTyped DEF IsFile
<1> SUFFICES ASSUME NEW t \in T
             PROVE  \E i \in 1 .. g.synced :
                       /\ q[i].sequence = t
                       /\ \A j \in 1 .. i : j \notin Stops(q)
  BY DEF Held
<1>2. PICK i \in 1 .. AtMost(f.synced, n) :
          p[i].sequence = t /\ \A j \in 1 .. i : j \notin Stops(p)
  <2>1. Held(f, {t}, c) /\ t \in Nat /\ t \in ReadIn(SubSeq(f.pieces, 1, n))
    BY DEF Held
  <2>2. \E i \in 1 .. AtMost(f.synced, n) :
            /\ f.pieces[i].sequence = t
            /\ \A j \in 1 .. i : j \notin Stops(f.pieces)
    BY <2>1, HeldInFront
  <2> QED
    BY <2>2
<1> HIDE DEF p, q
<1>3. i \in 1 .. n /\ \A j \in 1 .. i : j \in 1 .. n
  BY <1>1, <1>2 DEF AtMost
<1>4. \A j \in 1 .. n : j \in Stops(q) <=> j \in Stops(p)
  BY <1>1, StopsAgree
<1> QED
  BY <1>1, <1>2, <1>3, <1>4

\* The tail that cannot be read is cut off.
LEMMA CutFile ==
  ASSUME NEW f, IsFile(f)
  PROVE  /\ IsFile(Shorter(f, ValidPrefix(f.pieces)))
         /\ Shorter(f, ValidPrefix(f.pieces)).pieces = ValidPrefix(f.pieces)
         /\ Shorter(f, ValidPrefix(f.pieces)).synced
               = AtMost(f.synced, Len(ValidPrefix(f.pieces)))
<1> DEFINE v == ValidPrefix(f.pieces)
           m == AtMost(f.synced, Len(v))
<1>1. IsLog(v) /\ Len(v) \in Nat /\ f.synced \in 0 .. Len(f.pieces)
      /\ Len(f.pieces) \in Nat
  BY ScanReadsUpToStop, LogTyped DEF IsFile
<1> HIDE DEF v
<1>2. m \in 0 .. Len(v)
  BY <1>1 DEF AtMost
<1>3. Shorter(f, v) = [pieces |-> v, synced |-> m]
  BY DEF Shorter
<1> HIDE DEF m
<1> QED
  BY <1>1, <1>2, <1>3 DEF IsFile, v, m

LEMMA HeldIsCut ==
  ASSUME NEW f, IsFile(f), NEW S, NEW c, Held(f, S, c)
  PROVE  Held(Shorter(f, ValidPrefix(f.pieces)), S, c)
<1> DEFINE p == f.pieces
           v == ValidPrefix(p)
           g == Shorter(f, v)
<1>1. IsFile(g) /\ g.pieces = v /\ g.synced = AtMost(f.synced, Len(v))
  BY CutFile
<1>2. /\ IsLog(v) /\ Len(v) <= Len(p) /\ Stops(v) = {}
      /\ \A i \in 1 .. Len(v) : v[i] = p[i]
      /\ Len(p) \in Nat /\ Len(v) \in Nat /\ f.synced \in 0 .. Len(p)
  BY ScanReadsUpToStop, LogTyped DEF IsFile
<1> SUFFICES ASSUME NEW t \in S
             PROVE  \/ \E i \in 1 .. g.synced :
                          /\ g.pieces[i].sequence = t
                          /\ \A j \in 1 .. i : j \notin Stops(g.pieces)
                    \/ t <= c /\ OnlyLater(g.pieces, t)
  BY DEF Held
<1>3. \/ \E i \in 1 .. Len(v) : i <= f.synced /\ v[i].sequence = t
      \/ t <= c /\ OnlyLater(p, t)
  BY HeldIsRead
<1> HIDE DEF p, v, g
<1>4. \A i \in 1 .. Len(v) : i \in 1 .. Len(p)
  BY <1>2
<1>5. OnlyLater(p, t) => OnlyLater(v, t)
  BY <1>2, <1>4 DEF OnlyLater
<1>6. ASSUME NEW i \in 1 .. Len(v), i <= f.synced PROVE i \in 1 .. g.synced
  BY <1>1, <1>2, <1>6 DEF AtMost
<1> QED
  BY <1>1, <1>2, <1>3, <1>5, <1>6

\* The file after a write where fd_ stands inside the log.
LEMMA OverwrittenFile ==
  ASSUME IsFile(file), position \in [whole : 0 .. Len(file.pieces), part : Nat],
         position.whole < Len(file.pieces) =>
            position.part < file.pieces[position.whole + 1].written,
         NEW e \in Pieces, e.written \in 1 .. e.size,
         NEW m, NEW rest \in Behind(file.pieces, position.whole + 1, m)
  PROVE  LET q == Append(Ahead, e) \o rest IN
         /\ IsLog(q)
         /\ Len(Ahead) \in Nat /\ position.whole <= Len(Ahead)
         /\ Len(Ahead) + 1 <= Len(q)
         /\ \A i \in 1 .. position.whole : q[i] = file.pieces[i]
<1> DEFINE p == file.pieces
           n == position.whole
           a == SubSeq(p, 1, n)
           h == IF n < Len(p) /\ position.part > 0
                THEN <<[p[n + 1] EXCEPT !.written = position.part]>>
                ELSE Loose(position.part)
<1>1. /\ IsLog(p) /\ Len(p) \in Nat /\ n \in Nat /\ n <= Len(p)
      /\ position.part \in Nat
  BY LogTyped DEF IsFile
<1>2. MaxSequence > 0
  <2>1. e.sequence \in Nat /\ e.sequence < MaxSequence /\ MaxSequence \in Nat
    BY PieceTyped, WalAssumption
  <2> QED
    BY <2>1
<1>3. IsLog(a) /\ Len(a) = n /\ \A i \in 1 .. n : a[i] = p[i]
  BY <1>1, CutLog
<1>4. IsLog(h)
  <2>1. CASE n < Len(p) /\ position.part > 0
    <3> DEFINE d == [p[n + 1] EXCEPT !.written = position.part]
    <3>1. n + 1 \in 1 .. Len(p) /\ position.part < p[n + 1].written
      BY <1>1, <2>1
    <3>2. /\ p[n + 1] \in Pieces /\ p[n + 1].written \in 1 .. p[n + 1].size
          /\ p[n + 1].written \in Nat
      BY <1>1, <3>1, LogTyped DEF IsLog
    <3>3. position.part \in 1 .. p[n + 1].written - 1
      BY <1>1, <2>1, <3>1, <3>2
    <3>4. d \in Pieces /\ d.written \in 1 .. d.size
      BY <3>2, <3>3, PartOfPiece
    <3>5. h = <<d>>
      BY <2>1
    <3> HIDE DEF d, h
    <3>6. h \in Seq(Pieces) /\ Len(h) = 1 /\ h[1] = d
      BY <3>4, <3>5
    <3> QED
      BY <3>4, <3>6 DEF IsLog
  <2>2. CASE ~(n < Len(p) /\ position.part > 0)
    <3>1. h = Loose(position.part)
      BY <2>2
    <3> QED
      BY <1>1, <1>2, <3>1, LooseLog
  <2> QED
    BY <2>1, <2>2
<1>5. Ahead = a \o h
  BY DEF Ahead
<1> HIDE DEF a, h
<1>6. /\ IsLog(Ahead) /\ Len(Ahead) = n + Len(h) /\ Len(h) \in Nat
      /\ \A i \in 1 .. n : Ahead[i] = p[i]
  <2>1. IsLog(a \o h) /\ Len(a \o h) = Len(a) + Len(h)
        /\ \A i \in 1 .. Len(a) : (a \o h)[i] = a[i]
    BY <1>3, <1>4, JoinedLogs
  <2>2. Len(h) \in Nat
    BY <1>4, LogTyped
  <2> QED
    BY <1>3, <1>5, <2>1, <2>2
<1> DEFINE b == Append(Ahead, e)
<1>7. /\ IsLog(b) /\ Len(b) = Len(Ahead) + 1
      /\ \A i \in 1 .. Len(Ahead) : b[i] = Ahead[i]
  BY <1>6, AppendToLog
<1>8. IsLog(rest)
  <2>1. CASE rest = <<>>
    BY <2>1, EmptyLog
  <2>2. CASE rest # <<>>
    <3>1. PICK i \in n + 1 .. Len(p) : \E r \in 0 .. p[i].written - 1 :
              rest = Loose(r) \o SubSeq(p, i + 1, Len(p))
      BY <2>2 DEF Behind
    <3>2. PICK r \in 0 .. p[i].written - 1 :
              rest = Loose(r) \o SubSeq(p, i + 1, Len(p))
      BY <3>1
    <3>3. i \in 1 .. Len(p) /\ i \in Nat /\ i <= Len(p)
      BY <1>1
    <3>4. p[i].written \in Nat
      BY <1>1, <3>3, LogTyped
    <3>5. r \in Nat
      BY <3>4
    <3>6. IsLog(Loose(r)) /\ IsLog(SubSeq(p, i + 1, Len(p)))
      BY <1>1, <1>2, <3>3, <3>5, LooseLog, RestOfLog
    <3> QED
      BY <3>2, <3>6, JoinedLogs
  <2> QED
    BY <2>1, <2>2
<1> DEFINE q == b \o rest
<1>9. /\ IsLog(q) /\ Len(q) = Len(b) + Len(rest) /\ Len(rest) \in Nat
      /\ \A i \in 1 .. Len(b) : q[i] = b[i]
  BY <1>7, <1>8, JoinedLogs, LogTyped
<1> HIDE DEF q, b
<1>10. /\ Len(Ahead) \in Nat /\ n <= Len(Ahead) /\ Len(Ahead) + 1 <= Len(q)
       /\ \A i \in 1 .. n : i \in 1 .. Len(Ahead) /\ i \in 1 .. Len(b)
  <2>1. n \in Nat /\ Len(Ahead) \in Nat /\ n <= Len(Ahead)
    BY <1>1, <1>6
  <2>2. Len(b) = Len(Ahead) + 1 /\ Len(q) = Len(b) + Len(rest) /\ Len(rest) \in Nat
    BY <1>7, <1>9
  <2> QED
    BY <2>1, <2>2
<1>11. \A i \in 1 .. n : q[i] = p[i]
  BY <1>6, <1>7, <1>9, <1>10
<1> QED
  BY <1>9, <1>10, <1>11 DEF q, b

LEMMA ReadLength ==
  ASSUME NEW p, IsLog(p), NEW i \in 1 .. Len(p)
  PROVE  i <= Len(ValidPrefix(p)) <=> \A j \in 1 .. i : j \notin Stops(p)
<1> DEFINE v == ValidPrefix(p)
<1>1. /\ IsLog(v) /\ Len(v) <= Len(p) /\ Stops(v) = {}
      /\ \A k \in 1 .. Len(v) : v[k] = p[k]
      /\ (\A j \in 1 .. i : j \notin Stops(p)) => i <= Len(v)
  BY ScanReadsUpToStop
<1>2. Len(v) \in Nat /\ Len(p) \in Nat
  BY <1>1, LogTyped
<1> HIDE DEF v
<1>3. ASSUME i <= Len(v), NEW j \in 1 .. i
      PROVE  j \notin Stops(p)
  <2>1. j \in 1 .. Len(v)
    BY <1>2, <1>3
  <2>2. j \in Stops(v) <=> j \in Stops(p)
    BY <1>1, <1>2, <2>1, StopsAgree
  <2> QED
    BY <1>1, <2>2
<1> QED
  BY <1>1, <1>3 DEF v

LEMMA ReadNumbers ==
  ASSUME NEW p, IsLog(p)
  PROVE  /\ Len(ValidPrefix(p)) \in 0 .. Len(p)
         /\ ReadIn(p) \subseteq 0 .. MaxSequence - 1
         /\ ReadIn(p) = {p[i].sequence : i \in 1 .. Len(ValidPrefix(p))}
         /\ \A i, j \in 1 .. Len(ValidPrefix(p)) :
               i < j => p[i].sequence < p[j].sequence
<1> DEFINE v == ValidPrefix(p)
           n == Len(v)
<1>1. /\ IsLog(v) /\ n <= Len(p)
      /\ \A k \in 1 .. n : v[k] = p[k]
  BY ScanReadsUpToStop
<1>2. n \in Nat /\ DOMAIN v = 1 .. n /\ Len(p) \in Nat
  BY <1>1, LogTyped
<1>3. ReadIn(p) = {v[i].sequence : i \in 1 .. n}
  BY <1>2 DEF ReadIn
<1> HIDE DEF v, n
<1>4. ReadIn(p) = {p[i].sequence : i \in 1 .. n}
  BY <1>1, <1>3
<1>5. \A i \in 1 .. n : i \in 1 .. Len(p)
  BY <1>1, <1>2
<1>6. ASSUME NEW i \in 1 .. n
      PROVE  p[i].sequence \in 0 .. MaxSequence - 1
  <2>1. p[i] \in Pieces
    BY <1>5, LogTyped
  <2> QED
    BY <2>1 DEF Pieces
<1>7. \A i \in 1 .. n : i \notin Stops(p)
  <2> SUFFICES ASSUME NEW i \in 1 .. n
               PROVE  i \notin Stops(p)
    OBVIOUS
  <2>1. i \in 1 .. Len(p) /\ i <= n /\ i \in 1 .. i
    BY <1>2, <1>5
  <2> QED
    BY <2>1, ReadLength DEF n, v
<1>8. \A i, j \in 1 .. n : i < j => p[i].sequence < p[j].sequence
  BY <1>1, <1>2, <1>7, InOrder
<1>9. n \in 0 .. Len(p)
  BY <1>1, <1>2
<1> QED
  BY <1>4, <1>6, <1>8, <1>9 DEF n, v

-----------------------------------------------------------------------------
(* The invariant *)

TypeInv ==
    /\ process \in {"down", "creating", "open", "refused"}
    /\ header \in {"absent", "partial", "written", "complete"}
    /\ link \in {"current", "unsynced", "stale"}
    /\ writer \in {"idle", "fsync"}
    /\ worker \in {"idle", "reclaim", "rename", "reopen", "syncDirectory",
                   "failed", "exited"}
    /\ failed \in BOOLEAN
    /\ exposed \in BOOLEAN
    /\ IsFile(file)
    /\ IsFile(other)
    /\ position \in {AtEnd} \cup [whole : 0 .. Len(file.pieces), part : Nat]
    /\ nextSequence \in 0 .. MaxSequence
    /\ checkpoint \in {NoCheckpoint} \cup 0 .. MaxSequence - 1
    /\ memtable \subseteq 0 .. MaxSequence - 1
    /\ acknowledged \subseteq 0 .. MaxSequence - 1
    /\ atRisk \subseteq acknowledged
    /\ failures \in 0 .. MaxFailures
    /\ crashes \in 0 .. MaxCrashes

Safe == acknowledged \ atRisk

\* Until the header is written there is no record, and until it is durable
\* there is none that is safe.
HeaderInv ==
    /\ header \in {"absent", "partial"} => file = EmptyFile /\ link = "current"
    /\ header # "complete" => Safe = {}
    /\ process = "creating" => header = "partial"
    /\ process = "open" => header \in {"written", "complete"}

\* The record that was written last.
LastSequence == file.pieces[Len(file.pieces)].sequence

\* fd_ stands inside the log only between a scan that threw and the end of the
\* process, and never behind the bytes of the piece it is in.
PositionInv ==
    position # AtEnd =>
        /\ process = "open"
        /\ failed
        /\ worker \in {"failed", "exited"}
        /\ position.whole < Len(file.pieces) =>
              position.part < file.pieces[position.whole + 1].written

\* write_mutex_ keeps the writer out of a reclamation, which has the log to
\* itself once its scan has repaired what an earlier failure left.
ControlInv ==
    /\ process # "open" => writer = "idle" /\ worker = "idle" /\ ~failed
    /\ HoldsMutex => writer = "idle" /\ ~failed
    /\ worker = "reopen" => link # "current"
    /\ writer = "fsync" =>
          /\ InFlight \in 1 .. Len(file.pieces)
          /\ file.synced < InFlight
          /\ nextSequence < MaxSequence
          /\ position = AtEnd => LastSequence = nextSequence
          /\ ~exposed => ~failed /\ PathIsDurable

\* As long as nothing has failed, the live log can be scanned to its end and
\* the next number is above its last; so can the log that replaces it.
OrderInv ==
    /\ process = "open" /\ ~failed =>
          /\ writer = "idle" => Ordered(file.pieces, nextSequence)
          /\ writer = "fsync" => Ordered(file.pieces, nextSequence + 1)
    /\ worker = "reopen" => Ordered(other.pieces, nextSequence)

\* A log nobody has written to behind a failure breaks off at its end, if at all.
TailInv ==
    ~exposed => /\ TailOK(file.pieces)
                /\ link # "current" => TailOK(other.pieces)

\* Whichever file the path names, the records that are safe are held by it.
SafeInv ==
    /\ Held(file, Safe, checkpoint)
    /\ link # "current" => Held(other, Safe, checkpoint)

\* What is read in front of fd_, where a scan has left it.
InFront == ReadIn(SubSeq(file.pieces, 1, position.whole))

\* The next number is above all that is safe, except what the next write puts at
\* risk; once it is written, above all that is left.
NumberInv ==
    /\ process = "open" =>
          \A t \in Safe : t < nextSequence \/ (position # AtEnd /\ t \notin InFront)
    /\ writer = "fsync" => \A t \in Safe : t < nextSequence

WalInv ==
    /\ TypeInv
    /\ HeaderInv
    /\ PositionInv
    /\ ControlInv
    /\ OrderInv
    /\ TailInv
    /\ SafeInv
    /\ NumberInv

LEMMA WalFacts ==
  ASSUME TypeInv
  PROVE  /\ MaxSequence \in Nat /\ MaxFailures \in Nat /\ MaxCrashes \in Nat
         /\ checkpoint \in Int /\ checkpoint + 1 \in 0 .. MaxSequence
         /\ nextSequence \in Nat /\ nextSequence <= MaxSequence
         /\ Safe \subseteq Nat
         /\ IsLog(file.pieces) /\ Len(file.pieces) \in Nat
         /\ IsLog(other.pieces)
<1>1. MaxSequence \in Nat /\ MaxFailures \in Nat /\ MaxCrashes \in Nat
  BY WalAssumption
<1>2. checkpoint \in {-1} \cup 0 .. MaxSequence - 1
  BY DEF TypeInv, NoCheckpoint
<1>3. IsLog(file.pieces) /\ IsLog(other.pieces)
  BY DEF TypeInv, IsFile
<1>4. Safe \subseteq Nat
  BY <1>1 DEF TypeInv, Safe
<1>5. nextSequence \in Nat /\ nextSequence <= MaxSequence
  BY <1>1 DEF TypeInv
<1> QED
  BY <1>1, <1>2, <1>3, <1>4, <1>5, LogTyped

\* Where fd_ stands when it is not at the end.
LEMMA PositionTyped ==
  ASSUME TypeInv, PositionInv, position # AtEnd
  PROVE  /\ position \in [whole : 0 .. Len(file.pieces), part : Nat]
         /\ position.whole \in Nat /\ position.whole <= Len(file.pieces)
         /\ position.whole < Len(file.pieces) =>
               position.part < file.pieces[position.whole + 1].written
<1>1. position \in [whole : 0 .. Len(file.pieces), part : Nat]
  BY DEF TypeInv
<1> QED
  BY <1>1, WalFacts DEF PositionInv

LEMMA FailureCounted ==
  ASSUME TypeInv, NEW kind, IoError(kind)
  PROVE  failures' \in 0 .. MaxFailures
BY WalFacts DEF TypeInv, IoError

LEMMA EmptyFileIsHeld == TailOK(<<>>) /\ Stops(<<>>) = {} /\ \A n : Ordered(<<>>, n)
<1>1. Stops(<<>>) = {}
  BY EmptyLog, StopAt
<1> QED
  BY <1>1, EmptyLog DEF TailOK, Ordered

LEMMA InitEstablishesWalInv == Init => WalInv
<1> SUFFICES ASSUME Init PROVE WalInv
  OBVIOUS
<1>1. TypeInv
  <2>1. 0 \in 0 .. MaxSequence /\ 0 \in 0 .. MaxFailures /\ 0 \in 0 .. MaxCrashes
    BY WalAssumption
  <2> QED
    BY <2>1, EmptyFileTyped DEF Init, TypeInv
<1>2. HeaderInv /\ PositionInv /\ ControlInv
  BY DEF Init, HeaderInv, PositionInv, ControlInv, HoldsMutex, Safe
<1>3. OrderInv /\ TailInv /\ SafeInv /\ NumberInv
  BY EmptyFileTyped, EmptyFileIsHeld
  DEF Init, OrderInv, TailInv, SafeInv, NumberInv, Held, Safe
<1> QED
  BY <1>1, <1>2, <1>3 DEF WalInv

-----------------------------------------------------------------------------
(* Steps that leave the files alone *)

LEMMA OpeningPreservesWalInv ==
  ASSUME WalInv, CreateFile \/ CompleteHeader \/ FailCreate \/ RefuseToOpen \/ TryAgain
  PROVE  WalInv'
<1> USE DEF inodes, engine, history
<1>1. CASE CreateFile \/ RefuseToOpen \/ TryAgain
  <2>1. /\ header' = header \/ (header = "absent" /\ header' = "partial")
        /\ process' # "open" /\ process # "open"
        /\ process' \in {"down", "creating", "refused"}
        /\ process' = "creating" => header' = "partial"
        /\ UNCHANGED <<inodes, nextSequence, writer, worker, engine, history,
                       failures, crashes>>
    BY <1>1 DEF CreateFile, RefuseToOpen, TryAgain
  <2>2. TypeInv'
    BY <2>1 DEF WalInv, TypeInv
  <2>3. HeaderInv' /\ PositionInv' /\ ControlInv'
    BY <2>1 DEF WalInv, HeaderInv, PositionInv, ControlInv, HoldsMutex, Safe
  <2>4. OrderInv' /\ TailInv' /\ SafeInv' /\ NumberInv'
    BY <2>1 DEF WalInv, ControlInv, OrderInv, TailInv, SafeInv, NumberInv, Safe
  <2> QED
    BY <2>2, <2>3, <2>4 DEF WalInv
<1>2. CASE CompleteHeader
  <2>1. /\ process = "creating" /\ process' = "open" /\ header' = "complete"
        /\ nextSequence' = checkpoint + 1 /\ exposed' = FALSE
        /\ UNCHANGED <<inodes, writer, worker, engine, acknowledged, failed,
                       atRisk, failures, crashes>>
    BY <1>2 DEF CompleteHeader
  <2>2. file = EmptyFile /\ Safe = {} /\ link = "current"
    BY <2>1 DEF WalInv, HeaderInv
  <2>3. writer = "idle" /\ worker = "idle" /\ ~failed /\ position = AtEnd
    BY <2>1 DEF WalInv, ControlInv, PositionInv
  <2>4. Ordered(file.pieces, nextSequence') /\ TailOK(file.pieces)
    BY <2>2, EmptyFileTyped, EmptyFileIsHeld
  <2>5. TypeInv'
    BY <2>1, WalFacts DEF WalInv, TypeInv
  <2>6. HeaderInv' /\ PositionInv' /\ ControlInv'
    BY <2>1, <2>2, <2>3 DEF WalInv, HeaderInv, PositionInv, ControlInv, HoldsMutex
  <2>7. OrderInv' /\ TailInv'
    BY <2>1, <2>2, <2>3, <2>4 DEF OrderInv, TailInv
  <2>8. SafeInv' /\ NumberInv'
    BY <2>1, <2>2, <2>3 DEF SafeInv, NumberInv, Safe, Held
  <2> QED
    BY <2>5, <2>6, <2>7, <2>8 DEF WalInv
<1>3. CASE FailCreate
  <2>1. /\ process = "creating" /\ process' = "refused"
        /\ header' \in {"partial", "written"}
        /\ UNCHANGED <<inodes, nextSequence, writer, worker, engine, history, crashes>>
    BY <1>3 DEF FailCreate
  <2>2. file = EmptyFile /\ Safe = {} /\ link = "current"
    BY <2>1 DEF WalInv, HeaderInv
  <2>3. failures' \in 0 .. MaxFailures
    BY <1>3, FailureCounted DEF FailCreate, WalInv
  <2>4. TypeInv'
    BY <2>1, <2>3 DEF WalInv, TypeInv
  <2>5. HeaderInv' /\ PositionInv' /\ ControlInv'
    BY <2>1, <2>2 DEF WalInv, HeaderInv, PositionInv, ControlInv, HoldsMutex, Safe
  <2>6. OrderInv' /\ TailInv' /\ SafeInv' /\ NumberInv'
    BY <2>1 DEF WalInv, ControlInv, OrderInv, TailInv, SafeInv, NumberInv, Safe
  <2> QED
    BY <2>4, <2>5, <2>6 DEF WalInv
<1> QED
  BY <1>1, <1>2, <1>3

LEMMA FailuresPreserveWalInv ==
  ASSUME WalInv, FailSync \/ FailScanEarly \/ FailReclaim \/ RecordError
  PROVE  WalInv'
<1> USE DEF inodes, engine, history
<1>1. /\ failures' \in 0 .. MaxFailures
      /\ writer' \in {writer, "idle"}
      /\ worker' \in {worker, "failed", "exited"}
      /\ failed' \in BOOLEAN
      /\ ~failed' => ~failed /\ writer' = writer
      /\ writer = "fsync" => failed' = failed \/ writer' = "idle"
      /\ worker' = "idle" => worker = "idle"
      /\ worker' \in {"rename", "reopen", "syncDirectory", "reclaim"} =>
            worker' = worker /\ (failed' = failed \/ writer = "fsync")
      /\ worker \in {"failed", "exited"} => worker' \in {"failed", "exited"}
      /\ writer # "idle" \/ worker # "idle"
      /\ UNCHANGED <<process, header, inodes, nextSequence, engine, acknowledged,
                     exposed, atRisk, crashes>>
  <2>1. CASE RecordError
    BY <2>1 DEF RecordError, WalInv, TypeInv
  <2>2. CASE FailSync
    <3>1. failures' \in 0 .. MaxFailures
      BY <2>2, FailureCounted DEF FailSync, Fails, WalInv
    <3> QED
      BY <2>2, <3>1 DEF FailSync, Fails, WalInv, TypeInv
  <2>3. CASE FailScanEarly
    <3>1. failures' \in 0 .. MaxFailures
      BY <2>3, FailureCounted DEF FailScanEarly, Fails, WalInv
    <3> QED
      BY <2>3, <3>1 DEF FailScanEarly, Fails, WalInv, TypeInv
  <2>4. CASE FailReclaim
    <3>1. failures' \in 0 .. MaxFailures
      BY <2>4, FailureCounted DEF FailReclaim, Fails, WalInv
    <3>2. writer = "idle"
      BY <2>4 DEF FailReclaim, WalInv, ControlInv, HoldsMutex
    <3> QED
      BY <2>4, <3>1, <3>2 DEF FailReclaim, Fails, WalInv, TypeInv
  <2> QED
    BY <2>1, <2>2, <2>3, <2>4
<1>2. process = "open"
  BY <1>1 DEF WalInv, ControlInv
<1>3. TypeInv'
  BY <1>1 DEF WalInv, TypeInv
<1>4. HeaderInv' /\ PositionInv'
  BY <1>1 DEF WalInv, TypeInv, HeaderInv, PositionInv, Safe
<1>5. ControlInv'
  BY <1>1, <1>2
  DEF WalInv, TypeInv, ControlInv, HoldsMutex, InFlight, LastSequence, PathIsDurable
<1>6. OrderInv'
  BY <1>1 DEF WalInv, TypeInv, OrderInv
<1>7. TailInv' /\ SafeInv' /\ NumberInv'
  BY <1>1 DEF WalInv, TypeInv, TailInv, SafeInv, NumberInv, Safe, InFront
<1> QED
  BY <1>3, <1>4, <1>5, <1>6, <1>7 DEF WalInv

\* A flush moves the checkpoint up: what was covered stays covered.
LEMMA CheckpointPreservesWalInv ==
  ASSUME WalInv, NEW s \in memtable, AdvanceCheckpoint(s)
  PROVE  WalInv'
<1> USE DEF inodes, engine, history
<1>1. /\ process = "open" /\ worker = "idle" /\ worker' = "reclaim"
      /\ checkpoint < s /\ checkpoint' = s
      /\ memtable' = {t \in memtable : s < t}
      /\ UNCHANGED <<process, header, inodes, nextSequence, writer, history,
                     failures, crashes>>
  BY DEF AdvanceCheckpoint
<1>2. TypeInv'
  BY <1>1 DEF WalInv, TypeInv
<1>3. HeaderInv' /\ PositionInv' /\ ControlInv'
  BY <1>1 DEF WalInv, HeaderInv, PositionInv, ControlInv, Safe, HoldsMutex,
              LastSequence, InFlight, PathIsDurable
<1>4. OrderInv' /\ TailInv' /\ NumberInv'
  BY <1>1 DEF WalInv, OrderInv, TailInv, NumberInv, Safe, InFront
<1>5. SafeInv'
  <2>1. checkpoint \in Int /\ s \in Int /\ Safe \subseteq Nat /\ checkpoint <= s
    BY <1>1, WalFacts DEF WalInv, TypeInv
  <2>2. Held(file, Safe, s) /\ (link # "current" => Held(other, Safe, s))
    BY <2>1, HeldLess DEF WalInv, SafeInv
  <2> QED
    BY <1>1, <2>2 DEF SafeInv, Safe
<1> QED
  BY <1>2, <1>3, <1>4, <1>5 DEF WalInv

-----------------------------------------------------------------------------
(* Writing *)

\* A piece appended with the next number endangers nothing that is safe.
LEMMA AppendedPiece ==
  ASSUME WalInv, MayAppend, position = AtEnd,
         NEW size \in RecordSizes, NEW w \in 1 .. size,
         NEW g, g = [file EXCEPT !.pieces = Append(@, Piece(nextSequence, w, size))]
  PROVE  /\ IsFile(g)
         /\ Len(g.pieces) = Len(file.pieces) + 1
         /\ g.synced = file.synced
         /\ g.pieces[Len(g.pieces)].sequence = nextSequence
         /\ Held(g, Safe, checkpoint)
         /\ ~failed => TailOK(g.pieces)
         /\ ~failed /\ w = size => Ordered(g.pieces, nextSequence + 1)
<1> DEFINE e == Piece(nextSequence, w, size)
           p == file.pieces
           q == g.pieces
<1>1. /\ IsFile(file) /\ IsLog(p) /\ Len(p) \in Nat
      /\ nextSequence \in Nat /\ nextSequence < MaxSequence /\ MaxSequence \in Nat
      /\ process = "open" /\ writer = "idle"
  BY WalFacts DEF WalInv, TypeInv, MayAppend
<1>2. /\ e.sequence = nextSequence /\ e.written = w /\ e.size = size
      /\ e = [sequence |-> nextSequence, written |-> w, size |-> size]
  BY DEF Piece
<1>3. size \in Nat
  BY WalAssumption
<1>4. e \in Pieces /\ e.written \in 1 .. e.size
  <2>1. nextSequence \in 0 .. MaxSequence - 1 /\ w \in Nat
    BY <1>1, <1>3
  <2> QED
    BY <1>2, <2>1 DEF Pieces
<1>5. g.pieces = Append(p, e) /\ g.synced = file.synced
  BY <1>1 DEF IsFile
<1>6. g = [pieces |-> g.pieces, synced |-> g.synced]
  BY <1>1 DEF IsFile
<1> HIDE DEF e
<1>7. /\ IsLog(q) /\ Len(q) = Len(p) + 1
      /\ \A i \in 1 .. Len(p) : q[i] = p[i]
      /\ q[Len(p) + 1] = e
  BY <1>1, <1>4, <1>5, AppendToLog
<1>8. IsFile(g)
  BY <1>1, <1>5, <1>6, <1>7 DEF IsFile
<1>9. Held(g, Safe, checkpoint)
  <2>1. Held(file, Safe, checkpoint) /\ \A t \in Safe : t < e.sequence
    BY <1>1, <1>2 DEF WalInv, SafeInv, NumberInv
  <2> HIDE DEF p
  <2>2. g.pieces = Append(file.pieces, e)
    BY <1>5 DEF p
  <2> QED
    BY <1>1, <1>4, <1>5, <1>8, <2>1, <2>2, HeldAfterAppend
<1>10. ASSUME ~failed PROVE /\ Stops(p) = {}
                            /\ \A i \in 1 .. Len(p) : p[i].sequence < nextSequence
  BY <1>1, <1>10 DEF WalInv, OrderInv, Ordered
<1>11. ASSUME ~failed, NEW i \in Stops(q)
       PROVE  i = Len(p) + 1 /\ Torn(e)
  <2>1. \/ i \in Stops(p)
        \/ /\ i = Len(p) + 1
           /\ Torn(e) \/ (Len(p) \in 1 .. Len(p) /\ e.sequence <= p[Len(p)].sequence)
    BY <1>1, <1>4, <1>5, <1>11, StopsOfAppend
  <2>2. \A k \in 1 .. Len(p) : p[k].sequence \in Nat /\ p[k].sequence < nextSequence
    BY <1>1, <1>10, <1>11, LogTyped
  <2> QED
    BY <1>1, <1>2, <1>10, <1>11, <2>1, <2>2
<1>12. ~failed => TailOK(q)
  BY <1>7, <1>11 DEF TailOK
<1>13. ASSUME ~failed, w = size PROVE Ordered(q, nextSequence + 1)
  <2>1. ~Torn(e)
    BY <1>2, <1>3, <1>13 DEF Torn
  <2>2. Stops(q) = {}
    BY <1>11, <1>13, <2>1
  <2>3. \A i \in 1 .. Len(p) : q[i].sequence < nextSequence + 1
    <3>1. \A k \in 1 .. Len(p) : p[k].sequence \in Nat /\ p[k].sequence < nextSequence
      BY <1>1, <1>10, <1>13, LogTyped
    <3> QED
      BY <1>1, <1>7, <3>1
  <2>4. \A i \in 1 .. Len(q) : i \in 1 .. Len(p) \/ i = Len(p) + 1
    BY <1>1, <1>7
  <2>5. \A i \in 1 .. Len(q) : q[i].sequence < nextSequence + 1
    BY <1>1, <1>2, <1>7, <2>3, <2>4
  <2> QED
    BY <2>2, <2>5 DEF Ordered
<1> HIDE DEF p, q
<1>14. q[Len(q)].sequence = nextSequence
  BY <1>2, <1>7
<1> QED
  BY <1>5, <1>7, <1>8, <1>9, <1>12, <1>13, <1>14 DEF p, q

LEMMA WriteRecordPreservesWalInv ==
  ASSUME WalInv, NEW size \in RecordSizes, WriteRecord(size)
  PROVE  WalInv'
<1> USE DEF inodes, engine, history
<1>1. size \in 1 .. size
  <2>1. \A n \in RecordSizes : n \in Nat /\ n > 2
    BY WalAssumption DEF HeaderUnits
  <2> QED
    BY <2>1
<1>2. /\ MayAppend /\ position = AtEnd
      /\ file' = [file EXCEPT !.pieces = Append(@, Piece(nextSequence, size, size))]
      /\ writer' = "fsync" /\ exposed' = AppendIsExposed
      /\ UNCHANGED <<process, header, position, other, link, nextSequence, worker,
                     engine, acknowledged, failed, atRisk, failures, crashes>>
  BY DEF WriteRecord
<1>3. /\ IsFile(file') /\ Len(file'.pieces) = Len(file.pieces) + 1
      /\ file'.synced = file.synced
      /\ file'.pieces[Len(file'.pieces)].sequence = nextSequence
      /\ Held(file', Safe, checkpoint)
      /\ ~failed => TailOK(file'.pieces) /\ Ordered(file'.pieces, nextSequence + 1)
  BY <1>1, <1>2, AppendedPiece
<1>4. /\ process = "open" /\ writer = "idle" /\ ~HoldsMutex
      /\ nextSequence < MaxSequence
  BY <1>2 DEF MayAppend
<1>5. Safe' = Safe
  BY <1>2 DEF Safe
<1>6. exposed' \in BOOLEAN /\ (~exposed' => ~exposed /\ ~failed /\ PathIsDurable)
  BY <1>2 DEF AppendIsExposed, WalInv, TypeInv, PathIsDurable
<1>7. TypeInv'
  BY <1>2, <1>3, <1>6 DEF WalInv, TypeInv
<1>8. HeaderInv' /\ PositionInv'
  BY <1>2, <1>4, <1>5 DEF WalInv, HeaderInv, PositionInv
<1>9. ControlInv'
  <2>1. worker \notin {"rename", "reopen", "syncDirectory"}
    BY <1>4 DEF HoldsMutex
  <2>2. Len(file.pieces) \in Nat /\ file.synced \in 0 .. Len(file.pieces)
    BY WalFacts DEF WalInv, TypeInv, IsFile
  <2>3. file'.synced < Len(file'.pieces) /\ Len(file'.pieces) \in 1 .. Len(file'.pieces)
    BY <1>3, <2>2
  <2>4. InFlight' = Len(file'.pieces) /\ PathIsDurable' = PathIsDurable
    BY <1>2 DEF InFlight, PathIsDurable
  <2> QED
    BY <1>2, <1>3, <1>4, <1>6, <2>1, <2>3, <2>4
    DEF ControlInv, HoldsMutex, LastSequence
<1>10. OrderInv'
  BY <1>2, <1>3, <1>4 DEF WalInv, OrderInv, HoldsMutex
<1>11. TailInv'
  BY <1>2, <1>3, <1>6 DEF TailInv, PathIsDurable
<1>12. SafeInv'
  BY <1>2, <1>3, <1>5 DEF WalInv, SafeInv
<1>13. NumberInv'
  BY <1>2, <1>4, <1>5 DEF WalInv, NumberInv
<1> QED
  BY <1>7, <1>8, <1>9, <1>10, <1>11, <1>12, <1>13 DEF WalInv

LEMMA FailWritePreservesWalInv ==
  ASSUME WalInv, NEW size \in RecordSizes, NEW written \in 0 .. size - 1,
         FailWrite(size, written)
  PROVE  WalInv'
<1> USE DEF inodes, engine, history
<1>1. size \in Nat
  BY WalAssumption
<1>2. /\ MayAppend
      /\ position = AtEnd \/ written = 0
      /\ IoError("write") /\ failed' = TRUE
      /\ file' = IF written = 0 THEN file
                 ELSE [file EXCEPT !.pieces =
                          Append(@, Piece(nextSequence, written, size))]
      /\ exposed' = AppendIsExposed
      /\ UNCHANGED <<process, header, position, other, link, nextSequence, writer,
                     worker, engine, acknowledged, atRisk, crashes>>
  BY DEF FailWrite, Fails
<1>3. /\ IsFile(file') /\ Held(file', Safe, checkpoint)
      /\ ~exposed /\ ~failed => TailOK(file'.pieces)
      /\ file' = file \/ position = AtEnd
  <2>1. CASE written = 0
    BY <1>2, <2>1 DEF WalInv, TypeInv, SafeInv, TailInv
  <2>2. CASE written # 0
    <3>1. written \in 1 .. size
      BY <1>1, <2>2
    <3>2. file' = [file EXCEPT !.pieces = Append(@, Piece(nextSequence, written, size))]
      BY <1>2, <2>2
    <3> QED
      BY <1>2, <2>2, <3>1, <3>2, AppendedPiece
  <2> QED
    BY <2>1, <2>2
<1>4. process = "open" /\ writer = "idle" /\ ~HoldsMutex /\ header' = header
  BY <1>2 DEF MayAppend
<1>5. Safe' = Safe
  BY <1>2 DEF Safe
<1>6. exposed' \in BOOLEAN /\ (~exposed' => ~exposed /\ ~failed /\ link = "current")
  BY <1>2 DEF AppendIsExposed, WalInv, TypeInv, PathIsDurable
<1>7. TypeInv'
  <2>1. failures' \in 0 .. MaxFailures
    BY <1>2, FailureCounted DEF WalInv
  <2> QED
    BY <1>2, <1>3, <1>6, <2>1 DEF WalInv, TypeInv
<1>8. HeaderInv' /\ PositionInv'
  BY <1>2, <1>3, <1>4, <1>5 DEF WalInv, HeaderInv, PositionInv
<1>9. ControlInv'
  BY <1>2, <1>4 DEF WalInv, ControlInv, HoldsMutex
<1>10. OrderInv'
  BY <1>2 DEF WalInv, OrderInv
<1>11. TailInv'
  BY <1>2, <1>3, <1>6 DEF TailInv
<1>12. SafeInv'
  BY <1>2, <1>3, <1>5 DEF WalInv, SafeInv
<1>13. NumberInv'
  BY <1>2, <1>3, <1>4, <1>5 DEF WalInv, NumberInv, InFront
<1> QED
  BY <1>7, <1>8, <1>9, <1>10, <1>11, <1>12, <1>13 DEF WalInv

\* A write where a scan has left fd_ keeps what is read in front of it, and
\* nothing else is safe any more.
LEMMA OverwritePreservesWalInv ==
  ASSUME WalInv, NEW size \in RecordSizes, NEW w \in 1 .. size,
         Overwrite(Piece(nextSequence, w, size)),
         \/ writer' = "fsync" /\ UNCHANGED <<failed, failures>>
         \/ UNCHANGED writer /\ Fails("write")
  PROVE  WalInv'
<1> USE DEF inodes, engine, history
<1> DEFINE e == Piece(nextSequence, w, size)
           n == position.whole
<1>1. PICK rest \in Behind(file.pieces, n + 1, position.part + w) :
          file' = [pieces |-> Append(Ahead, e) \o rest, synced |-> AtMost(file.synced, n)]
  BY DEF Overwrite, Piece
<1>2. /\ MayAppend /\ position # AtEnd
      /\ position' = [whole |-> Len(Ahead) + 1, part |-> 0]
      /\ exposed' = TRUE
      /\ atRisk' = atRisk \cup (acknowledged \ InFront)
      /\ UNCHANGED <<process, header, other, link, nextSequence, worker, engine,
                     acknowledged, crashes>>
  BY DEF Overwrite, InFront
<1>3. /\ process = "open" /\ writer = "idle" /\ ~HoldsMutex /\ failed
      /\ worker \in {"failed", "exited"}
      /\ nextSequence < MaxSequence /\ nextSequence \in Nat /\ MaxSequence \in Nat
      /\ IsFile(file) /\ Len(file.pieces) \in Nat
      /\ file.synced \in 0 .. Len(file.pieces)
  BY <1>2, WalFacts DEF MayAppend, WalInv, PositionInv, TypeInv, IsFile
<1>4. e \in Pieces /\ e.written \in 1 .. e.size
  <2>1. size \in Nat /\ size \in RecordSizes \cup {HeaderUnits}
    BY WalAssumption
  <2>2. nextSequence \in 0 .. MaxSequence - 1 /\ w \in Nat
    BY <1>3, <2>1
  <2> QED
    BY <2>1, <2>2 DEF Pieces, Piece
<1>5. /\ position \in [whole : 0 .. Len(file.pieces), part : Nat]
      /\ n \in Nat /\ n <= Len(file.pieces)
      /\ n < Len(file.pieces) => position.part < file.pieces[n + 1].written
  BY <1>2, PositionTyped DEF WalInv
<1> HIDE DEF e, n
<1> DEFINE q == Append(Ahead, e) \o rest
<1>6. /\ IsLog(q) /\ Len(Ahead) \in Nat /\ n <= Len(Ahead)
      /\ Len(Ahead) + 1 <= Len(q)
      /\ \A i \in 1 .. n : q[i] = file.pieces[i]
  BY <1>1, <1>3, <1>4, <1>5, OverwrittenFile DEF n
<1> HIDE DEF q
<1>7. /\ file' = [pieces |-> file'.pieces, synced |-> file'.synced]
      /\ file'.pieces = q /\ file'.synced = AtMost(file.synced, n)
  BY <1>1 DEF q
<1>8. /\ AtMost(file.synced, n) \in Nat /\ AtMost(file.synced, n) <= n
      /\ Len(q) \in Nat /\ n <= Len(q)
  BY <1>3, <1>5, <1>6, LogTyped DEF AtMost
<1>9. IsFile(file')
  <2>1. AtMost(file.synced, n) \in 0 .. Len(q)
    BY <1>5, <1>8
  <2> QED
    BY <1>6, <1>7, <2>1 DEF IsFile
<1>10. Safe' \subseteq Safe /\ Safe' \subseteq InFront /\ Safe \subseteq Nat
  BY <1>2, WalFacts DEF Safe, WalInv
<1>11. Held(file', Safe', checkpoint)
  <2>1. Held(file, Safe, checkpoint)
    BY DEF WalInv, SafeInv
  <2>2. Safe' \subseteq ReadIn(SubSeq(file.pieces, 1, n))
    BY <1>10 DEF InFront, n
  <2> QED
    BY <1>3, <1>5, <1>6, <1>7, <1>8, <1>9, <1>10, <2>1, <2>2, HeldWhenOverwritten
<1>12. position' \in [whole : 0 .. Len(file'.pieces), part : Nat] /\ position' # AtEnd
  <2>1. Len(Ahead) + 1 \in 0 .. Len(q)
    BY <1>6, <1>8
  <2>2. position'.part = 0 /\ AtEnd.part = -1
    BY <1>2 DEF AtEnd
  <2> QED
    BY <1>2, <1>7, <2>1, <2>2
<1>13. /\ failed' = TRUE /\ failures' \in 0 .. MaxFailures
       /\ writer' \in {"idle", "fsync"}
  <2>1. CASE writer' = "fsync" /\ UNCHANGED <<failed, failures>>
    BY <1>3, <2>1 DEF WalInv, TypeInv
  <2>2. CASE UNCHANGED writer /\ Fails("write")
    BY <1>3, <2>2, FailureCounted DEF WalInv, Fails
  <2> QED
    BY <2>1, <2>2
<1>14. TypeInv'
  BY <1>2, <1>9, <1>12, <1>13 DEF WalInv, TypeInv
<1>15. HeaderInv'
  BY <1>2, <1>3, <1>10 DEF WalInv, HeaderInv
<1>16. PositionInv'
  <2>1. ASSUME Len(Ahead) + 1 < Len(q) PROVE 0 < q[Len(Ahead) + 1 + 1].written
    <3>1. Len(Ahead) + 1 + 1 \in 1 .. Len(q)
      BY <1>6, <1>8, <2>1
    <3>2. /\ q[Len(Ahead) + 1 + 1].written \in 1 .. q[Len(Ahead) + 1 + 1].size
          /\ q[Len(Ahead) + 1 + 1].written \in Nat
      BY <1>6, <3>1, LogTyped DEF IsLog
    <3> QED
      BY <3>2
  <2> QED
    BY <1>2, <1>3, <1>7, <1>13, <2>1 DEF PositionInv
<1>17. ControlInv'
  <2>1. InFlight' = Len(Ahead) + 1
    BY <1>2, <1>12 DEF InFlight
  <2>2. InFlight' \in 1 .. Len(file'.pieces) /\ file'.synced < InFlight'
    BY <1>5, <1>6, <1>7, <1>8, <2>1
  <2> QED
    BY <1>2, <1>3, <1>12, <1>13, <2>2 DEF ControlInv, HoldsMutex
<1>18. OrderInv' /\ TailInv'
  BY <1>2, <1>3, <1>13 DEF OrderInv, TailInv
<1>19. SafeInv'
  <2>1. ASSUME link # "current" PROVE Held(other, Safe', checkpoint)
    BY <1>10, <2>1 DEF WalInv, SafeInv, Held
  <2> QED
    BY <1>2, <1>11, <2>1 DEF SafeInv
<1>20. NumberInv'
  <2>1. \A t \in Safe' : t < nextSequence
    BY <1>2, <1>3, <1>10 DEF WalInv, NumberInv
  <2> QED
    BY <1>2, <2>1 DEF NumberInv
<1> QED
  BY <1>14, <1>15, <1>16, <1>17, <1>18, <1>19, <1>20 DEF WalInv

LEMMA OverwritingPreservesWalInv ==
  ASSUME WalInv, NEW size \in RecordSizes,
         \/ OverwriteRecord(size)
         \/ \E written \in 1 .. size - 1 : FailOverwrite(size, written)
  PROVE  WalInv'
<1>1. size \in Nat /\ size \in 1 .. size
  <2>1. \A n \in RecordSizes : n \in Nat /\ n > 2
    BY WalAssumption DEF HeaderUnits
  <2> QED
    BY <2>1
<1>2. CASE OverwriteRecord(size)
  BY <1>1, <1>2, OverwritePreservesWalInv DEF OverwriteRecord
<1>3. CASE \E written \in 1 .. size - 1 : FailOverwrite(size, written)
  <2>1. PICK written \in 1 .. size - 1 : FailOverwrite(size, written)
    BY <1>3
  <2>2. written \in 1 .. size
    BY <1>1
  <2> QED
    BY <2>1, <2>2, OverwritePreservesWalInv DEF FailOverwrite
<1> QED
  BY <1>2, <1>3

\* The fsync covers the record; unless something has failed before, it is safe.
LEMMA SyncRecordPreservesWalInv ==
  ASSUME WalInv, SyncRecord
  PROVE  WalInv'
<1> USE DEF inodes, engine, history
<1>1. /\ writer = "fsync" /\ file' = Synced(file.pieces)
      /\ nextSequence' = nextSequence + 1 /\ writer' = "idle"
      /\ acknowledged' = acknowledged \cup {nextSequence}
      /\ memtable' = memtable \cup {nextSequence}
      /\ atRisk' = IF exposed THEN atRisk \cup {nextSequence} ELSE atRisk
      /\ UNCHANGED <<process, header, position, other, link, worker, checkpoint,
                     failed, exposed, failures, crashes>>
  BY DEF SyncRecord, Acknowledge
<1>2. /\ process = "open" /\ ~HoldsMutex /\ nextSequence < MaxSequence
      /\ InFlight \in 1 .. Len(file.pieces)
      /\ position = AtEnd => LastSequence = nextSequence
      /\ ~exposed => ~failed /\ PathIsDurable /\ position = AtEnd
  BY <1>1 DEF WalInv, ControlInv, PositionInv
<1>3. /\ nextSequence \in Nat /\ MaxSequence \in Nat
      /\ nextSequence \in 0 .. MaxSequence - 1
      /\ nextSequence + 1 \in 0 .. MaxSequence
      /\ checkpoint \in Int /\ Safe \subseteq Nat
  BY <1>2, WalFacts DEF WalInv
<1>4. IsFile(file) /\ IsLog(file.pieces) /\ Len(file.pieces) \in Nat
  BY LogTyped DEF WalInv, TypeInv, IsFile
<1>5. IsFile(file') /\ file'.pieces = file.pieces
  BY <1>1, <1>4, SyncedTyped
<1>6. TypeInv'
  BY <1>1, <1>2, <1>3, <1>5 DEF WalInv, TypeInv
<1>7. HeaderInv' /\ PositionInv'
  <2>1. header # "complete" => Safe' = {}
    BY <1>1, <1>2 DEF WalInv, HeaderInv, Safe, PathIsDurable
  <2> QED
    BY <1>1, <1>2, <1>5, <2>1 DEF WalInv, HeaderInv, PositionInv
<1>8. ControlInv'
  BY <1>1, <1>2 DEF WalInv, ControlInv, HoldsMutex
<1>9. OrderInv'
  <2>1. ~failed => Ordered(file.pieces, nextSequence + 1)
    BY <1>1, <1>2 DEF WalInv, OrderInv
  <2>2. worker # "reopen"
    BY <1>2 DEF HoldsMutex
  <2> QED
    BY <1>1, <1>2, <1>5, <2>1, <2>2 DEF OrderInv
<1>10. TailInv'
  BY <1>1, <1>5 DEF WalInv, TailInv
<1>11. /\ Safe' \subseteq Safe \cup {nextSequence}
       /\ exposed => Safe' \subseteq Safe
  BY <1>1, <1>2 DEF Safe
<1>12. SafeInv'
  <2>1. CASE exposed
    <3>1. Held(file', Safe, checkpoint)
      BY <1>1, <1>4, HeldWhenSynced DEF WalInv, SafeInv
    <3>2. ASSUME NEW d, Held(d, Safe, checkpoint)
          PROVE  Held(d, Safe', checkpoint)
      <4>1. Safe' \subseteq Safe /\ checkpoint <= checkpoint
        BY <1>3, <1>11, <2>1
      <4> QED
        BY <1>3, <3>2, <4>1, HeldLess
    <3> QED
      BY <1>1, <3>1, <3>2 DEF WalInv, SafeInv
  <2>2. CASE ~exposed
    <3>1. Stops(file.pieces) = {}
      BY <1>1, <1>2, <2>2 DEF WalInv, OrderInv, Ordered
    <3>2. file.pieces[Len(file.pieces)].sequence = nextSequence
      BY <1>2, <2>2 DEF LastSequence
    <3>3. Held(file, Safe, checkpoint)
      BY DEF WalInv, SafeInv
    <3>4. Held(Synced(file.pieces),
               Safe \cup {file.pieces[Len(file.pieces)].sequence}, checkpoint)
      <4>1. Len(file.pieces) \in 1 .. Len(file.pieces)
        BY <1>2, <1>4
      <4> QED
        BY <1>4, <3>1, <3>3, <4>1, HeldAfterSync
    <3>5. Held(file', Safe \cup {nextSequence}, checkpoint)
      BY <1>1, <3>2, <3>4
    <3>6. Held(file', Safe', checkpoint)
      <4>1. /\ Safe' \subseteq Safe \cup {nextSequence}
            /\ Safe \cup {nextSequence} \subseteq Nat
            /\ checkpoint <= checkpoint
        BY <1>3, <1>11
      <4> QED
        BY <1>3, <3>5, <4>1, HeldLess
    <3> QED
      BY <1>1, <1>2, <2>2, <3>6 DEF SafeInv, PathIsDurable
  <2> QED
    BY <2>1, <2>2 DEF WalInv, TypeInv
<1>13. NumberInv'
  <2>1. \A t \in Safe : t \in Nat /\ t < nextSequence
    BY <1>1, <1>3 DEF WalInv, NumberInv
  <2> QED
    BY <1>1, <1>2, <1>3, <1>11, <2>1 DEF NumberInv
<1> QED
  BY <1>6, <1>7, <1>8, <1>9, <1>10, <1>12, <1>13 DEF WalInv

-----------------------------------------------------------------------------
(* Scanning *)

\* A scan that ends leaves a log in order, and the allocator above it.
LEMMA ScannedLog ==
  ASSUME NEW f, IsFile(f), NEW least \in 0 .. MaxSequence, NEW n,
         n = AtLeast(SequenceAfter(ValidPrefix(f.pieces), 0), least)
  PROVE  /\ IsFile(Repaired(f))
         /\ Ordered(Repaired(f).pieces, n)
         /\ n \in 0 .. MaxSequence /\ least <= n
<1> DEFINE v == ValidPrefix(f.pieces)
           m == SequenceAfter(v, 0)
<1>1. MaxSequence \in Nat /\ 0 \in 0 .. MaxSequence
  BY WalAssumption
<1>2. IsLog(v) /\ Stops(v) = {}
  BY ScanReadsUpToStop DEF IsFile
<1>3. m \in 0 .. MaxSequence /\ \A i \in 1 .. Len(v) : v[i].sequence < m
  BY <1>1, <1>2, NumberAfterLog
<1>4. n = IF m < least THEN least ELSE m
  BY DEF AtLeast
<1>5. IsFile(Repaired(f)) /\ Repaired(f).pieces = v
  BY RepairedFile
<1> HIDE DEF m, v
<1>6. \A i \in 1 .. Len(v) : v[i].sequence \in Nat
  BY <1>2, LogTyped
<1>7. n \in 0 .. MaxSequence /\ least <= n /\ m <= n
  BY <1>1, <1>3, <1>4
<1>8. \A i \in 1 .. Len(v) : v[i].sequence < n
  BY <1>1, <1>3, <1>6, <1>7
<1> QED
  BY <1>2, <1>5, <1>7, <1>8 DEF Ordered

\* The number after what was read is above every record that is held.
LEMMA NumberAfterScan ==
  ASSUME NEW f, IsFile(f), NEW S, S \subseteq Nat, NEW c \in Int, Held(f, S, c),
         NEW d \in 0 .. MaxSequence, NEW t \in S
  PROVE  \/ t < SequenceAfter(ValidPrefix(f.pieces), d)
         \/ t <= c /\ SequenceAfter(ValidPrefix(f.pieces), d) = d
<1> DEFINE p == f.pieces
           v == ValidPrefix(p)
           m == SequenceAfter(v, d)
<1>1. /\ IsLog(p) /\ IsLog(v) /\ Stops(v) = {}
      /\ Len(v) \in Nat /\ Len(p) \in Nat /\ Len(v) <= Len(p)
      /\ \A i \in 1 .. Len(v) : v[i] = p[i]
  BY ScanReadsUpToStop, LogTyped DEF IsFile
<1>2. /\ m \in 0 .. MaxSequence /\ \A i \in 1 .. Len(v) : v[i].sequence < m
      /\ Len(v) = 0 => m = d
  BY <1>1, NumberAfterLog
<1>3. \/ \E i \in 1 .. Len(v) : v[i].sequence = t
      \/ t <= c /\ OnlyLater(p, t)
  BY HeldIsRead
<1>4. \A i \in 1 .. Len(v) : v[i].sequence \in Nat
  BY <1>1, LogTyped
<1>5. t \in Nat /\ MaxSequence \in Nat
  BY WalAssumption
<1> HIDE DEF m, v, p
<1>6. CASE \E i \in 1 .. Len(v) : v[i].sequence = t
  BY <1>2, <1>6 DEF m, v, p
<1>7. CASE t <= c /\ OnlyLater(p, t)
  <2>1. CASE Len(v) = 0
    BY <1>2, <1>7, <2>1 DEF m, v, p
  <2>2. CASE Len(v) # 0
    <3>1. 1 \in 1 .. Len(v) /\ 1 \in 1 .. Len(p)
      BY <1>1, <2>2
    <3>2. t < v[1].sequence /\ v[1].sequence < m
      <4>1. ~Torn(v[1])
        BY <1>1, <3>1, StopAt
      <4> QED
        BY <1>1, <1>2, <1>7, <3>1, <4>1 DEF OnlyLater
    <3>3. t < m
      BY <1>2, <1>4, <1>5, <3>1, <3>2
    <3> QED
      BY <3>3 DEF m, v, p
  <2> QED
    BY <2>1, <2>2
<1> QED
  BY <1>3, <1>6, <1>7

\* Where a scan stops after k records, the number it leaves is above every record
\* that is held, or above those that are read in front of fd_.
LEMMA NumberAfterPart ==
  ASSUME NEW p, IsLog(p), NEW k \in 0 .. Len(ValidPrefix(p)), NEW d \in 0 .. MaxSequence
  PROVE  /\ SequenceAfter(SubSeq(p, 1, k), d) \in 0 .. MaxSequence
         /\ \A i \in 1 .. k : p[i].sequence < SequenceAfter(SubSeq(p, 1, k), d)
         /\ k = 0 => SequenceAfter(SubSeq(p, 1, k), d) = d
<1> DEFINE v == ValidPrefix(p)
           q == SubSeq(p, 1, k)
<1>1. /\ IsLog(v) /\ Len(v) <= Len(p) /\ Stops(v) = {}
      /\ \A i \in 1 .. Len(v) : v[i] = p[i]
      /\ Len(p) \in Nat /\ Len(v) \in Nat
  BY ScanReadsUpToStop, LogTyped
<1>2. k \in Nat /\ k <= Len(p) /\ k <= Len(v)
  BY <1>1
<1>3. IsLog(q) /\ Len(q) = k /\ \A i \in 1 .. k : q[i] = p[i]
  BY <1>2, CutLog
<1> HIDE DEF v, q
<1>4. \A i \in 1 .. k : q[i] = v[i]
  BY <1>1, <1>2, <1>3
<1>5. ASSUME NEW i \in Stops(q) PROVE FALSE
  <2>1. i \in 1 .. k
    BY <1>3, StopAt
  <2>2. i \in Stops(q) <=> i \in Stops(v)
    BY <1>1, <1>2, <1>3, <1>4, <2>1, StopsAgree
  <2> QED
    BY <1>1, <1>5, <2>2
<1>6. Stops(q) = {}
  BY <1>5
<1>7. /\ SequenceAfter(q, d) \in 0 .. MaxSequence
      /\ \A i \in 1 .. Len(q) : q[i].sequence < SequenceAfter(q, d)
      /\ Len(q) = 0 => SequenceAfter(q, d) = d
  BY <1>3, <1>6, NumberAfterLog
<1> QED
  BY <1>3, <1>7 DEF q

LEMMA NumberWhereScanStops ==
  ASSUME NEW f, IsFile(f), NEW t \in Nat, NEW c \in Int, Held(f, {t}, c),
         NEW k \in 0 .. Len(ValidPrefix(f.pieces)), NEW d \in 0 .. MaxSequence,
         NEW w, k < Len(ValidPrefix(f.pieces)) => w = k
  PROVE  \/ t < SequenceAfter(SubSeq(f.pieces, 1, k), d)
         \/ SequenceAfter(SubSeq(f.pieces, 1, k), d) = d
         \/ t \notin ReadIn(SubSeq(f.pieces, 1, w))
<1> DEFINE p == f.pieces
           v == ValidPrefix(p)
           m == SequenceAfter(SubSeq(p, 1, k), d)
<1>1. /\ IsLog(p) /\ IsLog(v) /\ Stops(v) = {}
      /\ Len(v) \in Nat /\ Len(p) \in Nat /\ Len(v) <= Len(p)
      /\ \A i \in 1 .. Len(v) : v[i] = p[i]
  BY ScanReadsUpToStop, LogTyped DEF IsFile
<1>2. /\ m \in 0 .. MaxSequence /\ \A i \in 1 .. k : p[i].sequence < m
      /\ k = 0 => m = d
  BY <1>1, NumberAfterPart
<1>3. k \in Nat /\ k <= Len(p)
  BY <1>1
<1> HIDE DEF m
<1>4. CASE k < Len(v)
  <2>1. t \in ReadIn(SubSeq(p, 1, k)) => \E i \in 1 .. k : p[i].sequence = t
    BY <1>1, <1>3, ReadInFront
  <2>2. w = k
    BY <1>4
  <2> QED
    BY <1>2, <2>1, <2>2 DEF m
<1>5. CASE k = Len(v)
  <2>1. \/ \E i \in 1 .. Len(v) : i <= f.synced /\ v[i].sequence = t
        \/ t <= c /\ OnlyLater(p, t)
    BY HeldIsRead
  <2> HIDE DEF p, v
  <2>2. CASE \E i \in 1 .. Len(v) : i <= f.synced /\ v[i].sequence = t
    BY <1>1, <1>2, <1>5, <2>2 DEF m, p
  <2>3. CASE OnlyLater(p, t) /\ k # 0
    <3>1. 1 \in 1 .. k /\ 1 \in 1 .. Len(v) /\ 1 \in 1 .. Len(p)
      BY <1>1, <1>3, <1>5, <2>3
    <3>2. ~Torn(v[1])
      BY <1>1, <3>1, StopAt
    <3>3. t < p[1].sequence
      BY <1>1, <2>3, <3>1, <3>2 DEF OnlyLater
    <3>4. p[1].sequence \in Nat /\ p[1].sequence < m /\ m \in Nat
      BY <1>1, <1>2, <3>1, LogTyped, WalAssumption
    <3>5. t < m
      BY <3>3, <3>4
    <3> QED
      BY <3>5 DEF m, p
  <2> QED
    BY <1>2, <2>1, <2>2, <2>3 DEF m, p
<1> QED
  BY <1>1, <1>4, <1>5

LEMMA OpenFilePreservesWalInv == WalInv /\ OpenFile => WalInv'
<1> SUFFICES ASSUME WalInv, OpenFile PROVE WalInv'
  OBVIOUS
<1> USE DEF inodes, engine, history
<1>1. /\ process = "down" /\ header \in {"written", "complete"} /\ process' = "open"
      /\ file' = Repaired(file)
      /\ nextSequence' = AtLeast(SequenceAfter(ValidPrefix(file.pieces), 0), checkpoint + 1)
      /\ memtable' = {s \in ReadIn(file.pieces) : checkpoint < s}
      /\ exposed' = (exposed /\ ~PathIsDurable)
      /\ UNCHANGED <<header, position, other, link, writer, worker, checkpoint,
                     acknowledged, failed, atRisk, failures, crashes>>
  BY DEF OpenFile
<1>2. /\ IsFile(file) /\ checkpoint \in Int /\ checkpoint + 1 \in 0 .. MaxSequence
      /\ Safe \subseteq Nat /\ Held(file, Safe, checkpoint)
      /\ MaxSequence \in Nat /\ IsLog(file.pieces)
  BY WalFacts DEF WalInv, TypeInv, SafeInv
<1>3. /\ IsFile(file') /\ Ordered(file'.pieces, nextSequence')
      /\ nextSequence' \in 0 .. MaxSequence /\ checkpoint + 1 <= nextSequence'
  BY <1>1, <1>2, ScannedLog
<1>4. writer = "idle" /\ worker = "idle" /\ ~failed /\ position = AtEnd
  BY <1>1 DEF WalInv, ControlInv, PositionInv
<1>5. exposed' \in BOOLEAN /\ (~exposed' => ~exposed \/ link = "current")
  BY <1>1 DEF WalInv, TypeInv, PathIsDurable
<1>6. TypeInv'
  <2>1. memtable' \subseteq 0 .. MaxSequence - 1
    BY <1>1, <1>2, ReadNumbers
  <2> QED
    BY <1>1, <1>3, <1>4, <1>5, <2>1 DEF WalInv, TypeInv
<1>7. HeaderInv' /\ PositionInv' /\ ControlInv'
  BY <1>1, <1>4 DEF WalInv, HeaderInv, PositionInv, ControlInv, HoldsMutex, Safe
<1>8. OrderInv'
  BY <1>1, <1>3, <1>4 DEF OrderInv
<1>9. TailInv'
  <2>1. TailOK(file'.pieces)
    BY <1>3, OrderedIsOK DEF Ordered
  <2> QED
    BY <1>1, <1>5, <2>1 DEF WalInv, TailInv
<1>10. SafeInv'
  <2>1. Held(file', Safe, checkpoint)
    BY <1>1, <1>2, HeldIsRepaired
  <2> QED
    BY <1>1, <2>1 DEF WalInv, SafeInv, Safe
<1>11. NumberInv'
  <2>1. ASSUME NEW t \in Safe PROVE t < nextSequence'
    <3> DEFINE m == SequenceAfter(ValidPrefix(file.pieces), 0)
    <3>1. t < m \/ (t <= checkpoint /\ m = 0)
      <4>1. 0 \in 0 .. MaxSequence
        BY <1>2
      <4> QED
        BY <1>2, <4>1, NumberAfterScan
    <3>2. m \in 0 .. MaxSequence
      <4>1. IsLog(ValidPrefix(file.pieces)) /\ Stops(ValidPrefix(file.pieces)) = {}
        BY <1>2, ScanReadsUpToStop DEF IsFile
      <4>2. 0 \in 0 .. MaxSequence
        BY <1>2
      <4> QED
        BY <4>1, <4>2, NumberAfterLog
    <3>3. m <= nextSequence' /\ t \in Nat
      <4>1. nextSequence' = IF m < checkpoint + 1 THEN checkpoint + 1 ELSE m
        BY <1>1 DEF AtLeast
      <4> HIDE DEF m
      <4> QED
        BY <1>2, <3>2, <4>1
    <3> HIDE DEF m
    <3> QED
      BY <1>2, <1>3, <3>1, <3>2, <3>3
  <2> QED
    BY <1>1, <1>4, <2>1 DEF NumberInv, Safe
<1> QED
  BY <1>6, <1>7, <1>8, <1>9, <1>10, <1>11 DEF WalInv

\* Opening fails: at most the tail that cannot be read has been cut off.
LEMMA FailOpenPreservesWalInv == WalInv /\ FailOpen => WalInv'
<1> SUFFICES ASSUME WalInv, FailOpen PROVE WalInv'
  OBVIOUS
<1> USE DEF inodes, engine, history
<1>1. /\ process = "down" /\ header \in {"written", "complete"}
      /\ process' = "refused" /\ IoError("scan")
      /\ file' = file \/ file' = Shorter(file, ValidPrefix(file.pieces))
      /\ UNCHANGED <<header, position, other, link, nextSequence, writer, worker,
                     engine, history, crashes>>
  BY DEF FailOpen
<1>2. position = AtEnd /\ writer = "idle" /\ worker = "idle" /\ ~failed
  BY <1>1 DEF WalInv, ControlInv, PositionInv
<1>3. /\ IsFile(file) /\ Held(file, Safe, checkpoint)
      /\ ~exposed => TailOK(file.pieces)
  BY DEF WalInv, TypeInv, SafeInv, TailInv
<1>4. /\ IsFile(file') /\ Held(file', Safe, checkpoint)
      /\ ~exposed => TailOK(file'.pieces)
  <2>1. CASE file' = file
    BY <1>3, <2>1
  <2>2. CASE file' = Shorter(file, ValidPrefix(file.pieces))
    <3>1. Stops(ValidPrefix(file.pieces)) = {}
      BY <1>3, ScanReadsUpToStop DEF IsFile
    <3>2. IsFile(file') /\ file'.pieces = ValidPrefix(file.pieces)
      BY <1>3, <2>2, CutFile
    <3>3. Held(file', Safe, checkpoint)
      BY <1>3, <2>2, HeldIsCut
    <3> QED
      BY <3>1, <3>2, <3>3, OrderedIsOK
  <2> QED
    BY <1>1, <2>1, <2>2
<1>5. TypeInv'
  <2>1. failures' \in 0 .. MaxFailures
    BY <1>1, FailureCounted DEF WalInv
  <2> QED
    BY <1>1, <1>2, <1>4, <2>1 DEF WalInv, TypeInv
<1>6. HeaderInv' /\ PositionInv' /\ ControlInv'
  BY <1>1, <1>2 DEF WalInv, HeaderInv, PositionInv, ControlInv, HoldsMutex, Safe
<1>7. OrderInv' /\ TailInv'
  BY <1>1, <1>2, <1>4 DEF WalInv, OrderInv, TailInv
<1>8. SafeInv' /\ NumberInv'
  BY <1>1, <1>2, <1>4 DEF WalInv, SafeInv, NumberInv, Safe
<1> QED
  BY <1>5, <1>6, <1>7, <1>8 DEF WalInv

LEMMA ScanLogPreservesWalInv == WalInv /\ ScanLog => WalInv'
<1> SUFFICES ASSUME WalInv, ScanLog PROVE WalInv'
  OBVIOUS
<1> USE DEF inodes, engine, history
<1>1. /\ worker = "reclaim" /\ writer = "idle" /\ worker' = "rename"
      /\ file' = Repaired(file)
      /\ nextSequence' = AtLeast(SequenceAfter(ValidPrefix(file.pieces), 0), nextSequence)
      /\ failed' = FALSE
      /\ exposed' = (exposed /\ ~PathIsDurable)
      /\ UNCHANGED <<process, header, position, other, link, writer, engine,
                     acknowledged, atRisk, failures, crashes>>
  BY DEF ScanLog
<1>2. /\ IsFile(file) /\ nextSequence \in 0 .. MaxSequence
      /\ Safe \subseteq Nat /\ Held(file, Safe, checkpoint)
      /\ MaxSequence \in Nat
  BY WalFacts DEF WalInv, TypeInv, SafeInv
<1>3. /\ IsFile(file') /\ Ordered(file'.pieces, nextSequence')
      /\ nextSequence' \in 0 .. MaxSequence /\ nextSequence <= nextSequence'
  BY <1>1, <1>2, ScannedLog
<1>4. process = "open" /\ header \in {"written", "complete"} /\ position = AtEnd
  BY <1>1 DEF WalInv, ControlInv, HeaderInv, PositionInv
<1>5. exposed' \in BOOLEAN /\ (~exposed' => ~exposed \/ link = "current")
  BY <1>1 DEF WalInv, TypeInv, PathIsDurable
<1>6. TypeInv'
  BY <1>1, <1>3, <1>4, <1>5 DEF WalInv, TypeInv
<1>7. HeaderInv' /\ PositionInv' /\ ControlInv'
  BY <1>1, <1>4 DEF WalInv, HeaderInv, PositionInv, ControlInv, HoldsMutex, Safe
<1>8. OrderInv'
  BY <1>1, <1>3 DEF OrderInv
<1>9. TailInv'
  <2>1. TailOK(file'.pieces)
    BY <1>3, OrderedIsOK DEF Ordered
  <2> QED
    BY <1>1, <1>5, <2>1 DEF WalInv, TailInv
<1>10. SafeInv'
  <2>1. Held(file', Safe, checkpoint)
    BY <1>1, <1>2, HeldIsRepaired
  <2> QED
    BY <1>1, <2>1 DEF WalInv, SafeInv, Safe
<1>11. NumberInv'
  <2>1. \A t \in Safe : t \in Nat /\ t < nextSequence
    BY <1>2, <1>4 DEF WalInv, NumberInv
  <2>2. \A t \in Safe : t < nextSequence'
    BY <1>2, <1>3, <2>1
  <2> QED
    BY <1>1, <1>4, <2>2 DEF NumberInv, Safe
<1> QED
  BY <1>6, <1>7, <1>8, <1>9, <1>10, <1>11 DEF WalInv

\* A scan that throws leaves the allocator above all that is read in front of fd_.
LEMMA LeaveScanPreservesWalInv ==
  ASSUME WalInv, worker = "reclaim", writer = "idle",
         NEW k \in 0 .. Len(ValidPrefix(file.pieces)), NEW p \in Positions,
         k < Len(ValidPrefix(file.pieces)) => p.whole = k,
         LeaveScan(k, p), failures' \in 0 .. MaxFailures
  PROVE  WalInv'
<1> USE DEF inodes, engine, history
<1>1. /\ failed' = TRUE /\ worker' = "failed" /\ position' = p
      /\ nextSequence' = SequenceAfter(SubSeq(file.pieces, 1, k), nextSequence)
      /\ UNCHANGED <<process, header, file, other, link, writer, engine,
                     acknowledged, exposed, atRisk, crashes>>
  BY DEF LeaveScan
<1>2. /\ IsFile(file) /\ nextSequence \in 0 .. MaxSequence /\ checkpoint \in Int
      /\ Safe \subseteq Nat /\ Held(file, Safe, checkpoint)
      /\ MaxSequence \in Nat /\ IsLog(file.pieces) /\ Len(file.pieces) \in Nat
  BY WalFacts DEF WalInv, TypeInv, SafeInv
<1>3. process = "open" /\ position = AtEnd
  BY DEF WalInv, ControlInv, PositionInv
<1>4. /\ p \in [whole : 0 .. Len(file.pieces), part : Nat]
      /\ p.whole < Len(file.pieces) => p.part < file.pieces[p.whole + 1].written
  <2>1. CASE p = [whole |-> Len(file.pieces), part |-> 0]
    BY <1>2, <2>1
  <2>2. CASE \E i \in DOMAIN file.pieces :
                p \in [whole : {i - 1}, part : 0 .. file.pieces[i].written - 1]
    <3>1. PICK i \in 1 .. Len(file.pieces) :
                p \in [whole : {i - 1}, part : 0 .. file.pieces[i].written - 1]
      BY <1>2, <2>2, LogTyped
    <3>2. file.pieces[i].written \in Nat /\ p.whole = i - 1 /\ p.whole + 1 = i
      BY <1>2, <3>1, LogTyped
    <3>3. p.part \in Nat /\ p.part < file.pieces[i].written /\ i - 1 \in 0 .. Len(file.pieces)
      BY <1>2, <3>1, <3>2
    <3>4. p = [whole |-> p.whole, part |-> p.part]
      BY <3>1
    <3> QED
      BY <3>2, <3>3, <3>4
  <2> QED
    BY <2>1, <2>2 DEF Positions
<1>5. nextSequence' \in 0 .. MaxSequence
  BY <1>1, <1>2, NumberAfterPart
<1>6. TypeInv'
  BY <1>1, <1>4, <1>5 DEF WalInv, TypeInv
<1>7. HeaderInv' /\ PositionInv' /\ ControlInv'
  BY <1>1, <1>3, <1>4 DEF WalInv, HeaderInv, PositionInv, ControlInv, HoldsMutex, Safe
<1>8. OrderInv' /\ TailInv' /\ SafeInv'
  BY <1>1 DEF WalInv, OrderInv, TailInv, SafeInv, Safe
<1>9. NumberInv'
  <2>1. ASSUME NEW t \in Safe
        PROVE  t < nextSequence' \/ t \notin ReadIn(SubSeq(file.pieces, 1, p.whole))
    <3>1. Held(file, {t}, checkpoint) /\ t \in Nat
      BY <1>2 DEF Held
    <3>2. \/ t < nextSequence' \/ nextSequence' = nextSequence
          \/ t \notin ReadIn(SubSeq(file.pieces, 1, p.whole))
      BY <1>1, <1>2, <3>1, NumberWhereScanStops
    <3>3. t < nextSequence
      BY <1>3 DEF WalInv, NumberInv
    <3> QED
      BY <3>2, <3>3
  <2>2. position' # AtEnd
    <3>1. p.part \in Nat /\ AtEnd.part = -1
      BY <1>4 DEF AtEnd
    <3> QED
      BY <1>1, <3>1
  <2>3. InFront' = ReadIn(SubSeq(file.pieces, 1, p.whole)) /\ Safe' = Safe
    BY <1>1 DEF InFront, Safe
  <2> QED
    BY <1>1, <2>1, <2>2, <2>3 DEF NumberInv
<1> QED
  BY <1>6, <1>7, <1>8, <1>9 DEF WalInv

LEMMA FailScanPreservesWalInv == WalInv /\ (FailScan \/ FindCorruption) => WalInv'
<1> SUFFICES ASSUME WalInv, FailScan \/ FindCorruption PROVE WalInv'
  OBVIOUS
<1>1. CASE FailScan
  <2>1. PICK k \in 0 .. Len(ValidPrefix(file.pieces)), p \in Positions :
            /\ k < Len(ValidPrefix(file.pieces)) => p.whole = k
            /\ LeaveScan(k, p)
    BY <1>1 DEF FailScan
  <2>2. failures' \in 0 .. MaxFailures
    BY <1>1, FailureCounted DEF FailScan, WalInv
  <2> QED
    BY <1>1, <2>1, <2>2, LeaveScanPreservesWalInv DEF FailScan
<1>2. CASE FindCorruption
  <2> DEFINE k == Len(ValidPrefix(file.pieces))
  <2>1. PICK p \in Positions : LeaveScan(k, p)
    BY <1>2 DEF FindCorruption
  <2>2. k \in 0 .. Len(ValidPrefix(file.pieces)) /\ ~(k < k)
    <3>1. IsLog(ValidPrefix(file.pieces))
      BY WalFacts, ScanReadsUpToStop DEF WalInv
    <3>2. k \in Nat
      BY <3>1, LogTyped
    <3> QED
      BY <3>2
  <2>3. failures' \in 0 .. MaxFailures
    BY <1>2 DEF FindCorruption, WalInv, TypeInv
  <2>4. worker = "reclaim" /\ writer = "idle"
    BY <1>2 DEF FindCorruption
  <2> QED
    BY <2>1, <2>2, <2>3, <2>4, LeaveScanPreservesWalInv
<1> QED
  BY <1>1, <1>2

LEMMA FailRepairPreservesWalInv == WalInv /\ FailRepair => WalInv'
<1> SUFFICES ASSUME WalInv, FailRepair PROVE WalInv'
  OBVIOUS
<1> USE DEF inodes, engine, history
<1> DEFINE v == ValidPrefix(file.pieces)
<1>1. /\ worker = "reclaim" /\ writer = "idle" /\ worker' = "failed" /\ failed' = TRUE
      /\ file' = Shorter(file, v) \/ file' = Repaired(file)
      /\ nextSequence' = SequenceAfter(v, nextSequence)
      /\ \E units \in 1 .. HeaderUnits : position' = [whole |-> Len(v), part |-> units]
      /\ UNCHANGED <<process, header, other, link, writer, engine, acknowledged,
                     exposed, atRisk, crashes>>
  BY DEF FailRepair, Fails
<1>2. failures' \in 0 .. MaxFailures
  BY FailureCounted DEF FailRepair, Fails, WalInv
<1>3. /\ IsFile(file) /\ nextSequence \in 0 .. MaxSequence /\ checkpoint \in Int
      /\ Safe \subseteq Nat /\ Held(file, Safe, checkpoint) /\ MaxSequence \in Nat
  BY WalFacts DEF WalInv, TypeInv, SafeInv
<1>4. process = "open" /\ position = AtEnd
  BY <1>1 DEF WalInv, ControlInv, PositionInv
<1>5. IsLog(v) /\ Stops(v) = {} /\ Len(v) \in Nat
  BY <1>3, ScanReadsUpToStop, LogTyped DEF IsFile
<1>6. IsFile(file') /\ file'.pieces = v /\ Held(file', Safe, checkpoint)
  BY <1>1, <1>3, CutFile, HeldIsCut, RepairedFile, HeldIsRepaired
<1>7. nextSequence' \in 0 .. MaxSequence
  BY <1>1, <1>3, <1>5, NumberAfterLog
<1>8. ASSUME NEW t \in Safe PROVE t < nextSequence'
  <2>1. t < nextSequence' \/ (t <= checkpoint /\ nextSequence' = nextSequence)
    BY <1>1, <1>3, NumberAfterScan
  <2>2. t < nextSequence
    BY <1>4 DEF WalInv, NumberInv
  <2> QED
    BY <2>1, <2>2
<1> HIDE DEF v
<1>9. position' \in [whole : 0 .. Len(file'.pieces), part : Nat] /\ position'.whole = Len(v)
  <2>1. PICK units \in 1 .. HeaderUnits : position' = [whole |-> Len(v), part |-> units]
    BY <1>1
  <2>2. units \in Nat /\ Len(v) \in 0 .. Len(v)
    BY <1>5 DEF HeaderUnits
  <2> QED
    BY <1>6, <2>1, <2>2
<1>10. TypeInv'
  BY <1>1, <1>2, <1>6, <1>7, <1>9 DEF WalInv, TypeInv
<1>11. HeaderInv' /\ PositionInv' /\ ControlInv'
  <2>1. ~(Len(v) < Len(v))
    BY <1>5
  <2>2. header \in {"written", "complete"}
    BY <1>4 DEF WalInv, HeaderInv
  <2> QED
    BY <1>1, <1>4, <1>6, <1>9, <2>1, <2>2
    DEF WalInv, HeaderInv, PositionInv, ControlInv, HoldsMutex, Safe
<1>12. OrderInv' /\ TailInv'
  BY <1>1, <1>5, <1>6, OrderedIsOK DEF WalInv, OrderInv, TailInv
<1>13. SafeInv' /\ NumberInv'
  BY <1>1, <1>6, <1>8 DEF WalInv, SafeInv, NumberInv, Safe
<1> QED
  BY <1>10, <1>11, <1>12, <1>13 DEF WalInv

-----------------------------------------------------------------------------
(* Reclaiming *)

LEMMA RenameLogPreservesWalInv == WalInv /\ RenameLog => WalInv'
<1> SUFFICES ASSUME WalInv, RenameLog PROVE WalInv'
  OBVIOUS
<1> USE DEF inodes, engine, history
<1>1. /\ worker = "rename" /\ worker' = "reopen" /\ link' = "stale"
      /\ other' = Synced(Beyond(file.pieces))
      /\ UNCHANGED <<process, header, file, position, nextSequence, writer, engine,
                     history, failures, crashes>>
  BY DEF RenameLog
<1>2. /\ process = "open" /\ header \in {"written", "complete"}
      /\ writer = "idle" /\ ~failed /\ position = AtEnd
  BY <1>1 DEF WalInv, ControlInv, HeaderInv, PositionInv, HoldsMutex
<1>3. /\ IsFile(file) /\ IsLog(file.pieces) /\ checkpoint \in Int
      /\ nextSequence \in Nat /\ Safe \subseteq Nat
      /\ Ordered(file.pieces, nextSequence)
      /\ Held(file, Safe, checkpoint)
  BY <1>2, WalFacts DEF WalInv, TypeInv, OrderInv, SafeInv
<1>4. /\ IsFile(other')
      /\ Ordered(other'.pieces, nextSequence)
      /\ Held(other', Safe, checkpoint)
  <2>1. IsLog(Beyond(file.pieces)) /\ Ordered(Beyond(file.pieces), nextSequence)
    BY <1>3, ReclaimedLog
  <2>2. Held(Synced(Beyond(file.pieces)), Safe, checkpoint)
    BY <1>3, HeldIsReclaimed
  <2> QED
    BY <1>1, <2>1, <2>2, SyncedTyped
<1>5. TypeInv'
  BY <1>1, <1>4 DEF WalInv, TypeInv
<1>6. HeaderInv' /\ PositionInv' /\ ControlInv'
  BY <1>1, <1>2 DEF WalInv, HeaderInv, PositionInv, ControlInv, HoldsMutex, Safe
<1>7. OrderInv'
  BY <1>1, <1>4 DEF WalInv, OrderInv
<1>8. TailInv'
  <2>1. TailOK(file.pieces) /\ TailOK(other'.pieces)
    BY <1>3, <1>4, OrderedIsOK DEF Ordered
  <2> QED
    BY <1>1, <2>1 DEF TailInv
<1>9. SafeInv' /\ NumberInv'
  BY <1>1, <1>2, <1>4 DEF WalInv, SafeInv, NumberInv, Safe
<1> QED
  BY <1>5, <1>6, <1>7, <1>8, <1>9 DEF WalInv

LEMMA ReopenLogPreservesWalInv == WalInv /\ ReopenLog => WalInv'
<1> SUFFICES ASSUME WalInv, ReopenLog PROVE WalInv'
  OBVIOUS
<1> USE DEF inodes, engine, history
<1>1. /\ worker = "reopen" /\ worker' = "syncDirectory" /\ link' = "unsynced"
      /\ file' = other /\ other' = file
      /\ UNCHANGED <<process, header, position, nextSequence, writer, engine, history,
                     failures, crashes>>
  BY DEF ReopenLog
<1>2. /\ process = "open" /\ header \in {"written", "complete"}
      /\ writer = "idle" /\ ~failed /\ position = AtEnd
      /\ link # "current"
  BY <1>1 DEF WalInv, ControlInv, HeaderInv, PositionInv, HoldsMutex
<1>3. TypeInv'
  BY <1>1, <1>2 DEF WalInv, TypeInv
<1>4. HeaderInv' /\ PositionInv' /\ ControlInv'
  BY <1>1, <1>2 DEF WalInv, HeaderInv, PositionInv, ControlInv, HoldsMutex, Safe
<1>5. OrderInv'
  BY <1>1, <1>2 DEF WalInv, OrderInv
<1>6. TailInv' /\ SafeInv' /\ NumberInv'
  BY <1>1, <1>2 DEF WalInv, TailInv, SafeInv, NumberInv, Safe
<1> QED
  BY <1>3, <1>4, <1>5, <1>6 DEF WalInv

LEMMA SyncDirectoryPreservesWalInv == WalInv /\ SyncDirectory => WalInv'
<1> SUFFICES ASSUME WalInv, SyncDirectory PROVE WalInv'
  OBVIOUS
<1> USE DEF inodes, engine, history
<1>1. /\ worker = "syncDirectory" /\ worker' = "idle" /\ link' = "current"
      /\ other' = EmptyFile /\ header' = "complete"
      /\ UNCHANGED <<process, file, position, nextSequence, writer, engine,
                     history, failures, crashes>>
  BY DEF SyncDirectory
<1>2. process = "open" /\ writer = "idle" /\ ~failed /\ position = AtEnd
  BY <1>1 DEF WalInv, ControlInv, PositionInv, HoldsMutex
<1>3. TypeInv'
  BY <1>1, EmptyFileTyped DEF WalInv, TypeInv
<1>4. HeaderInv' /\ PositionInv' /\ ControlInv' /\ OrderInv'
  BY <1>1, <1>2 DEF WalInv, HeaderInv, PositionInv, ControlInv, OrderInv, HoldsMutex
<1>5. TailInv' /\ SafeInv' /\ NumberInv'
  BY <1>1, <1>2 DEF WalInv, TailInv, SafeInv, NumberInv, Safe
<1> QED
  BY <1>3, <1>4, <1>5 DEF WalInv

-----------------------------------------------------------------------------
(* Stopping *)

\* After a stop it is enough that the files can still be scanned, hold what is
\* safe, and are empty before there is a header.
LEMMA StopPreservesWalInv ==
  ASSUME WalInv, Stop, crashes' \in 0 .. MaxCrashes,
         header' \in {"absent", "partial", "written", "complete"},
         link' \in {"current", "unsynced", "stale"},
         IsFile(file'), IsFile(other'),
         Held(file', Safe, checkpoint),
         link' # "current" => Held(other', Safe, checkpoint),
         ~exposed => TailOK(file'.pieces),
         ~exposed /\ link' # "current" => TailOK(other'.pieces),
         header' # "complete" => Safe = {},
         header' \in {"absent", "partial"} => file' = EmptyFile /\ link' = "current"
  PROVE  WalInv'
<1>1. /\ process' = "down" /\ position' = AtEnd /\ nextSequence' = 0
      /\ writer' = "idle" /\ worker' = "idle" /\ memtable' = {} /\ failed' = FALSE
      /\ UNCHANGED <<checkpoint, acknowledged, exposed, atRisk, failures>>
  BY DEF Stop
<1>2. 0 \in 0 .. MaxSequence
  BY WalAssumption
<1>3. TypeInv'
  BY <1>1, <1>2 DEF WalInv, TypeInv
<1>4. HeaderInv' /\ PositionInv' /\ ControlInv' /\ OrderInv' /\ NumberInv'
  BY <1>1 DEF HeaderInv, PositionInv, ControlInv, OrderInv, NumberInv, HoldsMutex, Safe
<1>5. TailInv' /\ SafeInv'
  BY <1>1 DEF TailInv, SafeInv, Safe
<1> QED
  BY <1>3, <1>4, <1>5 DEF WalInv

\* The next process opens what the path names: this file, or the one that was
\* to replace it.
LEMMA FollowPathKeeps ==
  ASSUME WalInv, NEW left, IsFile(left), FollowPath(left),
         Held(left, Safe, checkpoint), ~exposed => TailOK(left.pieces),
         header \in {"absent", "partial"} => left = EmptyFile
  PROVE  /\ link' \in {"current", "unsynced", "stale"}
         /\ IsFile(file') /\ IsFile(other')
         /\ Held(file', Safe, checkpoint)
         /\ link' # "current" => Held(other', Safe, checkpoint)
         /\ ~exposed => TailOK(file'.pieces)
         /\ ~exposed /\ link' # "current" => TailOK(other'.pieces)
         /\ header \in {"absent", "partial"} => file' = EmptyFile /\ link' = "current"
<1>1. CASE link = "stale"
  BY <1>1 DEF FollowPath, WalInv, TypeInv, HeaderInv, TailInv, SafeInv
<1>2. CASE link # "stale"
  BY <1>2 DEF FollowPath, WalInv, TypeInv, HeaderInv, TailInv, SafeInv
<1> QED
  BY <1>1, <1>2

\* What remains of a file without pieces.
LEMMA NothingRemains ==
  ASSUME NEW q, NEW n, Remains(q, <<>>, n)
  PROVE  q = <<>>
<1>1. q \in Seq(Pieces) /\ Len(q) \in Nat /\ Len(q) <= 0
  BY EmptyLog, LogTyped DEF Remains, IsLog
<1> QED
  BY <1>1, EmptySeq

LEMMA ClosePreservesWalInv == WalInv /\ Close => WalInv'
<1> SUFFICES ASSUME WalInv, Close PROVE WalInv'
  OBVIOUS
<1>1. /\ process = "open" /\ FollowPath(file) /\ Stop
      /\ header' = header /\ crashes' = crashes
  BY DEF Close
<1>2. /\ IsFile(file) /\ Held(file, Safe, checkpoint)
      /\ ~exposed => TailOK(file.pieces)
      /\ header \in {"written", "complete"}
      /\ header # "complete" => Safe = {}
  BY <1>1 DEF WalInv, TypeInv, SafeInv, TailInv, HeaderInv
<1>3. /\ link' \in {"current", "unsynced", "stale"}
      /\ IsFile(file') /\ IsFile(other')
      /\ Held(file', Safe, checkpoint)
      /\ link' # "current" => Held(other', Safe, checkpoint)
      /\ ~exposed => TailOK(file'.pieces)
      /\ ~exposed /\ link' # "current" => TailOK(other'.pieces)
  BY <1>1, <1>2, FollowPathKeeps
<1>4. crashes' \in 0 .. MaxCrashes /\ header' \in {"written", "complete"}
  BY <1>1, <1>2 DEF WalInv, TypeInv
<1> QED
  BY <1>1, <1>2, <1>3, <1>4, StopPreservesWalInv

\* What a kill leaves of the file that fd_ refers to.
LEMMA KilledFile ==
  ASSUME WalInv, NEW pieces \in AfterKill(file)
  PROVE  /\ IsFile(Shorter(file, pieces))
         /\ Shorter(file, pieces).pieces = pieces
         /\ Shorter(file, pieces).synced = file.synced
         /\ Held(Shorter(file, pieces), Safe, checkpoint)
         /\ ~exposed => TailOK(pieces) /\ Remains(pieces, file.pieces, file.synced)
         /\ file = EmptyFile => Shorter(file, pieces) = EmptyFile
<1> DEFINE left == Shorter(file, pieces)
<1>1. /\ IsFile(file) /\ Held(file, Safe, checkpoint)
      /\ ~exposed => TailOK(file.pieces)
      /\ Len(file.pieces) \in Nat /\ file.synced \in 0 .. Len(file.pieces)
      /\ IsLog(file.pieces)
  BY WalFacts DEF WalInv, TypeInv, SafeInv, TailInv, IsFile
<1>2. writer = "fsync" =>
          /\ file.synced < InFlight /\ InFlight \in 1 .. Len(file.pieces)
          /\ position # AtEnd => exposed
  BY DEF WalInv, ControlInv, PositionInv
<1>3. CASE Remains(pieces, file.pieces, file.synced)
  <2>1. IsFile(left) /\ left.pieces = pieces /\ left.synced = file.synced
    BY <1>1, <1>3, ShorterFile
  <2> HIDE DEF left
  <2>2. Remains(left.pieces, file.pieces, file.synced) /\ file.synced <= left.synced
    BY <1>1, <1>3, <2>1
  <2>3. Held(left, Safe, checkpoint)
    BY <1>1, <2>1, <2>2, HeldRemains
  <2>4. ~exposed => TailOK(pieces)
    BY <1>1, <1>3, TailRemains
  <2>5. ASSUME file = EmptyFile PROVE left = EmptyFile
    <3>1. pieces = <<>>
      BY <1>3, <2>5, EmptyFileTyped, NothingRemains
    <3>2. left.pieces = <<>> /\ left.synced = 0
      BY <2>1, <2>5, <3>1, EmptyFileTyped
    <3> QED
      BY <2>1, <3>2 DEF IsFile, EmptyFile
  <2> QED
    BY <1>3, <2>1, <2>3, <2>4, <2>5 DEF left
<1>4. CASE /\ writer = "fsync" /\ position # AtEnd
           /\ pieces \in HalfOverwritten(file.pieces, InFlight)
  <2>1. /\ file.synced < InFlight /\ InFlight \in 1 .. Len(file.pieces)
        /\ exposed
    BY <1>2, <1>4
  <2>2. /\ IsLog(pieces) /\ InFlight <= Len(pieces)
        /\ \A j \in 1 .. InFlight - 1 : pieces[j] = file.pieces[j]
        /\ \A j \in 1 .. Len(pieces) :
              Torn(pieces[j]) \/ \E k \in 1 .. Len(file.pieces) : pieces[j] = file.pieces[k]
    BY <1>1, <1>4, <2>1, HalfOverwrittenLog
  <2>3. Len(pieces) \in Nat /\ InFlight \in Nat
    BY <1>1, <2>1, <2>2, LogTyped
  <2>4. AtMost(file.synced, Len(pieces)) = file.synced /\ file.synced \in 0 .. Len(pieces)
    BY <1>1, <2>1, <2>2, <2>3 DEF AtMost
  <2>5. left = [pieces |-> pieces, synced |-> file.synced]
    BY <2>4 DEF Shorter
  <2> HIDE DEF left
  <2>6. /\ left.pieces = pieces /\ left.synced = file.synced
        /\ left = [pieces |-> left.pieces, synced |-> left.synced]
    BY <2>5
  <2>7. IsFile(left)
    BY <2>2, <2>4, <2>6 DEF IsFile
  <2>8. \A j \in 1 .. file.synced : left.pieces[j] = file.pieces[j]
    <3>1. \A j \in 1 .. file.synced : j \in 1 .. InFlight - 1
      BY <1>1, <2>1, <2>3
    <3> QED
      BY <2>2, <2>6, <3>1
  <2>9. Held(left, Safe, checkpoint)
    <3>1. file.synced <= left.synced
      BY <1>1, <2>6
    <3>2. \A j \in 1 .. Len(left.pieces) :
              \/ Torn(left.pieces[j])
              \/ \E k \in 1 .. Len(file.pieces) : left.pieces[j] = file.pieces[k]
      BY <2>2, <2>6
    <3> QED
      BY <1>1, <2>7, <2>8, <3>1, <3>2, HeldKept
  <2>10. file # EmptyFile
    BY <2>1, EmptyFileTyped, EmptyLog
  <2> QED
    BY <2>1, <2>6, <2>7, <2>9, <2>10 DEF left
<1> QED
  BY <1>1, <1>2, <1>3, <1>4, KillRemains

LEMMA KillPreservesWalInv == WalInv /\ Kill => WalInv'
<1> SUFFICES ASSUME WalInv, Kill PROVE WalInv'
  OBVIOUS
<1>1. PICK pieces \in AfterKill(file) : FollowPath(Shorter(file, pieces))
  BY DEF Kill
<1>2. /\ Stop /\ crashes < MaxCrashes /\ crashes' = crashes + 1
      /\ header' = header \/ (process = "creating" /\ header' = "written")
  BY DEF Kill
<1> DEFINE left == Shorter(file, pieces)
<1>3. /\ IsFile(left) /\ Held(left, Safe, checkpoint)
      /\ ~exposed => TailOK(left.pieces)
      /\ file = EmptyFile => left = EmptyFile
  BY KilledFile
<1> HIDE DEF left
<1>4. header \in {"absent", "partial"} => left = EmptyFile
  BY <1>3 DEF WalInv, HeaderInv
<1>5. FollowPath(left)
  BY <1>1 DEF left
<1>6. /\ link' \in {"current", "unsynced", "stale"}
      /\ IsFile(file') /\ IsFile(other')
      /\ Held(file', Safe, checkpoint)
      /\ link' # "current" => Held(other', Safe, checkpoint)
      /\ ~exposed => TailOK(file'.pieces)
      /\ ~exposed /\ link' # "current" => TailOK(other'.pieces)
      /\ header \in {"absent", "partial"} => file' = EmptyFile /\ link' = "current"
  BY <1>3, <1>4, <1>5, FollowPathKeeps
<1>7. crashes' \in 0 .. MaxCrashes
  BY <1>2, WalFacts DEF WalInv, TypeInv
<1>8. /\ header' \in {"absent", "partial", "written", "complete"}
      /\ header' # "complete" => Safe = {}
      /\ header' \in {"absent", "partial"} => file' = EmptyFile /\ link' = "current"
  BY <1>2, <1>6 DEF WalInv, TypeInv, HeaderInv
<1> QED
  BY <1>2, <1>6, <1>7, <1>8, StopPreservesWalInv

\* What a power loss leaves of the log, if it leaves it.
LEMMA FileLeft ==
  ASSUME WalInv, NEW pieces \in LeftByPowerLoss
  PROVE  /\ IsFile(Synced(pieces)) /\ Synced(pieces).pieces = pieces
         /\ Held(Synced(pieces), Safe, checkpoint)
         /\ ~exposed => TailOK(pieces)
<1> DEFINE left == Synced(pieces)
<1>1. CASE \E f \in Candidates : pieces \in AfterPowerLoss(f)
  <2>1. PICK f \in Candidates : pieces \in AfterPowerLoss(f)
    BY <1>1
  <2>2. /\ IsFile(f) /\ Held(f, Safe, checkpoint)
        /\ ~exposed => TailOK(f.pieces)
    BY DEF Candidates, WalInv, TypeInv, SafeInv, TailInv
  <2>3. Remains(pieces, f.pieces, f.synced)
    BY <2>1, <2>2, PowerLossRemains
  <2>4. /\ IsFile(left) /\ left.pieces = pieces /\ left.synced = Len(pieces)
        /\ f.synced <= left.synced /\ f.synced \in Nat /\ IsLog(f.pieces)
    <3>1. IsLog(pieces) /\ f.synced <= Len(pieces)
      BY <2>3 DEF Remains
    <3>2. f.synced \in 0 .. Len(f.pieces) /\ Len(f.pieces) \in Nat /\ IsLog(f.pieces)
      BY <2>2, LogTyped DEF IsFile
    <3> QED
      BY <3>1, <3>2, SyncedTyped
  <2> HIDE DEF left
  <2>5. Held(left, Safe, checkpoint)
    <3>1. Remains(left.pieces, f.pieces, f.synced)
      BY <2>3, <2>4
    <3> QED
      BY <2>2, <2>4, <3>1, HeldRemains
  <2>6. ~exposed => TailOK(pieces)
    BY <2>2, <2>3, <2>4, TailRemains
  <2> QED
    BY <2>4, <2>5, <2>6 DEF left
<1>2. CASE /\ exposed /\ position # AtEnd
           /\ \E i \in file.synced + 1 .. position.whole :
                 pieces \in HalfOverwritten(file.pieces, i)
  <2>1. PICK i \in file.synced + 1 .. position.whole :
            pieces \in HalfOverwritten(file.pieces, i)
    BY <1>2
  <2>2. /\ IsFile(file) /\ Held(file, Safe, checkpoint) /\ IsLog(file.pieces)
        /\ Len(file.pieces) \in Nat /\ file.synced \in 0 .. Len(file.pieces)
    BY WalFacts DEF WalInv, TypeInv, SafeInv, IsFile
  <2>3. position.whole \in Nat /\ position.whole <= Len(file.pieces)
    BY <1>2, PositionTyped DEF WalInv
  <2>4. i \in 1 .. Len(file.pieces) /\ file.synced < i
    BY <2>2, <2>3
  <2>5. /\ IsLog(pieces) /\ i <= Len(pieces)
        /\ \A j \in 1 .. i - 1 : pieces[j] = file.pieces[j]
        /\ \A j \in 1 .. Len(pieces) :
              Torn(pieces[j]) \/ \E k \in 1 .. Len(file.pieces) : pieces[j] = file.pieces[k]
    BY <2>1, <2>2, <2>4, HalfOverwrittenLog
  <2>6. IsFile(left) /\ left.pieces = pieces /\ left.synced = Len(pieces)
    BY <2>5, SyncedTyped
  <2> HIDE DEF left
  <2>7. Len(pieces) \in Nat
    BY <2>5, LogTyped
  <2>8. Held(left, Safe, checkpoint)
    <3>1. file.synced <= left.synced
      BY <2>2, <2>4, <2>5, <2>6, <2>7
    <3>2. \A j \in 1 .. file.synced : left.pieces[j] = file.pieces[j]
      <4>1. \A j \in 1 .. file.synced : j \in 1 .. i - 1
        BY <2>2, <2>4
      <4> QED
        BY <2>5, <2>6, <4>1
    <3>3. \A j \in 1 .. Len(left.pieces) :
              \/ Torn(left.pieces[j])
              \/ \E k \in 1 .. Len(file.pieces) : left.pieces[j] = file.pieces[k]
      BY <2>5, <2>6
    <3> QED
      BY <2>2, <2>6, <3>1, <3>2, <3>3, HeldKept
  <2> QED
    BY <1>2, <2>6, <2>8 DEF left
<1>3. CASE exposed /\ position # AtEnd
  <2>1. LeftByPowerLoss = (UNION {AfterPowerLoss(f) : f \in Candidates})
                            \cup UNION {HalfOverwritten(file.pieces, i) :
                                           i \in file.synced + 1 .. position.whole}
    BY <1>3, Zenon DEF LeftByPowerLoss
  <2>2. \/ \E f \in Candidates : pieces \in AfterPowerLoss(f)
        \/ \E i \in file.synced + 1 .. position.whole :
              pieces \in HalfOverwritten(file.pieces, i)
    BY <2>1, Zenon
  <2> QED
    BY <1>1, <1>2, <1>3, <2>2
<1>4. CASE ~(exposed /\ position # AtEnd)
  <2>1. pieces \in UNION {AfterPowerLoss(f) : f \in Candidates}
    BY <1>4 DEF LeftByPowerLoss
  <2> QED
    BY <1>1, <2>1
<1> QED
  BY <1>3, <1>4

LEMMA LosePowerPreservesWalInv == WalInv /\ LosePower => WalInv'
<1> SUFFICES ASSUME WalInv, LosePower PROVE WalInv'
  OBVIOUS
<1>1. /\ Stop /\ crashes < MaxCrashes /\ crashes' = crashes + 1
      /\ other' = EmptyFile /\ link' = "current"
      /\ header' \in {"absent", "partial", "written", "complete"}
      /\ header' # "written"
      /\ header' # "complete" => header # "complete"
  BY DEF LosePower, WalInv, TypeInv
<1>2. /\ IsFile(file') /\ Held(file', Safe, checkpoint)
      /\ ~exposed => TailOK(file'.pieces)
      /\ header' # "complete" => file' = EmptyFile /\ Safe = {}
  <2>1. CASE header' = "complete"
    <3>1. PICK pieces \in LeftByPowerLoss : file' = Synced(pieces)
      BY <2>1 DEF LosePower
    <3> QED
      BY <2>1, <3>1, FileLeft
  <2>2. CASE header' # "complete"
    <3>1. file' = EmptyFile /\ Safe = {}
      BY <1>1, <2>2 DEF LosePower, WalInv, HeaderInv
    <3> QED
      BY <3>1, EmptyFileTyped, EmptyFileIsHeld DEF Held
  <2> QED
    BY <2>1, <2>2
<1>3. crashes' \in 0 .. MaxCrashes
  BY <1>1, WalFacts DEF WalInv, TypeInv
<1>4. IsFile(other')
  BY <1>1, EmptyFileTyped
<1>5. link' \in {"current", "unsynced", "stale"} /\ link' = "current"
  BY <1>1
<1> QED
  BY <1>1, <1>2, <1>3, <1>4, <1>5, StopPreservesWalInv

-----------------------------------------------------------------------------
(* Theorems *)

LEMMA NextPreservesWalInv == WalInv /\ [Next]_vars => WalInv'
<1> SUFFICES ASSUME WalInv, [Next]_vars PROVE WalInv'
  OBVIOUS
<1>1. CASE CreateFile \/ CompleteHeader \/ FailCreate \/ RefuseToOpen \/ TryAgain
  BY <1>1, OpeningPreservesWalInv
<1>2. CASE FailSync \/ FailScanEarly \/ FailReclaim \/ RecordError
  BY <1>2, FailuresPreserveWalInv
<1>3. ASSUME NEW size \in RecordSizes, WriteRecord(size) PROVE WalInv'
  BY <1>3, WriteRecordPreservesWalInv
<1>4. ASSUME NEW size \in RecordSizes, NEW written \in 0 .. size - 1,
             FailWrite(size, written)
      PROVE  WalInv'
  BY <1>4, FailWritePreservesWalInv
<1>11. ASSUME NEW size \in RecordSizes,
              \/ OverwriteRecord(size)
              \/ \E written \in 1 .. size - 1 : FailOverwrite(size, written)
       PROVE  WalInv'
  BY <1>11, OverwritingPreservesWalInv
<1>5. ASSUME NEW s \in memtable, AdvanceCheckpoint(s) PROVE WalInv'
  BY <1>5, CheckpointPreservesWalInv
<1>6. CASE OpenFile \/ FailOpen \/ ScanLog
  BY <1>6, OpenFilePreservesWalInv, FailOpenPreservesWalInv, ScanLogPreservesWalInv
<1>12. CASE FailScan \/ FindCorruption \/ FailRepair
  BY <1>12, FailScanPreservesWalInv, FailRepairPreservesWalInv
<1>7. CASE SyncRecord
  BY <1>7, SyncRecordPreservesWalInv
<1>8. CASE RenameLog \/ ReopenLog \/ SyncDirectory
  BY <1>8, RenameLogPreservesWalInv, ReopenLogPreservesWalInv,
     SyncDirectoryPreservesWalInv
<1>9. CASE Kill \/ LosePower \/ Close
  BY <1>9, KillPreservesWalInv, LosePowerPreservesWalInv, ClosePreservesWalInv
<1>10. CASE UNCHANGED vars
  BY <1>10 DEF vars, inodes, engine, history, WalInv, TypeInv, HeaderInv, PositionInv,
               ControlInv, OrderInv, TailInv, SafeInv, NumberInv, Safe, HoldsMutex,
               LastSequence, InFlight, InFront, PathIsDurable
<1> QED
  BY <1>1, <1>2, <1>3, <1>4, <1>5, <1>6, <1>7, <1>8, <1>9, <1>10, <1>11, <1>12 DEF Next

\* Whatever fails and whenever the process stops, every file the path may name
\* holds the records that are safe (Wal::writeRecord(), recover(),
\* reclaimThrough()).
THEOREM WalInvIsInvariant == Spec => []WalInv
BY InitEstablishesWalInv, NextPreservesWalInv, PTL DEF Spec

\* Every variable of the log holds what its C++ counterpart can hold: no piece is
\* longer than its record and no fsync covers more than the file.
THEOREM WalTypes == Spec => []TypeOK
<1>1. WalInv => TypeOK
  <2> SUFFICES ASSUME TypeInv PROVE TypeOK
    BY DEF WalInv
  <2>1. ASSUME NEW f, IsFile(f)
        PROVE  /\ f.pieces \in Seq(Pieces)
               /\ \A i \in DOMAIN f.pieces : f.pieces[i].written \in 1 .. f.pieces[i].size
               /\ f.synced \in 0 .. Len(f.pieces)
    BY <2>1, LogTyped DEF IsFile, IsLog
  <2> QED
    BY <2>1 DEF TypeInv, TypeOK
<1> QED
  BY <1>1, WalInvIsInvariant, PTL

\* A record that is not at risk is read at every later start, or is covered by the
\* checkpoint, through torn tails, kills, power losses, scans that fail anywhere and
\* every stage of a reclamation.  At risk is what was acknowledged behind a failed
\* append or into a log the path may not name, and what a write where a failed scan
\* has left fd_ may have replaced (Wal::recover(), reclaimThrough(), writeRecord()).
THEOREM SafeRecordsAreRead == Spec => []SafeRecordsStayReadable
<1>1. WalInv => SafeRecordsStayReadable
  <2> SUFFICES ASSUME WalInv, NEW s \in acknowledged \ atRisk
               PROVE  s <= checkpoint \/ s \in Readable
    BY DEF SafeRecordsStayReadable
  <2> DEFINE v == ValidPrefix(file.pieces)
  <2>1. IsFile(file) /\ Held(file, Safe, checkpoint) /\ s \in Safe
    BY DEF WalInv, TypeInv, SafeInv, Safe
  <2>2. (\E i \in 1 .. Len(v) : v[i].sequence = s) \/ s <= checkpoint
    BY <2>1, HeldIsRead
  <2>3. DOMAIN v = 1 .. Len(v)
    <3>1. IsLog(v)
      BY <2>1, ScanReadsUpToStop DEF IsFile
    <3> QED
      BY <3>1, LogTyped
  <2> QED
    BY <2>2, <2>3 DEF Readable, ReadIn
<1> QED
  BY <1>1, WalInvIsInvariant, PTL

\* A log that was not written to behind a failure is never refused: its torn
\* tail is an interrupted final write (recovery policy, wal.cpp:400-412).
THEOREM UnexposedLogIsNeverRefused == Spec => []UnexposedLogOpens
<1>1. WalInv => UnexposedLogOpens
  <2> SUFFICES ASSUME WalInv, ~exposed PROVE ~MayRefuse(file.pieces)
    BY DEF UnexposedLogOpens
  <2>1. IsLog(file.pieces) /\ TailOK(file.pieces)
    BY DEF WalInv, TypeInv, IsFile, TailInv
  <2> QED
    BY <2>1, TailCanBeCut
<1> QED
  BY <1>1, WalInvIsInvariant, PTL

\* The number that a call consumes is above those of all writes before it which are
\* not at risk, across restarts, empty logs and scans that end half-way.  Behind such
\* a scan a number is given out again, and what had it is at risk from the moment the
\* record is written (ensureNextSequenceAtLeast(), wal.cpp:756-774).
THEOREM SequencesAlwaysIncrease == Spec => SequencesIncrease
<1> DEFINE Increases == SyncRecord => \A t \in acknowledged \ atRisk : t < nextSequence
<1>1. WalInv => Increases
  <2> SUFFICES ASSUME WalInv, SyncRecord, NEW t \in acknowledged \ atRisk
               PROVE  t < nextSequence
    OBVIOUS
  <2> QED
    BY DEF SyncRecord, WalInv, NumberInv, Safe
<1>2. WalInv /\ [Next]_vars => [Increases]_vars
  BY <1>1
<1> QED
  BY <1>2, WalInvIsInvariant, PTL DEF Spec, SequencesIncrease

-----------------------------------------------------------------------------
(* What a start replays *)

\* The numbers that a start replays.
ReplayOf(pieces, c) == {s \in ReadIn(pieces) : c < s}

\* A repair changes nothing of what is read.
LEMMA ReadRepaired ==
  ASSUME NEW f, IsFile(f)
  PROVE  ReadIn(Repaired(f).pieces) = ReadIn(f.pieces)
<1>1. Repaired(f).pieces = ValidPrefix(f.pieces)
  BY RepairedFile
<1>2. Stops(ValidPrefix(f.pieces)) = {}
  BY ScanReadsUpToStop DEF IsFile
<1>3. ValidPrefix(ValidPrefix(f.pieces)) = ValidPrefix(f.pieces)
  BY <1>2 DEF ValidPrefix
<1> QED
  BY <1>1, <1>3 DEF ReadIn

LEMMA ReadShortened ==
  ASSUME NEW f, IsFile(f)
  PROVE  ReadIn(Shorter(f, ValidPrefix(f.pieces)).pieces) = ReadIn(f.pieces)
<1>1. Shorter(f, ValidPrefix(f.pieces)).pieces = ValidPrefix(f.pieces)
  BY DEF Shorter
<1>2. Stops(ValidPrefix(f.pieces)) = {}
  BY ScanReadsUpToStop DEF IsFile
<1>3. ValidPrefix(ValidPrefix(f.pieces)) = ValidPrefix(f.pieces)
  BY <1>2 DEF ValidPrefix
<1> QED
  BY <1>1, <1>3 DEF ReadIn

\* What is written behind a log in order is read as well, or stops the scan.
LEMMA ReadAppended ==
  ASSUME NEW p, IsLog(p), Stops(p) = {}, NEW q, IsLog(q), Len(q) = Len(p) + 1,
         \A i \in 1 .. Len(p) : q[i] = p[i]
  PROVE  ReadIn(q) = IF Len(q) \in Stops(q) THEN ReadIn(p)
                     ELSE ReadIn(p) \cup {q[Len(q)].sequence}
<1> DEFINE n == Len(p)
<1>1. n \in Nat /\ Len(q) = n + 1
  BY LogTyped
<1>2. ValidPrefix(p) = p
  BY DEF ValidPrefix
<1>3. ReadIn(p) = {p[i].sequence : i \in 1 .. n}
  BY <1>2, ReadNumbers
<1>4. ASSUME NEW i \in 1 .. n PROVE i \notin Stops(q)
  <2>1. i \in Stops(q) <=> i \in Stops(p)
    BY <1>1, <1>4, StopsAgree
  <2> QED
    BY <2>1
<1>5. Len(ValidPrefix(q)) = IF n + 1 \in Stops(q) THEN n ELSE n + 1
  <2> DEFINE m == Len(ValidPrefix(q))
  <2>1. m \in 0 .. n + 1
    BY <1>1, ReadNumbers
  <2>2. n > 0 => n <= m
    <3>1. ASSUME n > 0 PROVE n \in 1 .. Len(q)
      BY <1>1, <3>1
    <3> QED
      BY <1>4, <3>1, ReadLength
  <2>3. n + 1 <= m <=> n + 1 \notin Stops(q)
    <3>1. n + 1 \in 1 .. Len(q)
      BY <1>1
    <3>2. n + 1 <= m <=> \A j \in 1 .. n + 1 : j \notin Stops(q)
      BY <3>1, ReadLength
    <3>3. \A j \in 1 .. n + 1 : j \in 1 .. n \/ j = n + 1
      BY <1>1
    <3>4. n + 1 \in 1 .. n + 1
      BY <1>1
    <3> QED
      BY <1>4, <3>2, <3>3, <3>4
  <2> HIDE DEF m, n
  <2> QED
    BY <1>1, <2>1, <2>2, <2>3 DEF m
<1> HIDE DEF n
<1>6. ReadIn(q) = {q[i].sequence : i \in 1 .. Len(ValidPrefix(q))}
  BY ReadNumbers
<1>7. \A i \in 1 .. n : q[i] = p[i]
  BY DEF n
<1>8. CASE n + 1 \in Stops(q)
  <2>1. ReadIn(q) = {q[i].sequence : i \in 1 .. n}
    BY <1>5, <1>6, <1>8
  <2>2. ReadIn(q) = ReadIn(p)
    BY <1>3, <1>7, <2>1
  <2> QED
    BY <1>1, <1>8, <2>2
<1>9. CASE n + 1 \notin Stops(q)
  <2>1. ReadIn(q) = {q[i].sequence : i \in 1 .. n + 1}
    BY <1>5, <1>6, <1>9
  <2>2. \A i : i \in 1 .. n + 1 <=> i \in 1 .. n \/ i = n + 1
    BY <1>1
  <2>3. ReadIn(q) = {q[i].sequence : i \in 1 .. n} \cup {q[n + 1].sequence}
    BY <2>1, <2>2
  <2>4. ReadIn(q) = ReadIn(p) \cup {q[n + 1].sequence}
    BY <1>3, <1>7, <2>3
  <2> QED
    BY <1>1, <1>9, <2>4
<1> QED
  BY <1>8, <1>9

\* What is left of a file is read as before, as far as it is there.
LEMMA RemainsRead ==
  ASSUME NEW p, NEW q, IsLog(p), NEW n \in Nat, Remains(q, p, n)
  PROVE  /\ Len(ValidPrefix(q)) <= Len(ValidPrefix(p))
         /\ ReadIn(q) = {p[i].sequence : i \in 1 .. Len(ValidPrefix(q))}
<1> DEFINE a == Len(ValidPrefix(q))
           b == Len(ValidPrefix(p))
<1>1. IsLog(q) /\ Len(q) <= Len(p)
  BY DEF Remains
<1>2. /\ a \in 0 .. Len(q) /\ b \in 0 .. Len(p)
      /\ ReadIn(q) = {q[i].sequence : i \in 1 .. a}
  BY <1>1, ReadNumbers
<1>3. Len(q) \in Nat /\ Len(p) \in Nat
  BY <1>1, LogTyped
<1> HIDE DEF a, b
<1>4. \A i \in 1 .. a : i \in 1 .. Len(q) /\ i \in 1 .. Len(p)
  BY <1>1, <1>2, <1>3
<1>5. \A i \in 1 .. a :
         /\ q[i].sequence = p[i].sequence
         /\ q[i].size = p[i].size
         /\ q[i].written <= p[i].written
         /\ i > 1 => q[i - 1].sequence = p[i - 1].sequence
  <2> SUFFICES ASSUME NEW i \in 1 .. a
               PROVE  /\ q[i].sequence = p[i].sequence
                      /\ q[i].size = p[i].size
                      /\ q[i].written <= p[i].written
                      /\ i > 1 => q[i - 1].sequence = p[i - 1].sequence
    OBVIOUS
  <2>1. i \in 1 .. Len(q) /\ (i > 1 => i - 1 \in 1 .. Len(q))
    BY <1>2, <1>3, <1>4
  <2> QED
    BY <2>1 DEF Remains
<1>6. ASSUME NEW j \in 1 .. a, a # 0
      PROVE  j \notin Stops(p)
  <2>1. a \in 1 .. Len(q) /\ a <= a
    BY <1>2, <1>3, <1>6
  <2>2. j \notin Stops(q)
    BY <1>1, <1>6, <2>1, ReadLength DEF a
  <2>3. /\ q[j].written \in Nat /\ q[j].size \in Nat
        /\ p[j].written \in Nat /\ p[j].size \in Nat
    BY <1>1, <1>4, LogTyped
  <2>4. ~Torn(q[j]) /\ ~(j > 1 /\ q[j].sequence <= q[j - 1].sequence)
    BY <1>1, <1>4, <2>2, StopAt
  <2>5. ~Torn(p[j])
    BY <1>5, <2>3, <2>4 DEF Torn
  <2>6. ~(j > 1 /\ p[j].sequence <= p[j - 1].sequence)
    BY <1>5, <2>4
  <2> QED
    BY <2>5, <2>6, StopAt
<1>7. a <= b
  <2>1. CASE a = 0
    BY <1>2, <1>3, <2>1
  <2>2. CASE a # 0
    <3>1. a \in 1 .. Len(p)
      BY <1>1, <1>2, <1>3, <2>2
    <3> QED
      BY <1>6, <2>2, <3>1, ReadLength DEF b
  <2> QED
    BY <2>1, <2>2
<1>8. ReadIn(q) = {p[i].sequence : i \in 1 .. a}
  <2>1. \A i \in 1 .. a : q[i].sequence = p[i].sequence
    BY ONLY <1>5
  <2> QED
    BY ONLY <1>2, <2>1
<1> QED
  BY <1>7, <1>8 DEF a, b

\* A stop takes what it takes from the end.
LEMMA ReplayRemains ==
  ASSUME NEW p, NEW q, IsLog(p), NEW n \in Nat, Remains(q, p, n), NEW c \in Int
  PROVE  /\ ReplayOf(q, c) \subseteq ReplayOf(p, c)
         /\ \A l \in ReplayOf(p, c) \ ReplayOf(q, c), m \in ReplayOf(q, c) : m < l
<1> DEFINE a == Len(ValidPrefix(q))
           b == Len(ValidPrefix(p))
<1>1. /\ a \in Nat /\ b \in Nat
      /\ ReadIn(p) = {p[i].sequence : i \in 1 .. b}
      /\ \A i, j \in 1 .. b : i < j => p[i].sequence < p[j].sequence
  <2>1. IsLog(q)
    BY DEF Remains
  <2>2. a \in 0 .. Len(q) /\ b \in 0 .. Len(p)
    BY <2>1, ReadNumbers
  <2> QED
    BY <2>2, ReadNumbers
<1>2. a <= b /\ ReadIn(q) = {p[i].sequence : i \in 1 .. a}
  BY RemainsRead
<1> HIDE DEF a, b
<1>3. \A i \in 1 .. a : i \in 1 .. b
  BY <1>1, <1>2
<1>4. ReadIn(q) \subseteq ReadIn(p)
  BY <1>1, <1>2, <1>3
<1>5. ASSUME NEW l \in ReadIn(p), l \notin ReadIn(q), NEW m \in ReadIn(q)
      PROVE  m < l
  <2>1. PICK i \in 1 .. b : l = p[i].sequence
    BY <1>1, <1>5
  <2>2. PICK j \in 1 .. a : m = p[j].sequence
    BY <1>2, <1>5
  <2>3. i \notin 1 .. a
    BY <1>2, <1>5, <2>1
  <2>4. j < i
    BY <1>1, <2>1, <2>2, <2>3
  <2> QED
    BY <1>1, <1>3, <2>1, <2>2, <2>4
<1> QED
  BY <1>4, <1>5 DEF ReplayOf

\* A kill during an append takes at most the record that was being written.
LEMMA ReplayInterrupted ==
  ASSUME NEW p, NEW q, IsLog(p), Stops(p) = {}, Len(p) \in 1 .. Len(p),
         Remains(q, p, Len(p) - 1)
  PROVE  \/ ReadIn(q) = ReadIn(p)
         \/ /\ ReadIn(q) = ReadIn(p) \ {p[Len(p)].sequence}
            /\ p[Len(p)].sequence \in ReadIn(p)
            /\ \A m \in ReadIn(p) : m <= p[Len(p)].sequence
<1> DEFINE n == Len(p)
           a == Len(ValidPrefix(q))
<1>1. n \in Nat \ {0}
  BY LogTyped
<1>2. /\ ValidPrefix(p) = p
      /\ ReadIn(p) = {p[i].sequence : i \in 1 .. n}
      /\ \A i, j \in 1 .. n : i < j => p[i].sequence < p[j].sequence
  <2>1. ValidPrefix(p) = p
    BY DEF ValidPrefix
  <2> QED
    BY <2>1, ReadNumbers
<1>3. /\ IsLog(q) /\ n - 1 <= Len(q)
      /\ \A i \in 1 .. Len(q) : i <= n - 1 => q[i] = p[i]
  BY DEF Remains
<1>4. /\ a <= n
      /\ ReadIn(q) = {p[i].sequence : i \in 1 .. a}
  BY <1>1, <1>2, RemainsRead
<1>5. Len(q) \in Nat /\ a \in 0 .. Len(q)
  BY <1>3, LogTyped, ReadNumbers
<1>6. n - 1 <= a
  <2>1. CASE n = 1
    <3> HIDE DEF n, a
    <3> QED
      BY <1>1, <1>5, <2>1
  <2>2. CASE n # 1
    <3> HIDE DEF n, a
    <3>1. n - 1 \in 1 .. Len(q) /\ n - 1 \in Nat /\ n - 1 <= Len(p)
      BY <1>1, <1>3, <1>5, <2>2 DEF n
    <3>2. \A i \in 1 .. n - 1 : q[i] = p[i]
      BY <1>1, <1>3, <1>5, <3>1
    <3>3. \A j \in 1 .. n - 1 : j \notin Stops(q)
      <4>1. \A j \in 1 .. n - 1 : j \in Stops(q) <=> j \in Stops(p)
        <5>1. n - 1 \in Nat /\ n - 1 <= Len(p) /\ n - 1 <= Len(q)
          BY <1>3, <3>1
        <5> QED
          BY <1>3, <3>2, <5>1, StopsAgree
      <4> QED
        BY <4>1
    <3> QED
      BY <1>3, <3>1, <3>3, ReadLength DEF a
  <2> QED
    BY <2>1, <2>2
<1> HIDE DEF n, a
<1>7. a = n \/ a = n - 1
  BY <1>1, <1>4, <1>5, <1>6
<1>8. CASE a = n
  BY <1>2, <1>4, <1>8
<1>9. CASE a = n - 1
  <2>1. /\ n \in 1 .. n
        /\ \A i \in 1 .. n : i \in 1 .. n - 1 \/ i = n
        /\ \A i \in 1 .. n - 1 : i \in 1 .. n /\ i < n
    BY <1>1
  <2>2. \A i \in 1 .. n - 1 : p[i].sequence < p[n].sequence
    BY <1>2, <2>1
  <2>3. \A i \in 1 .. n : p[i].sequence \in Nat
    BY LogTyped DEF n
  <2>4. p[n].sequence \in ReadIn(p)
    BY <1>2, <2>1
  <2>5. \A m \in ReadIn(p) : m <= p[n].sequence
    <3> SUFFICES ASSUME NEW i \in 1 .. n PROVE p[i].sequence <= p[n].sequence
      BY <1>2
    <3>1. CASE i = n
      BY <2>1, <2>3, <3>1
    <3>2. CASE i \in 1 .. n - 1
      BY <2>1, <2>2, <2>3, <3>2
    <3> QED
      BY <2>1, <3>1, <3>2
  <2>6. p[n].sequence \notin ReadIn(q)
    <3> SUFFICES ASSUME NEW i \in 1 .. n - 1, p[i].sequence = p[n].sequence
                 PROVE  FALSE
      BY <1>4, <1>9
    <3> QED
      BY <2>1, <2>2, <2>3
  <2>7. ReadIn(q) = ReadIn(p) \ {p[n].sequence}
    BY <1>2, <1>4, <1>9, <2>1, <2>6
  <2> QED
    BY <2>4, <2>5, <2>7 DEF n
<1> QED
  BY <1>7, <1>8, <1>9

\* A reclamation drops only what the checkpoint covers.
LEMMA ReplayReclaimed ==
  ASSUME NEW p, IsLog(p), NEW n \in Nat, Ordered(p, n), checkpoint \in Int
  PROVE  ReplayOf(Beyond(p), checkpoint) = ReplayOf(p, checkpoint)
<1> DEFINE b == Beyond(p)
           l == Len(p)
<1>1. Stops(p) = {} /\ Stops(b) = {} /\ IsLog(b)
  BY ReclaimedLog DEF Ordered
<1>2. PICK c \in 0 .. l :
          /\ Len(b) = l - c
          /\ \A i \in 1 .. l - c : b[i] = p[c + i]
          /\ \A i \in 1 .. l : i <= c <=> p[i].sequence <= checkpoint
  BY <1>1, BeyondIsSuffix
<1>3. /\ ReadIn(p) = {p[i].sequence : i \in 1 .. l}
      /\ ReadIn(b) = {b[i].sequence : i \in 1 .. Len(b)}
  <2>1. ValidPrefix(p) = p /\ ValidPrefix(b) = b
    BY <1>1 DEF ValidPrefix
  <2> HIDE DEF b
  <2> QED
    BY <1>1, <2>1, ReadNumbers
<1>4. l \in Nat /\ \A i \in 1 .. l : p[i].sequence \in Nat
  BY LogTyped
<1> HIDE DEF b, l
<1>5. \A i \in 1 .. l - c : c + i \in 1 .. l /\ ~(c + i <= c)
  BY <1>4
<1>6. ASSUME NEW s \in ReplayOf(b, checkpoint) PROVE s \in ReplayOf(p, checkpoint)
  <2>1. PICK i \in 1 .. l - c : s = b[i].sequence
    BY <1>2, <1>3, <1>6 DEF ReplayOf
  <2>2. s = p[c + i].sequence
    BY <1>2, <2>1
  <2> QED
    BY <1>3, <1>5, <1>6, <2>2 DEF ReplayOf
<1>7. ASSUME NEW s \in ReplayOf(p, checkpoint) PROVE s \in ReplayOf(b, checkpoint)
  <2>1. PICK i \in 1 .. l : s = p[i].sequence /\ checkpoint < s
    BY <1>3, <1>7 DEF ReplayOf
  <2>2. ~(i <= c)
    BY <1>2, <1>4, <2>1
  <2>3. i - c \in 1 .. l - c /\ c + (i - c) = i
    BY <1>4, <2>2
  <2>4. b[i - c].sequence = s
    BY <1>2, <2>1, <2>3
  <2> QED
    BY <1>2, <1>3, <2>1, <2>3, <2>4 DEF ReplayOf
<1> QED
  BY <1>6, <1>7 DEF b

-----------------------------------------------------------------------------
(* What the Memtables hold *)

\* Beyond the checkpoint and below the next number; in the log as long as nothing
\* is at risk.  A write where a scan has left fd_ ends that.
MemoryInv ==
    /\ process # "open" => memtable = {}
    /\ process = "open" /\ position = AtEnd =>
          /\ checkpoint < nextSequence
          /\ \A s \in memtable :
                /\ checkpoint < s
                /\ s < nextSequence
                /\ s \in atRisk \/ s \in ReadIn(file.pieces)
    /\ worker = "reopen" =>
          \A s \in memtable : s \in atRisk \/ s \in ReadIn(other.pieces)

LEMMA ReadIsBelow ==
  ASSUME NEW p, IsLog(p), NEW n, Ordered(p, n), NEW s \in ReadIn(p)
  PROVE  s < n
<1>1. /\ Len(ValidPrefix(p)) \in 0 .. Len(p) /\ Len(p) \in Nat
      /\ ReadIn(p) = {p[i].sequence : i \in 1 .. Len(ValidPrefix(p))}
  BY ReadNumbers, LogTyped
<1>2. PICK i \in 1 .. Len(ValidPrefix(p)) : s = p[i].sequence
  BY <1>1
<1>3. i \in 1 .. Len(p)
  BY <1>1
<1> QED
  BY <1>2, <1>3 DEF Ordered

\* What was read is still read when something follows.
LEMMA ReadStays ==
  ASSUME NEW p, IsLog(p), NEW q, IsLog(q), Len(p) <= Len(q),
         \A i \in 1 .. Len(p) : q[i] = p[i]
  PROVE  ReadIn(p) \subseteq ReadIn(q)
<1>1. Len(p) \in Nat /\ Len(q) \in Nat
  BY LogTyped
<1> SUFFICES ASSUME NEW s \in ReadIn(p) PROVE s \in ReadIn(q)
  OBVIOUS
<1>2. PICK i \in 1 .. Len(p) : p[i].sequence = s /\ \A j \in 1 .. i : j \notin Stops(p)
  BY ReadAt
<1>3. ASSUME NEW j \in 1 .. i PROVE j \notin Stops(q)
  <2>1. j \in 1 .. Len(p)
    BY <1>1
  <2>2. j \in Stops(q) <=> j \in Stops(p)
    BY <1>1, <2>1, StopsAgree
  <2> QED
    BY <1>2, <2>2
<1>4. i \in 1 .. Len(q) /\ q[i].sequence = s
  BY <1>1, <1>2
<1> QED
  BY <1>3, <1>4, ReadAt

LEMMA MemoryWhenStarted ==
  ASSUME WalInv, MemoryInv,
         \/ CreateFile \/ CompleteHeader \/ FailCreate \/ RefuseToOpen \/ TryAgain
         \/ OpenFile \/ FailOpen
  PROVE  MemoryInv'
<1> USE DEF inodes, engine, history
<1>1. process # "open"
  BY DEF CreateFile, CompleteHeader, FailCreate, RefuseToOpen, TryAgain, OpenFile, FailOpen
<1>2. memtable = {} /\ worker = "idle" /\ checkpoint \in Int
  BY <1>1, WalFacts DEF WalInv, ControlInv, MemoryInv
<1>3. CASE CreateFile \/ FailCreate \/ RefuseToOpen \/ TryAgain \/ FailOpen
  <2>1. process' # "open" /\ memtable' = {} /\ worker' = "idle"
    BY <1>2, <1>3 DEF CreateFile, FailCreate, RefuseToOpen, TryAgain, FailOpen
  <2> QED
    BY <2>1 DEF MemoryInv
<1>4. CASE CompleteHeader
  <2>1. /\ process' = "open" /\ memtable' = {} /\ worker' = "idle"
        /\ checkpoint' = checkpoint /\ nextSequence' = checkpoint + 1
    BY <1>2, <1>4 DEF CompleteHeader
  <2> QED
    BY <1>2, <2>1 DEF MemoryInv
<1>5. CASE OpenFile
  <2>1. /\ process' = "open" /\ worker' = "idle" /\ checkpoint' = checkpoint
        /\ file' = Repaired(file)
        /\ memtable' = {s \in ReadIn(file.pieces) : checkpoint < s}
        /\ nextSequence' = AtLeast(SequenceAfter(ValidPrefix(file.pieces), 0),
                                   checkpoint + 1)
    BY <1>2, <1>5 DEF OpenFile
  <2>2. IsFile(file) /\ checkpoint + 1 \in 0 .. MaxSequence
    BY WalFacts DEF WalInv, TypeInv
  <2>3. /\ IsFile(Repaired(file)) /\ Ordered(Repaired(file).pieces, nextSequence')
        /\ nextSequence' \in 0 .. MaxSequence /\ checkpoint + 1 <= nextSequence'
    BY <2>1, <2>2, ScannedLog
  <2>4. ReadIn(file'.pieces) = ReadIn(file.pieces)
    BY <2>1, <2>2, ReadRepaired
  <2>5. \A s \in ReadIn(file'.pieces) : s < nextSequence'
    BY <2>1, <2>3, ReadIsBelow DEF IsFile
  <2>6. MaxSequence \in Int
    BY WalAssumption
  <2>7. checkpoint' < nextSequence'
    BY <1>2, <2>1, <2>3, <2>6
  <2> QED
    BY <2>1, <2>4, <2>5, <2>7 DEF MemoryInv
<1> QED
  BY <1>3, <1>4, <1>5

LEMMA MemoryWhenWritten ==
  ASSUME WalInv, WalInv', MemoryInv, NEW size \in RecordSizes,
         \/ WriteRecord(size)
         \/ \E written \in 0 .. size - 1 : FailWrite(size, written)
         \/ OverwriteRecord(size)
         \/ \E written \in 1 .. size - 1 : FailOverwrite(size, written)
  PROVE  MemoryInv'
<1> USE DEF inodes, engine, history
<1>1. /\ process = "open" /\ process' = process /\ worker' = worker
      /\ worker # "reopen"
      /\ UNCHANGED <<checkpoint, memtable, nextSequence>>
  BY DEF WriteRecord, FailWrite, OverwriteRecord, FailOverwrite, Overwrite, MayAppend,
         HoldsMutex
<1>2. CASE WriteRecord(size) \/ \E written \in 0 .. size - 1 : FailWrite(size, written)
  <2>1. PICK w \in 0 .. size :
           file' = IF w = 0 THEN file
                   ELSE [file EXCEPT !.pieces = Append(@, Piece(nextSequence, w, size))]
    <3>1. CASE WriteRecord(size)
      <4>1. size \in 0 .. size /\ size # 0
        BY WalAssumption DEF HeaderUnits
      <4> QED
        BY <3>1, <4>1 DEF WriteRecord
    <3>2. ASSUME NEW written \in 0 .. size - 1, FailWrite(size, written)
          PROVE  \E w \in 0 .. size :
                    file' = IF w = 0 THEN file
                            ELSE [file EXCEPT !.pieces =
                                     Append(@, Piece(nextSequence, w, size))]
      <4>1. written \in 0 .. size
        BY WalAssumption
      <4> QED
        BY <3>2, <4>1 DEF FailWrite
    <3> QED
      BY <1>2, <3>1, <3>2
  <2>2. atRisk' = atRisk /\ position' = position
    BY <1>2 DEF WriteRecord, FailWrite
  <2>3. ReadIn(file.pieces) \subseteq ReadIn(file'.pieces)
    <3>1. IsFile(file) /\ IsLog(file.pieces) /\ IsLog(file'.pieces)
      BY DEF WalInv, TypeInv, IsFile
    <3>2. CASE w = 0
      BY <2>1, <3>2
    <3>3. CASE w # 0
      <4>1. file'.pieces = Append(file.pieces, Piece(nextSequence, w, size))
        BY <2>1, <3>1, <3>3 DEF IsFile
      <4>2. nextSequence \in 0 .. MaxSequence - 1 /\ MaxSequence \in Nat
        BY <1>2, WalFacts DEF WalInv, WriteRecord, FailWrite, MayAppend
      <4>3. Piece(nextSequence, w, size) \in Pieces
        BY <4>2, WalAssumption DEF Pieces, Piece
      <4>4. /\ Len(file'.pieces) = Len(file.pieces) + 1
            /\ \A i \in 1 .. Len(file.pieces) : file'.pieces[i] = file.pieces[i]
        BY <3>1, <4>1, <4>3, AppendProperties DEF IsLog
      <4>5. Len(file.pieces) <= Len(file'.pieces)
        BY <3>1, <4>4, LogTyped
      <4> QED
        BY <3>1, <4>4, <4>5, ReadStays
    <3> QED
      BY <3>2, <3>3
  <2> QED
    BY <1>1, <2>2, <2>3 DEF MemoryInv
<1>3. CASE OverwriteRecord(size) \/ \E written \in 1 .. size - 1 : FailOverwrite(size, written)
  <2>1. position' = [whole |-> Len(Ahead) + 1, part |-> 0]
    BY <1>3 DEF OverwriteRecord, FailOverwrite, Overwrite
  <2>2. position' # AtEnd
    BY <2>1 DEF AtEnd
  <2> QED
    BY <1>1, <2>2 DEF MemoryInv
<1> QED
  BY <1>2, <1>3

LEMMA MemoryWhenSynced ==
  ASSUME WalInv, MemoryInv, SyncRecord
  PROVE  MemoryInv'
<1>1. /\ writer = "fsync" /\ nextSequence' = nextSequence + 1
      /\ memtable' = memtable \cup {nextSequence}
      /\ atRisk' = IF exposed THEN atRisk \cup {nextSequence} ELSE atRisk
      /\ file' = Synced(file.pieces)
      /\ UNCHANGED <<process, position, other, worker, checkpoint>>
  BY DEF SyncRecord, Acknowledge
<1>2. process = "open" /\ worker # "reopen"
  BY <1>1 DEF WalInv, ControlInv, HoldsMutex
<1>3. nextSequence \in Nat /\ checkpoint \in Int /\ memtable \subseteq Int
      /\ IsLog(file.pieces)
  BY WalFacts DEF WalInv, TypeInv
<1>4. file'.pieces = file.pieces
  BY <1>1 DEF Synced
<1>5. ASSUME position = AtEnd, ~exposed PROVE nextSequence \in ReadIn(file.pieces)
  <2>1. /\ Ordered(file.pieces, nextSequence + 1)
        /\ Len(file.pieces) \in 1 .. Len(file.pieces)
        /\ file.pieces[Len(file.pieces)].sequence = nextSequence
    BY <1>1, <1>2, <1>5 DEF WalInv, ControlInv, OrderInv, InFlight, LastSequence
  <2> QED
    BY <1>3, <2>1, ReadAt DEF Ordered
<1>6. ASSUME position = AtEnd
      PROVE  /\ checkpoint' < nextSequence'
             /\ \A s \in memtable' :
                   /\ checkpoint' < s
                   /\ s < nextSequence'
                   /\ s \in atRisk' \/ s \in ReadIn(file'.pieces)
  <2>1. checkpoint < nextSequence
    BY <1>2, <1>6 DEF MemoryInv
  <2>2. CASE checkpoint' < nextSequence'
    <3> SUFFICES ASSUME NEW s \in memtable'
                 PROVE  /\ checkpoint' < s
                        /\ s < nextSequence'
                        /\ s \in atRisk' \/ s \in ReadIn(file'.pieces)
      BY <2>2
    <3>1. CASE s \in memtable
      <4>1. /\ checkpoint < s /\ s < nextSequence /\ s \in Int
            /\ s \in atRisk \/ s \in ReadIn(file.pieces)
        BY <1>2, <1>3, <1>6, <3>1 DEF MemoryInv
      <4>2. s \in atRisk' \/ s \in ReadIn(file'.pieces)
        BY <1>1, <1>4, <4>1
      <4>3. s < nextSequence'
        BY <1>1, <1>3, <4>1
      <4> QED
        BY <1>1, <4>1, <4>2, <4>3
    <3>2. CASE s = nextSequence
      <4>1. s \in atRisk' \/ s \in ReadIn(file'.pieces)
        BY <1>1, <1>4, <1>5, <1>6, <3>2
      <4>2. s < nextSequence'
        BY <1>1, <1>3, <3>2
      <4> QED
        BY <1>1, <2>1, <3>2, <4>1, <4>2
    <3> QED
      BY <1>1, <3>1, <3>2
  <2>3. checkpoint' < nextSequence'
    BY <1>1, <1>3, <2>1
  <2> QED
    BY <2>2, <2>3
<1> QED
  BY <1>1, <1>2, <1>6 DEF MemoryInv

LEMMA MemoryWhenCovered ==
  ASSUME WalInv, MemoryInv, NEW s \in memtable, AdvanceCheckpoint(s)
  PROVE  MemoryInv'
<1> USE DEF inodes, history
<1>1. /\ process = "open" /\ worker = "idle" /\ worker' = "reclaim"
      /\ checkpoint' = s /\ memtable' = {t \in memtable : s < t}
      /\ UNCHANGED <<process, file, position, other, nextSequence, atRisk>>
  BY DEF AdvanceCheckpoint
<1> QED
  BY <1>1 DEF MemoryInv

LEMMA MemoryWhenFailing ==
  ASSUME WalInv, MemoryInv,
         \/ FailSync \/ FailScan \/ FindCorruption \/ FailScanEarly \/ FailRepair
         \/ FailReclaim \/ RecordError
  PROVE  MemoryInv'
<1> USE DEF inodes, engine, history
<1>1. CASE FailSync \/ FailScanEarly \/ FailReclaim \/ RecordError
  <2>1. /\ UNCHANGED <<process, file, position, other, nextSequence, checkpoint,
                       memtable, atRisk>>
        /\ worker' = worker \/ worker' # "reopen"
    BY <1>1 DEF FailSync, FailScanEarly, FailReclaim, RecordError
  <2> QED
    BY <2>1 DEF MemoryInv
<1>2. CASE FailScan \/ FindCorruption \/ FailRepair
  <2>1. /\ process' = process /\ worker' = "failed" /\ memtable' = memtable
        /\ process = "open"
    BY <1>2 DEF FailScan, FindCorruption, FailRepair, LeaveScan, WalInv, ControlInv
  <2>2. position' # AtEnd
    <3>1. CASE FailScan \/ FindCorruption
      <4>1. PICK p \in Positions : position' = p
        BY <3>1 DEF FailScan, FindCorruption, LeaveScan
      <4>2. p.part >= 0
        BY DEF Positions
      <4> QED
        BY <4>1, <4>2 DEF AtEnd
    <3>2. CASE FailRepair
      <4>1. PICK units \in 1 .. HeaderUnits :
               position' = [whole |-> Len(ValidPrefix(file.pieces)), part |-> units]
        BY <3>2 DEF FailRepair
      <4> QED
        BY <4>1 DEF AtEnd, HeaderUnits
    <3> QED
      BY <1>2, <3>1, <3>2
  <2> QED
    BY <2>1, <2>2 DEF MemoryInv
<1> QED
  BY <1>1, <1>2

LEMMA MemoryWhenReclaimed ==
  ASSUME WalInv, MemoryInv, ScanLog \/ RenameLog \/ ReopenLog \/ SyncDirectory
  PROVE  MemoryInv'
<1> USE DEF inodes, engine, history
<1>1. /\ UNCHANGED <<process, position, checkpoint, memtable, atRisk>>
      /\ process = "open" /\ position = AtEnd
  BY DEF ScanLog, RenameLog, ReopenLog, SyncDirectory, WalInv, ControlInv, PositionInv
<1>2. IsFile(file) /\ IsLog(file.pieces) /\ checkpoint \in Int /\ nextSequence \in Nat
  BY WalFacts DEF WalInv, TypeInv
<1>3. CASE ScanLog
  <2>1. /\ file' = Repaired(file) /\ worker' = "rename"
        /\ nextSequence' = AtLeast(SequenceAfter(ValidPrefix(file.pieces), 0), nextSequence)
    BY <1>3 DEF ScanLog
  <2>2. nextSequence <= nextSequence' /\ nextSequence' \in Nat
    <3>1. nextSequence \in 0 .. MaxSequence /\ MaxSequence \in Nat
      BY WalFacts DEF WalInv, TypeInv
    <3> QED
      BY <1>2, <2>1, <3>1, ScannedLog
  <2>3. ReadIn(file'.pieces) = ReadIn(file.pieces)
    BY <1>2, <2>1, ReadRepaired
  <2>4. memtable \subseteq Int
    BY WalFacts DEF WalInv, TypeInv
  <2>5. checkpoint < nextSequence' /\ \A s \in memtable : s < nextSequence'
    BY <1>1, <1>2, <2>2, <2>4 DEF MemoryInv
  <2> QED
    BY <1>1, <2>1, <2>3, <2>5 DEF MemoryInv
<1>4. CASE RenameLog
  <2>1. /\ other' = Synced(Beyond(file.pieces)) /\ worker = "rename"
        /\ UNCHANGED <<file, nextSequence>>
    BY <1>4 DEF RenameLog
  <2>2. other'.pieces = Beyond(file.pieces)
    BY <2>1 DEF Synced
  <2>3. Ordered(file.pieces, nextSequence)
    BY <1>1, <2>1 DEF WalInv, ControlInv, OrderInv, HoldsMutex
  <2>4. ReplayOf(Beyond(file.pieces), checkpoint) = ReplayOf(file.pieces, checkpoint)
    BY <1>2, <2>3, ReplayReclaimed
  <2>5. \A s \in memtable : s \in atRisk \/ s \in ReadIn(other'.pieces)
    BY <1>1, <2>2, <2>4 DEF MemoryInv, ReplayOf
  <2> QED
    BY <1>1, <2>1, <2>5 DEF MemoryInv
<1>5. CASE ReopenLog
  <2>1. /\ file' = other /\ worker = "reopen" /\ worker' = "syncDirectory"
        /\ nextSequence' = nextSequence
    BY <1>5 DEF ReopenLog
  <2> QED
    BY <1>1, <2>1 DEF MemoryInv
<1>6. CASE SyncDirectory
  <2>1. worker' = "idle" /\ UNCHANGED <<file, nextSequence>>
    BY <1>6 DEF SyncDirectory
  <2> QED
    BY <1>1, <2>1 DEF MemoryInv
<1> QED
  BY <1>3, <1>4, <1>5, <1>6

LEMMA NextPreservesMemoryInv ==
  ASSUME WalInv, WalInv', MemoryInv, Next
  PROVE  MemoryInv'
<1>1. CASE Kill \/ LosePower \/ Close
  <2>1. process' # "open" /\ memtable' = {} /\ worker' # "reopen"
    BY <1>1 DEF Kill, LosePower, Close, Stop
  <2> QED
    BY <2>1 DEF MemoryInv
<1>2. CASE ~(Kill \/ LosePower \/ Close)
  BY <1>2, MemoryWhenStarted, MemoryWhenWritten, MemoryWhenSynced, MemoryWhenCovered,
     MemoryWhenFailing, MemoryWhenReclaimed
  DEF Next
<1> QED
  BY <1>1, <1>2

-----------------------------------------------------------------------------
(* The log that the engine counts on *)

\* Either inode of a reclamation replays the same.
OtherInv ==
    Reliable /\ link # "current" =>
        ReplayOf(other.pieces, checkpoint) = ReplayOf(file.pieces, checkpoint)

LEMMA NothingIsRead == ReadIn(<<>>) = {}
<1>1. Len(ValidPrefix(<<>>)) \in 0 .. 0
  BY EmptyLog, ReadNumbers
<1>2. ReadIn(<<>>) = {<<>>[i].sequence : i \in 1 .. Len(ValidPrefix(<<>>))}
  BY EmptyLog, ReadNumbers
<1> QED
  BY <1>1, <1>2

InTrouble == failed \/ ((link # "current" \/ header = "written") /\ ~HoldsMutex)
LogNow == IF Reliable THEN Replayable ELSE Promised

LEMMA ReplayableIs == Replayable = ReplayOf(file.pieces, checkpoint)
BY DEF Replayable, Readable, ReplayOf

\* What was acknowledged is replayed until the checkpoint covers it.
LEMMA PromisedIsHeld ==
  ASSUME NEW f, IsFile(f), Held(f, Safe, checkpoint), Safe \subseteq Nat,
         checkpoint \in Int
  PROVE  Promised \subseteq ReplayOf(f.pieces, checkpoint)
<1> SUFFICES ASSUME NEW t \in Safe, checkpoint < t
             PROVE  t \in ReadIn(f.pieces)
  BY DEF Promised, ReplayOf, Safe
<1> DEFINE v == ValidPrefix(f.pieces)
<1>1. \/ \E i \in 1 .. Len(v) : i <= f.synced /\ v[i].sequence = t
      \/ t <= checkpoint
  BY HeldIsRead
<1>2. ~(t <= checkpoint)
  OBVIOUS
<1>3. IsLog(v)
  BY ScanReadsUpToStop DEF IsFile
<1>4. DOMAIN v = 1 .. Len(v)
  BY <1>3, LogTyped
<1> QED
  BY <1>1, <1>2, <1>4 DEF ReadIn

LEMMA PromisedIsRead == WalInv => Promised \subseteq Replayable
<1> SUFFICES ASSUME WalInv PROVE Promised \subseteq Replayable
  OBVIOUS
<1>1. /\ IsFile(file) /\ Held(file, Safe, checkpoint) /\ Safe \subseteq Nat
      /\ checkpoint \in Int
  BY WalFacts DEF WalInv, TypeInv, SafeInv
<1> QED
  BY <1>1, PromisedIsHeld, ReplayableIs

LogFacts ==
    /\ Replayable \subseteq 0 .. MaxSequence - 1
    /\ LogNow \subseteq 0 .. MaxSequence - 1
    /\ \A s \in LogNow : checkpoint < s
    /\ Promised \subseteq LogNow

LEMMA LogFactsHold == WalInv => LogFacts
<1> SUFFICES ASSUME WalInv PROVE LogFacts
  OBVIOUS
<1>1. IsLog(file.pieces)
  BY WalFacts DEF WalInv
<1>2. ReadIn(file.pieces) \subseteq 0 .. MaxSequence - 1
  BY <1>1, ReadNumbers
<1>3. Replayable \subseteq 0 .. MaxSequence - 1 /\ \A s \in Replayable : checkpoint < s
  BY <1>2, ReplayableIs DEF ReplayOf
<1>4. Promised \subseteq Replayable
  BY PromisedIsRead
<1> QED
  BY <1>3, <1>4 DEF LogNow, LogFacts

\* A write where a scan has left fd_.
Overwriting ==
    \E size \in RecordSizes :
        \/ OverwriteRecord(size)
        \/ \E written \in 1 .. size - 1 : FailOverwrite(size, written)

\* What has been promised stays so until a checkpoint covers it.
LEMMA PromisesAreKept ==
  ASSUME WalInv, Next, ~Overwriting
  PROVE  /\ Promised \subseteq Promised' \cup 0 .. checkpoint'
         /\ 0 .. checkpoint \subseteq 0 .. checkpoint'
<1> USE DEF engine, history
<1>1. /\ checkpoint \in Int /\ Safe \subseteq Nat /\ memtable \subseteq Int
      /\ MaxSequence \in Nat
  BY WalFacts DEF WalInv, TypeInv
<1>2. Safe \subseteq Safe' /\ (checkpoint' = checkpoint \/ (checkpoint' \in Int /\ checkpoint < checkpoint'))
  <2>1. CASE UNCHANGED <<acknowledged, atRisk, checkpoint>>
    BY <2>1 DEF Safe
  <2>2. CASE SyncRecord
    <3>1. /\ acknowledged' = acknowledged \cup {nextSequence}
          /\ atRisk' = IF exposed THEN atRisk \cup {nextSequence} ELSE atRisk
          /\ checkpoint' = checkpoint /\ writer = "fsync"
      BY <2>2 DEF SyncRecord, Acknowledge
    <3>2. nextSequence \notin Safe
      <4>1. \A t \in Safe : t < nextSequence
        BY <3>1 DEF WalInv, NumberInv
      <4>2. nextSequence \in Nat
        BY WalFacts DEF WalInv
      <4> QED
        BY <4>1, <4>2
    <3> QED
      BY <3>1, <3>2 DEF Safe
  <2>3. ASSUME NEW s \in memtable, AdvanceCheckpoint(s)
        PROVE  Safe \subseteq Safe' /\ checkpoint' \in Int /\ checkpoint < checkpoint'
    BY <1>1, <2>3 DEF AdvanceCheckpoint, Safe
  <2>4. UNCHANGED <<acknowledged, atRisk, checkpoint>> \/ SyncRecord
        \/ \E s \in memtable : AdvanceCheckpoint(s)
    <3>1. CASE CreateFile \/ CompleteHeader \/ FailCreate \/ RefuseToOpen \/ TryAgain
               \/ OpenFile \/ FailOpen
      BY <3>1 DEF CreateFile, CompleteHeader, FailCreate, RefuseToOpen, TryAgain,
                  OpenFile, FailOpen
    <3>2. CASE \/ FailSync \/ FailReclaim \/ RecordError \/ ScanLog \/ FailScan
               \/ FindCorruption \/ FailScanEarly \/ FailRepair
      BY <3>2 DEF FailSync, FailReclaim, RecordError, ScanLog, FailScan, FindCorruption,
                  LeaveScan, FailScanEarly, FailRepair
    <3>3. ASSUME NEW size \in RecordSizes, WriteRecord(size)
          PROVE  UNCHANGED <<acknowledged, atRisk, checkpoint>>
      BY <3>3 DEF WriteRecord
    <3>4. ASSUME NEW size \in RecordSizes, NEW written \in 0 .. size - 1,
                 FailWrite(size, written)
          PROVE  UNCHANGED <<acknowledged, atRisk, checkpoint>>
      BY <3>4 DEF FailWrite
    <3>5. CASE RenameLog \/ ReopenLog \/ SyncDirectory
      BY <3>5 DEF RenameLog, ReopenLog, SyncDirectory
    <3>6. CASE Kill \/ LosePower \/ Close
      BY <3>6 DEF Kill, LosePower, Close, Stop
    <3> QED
      BY <3>1, <3>2, <3>3, <3>4, <3>5, <3>6 DEF Next, Overwriting
  <2> QED
    BY <2>1, <2>2, <2>3, <2>4
<1>3. 0 .. checkpoint \subseteq 0 .. checkpoint'
  BY <1>1, <1>2
<1>4. ASSUME NEW t \in Promised, t \notin 0 .. checkpoint'
      PROVE  t \in Promised'
  <2>1. t \in Safe /\ t \in Nat /\ checkpoint < t
    BY <1>1, <1>4 DEF Promised, Safe
  <2>2. t \in Safe' /\ checkpoint' < t
    BY <1>1, <1>2, <1>4, <2>1
  <2> QED
    BY <2>2 DEF Promised, Safe
<1> QED
  BY <1>3, <1>4

LogStep == [Log!Next]_(Log!vars)

\* A step that the engine does not see.
LEMMA LogStutters ==
  ASSUME process' = "open" <=> process = "open",
         LogNow' = LogNow, Promised' = Promised, checkpoint' = checkpoint,
         InTrouble' <=> InTrouble, Reliable' <=> Reliable,
         position' = position
  PROVE  LogStep
BY DEF LogStep, Log!vars, LogNow, InTrouble

\* Behind a failure that somebody has written behind, what was promised is kept.
LEMMA LogEndures ==
  ASSUME WalInv, WalInv', Next, ~Overwriting, ~Reliable, ~Reliable'
  PROVE  LogStep
<1>1. /\ Promised \subseteq Promised' \cup 0 .. checkpoint'
      /\ 0 .. checkpoint \subseteq 0 .. checkpoint'
  BY PromisesAreKept
<1>2. InTrouble' \in BOOLEAN
  BY DEF WalInv, TypeInv, InTrouble
<1>3. LogNow' = Promised'
  BY DEF LogNow
<1>4. Reliable' = Reliable
  BY DEF Reliable
<1>5. (process = "open")' \in BOOLEAN /\ (position # AtEnd)' \in BOOLEAN
  OBVIOUS
<1>6. Log!Endure
  BY <1>1, <1>2, <1>3, <1>4, <1>5 DEF Log!Endure, LogNow, InTrouble
<1> QED
  BY <1>6 DEF LogStep, Log!Next

\* A scan that reads all that was promised ends this, and so does a new log.
LEMMA LogRegains ==
  ASSUME WalInv, WalInv', OpenFile \/ ScanLog \/ CompleteHeader, ~Reliable, Reliable'
  PROVE  LogStep /\ link' = "current"
<1> USE DEF inodes, engine, history
<1>1. /\ atRisk' = atRisk /\ acknowledged' = acknowledged
      /\ UNCHANGED <<checkpoint, link, position>>
  BY DEF OpenFile, ScanLog, CompleteHeader
<1>2. link' = "current" /\ header' = "complete"
  <2>1. CASE OpenFile \/ ScanLog
    <3>1. exposed' = (exposed /\ ~PathIsDurable) /\ header' = header
      BY <2>1 DEF OpenFile, ScanLog
    <3> QED
      BY <1>1, <3>1 DEF Reliable, PathIsDurable
  <2>2. CASE CompleteHeader
    BY <1>1, <2>2 DEF CompleteHeader, WalInv, HeaderInv
  <2> QED
    BY <2>1, <2>2
<1>3. process' = "open" /\ ~failed' /\ position' = AtEnd
  BY <1>1 DEF OpenFile, ScanLog, CompleteHeader, WalInv, ControlInv, PositionInv
<1>4. ~InTrouble'
  BY <1>2, <1>3 DEF InTrouble
<1>5. /\ LogNow' \subseteq (0 .. MaxSequence - 1) \ (0 .. checkpoint')
      /\ Promised' \subseteq LogNow'
  <2>1. LogFacts'
    BY LogFactsHold, PTL
  <2>2. checkpoint' \in Int
    BY <1>1, WalFacts DEF WalInv
  <2> QED
    BY <2>1, <2>2 DEF LogFacts
<1>6. Promised' = Promised
  BY <1>1 DEF Promised
<1>7. Log!Regain
  BY <1>1, <1>3, <1>4, <1>5, <1>6 DEF Log!Regain, LogNow, InTrouble
<1> QED
  BY <1>2, <1>7 DEF LogStep, Log!Next

\* Only a scan that finds the log in order, under its own name, makes it reliable
\* again, or a new log.
LEMMA LogStaysUnreliable ==
  ASSUME WalInv, Next, ~Reliable, Reliable'
  PROVE  OpenFile \/ ScanLog \/ CompleteHeader
<1> USE DEF engine, history
<1>1. CASE ~(OpenFile \/ ScanLog \/ CompleteHeader)
  <2>1. atRisk \subseteq atRisk' /\ (exposed => exposed')
    <3>1. CASE CreateFile \/ FailCreate \/ FailOpen \/ RefuseToOpen \/ TryAgain
      BY <3>1 DEF CreateFile, FailCreate, FailOpen, RefuseToOpen, TryAgain
    <3>2. CASE \/ FailSync \/ FailReclaim \/ RecordError \/ FailScan
               \/ FindCorruption \/ FailScanEarly \/ FailRepair
      BY <3>2 DEF FailSync, FailReclaim, RecordError, FailScan, FindCorruption,
                  LeaveScan, FailScanEarly, FailRepair
    <3>3. ASSUME NEW size \in RecordSizes, WriteRecord(size)
          PROVE  atRisk \subseteq atRisk' /\ (exposed => exposed')
      BY <3>3 DEF WriteRecord, AppendIsExposed
    <3>4. ASSUME NEW size \in RecordSizes, NEW written \in 0 .. size - 1,
                 FailWrite(size, written)
          PROVE  atRisk \subseteq atRisk' /\ (exposed => exposed')
      BY <3>4 DEF FailWrite, AppendIsExposed
    <3>5. CASE SyncRecord
      BY <3>5 DEF SyncRecord, Acknowledge
    <3>6. ASSUME NEW s \in memtable, AdvanceCheckpoint(s)
          PROVE  atRisk \subseteq atRisk' /\ (exposed => exposed')
      BY <3>6 DEF AdvanceCheckpoint
    <3>7. CASE RenameLog \/ ReopenLog \/ SyncDirectory
      BY <3>7 DEF RenameLog, ReopenLog, SyncDirectory
    <3>8. CASE Kill \/ LosePower \/ Close
      BY <3>8 DEF Kill, LosePower, Close, Stop
    <3>9. CASE Overwriting
      BY <3>9 DEF Overwriting, OverwriteRecord, FailOverwrite, Overwrite
    <3> QED
      BY <1>1, <3>1, <3>2, <3>3, <3>4, <3>5, <3>6, <3>7, <3>8, <3>9 DEF Next, Overwriting
  <2> QED
    BY <2>1 DEF Reliable
<1> QED
  BY <1>1

\* Who writes where a scan has left fd_ leaves the beginning of what was promised.
LEMMA LogIsOverwritten ==
  ASSUME WalInv, Overwriting
  PROVE  LogStep /\ ~Reliable'
<1> USE DEF engine
<1>1. /\ process = "open" /\ process' = process /\ position # AtEnd
      /\ position' = [whole |-> Len(Ahead) + 1, part |-> 0]
      /\ exposed' = TRUE
      /\ atRisk' = atRisk \cup (acknowledged \ InFront)
      /\ UNCHANGED <<checkpoint, acknowledged>>
      /\ failed' = failed \/ failed' = TRUE
  BY DEF Overwriting, OverwriteRecord, FailOverwrite, Overwrite, MayAppend, Fails, InFront
<1>2. failed /\ failed' /\ position' # AtEnd /\ ~Reliable'
  <2>1. position' # AtEnd
    BY <1>1 DEF AtEnd
  <2>2. failed
    BY <1>1 DEF WalInv, PositionInv
  <2>3. failed \in BOOLEAN
    BY DEF WalInv, TypeInv
  <2>4. failed'
    BY <1>1, <2>2, <2>3
  <2> QED
    BY <1>1, <2>1, <2>2, <2>4 DEF Reliable
<1>3. InTrouble /\ InTrouble'
  BY <1>2 DEF InTrouble
<1>4. Promised' = Promised \cap InFront
  BY <1>1 DEF Promised
<1>5. ASSUME NEW n \in Promised \cap InFront, NEW m \in Promised \ InFront
      PROVE  n < m
  <2>1. /\ IsLog(file.pieces) /\ Len(file.pieces) \in Nat
        /\ position.whole \in Nat /\ position.whole <= Len(file.pieces)
    BY <1>1, PositionTyped, WalFacts DEF WalInv
  <2>2. PICK i \in 1 .. position.whole :
            /\ file.pieces[i].sequence = n
            /\ \A j \in 1 .. i : j \notin Stops(file.pieces)
    BY <1>5, <2>1, ReadInFront DEF InFront
  <2>3. m \in ReadIn(file.pieces)
    BY <1>5, PromisedIsRead DEF Replayable, Readable
  <2>4. PICK k \in 1 .. Len(file.pieces) :
            /\ file.pieces[k].sequence = m
            /\ \A j \in 1 .. k : j \notin Stops(file.pieces)
    BY <2>1, <2>3, ReadAt
  <2>5. ~(k <= position.whole)
    <3> SUFFICES ASSUME k <= position.whole PROVE FALSE
      OBVIOUS
    <3>1. k \in 1 .. position.whole
      BY <2>1
    <3> QED
      BY <1>5, <2>1, <2>4, <3>1, ReadInFront DEF InFront
  <2>6. /\ i \in 1 .. Len(ValidPrefix(file.pieces))
        /\ k \in 1 .. Len(ValidPrefix(file.pieces))
    <3>1. i \in 1 .. Len(file.pieces) /\ Len(ValidPrefix(file.pieces)) \in Nat
      BY <2>1, ReadNumbers
    <3>2. i <= Len(ValidPrefix(file.pieces)) /\ k <= Len(ValidPrefix(file.pieces))
      BY <2>1, <2>2, <2>4, <3>1, ReadLength
    <3> QED
      BY <3>1, <3>2
  <2>7. i < k
    BY <2>1, <2>5
  <2> QED
    BY <2>1, <2>2, <2>4, <2>6, <2>7, ReadNumbers
<1>6. \E kept \in SUBSET Promised :
         /\ \A n \in kept, m \in Promised \ kept : n < m
         /\ Promised' = kept
  <2>1. Promised \cap InFront \in SUBSET Promised
    OBVIOUS
  <2>2. Promised \ (Promised \cap InFront) = Promised \ InFront
    OBVIOUS
  <2> QED
    BY <1>4, <1>5, <2>1, <2>2
<1>7. LogNow' = Promised'
  BY <1>2 DEF LogNow
<1>8. Log!Overwrite
  BY <1>1, <1>2, <1>3, <1>6, <1>7 DEF Log!Overwrite, LogNow, InTrouble
<1> QED
  BY <1>2, <1>8 DEF LogStep, Log!Next

LEMMA LogWhenUnreliable ==
  ASSUME WalInv, WalInv', Next, ~Reliable
  PROVE  LogStep /\ (Reliable' => link' = "current")
<1>1. CASE Overwriting
  BY <1>1, LogIsOverwritten
<1>2. CASE ~Overwriting /\ ~Reliable'
  BY <1>2, LogEndures
<1>3. CASE ~Overwriting /\ Reliable'
  BY <1>3, LogRegains, LogStaysUnreliable
<1> QED
  BY <1>1, <1>2, <1>3

\* Where the files and what was acknowledged stay as they are, or only a tail goes
\* that is not read.
LEMMA LogUntouched ==
  ASSUME UNCHANGED <<other, link, checkpoint, acknowledged, atRisk>>,
         Reliable => exposed' = exposed, ReadIn(file'.pieces) = ReadIn(file.pieces),
         OtherInv, Reliable
  PROVE  /\ Replayable' = Replayable /\ Promised' = Promised
         /\ (Reliable' <=> Reliable) /\ LogNow' = LogNow
         /\ OtherInv'
<1>1. /\ Replayable' = Replayable /\ Promised' = Promised
      /\ Reliable' <=> Reliable
  BY DEF Replayable, Readable, Promised, Reliable
<1>2. LogNow' = LogNow
  BY <1>1 DEF LogNow
<1>3. /\ ReplayOf(other.pieces, checkpoint)' = ReplayOf(other.pieces, checkpoint)
      /\ ReplayOf(file.pieces, checkpoint)' = ReplayOf(file.pieces, checkpoint)
  BY DEF ReplayOf
<1> QED
  BY <1>1, <1>2, <1>3 DEF OtherInv

\* A step of which the log shows nothing, or trouble at most.
LEMMA LogInTrouble ==
  ASSUME WalInv', Reliable, Reliable' <=> Reliable, checkpoint' = checkpoint,
         Promised' = Promised, LogNow' = LogNow, process' = "open" <=> process = "open",
         position' # AtEnd => process = "open" /\ InTrouble'
  PROVE  LogStep
<1>1. InTrouble' \in BOOLEAN /\ (position # AtEnd)' \in BOOLEAN
  BY DEF WalInv, TypeInv, InTrouble
<1>2. Log!Trouble
  BY <1>1 DEF Log!Trouble, LogNow, InTrouble
<1> QED
  BY <1>2 DEF LogStep, Log!Next

\* Between two stops.
LEMMA LogWhenOpened ==
  ASSUME WalInv, WalInv', OtherInv, Reliable,
         \/ CreateFile \/ CompleteHeader \/ FailCreate \/ RefuseToOpen \/ TryAgain
         \/ FailOpen
  PROVE  LogStep /\ OtherInv'
<1> USE DEF inodes, engine, history
<1>1. /\ UNCHANGED <<other, link, checkpoint, acknowledged, failed, atRisk, worker,
                     position>>
      /\ Reliable => exposed' = exposed
      /\ file' = file \/ file' = Shorter(file, ValidPrefix(file.pieces))
      /\ process # "open"
  <2>1. exposed \in BOOLEAN
    BY DEF WalInv, TypeInv
  <2>2. CASE CompleteHeader
    BY <2>1, <2>2 DEF CompleteHeader, Reliable
  <2>3. CASE FailOpen
    BY <2>3 DEF FailOpen
  <2>4. CASE CreateFile \/ FailCreate \/ RefuseToOpen \/ TryAgain
    BY <2>4 DEF CreateFile, FailCreate, RefuseToOpen, TryAgain
  <2> QED
    BY <2>2, <2>3, <2>4
<1>2. ReadIn(file'.pieces) = ReadIn(file.pieces)
  BY <1>1, ReadShortened DEF WalInv, TypeInv
<1>3. /\ Replayable' = Replayable /\ Promised' = Promised
      /\ (Reliable' <=> Reliable) /\ LogNow' = LogNow
      /\ OtherInv'
  BY <1>1, <1>2, LogUntouched
<1>4. position' = AtEnd /\ position = AtEnd
  BY <1>1 DEF WalInv, PositionInv
<1>5. CASE CompleteHeader
  <2>1. process' = "open" /\ header = "partial" /\ header' = "complete"
    BY <1>5 DEF CompleteHeader, WalInv, HeaderInv
  <2>2. InTrouble' <=> InTrouble
    BY <1>1, <2>1 DEF InTrouble, HoldsMutex
  <2>3. Log!Open
    BY <1>1, <1>3, <1>4, <2>1, <2>2 DEF Log!Open, LogNow, InTrouble
  <2> QED
    BY <1>3, <2>3 DEF LogStep, Log!Next
<1>6. CASE CreateFile \/ FailCreate \/ RefuseToOpen \/ TryAgain \/ FailOpen
  <2>1. process' # "open"
    BY <1>6 DEF CreateFile, FailCreate, RefuseToOpen, TryAgain, FailOpen
  <2> QED
    BY <1>1, <1>3, <1>4, <2>1, LogInTrouble
<1> QED
  BY <1>5, <1>6

\* A start, and the scan before a reclamation, repair what may be cut off.
LEMMA LogWhenScanned ==
  ASSUME WalInv, WalInv', OtherInv, Reliable, OpenFile \/ ScanLog
  PROVE  LogStep /\ OtherInv'
<1>1. /\ file' = Repaired(file)
      /\ UNCHANGED <<header, position, other, link, checkpoint, acknowledged, atRisk>>
      /\ Reliable => exposed' = exposed
      /\ process' = "open"
  <2>1. exposed \in BOOLEAN /\ ~exposed
    BY DEF WalInv, TypeInv, Reliable
  <2>2. CASE OpenFile
    BY <2>1, <2>2 DEF OpenFile
  <2>3. CASE ScanLog
    <3>1. process = "open"
      BY <2>3 DEF ScanLog, WalInv, ControlInv
    <3> QED
      BY <2>1, <2>3, <3>1 DEF ScanLog, engine
  <2> QED
    BY <2>2, <2>3
<1>2. ReadIn(file'.pieces) = ReadIn(file.pieces)
  BY <1>1, ReadRepaired DEF WalInv, TypeInv
<1>3. /\ Replayable' = Replayable /\ Promised' = Promised
      /\ (Reliable' <=> Reliable) /\ LogNow' = LogNow
      /\ OtherInv'
  BY <1>1, <1>2, LogUntouched
<1>4. position = AtEnd /\ position' = AtEnd
  BY <1>1 DEF OpenFile, ScanLog, WalInv, PositionInv
<1>5. CASE OpenFile
  <2>1. process = "down" /\ failed' = failed /\ worker' = worker
    BY <1>5 DEF OpenFile
  <2>2. InTrouble' <=> InTrouble
    BY <1>1, <2>1 DEF InTrouble, HoldsMutex
  <2>3. Log!Open
    BY <1>1, <1>3, <1>4, <2>1, <2>2 DEF Log!Open, LogNow, InTrouble
  <2> QED
    BY <1>3, <2>3 DEF LogStep, Log!Next
<1>6. CASE ScanLog
  <2>1. process = "open"
    BY <1>6 DEF ScanLog, WalInv, ControlInv
  <2> QED
    BY <1>1, <1>3, <1>4, <2>1, LogInTrouble
<1> QED
  BY <1>5, <1>6

\* A failure means trouble for the next writer.
LEMMA LogWhenFailing ==
  ASSUME WalInv, WalInv', OtherInv, Reliable,
         \/ FailSync \/ FailReclaim \/ RecordError \/ FailScan \/ FindCorruption
         \/ FailScanEarly \/ FailRepair
  PROVE  LogStep /\ OtherInv'
<1> USE DEF inodes, engine, history
<1>1. /\ UNCHANGED <<other, link, checkpoint, acknowledged, atRisk, process>>
      /\ Reliable => exposed' = exposed
      /\ \/ file' = file
         \/ file' = Shorter(file, ValidPrefix(file.pieces))
         \/ file' = Repaired(file)
  BY DEF FailSync, FailReclaim, RecordError, FailScan, FindCorruption, LeaveScan,
         FailScanEarly, FailRepair
<1>2. ReadIn(file'.pieces) = ReadIn(file.pieces)
  BY <1>1, ReadShortened, ReadRepaired DEF WalInv, TypeInv
<1>3. /\ Replayable' = Replayable /\ Promised' = Promised
      /\ (Reliable' <=> Reliable) /\ LogNow' = LogNow
      /\ OtherInv'
  BY <1>1, <1>2, LogUntouched
<1>4. position' # AtEnd => process = "open" /\ InTrouble'
  BY <1>1 DEF WalInv, PositionInv, InTrouble
<1> QED
  BY <1>1, <1>3, <1>4, LogInTrouble

\* A reclamation shows nowhere.
LEMMA LogWhenReclaimed ==
  ASSUME WalInv, WalInv', OtherInv, Reliable, RenameLog \/ ReopenLog \/ SyncDirectory
  PROVE  LogStep /\ OtherInv'
<1> USE DEF engine, history
<1>1. /\ UNCHANGED <<process, checkpoint, acknowledged, failed, exposed, atRisk, position>>
      /\ worker \in {"rename", "reopen", "syncDirectory"}
  BY DEF RenameLog, ReopenLog, SyncDirectory
<1>2. process = "open" /\ ~failed /\ writer = "idle"
  BY <1>1 DEF WalInv, ControlInv, HoldsMutex
<1>3. InTrouble' <=> InTrouble
  BY <1>1, <1>2 DEF RenameLog, ReopenLog, SyncDirectory, InTrouble, HoldsMutex
<1>4. /\ checkpoint \in Int /\ nextSequence \in Nat /\ IsLog(file.pieces)
      /\ Ordered(file.pieces, nextSequence)
  BY <1>2, WalFacts DEF WalInv, OrderInv
<1>5. /\ OtherInv'
      /\ ReplayOf(file'.pieces, checkpoint) = ReplayOf(file.pieces, checkpoint)
  <2>1. CASE RenameLog
    <3>1. /\ file' = file /\ other' = Synced(Beyond(file.pieces))
          /\ checkpoint' = checkpoint
      BY <2>1 DEF RenameLog
    <3>2. other'.pieces = Beyond(file.pieces)
      BY <3>1 DEF Synced
    <3>3. ReplayOf(Beyond(file.pieces), checkpoint) = ReplayOf(file.pieces, checkpoint)
      BY <1>4, ReplayReclaimed
    <3>4. ReplayOf(other'.pieces, checkpoint') = ReplayOf(file'.pieces, checkpoint')
      BY <3>1, <3>2, <3>3
    <3> QED
      BY <3>1, <3>4 DEF OtherInv, Reliable, ReplayOf, ReadIn
  <2>2. CASE ReopenLog
    <3>1. /\ file' = other /\ other' = file /\ checkpoint' = checkpoint
          /\ link # "current"
      BY <2>2 DEF ReopenLog, WalInv, ControlInv
    <3>2. ReplayOf(other.pieces, checkpoint) = ReplayOf(file.pieces, checkpoint)
      BY <3>1 DEF OtherInv, Reliable
    <3> QED
      BY <3>1, <3>2 DEF OtherInv, Reliable, ReplayOf, ReadIn
  <2>3. CASE SyncDirectory
    BY <2>3 DEF SyncDirectory, OtherInv, Reliable
  <2> QED
    BY <2>1, <2>2, <2>3
<1>6. Replayable' = Replayable
  BY <1>1, <1>5 DEF Replayable, Readable, ReplayOf
<1>7. Promised' = Promised /\ Reliable' = Reliable /\ LogNow' = LogNow
  BY <1>1, <1>6 DEF Promised, Reliable, LogNow
<1> QED
  BY <1>1, <1>3, <1>5, <1>7, LogStutters

\* The checkpoint takes what it covers out of the log.
LEMMA LogWhenCovered ==
  ASSUME WalInv, WalInv', OtherInv, MemoryInv, Reliable,
         NEW s \in memtable, AdvanceCheckpoint(s)
  PROVE  LogStep /\ OtherInv'
<1> USE DEF inodes, history
<1>1. /\ process = "open" /\ checkpoint < s /\ checkpoint' = s
      /\ worker = "idle" /\ worker' = "reclaim"
      /\ UNCHANGED <<process, header, file, position, other, link, acknowledged,
                     failed, exposed, atRisk>>
  BY DEF AdvanceCheckpoint
<1>2. /\ checkpoint \in Int /\ MaxSequence \in Nat
      /\ s \in 0 .. MaxSequence - 1
      /\ checkpoint >= -1
  BY WalFacts DEF WalInv, TypeInv, NoCheckpoint
<1>3. Reliable' = Reliable /\ InTrouble' = InTrouble /\ atRisk = {}
  BY <1>1 DEF Reliable, InTrouble, HoldsMutex
<1>14. position = AtEnd
  BY <1>1 DEF WalInv, PositionInv
<1>4. /\ ReadIn(file.pieces) \subseteq 0 .. MaxSequence - 1
      /\ ReadIn(other.pieces) \subseteq 0 .. MaxSequence - 1
      /\ acknowledged \subseteq 0 .. MaxSequence - 1
  BY ReadNumbers, WalFacts DEF WalInv, TypeInv
<1>5. \A t \in 0 .. MaxSequence - 1 :
         checkpoint' < t <=> checkpoint < t /\ t \notin 0 .. checkpoint'
  BY <1>1, <1>2
<1>6. /\ ReplayOf(file.pieces, checkpoint)' =
            ReplayOf(file.pieces, checkpoint) \ 0 .. checkpoint'
      /\ ReplayOf(other.pieces, checkpoint)' =
            ReplayOf(other.pieces, checkpoint) \ 0 .. checkpoint'
  <2>1. /\ ReadIn(file.pieces)' = ReadIn(file.pieces)
        /\ ReadIn(other.pieces)' = ReadIn(other.pieces)
    BY <1>1 DEF ReadIn
  <2> QED
    BY <1>4, <1>5, <2>1 DEF ReplayOf
<1>7. OtherInv'
  BY <1>1, <1>6 DEF OtherInv, Reliable
<1>8. Replayable' = Replayable \ 0 .. checkpoint'
  <2>1. Replayable' = ReplayOf(file.pieces, checkpoint)'
    BY DEF Replayable, Readable, ReplayOf
  <2> QED
    BY <1>6, <2>1, ReplayableIs
<1>9. Promised' = Promised \ 0 .. checkpoint'
  BY <1>1, <1>4, <1>5 DEF Promised
<1>10. s \in LogNow
  BY <1>1, <1>3, <1>14 DEF MemoryInv, LogNow, Replayable, Readable
<1>11. 0 .. checkpoint' = 0 .. checkpoint \cup {n \in 0 .. MaxSequence - 1 : n <= s}
  BY <1>1, <1>2
<1>12. LogNow' = LogNow \ 0 .. checkpoint'
  BY <1>3, <1>8 DEF LogNow
<1>13. Log!Cover(s)
  BY <1>1, <1>3, <1>9, <1>10, <1>11, <1>12
  DEF Log!Cover, Log!Covering, LogNow, InTrouble
<1> QED
  BY <1>7, <1>10, <1>13 DEF LogStep, Log!Next, LogNow

\* A record that is written is read, and a torn one changes nothing.
LEMMA ReadOfAppended ==
  ASSUME WalInv, MayAppend, position = AtEnd, ~failed, NEW size \in RecordSizes, NEW w \in 1 .. size,
         NEW g, g = [file EXCEPT !.pieces = Append(@, Piece(nextSequence, w, size))]
  PROVE  ReadIn(g.pieces) = IF w = size THEN ReadIn(file.pieces) \cup {nextSequence}
                            ELSE ReadIn(file.pieces)
<1> DEFINE e == Piece(nextSequence, w, size)
           p == file.pieces
           q == g.pieces
<1>1. /\ IsFile(g) /\ Len(q) = Len(p) + 1
      /\ q[Len(q)].sequence = nextSequence
      /\ w = size => Ordered(q, nextSequence + 1)
  BY AppendedPiece
<1>2. /\ IsFile(file) /\ IsLog(p) /\ Len(p) \in Nat
      /\ nextSequence \in Nat /\ nextSequence < MaxSequence /\ MaxSequence \in Nat
      /\ Ordered(p, nextSequence)
  BY WalFacts DEF WalInv, TypeInv, MayAppend, OrderInv
<1>3. /\ e.sequence = nextSequence /\ e.written = w /\ e.size = size
      /\ e = [sequence |-> nextSequence, written |-> w, size |-> size]
  BY DEF Piece
<1>4. size \in Nat /\ w \in Nat /\ w <= size
  BY WalAssumption
<1>5. e \in Pieces /\ e.written \in 1 .. e.size
  <2>1. nextSequence \in 0 .. MaxSequence - 1
    BY <1>2
  <2> QED
    BY <1>3, <1>4, <2>1 DEF Pieces
<1>6. q = Append(p, e)
  BY <1>2 DEF IsFile
<1> HIDE DEF e
<1>7. /\ IsLog(q) /\ \A i \in 1 .. Len(p) : q[i] = p[i]
      /\ q[Len(p) + 1] = e
  BY <1>2, <1>5, <1>6, AppendToLog
<1> HIDE DEF p, q
<1>8. Stops(p) = {}
  BY <1>2 DEF Ordered
<1>9. ReadIn(q) = IF Len(q) \in Stops(q) THEN ReadIn(p)
                  ELSE ReadIn(p) \cup {q[Len(q)].sequence}
  BY <1>1, <1>2, <1>7, <1>8, ReadAppended
<1>10. CASE w = size
  BY <1>1, <1>9, <1>10 DEF Ordered, p, q
<1>11. CASE w # size
  <2>1. Torn(e)
    BY <1>3, <1>4, <1>11 DEF Torn
  <2>2. Len(q) \in 1 .. Len(q) /\ Torn(q[Len(q)])
    BY <1>1, <1>2, <1>7, <2>1
  <2>3. Len(q) \in Stops(q)
    BY <1>7, <2>2, StopAt
  <2> QED
    BY <1>9, <1>11, <2>3 DEF p, q
<1> QED
  BY <1>10, <1>11

\* Whoever writes behind a failure ends what the log promises.
LEMMA LogBreaks ==
  ASSUME WalInv, Reliable, MayAppend, InTrouble, InTrouble', process' = process,
         position' = position, exposed',
         UNCHANGED <<checkpoint, acknowledged, atRisk>>
  PROVE  LogStep
<1>1. process = "open"
  BY DEF MayAppend
<1>2. Promised' = Promised /\ ~Reliable'
  BY DEF Promised, Reliable
<1>3. LogNow' = Promised
  BY <1>2 DEF LogNow
<1>4. CASE position = AtEnd
  <2>1. Log!Break
    BY <1>1, <1>2, <1>3, <1>4 DEF Log!Break, LogNow, InTrouble
  <2> QED
    BY <2>1 DEF LogStep, Log!Next
<1>5. CASE position # AtEnd
  <2>1. \E kept \in SUBSET Promised :
           /\ \A n \in kept, m \in Promised \ kept : n < m
           /\ Promised' = kept
    BY <1>2
  <2>2. Log!Overwrite
    BY <1>1, <1>2, <1>3, <1>5, <2>1 DEF Log!Overwrite, LogNow, InTrouble
  <2> QED
    BY <2>2 DEF LogStep, Log!Next
<1> QED
  BY <1>4, <1>5

LEMMA LogWhenWritten ==
  ASSUME WalInv, WalInv', OtherInv, MemoryInv, Reliable,
         NEW size \in RecordSizes, WriteRecord(size)
  PROVE  LogStep /\ OtherInv'
<1> USE DEF engine, history
<1>1. /\ MayAppend /\ position = AtEnd /\ position' = position
      /\ file' = [file EXCEPT !.pieces = Append(@, Piece(nextSequence, size, size))]
      /\ exposed' = AppendIsExposed
      /\ UNCHANGED <<process, header, link, nextSequence, worker, checkpoint,
                     acknowledged, failed, atRisk>>
  BY DEF WriteRecord
<1>2. process = "open" /\ header \in {"written", "complete"}
  BY <1>1 DEF MayAppend, WalInv, HeaderInv
<1>3. InTrouble' = InTrouble /\ (exposed' <=> InTrouble)
  BY <1>1, <1>2 DEF InTrouble, HoldsMutex, AppendIsExposed, MayAppend, Reliable, PathIsDurable
<1>4. CASE InTrouble
  <2>1. OtherInv'
    BY <1>3, <1>4 DEF OtherInv, Reliable
  <2> QED
    BY <1>1, <1>3, <1>4, <2>1, LogBreaks
<1>5. CASE ~InTrouble
  <2>1. ~failed /\ Reliable' = Reliable /\ writer = "idle"
        /\ atRisk = {} /\ link = "current"
    BY <1>1, <1>3, <1>5 DEF InTrouble, Reliable, MayAppend
  <2>2. size \in 1 .. size
    BY WalAssumption DEF HeaderUnits
  <2>3. ReadIn(file'.pieces) = ReadIn(file.pieces) \cup {nextSequence}
    BY <1>1, <2>1, <2>2, ReadOfAppended
  <2>4. /\ nextSequence \in Nat /\ nextSequence \in 0 .. MaxSequence - 1
        /\ checkpoint \in Int
    BY <1>1, WalFacts DEF WalInv, MayAppend
  <2>5. checkpoint < nextSequence
    BY <1>1, <1>2 DEF MemoryInv
  <2>6. Replayable' = Replayable \cup {nextSequence}
    <3>1. Replayable' = {s \in ReadIn(file'.pieces) : checkpoint < s}
      BY <1>1 DEF Replayable, Readable
    <3>2. Replayable = {s \in ReadIn(file.pieces) : checkpoint < s}
      BY ReplayableIs DEF ReplayOf
    <3> QED
      BY <2>3, <2>5, <3>1, <3>2
  <2>7. /\ LogNow' = LogNow \cup {nextSequence}
        /\ Promised' = Promised
    BY <1>1, <2>1, <2>6 DEF LogNow, Promised
  <2>8. \A m \in LogNow : m < nextSequence
    <3>1. Ordered(file.pieces, nextSequence) /\ IsLog(file.pieces)
      BY <1>2, <2>1, WalFacts DEF WalInv, OrderInv
    <3> QED
      BY <3>1, ReadIsBelow, ReplayableIs DEF LogNow, ReplayOf
  <2>9. \A m \in LogNow \cup 0 .. checkpoint : m < nextSequence
    BY <2>4, <2>5, <2>8
  <2>10. Log!Append(nextSequence)
    BY <1>1, <1>2, <1>3, <1>5, <2>1, <2>7, <2>9 DEF Log!Append, LogNow, InTrouble
  <2>11. OtherInv'
    BY <1>1, <2>1 DEF OtherInv
  <2> QED
    BY <2>4, <2>10, <2>11 DEF LogStep, Log!Next
<1> QED
  BY <1>4, <1>5

LEMMA LogWhenTorn ==
  ASSUME WalInv, WalInv', OtherInv, Reliable,
         NEW size \in RecordSizes, NEW written \in 0 .. size - 1,
         FailWrite(size, written)
  PROVE  LogStep /\ OtherInv'
<1> USE DEF engine, history
<1>1. /\ MayAppend /\ position' = position
      /\ position = AtEnd \/ written = 0
      /\ file' = IF written = 0 THEN file
                 ELSE [file EXCEPT !.pieces =
                          Append(@, Piece(nextSequence, written, size))]
      /\ failed' = TRUE
      /\ exposed' = AppendIsExposed
      /\ UNCHANGED <<process, header, link, worker, checkpoint, acknowledged, atRisk>>
  BY DEF FailWrite, Fails
<1>2. process = "open" /\ header \in {"written", "complete"}
  BY <1>1 DEF MayAppend, WalInv, HeaderInv
<1>3. InTrouble' /\ (exposed' <=> InTrouble)
  BY <1>1, <1>2 DEF InTrouble, HoldsMutex, AppendIsExposed, MayAppend, Reliable, PathIsDurable
<1>4. CASE InTrouble
  <2>1. OtherInv'
    BY <1>3, <1>4 DEF OtherInv, Reliable
  <2> QED
    BY <1>1, <1>3, <1>4, <2>1, LogBreaks
<1>5. CASE ~InTrouble
  <2>1. ~failed /\ Reliable' = Reliable /\ position = AtEnd /\ link = "current"
    BY <1>1, <1>3, <1>5 DEF InTrouble, Reliable, MayAppend, WalInv, PositionInv
  <2>2. ReadIn(file'.pieces) = ReadIn(file.pieces)
    <3>1. CASE written = 0
      BY <1>1, <3>1
    <3>2. CASE written # 0
      <4>1. written \in 1 .. size /\ written # size
        BY <3>2, WalAssumption
      <4>2. file' = [file EXCEPT !.pieces =
                        Append(@, Piece(nextSequence, written, size))]
        BY <1>1, <3>2
      <4>3. MayAppend /\ position = AtEnd /\ ~failed
        BY <1>1, <2>1
      <4>4. ReadIn(file'.pieces) = IF written = size
                                   THEN ReadIn(file.pieces) \cup {nextSequence}
                                   ELSE ReadIn(file.pieces)
        BY <4>1, <4>2, <4>3, ReadOfAppended
      <4> QED
        BY <4>1, <4>4
    <3> QED
      BY <3>1, <3>2
  <2>3. Replayable' = Replayable
    BY <1>1, <2>2 DEF Replayable, Readable
  <2>4. LogNow' = LogNow /\ Promised' = Promised
    BY <1>1, <2>1, <2>3 DEF LogNow, Promised
  <2>5. OtherInv'
    BY <1>1, <2>1 DEF OtherInv
  <2> QED
    BY <1>1, <1>2, <1>3, <2>1, <2>4, <2>5, LogInTrouble
<1> QED
  BY <1>4, <1>5

\* The fsync settles the record before the call returns.
LEMMA LogWhenSynced ==
  ASSUME WalInv, WalInv', OtherInv, Reliable, SyncRecord
  PROVE  LogStep /\ OtherInv'
<1>1. /\ file' = Synced(file.pieces)
      /\ acknowledged' = acknowledged \cup {nextSequence}
      /\ ~exposed /\ atRisk = {}
      /\ atRisk' = atRisk
      /\ writer = "fsync"
      /\ UNCHANGED <<process, header, position, link, worker, checkpoint, failed, exposed>>
  BY DEF SyncRecord, Acknowledge, Reliable
<1>2. process = "open" /\ link = "current"
  BY <1>1 DEF WalInv, ControlInv, PathIsDurable
<1>3. OtherInv'
  BY <1>1, <1>2 DEF OtherInv, Reliable
<1>4. file'.pieces = file.pieces
  BY <1>1 DEF Synced
<1>5. Replayable' = Replayable
  BY <1>1, <1>4 DEF Replayable, Readable
<1>6. Reliable' = Reliable /\ LogNow' = LogNow
  BY <1>1, <1>5 DEF Reliable, LogNow
<1>7. Promised \subseteq Promised'
  BY <1>1 DEF Promised
<1>8. Promised' \subseteq LogNow
  <2>1. LogFacts'
    BY LogFactsHold, PTL
  <2> QED
    BY <1>6, <2>1 DEF LogFacts
<1>9. InTrouble' = InTrouble
  BY <1>1 DEF InTrouble, HoldsMutex
<1>10. Log!Settle
  BY <1>1, <1>2, <1>6, <1>7, <1>8, <1>9 DEF Log!Settle, LogNow, InTrouble
<1> QED
  BY <1>3, <1>10 DEF LogStep, Log!Next

\* A kill during an append leaves all but the record that was being written.
LEMMA InterruptedRemains ==
  ASSUME NEW f, IsFile(f), Len(f.pieces) \in 1 .. Len(f.pieces), writer = "fsync",
         position = AtEnd, NEW q \in AfterKill(f)
  PROVE  Remains(q, f.pieces, Len(f.pieces) - 1)
<1> DEFINE g == [pieces |-> f.pieces, synced |-> Len(f.pieces) - 1]
<1>1. /\ f = [pieces |-> f.pieces, synced |-> f.synced]
      /\ IsLog(f.pieces) /\ Len(f.pieces) \in Nat \ {0}
  BY LogTyped DEF IsFile
<1>2. /\ [f EXCEPT !.synced = Len(f.pieces) - 1] = g
      /\ g.pieces = f.pieces /\ g.synced = Len(f.pieces) - 1 /\ IsFile(g)
  BY <1>1 DEF IsFile
<1> HIDE DEF g
<1>3. q = f.pieces \/ q \in AfterPowerLoss(g)
  BY <1>2 DEF AfterKill
<1>4. CASE q = f.pieces
  <2>1. Remains(g.pieces, g.pieces, g.synced)
    BY <1>2, AllRemains
  <2> QED
    BY <1>2, <1>4, <2>1
<1>5. CASE q \in AfterPowerLoss(g)
  <2>1. Remains(q, g.pieces, g.synced)
    BY <1>2, <1>5, PowerLossRemains
  <2> QED
    BY <1>2, <2>1
<1> QED
  BY <1>3, <1>4, <1>5

\* The next process replays what the path names, which is as good as this file.
LEMMA FollowedReplays ==
  ASSUME OtherInv, Reliable, Reliable' = Reliable, checkpoint' = checkpoint,
         NEW left, FollowPath(left),
         link # "current" => ReplayOf(left.pieces, checkpoint) =
                                ReplayOf(file.pieces, checkpoint)
  PROVE  /\ OtherInv'
         /\ ReplayOf(file'.pieces, checkpoint) = ReplayOf(left.pieces, checkpoint)
<1>1. CASE link = "stale"
  <2>1. /\ file' = other /\ other' = left
        /\ ReplayOf(other.pieces, checkpoint) = ReplayOf(file.pieces, checkpoint)
    BY <1>1 DEF FollowPath, OtherInv
  <2> QED
    BY <1>1, <2>1 DEF OtherInv, ReplayOf, ReadIn
<1>2. CASE link # "stale"
  <2>1. file' = left /\ other' = other /\ link' = link
    BY <1>2 DEF FollowPath
  <2> QED
    BY <1>2, <2>1 DEF OtherInv, ReplayOf, ReadIn
<1> QED
  BY <1>1, <1>2

\* What a stop does to the log besides its end.
LEMMA LogWhenStopped ==
  ASSUME WalInv, Reliable, Stop
  PROVE  /\ process' # "open" /\ Reliable' = Reliable /\ Promised' = Promised
         /\ ~exposed /\ ~exposed' /\ checkpoint' = checkpoint
         /\ LogNow = Replayable /\ LogNow' = Replayable'
         /\ InTrouble' = (link' # "current" \/ header' = "written")
         /\ position' = AtEnd
         /\ Replayable' = ReplayOf(file'.pieces, checkpoint)
<1>1. /\ process' = "down" /\ position' = AtEnd /\ failed' = FALSE /\ worker' = "idle"
      /\ UNCHANGED <<checkpoint, acknowledged, exposed, atRisk>>
  BY DEF Stop
<1>2. Reliable' = Reliable /\ Promised' = Promised /\ ~exposed
  BY <1>1 DEF Reliable, Promised
<1>3. InTrouble' = (link' # "current" \/ header' = "written")
  BY <1>1 DEF InTrouble, HoldsMutex
<1>4. Replayable' = ReplayOf(file'.pieces, checkpoint)
  BY <1>1 DEF Replayable, Readable, ReplayOf
<1> QED
  BY <1>1, <1>2, <1>3, <1>4 DEF LogNow

LEMMA LogWhenKilled ==
  ASSUME WalInv, WalInv', OtherInv, Reliable, Kill \/ Close
  PROVE  LogStep /\ OtherInv'
<1>1. Stop
  BY DEF Kill, Close
<1>2. /\ process' # "open" /\ Reliable' = Reliable /\ Promised' = Promised
      /\ ~exposed /\ ~exposed' /\ checkpoint' = checkpoint
      /\ LogNow = Replayable /\ LogNow' = Replayable'
      /\ InTrouble' = (link' # "current" \/ header' = "written")
      /\ position' = AtEnd
      /\ Replayable' = ReplayOf(file'.pieces, checkpoint)
  BY <1>1, LogWhenStopped
<1>5. writer = "fsync" => /\ process = "open" /\ link = "current" /\ ~failed
                          /\ position = AtEnd
                          /\ LastSequence = nextSequence
                          /\ Len(file.pieces) \in 1 .. Len(file.pieces)
  BY <1>2 DEF WalInv, ControlInv, PositionInv, PathIsDurable, InFlight
<1>3. /\ IsFile(file) /\ IsLog(file.pieces) /\ process \in {"creating", "open"}
      /\ checkpoint \in Int
  BY WalFacts DEF Kill, Close, WalInv, TypeInv
<1>4. PICK left :
         /\ FollowPath(left)
         /\ \/ left.pieces = file.pieces
            \/ /\ writer = "fsync"
               /\ Remains(left.pieces, file.pieces, Len(file.pieces) - 1)
  <2>1. CASE Close
    BY <2>1 DEF Close
  <2>2. CASE Kill
    <3>1. PICK pieces \in AfterKill(file) : FollowPath(Shorter(file, pieces))
      BY <2>2 DEF Kill
    <3>2. Shorter(file, pieces).pieces = pieces
      BY DEF Shorter
    <3>3. writer # "fsync" => pieces = file.pieces
      BY <3>1 DEF AfterKill
    <3>4. writer = "fsync" => Remains(pieces, file.pieces, Len(file.pieces) - 1)
      BY <1>3, <1>5, <3>1, InterruptedRemains
    <3> QED
      BY <3>1, <3>2, <3>3, <3>4
  <2> QED
    BY <2>1, <2>2
<1>6. /\ OtherInv'
      /\ Replayable' = ReplayOf(left.pieces, checkpoint)
  <2>1. link # "current" => left.pieces = file.pieces
    BY <1>4, <1>5
  <2> QED
    BY <1>2, <1>4, <2>1, FollowedReplays
<1>7. \/ Replayable' = Replayable
      \/ /\ writer = "fsync"
         /\ Replayable' = Replayable \ {nextSequence}
         /\ nextSequence \in Replayable
         /\ \A m \in Replayable : m <= nextSequence
  <2>1. CASE left.pieces = file.pieces
    BY <1>6, <2>1, ReplayableIs
  <2>2. CASE writer = "fsync" /\ Remains(left.pieces, file.pieces, Len(file.pieces) - 1)
    <3>1. Stops(file.pieces) = {}
      BY <1>5, <2>2 DEF WalInv, OrderInv, Ordered
    <3>2. \/ ReadIn(left.pieces) = ReadIn(file.pieces)
          \/ /\ ReadIn(left.pieces) = ReadIn(file.pieces) \ {LastSequence}
             /\ LastSequence \in ReadIn(file.pieces)
             /\ \A m \in ReadIn(file.pieces) : m <= LastSequence
      BY <1>3, <1>5, <2>2, <3>1, ReplayInterrupted DEF LastSequence
    <3>3. CASE ReadIn(left.pieces) = ReadIn(file.pieces)
      BY <1>6, <3>3, ReplayableIs DEF ReplayOf
    <3>4. CASE /\ ReadIn(left.pieces) = ReadIn(file.pieces) \ {LastSequence}
               /\ LastSequence \in ReadIn(file.pieces)
               /\ \A m \in ReadIn(file.pieces) : m <= LastSequence
      <4>1. /\ Replayable' = Replayable \ {nextSequence}
            /\ \A m \in Replayable : m <= nextSequence
            /\ nextSequence \in Replayable <=> checkpoint < nextSequence
        BY <1>5, <1>6, <2>2, <3>4, ReplayableIs DEF ReplayOf
      <4> QED
        BY <2>2, <4>1
    <3> QED
      BY <3>2, <3>3, <3>4
  <2> QED
    BY <1>4, <2>1, <2>2
<1>8. CASE process = "open"
  <2>1. \/ LogNow' = LogNow
        \/ \E n \in LogNow \ Promised :
              /\ \A m \in LogNow : m <= n
              /\ LogNow' = LogNow \ {n}
    <3>1. CASE Replayable' = Replayable
      BY <1>2, <3>1
    <3>2. CASE /\ writer = "fsync"
               /\ Replayable' = Replayable \ {nextSequence}
               /\ nextSequence \in Replayable
               /\ \A m \in Replayable : m <= nextSequence
      <4>1. nextSequence \notin Promised
        <5>1. \A t \in Safe : t < nextSequence
          BY <3>2 DEF WalInv, NumberInv
        <5>2. nextSequence \in Nat
          BY WalFacts DEF WalInv
        <5> QED
          BY <5>1, <5>2 DEF Promised, Safe
      <4> QED
        BY <1>2, <3>2, <4>1
    <3> QED
      BY <1>7, <3>1, <3>2
  <2>2. InTrouble' \in BOOLEAN /\ (process = "open")' = FALSE
    BY <1>2
  <2>3. Log!Stop
    BY <1>2, <1>8, <2>1, <2>2 DEF Log!Stop, LogNow, InTrouble
  <2> QED
    BY <1>6, <2>3 DEF LogStep, Log!Next
<1>9. CASE process # "open"
  <2>1. writer # "fsync"
    BY <1>5, <1>9
  <2>2. LogNow' = LogNow
    BY <1>2, <1>7, <2>1
  <2> QED
    BY <1>2, <1>6, <1>9, <2>2, LogInTrouble
<1> QED
  BY <1>8, <1>9

LEMMA LogWhenPowerIsLost ==
  ASSUME WalInv, WalInv', OtherInv, Reliable, LosePower
  PROVE  LogStep /\ OtherInv'
<1>1. Stop /\ link' = "current"
  BY DEF LosePower
<1>2. /\ process' # "open" /\ Reliable' = Reliable /\ Promised' = Promised
      /\ ~exposed /\ ~exposed' /\ checkpoint' = checkpoint
      /\ LogNow = Replayable /\ LogNow' = Replayable'
      /\ InTrouble' = (link' # "current" \/ header' = "written")
      /\ position' = AtEnd
      /\ Replayable' = ReplayOf(file'.pieces, checkpoint)
  BY <1>1, LogWhenStopped
<1>3. OtherInv'
  BY <1>1 DEF OtherInv, Reliable
<1>4. /\ header' \in {"absent", "partial", "complete"}
      /\ header' # "complete" => file' = EmptyFile
  BY DEF LosePower, WalInv, TypeInv
<1>6. checkpoint \in Int
  BY WalFacts DEF WalInv
<1>9. /\ Replayable' \subseteq Replayable
      /\ \A l \in Replayable \ Replayable', m \in Replayable' : m < l
  <2>1. CASE header' # "complete"
    <3>1. Replayable' = {}
      BY <1>2, <1>4, <2>1, NothingIsRead, EmptyFileTyped DEF ReplayOf
    <3> QED
      BY <3>1
  <2>2. CASE header' = "complete"
    <3>1. PICK pieces \in LeftByPowerLoss : file' = Synced(pieces)
      BY <2>2 DEF LosePower
    <3>2. PICK f \in Candidates : pieces \in AfterPowerLoss(f)
      <4>1. pieces \in UNION {AfterPowerLoss(f) : f \in Candidates}
        BY <1>2, <3>1 DEF LeftByPowerLoss
      <4> QED
        BY <4>1
    <3>3. IsFile(f) /\ f.synced \in Nat /\ IsLog(f.pieces)
      <4>1. IsFile(f)
        BY <3>2 DEF Candidates, WalInv, TypeInv
      <4>2. IsLog(f.pieces) /\ f.synced \in 0 .. Len(f.pieces)
        BY <4>1 DEF IsFile
      <4> QED
        BY <4>1, <4>2
    <3>4. ReplayOf(f.pieces, checkpoint) = Replayable
      <4>1. CASE f = file
        BY <4>1, ReplayableIs
      <4>2. CASE f # file
        BY <3>2, <4>2, ReplayableIs DEF Candidates, OtherInv
      <4> QED
        BY <4>1, <4>2
    <3>5. file'.pieces = pieces
      BY <3>1 DEF Synced
    <3>6. Remains(pieces, f.pieces, f.synced)
      BY <3>2, <3>3, PowerLossRemains
    <3>7. /\ ReplayOf(pieces, checkpoint) \subseteq ReplayOf(f.pieces, checkpoint)
          /\ \A l \in ReplayOf(f.pieces, checkpoint) \ ReplayOf(pieces, checkpoint),
                m \in ReplayOf(pieces, checkpoint) : m < l
      BY <1>6, <3>3, <3>6, ReplayRemains
    <3> QED
      BY <1>2, <3>4, <3>5, <3>7
  <2> QED
    BY <2>1, <2>2
<1>10. Promised' \subseteq LogNow'
  <2>1. LogFacts'
    BY LogFactsHold, PTL
  <2> QED
    BY <2>1 DEF LogFacts
<1>11. \A s \in LogNow' : s \notin 0 .. checkpoint'
  <2>1. LogFacts'
    BY LogFactsHold, PTL
  <2> QED
    BY <1>2, <1>6, <2>1 DEF LogFacts
<1>12. \E lost \in SUBSET (LogNow \ Promised) :
          /\ \A n \in lost, m \in LogNow \ lost : m < n
          /\ LogNow' = (LogNow \ lost) \ 0 .. checkpoint'
  <2> DEFINE lost == LogNow \ LogNow'
  <2>1. lost \in SUBSET (LogNow \ Promised)
    BY <1>2, <1>10
  <2>2. LogNow \ lost = LogNow'
    BY <1>2, <1>9
  <2>3. \A n \in lost, m \in LogNow \ lost : m < n
    BY <1>2, <1>9, <2>2
  <2>4. LogNow' = (LogNow \ lost) \ 0 .. checkpoint'
    BY <1>11, <2>2
  <2> QED
    BY <2>1, <2>3, <2>4
<1>13. Log!LosePower
  <2>1. (process = "open")' = FALSE /\ InTrouble' = FALSE
    BY <1>1, <1>2, <1>4
  <2>2. (0 .. checkpoint)' = 0 .. checkpoint
    BY <1>2
  <2> QED
    BY <1>2, <1>10, <1>12, <2>1, <2>2 DEF Log!LosePower, LogNow, InTrouble
<1> QED
  BY <1>3, <1>13 DEF LogStep, Log!Next

LEMMA NextTakesLogStep ==
  ASSUME WalInv, WalInv', OtherInv, MemoryInv, [Next]_vars
  PROVE  LogStep /\ OtherInv' /\ MemoryInv'
<1>1. CASE UNCHANGED vars
  <2> USE DEF vars, inodes, engine, history
  <2>1. /\ OtherInv' /\ MemoryInv'
        /\ Replayable' = Replayable /\ Promised' = Promised
        /\ (Reliable' <=> Reliable) /\ (InTrouble' <=> InTrouble)
    BY <1>1 DEF OtherInv, MemoryInv, Replayable, Readable, ReadIn, ReplayOf, Promised,
                Reliable, InTrouble, HoldsMutex
  <2>2. LogNow' = LogNow
    BY <2>1 DEF LogNow
  <2> QED
    BY <1>1, <2>1, <2>2, LogStutters
<1>2. CASE Next /\ ~Reliable
  <2>1. LogStep /\ (Reliable' => link' = "current")
    BY <1>2, LogWhenUnreliable
  <2> QED
    BY <1>2, <2>1, NextPreservesMemoryInv DEF OtherInv
<1>3. CASE Next /\ Reliable
  <2>1. CASE Overwriting
    BY <1>3, <2>1, LogIsOverwritten, NextPreservesMemoryInv DEF OtherInv
  <2>2. CASE ~Overwriting
    <3>1. LogStep /\ OtherInv'
      BY <1>3, <2>2, LogWhenOpened, LogWhenScanned, LogWhenFailing, LogWhenReclaimed,
         LogWhenCovered, LogWhenWritten, LogWhenTorn, LogWhenSynced, LogWhenKilled,
         LogWhenPowerIsLost
      DEF Next, Overwriting
    <3> QED
      BY <1>3, <3>1, NextPreservesMemoryInv
  <2> QED
    BY <2>1, <2>2
<1> QED
  BY <1>1, <1>2, <1>3

LEMMA InitIsLogInit == Init => Log!Init /\ OtherInv /\ MemoryInv
<1> SUFFICES ASSUME Init PROVE Log!Init /\ OtherInv /\ MemoryInv
  OBVIOUS
<1>1. /\ file.pieces = <<>> /\ acknowledged = {} /\ checkpoint = -1
      /\ link = "current" /\ process = "down" /\ Reliable /\ ~failed
      /\ header = "absent" /\ position = AtEnd /\ worker = "idle" /\ memtable = {}
  BY EmptyFileTyped DEF Init, NoCheckpoint, Reliable
<1>2. Replayable = {} /\ Promised = {}
  BY <1>1, NothingIsRead, ReplayableIs DEF ReplayOf, Promised
<1>3. 0 .. checkpoint = {}
  BY <1>1
<1> QED
  BY <1>1, <1>2, <1>3 DEF Log!Init, OtherInv, MemoryInv

\* The file is the log that the engine counts on, whatever fails and whenever the
\* process stops, in every state between two system calls: until somebody writes
\* behind a failure, from then on as far as records are not at risk, and never beyond
\* the point where a scan that ended half-way has left fd_ (kronos::Wal).
THEOREM WalImplementsWalStore == Spec => ImplementsWalStore
<1>1. WalInv /\ WalInv' /\ OtherInv /\ MemoryInv /\ [Next]_vars
        => LogStep /\ OtherInv' /\ MemoryInv'
  BY NextTakesLogStep
<1>2. Init => Log!Init /\ OtherInv /\ MemoryInv
  BY InitIsLogInit
<1> QED
  BY <1>1, <1>2, WalInvIsInvariant, PTL DEF Spec, ImplementsWalStore, Log!Spec, LogStep

=============================================================================
