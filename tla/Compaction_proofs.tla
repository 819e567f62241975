-------------------------- MODULE Compaction_proofs --------------------------
(***************************************************************************)
(* Facts about the operators of Compaction, for any keys and records: the  *)
(* newest version of a key, the value it amounts to, the merge, the key    *)
(* range of a file and the inputs of a compaction.                         *)
(***************************************************************************)
EXTENDS Compaction, FiniteSetTheorems, FunctionTheorems, TLAPS

\* No sequence number stands for two records.
SeqUnique(records) == \A r, s \in records : r.sequence = s.sequence => r = s

\* A finite set of records, no two of them with the same sequence number.
IsHistory(records) ==
    /\ records \subseteq Record
    /\ IsFiniteSet(records)
    /\ SeqUnique(records)

-----------------------------------------------------------------------------
(* Finite sets of integers *)

LEMMA LeastNatural ==
  ASSUME NEW T, T \subseteq Nat, T # {}
  PROVE  \E x \in T : \A y \in T : x <= y
  <1>1. PICK x \in T : \A y \in T : ~(<<y, x>> \in OpToRel(<, Nat))
    BY NatLessThanWellFounded, WFMin
  <1>2. \A y \in T : ~(y < x)
    BY <1>1 DEF OpToRel
  <1> QED
    BY <1>2

\* The smallest set without a greatest element would have one.
LEMMA GreatestInteger ==
  ASSUME NEW S, S \subseteq Int, IsFiniteSet(S), S # {}
  PROVE  \E x \in S : \A y \in S : y <= x
  <1> DEFINE Bad == {n \in Nat : \E U \in SUBSET S :
                        /\ U # {} /\ Cardinality(U) = n
                        /\ ~ \E x \in U : \A y \in U : y <= x}
  <1>1. ASSUME NEW n \in Bad, \A m \in Bad : n <= m PROVE FALSE
    <2>1. PICK U \in SUBSET S : /\ U # {} /\ Cardinality(U) = n
                                /\ ~ \E x \in U : \A y \in U : y <= x
      BY <1>1
    <2>2. PICK a \in U : TRUE
      BY <2>1
    <2> DEFINE V == U \ {a}
    <2>3. IsFiniteSet(U)
      BY FS_Subset
    <2>4. Cardinality(V) = n - 1 /\ n \in Nat
      BY <2>1, <2>2, <2>3, FS_RemoveElement
    <2>5. IsFiniteSet(V)
      BY <2>3, FS_RemoveElement
    <2>6. n - 1 \in Nat
      BY <2>4, <2>5, FS_CardinalityType
    <2>7. n - 1 \notin Bad
      BY <1>1, <2>4
    <2>8. CASE V = {}
      BY <2>1, <2>2, <2>8
    <2>9. CASE V # {}
      <3>1. \E x \in V : \A y \in V : y <= x
        BY <2>4, <2>6, <2>7, <2>9
      <3>2. PICK x \in V : \A y \in V : y <= x
        BY <3>1
      <3>3. a \in Int /\ x \in Int /\ \A y \in U : y \in Int
        BY <2>2
      <3>4. CASE a <= x
        BY <2>1, <3>2, <3>4
      <3>5. CASE ~(a <= x)
        <4>1. \A y \in U : y <= a
          BY <3>2, <3>3, <3>5
        <4> QED
          BY <2>1, <2>2, <4>1
      <3> QED
        BY <3>4, <3>5
    <2> QED
      BY <2>8, <2>9
  <1>2. Bad = {}
    BY <1>1, LeastNatural
  <1>3. Cardinality(S) \in Nat
    BY FS_CardinalityType
  <1> QED
    BY <1>2, <1>3

LEMMA FiniteImage ==
  ASSUME NEW S, IsFiniteSet(S), NEW f, DOMAIN f = S, f = [x \in S |-> f[x]]
  PROVE  IsFiniteSet({f[x] : x \in S})
  <1> DEFINE T == {f[x] : x \in S}
  <1>1. f \in [S -> T]
    OBVIOUS
  <1>2. f \in Surjection(S, T)
    BY <1>1, Fun_IsSurj
  <1> QED
    BY <1>2, FS_Surjection

LEMMA LeastInteger ==
  ASSUME NEW S, S \subseteq Int, IsFiniteSet(S), S # {}
  PROVE  \E x \in S : \A y \in S : x <= y
  <1> DEFINE f == [x \in S |-> -x]
             T == {f[x] : x \in S}
  <1>1. IsFiniteSet(T)
    BY FiniteImage
  <1>2. T \subseteq Int /\ T # {}
    <2>1. \A x \in S : x \in Int /\ f[x] = -x
      OBVIOUS
    <2>2. \A x \in S : f[x] \in Int /\ f[x] \in T
      BY <2>1
    <2> QED
      BY <2>2
  <1>3. PICK t \in T : \A u \in T : u <= t
    BY <1>1, <1>2, GreatestInteger
  <1>4. PICK x \in S : t = -x
    OBVIOUS
  <1>5. \A y \in S : -y \in T
    OBVIOUS
  <1>6. \A y \in S : -y <= -x
    BY <1>3, <1>4, <1>5
  <1>7. \A y \in S : y \in Int /\ x \in Int
    OBVIOUS
  <1> QED
    BY <1>4, <1>6, <1>7

-----------------------------------------------------------------------------
(* The newest version *)

LEMMA NewestExists ==
  ASSUME NEW T, T \subseteq Record, IsFiniteSet(T), T # {}
  PROVE  /\ Newest(T) \in T
         /\ \A s \in T : s.sequence <= Newest(T).sequence
         /\ Newest(T).sequence \in Nat
  <1> DEFINE f == [r \in T |-> r.sequence]
             Q == {f[r] : r \in T}
  <1>1. IsFiniteSet(Q)
    BY FiniteImage
  <1>2. Q \subseteq Int /\ Q # {}
    BY DEF Record
  <1>3. PICK q \in Q : \A p \in Q : p <= q
    BY <1>1, <1>2, GreatestInteger
  <1>4. PICK r \in T : r.sequence = q
    BY <1>3
  <1>5. \A s \in T : s.sequence <= r.sequence
    BY <1>3, <1>4
  <1>6. /\ Newest(T) \in T
        /\ \A s \in T : s.sequence <= Newest(T).sequence
    BY <1>4, <1>5 DEF Newest
  <1> QED
    BY <1>6 DEF Record

LEMMA NewestUnique ==
  ASSUME NEW T, IsHistory(T), NEW r \in T, \A s \in T : s.sequence <= r.sequence
  PROVE  Newest(T) = r
  <1>1. /\ Newest(T) \in T
        /\ \A s \in T : s.sequence <= Newest(T).sequence
    BY NewestExists DEF IsHistory
  <1>2. r.sequence \in Nat /\ Newest(T).sequence \in Nat
    BY <1>1 DEF IsHistory, Record
  <1>3. r.sequence = Newest(T).sequence
    BY <1>1, <1>2
  <1> QED
    BY <1>1, <1>3 DEF IsHistory, SeqUnique

LEMMA VersionsHistory ==
  ASSUME NEW T, IsHistory(T), NEW k
  PROVE  IsHistory(Versions(T, k))
  <1>1. Versions(T, k) \in SUBSET T
    BY DEF Versions
  <1> QED
    BY <1>1, FS_Subset DEF IsHistory, SeqUnique

LEMMA HistorySubset ==
  ASSUME NEW T, IsHistory(T), NEW U, U \subseteq T
  PROVE  IsHistory(U)
  BY FS_Subset DEF IsHistory, SeqUnique

\* The value of a key whose newest version is r.
LEMMA ValueOfNewest ==
  ASSUME NEW T, IsHistory(T), NEW k, NEW r \in Versions(T, k),
         \A s \in Versions(T, k) : s.sequence <= r.sequence
  PROVE  ValueIn(T, k) = ValueOf({r})
  <1>1. Newest(Versions(T, k)) = r
    BY VersionsHistory, NewestUnique
  <1>2. {r} \subseteq Versions(T, k)
    OBVIOUS
  <1>3. IsHistory({r})
    BY <1>2, VersionsHistory, HistorySubset
  <1>4. r.sequence <= r.sequence
    BY <1>3 DEF IsHistory, Record
  <1>5. Newest({r}) = r
    BY <1>3, <1>4, NewestUnique
  <1> QED
    BY <1>1, <1>5 DEF ValueIn, ValueOf

LEMMA ValueAbsent ==
  ASSUME NEW T, NEW k, Versions(T, k) = {}
  PROVE  ValueIn(T, k) = Absent
  BY DEF ValueIn, ValueOf

\* A key with a version has a newest one.
LEMMA NewestVersion ==
  ASSUME NEW T, IsHistory(T), NEW k, Versions(T, k) # {}
  PROVE  \E r \in Versions(T, k) : \A s \in Versions(T, k) : s.sequence <= r.sequence
  BY VersionsHistory, NewestExists DEF IsHistory

\* Of two layers the upper one decides about the keys it knows.
LEMMA ValueLayered ==
  ASSUME NEW A, NEW B, IsHistory(A \cup B), NEW k,
         \A r \in Versions(A, k), s \in Versions(B, k) : s.sequence < r.sequence
  PROVE  ValueIn(A \cup B, k) = IF Versions(A, k) = {} THEN ValueIn(B, k)
                                ELSE ValueIn(A, k)
  <1>1. Versions(A \cup B, k) = Versions(A, k) \cup Versions(B, k)
    BY DEF Versions
  <1>2. CASE Versions(A, k) = {}
    BY <1>1, <1>2 DEF ValueIn
  <1>3. CASE Versions(A, k) # {}
    <2>1. IsHistory(A)
      BY HistorySubset
    <2>2. PICK r \in Versions(A, k) : \A s \in Versions(A, k) : s.sequence <= r.sequence
      BY <1>3, <2>1, NewestVersion
    <2>3. \A s \in Versions(A \cup B, k) : s.sequence \in Nat
      BY VersionsHistory DEF IsHistory, Record
    <2>4. ASSUME NEW s \in Versions(A \cup B, k) PROVE s.sequence <= r.sequence
      <3>1. CASE s \in Versions(A, k)
        BY <2>2, <3>1
      <3>2. CASE s \in Versions(B, k)
        <4>1. s.sequence < r.sequence
          BY <2>2, <3>2
        <4>2. s.sequence \in Nat /\ r.sequence \in Nat
          BY <1>1, <2>2, <2>3
        <4> QED
          BY <4>1, <4>2
      <3> QED
        BY <1>1, <3>1, <3>2
    <2>5. ValueIn(A, k) = ValueOf({r})
      BY <2>1, <2>2, ValueOfNewest
    <2>6. ValueIn(A \cup B, k) = ValueOf({r})
      BY <1>1, <2>4, ValueOfNewest
    <2> QED
      BY <1>3, <2>5, <2>6
  <1> QED
    BY <1>2, <1>3

\* A set of records that only leaves out what is not the newest has the same
\* values.
LEMMA ValueOfCover ==
  ASSUME NEW T, IsHistory(T), NEW U, U \subseteq T, NEW k,
         \A r \in Versions(T, k) : \E s \in Versions(U, k) : r.sequence <= s.sequence
  PROVE  ValueIn(U, k) = ValueIn(T, k)
  <1>1. IsHistory(U)
    BY HistorySubset
  <1>2. Versions(U, k) \subseteq Versions(T, k)
    BY DEF Versions
  <1>3. CASE Versions(T, k) = {}
    BY <1>2, <1>3 DEF ValueIn
  <1>4. CASE Versions(T, k) # {}
    <2>1. PICK r \in Versions(T, k) : \A s \in Versions(T, k) : s.sequence <= r.sequence
      BY <1>4, NewestVersion
    <2>2. PICK u \in Versions(U, k) : r.sequence <= u.sequence
      OBVIOUS
    <2>3. u \in Versions(T, k) /\ u.sequence \in Nat /\ r.sequence \in Nat
      BY <1>2, <2>2, VersionsHistory DEF IsHistory, Record
    <2>4. u.sequence = r.sequence
      BY <2>1, <2>2, <2>3
    <2>5. u = r
      BY <2>3, <2>4, VersionsHistory DEF IsHistory, SeqUnique
    <2>6. ValueIn(T, k) = ValueOf({r})
      BY <2>1, ValueOfNewest
    <2>7. ValueIn(U, k) = ValueOf({r})
      BY <1>1, <1>2, <2>1, <2>2, <2>5, ValueOfNewest
    <2> QED
      BY <2>6, <2>7
  <1> QED
    BY <1>3, <1>4

LEMMA ValueTypes ==
  ASSUME NEW T, IsHistory(T), NEW k
  PROVE  ValueIn(T, k) = Absent \/ \E r \in Versions(T, k) : ValueIn(T, k) = r.sequence
  BY VersionsHistory, NewestExists DEF ValueIn, ValueOf, IsHistory

LEMMA SingleValue ==
  ASSUME NEW r \in Record
  PROVE  ValueOf({r}) = IF r.operation = "DELETE" THEN Absent ELSE r.sequence
  <1>1. Newest({r}) = r
    BY FS_Singleton, NewestExists
  <1> QED
    BY <1>1 DEF ValueOf

-----------------------------------------------------------------------------
(* The merge *)

\* The output of a merge has one record per key.
LEMMA MergeIsTable ==
  ASSUME NEW T, IsFiniteSet(T), NEW d \in BOOLEAN
  PROVE  /\ Merge(T, d) \subseteq T
         /\ IsFiniteSet(Merge(T, d))
         /\ IsTable(Merge(T, d))
  <1>1. Merge(T, d) \in SUBSET T
    BY DEF Merge
  <1>2. IsTable(Merge(T, d))
    BY DEF Merge, IsTable
  <1> QED
    BY <1>1, <1>2, FS_Subset

\* A merge keeps the value of every key: it leaves out older versions and the
\* tombstones that hide nothing.
LEMMA MergeValue ==
  ASSUME NEW T, IsHistory(T), NEW d \in BOOLEAN, NEW k
  PROVE  ValueIn(Merge(T, d), k) = ValueIn(T, k)
  <1> DEFINE V == Versions(T, k)
             M == Versions(Merge(T, d), k)
  <1>1. M \subseteq V
    BY DEF Merge, Versions
  <1>2. CASE V = {}
    BY <1>1, <1>2 DEF ValueIn
  <1>3. CASE V # {}
    <2> DEFINE n == Newest(V)
    <2>1. IsHistory(V)
      BY VersionsHistory
    <2>2. n \in V /\ \A s \in V : s.sequence <= n.sequence
      BY <1>3, <2>1, NewestExists DEF IsHistory
    <2>3. n \in T /\ n.key = k
      BY <2>2 DEF Versions
    <2>4. \A r \in M : r = n /\ ~(d /\ r.operation = "DELETE")
      BY DEF Merge, Versions
    <2>5. ValueIn(T, k) = ValueOf({n})
      BY <2>2, ValueOfNewest
    <2>6. CASE d /\ n.operation = "DELETE"
      <3>1. M = {}
        BY <2>4, <2>6
      <3> QED
        BY <1>3, <2>6, <3>1 DEF ValueIn, ValueOf
    <2>7. CASE ~(d /\ n.operation = "DELETE")
      <3>1. n \in M
        BY <2>3, <2>7 DEF Merge, Versions
      <3>2. M = {n}
        BY <2>4, <3>1
      <3> QED
        BY <2>5, <3>2 DEF ValueIn
    <2> QED
      BY <2>6, <2>7
  <1> QED
    BY <1>2, <1>3

\* A merge that keeps the tombstones has a version at least as new as any.
LEMMA MergeCovers ==
  ASSUME NEW T, T \subseteq Record, IsFiniteSet(T), NEW r \in T
  PROVE  \E s \in Merge(T, FALSE) : s.key = r.key /\ r.sequence <= s.sequence
  <1> DEFINE V == Versions(T, r.key)
  <1>1. V \in SUBSET T /\ r \in V
    BY DEF Versions
  <1>2. IsFiniteSet(V) /\ V \subseteq Record /\ V # {}
    BY <1>1, FS_Subset
  <1>3. Newest(V) \in V /\ \A s \in V : s.sequence <= Newest(V).sequence
    BY <1>2, NewestExists
  <1>4. Newest(V) \in T /\ Newest(V).key = r.key
    BY <1>3 DEF Versions
  <1>5. Newest(V) \in Merge(T, FALSE)
    BY <1>4 DEF Merge
  <1> QED
    BY <1>1, <1>3, <1>4, <1>5

-----------------------------------------------------------------------------
(* The key range of a file *)

LEMMA FiniteKeys ==
  ASSUME NEW T, T \subseteq Record, IsFiniteSet(T)
  PROVE  KeysOf(T) \subseteq Keys /\ IsFiniteSet(KeysOf(T))
  <1> DEFINE f == [r \in T |-> r.key]
  <1>1. IsFiniteSet({f[r] : r \in T})
    BY FiniteImage
  <1>2. KeysOf(T) = {f[r] : r \in T}
    BY DEF KeysOf
  <1> QED
    BY <1>1, <1>2 DEF KeysOf, Record

LEMMA MetadataRange ==
  ASSUME NEW T, T \subseteq Record, IsFiniteSet(T), T # {}, NEW p
  PROVE  /\ MetadataFor(p, T).path = p
         /\ MetadataFor(p, T).smallest_key \in KeysOf(T)
         /\ MetadataFor(p, T).largest_key \in KeysOf(T)
         /\ \A r \in T : InRange(r.key, MetadataFor(p, T))
         /\ p \in Path => MetadataFor(p, T) \in Metadata
  <1> DEFINE K == KeysOf(T)
  <1>1. K \subseteq Int /\ IsFiniteSet(K) /\ K # {}
    BY FiniteKeys, KeysAssumption DEF KeysOf
  <1>2. SmallestKey(K) \in K /\ \A j \in K : SmallestKey(K) <= j
    BY <1>1, LeastInteger DEF SmallestKey
  <1>3. LargestKey(K) \in K /\ \A j \in K : j <= LargestKey(K)
    BY <1>1, GreatestInteger DEF LargestKey
  <1>4. \A r \in T : r.key \in K
    BY DEF KeysOf
  <1>5. K \subseteq Keys
    BY FiniteKeys
  <1> QED
    BY <1>2, <1>3, <1>4, <1>5 DEF MetadataFor, InRange, Metadata

-----------------------------------------------------------------------------
(* The inputs of a compaction *)

\* No two files of the bottom level share a key.
LevelOneDisjoint(files) ==
    \A f, g \in AtLevel(files, 1) :
        f # g => ~RangesOverlap(f.smallest_key, f.largest_key,
                                g.smallest_key, g.largest_key)

RangesAreOrdered(files) == \A f \in files : f.smallest_key <= f.largest_key

\* A file that a compaction leaves alone lies to one side of all its inputs.
LEMMA PickIsolates ==
  ASSUME NEW files, files \subseteq Metadata, IsFiniteSet(files),
         ShouldCompact(files), LevelOneDisjoint(files), RangesAreOrdered(files),
         NEW g \in files \ PickCompaction(files)
  PROVE  /\ LevelOf(g) = 1
         /\ \/ \A f \in PickCompaction(files) : f.largest_key < g.smallest_key
            \/ \A f \in PickCompaction(files) : g.largest_key < f.smallest_key
  <1> DEFINE L0 == AtLevel(files, 0)
             A == {f.smallest_key : f \in L0}
             Z == {f.largest_key : f \in L0}
             a == SmallestKey(A)
             z == LargestKey(Z)
             Pick == PickCompaction(files)
  <1>1. \A f \in files : f.smallest_key \in Int /\ f.largest_key \in Int
    BY KeysAssumption DEF Metadata
  <1>2. L0 \in SUBSET files
    BY DEF AtLevel
  <1>3. IsFiniteSet(L0) /\ L0 # {}
    <2>1. IsFiniteSet(L0)
      BY <1>2, FS_Subset
    <2> QED
      BY <2>1, FS_EmptySet, TriggerAssumption DEF ShouldCompact
  <1>4. IsFiniteSet(A) /\ A \subseteq Int /\ A # {}
    <2> DEFINE fn == [f \in L0 |-> f.smallest_key]
    <2>1. IsFiniteSet({fn[f] : f \in L0})
      BY <1>3, FiniteImage
    <2>2. A = {fn[f] : f \in L0}
      OBVIOUS
    <2> QED
      BY <1>1, <1>2, <1>3, <2>1, <2>2
  <1>5. IsFiniteSet(Z) /\ Z \subseteq Int /\ Z # {}
    <2> DEFINE fn == [f \in L0 |-> f.largest_key]
    <2>1. IsFiniteSet({fn[f] : f \in L0})
      BY <1>3, FiniteImage
    <2>2. Z = {fn[f] : f \in L0}
      OBVIOUS
    <2> QED
      BY <1>1, <1>2, <1>3, <2>1, <2>2
  <1>6. a \in Int /\ \A f \in L0 : a <= f.smallest_key
    BY <1>4, LeastInteger DEF SmallestKey
  <1>7. z \in Int /\ \A f \in L0 : f.largest_key <= z
    BY <1>5, GreatestInteger DEF LargestKey
  <1>8. Pick = L0 \cup {f \in AtLevel(files, 1) :
                          RangesOverlap(a, z, f.smallest_key, f.largest_key)}
    BY DEF PickCompaction
  <1>9. g \in AtLevel(files, 1) /\ LevelOf(g) = 1
    <2>1. g.path \in Levels \X (Nat \ {0})
      BY DEF Metadata, Path
    <2>2. LevelOf(g) \in Levels
      BY <2>1 DEF LevelOf
    <2> QED
      BY <1>8, <2>2 DEF Levels, AtLevel
  <1> HIDE DEF L0, A, Z, a, z, Pick
  <1>10. ~RangesOverlap(a, z, g.smallest_key, g.largest_key)
    BY <1>8, <1>9 DEF Pick
  <1>11. ASSUME NEW f \in Pick
         PROVE  /\ f \in files
                /\ \/ f \in L0
                   \/ /\ f \in AtLevel(files, 1)
                      /\ RangesOverlap(a, z, f.smallest_key, f.largest_key)
                      /\ ~RangesOverlap(f.smallest_key, f.largest_key,
                                        g.smallest_key, g.largest_key)
    <2>1. CASE f \in L0
      BY <1>2, <2>1
    <2>2. CASE f \notin L0
      <3>1. f \in AtLevel(files, 1) /\ f # g
        BY <1>8, <2>2 DEF Pick
      <3> QED
        BY <1>8, <1>9, <2>2, <3>1 DEF LevelOneDisjoint, AtLevel
    <2> QED
      BY <2>1, <2>2
  <1>12. g.smallest_key <= g.largest_key
    BY DEF RangesAreOrdered
  <1>13. CASE z < g.smallest_key
    <2>1. ASSUME NEW f \in Pick PROVE f.largest_key < g.smallest_key
      BY <1>1, <1>7, <1>11, <1>12, <1>13 DEF RangesOverlap
    <2> QED
      BY <1>9, <2>1 DEF Pick
  <1>14. CASE g.largest_key < a
    <2>1. ASSUME NEW f \in Pick PROVE g.largest_key < f.smallest_key
      BY <1>1, <1>6, <1>11, <1>12, <1>14 DEF RangesOverlap
    <2> QED
      BY <1>9, <2>1 DEF Pick
  <1> QED
    BY <1>10, <1>13, <1>14 DEF RangesOverlap

-----------------------------------------------------------------------------
(* Counting *)

\* An initial part of 1..n is as long as it has elements.
LEMMA InitialPart ==
  ASSUME NEW n \in Nat, NEW C, C \subseteq 1 .. n,
         \A i \in C, j \in 1 .. n : j <= i => j \in C
  PROVE  Cardinality(C) \in 0 .. n /\ C = 1 .. Cardinality(C)
  <1>1. CASE C = {}
    BY <1>1, FS_EmptySet
  <1>2. CASE C # {}
    <2>1. IsFiniteSet(C)
      <3>1. IsFiniteSet(1 .. n) /\ C \in SUBSET (1 .. n)
        BY FS_Interval
      <3> QED
        BY <3>1, FS_Subset
    <2>2. C \subseteq Int
      OBVIOUS
    <2>3. PICK m \in C : \A i \in C : i <= m
      BY <1>2, <2>1, <2>2, GreatestInteger
    <2>4. m \in 1 .. n
      BY <2>3
    <2>5. C = 1 .. m
      <3>1. \A i \in C : i \in 1 .. n /\ i <= m
        BY <2>3
      <3>2. \A i \in 1 .. m : i \in 1 .. n /\ i <= m
        BY <2>4
      <3>3. C \subseteq 1 .. m
        BY <2>4, <3>1
      <3>4. \A i \in 1 .. m : i \in C
        BY <3>2
      <3> QED
        BY <3>3, <3>4
    <2>6. Cardinality(1 .. m) = m
      BY <2>4, FS_Interval
    <2> QED
      BY <2>4, <2>5, <2>6
  <1> QED
    BY <1>1, <1>2

\* Among one more numbers than there are names, one is free.
LEMMA FreeNumber ==
  ASSUME NEW n \in Nat, NEW S, IsFiniteSet(S), NEW level
  PROVE  \E id \in n .. n + Cardinality(S) :
            /\ <<level, id>> \notin S
            /\ \A j \in n .. id - 1 : <<level, j>> \in S
  <1> DEFINE c == Cardinality(S)
             I == n .. n + c
             Free == {i \in I : <<level, i>> \notin S}
  <1>1. c \in Nat
    BY FS_CardinalityType
  <1>2. Free # {}
    <2>1. SUFFICES ASSUME Free = {} PROVE FALSE
      OBVIOUS
    <2> DEFINE f == [i \in I |-> <<level, i>>]
    <2>2. f \in [I -> S]
      BY <2>1
    <2>3. \A i, j \in I : f[i] = f[j] => i = j
      OBVIOUS
    <2>4. f \in Injection(I, S)
      BY <2>2, <2>3, Fun_IsInj
    <2>5. Cardinality(I) <= c
      BY <2>4, FS_Injection
    <2>6. Cardinality(I) = c + 1
      BY <1>1, FS_Interval
    <2> QED
      BY <1>1, <2>5, <2>6
  <1>3. Free \subseteq Nat
    BY <1>1
  <1>4. PICK id \in Free : \A i \in Free : id <= i
    BY <1>2, <1>3, LeastNatural
  <1>5. \A j \in n .. id - 1 : j \in I /\ ~(id <= j)
    BY <1>1, <1>4
  <1> QED
    BY <1>4, <1>5
=============================================================================
