----------------------------- MODULE BloomFilter -----------------------------
(***************************************************************************)
(* The Bloom filter of an SSTable.  The hash of a key is any function: the *)
(* vendored MurmurHash3 is deterministic, and nothing else of it matters.  *)
(* bits_ is the set of the positions whose bit is 1.                       *)
(***************************************************************************)
EXTENDS Integers

CONSTANTS
    Hash,           \* MurmurHash3_x86_32 with the filter's seed, of every key
    HashBits,       \* the width of h and delta, 32 in the code
    HashRotation,   \* delta is h rotated left by so many bits, 15 in the code
    BitsPerKey      \* bits_per_key, from the configuration

ASSUME BloomAssumption ==
    /\ HashBits \in Nat
    /\ HashRotation \in 0 .. HashBits
    /\ \A k \in DOMAIN Hash : Hash[k] \in 0 .. 2 ^ HashBits - 1
    /\ BitsPerKey \in Nat \ {0}

RotatedLeft(h) ==
    ((h * 2 ^ HashRotation) % 2 ^ HashBits) + (h \div 2 ^ (HashBits - HashRotation))

\* h, h + delta, h + 2 * delta, ... in unsigned arithmetic.
Probe(k, i) == (Hash[k] + i * RotatedLeft(Hash[k])) % 2 ^ HashBits

\* round(bits_per_key * 0.693), and never 0.
ProbeCount ==
    IF BitsPerKey * 693 < 500 THEN 1 ELSE (BitsPerKey * 693 + 500) \div 1000

\* The bits that add() sets and mayContain() looks at.
Positions(k, bitCount, probeCount) ==
    {Probe(k, i) % bitCount : i \in 0 .. probeCount - 1}

\* Mutation: add() sets one bit fewer than mayContain() looks at.
AddingPartly(keys, bitCount) ==
    UNION {Positions(k, bitCount, ProbeCount - 1) : k \in keys}

\* bits_ after add() of every key: bits are set and never cleared.
Adding(keys, bitCount) == UNION {Positions(k, bitCount, ProbeCount) : k \in keys}

\* The filter made for keyCount keys and given those of the set.
FilterOf(keys, keyCount) ==
    [bitCount |-> BitsPerKey * keyCount,
     probeCount |-> ProbeCount,
     bits |-> Adding(keys, BitsPerKey * keyCount)]

ByteCount(filter) == (filter.bitCount + 7) \div 8

MayContain(filter, k) ==
    Positions(k, filter.bitCount, filter.probeCount) \subseteq filter.bits
=============================================================================
