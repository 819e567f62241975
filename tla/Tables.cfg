SPECIFICATION Spec
CONSTANTS
    Keys = {1, 2, 3}
    L0FileTrigger = 2
    Hash <- MCHash
    HashBits = 8
    HashRotation = 3
    BitsPerKey = 3
    KeyBytes <- MCKeyBytes
    BlockSize = 45
    ValueBytes = {0, 3}
    TargetBytes = 343
    EntryOverhead = 112
    MaxWrites = 4
    MaxDamages = 1
INVARIANTS
    TypeOK
    MemoryIsAccounted
    MemtableFitsTarget
    AddIsNeverRefused
    NoFalseNegatives
    LookupsFindTheRecord
    MergeIsExact
    BlocksFitTarget
CHECK_DEADLOCK FALSE
