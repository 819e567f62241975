SPECIFICATION Spec
CONSTANTS
    Keys = {1, 2}
    L0FileTrigger = 1
    Readers = {}
    MaxSequence = 3
    CrashKinds = {"power"}
    MaxCrashes = 1
INVARIANTS
    TypeOK
    DurableBeforeVisible
    SequencesAreFresh
    DatabaseCanBeOpened
    BottomLevelIsDisjoint
    ManifestEditsAreValid
    SlotIsScheduled
    ShutdownPersistsEverything
PROPERTIES
    SstablesAreImmutable
    WalIsReclaimedBehindCheckpoint
    UsesManifestStore
    UsesWalStore
