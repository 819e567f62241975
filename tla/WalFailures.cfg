SPECIFICATION Spec
CONSTANTS
    RecordSizes = {4}
    MaxSequence = 3
    Failures = {"create", "write", "fsync", "scan", "reclaim"}
    MaxFailures = 2
    MaxCrashes = 2
INVARIANTS
    TypeOK
    SafeRecordsStayReadable
    UnexposedLogOpens
PROPERTIES
    SequencesIncrease
    ImplementsWalStore
