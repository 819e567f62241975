SPECIFICATION Spec
CONSTANTS
    Files = {1, 2, 3}
    Checkpoints = {3, 12}
    MaxFailures = 1
    MaxCrashes = 2
INVARIANTS
    TypeOK
    NamedTablesAreDurable
    CheckpointsAreNotUndone
PROPERTIES
    ImplementsManifestStore
