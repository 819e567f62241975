SPECIFICATION Spec
CONSTANTS
    RecordSizes = {3, 5}
    MaxSequence = 3
    Failures = {"write"}
    MaxFailures = 1
    MaxCrashes = 1
INVARIANTS
    AcknowledgedSurvive
