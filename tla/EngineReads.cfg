SPECIFICATION Spec
CONSTANTS
    Keys = {1}
    L0FileTrigger = 1
    Readers = {r1}
    MaxSequence = 3
    CrashKinds = {"power"}
    MaxCrashes = 1
INVARIANTS
    GenerationsAreOrdered
    ReadsAreLinearizable
