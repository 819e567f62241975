SPECIFICATION Spec
CONSTANTS
    Keys = {1}
    L0FileTrigger = 1
    Readers = {}
    MaxSequence = 2
    CrashKinds = {"process", "power"}
    MaxCrashes = 2
INVARIANTS
    DurableBeforeVisible
