SPECIFICATION Spec
CONSTANTS
    Keys = {1}
    L0FileTrigger = 1
    Readers = {r1}
    MaxSequence = 2
    CrashKinds = {"process"}
    MaxCrashes = 2
PROPERTIES
    ImplementsStore
