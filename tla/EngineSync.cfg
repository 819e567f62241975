SPECIFICATION Spec
CONSTANTS
    Writers = {w1, w2, w3}
    Stoppers = {s1, s2}
    Worker = worker
    NoThread = none
SYMMETRY ThreadSymmetry
INVARIANTS
    TypeOK
    NoWriterPastBarrier
    SlotHasAKeeper
    PushIsAccepted
    NoLostWakeup
    ShutdownDrains
