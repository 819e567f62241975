SPECIFICATION FairSpec
CONSTANTS
    Writers = {w1, w2}
    Stoppers = {s1, s2}
    Worker = worker
    NoThread = none
PROPERTIES
    ShutdownTerminates
    WritersAreReleased
