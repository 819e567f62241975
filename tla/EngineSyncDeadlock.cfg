SPECIFICATION Spec
CONSTANTS
    Writers = {w1, w2}
    Stoppers = {s1}
    Worker = worker
    NoThread = none
INVARIANTS
    OwnerDoesNotAwaitWorker
