CONSTANTS
    Apps = {a, b}
    NoThread = NoThread
    Behaviours = {"serverDisconnects"}
    MaxDepth = 1
SPECIFICATION Spec
SYMMETRY Symmetry
INVARIANTS
    WorkerDoesNotWaitThroughJoin
CHECK_DEADLOCK FALSE
