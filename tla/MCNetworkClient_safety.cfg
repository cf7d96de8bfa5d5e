CONSTANTS
    Apps = {a, b}
    NoThread = NoThread
    Behaviours = {"listenerCloses", "listenerThrows", "serverDisconnects", "authRejects", "requestStop"}
    MaxDepth = 2
SPECIFICATION Spec
SYMMETRY Symmetry
INVARIANTS ClosedStaysClosed CloseEmittedOnce OneOwner
CHECK_DEADLOCK FALSE
