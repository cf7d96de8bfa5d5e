CONSTANTS
    Apps = {a, b}
    Worker = Worker
    MaxPromises = 3
SPECIFICATION Spec
PROPERTIES Refines InOrder ReactionsSettle GetReturns WorkerEnds
CHECK_DEADLOCK FALSE
