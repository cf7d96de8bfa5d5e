CONSTANTS
    Callers = {a, b}
    NoThread = NoThread
    CallbackCloses = {"connected", "closed", "encapsulated"}
SPECIFICATION Spec
INVARIANTS Ownership ClosedIsQuiescent FailedConnectIsSilent SessionEndAnnounced CallbacksExclusive
PROPERTIES CallsReturn
CHECK_DEADLOCK FALSE
