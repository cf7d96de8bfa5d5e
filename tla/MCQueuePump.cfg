SPECIFICATION Spec
CONSTANTS
    Callers = {a, b}
    NoThread = NoThread
    MaxPackets = 2
    MaxDepth = 2
    Timers = {"keepAlive"}
INVARIANTS PumpUnderControl DemandArmed PacketsOnce
PROPERTIES Settles
CHECK_DEADLOCK FALSE
