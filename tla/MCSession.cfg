SPECIFICATION Spec
CONSTANTS
    Versions = {"legacy", "modern", "tagged"}
    EarlySides = {"client", "server"}
    MaxData = 1
INVARIANTS BatchesDecode HandshakeFirst InStep
PROPERTIES Spawns
CHECK_DEADLOCK FALSE
