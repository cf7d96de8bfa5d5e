SPECIFICATION Spec
CONSTANTS
    Apps = {a}
    Endpoints = {e1}
    Guids = {g1, g2}
    None = None
    MaxSessions = 2
    MaxListens = 1
SYMMETRY Symmetry
INVARIANTS CloseIsOwn RegistryExact DetachedNotClosed
CHECK_DEADLOCK FALSE
