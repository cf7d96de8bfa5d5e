SPECIFICATION Spec
CONSTANTS
    Apps = {a}
    Endpoints = {e1}
    Guids = {g1}
    None = None
    MaxSessions = 1
    MaxListens = 1
PROPERTIES EndIsHeard
CHECK_DEADLOCK FALSE
