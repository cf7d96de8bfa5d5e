SPECIFICATION Spec
CONSTANTS
    MaxUpstreams = 2
    Loads <- MCLoads
    Policies = {"cancel", "disconnect"}
INVARIANTS DownIsQuiet FreshClientbound PacketsInOrder
PROPERTIES ResetsEnd PlayerTold
CHECK_DEADLOCK FALSE
