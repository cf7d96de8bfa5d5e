CONSTANTS
    Apps = {a, b}
    NoThread = NoThread
    Behaviours = {"requestStop"}
    MaxDepth = 1
SPECIFICATION Spec
PROPERTIES
    CallsReturn
CHECK_DEADLOCK FALSE
