CONSTANTS
    f1 = f1
    f2 = f2
    l1 = l1
    l2 = l2
    Flows = {f1, f2}
    Logins = {l1, l2}
    Scenarios <- MCScenarios
    Keys <- MCKeys
    Xsts = "xstsToken"
    MaxTokens = 2
    Unread = Unread
    Blank = Blank
    Mixed = Mixed
    None = None
SPECIFICATION Spec
INVARIANTS
    Durable
    RetryRenews
    AsksOnlyIfNeeded
PROPERTIES
    LoginsEnd
CHECK_DEADLOCK FALSE
