SPECIFICATION Spec
CONSTANTS
    Executors = {e1}
    Recoverers = {c1}
    NTargets = 1
    MAX_PRIMARY_CALLS = 1
    MAX_RETRY_CALLS = 1
    MAX_ATTEMPTS = 2
    MAX_RESERVED_CREDITS = 20
    MaxFaults = 0
    MaxCrashes = 0
    NoOne = NoOne
CHECK_DEADLOCK FALSE
INVARIANTS
    RefusedRetryIsStopped
