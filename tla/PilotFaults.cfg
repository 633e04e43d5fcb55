SPECIFICATION Spec
CONSTANTS
    Executors = {e1, e2}
    Recoverers = {c1}
    NTargets = 2
    MAX_PRIMARY_CALLS = 2
    MAX_RETRY_CALLS = 2
    MAX_ATTEMPTS = 4
    MAX_RESERVED_CREDITS = 30
    MaxFaults = 1
    MaxCrashes = 1
    NoOne = NoOne
SYMMETRY Symmetry
CHECK_DEADLOCK FALSE
INVARIANTS
    PilotTypeOK
    LedgerTellsTheTruth
    SealedIsClosed
    SufficientIsComplete
PROPERTIES
    LedgerStaysReadable
    SealIsFinal
    PilotPromise
