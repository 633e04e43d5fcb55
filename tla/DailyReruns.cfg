SPECIFICATION FairSpec
CONSTANTS
    Games = {g1, g2}
    PredictionRuns = {r1, r2}
    OddsRuns = {o1, o2}
    Slots = {p}
    None = None
    Faults = {{"provider", "db", "crash"}}
    MaxFaults = 2
    LatePregame = TRUE
INVARIANTS
    WithdrawnIsNeverClosed
PROPERTIES
    OneCleanPostgame
