SPECIFICATION Spec
CONSTANTS
    Games = {g1, g2}
    PredictionRuns = {r1, r2, r3}
    OddsRuns = {o1, o2, o3}
    Slots = {p}
    None = None
    Faults = {{"provider"}, {"provider", "db", "crash"}}
    MaxFaults = 3
    LatePregame = FALSE
SYMMETRY Symmetry
INVARIANTS
    TypeOK
    CompletedIsSettled
    PublishedCardEvaluated
    RunsAccounted
PROPERTIES
    NoCardIsHonest
    CardPromise
