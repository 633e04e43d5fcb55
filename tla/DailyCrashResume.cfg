SPECIFICATION Spec
CONSTANTS
    Games = {g1}
    PredictionRuns = {r1, r2}
    OddsRuns = {o1, o2}
    Slots = {p}
    None = None
    Faults = {{"crash"}}
    MaxFaults = 1
    LatePregame = FALSE
INVARIANTS
    ResumeNotStranded
