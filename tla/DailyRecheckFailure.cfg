SPECIFICATION Spec
CONSTANTS
    Games = {g1}
    PredictionRuns = {r1}
    OddsRuns = {o1}
    Slots = {p}
    None = None
    Faults = {{"provider"}}
    MaxFaults = 1
    LatePregame = FALSE
PROPERTIES
    FailureRecorded
