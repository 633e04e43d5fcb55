SPECIFICATION Spec
CONSTANTS
    Games = {g1}
    PredictionRuns = {r1, r2}
    OddsRuns = {o1, o2}
    Slots = {p1, p2}
    None = None
    Faults = {{"provider", "db", "crash"}}
    MaxFaults = 1
    LatePregame = TRUE
SYMMETRY Symmetry
INVARIANTS
    LinkedRunsFinished
    EvaluatedOnLinkedOdds
    EvidenceChain
PROPERTIES
    OddsLinkFrozen
