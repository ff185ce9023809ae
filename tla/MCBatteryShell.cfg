SPECIFICATION Spec
CONSTANTS
    Field <- MCField
    Level <- MCLevel
    Tolerance <- MCTolerance
    MRID = {""}
    NoMRID = ""
    ConvergeTimeout = 5
    StaleAfter = 5
    RetryBackoff <- MCBackoff
    ReassertEvery = 0
    Targets <- MCTargets
    DischargeAbove = 1
    MaxDocs = 2
    MaxFaults = 1
    MaxTime = 1
INVARIANTS
    SessionCarriesStanding
PROPERTIES
    UnsafeEnds
