SPECIFICATION SpecOcpp
CONSTANTS
    Field <- MCField
    Level = {0, 1, 2}
    Tolerance <- MCTolerance
    MRID = {""}
    NoMRID = ""
    ConvergeTimeout = 5
    StaleAfter = 1
    RetryBackoff <- MCBackoff
    ReassertEvery = 0
    Amps = {1}
    Rated = 2
    MaxSeq = 1
    MaxLate = 1
    MaxEvents = 2
    LastEvent = 1
    MaxTime = 2
    Stations = {s1, s2}
    Lively = {s1}
    MaxTrouble = 2
CHECK_DEADLOCK FALSE
INVARIANTS
    ProfileInForce
    StrangersStayOut
PROPERTIES
    OcppSettles
