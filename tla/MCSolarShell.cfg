SPECIFICATION Spec
CONSTANTS
    Field <- MCField
    Level = {1, 2, 9}
    Tolerance <- MCTolerance
    MRID = {""}
    NoMRID = ""
    ConvergeTimeout = 5
    StaleAfter = 1
    RetryBackoff <- MCBackoff
    ReassertEvery = 0
    Caps = {1}
    Restore = 9
    Sun = 2
    MaxSeq = 1
    MaxBacklog = 1
    MaxRestarts = 1
    MaxFaults = 1
    MaxTime = 3
PROPERTIES
    CapObeyed
