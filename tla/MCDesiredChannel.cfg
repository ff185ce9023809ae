SPECIFICATION Spec
CONSTANTS
    Field <- MCField
    Level = {0, 1, 4, 9}
    Tolerance <- MCTolerance
    MRID = {"", "A"}
    NoMRID = ""
    ConvergeTimeout = 1
    StaleAfter = 4
    RetryBackoff <- MCBackoff
    ReassertEvery = 0
    Classes = {"battery", "solar", "evse"}
    Commands <- MCCommands
    Restore <- MCRestore
    RatedMaxA = 4
    HeartbeatInterval = 2
    PublishTimeout = 1
    MaxPublishes = 4
    MaxFaults = 2
    MaxTime = 6
INVARIANTS
    RecoversWithinHeartbeat
PROPERTIES
    NoReplay
