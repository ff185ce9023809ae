SPECIFICATION SpecAdv
CONSTANTS
    Field <- MCField
    Level = {0}
    Tolerance <- MCTolerance
    MRID = {""}
    NoMRID = ""
    ConvergeTimeout = 9
    StaleAfter = 9
    RetryBackoff <- MCBackoff
    ReassertEvery = 2
    Controls <- MCControls
    Nil <- MCNil
    Heartbeat = 2
    MaxSeqAdv = 6
    AxisOrder <- MCOrder
    Factory <- MCFactory
    FactoryOn <- MCFactoryOn
    Coarse = {3}
    Unity = 3
    MaxEventsAdv <- MCEvents
    LastEventAdv = 1
    MaxTimeAdv = 3
INVARIANTS
    AdvancedStands
PROPERTIES
    ControlReachesDevice
CHECK_DEADLOCK FALSE
