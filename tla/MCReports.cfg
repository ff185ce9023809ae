SPECIFICATION SpecReports
CONSTANTS
    MaxChanges = 1
    MaxSiteFaults = 1
    Floor = 2
    MaxFlips = 3
    MaxTroubles = 2
    Order <- MCOrder
    CAs = {"old", "new"}
    BootCA = "old"
    MaxSentinels = 2
    MaxFaults = 2
    WarnDays = 2
    Horizon = 10
    MaxIssues = 2
INVARIANTS
    RecordIsTrue
    ToldOnce
    SessionsStand
    ExpiryIsKnown
PROPERTIES
    UtilityIsToldTheTruth
CHECK_DEADLOCK FALSE
