SPECIFICATION SpecNorthbound
CONSTANTS
    Event = {1, 2}
    DefaultMRID = 9
    Created <- CreatedAt
    Supersedable = {1}
    Windows <- WindowsOf
    Confirm = 2
    Episode = {11}
    Legacy = FALSE
    CompactAfter = 4
    Glitch = 2
    MaxTime = 3
    MaxRevisions = 2
    MaxAnomalies = 1
    MaxAlerts = 2
    Win <- WinOf
    PageSize = 1
    Honor = TRUE
    Base = 1
    Longest = 0
    MaxStaleness = 2
    Rates = {0, 3}
    Misreading = 3
    LeaseTime = 6
    MaxAge = 2
    HubConfirm = 3
    Troubles <- TroubleSets
    MaxEdits = 2
    MaxMishaps = 2
INVARIANTS
    TrackerRemembers
    EndsOnTime
PROPERTIES
    OnlyForCause
    NorthboundSettles
CHECK_DEADLOCK FALSE
