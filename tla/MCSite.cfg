SPECIFICATION SpecSite
CONSTANTS
    NaN = NaN
    Nameplate = 8
    BattMax = 4
    EvMin = 3
    EvMax = 6
    EvStep = 1
    EvRelax = 1
    CeilDrop = 3
    CeilRise = 1
    BattRelax = 1
    Reserve = 20
    ReleaseMargin = 2
    CriticalMargin = 5
    TaperStart = 80
    Full = 95
    RelaxCycles = 2
    Cooldown = 2
    Ticks = 2
    Sun = {0, 8}
    Load = {2, 7}
    Charge = {19, 23, 94, 95}
    Start0 <- Starts
    PackModes = {"obeys", "refuses", "inverts", "dark"}
    InverterModes = {"obeys", "ignores", "dark"}
    ChargerModes = {"obeys", "ignores"}
    MeterModes = {"live", "lagging", "blind"}
    ExpLimits = {NaN, 0, 5}
    ImpLimits = {NaN, 5}
    MaxLimits = {NaN, 3}
    GenLimits = {NaN, 5}
    LoadLimits = {NaN, 5}
    Dispatches = {NaN, 3}
    Targets <- Plans
    MaxChanges = 2
    MaxDrift = 1
    Inf = 99
    Wired <- Every
    ExplicitConnect = FALSE
    ActiveSets <- AllOrNone
    MaxFlips = 1
INVARIANTS
    EveryAuthorReports
    EveryAuthorHoldsCaps
    DrainIsCut
PROPERTIES
    SiteComesToRest
CHECK_DEADLOCK FALSE
