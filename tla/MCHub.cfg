SPECIFICATION SpecHub
CONSTANTS
    Unset = Unset
    EvGoals = {g1, g2}
    Goals <- GoalValues
    PriceKinds <- PriceValues
    Reserves = {40}
    Floor = 20
    Cap = 2
    Modes = {"optimizer", "gateway"}
    CfgMode = "optimizer"
    Bad = Bad
    Talks <- TalkSets
    Steps = 3
    StepTicks = 2
    Window = 6
    Days = 2
    Hours = 3
    Num = 3
    Den = 4
    LevelStep = 12
    Standard <- MCStandard
    Shortfall = 100
    BuiltIn <- MCBuiltIn
    Sites <- MCSites
    Reporter <- MCReporter
    Device <- MCReporter
    DeviceOf <- MCApart
    MRIDs = {1, 2}
    OnsetTicks = 2
    Freshness = {TRUE, FALSE}
    MaxChanges = 2
    MaxRestarts = 1
    MaxBlind = 1
    MaxLosses = 1
    Services = {"hub", "modbus"}
    Writers = {"w1", "w2"}
    MaxV = 1
    MaxTime = 3
    Scenes <- MCScenes
CHECK_DEADLOCK FALSE
INVARIANTS
    InputsAreKept
    PlanIsSound
    ConfigIsWhole
PROPERTIES
    EndsWhenAllClear
    OneAlertPerBreach
    AnswersAreHonest
    HubSettles
