SPECIFICATION Spec
CONSTANTS
    Field <- MCField
    Level = {0, 1, 4}
    Tolerance <- MCTolerance
    MRID = {"", "A"}
    NoMRID = ""
    ConvergeTimeout = 2
    StaleAfter = 3
    RetryBackoff <- MCBackoff
    ReassertEvery = 4
    Targets <- MCTargets
    Reads <- MCReads
    Delays <- MCDelays
    MaxSeq = 1
    MaxAttempts = 3
    MaxTime = 5
INVARIANTS
    StreamMirrorsEpisode
    EpisodeIsEarned
    StandingWasWritten
    StaleIsTrue
PROPERTIES
    CorrectivePacing
