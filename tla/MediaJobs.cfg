\* Slots of one, two attempts, one failed write, crash, expiry or switch.
CONSTANTS
    i1 = i1
    i2 = i2
    v1 = v1
    k1 = k1
    None = None
    Images = {i1, i2}
    Videos = {v1}
    Key <- Keys
    MaxImages = 1
    MaxVideos = 1
    Attempts = 2
    MaxTrouble = 1
SPECIFICATION FairSpec
INVARIANTS TypeOK RunsWithinLimits PostedByOneRun NothingStranded
PROPERTIES FinishedStays VideoSurvivesStop EveryJobSettles
\* The callers may stop calling.
CHECK_DEADLOCK FALSE
