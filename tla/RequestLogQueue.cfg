\* A crash, a transient write failure, a poisonous event and the end of a day.
SPECIFICATION FairSpec
CONSTANTS
    r1 = r1  r2 = r2  t1 = t1  t2 = t2
    Records = {r1, r2}
    Traces = {t1, t2}
    Of <- MCOf
    Ordinary = {r2, t1}
    Deferred = {t2}
    TooLarge = {}
    Poison = {r2}
    FullSize <- MCFullSize
    BareSize <- MCBareSize
    QueueMaxBytes = 7
    QueueMaxItems = 3
    BatchMaxBytes = 6
    BatchMaxItems = 2
    MaxAttempts = 2
    MaxCrashes = 1
    MaxFaults = 1
    MaxDays = 1
INVARIANTS TypeOK NoneLost CapsHold AckedIsStored WrittenOnce TraceMeetsRecord
    OnlyPoisonDropped
PROPERTIES ImplementsDurableLog EveryEventSettles
\* The events run out: a drained queue has nothing left to do.
CHECK_DEADLOCK FALSE
