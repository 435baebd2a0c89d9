\* Calls one after the other, with a dying core gateway, a crash, and
\* starts whose configuration wants a server only or nothing.
SPECIFICATION FairSpec
CONSTANTS
    s1 = s1  s2 = s2  s3 = s3  s4 = s4  halt = halt  None = None
    Starts <- AllStarts
    Ensures = {s3}
    ServerOnly = {s2, s4}
    Disabled = {s4}
    Stops = {halt}
    Overlapping = FALSE
    MaxFaults = 1
    MaxCrashes = 1
INVARIANTS TypeOK NothingForgotten StatusTruthful
PROPERTY EveryCallReturns
\* The calls run out.
CHECK_DEADLOCK FALSE
