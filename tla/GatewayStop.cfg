\* A stop while a start is under way.
SPECIFICATION Spec
CONSTANTS
    s1 = s1  s2 = s2  s3 = s3  s4 = s4  halt = halt  None = None
    Starts <- TwoStarts
    Ensures = {}
    ServerOnly = {}
    Disabled = {}
    Stops = {halt}
    Overlapping = TRUE
    MaxFaults = 1
    MaxCrashes = 1
INVARIANT StopHolds
\* The calls run out.
CHECK_DEADLOCK FALSE
