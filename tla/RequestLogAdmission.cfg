\* A record of one runtime; another runtime beside it or after it.
SPECIFICATION FairSpec
CONSTANTS
    g1 = g1  g2 = g2  r1 = r1  None = None
    Runtimes = {g1, g2}
    Records = {r1}
    Owner <- MCOwner
    MaxOps = 2
    MaxFaults = 1
    MaxExpiries = 1
    MaxStalls = 1
INVARIANTS TypeOK CommittedIsStored DecisionStands StoredNotRejected
PROPERTY EveryTraceAnswered
\* Every runtime may end.
CHECK_DEADLOCK FALSE
