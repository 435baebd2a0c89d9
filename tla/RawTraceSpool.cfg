\* One handler and the replayer on one bundle; one error, restart, crash or
\* change of the settings at any point.
SPECIFICATION FairSpec
CONSTANTS
    b1 = b1  h1 = h1  None = None
    Bundles = {b1}
    Handlers = {h1}
    Replayer = Replayer
    MaxInbox = 1
    MaxAttempts = 1
    MaxPosts = 1
    MaxTrouble = 1
INVARIANTS TypeOK AckedIsKept BodiesLostForAReason
PROPERTIES FinishedIsSettled InboxDrains
