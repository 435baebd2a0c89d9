\* A bundle that nobody posts, and a power loss.
SPECIFICATION FairSpec
CONSTANTS
    b1 = b1  h1 = h1  None = None
    Bundles = {b1}
    Handlers = {}
    Replayer = Replayer
    MaxInbox = 1
    MaxAttempts = 1
    MaxPosts = 1
    MaxTrouble = 1
PROPERTY TornIsIsolated
