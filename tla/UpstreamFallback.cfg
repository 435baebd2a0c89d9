\* Two requests with fallback; every kind of status and of delay.
\* The clock runs for their delays only.
SPECIFICATION FairSpec
CONSTANTS
    a = a  b = b  d = d  key = key  c1 = c1  c2 = c2  m1 = m1  m2 = m2
    Requests <- TwoRequests
    ClientKey = key
    Credentials = {c1}
    CredentialsOf <- TwoCredentialsOf
    Priority <- MCPriority
    Weight <- MCWeight
    Index <- MCIndex
    Mode <- TwoMode
    Primary <- TwoPrimary
    FallbackModels <- TwoModels
    RetryCount <- TwoRetries
    Rules <- MCRules
    WindowOf <- MCWindowOf
    LimitOf <- NoLimits
    Cost <- TwoCost
    UtilScale = 2
    CooldownMs = 2
    BackoffBase = 1
    BackoffMax = 1
    RetryAfterMax = 2
    Statuses = {200, 401, 409, 503}
    RetryAfters = {0, 3}
    MaxTime = 0
INVARIANTS TypeOK
PROPERTIES NoAttemptAfterDisconnect EveryRequestEnds
\* The requests run out.
CHECK_DEADLOCK FALSE
