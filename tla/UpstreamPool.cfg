\* Three requests share two credentials, one of them with a limit.
SPECIFICATION Spec
CONSTANTS
    a = a  b = b  d = d  key = key  c1 = c1  c2 = c2  m1 = m1  m2 = m2
    Requests <- ThreeRequests
    ClientKey = key
    Credentials = {c1, c2}
    CredentialsOf <- MCCredentialsOf
    Priority <- MCPriority
    Weight <- MCWeight
    Index <- MCIndex
    Mode <- ThreeMode
    Primary <- ThreePrimary
    FallbackModels <- ThreeModels
    RetryCount <- ThreeRetries
    Rules <- MCRules
    WindowOf <- MCWindowOf
    LimitOf <- MCLimitOf
    Cost <- ThreeCost
    UtilScale = 2
    CooldownMs = 2
    BackoffBase = 1
    BackoffMax = 1
    RetryAfterMax = 2
    Statuses = {200, 409, 429}
    RetryAfters = {0}
    MaxTime = 2
INVARIANTS KeyAllowanceExact OvershootBounded
PROPERTIES FailureSidelines
SYMMETRY MCSymmetry
\* The requests run out.
CHECK_DEADLOCK FALSE
