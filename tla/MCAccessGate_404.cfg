\* COMMON-404 for a user who exists: one administrator, one request at a time.
CONSTANTS
    UserIds = {admin, user}
    Admins = {admin}
    None = None
    Requests = {r1}
    AccessTTL = 2
    TicksPerSecond = 2
    MaxTime = 4
    MaxTokens = 1
SPECIFICATION Spec
INVARIANT NotFoundMeansAbsent
