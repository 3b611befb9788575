\* An administrator and a plain user; two requests at a time, which may wait
\* for each other's row locks; an access token lives one second.
CONSTANTS
    UserIds = {admin, user}
    Admins = {admin}
    None = None
    Requests = {r1, r2}
    AccessTTL = 2
    TicksPerSecond = 2
    MaxTime = 4
    MaxTokens = 2
SPECIFICATION Spec
SYMMETRY Symmetry
INVARIANTS
    AdmittedOnlyIfEnabled
    AdmittedWithinLifetime
    RefusedOnlyForCause
PROPERTY
    StatusChangedByAdminsOnly
