\* Two registrations race for two usernames and two emails, and may wait for
\* each other's entries, under REPEATABLE READ.
CONSTANTS
    i0 = i0
    n0 = n0
    e0 = e0
    Requests = {r1, r2}
    Usernames = {n0, n1, n2}
    Emails = {e0, e1, e2}
    Ids = {i0, i1, i2}
    Seed <- MCSeed
    RepeatableRead = TRUE
SPECIFICATION FairSpec
INVARIANTS
    AccountsAreDistinct
    EveryAccountHasRole
    ConflictOnlyForCause
    SuccessMeansRegistered
PROPERTY
    EveryRegistrationAnswered
