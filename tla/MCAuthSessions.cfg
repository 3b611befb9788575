\* One session, three requests: races of refreshes with each other, with a
\* login, with status changes and with revocation.
CONSTANTS
    UserIds = {u1}
    SessionIds = {s1}
    Tokens = {t1, t2, t3, t4}
    None = None
    ForgedToken = forged
    Requests = {r1, r2, r3}
    RefreshTTL = 2
    TicksPerSecond = 2
    MaxTime = 3
    RepeatableRead = TRUE
SPECIFICATION Spec
SYMMETRY Symmetry
INVARIANTS
    ExchangedAtMostOnce
    ServedOnlyIfEnabled
    HonouredWithinLifetime
PROPERTIES
    SessionsOnlyAdvance
    ImplementsRefreshChain
