\* READ COMMITTED instead of REPEATABLE READ, and two sessions of one user;
\* requests that wait for each other's row locks all end.
CONSTANTS
    UserIds = {u1}
    SessionIds = {s1, s2}
    Tokens = {t1, t2, t3}
    None = None
    ForgedToken = forged
    Requests = {r1, r2}
    RefreshTTL = 2
    TicksPerSecond = 2
    MaxTime = 0
    RepeatableRead = FALSE
SPECIFICATION FairSpec
PROPERTY
    EveryRequestEnds
