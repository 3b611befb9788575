\* Two requests for one connection.  Every request is made once: that all
\* have ended is no deadlock.
CONSTANTS
    NoOne = NoOne
    NoConn = NoConn
    Requests = {r1, r2}
    Conns = {c1}
    Ops = {"me", "list", "patch", "login", "refresh", "register"}
SPECIFICATION FairSpec
INVARIANTS
    NoLeak
    NoCircularWait
    TransactionWhole
PROPERTY
    EveryRequestEnds
CHECK_DEADLOCK FALSE
