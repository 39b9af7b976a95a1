\* Slow threads, refused connects, receivers that do not start, an uninitialised
\* _sock, a server that closes.
CONSTANTS
    Callers = {t1, t2}
    MaxCalls = 2
    MaxConns = 2
    _max_wait_rep = 2
    SockInit = {"null", "garbage"}
    SlowCallers = TRUE
    ConnectMayFail = TRUE
    ThreadMayFail = TRUE
    ServerMayClose = TRUE
    Nobody = Nobody
    NoValue = NoValue
SPECIFICATION FairSpec
INVARIANTS
    TypeOK
    RequestsWhole
    OwnAnswer
    FaultsExplained
PROPERTIES
    CallReturns
CHECK_DEADLOCK FALSE
