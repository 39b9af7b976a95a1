\* The connect may be refused.
CONSTANTS
    Callers = {t1}
    MaxCalls = 1
    MaxConns = 1
    _max_wait_rep = 2
    SockInit = {"null"}
    SlowCallers = FALSE
    ConnectMayFail = TRUE
    ThreadMayFail = FALSE
    ServerMayClose = FALSE
    Nobody = Nobody
    NoValue = NoValue
SPECIFICATION Spec
SYMMETRY Symmetry
INVARIANTS
    SendsConnected
CHECK_DEADLOCK FALSE
