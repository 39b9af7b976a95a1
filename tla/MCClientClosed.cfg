\* One thread slower than the idle timeout.
CONSTANTS
    Callers = {t1}
    MaxCalls = 1
    MaxConns = 1
    _max_wait_rep = 2
    SockInit = {"null"}
    SlowCallers = TRUE
    ConnectMayFail = FALSE
    ThreadMayFail = FALSE
    ServerMayClose = FALSE
    Nobody = Nobody
    NoValue = NoValue
SPECIFICATION Spec
SYMMETRY Symmetry
INVARIANTS
    ClosedOnlyWhenIdle
CHECK_DEADLOCK FALSE
