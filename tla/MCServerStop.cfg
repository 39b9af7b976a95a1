\* Liveness: two connections at one reader, SIGINT at any moment, and
\* clients that may never end a call they have begun.
CONSTANTS
    Conns = {c1, c2}
    NoConn = NoConn
    MaxCalls = 2
    num_readers = 1
    num_handlers = 1
    max_reader_queue_size = 2
    max_num_calls = 4
    max_respond_size = 4
    max_repsond_size = 4
    ValueLen = 1
    Unknown <- NoneUnknown
    ClientsMayClose = FALSE
    ClientsMayGarble = FALSE
    AcceptMayFail = FALSE
    SignalMayCome = TRUE
SPECIFICATION FairSpec
INVARIANTS
    LostAtExit
PROPERTIES
    EveryCallAnswered
    StopTerminates
CHECK_DEADLOCK FALSE
