\* A client makes one call and falls silent.
CONSTANTS
    Conns = {c1}
    NoConn = NoConn
    MaxCalls = 1
    num_readers = 1
    num_handlers = 1
    max_reader_queue_size = 1
    max_num_calls = 1
    max_respond_size = 1
    max_repsond_size = 1
    ValueLen = 1
    Unknown <- NoneUnknown
    ClientsMayClose = FALSE
    ClientsMayGarble = FALSE
    AcceptMayFail = FALSE
    SignalMayCome = FALSE
SPECIFICATION FairSpec
PROPERTIES
    IdleClosed
CHECK_DEADLOCK FALSE
