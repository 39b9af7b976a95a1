\* Liveness of answers: three pipelined calls, two handlers, partial writes, queues that suffice.
CONSTANTS
    Conns = {c1}
    NoConn = NoConn
    MaxCalls = 3
    num_readers = 1
    num_handlers = 2
    max_reader_queue_size = 2
    max_num_calls = 4
    max_respond_size = 4
    max_repsond_size = 4
    ValueLen = 2
    Unknown <- NoneUnknown
    ClientsMayClose = FALSE
    ClientsMayGarble = FALSE
    AcceptMayFail = FALSE
    SignalMayCome = FALSE
SPECIFICATION FairSpec
PROPERTIES
    EveryCallAnswered
CHECK_DEADLOCK FALSE
