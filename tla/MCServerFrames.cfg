\* Partial writes with two calls of one connection under way.
CONSTANTS
    Conns = {c1}
    NoConn = NoConn
    MaxCalls = 2
    num_readers = 1
    num_handlers = 2
    max_reader_queue_size = 1
    max_num_calls = 2
    max_respond_size = 2
    max_repsond_size = 2
    ValueLen = 2
    Unknown <- NoneUnknown
    ClientsMayClose = FALSE
    ClientsMayGarble = FALSE
    AcceptMayFail = FALSE
    SignalMayCome = FALSE
SPECIFICATION Spec
SYMMETRY Symmetry
INVARIANTS
    FramesContiguous
CHECK_DEADLOCK FALSE
