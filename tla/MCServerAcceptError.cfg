\* An accept fails while a connection is open.
CONSTANTS
    Conns = {c1}
    NoConn = NoConn
    MaxCalls = 1
    num_readers = 1
    num_handlers = 1
    max_reader_queue_size = 1
    max_num_calls = 1
    max_respond_size = 1
    max_repsond_size = 1
    ValueLen = 1
    Unknown <- NoneUnknown
    ClientsMayClose = FALSE
    ClientsMayGarble = FALSE
    AcceptMayFail = TRUE
    SignalMayCome = FALSE
SPECIFICATION Spec
SYMMETRY Symmetry
INVARIANTS
    StaysOpen
CHECK_DEADLOCK FALSE
