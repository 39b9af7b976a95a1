\* One connection, values written in up to two pieces, small queues, the last call
\* unknown, a client that may leave or send bytes that are no call.
CONSTANTS
    Conns = {c1}
    NoConn = NoConn
    MaxCalls = 4
    num_readers = 1
    num_handlers = 2
    max_reader_queue_size = 1
    max_num_calls = 2
    max_respond_size = 2
    max_repsond_size = 1
    ValueLen = 2
    Unknown <- LastUnknown
    ClientsMayClose = TRUE
    ClientsMayGarble = TRUE
    AcceptMayFail = FALSE
    SignalMayCome = FALSE
SPECIFICATION Spec
SYMMETRY Symmetry
INVARIANTS
    TypeOK
    RespondBalance
    CallsAccountedFor
    ResponseIntact
    AbortsExplained
CHECK_DEADLOCK FALSE
