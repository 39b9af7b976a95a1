\* Two connections, two pipelined calls each; clients may go away or send bytes
\* that are no call at any moment, accepts may fail, and a reader's queue holds one socket.
CONSTANTS
    Conns = {c1, c2}
    NoConn = NoConn
    MaxCalls = 2
    num_readers = 2
    num_handlers = 1
    max_reader_queue_size = 1
    max_num_calls = 4
    max_respond_size = 4
    max_repsond_size = 4
    ValueLen = 1
    Unknown <- NoneUnknown
    ClientsMayClose = TRUE
    ClientsMayGarble = TRUE
    AcceptMayFail = TRUE
    SignalMayCome = FALSE
SPECIFICATION Spec
SYMMETRY Symmetry
INVARIANTS
    OneReaderPerSocket
    NoSocketForgotten
    RegistryAgrees
    CallsInOrder
    CallsAccountedFor
    AbortsExplained
PROPERTIES
    RefinesService
CHECK_DEADLOCK FALSE
