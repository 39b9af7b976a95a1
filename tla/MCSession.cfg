\* Three requests of any kind on one connection.
CONSTANTS
    Requests <- MCRequests
    MaxCalls = 3
    NoValue = NoValue
SPECIFICATION FairSpec
INVARIANTS
    TypeOK
    CallsReadAsWritten
    ResultsRight
    TroubleExplained
PROPERTIES
    AnswersArrive
CHECK_DEADLOCK FALSE
