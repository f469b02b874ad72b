CONSTANTS
    Procs <- TwoProcs
    Ports <- OnePort
    Task = Task
    None = None
    APP_CONNECTION_TABLE_SIZE = 1
    RESPONSE_HANDLER_TABLE_SIZE = 2
    unMaxItemCount = 2
    INT_MAX = 100
    PeerMessages <- EnrollMessages
    RxBacklog = 1
SPECIFICATION FairSpec
CHECK_DEADLOCK FALSE
INVARIANTS PendingDistinct EnrolledMeansAnswered StopIsPending
PROPERTIES ProcessesEnd
