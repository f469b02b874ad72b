CONSTANTS
    Procs <- OneProc
    Ports <- ThreePorts
    Task = Task
    None = None
    APP_CONNECTION_TABLE_SIZE = 2
    RESPONSE_HANDLER_TABLE_SIZE = 1
    unMaxItemCount = 1
    INT_MAX = 100
    PeerMessages <- AnyMessage
    RxBacklog = 1
SPECIFICATION FairSpec
CHECK_DEADLOCK FALSE
INVARIANTS OneConnectionPerPort
PROPERTIES TaskReturns
