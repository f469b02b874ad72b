CONSTANTS
    Threads <- TwoAndTwo
    Calls <- CallsOf
    Items = {"a", "b"}
    unMaxItemCount = 2
    MaxBacklog = 2
    None = None
SPECIFICATION FairSpec
CHECK_DEADLOCK FALSE
INVARIANTS ItemTokens CapacityOK
PROPERTIES ImplementsFifo TimedCallsReturn
