CONSTANTS
    Apps <- TwoApps
    MaxPort = 2
    MaxSeq = 2
    CFG_FLOWS_REQUEST = 1
    QueueLen = 2
    MaxInbox = 1
    MaxFailures = 1
    MaxWrites = 1
    MaxRx = 2
    AssertAborts = FALSE
    AllCalled = TRUE
SPECIFICATION FairSpec
CHECK_DEADLOCK FALSE
INVARIANTS WindowComplete ConnectionHasFlow NoNullHandle
PROPERTY RequestReturns
