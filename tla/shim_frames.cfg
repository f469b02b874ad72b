CONSTANTS
    Peers = {"m1", "m2"}
    Own = "own"
    App = "app"
    Daf = "daf"
    OtherNames = {"other", "padded"}
    Requested = {"padded", "daf", "other"}
    SameAddress <- Matches
    Text <- TextOf
    NameChars = {"a", "b", "/"}
    CFG_DELIMITER = "/"
    MaxString = 4
    MaxPadding = 2
    Net = Net
    Task = Task
    None = None
    Unknown = Unknown
    Dangling = Dangling
    FlowSlots = 5
    MAX_PORT_ID = 4
    CFG_ARP_CACHE_ENTRIES = 2
    unMaxItemCount = 1
    ReplyPairs <- HonestReplies
SPECIFICATION FairSpec
CHECK_DEADLOCK FALSE
INVARIANTS OneFlowPerPeer FramesAttributed AnswerReachesSender OwnNamesResolved
PROPERTIES EveryFrameHandled
