SPECIFICATION ClusterSpec
CONSTANTS
    Nodes = {n1, n2}
    NoNode = NoNode
    Local = n1
    HasExecutor = TRUE
    Dispatches = {d1}
    Loads = {0, 1}
    HeartbeatTimeout = 1
    OfflineTimeout = 2
    CheckInterval = 1
    MaxAge = 3
INVARIANTS ClusterTypeOK FreshOnline AnswersStand
PROPERTY DispatchesEnd
