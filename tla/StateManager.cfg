SPECIFICATION StateSpec
CONSTANTS
    t1 = t1
    t2 = t2
    Tasks = {t1, t2}
    NoId = NoId
    Manager = manager
    watcher = watcher
    Subscribers = {manager, watcher}
    Wants <- MCWants
    Published = {"created", "started", "paused"}
    Emits <- MCEmits
    MaxEvents = 3
    None = None
    Interval = 2
INVARIANTS StateTypeOK StateFollowsLog SnapshotRecovers
PROPERTY EventsArrive
CHECK_DEADLOCK FALSE
