SPECIFICATION FairSpec
CONSTANTS
    Tasks = {t1}
    Urls = {u}
    Frags = {f1}
    Commands = {c1, c2}
    MaxTasks = 1
    MaxCrashes = 1
    None = None
INVARIANTS
    TypeOK
    CheckpointSound
    StoredCompletedIsComplete
    NoRuntimeLeak
PROPERTY CancelStopsWorker
CHECK_DEADLOCK FALSE
