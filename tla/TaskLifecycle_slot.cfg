SPECIFICATION FairSpec
CONSTANTS
    Tasks = {t1}
    Urls = {u}
    Frags = {f1}
    Commands = {c1}
    MaxTasks = 1
    MaxCrashes = 0
    None = None
PROPERTY SlotFreed
CHECK_DEADLOCK FALSE
