SPECIFICATION Spec
CONSTANTS
    Tasks = {t1}
    Urls = {u}
    Frags = {f1}
    Commands = {c1}
    MaxTasks = 1
    MaxCrashes = 1
    None = None
PROPERTY CancelledNotRecovered
CHECK_DEADLOCK FALSE
