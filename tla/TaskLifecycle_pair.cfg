SPECIFICATION Spec
CONSTANTS
    Tasks = {t1, t2}
    Urls = {u}
    Frags = {}
    Commands = {c1}
    MaxTasks = 2
    MaxCrashes = 1
    None = None
INVARIANT UniqueLiveUrl
PROPERTY ImplementsRegistry
CONSTRAINT OneDownload
SYMMETRY Symmetry
CHECK_DEADLOCK FALSE
