SPECIFICATION FairSpec
CONSTANTS
    Frags = {f1, f2}
    Chunks = 1
    MaxRetries = 1
    MaxPermits = 2
    Threshold = 2
INVARIANTS
    TypeOK
    DownloadedIsComplete
    EventsAreWritten
    NoTaskOutlivesRun
PROPERTIES RunEnds ImplementsRun
CHECK_DEADLOCK FALSE
