SPECIFICATION Spec
CONSTANTS
    Frags = {f1, f2}
    Chunks = 1
    MaxRetries = 1
    MaxPermits = 1
    Threshold = 2
PROPERTY DownloadedFileCompletes
CHECK_DEADLOCK FALSE
