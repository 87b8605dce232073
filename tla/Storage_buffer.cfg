SPECIFICATION Spec
CONSTANTS
    Ops = {w1, w2, s1, s2, s3}
    Syncs = {s1, s2, s3}
    BufferCounts = {1, 2, 3, 4}
    Width = 3
    SqDepth = 1
    MaxInterrupts = 1
    None = None
    IoWrites = {i1, i2}
    Addresses = {1, 2, 3}
    Users = {u1, u2, u3}
    PoolCapacity = 2
    Calls = {k1, k2}
    Inputs <- BatchInputs
    MaxPending = 2
    PipeCapacity = 2
    Blank = Blank
    f1 = f1
    f2 = f2
    Fragments = {f1, f2}
    Stream = st
    From <- FirstOffsets
    Ends <- BatchEnds
    Size = 4
    Sector = 2
    RingBuffer = 2
    Hole = Hole
    Clients = {c1, c2}
    Keys = {t1}
    Parts = {p1, p2}
    MaxCalls = 4
    MaxCrashes = 1
    Nobody = Nobody
INVARIANT IndexInRange
CHECK_DEADLOCK FALSE
