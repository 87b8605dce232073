SPECIFICATION FairSpec
CONSTANTS
    Payers = {p1, p2}
    Amounts = {1, 2}
    Rates = {0, 2}
    MaxWait = 2
    MaxClock = 2
    MaxPaid = 3
    Primary = a
    Mirrors = {m1, m2}
    Nobody = Nobody
    FtpCalls = {f1, f2}
    NoStream = NoStream
    Servers = {s1, s2, s3}
    Requests = {q1}
    MaxTokens = 2
    MaxConnects = 3
    Free = Free
    Names = {n1, n2}
    MaxPrevious = 3
    MaxFull = 1
    Dates <- CalendarDates
    Today = 20775
    Bits = {0, 1, 2}
    Local = {}
    Met <- MetIds
    Subnets <- SubnetOf
    K = 2
    MaxNodes = 3
    MaxPerSubnet = 2
    Rpcs = {r1, r2}
    Known = {d1}
    Strangers = {d2}
    MaxPerSecond = 1
    PeerIds = {1}
    MaxDatagrams = 2
    IdBits = {0, 1, 2}
    Start <- FarIds
    Tells <- OneBitAway
    Target = {0}
    Alpha = 2
    Width = 3
    Callers = {c1, c2, c3}
    c3 = c3
    Hosts = {h1, h2}
    h1 = h1
    h2 = h2
    HostOf <- TwoDownloads
    Sems = {e1, e2, e3, e4, e5}
    MaxGlobal = 2
    MaxPerHost = 1
    Threshold = 1
    MaxRequests = 4
    None = None
    DataSizes = {1, 3, 4, 5, 6, 7}
    GpuMin = 3
    MaxHashes = 3
    MeterFrags = {g1, g2}
    FragBytes = 2
    Attempts = 2
    ChannelSize = 2
    Speeds = {0, 1, 2}
    RingSize = 3
    ViewTasks = {v1, v2}
    MaxReplies = 1
    MaxEvents = 1
    FileSizes = {0, 1, 7, 12, 13, 17}
    Bandwidths = {0, 1, 3}
    MinFragment = 2
    MaxFragment = 6
    TargetFragments = 4
    MediumBandwidth = 1
    HighBandwidth = 2
    MaxFragmentCount = 5
    MaxConcurrency = 3
    FragmentRetries = 1
    EnoughSamples = 2
    Jobs = {1, 2}
    Priorities = {0, 1}
    Lengths = {1}
    Progresses = {0, 1}
    MaxVersion = 4
    Paths <- DiskPaths
    LinkTo <- DiskLinks
    SaveDirs <- DiskChoices
    RootSets <- DiskRoots
    SystemTops = {"usr"}
    Creators = {t1}
    NoPath = NoPath
    MaxName = 5
    NoUrl = NoUrl
    Urls <- SniffedUrls
    Pages = {x1, x2}
    Filters = {"m"}
    NoPage = NoPage
    Hidden = "hidden"
    NoToken = "none"
    MaxResources = 2
    MaxCaptured = 4
    SafeBytes = {"2", "5"}
    OtherBytes = {"%"}
    MaxKey = 3
    MaxKeys = 2
    RecordFrags = {0, 1}
    ByteBits = 3
    IdBytes = 2
    Watched = {0, 3}
    MaxLoops = 2
    MaxStale = 3
    Keys = {"a", "b"}
    Scores = {1, 2, 3}
    MaxSources = 3
    Huge = 1000000000
    MaxUpdates = 2
    Identities = {"i1", "i2"}
    Kinds = {"ping", "store"}
    Contents = {"x"}
    MaxSent = 2
    HubEndpoints = {"hf", "other"}
    Main = "hf"
    MirrorSite = "mirror"
    Repos <- HubRepos
    Octets <- OctetEdges
    Segments <- SegmentEdges
    Revisions = {"main", "refs/pr/1"}
    Slashed = {"refs/pr/1"}
    HubFiles = {"a", "b"}
    Unset = "unset"
INVARIANTS
    TypeOK
    Paced
    RaceDecided
    NoConnectionLeft
    CacheOnlyWhenFull
    AnswersNotMixed
    LookupConverged
    PermitsConserved
    MetersExact
    RecordedAsAnnounced
    DirsAuthorized
    SnifferKept
    Computed
PROPERTIES
    SessionCacheKept
    BusyHostKept
    QueueImplemented
    CallsReturn
CHECK_DEADLOCK FALSE
