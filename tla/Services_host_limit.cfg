SPECIFICATION Spec
CONSTANTS
    Payers = {p1}
    Amounts = {1, 2}
    Rates = {0, 2}
    MaxWait = 2
    MaxClock = 1
    MaxPaid = 1
    Primary = a
    Mirrors = {m1}
    Nobody = Nobody
    FtpCalls = {f1}
    NoStream = NoStream
    Servers = {s1}
    Requests = {q1}
    MaxTokens = 2
    MaxConnects = 3
    Free = Free
    Names = {n1}
    MaxPrevious = 1
    MaxFull = 1
    Dates <- CalendarDates
    Today = 20775
    Bits = {0, 1, 2}
    Local = {}
    Met <- MetIds
    Subnets <- SubnetOf
    K = 1
    MaxNodes = 3
    MaxPerSubnet = 2
    Rpcs = {r1}
    Known = {d1}
    Strangers = {d2}
    MaxPerSecond = 1
    PeerIds = {1}
    MaxDatagrams = 1
    IdBits = {0, 1, 2}
    Start <- FarIds
    Tells <- OneBitAway
    Target = {0}
    Alpha = 2
    Width = 3
    Callers = {c1, c2, c3}
    c3 = c3
    Hosts = {h1, h2}
    h1 = h1
    h2 = h2
    HostOf <- TwoDownloads
    Sems = {e1, e2, e3, e4, e5}
    MaxGlobal = 3
    MaxPerHost = 1
    Threshold = 1
    MaxRequests = 4
    None = None
    DataSizes = {3}
    GpuMin = 3
    MaxHashes = 1
    MeterFrags = {g1}
    FragBytes = 2
    Attempts = 1
    ChannelSize = 2
    Speeds = {0}
    RingSize = 3
    ViewTasks = {v1}
    MaxReplies = 1
    MaxEvents = 1
    FileSizes = {7}
    Bandwidths = {0, 1, 3}
    MinFragment = 2
    MaxFragment = 6
    TargetFragments = 4
    MediumBandwidth = 1
    HighBandwidth = 2
    MaxFragmentCount = 5
    MaxConcurrency = 3
    FragmentRetries = 1
    EnoughSamples = 2
    Jobs = {1}
    Priorities = {0}
    Lengths = {1}
    Progresses = {0}
    MaxVersion = 2
    Paths <- DiskPaths
    LinkTo <- DiskLinks
    SaveDirs <- DiskChoices
    RootSets <- DiskRoots
    SystemTops = {"usr"}
    Creators = {}
    NoPath = NoPath
    MaxName = 1
    NoUrl = NoUrl
    Urls <- SniffedUrls
    Pages = {x1}
    Filters = {"m"}
    NoPage = NoPage
    Hidden = "hidden"
    NoToken = "none"
    MaxResources = 2
    MaxCaptured = 1
    SafeBytes = {"2", "5"}
    OtherBytes = {"%"}
    MaxKey = 0
    MaxKeys = 2
    RecordFrags = {}
    ByteBits = 3
    IdBytes = 2
    Watched = {0, 3}
    MaxLoops = 0
    MaxStale = 0
    Keys = {"a", "b"}
    Scores = {1, 2, 3}
    MaxSources = 0
    Huge = 1000000000
    MaxUpdates = 0
    Identities = {"i1", "i2"}
    Kinds = {"ping", "store"}
    Contents = {"x"}
    MaxSent = 0
    HubEndpoints = {"hf", "other"}
    Main = "hf"
    MirrorSite = "mirror"
    Repos <- HubRepos
    Octets <- OctetEdges
    Segments <- SegmentEdges
    Revisions = {"main", "refs/pr/1"}
    Slashed = {"refs/pr/1"}
    HubFiles = {"a", "b"}
    Unset = "unset"
INVARIANT HostLimit
CHECK_DEADLOCK FALSE
