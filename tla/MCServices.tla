---------------------------- MODULE MCServices ----------------------------
(***************************************************************************)
(* The components that a download calls on, for TLC, side by side: in a    *)
(* behaviour one part takes its steps and the others stay in an initial    *)
(* state, so that the states of the run are the sum of those of its parts. *)
(***************************************************************************)
EXTENDS Naturals, Sequences, FiniteSets, TLC

CONSTANTS
    Payers, Amounts, Rates, MaxWait, MaxClock, MaxPaid,
    Primary, Mirrors, Nobody,
    FtpCalls, NoStream,
    Servers, Requests, MaxTokens, MaxConnects, Free,
    Names, MaxPrevious, MaxFull, Dates, Today,
    Bits, Local, Met, Subnets, K, MaxNodes, MaxPerSubnet,
    Rpcs, Known, Strangers, MaxPerSecond, PeerIds, MaxDatagrams,
    IdBits, Start, Tells, Target, Alpha, Width,
    Callers, Hosts, HostOf, Sems, MaxGlobal, MaxPerHost, Threshold, MaxRequests, None, c3, h1, h2,
    DataSizes, GpuMin, MaxHashes,
    MeterFrags, FragBytes, Attempts, ChannelSize, Speeds, RingSize,
    ViewTasks, MaxReplies, MaxEvents,
    FileSizes, Bandwidths, MinFragment, MaxFragment, TargetFragments, MediumBandwidth,
    HighBandwidth, MaxFragmentCount, MaxConcurrency, FragmentRetries, EnoughSamples,
    Jobs, Priorities, Lengths, Progresses, MaxVersion,
    Paths, LinkTo, SaveDirs, RootSets, SystemTops, Creators, NoPath,
    MaxName, Octets, Segments, NoUrl,
    Pages, Urls, Filters, NoPage, Hidden, NoToken, MaxResources, MaxCaptured,
    SafeBytes, OtherBytes, MaxKey, MaxKeys, RecordFrags,
    ByteBits, IdBytes, Watched, MaxLoops, MaxStale,
    Keys, Scores, MaxSources,
    Huge, MaxUpdates,
    Identities, Kinds, Contents, MaxSent,
    HubEndpoints, Main, MirrorSite, Repos, Revisions, Slashed, HubFiles, Unset

\* Days around the ends of years, of February and of centuries, and the present one.
CalendarDates ==
    {<<1969, 12, 31>>, <<1970, 1, 1>>, <<1999, 12, 31>>, <<2000, 2, 29>>, <<2000, 3, 1>>, <<2024, 2, 29>>,
     <<2026, 11, 17>>, <<2026, 11, 18>>, <<2026, 12, 31>>, <<2027, 1, 1>>, <<2028, 2, 29>>,
     <<2028, 3, 1>>, <<2100, 2, 28>>, <<2100, 3, 1>>, <<2101, 1, 31>>}

\* Ids of two buckets; the first has more than it holds, three of them in one /24.
MetIds == {{2}, {2, 1}, {2, 0}, {2, 1, 0}, {1}}
SubnetOf == [id \in SUBSET Bits |-> IF id \in {{2}, {2, 1}, {2, 0}} THEN {2} ELSE id]

\* A lookup far from its target, in a network where a node tells of the ids
\* that differ from its own in one bit.
FarIds == {{2}, {2, 1}, {1}}
OneBitAway ==
    [n \in SUBSET IdBits |-> {m \in SUBSET IdBits : m # {} /\ Cardinality((m \ n) \cup (n \ m)) = 1}]

\* Two fragments of one download and one of another.
TwoDownloads == [c \in Callers |-> IF c = c3 THEN h2 ELSE h1]

\* Two roots and directories below them, with a link in one that leads to the other.
DiskPaths == {<<>>, <<"d">>, <<"d", "x">>, <<"d", "x", "y">>, <<"d", "l">>, <<"d", "l", "z">>, <<"e">>, <<"e", "z">>}
DiskLinks == <<"d", "l">> :> <<"e">>
DiskChoices == {<<"d">>, <<"e">>}
DiskRoots == {{<<"d">>}, {<<"d">>, <<"e">>}, {<<"d", "l">>}}

\* Files of one host: two of one name in different directories, and one with a query.
TaskUrl(path, query) ==
    [scheme |-> "https", user |-> "", host |-> "h", path |-> path, base |-> "f", query |-> query]
TaskUrls == {TaskUrl("", ""), TaskUrl("x", "q"), TaskUrl("y", "")}

\* The edges of the blocks of addresses.
OctetEdges ==
    <<{0, 1, 9, 10, 11, 100, 126, 127, 128, 169, 172, 191, 192, 198, 203, 223, 224, 255},
      {0, 15, 16, 18, 20, 31, 32, 51, 63, 64, 127, 128, 168, 169, 254}, {0, 1, 2, 100, 113}, {0, 1}>>
SegmentEdges == {0, 1, 8193, 64511, 64512, 65023, 65024, 65151, 65152, 65215, 65216, 65279, 65280, 65535}

\* A URL without a token, one with, and one of a site no filter names.
SniffedUrl(site, type, token) == [site |-> site, type |-> type, token |-> token]
SniffedUrls == {SniffedUrl("m", "model", NoToken), SniffedUrl("m", "model", "t1"), SniffedUrl("n", "other", NoToken)}

\* The code of "%": both its digits are bytes a key may have.
Hex == "%" :> <<"2", "5">>

\* A repository, and two names that are refused.
HubRepos == {<<"o", "m">>, <<"m">>, <<"..", "m">>}

VARIABLES
    part,
    clock, baseline, debt, rate, payer, update, paid, clamped,
    selected, raceUrl, race, racePc,
    ftpState, ftpStream, open, ftpKind, ftpPc, dataOn, cleaner, usedOf,
    connects, connection, closed, sender, tokens, expired, holder, reqPc, reqOn,
    httpPc, httpKind, name, previous, reply, outcome,
    nodes, standby,
    running, receiver, nextId, pendingIds, rpc, datagrams, sentTo, window, kept,
    lookupPc, goal, found, queried, inFlight, news, closest, told, value,
    pc, sem, todo, global, map, avail, active, requests,
    hashPc, hashes, chunks, keeps, cached, uploaded, output, staging, digest,
    attempts, received, finished, reports, fragBytes, total, counted,
    ring, writeIndex, ringCount, ringSum, peak, pushed,
    shared, private, run, tested, listening, latest, unseen, events, replies, shown, recorded,
    samples, predicted, estimate, fileSize, advice, fragments, records,
    heap, index, nextVersion, popped,
    dirs, config, locked, panel, creator, made,
    header, urlName, fileName,
    rows, refused, answer, resolved,
    filters, passing, resources, captured, managed,
    memory, files, answers,
    file, saved, loaded,
    refreshing, loops, silent, started, staled,
    sources, lastUpdated,
    limits, pool, scheduler, task, updates,
    sent, packet, taken, discarded,
    env, listing, link, fetched

ASSUME ServicesAssumption ==
    /\ Amounts \subseteq Nat \ {0} /\ 0 \in Rates /\ Rates \subseteq Nat /\ MaxWait \in Nat \ {0}
    /\ MaxClock \in Nat /\ MaxPaid \in Nat
    /\ Primary \notin Mirrors /\ Nobody \notin Mirrors \cup {Primary}
    /\ NoStream \notin FtpCalls
    /\ MaxTokens \in Nat \ {0} /\ MaxConnects \in Nat \ {0} /\ Free \notin Requests
    /\ MaxPrevious \in Nat \ {0} /\ MaxFull \in Nat /\ Today \in Nat
    /\ Dates \subseteq Nat \X (1..12) \X (1..31)
    /\ IsFiniteSet(Bits) /\ Bits = 0..(Cardinality(Bits) - 1) /\ Local \subseteq Bits /\ Local \notin Met
    /\ Met \subseteq SUBSET Bits /\ K \in Nat \ {0} /\ MaxNodes \in Nat
    /\ Known \cap Strangers = {} /\ PeerIds \subseteq Nat \ {0} /\ MaxPerSecond \in Nat /\ MaxDatagrams \in Nat
    /\ IdBits \subseteq Nat /\ IsFiniteSet(IdBits) /\ Start \subseteq SUBSET IdBits
    /\ Tells \in [SUBSET IdBits -> SUBSET SUBSET IdBits] /\ Target \subseteq IdBits /\ Alpha \in Nat \ {0} /\ Width \in Nat \ {0}
    /\ IsFiniteSet(Callers) /\ IsFiniteSet(Hosts) /\ None \notin Sems /\ HostOf \in [Callers -> Hosts]
    /\ IsFiniteSet(Sems) => Cardinality(Hosts) + Cardinality(Callers) <= Cardinality(Sems)
    /\ MaxGlobal \in Nat \ {0} /\ MaxPerHost \in Nat \ {0} /\ Threshold \in Nat /\ MaxRequests \in Nat
    /\ DataSizes \subseteq Nat \ {0} /\ IsFiniteSet(MeterFrags) /\ Speeds \subseteq Nat
    /\ FragBytes \in Nat /\ ChannelSize \in Nat \ {0} /\ RingSize \in Nat \ {0}
    /\ FileSizes \subseteq Nat /\ Bandwidths \subseteq Nat /\ TargetFragments \in Nat /\ MaxConcurrency \in Nat
    /\ MinFragment \in Nat \ {0} /\ MaxFragment \in Nat /\ MaxFragment >= MinFragment /\ MaxFragmentCount \in Nat \ {0}
    /\ Jobs \subseteq Nat \ {0} /\ Priorities \cup Lengths \cup Progresses \subseteq Nat
    /\ <<>> \in Paths \ DOMAIN LinkTo /\ Paths \cup SaveDirs \subseteq Seq(STRING) /\ NoPath \notin Paths
    /\ \A p \in DOMAIN LinkTo : LinkTo[p] \in Seq(STRING)
    /\ \A roots \in RootSets : roots \subseteq Seq(STRING)
    /\ "nobody" \notin Creators /\ MaxName \in Nat /\ NoUrl \notin TaskUrls
    /\ NoPage \notin Urls /\ (\A url \in Urls : "token" \in DOMAIN url) /\ Hidden # NoToken /\ MaxResources \in Nat \ {0} /\ MaxCaptured \in Nat
    /\ OtherBytes = DOMAIN Hex /\ SafeBytes \cap OtherBytes = {} /\ MaxKey \in Nat /\ MaxKeys \in Nat
    /\ ByteBits \in Nat \ {0} /\ IdBytes \in Nat \ {0} /\ Watched \subseteq 0..(ByteBits * IdBytes - 1)
    /\ MaxLoops \in Nat /\ MaxStale \in Nat /\ Scores \subseteq Nat \ {0} /\ MaxSources \in Nat
    /\ Huge \in Nat \ {0} /\ MaxUpdates \in Nat /\ MaxSent \in Nat
    /\ Repos \subseteq Seq(STRING) /\ (\A r \in Repos : \A i \in DOMAIN r : r[i] # Main)
    /\ Main \notin Revisions \cup HubFiles
    /\ {Main} \subseteq HubEndpoints /\ MirrorSite # Main /\ Slashed \subseteq Revisions

\* Four octets, and the first segment of an IPv6 address.
ASSUME AddressAssumption ==
    /\ \A i \in 1..4 : \A octet \in Octets[i] : octet \in Nat /\ octet < 256
    /\ \A segment \in Segments : segment \in Nat /\ segment < 65536

Limiter == INSTANCE RateLimiter
Mirror == INSTANCE MirrorSources
Ftp == INSTANCE FtpSession
Quic == INSTANCE QuicTransport
Http == INSTANCE HttpExchange
Routes == INSTANCE RoutingTable
Rpc == INSTANCE DhtTransport
Lookup == INSTANCE DhtLookup
Pool == INSTANCE ConnectionPool
Hashes == INSTANCE Hashing
Meter == INSTANCE ProgressMeter
View == INSTANCE TaskView
Plan == INSTANCE FragmentPlan
Queue == INSTANCE TaskQueue
Config == INSTANCE Configuration
FileName == INSTANCE FileNames
Url == INSTANCE TaskUrls
Sniff == INSTANCE Sniffer
Key == INSTANCE StoreKeys
Record == INSTANCE TaskRecords
Refresh == INSTANCE BucketRefresh WITH running <- refreshing
Peers == INSTANCE PeerSources
Limits == INSTANCE ConfigLimits
Sign == INSTANCE DhtSigning
Hub == INSTANCE ModelHub

limiterVars == <<clock, baseline, debt, rate, payer, update, paid, clamped>>
mirrorVars == <<selected, raceUrl, race, racePc>>
ftpVars == <<ftpState, ftpStream, open, ftpKind, ftpPc, dataOn, cleaner, usedOf>>
quicVars == <<connects, connection, closed, sender, tokens, expired, holder, reqPc, reqOn>>
httpVars == <<httpPc, httpKind, name, previous, reply, outcome>>
tableVars == <<nodes, standby>>
dhtVars == <<running, receiver, nextId, pendingIds, rpc, datagrams, sentTo, window, kept>>
lookupVars == <<lookupPc, goal, found, queried, inFlight, news, closest, told, value>>
poolVars == <<pc, sem, todo, global, map, avail, active, requests>>
hashVars == <<hashPc, hashes, chunks, keeps, cached, uploaded, output, staging, digest>>
meterVars ==
    <<attempts, received, finished, reports, fragBytes, total, counted,
      ring, writeIndex, ringCount, ringSum, peak, pushed>>
viewVars == <<shared, private, run, tested, listening, latest, unseen, events, replies, shown, recorded>>
planVars == <<samples, predicted, estimate, fileSize, advice, fragments, records>>
queueVars == <<heap, index, nextVersion, popped>>
configVars == <<dirs, config, locked, panel, creator, made>>
nameVars == <<header, urlName, fileName>>
urlVars == <<rows, refused, answer, resolved>>
sniffVars == <<filters, passing, resources, captured, managed>>
keyVars == <<memory, files, answers>>
recordVars == <<file, saved, loaded>>
refreshVars == <<refreshing, loops, silent, started, staled>>
sourceVars == <<sources, lastUpdated>>
limitVars == <<limits, pool, scheduler, task, updates>>
signVars == <<sent, packet, taken, discarded>>
hubVars == <<env, listing, link, fetched>>
vars ==
    <<part, limiterVars, mirrorVars, ftpVars, quicVars, httpVars, tableVars, dhtVars, lookupVars,
      poolVars, hashVars, meterVars, viewVars, planVars, queueVars, configVars, nameVars,
      urlVars, sniffVars, keyVars, recordVars,
      refreshVars, sourceVars, limitVars, signVars, hubVars>>

Init ==
    /\ part \in {"limiter", "mirror", "ftp", "quic", "http", "routes", "rpc", "lookup", "pool", "hash",
                "meter", "view", "plan", "queue", "config", "names", "urls", "sniffer",
                "keys", "records", "refresh", "peers", "limits", "sign", "hub"}
    /\ Limiter!Init /\ (part # "limiter" => rate = CHOOSE r \in Rates \ {0} : TRUE)
    /\ Ftp!Init /\ (part # "ftp" => ftpKind = [c \in FtpCalls |-> "whole"])
    /\ Http!Init /\ (part # "http" => httpKind = "probe" /\ name = CHOOSE n \in Names : TRUE)
    /\ Lookup!Init /\ (part # "lookup" => goal = "find")
    /\ Hashes!Init /\ (part # "hash" => keeps)
    /\ Config!Init /\ (part # "config" => dirs = Paths \ DOMAIN LinkTo /\ config.roots = CHOOSE R \in RootSets : R # {})
    /\ FileName!Init /\ (part # "names" => header = <<>> /\ urlName = <<>>)
    /\ Hub!Init /\ (part # "hub" => env.endpoint = Unset /\ env.tokens = [i \in 1..Len(Hub!Places) |-> Unset])
    /\ Mirror!Init /\ Quic!Init /\ Routes!Init /\ Rpc!Init /\ Pool!Init /\ Meter!Init
    /\ View!Init /\ Plan!Init /\ Queue!Init /\ Url!Init /\ Sniff!Init
    /\ Record!Init /\ (part # "records" => file = Record!Missing)
    /\ Key!Init /\ Refresh!Init /\ Peers!Init /\ Limits!Init /\ Sign!Init

Rest(p) ==
    /\ p # "limiter" => UNCHANGED limiterVars
    /\ p # "mirror" => UNCHANGED mirrorVars
    /\ p # "ftp" => UNCHANGED ftpVars
    /\ p # "quic" => UNCHANGED quicVars
    /\ p # "http" => UNCHANGED httpVars
    /\ p # "routes" => UNCHANGED tableVars
    /\ p # "rpc" => UNCHANGED dhtVars
    /\ p # "lookup" => UNCHANGED lookupVars
    /\ p # "pool" => UNCHANGED poolVars
    /\ p # "hash" => UNCHANGED hashVars
    /\ p # "meter" => UNCHANGED meterVars
    /\ p # "view" => UNCHANGED viewVars
    /\ p # "plan" => UNCHANGED planVars
    /\ p # "queue" => UNCHANGED queueVars
    /\ p # "config" => UNCHANGED configVars
    /\ p # "names" => UNCHANGED nameVars
    /\ p # "urls" => UNCHANGED urlVars
    /\ p # "sniffer" => UNCHANGED sniffVars
    /\ p # "keys" => UNCHANGED keyVars
    /\ p # "records" => UNCHANGED recordVars
    /\ p # "refresh" => UNCHANGED refreshVars
    /\ p # "peers" => UNCHANGED sourceVars
    /\ p # "limits" => UNCHANGED limitVars
    /\ p # "sign" => UNCHANGED signVars
    /\ p # "hub" => UNCHANGED hubVars

Only(p, A) == part = p /\ A /\ Rest(p) /\ UNCHANGED part

Next ==
    \/ Only("limiter", Limiter!Next)
    \/ Only("mirror", Mirror!Next)
    \/ Only("ftp", Ftp!Next)
    \/ Only("quic", Quic!Next)
    \/ Only("http", Http!Next)
    \/ Only("routes", Routes!Next)
    \/ Only("rpc", Rpc!Next)
    \/ Only("lookup", Lookup!Next)
    \/ Only("pool", Pool!Next)
    \/ Only("hash", Hashes!Next)
    \/ Only("meter", Meter!Next)
    \/ Only("view", View!Next)
    \/ Only("plan", Plan!Next)
    \/ Only("queue", Queue!Next)
    \/ Only("config", Config!Next)
    \/ Only("names", FileName!Next)
    \/ Only("urls", Url!Next)
    \/ Only("sniffer", Sniff!Next)
    \/ Only("keys", Key!Next)
    \/ Only("records", Record!Next)
    \/ Only("refresh", Refresh!Next)
    \/ Only("peers", Peers!Next)
    \/ Only("limits", Limits!Next)
    \/ Only("sign", Sign!Next)
    \/ Only("hub", Hub!Next)

Spec == Init /\ [][Next]_vars

\* As long as a call of a part can go on, one does: less than fairness to each
\* of them.  Servers and peers answer in time or a timeout takes their place
\* (HTTP read timeout, RPC_TIMEOUT, PRIMARY_FAST_TIMEOUT).  An FTP server that stops
\* answering keeps a call of FtpClient for ever: nothing is assumed of the FTP part.
Progress ==
    \/ Only("mirror", Mirror!Proceed)
    \/ Only("http", Http!Next)
    \/ Only("rpc", \E c \in Rpcs : Rpc!Caller(c))
    \/ Only("lookup", Lookup!LookupStep)
    \/ Only("pool", \E c \in Callers : Pool!AcquireStep(c))
    \/ Only("refresh", \E i \in 1..MaxLoops : Refresh!LoopStep(i))

FairSpec == Spec /\ WF_vars(Progress)

-----------------------------------------------------------------------------
(* The properties of the parts: only one that moves can break its own.      *)

\* The type invariants of the components: each variable stays in its range.
TypeOK ==
    CASE part = "limiter" -> Limiter!TypeOK
      [] part = "mirror" -> Mirror!TypeOK
      [] part = "ftp" -> Ftp!TypeOK
      [] part = "quic" -> Quic!TypeOK
      [] part = "http" -> Http!TypeOK
      [] part = "routes" -> Routes!TypeOK
      [] part = "rpc" -> Rpc!TypeOK
      [] part = "lookup" -> Lookup!TypeOK
      [] part = "pool" -> Pool!TypeOK
      [] part = "hash" -> Hashes!TypeOK
      [] part = "meter" -> Meter!TypeOK
      [] part = "view" -> View!TypeOK
      [] part = "plan" -> Plan!TypeOK
      [] part = "queue" -> Queue!TypeOK
      [] part = "config" -> Config!TypeOK
      [] part = "names" -> FileName!TypeOK
      [] part = "urls" -> Url!TypeOK
      [] part = "sniffer" -> Sniff!TypeOK
      [] part = "keys" -> Key!TypeOK
      [] part = "records" -> Record!TypeOK
      [] part = "refresh" -> Refresh!TypeOK
      [] part = "peers" -> Peers!TypeOK
      [] part = "limits" -> Limits!TypeOK
      [] part = "sign" -> Sign!TypeOK
      [] part = "hub" -> Hub!TypeOK

\* The fragments of a download together keep to the rate.
Paced == part = "limiter" => Limiter!Paced
\* A race of mirrors is lost or won only when it is decided.
RaceDecided == part = "mirror" => Mirror!RaceDecided
\* The last of several overlapping FTP calls leaves no connection open.
NoConnectionLeft == part = "ftp" => Ftp!NoConnectionLeft
\* The session cache of QUIC keeps its limit and drops what has expired first.
SessionCacheKept == [][part = "quic" => Quic!SessionCacheStep]_vars
\* What is computed is what its definition says: the time to the date of a
\* Retry-After, the tree of a digest over the values it is given, a plan that covers
\* the file, a safe file name, the blocks of addresses, the keys of a store and what
\* is under them, the random id of a bucket, the choice of a source, the limits of a
\* configuration, the file of a model hub.
Computed ==
    /\ part = "http" => Http!WaitsUntilDate
    /\ part = "hash" => Hashes!DigestIsTree
    /\ part = "plan" => Plan!PlanCovers
    /\ part = "names" => FileName!NameIsSafe
    /\ part = "urls" => Url!BlocksRefused
    /\ part = "keys" => Key!StoresAgree
    /\ part = "records" => Record!RecordSurvives
    /\ part = "refresh" => Refresh!RandomIdInBucket
    /\ part = "peers" => Peers!ChosenByWeight
    /\ part = "limits" => Limits!AcceptedConfigRuns
    /\ part = "hub" => Hub!LinkedFileFetched
\* A known node of the DHT waits in a cache only behind a full bucket, and is
\* found where its distance puts it.
CacheOnlyWhenFull == part = "routes" => Routes!CacheOnlyWhenFull /\ Routes!KnownIsFound
\* A late answer to one RPC is not taken for the answer to another; a message taken
\* under a signature (not one without) is what the node it names has sent.
AnswersNotMixed ==
    /\ part = "rpc" => Rpc!AnswersNotMixed
    /\ part = "sign" => Sign!SignedAsSent
\* A lookup ends only after the nearest nodes it knows of were asked.
LookupConverged == part = "lookup" => Lookup!LookupConverged
\* Connection permits are neither lost nor made.
PermitsConserved == part = "pool" => Pool!PermitsConserved
\* The semaphore of a busy host stays in the map of the pool.
BusyHostKept == [][part = "pool" => Pool!BusyHostStep]_vars
\* Sums and peaks that are kept in passing are those of what they sum up.
MetersExact == part = "meter" => Meter!MetersExact
\* The history of the window says of a download that it has completed once for each
\* of the two events that announce it, and only after it did.
RecordedAsAnnounced == part = "view" => View!RecordedAsAnnounced
\* Only directories under an authorized root are made and written to.
DirsAuthorized == part = "config" => Config!DirsAuthorized
\* The list of the sniffer is the newest of what was captured.
SnifferKept == part = "sniffer" => Sniff!SnifferKept
\* The heap and the index of the task scheduler are a queue in order of rank.
QueueImplemented == [][part = "queue" => Queue!QueueStep]_vars

\* Calls return: a race of mirrors, an HTTP request with its redirects, an RPC
\* whatever the network does, a lookup in any network, a caller of the connection
\* pool, and the refresh of silent buckets; not those of FtpClient.
Waits ==
    \/ part = "mirror" /\ Mirror!Call
    \/ part = "http" /\ Http!RequestRuns
    \/ part = "rpc" /\ Rpc!RpcWaits
    \/ part = "lookup" /\ Lookup!LookupRuns
    \/ part = "pool" /\ Pool!PoolRuns
    \/ part = "refresh" /\ Refresh!RefreshRuns
CallsReturn == Waits ~> ~Waits

-----------------------------------------------------------------------------
(* What the repository says and the code does not do.                       *)

\* max_per_host is the maximum number of connections of one host.
HostLimit == Pool!HostLimit
\* The chaining values that are read back are reduced to the root of BLAKE3.
ReductionIsBlake3 == part = "hash" => Hashes!ReductionIsBlake3
\* A download is refused as a duplicate of an unfinished one of the same URL.
OnlySameUrlRefused == Url!OnlySameUrlRefused
=============================================================================
