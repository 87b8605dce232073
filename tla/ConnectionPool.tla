---------------------------- MODULE ConnectionPool ----------------------------
(***************************************************************************)
(* The ConnectionPool of tachyon-engine that all downloads share: a global *)
(* semaphore, and a map from hosts to semaphores that acquire() fills and  *)
(* that it empties again of idle hosts when there are too many.  A caller  *)
(* is a fragment task; it can be aborted at each await of acquire().       *)
(***************************************************************************)
EXTENDS Naturals, FiniteSets

CONSTANTS
    Callers,
    Hosts,
    HostOf,      \* the host of a caller: that of the URL of its DownloadTask
    Sems,        \* identities of host semaphores, used again once they are dropped
    MaxGlobal,   \* config.max_global
    MaxPerHost,  \* config.max_per_host
    Threshold,   \* cleanup_threshold, less the idle hosts that are not modelled
    MaxRequests, \* bound on the calls of acquire
    None

VARIABLES
    pc,      \* where a caller stands
    sem,     \* the host semaphore it has a reference to
    todo,    \* the hosts its cleanup has still to visit
    global,  \* available permits of global_semaphore
    map,     \* host_semaphores
    avail,   \* available permits of a host semaphore
    active,  \* active_count
    requests \* calls of acquire so far

caller == <<sem, todo>>
poolVars == <<pc, caller, global, map, avail, active, requests>>

Init ==
    /\ pc = [c \in Callers |-> "idle"]
    /\ sem = [c \in Callers |-> None]
    /\ todo = [c \in Callers |-> {}]
    /\ global = MaxGlobal
    /\ map = [h \in Hosts |-> None]
    /\ avail = [s \in Sems |-> MaxPerHost]
    /\ active = 0
    /\ requests = 0

Goto(c, from, to) == pc[c] = from /\ pc' = [pc EXCEPT ![c] = to]

-----------------------------------------------------------------------------
(* acquire()                                                                *)

Request(c) ==
    /\ requests < MaxRequests
    /\ Goto(c, "idle", "global")
    /\ requests' = requests + 1
    /\ UNCHANGED <<caller, global, map, avail, active>>

GlobalGranted(c) ==
    /\ global > 0
    /\ Goto(c, "global", "get")
    /\ global' = global - 1
    /\ UNCHANGED <<caller, map, avail, active, requests>>

\* host_semaphore: the Arc is cloned out of the map ...
HostKnown(c) ==
    /\ Goto(c, "get", "host")
    /\ map[HostOf[c]] # None
    /\ sem' = [sem EXCEPT ![c] = map[HostOf[c]]]
    /\ UNCHANGED <<todo, global, map, avail, active, requests>>

HostUnknown(c) ==
    /\ Goto(c, "get", "entry")
    /\ map[HostOf[c]] = None
    /\ UNCHANGED <<caller, global, map, avail, active, requests>>

\* ... or a semaphore is made, unless another caller has just made one.
Unused(s) == s \notin {map[h] : h \in Hosts} \cup {sem[c] : c \in Callers}

\* Mutant of OrInsert: the entry is not looked at again before the insert.
Insert(h) == CHOOSE s \in Sems : Unused(s)

OrInsert(h) == IF map[h] # None THEN map[h] ELSE CHOOSE s \in Sems : Unused(s)

HostEntered(c) ==
    LET s == OrInsert(HostOf[c])
    IN /\ Goto(c, "entry", "host")
       /\ map' = [map EXCEPT ![HostOf[c]] = s]
       /\ sem' = [sem EXCEPT ![c] = s]
       /\ UNCHANGED <<todo, global, avail, active, requests>>

HostGranted(c) ==
    /\ Goto(c, "host", "granted")
    /\ avail[sem[c]] > 0
    /\ avail' = [avail EXCEPT ![sem[c]] = @ - 1]
    /\ UNCHANGED <<caller, global, map, active, requests>>

TooManyHosts == Cardinality({h \in Hosts : map[h] # None}) > Threshold

\* fetch_add, and the cleanup of the map when it has grown too large.
Counted(c) ==
    /\ active' = active + 1
    /\ Goto(c, "granted", IF TooManyHosts THEN "cleanup" ELSE "held")
    /\ todo' = [todo EXCEPT ![c] = IF TooManyHosts THEN Hosts ELSE {}]
    /\ UNCHANGED <<sem, global, map, avail, requests>>

\* All permits of its semaphore are available.
Idle(h) == avail[map[h]] = MaxPerHost

\* cleanup_idle_hosts: retain() locks one shard of the map after the other.
CleanupVisits(c, h) ==
    /\ pc[c] = "cleanup"
    /\ h \in todo[c]
    /\ todo' = [todo EXCEPT ![c] = @ \ {h}]
    /\ map' = IF map[h] # None /\ Idle(h) THEN [map EXCEPT ![h] = None] ELSE map
    /\ UNCHANGED <<pc, sem, global, avail, active, requests>>

CleanupEnds(c) ==
    /\ todo[c] = {}
    /\ Goto(c, "cleanup", "held")
    /\ UNCHANGED <<caller, global, map, avail, active, requests>>

-----------------------------------------------------------------------------
(* The end of a ConnectionPermit: drop() counts down, then its fields are   *)
(* dropped in the order of their declaration.                               *)

DropCounts(c) ==
    /\ Goto(c, "held", "dropglobal")
    /\ active' = active - 1
    /\ UNCHANGED <<caller, global, map, avail, requests>>

DropGlobal(c) ==
    /\ Goto(c, "dropglobal", "drophost")
    /\ global' = global + 1
    /\ UNCHANGED <<caller, map, avail, active, requests>>

DropHost(c) ==
    /\ Goto(c, "drophost", "idle")
    /\ avail' = [avail EXCEPT ![sem[c]] = @ + 1]
    /\ sem' = [sem EXCEPT ![c] = None]
    /\ UNCHANGED <<todo, global, map, active, requests>>

\* Mutant of GivenBack: an abort forgets the global permit.
NothingGivenBack(c) == 0

\* The global permit is a local of acquire() while it waits for the host.
GivenBack(c) == IF pc[c] = "host" THEN 1 ELSE 0

\* The fragment task is aborted while it waits.
Aborted(c) ==
    /\ pc[c] \in {"global", "host"}
    /\ pc' = [pc EXCEPT ![c] = "idle"]
    /\ global' = global + GivenBack(c)
    /\ sem' = [sem EXCEPT ![c] = None]
    /\ UNCHANGED <<todo, map, avail, active, requests>>

-----------------------------------------------------------------------------
Release(c) == DropCounts(c) \/ DropGlobal(c) \/ DropHost(c)

Works(c) ==
    \/ HostKnown(c) \/ HostUnknown(c) \/ HostEntered(c) \/ Counted(c)
    \/ (\E h \in Hosts : CleanupVisits(c, h)) \/ CleanupEnds(c)
    \/ Release(c)

\* The holder of a permit ends its attempt some day: the HTTP client has a read timeout.
AcquireStep(c) == GlobalGranted(c) \/ HostGranted(c) \/ Works(c)

Next == \E c \in Callers : Request(c) \/ AcquireStep(c) \/ Aborted(c)

Spec == Init /\ [][Next]_poolVars

-----------------------------------------------------------------------------
(* Properties.                                                              *)

HoldsGlobal == {"get", "entry", "host", "granted", "cleanup", "held", "dropglobal"}
HoldsHost == {"granted", "cleanup", "held", "dropglobal", "drophost"}
In(S) == {c \in Callers : pc[c] \in S}

TypeOK ==
    /\ pc \in [Callers -> {"idle", "global"} \cup HoldsGlobal \cup HoldsHost]
    /\ sem \in [Callers -> Sems \cup {None}]
    /\ todo \in [Callers -> SUBSET Hosts]
    /\ global \in 0..MaxGlobal
    /\ map \in [Hosts -> Sems \cup {None}]
    /\ avail \in [Sems -> 0..MaxPerHost]
    /\ active \in Nat /\ requests \in 0..MaxRequests

\* Permits are neither lost nor made, in whatever order callers are granted,
\* aborted and released and the map is cleaned: what a semaphore has left and
\* what its holders have is what it was made with, and active_count is the
\* number of callers between fetch_add and fetch_sub.
PermitsConserved ==
    /\ global + Cardinality(In(HoldsGlobal)) = MaxGlobal
    /\ \A s \in Sems :
          avail[s] + Cardinality({c \in In(HoldsHost) : sem[c] = s}) = MaxPerHost
    /\ active = Cardinality(In({"cleanup", "held"}))

\* The semaphore of a host is not replaced while a caller holds a permit of
\* it, though cleanup, insertions and releases overlap: a permit holder's
\* semaphore is the one in the map, unless it was granted by a semaphore
\* that had been dropped from the map before the grant.
BusyHostStep ==
    \A c \in Callers :
        pc[c] \in HoldsHost /\ pc'[c] \in HoldsHost /\ map[HostOf[c]] = sem[c]
            => map'[HostOf[c]] = sem[c]

\* Somebody waits for a permit or holds one.
PoolRuns == \E c \in Callers : pc[c] # "idle"

-----------------------------------------------------------------------------
(* What the repository says and the code does not do.                       *)

\* max_per_host is "the maximum number of connections of one host".
HostLimit ==
    \A h \in Hosts : Cardinality({c \in In(HoldsHost) : HostOf[c] = h}) <= MaxPerHost
=============================================================================
