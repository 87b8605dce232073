--------------------------- MODULE RoutingTable ---------------------------
(***************************************************************************)
(* KBucket, RoutingTable and the part of KademliaDht that changes them.    *)
(* An id is the set of its one bits, so the XOR distance of two ids is     *)
(* their symmetric difference and its leading zeros end at its largest     *)
(* member.                                                                 *)
(***************************************************************************)
EXTENDS Naturals, SequencesExt

CONSTANTS
    Bits,        \* bit positions of an id, and indices of the buckets
    Local,       \* local_id
    Met,         \* ids of the nodes that it hears of
    Subnets,     \* the /24 of each id, as extract_subnet_key finds it
    K,           \* K_BUCKET_SIZE
    MaxNodes,    \* max_nodes
    MaxPerSubnet \* MAX_NODES_PER_SUBNET

Ids == SUBSET Bits

XorDistance(a, b) == (a \ b) \cup (b \ a)

\* a is closer to the target than b.
Closer(a, b, target) == a # b /\ Max(XorDistance(a, b)) \in XorDistance(b, target)

BucketIndex(id) == Max(XorDistance(Local, id))

VARIABLES
    nodes,       \* nodes of each bucket, the oldest first
    standby      \* replacement_cache of each bucket

tableVars == <<nodes, standby>>

Entry == [id : Ids \ {Local}, stale : BOOLEAN]

TypeOK ==
    /\ nodes \in [Bits -> Seq(Entry)] /\ standby \in [Bits -> Seq(Entry)]
    /\ \A b \in Bits : Len(nodes[b]) <= K /\ Len(standby[b]) <= K

Init == nodes = [b \in Bits |-> <<>>] /\ standby = [b \in Bits |-> <<>>]

IdsIn(s) == {s[i].id : i \in DOMAIN s}

\* The entries of s at some of its places, in their order.
PlaceOf(n, places) == CHOOSE i \in places : Cardinality({j \in places : j <= i}) = n
AtPlaces(s, places) == [n \in 1..Cardinality(places) |-> s[PlaceOf(n, places)]]

FreshFrom(s, first) == AtPlaces(s, {i \in first..Len(s) : ~s[i].stale})

-----------------------------------------------------------------------------
\* A bucket with its cache, and what the methods of KBucket make of it.
Bucket(active, cache) == [active |-> active, cache |-> cache]

Now(id) == [id |-> id, stale |-> FALSE]

\* The cache grows without a limit.
UpdatedUnbounded(k, e) ==
    LET i == SelectInSeq(k.active, LAMBDA x : x.id = e.id)
    IN  CASE i # 0 -> Bucket(Append(RemoveAt(k.active, i), Now(e.id)), k.cache)
          [] i = 0 /\ Len(k.active) < K -> Bucket(Append(k.active, e), k.cache)
          [] OTHER -> Bucket(k.active, Append(k.cache, e))

Updated(k, e) ==
    LET i == SelectInSeq(k.active, LAMBDA x : x.id = e.id)
    IN  CASE i # 0 -> Bucket(Append(RemoveAt(k.active, i), Now(e.id)), k.cache)
          [] i = 0 /\ Len(k.active) < K -> Bucket(Append(k.active, e), k.cache)
          [] OTHER -> Bucket(k.active,
                             Append(IF Len(k.cache) >= K THEN Tail(k.cache) ELSE k.cache, e))

\* A remove that leaves the cache alone.
RemovedOnly(k, id) ==
    LET i == SelectInSeq(k.active, LAMBDA x : x.id = id)
    IN  IF i = 0 THEN k ELSE Bucket(RemoveAt(k.active, i), k.cache)

Removed(k, id) ==
    LET i == SelectInSeq(k.active, LAMBDA x : x.id = id)
        rest == RemoveAt(k.active, i)
    IN  CASE i = 0 -> k
          [] i # 0 /\ k.cache = <<>> -> Bucket(rest, <<>>)
          [] OTHER -> Bucket(Append(rest, Last(k.cache)), Front(k.cache))

OldestReplaced(k) ==
    IF k.cache = <<>> THEN k
    ELSE Bucket(IF k.active = <<>> THEN <<>> ELSE [k.active EXCEPT ![1] = Last(k.cache)],
                Front(k.cache))

\* evict_stale: the cache is popped from its end until the bucket is full.
Evicted(k) ==
    LET kept == FreshFrom(k.active, 1)
        Popped(i) == FreshFrom(k.cache, i + 1)
        stop == Max({0} \cup {i \in 0..Len(k.cache) : Len(kept \o Popped(i)) >= K})
    IN  Bucket(kept \o Reverse(Popped(stop)), SubSeq(k.cache, 1, stop))

Table == [b \in Bits |-> Bucket(nodes[b], standby[b])]

Becomes(table) ==
    /\ nodes' = [b \in Bits |-> table[b].active]
    /\ standby' = [b \in Bits |-> table[b].cache]

NodeCount(table) == FoldFunction(LAMBDA k, n : n + Len(k.active), 0, table)

-----------------------------------------------------------------------------
CountNodesInSubnet(subnet) ==
    MapThenSumSet(LAMBDA b : Cardinality({i \in DOMAIN nodes[b] : Subnets[nodes[b][i].id] = subnet}), Bits)

\* evict_oldest(): the oldest node of a bucket goes, and the bucket is filled
\* up, first by remove and then once more by evict_oldest itself.  Which of
\* the buckets has the oldest is left open.
OldestEvicted(table, b) ==
    LET k == Removed(table[b], table[b].active[1].id)
    IN  [table EXCEPT ![b] = IF k.cache = <<>> THEN k ELSE Updated(k, Last(k.cache))]

\* max_nodes: the stale nodes go first, then one that is not stale.
RoomMade(table) ==
    LET clean == [b \in Bits |-> Evicted(table[b])]
    IN  IF MaxNodes = 0 \/ NodeCount(table) < MaxNodes THEN {table}
        ELSE IF NodeCount(clean) < MaxNodes THEN {clean}
        ELSE {OldestEvicted(clean, b) : b \in {c \in Bits : clean[c].active # <<>>}}

\* add_node(): refresh a known node, or admit a new one.
AddNode(id) ==
    LET b == BucketIndex(id)
    IN  IF id \in IdsIn(nodes[b])
        THEN Becomes([Table EXCEPT ![b] = Updated(@, Now(id))])
        ELSE /\ CountNodesInSubnet(Subnets[id]) < MaxPerSubnet
             /\ \E table \in RoomMade(Table) : Becomes([table EXCEPT ![b] = Updated(@, Now(id))])

\* remove() of a node that is not active finds nothing to do.
RemoveNode(id) ==
    /\ id \in IdsIn(nodes[BucketIndex(id)])
    /\ Becomes([Table EXCEPT ![BucketIndex(id)] = Removed(@, id)])

ReplaceOldest(b) == Becomes([Table EXCEPT ![b] = OldestReplaced(@)])

CleanupStale == Becomes([b \in Bits |-> Evicted(Table[b])])

\* handle_message(): only a known sender is refreshed.
HandleMessage(id) ==
    /\ id \in IdsIn(nodes[BucketIndex(id)])
    /\ Becomes([Table EXCEPT ![BucketIndex(id)] = Updated(@, Now(id))])

\* Fifteen minutes pass without a word of a node; the cache is older still.
GoesStale(b, i) ==
    \/ i \in DOMAIN nodes[b] /\ nodes' = [nodes EXCEPT ![b][i].stale = TRUE] /\ UNCHANGED standby
    \/ i \in DOMAIN standby[b] /\ standby' = [standby EXCEPT ![b][i].stale = TRUE] /\ UNCHANGED nodes

Next ==
    \/ \E id \in Met : AddNode(id) \/ RemoveNode(id) \/ HandleMessage(id)
    \/ \E b \in Bits : ReplaceOldest(b) \/ \E i \in 1..K : GoesStale(b, i)
    \/ CleanupStale

-----------------------------------------------------------------------------
Held(buckets) == MapThenSumSet(LAMBDA b : Len(nodes[b]), buckets)

\* find_closest(): the bucket of the target, then one more on each side as
\* long as there are too few candidates.
Candidates(target, count) ==
    LET center == IF target = Local THEN 0 ELSE BucketIndex(target)
        Around(r) == {b \in Bits : b <= center + r /\ b + r >= center}
        enough == {r \in 0..Max(Bits) :
                      Held(Around(r)) >= count \/ Around(r) = Bits}
    IN  UNION {IdsIn(nodes[b]) : b \in Around(Min(enough))}

Closest(ids, target, count) ==
    {n \in ids : Cardinality({m \in ids : Closer(m, n, target)}) < count}

FindClosest(target, count) == Closest(Candidates(target, count), target, count)

-----------------------------------------------------------------------------
\* A node waits in the cache only while its bucket is full, whatever was
\* added, removed, replaced or evicted before: a cached node would else be
\* known and never used.
CacheOnlyWhenFull == \A b \in Bits : standby[b] # <<>> => Len(nodes[b]) = K

\* A node is kept in the bucket of its distance: it can be found again, and a
\* Store from it is accepted.
KnownIsFound ==
    \A b \in Bits : \A id \in IdsIn(nodes[b]) :
        BucketIndex(id) = b /\ id \in FindClosest(id, K)
=============================================================================
