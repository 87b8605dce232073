--------------------------- MODULE BucketRefresh ---------------------------
(***************************************************************************)
(* bucket_refresh_loop of DhtTransport, which start_bucket_refresh_loop    *)
(* spawns and `running' ends: once a minute it looks for buckets without   *)
(* activity, asks refresh_bucket for candidates under a random id of each, *)
(* and notes the activity.  Positions count from the low end of an id, so  *)
(* that position p is bit (Positions - 1 - p) of the code.                 *)
(***************************************************************************)
EXTENDS Naturals, FiniteSetsExt

CONSTANTS
    ByteBits,     \* bits of a byte
    IdBytes,      \* bytes of an id
    Watched,      \* buckets that may hold a node
    MaxLoops,     \* bound on the loops that are started
    MaxStale      \* bound on how often buckets fall silent

VARIABLES
    running,      \* the flag of the transport
    loops,        \* what each loop does: [at, todo]
    silent,       \* buckets with nodes and no activity for 15 minutes
    started, staled

refreshVars == <<running, loops, silent, started, staled>>

Positions == ByteBits * IdBytes
Loop(at, todo) == [at |-> at, todo |-> todo]

TypeOK ==
    /\ running \in BOOLEAN /\ silent \subseteq Watched
    /\ started \in 0..MaxLoops /\ staled \in 0..MaxStale
    /\ \A i \in DOMAIN loops :
        loops[i].at \in {"asleep", "woken", "visiting", "gone"} /\ loops[i].todo \subseteq Watched

Init ==
    /\ running = FALSE /\ loops = [i \in 1..MaxLoops |-> Loop("gone", {})]
    /\ silent = {} /\ started = 0 /\ staled = 0

-----------------------------------------------------------------------------
(* The loop.                                                                *)

\* The receive loop sets the flag; this one is spawned beside it.
StartLoop ==
    /\ started < MaxLoops /\ started' = started + 1
    /\ running' = TRUE
    /\ loops' = [loops EXCEPT ![started'] = Loop("asleep", {})]
    /\ UNCHANGED <<silent, staled>>

Shutdown ==
    /\ running /\ running' = FALSE
    /\ UNCHANGED <<loops, silent, started, staled>>

Becomes(i, at, todo) == loops' = [loops EXCEPT ![i] = Loop(at, todo)]

\* The sleep ends; the flag is looked at again after it.
Wake(i) ==
    /\ loops[i].at = "asleep"
    /\ Becomes(i, IF running THEN "woken" ELSE "gone", {})
    /\ UNCHANGED <<running, silent, started, staled>>

\* Under the read lock.
Collect(i) ==
    /\ loops[i].at = "woken"
    /\ Becomes(i, IF silent = {} THEN IF running THEN "asleep" ELSE "gone" ELSE "visiting", silent)
    /\ UNCHANGED <<running, silent, started, staled>>

\* Under the write lock, the lowest bucket first; one that another loop or a
\* message has touched since is touched once more.
Visit(i) ==
    /\ loops[i].at = "visiting" /\ running /\ loops[i].todo # {}
    /\ LET b == Min(loops[i].todo)
       IN  silent' = silent \ {b} /\ Becomes(i, "visiting", loops[i].todo \ {b})
    /\ UNCHANGED <<running, started, staled>>

Visited(i) ==
    /\ loops[i].at = "visiting" /\ (~running \/ loops[i].todo = {})
    /\ Becomes(i, IF running THEN "asleep" ELSE "gone", {})
    /\ UNCHANGED <<running, silent, started, staled>>

\* Fifteen minutes pass without an update of the bucket.
FallsSilent(b) ==
    /\ staled < MaxStale /\ staled' = staled + 1
    /\ b \notin silent /\ silent' = silent \cup {b}
    /\ UNCHANGED <<running, loops, started>>

LoopStep(i) == Wake(i) \/ Collect(i) \/ Visit(i) \/ Visited(i)

Next ==
    \/ StartLoop \/ Shutdown
    \/ (\E i \in 1..MaxLoops : LoopStep(i)) \/ (\E b \in Watched : FallsSilent(b))

-----------------------------------------------------------------------------
(* generate_random_id_in_bucket_range(): the distances it may choose.       *)

ByteOf(p) == (Positions - 1 - p) \div ByteBits
BitOf(p) == (Positions - 1 - p) % ByteBits

\* Every byte after that of the bucket, and in it the bits below the mask.
Filled(bucket) ==
    {p \in 0..(Positions - 1) :
        \/ ByteOf(p) > ByteOf(bucket)
        \/ ByteOf(p) = ByteOf(bucket) /\ BitOf(bucket) < ByteBits - 1 /\ p < bucket}

RandomDistances(bucket) == {{bucket} \cup random : random \in SUBSET Filled(bucket)}

-----------------------------------------------------------------------------
\* The random id of a bucket lies in this bucket, and any id of it may come:
\* a refresh asks for the part of the key space that has been silent.
RandomIdInBucket ==
    \A b \in 0..(Positions - 1) :
        RandomDistances(b) = {d \in SUBSET (0..(Positions - 1)) : d # {} /\ Max(d) = b}

\* A loop runs although the transport was shut down, or leaves a bucket silent.
RefreshRuns ==
    \E i \in 1..MaxLoops : loops[i].at # "gone" /\ (~running \/ silent # {})
=============================================================================
