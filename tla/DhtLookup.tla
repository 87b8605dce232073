----------------------------- MODULE DhtLookup -----------------------------
(***************************************************************************)
(* iterative_find_node, and distributed_find_value and distributed_store   *)
(* on top of it.  An id is the set of its one bits.  What a node tells of  *)
(* others is a set of them; a node that is gone, or answers with something *)
(* else, tells of nobody.                                                  *)
(***************************************************************************)
EXTENDS Naturals, FiniteSetsExt

CONSTANTS
    IdBits,      \* bit positions of an id
    Target,      \* the id that is looked for, key_to_node_id(key)
    Start,       \* what find_closest of the own table begins with
    Tells,       \* the ids a node may tell of
    Alpha,       \* ALPHA
    Width        \* K_BUCKET_SIZE

VARIABLES
    lookupPc,    \* where the operation stands
    goal,        \* "find", "value" or "store"
    found,       \* known
    queried,     \* queried_ids
    inFlight,    \* the tasks of the round that are not joined yet
    news,        \* new_found
    closest,     \* the result of the lookup
    told,        \* nodes of it that were sent the FindValue or the Store
    value        \* what the operation returns: the value of a node, or none

lookupVars == <<lookupPc, goal, found, queried, inFlight, news, closest, told, value>>

Nodes == SUBSET IdBits

XorDistance(a, b) == (a \ b) \cup (b \ a)
Closer(a, b) == a # b /\ Max(XorDistance(a, b)) \in XorDistance(b, Target)
Nearest(ids, n) == {x \in ids : Cardinality({y \in ids : Closer(y, x)}) < n}

TypeOK ==
    /\ lookupPc \in {"idle", "round", "joining", "found", "local", "done"}
    /\ goal \in {"find", "value", "store"}
    /\ inFlight \subseteq queried /\ queried \subseteq found /\ found \subseteq Nodes
    /\ news \in BOOLEAN /\ closest \subseteq found /\ told \subseteq closest
    /\ value \in BOOLEAN

Init ==
    /\ lookupPc = "idle" /\ goal \in {"find", "value", "store"}
    /\ found = {} /\ queried = {} /\ inFlight = {} /\ news = FALSE
    /\ closest = {} /\ told = {} /\ value = FALSE

-----------------------------------------------------------------------------
Begin ==
    /\ lookupPc = "idle"
    /\ \E first \in SUBSET Start :
        /\ found' = Nearest(first, Width)
        /\ lookupPc' = IF first = {} THEN "found" ELSE "round"
    /\ UNCHANGED <<goal, queried, inFlight, news, closest, told, value>>

\* The nodes are asked in the order they were found.
SomeTargets == IF found \ queried = {} THEN {} ELSE {CHOOSE n \in found \ queried : TRUE}

\* The Alpha nearest of those not asked yet are asked at the same time.
Targets == Nearest(found \ queried, Alpha)

Round ==
    /\ lookupPc = "round" /\ Targets # {}
    /\ queried' = queried \cup Targets
    /\ inFlight' = Targets /\ news' = FALSE
    /\ lookupPc' = "joining"
    /\ UNCHANGED <<goal, found, closest, told, value>>

\* A task is joined; what it tells is added if it is new.
Join(n) ==
    /\ lookupPc = "joining" /\ n \in inFlight
    /\ inFlight' = inFlight \ {n}
    /\ \E nodes \in SUBSET Tells[n] :
        /\ found' = found \cup nodes
        /\ news' = (news \/ nodes \ found # {})
    /\ UNCHANGED <<lookupPc, goal, queried, closest, told, value>>

\* A round without anything new, or with nobody left to ask, is the last.
LastRound == (lookupPc = "joining" /\ inFlight = {} /\ ~news) \/ (lookupPc = "round" /\ Targets = {})

NextRound ==
    /\ lookupPc = "joining" /\ inFlight = {} /\ news
    /\ lookupPc' = "round"
    /\ UNCHANGED <<goal, found, queried, inFlight, news, closest, told, value>>

\* The Width nearest are the result.
Converged ==
    /\ LastRound
    /\ closest' = Nearest(found, Width)
    /\ lookupPc' = "found"
    /\ UNCHANGED <<goal, found, queried, inFlight, news, told, value>>

FindNodeReturns ==
    /\ lookupPc = "found" /\ goal = "find"
    /\ lookupPc' = "done"
    /\ UNCHANGED <<goal, found, queried, inFlight, news, closest, told, value>>

\* distributed_find_value(): one node after the other, the nearest first,
\* until one has the value.
AskForValue ==
    /\ lookupPc = "found" /\ goal = "value" /\ ~value
    /\ told' = told \cup Nearest(closest \ told, 1)
    /\ told' # told
    /\ value' \in BOOLEAN
    /\ UNCHANGED <<lookupPc, goal, found, queried, inFlight, news, closest>>

FindValueReturns ==
    /\ lookupPc = "found" /\ goal = "value" /\ (value \/ told = closest)
    /\ lookupPc' = "done"
    /\ UNCHANGED <<goal, found, queried, inFlight, news, closest, told, value>>

\* distributed_store(): a task for each node, and the own store.
StoreLocally ==
    /\ lookupPc = "found" /\ goal = "store"
    /\ value' = TRUE /\ lookupPc' = "local"
    /\ UNCHANGED <<goal, found, queried, inFlight, news, closest, told>>

\* The tasks are joined; a send may fail.
StoreReturns ==
    /\ lookupPc = "local"
    /\ told' \in SUBSET closest
    /\ lookupPc' = "done"
    /\ UNCHANGED <<goal, found, queried, inFlight, news, closest, value>>

LookupStep ==
    \/ Round \/ (\E n \in Nodes : Join(n)) \/ NextRound \/ Converged
    \/ FindNodeReturns \/ AskForValue \/ FindValueReturns \/ StoreLocally \/ StoreReturns

Next == Begin \/ LookupStep

LookupRuns == lookupPc \notin {"idle", "done"}

-----------------------------------------------------------------------------
\* A lookup stops only when the Alpha nearest nodes it knows of have been
\* asked, and a value is given up only when each node of the result was.
LookupConverged ==
    /\ lookupPc \in {"found", "local", "done"} => Nearest(found, Alpha) \subseteq queried
    /\ lookupPc = "done" /\ goal = "value" /\ ~value => told = closest
=============================================================================
