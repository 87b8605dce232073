----------------------------- MODULE TaskQueue -----------------------------
(***************************************************************************)
(* The Scheduler of tachyon-scheduler: a heap of versioned entries and an  *)
(* index of the newest entry of each task.  What was removed or updated    *)
(* stays in the heap and is skipped by pop.                                *)
(***************************************************************************)
EXTENDS Naturals, FiniteSets, FiniteSetsExt

CONSTANTS
    Jobs,           \* task ids, numbers: cmp orders them
    Priorities,     \* numbers in the order of the enum
    Lengths,        \* file sizes
    Progresses,     \* 0.0 to 1.0 in steps
    MaxVersion      \* bound on next_version

VARIABLES
    heap,           \* queue: the multiset of entries is a set, as versions differ
    index,          \* index
    nextVersion,    \* next_version
    popped          \* the entry of the last pop

queueVars == <<heap, index, nextVersion, popped>>

Entry(j, priority, length, progress, version) ==
    [id |-> j, priority |-> priority, length |-> length, progress |-> progress, version |-> version]

Nothing == Entry(0, 0, 0, 0, 0)

TypeOK ==
    /\ nextVersion \in 1..MaxVersion
    /\ \A e \in heap : e.version \in 1..(nextVersion - 1) /\ e.priority \in Priorities
    /\ \A j \in DOMAIN index : j \in Jobs /\ index[j].id = j /\ index[j] \in heap

Init == heap = {} /\ index = [j \in {} |-> Nothing] /\ nextVersion = 1 /\ popped = Nothing

-----------------------------------------------------------------------------
\* Ord of ScheduledTask: priority, then progress, then the smaller file, then the id.
Greater(a, b) ==
    \/ a.priority > b.priority
    \/ a.priority = b.priority /\ a.progress > b.progress
    \/ a.priority = b.priority /\ a.progress = b.progress /\ a.length < b.length
    \/ a.priority = b.priority /\ a.progress = b.progress /\ a.length = b.length /\ a.id > b.id

With(j, entry) == [k \in DOMAIN index \cup {j} |-> IF k = j THEN entry ELSE index[k]]
Without(j) == [k \in DOMAIN index \ {j} |-> index[k]]

Insert(j, entry) ==
    /\ nextVersion < MaxVersion
    /\ heap' = heap \cup {entry}
    /\ index' = With(j, entry)
    /\ nextVersion' = nextVersion + 1
    /\ UNCHANGED popped

Push(j, priority, length, progress) == Insert(j, Entry(j, priority, length, progress, nextVersion))

\* push() of an entry that was popped keeps its version.
PushAgain ==
    /\ popped # Nothing /\ popped \notin heap
    /\ heap' = heap \cup {popped}
    /\ index' = With(popped.id, popped)
    /\ UNCHANGED <<nextVersion, popped>>

UpdatePriority(j, priority) ==
    /\ j \in DOMAIN index
    /\ Insert(j, [index[j] EXCEPT !.priority = priority, !.version = nextVersion])

UpdateProgress(j, progress) ==
    /\ j \in DOMAIN index
    /\ Insert(j, [index[j] EXCEPT !.progress = progress, !.version = nextVersion])

\* remove() and cancel() leave the entry in the heap.
Remove(j) ==
    /\ j \in DOMAIN index
    /\ index' = Without(j)
    /\ UNCHANGED <<heap, nextVersion, popped>>

\* Mutant of Current: an entry counts while its task has any.
CurrentByTask(e) == e.id \in DOMAIN index

Current(e) == e.id \in DOMAIN index /\ index[e.id].version = e.version

\* pop() takes entries off the heap until one is current; entries that compare
\* equal, of one task, come in any order.
Pop ==
    \/ \E e \in heap :
        /\ Current(e)
        /\ \A d \in heap : Current(d) => ~Greater(d, e)
        /\ \E stale \in SUBSET {d \in heap : ~Current(d) /\ ~Greater(d, e) /\ ~Greater(e, d)} :
            heap' = {d \in heap \ {e} : ~Greater(d, e)} \ stale
        /\ index' = Without(e.id)
        /\ popped' = e
        /\ UNCHANGED nextVersion
    \/ /\ heap # {} /\ \A e \in heap : ~Current(e)
       /\ heap' = {}
       /\ UNCHANGED <<index, nextVersion, popped>>

Next ==
    \/ \E j \in Jobs :
        \/ \E p \in Priorities, l \in Lengths, g \in Progresses : Push(j, p, l, g)
        \/ \E p \in Priorities : UpdatePriority(j, p)
        \/ \E g \in Progresses : UpdateProgress(j, g)
        \/ Remove(j)
    \/ PushAgain \/ Pop

-----------------------------------------------------------------------------
\* The heap and the index are the abstract queue, whatever is stale in the heap.
Ranked == INSTANCE PriorityQueue WITH
    Before <- LAMBDA a, b : ~Greater(b, a),
    waiting <- index, taken <- popped

QueueStep == Ranked!Step \/ UNCHANGED <<index, popped>>
=============================================================================
