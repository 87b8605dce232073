--------------------------- MODULE PriorityQueue ---------------------------
(***************************************************************************)
(* What the task scheduler promises: a set of waiting tasks, each with a   *)
(* rank, from which the first in rank is taken.                            *)
(***************************************************************************)
EXTENDS Naturals

CONSTANTS
    Jobs,          \* task ids
    Before(_, _)   \* whether one job's entry goes before another's

VARIABLES
    waiting,       \* the entry of each job that waits
    taken          \* the entry taken last

queueVars == <<waiting, taken>>

Put(j, entry) ==
    /\ waiting' = [k \in DOMAIN waiting \cup {j} |-> IF k = j THEN entry ELSE waiting[k]]
    /\ UNCHANGED taken

Drop(j) ==
    /\ j \in DOMAIN waiting
    /\ waiting' = [k \in DOMAIN waiting \ {j} |-> waiting[k]]
    /\ UNCHANGED taken

Take(j) ==
    /\ j \in DOMAIN waiting
    /\ \A k \in DOMAIN waiting \ {j} : Before(waiting[j], waiting[k])
    /\ taken' = waiting[j]
    /\ waiting' = [k \in DOMAIN waiting \ {j} |-> waiting[k]]

\* Any put, with whatever entry comes.
PutAny == \E j \in Jobs : j \in DOMAIN waiting' /\ Put(j, waiting'[j])

Step == PutAny \/ \E j \in Jobs : Drop(j) \/ Take(j)
=============================================================================
