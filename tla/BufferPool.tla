----------------------------- MODULE BufferPool -----------------------------
(***************************************************************************)
(* The buffer pool of tachyon-io: a semaphore bounds the buffers in use, a *)
(* counter mirrors them, and a lock-free queue keeps those that were given *)
(* back.  The three are three atomics, and every step touches one of them. *)
(***************************************************************************)
EXTENDS Naturals, FiniteSets

CONSTANTS Users, PoolCapacity

VARIABLES
    free,         \* permits of the semaphore
    outstanding,  \* buffers counted as handed out
    stored,       \* length of the queue
    bufPc,        \* where a user of the pool stands
    toFill        \* prewarm: its stage, and what it has read or has still to add

poolVars == <<free, outstanding, stored, bufPc, toFill>>

\* The queue of a pool of capacity 0 has one place.
Places == IF PoolCapacity = 0 THEN 1 ELSE PoolCapacity

\* new() leaves the queue empty, with_prefill() fills it.
Init ==
    /\ free = PoolCapacity /\ outstanding = 0
    /\ stored \in {0, PoolCapacity}
    /\ bufPc = [u \in Users |-> "idle"]
    /\ toFill = [stage |-> "idle", n |-> 0]

Step(u, from, to) == bufPc[u] = from /\ bufPc' = [bufPc EXCEPT ![u] = to]

\* alloc(): a permit is acquired and forgotten, the buffer counted, and one
\* taken from the queue or made.
Alloc(u) ==
    \/ /\ Step(u, "idle", "granted")
       /\ free > 0 /\ free' = free - 1
       /\ UNCHANGED <<outstanding, stored, toFill>>
    \/ /\ Step(u, "granted", "counted")
       /\ outstanding' = outstanding + 1
       /\ UNCHANGED <<free, stored, toFill>>
    \/ /\ Step(u, "counted", "holding")
       /\ stored' = IF stored > 0 THEN stored - 1 ELSE stored
       /\ UNCHANGED <<free, outstanding, toFill>>

\* release(), which drop of a BufferGuard calls: uncounted, back into the
\* queue unless that is full, and the permit given back in either case.
Release(u) ==
    \/ /\ Step(u, "holding", "uncounted")
       /\ outstanding' = outstanding - 1
       /\ UNCHANGED <<free, stored, toFill>>
    \/ /\ Step(u, "uncounted", "stored")
       /\ stored' = IF stored < Places THEN stored + 1 ELSE stored
       /\ UNCHANGED <<free, outstanding, toFill>>
    \/ /\ Step(u, "stored", "idle")
       /\ free' = free + 1
       /\ UNCHANGED <<outstanding, stored, toFill>>

Missing(taken, there) == IF taken + there < PoolCapacity THEN PoolCapacity - taken - there ELSE 0

\* prewarm() loads the counter, then the length, and fills one by one until
\* its count is done or the queue is full.
Prewarm ==
    /\ \/ /\ toFill.stage = "idle"
          /\ toFill' = [stage |-> "read", n |-> outstanding]
          /\ stored' = stored
       \/ /\ toFill.stage = "read"
          /\ toFill' = [stage |-> "fill", n |-> Missing(toFill.n, stored)]
          /\ stored' = stored
       \/ /\ toFill.stage = "fill" /\ toFill.n > 0 /\ stored < Places
          /\ toFill' = [toFill EXCEPT !.n = @ - 1]
          /\ stored' = stored + 1
       \/ /\ toFill.stage = "fill" /\ (toFill.n = 0 \/ stored = Places)
          /\ toFill' = [stage |-> "done", n |-> 0]
          /\ stored' = stored
    /\ UNCHANGED <<free, outstanding, bufPc>>

Next == Prewarm \/ \E u \in Users : Alloc(u) \/ Release(u)

Spec == Init /\ [][Next]_poolVars

-----------------------------------------------------------------------------
(* Properties.                                                              *)

At(pcs) == Cardinality({u \in Users : bufPc[u] \in pcs})

TypeOK ==
    /\ free \in 0..PoolCapacity /\ outstanding \in 0..PoolCapacity /\ stored \in 0..Places
    /\ bufPc \in [Users -> {"idle", "granted", "counted", "holding", "uncounted", "stored"}]
    /\ toFill \in [stage : {"idle", "read", "fill", "done"}, n : 0..PoolCapacity]

\* "permits + outstanding = capacity" of the comments, up to the operations
\* between two of its atomics: no interleaving of alloc, release and prewarm
\* loses a permit or lends one twice, so the pool never blocks for good and
\* never has more than its capacity in use.
PermitsBalance ==
    free + outstanding + At({"granted", "uncounted", "stored"}) = PoolCapacity
=============================================================================
