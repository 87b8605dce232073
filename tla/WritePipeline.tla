---------------------------- MODULE WritePipeline ----------------------------
(***************************************************************************)
(* The write pipeline of tachyon-io: writes share a fair semaphore, and a  *)
(* batch of segments is sorted, merged into fewer writes and given as many *)
(* permits as it has writes.                                               *)
(***************************************************************************)
EXTENDS Naturals, FiniteSets, SequencesExt, FiniteSetsExt

CONSTANTS
    Calls,         \* calls of write, write_and_sync and write_batch
    Inputs,        \* what a call may be given: sequences of [off, data]
    MaxPending,    \* max_pending * buffer_size, in units
    PipeCapacity,  \* permits of the semaphore
    Blank          \* a unit nothing was written to

VARIABLES
    input,     \* the segments of a call
    batches,   \* the writes it has still to make: sequence of [off, data]
    permits,   \* permits of the semaphore
    held,      \* permits a call holds
    queue,     \* calls that wait for permits, in order
    pipePc,    \* where a call stands
    area,      \* the file: what the units of a call's own region hold
    reported   \* units a call has counted

pipeVars == <<input, batches, permits, held, queue, pipePc, area, reported>>

-----------------------------------------------------------------------------
(* plan_batches.                                                            *)

\* The orders sort_unstable_by_key may leave: by offset, ties as they come.
Orders(segs) ==
    {p \in [DOMAIN segs -> DOMAIN segs] :
        /\ IsInjective(p)
        /\ \A i, j \in DOMAIN segs : i < j => segs[p[i]].off <= segs[p[j]].off}

Sorted(segs, order) == [i \in DOMAIN segs |-> segs[order[i]]]

EndOf(seg) == seg.off + Len(seg.data)

\* Mutant of Merge: a flush leaves the end of the merged part where it was.
MergeStale(plan, seg) ==
    IF seg.off = plan.end /\ seg.data # <<>>
    THEN LET data == plan.data \o seg.data IN
         IF Len(data) >= MaxPending
         THEN [out |-> Append(plan.out, [off |-> plan.start, data |-> data]),
               start |-> plan.start, end |-> EndOf(seg), data |-> <<>>]
         ELSE [plan EXCEPT !.end = EndOf(seg), !.data = data]
    ELSE [out |-> Append(plan.out, [off |-> plan.start, data |-> plan.data]),
          start |-> seg.off, end |-> EndOf(seg), data |-> seg.data]

\* One segment: appended if it follows the merged part directly, which is
\* given out once it reaches the threshold; otherwise the merged part, empty
\* or not, is given out and the segment begins the next.
Merge(plan, seg) ==
    IF seg.off = plan.end /\ seg.data # <<>>
    THEN LET data == plan.data \o seg.data IN
         IF Len(data) >= MaxPending
         THEN [out |-> Append(plan.out, [off |-> plan.start, data |-> data]),
               start |-> EndOf(seg), end |-> EndOf(seg), data |-> <<>>]
         ELSE [plan EXCEPT !.end = EndOf(seg), !.data = data]
    ELSE [out |-> Append(plan.out, [off |-> plan.start, data |-> plan.data]),
          start |-> seg.off, end |-> EndOf(seg), data |-> seg.data]

PlanBatches(segs) ==
    IF segs = <<>> THEN <<>>
    ELSE LET first == Head(segs)
             plan == FoldLeft(Merge, [out |-> <<>>, start |-> first.off, end |-> EndOf(first),
                                      data |-> first.data], Tail(segs))
         IN IF plan.data = <<>> THEN plan.out
            ELSE Append(plan.out, [off |-> plan.start, data |-> plan.data])

-----------------------------------------------------------------------------

Units == 0 .. Max({0} \cup {EndOf(seg) : seg \in UNION {ToSet(s) : s \in Inputs}})
Empty == [u \in Units |-> Blank]

\* The first n units of a segment are written over the area.
Write(a, seg, n) ==
    [u \in Units |-> IF seg.off <= u /\ u < seg.off + n THEN seg.data[u - seg.off + 1] ELSE a[u]]

Init ==
    /\ input \in [Calls -> Inputs]
    /\ batches = [c \in Calls |-> <<>>]
    /\ permits = PipeCapacity /\ queue = <<>>
    /\ pipePc = [c \in Calls |-> "idle"]
    /\ area = [c \in Calls |-> Empty]
    /\ reported = [c \in Calls |-> 0]
    /\ held = [c \in Calls |-> 0]

\* Mutant of Wanted: as many permits as there are writes.
WantedUnclamped(c) == Max({1, Len(batches[c])})

\* acquire_many is clamped to the capacity of the semaphore.
Wanted(c) == Max({1, Min({Len(batches[c]), PipeCapacity})})

\* write_batch plans and queues; without segments it is done.  write and
\* write_bytes are batches of one segment.
Begin(c) ==
    /\ pipePc[c] = "idle"
    /\ \E order \in Orders(input[c]) :
        batches' = [batches EXCEPT ![c] = PlanBatches(Sorted(input[c], order))]
    /\ IF input[c] = <<>>
       THEN pipePc' = [pipePc EXCEPT ![c] = "ok"] /\ queue' = queue
       ELSE pipePc' = [pipePc EXCEPT ![c] = "queued"] /\ queue' = Append(queue, c)
    /\ UNCHANGED <<input, permits, held, area, reported>>

\* The semaphore serves its queue in order.
Acquire(c) ==
    /\ queue # <<>> /\ Head(queue) = c /\ Wanted(c) <= permits
    /\ queue' = Tail(queue)
    /\ pipePc' = [pipePc EXCEPT ![c] = "writing"]
    /\ held' = [held EXCEPT ![c] = Wanted(c)]
    /\ permits' = permits - Wanted(c)
    /\ UNCHANGED <<input, batches, area, reported>>

\* One write_at: n units of the next batch are written and counted; what a
\* short write leaves out is not written again.
WriteNext(c, n) ==
    /\ pipePc[c] = "writing" /\ batches[c] # <<>>
    /\ n <= Len(Head(batches[c]).data)
    /\ area' = [area EXCEPT ![c] = Write(@, Head(batches[c]), n)]
    /\ reported' = [reported EXCEPT ![c] = @ + n]
    /\ batches' = [batches EXCEPT ![c] = Tail(@)]
    /\ UNCHANGED <<input, permits, held, queue, pipePc>>

\* All is written, a write has failed, or the future is dropped: the guard
\* gives its permits back.
Finish(c, result) ==
    /\ pipePc[c] = "writing"
    /\ result = "ok" => batches[c] = <<>>
    /\ result = "error" => batches[c] # <<>>
    /\ pipePc' = [pipePc EXCEPT ![c] = result]
    /\ permits' = permits + held[c]
    /\ held' = [held EXCEPT ![c] = 0]
    /\ UNCHANGED <<input, batches, queue, area, reported>>

\* Mutant of DropQueued: it stays in the queue.
DropQueuedKeeps(c) ==
    /\ pipePc[c] = "queued"
    /\ queue' = queue
    /\ pipePc' = [pipePc EXCEPT ![c] = "dropped"]
    /\ UNCHANGED <<input, batches, permits, held, area, reported>>

\* A future dropped in the queue leaves it.
DropQueued(c) ==
    /\ pipePc[c] = "queued"
    /\ \E i \in DOMAIN queue : queue[i] = c /\ queue' = RemoveAt(queue, i)
    /\ pipePc' = [pipePc EXCEPT ![c] = "dropped"]
    /\ UNCHANGED <<input, batches, permits, held, area, reported>>

Proceed(c) ==
    \/ Acquire(c) \/ Finish(c, "ok") \/ Finish(c, "error")
    \/ \E n \in Units : WriteNext(c, n)

Next == \E c \in Calls : Begin(c) \/ Proceed(c) \/ Finish(c, "dropped") \/ DropQueued(c)

Spec == Init /\ [][Next]_pipeVars

-----------------------------------------------------------------------------
(* Properties.                                                              *)

TypeOK ==
    /\ input \in [Calls -> Inputs]
    /\ \A c \in Calls : \A i \in DOMAIN batches[c] : batches[c][i].off \in Units
    /\ permits \in 0..PipeCapacity /\ held \in [Calls -> 0..PipeCapacity]
    /\ ToSet(queue) = {c \in Calls : pipePc[c] = "queued"}
    /\ pipePc \in [Calls -> {"idle", "queued", "writing", "ok", "error", "dropped"}]
    /\ reported \in [Calls -> Nat]

Total(segs) == FoldLeft(+, 0, [i \in DOMAIN segs |-> Len(segs[i].data)])
WriteWhole(a, seg) == Write(a, seg, Len(seg.data))

\* A batch that counts every byte as written leaves the file as its segments,
\* written one by one in the order of their offsets, would: sorting, merging
\* and the threshold neither lose, move nor repeat a byte.
BatchWritesSegments ==
    \A c \in Calls :
        pipePc[c] = "ok" /\ reported[c] = Total(input[c]) =>
            \E order \in Orders(input[c]) :
                area[c] = FoldLeft(WriteWhole, Empty, Sorted(input[c], order))

\* Some call waits for its permits.
CallQueues == \E c \in Calls : pipePc[c] = "queued"
=============================================================================
