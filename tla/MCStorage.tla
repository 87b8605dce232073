----------------------------- MODULE MCStorage -----------------------------
(***************************************************************************)
(* The storage components for TLC, side by side: in a behaviour one part   *)
(* takes its steps and the others stay in an initial state, so that the    *)
(* states of the run are the sum of those of its parts.                    *)
(***************************************************************************)
EXTENDS Naturals, Sequences, FiniteSets, TLC

CONSTANTS
    Ops, Syncs, BufferCounts, Width, SqDepth, MaxInterrupts, None,
    IoWrites, Addresses,
    Users, PoolCapacity,
    Calls, Inputs, MaxPending, PipeCapacity, Blank,
    Fragments, Stream, f1, f2, From, Ends, Size, Sector, RingBuffer, Hole,
    Clients, Keys, Parts, MaxCalls, MaxCrashes, Nobody

Segment(off, data) == [off |-> off, data |-> data]

\* Nothing; one segment; segments out of order that merge and reach the
\* threshold; an overlap and a gap; an empty one beside a full one.
BatchInputs ==
    {<<>>,
     <<Segment(0, <<"a">>)>>,
     <<Segment(2, <<"c">>), Segment(0, <<"a", "b">>), Segment(3, <<"d">>)>>,
     <<Segment(0, <<"a", "b">>), Segment(1, <<"x">>), Segment(4, <<"y">>)>>,
     <<Segment(1, <<>>), Segment(1, <<"a">>), Segment(0, <<"b">>)>>}

\* Where the writers begin, and where their batches end.
FirstOffsets == Stream :> 0 @@ f1 :> 0 @@ f2 :> 2
BatchEnds == Stream :> <<1, 4>> @@ f1 :> <<2>> @@ f2 :> <<4>>

VARIABLES
    part,
    state, buffers, at, ring, poisoned, bitmap, index, sq, kernel, cq, performed, result, interrupts,
    portState, writePc, address, registry, freeList, pending, cancelled, packets,
    answer, landed, leaked,
    free, outstanding, stored, bufPc, toFill,
    input, batches, permits, held, queue, pipePc, area, reported,
    mode, backend, length, prepared, disk, durable, filePc, place, job, reply, flush,
    final, temp, writeLock, progressLock, storePc, call, got, answerOf, acked, calls, crashes

ASSUME StorageAssumption ==
    /\ Syncs \subseteq Ops /\ Width \in Nat \ {0} /\ None \notin Ops \cup (0..Width - 1)
    /\ BufferCounts \subseteq Nat \ {0} /\ SqDepth \in Nat \ {0} /\ MaxInterrupts \in Nat
    /\ None \notin IoWrites \cup Addresses /\ None \notin {"ok", "error", "refused"} /\ IsFiniteSet(IoWrites)
    /\ IsFiniteSet(Addresses) /\ Addresses \subseteq Nat /\ Cardinality(Addresses) >= Cardinality(IoWrites)
    /\ IsFiniteSet(Users) /\ PoolCapacity \in Nat /\ PipeCapacity \in Nat \ {0} /\ MaxPending \in Nat \ {0}
    /\ IsFiniteSet(Calls) /\ IsFiniteSet(Inputs) /\ Inputs \subseteq Seq([off : Nat, data : Seq(STRING)])
    /\ Stream \notin Fragments /\ Hole \notin Fragments \cup {Stream}
    /\ \A w \in Fragments \cup {Stream} :
        /\ From[w] \in Nat /\ Ends[w] \in Seq(0..Size) /\ Ends[w] # <<>>
        /\ \A i \in DOMAIN Ends[w] :
            From[w] <= Ends[w][i] /\ \A j \in DOMAIN Ends[w] : i <= j => Ends[w][i] <= Ends[w][j]
    /\ \A v, w \in Fragments :
        v # w => Ends[v][Len(Ends[v])] <= From[w] \/ Ends[w][Len(Ends[w])] <= From[v]
    /\ Size \in Nat \ {0} /\ Sector \in Nat \ {0} /\ RingBuffer \in 1..Size
    /\ MaxCalls \in Nat /\ MaxCrashes \in Nat /\ Nobody \notin Clients

Ring == INSTANCE IoUring
Port == INSTANCE Iocp
Pool == INSTANCE BufferPool
Pipe == INSTANCE WritePipeline
File == INSTANCE FileBackend
Store == INSTANCE SnapshotStore

ringVars == <<state, buffers, at, ring, poisoned, bitmap, index, sq, kernel, cq, performed, result, interrupts>>
portVars == <<portState, writePc, address, registry, freeList, pending, cancelled, packets,
              answer, landed, leaked>>
poolVars == <<free, outstanding, stored, bufPc, toFill>>
pipeVars == <<input, batches, permits, held, queue, pipePc, area, reported>>
fileVars == <<mode, backend, length, prepared, disk, durable, filePc, place, job, reply, flush>>
storeVars == <<final, temp, writeLock, progressLock, storePc, call, got, answerOf, acked, calls, crashes>>
vars == <<part, ringVars, portVars, poolVars, pipeVars, fileVars, storeVars>>

Init ==
    /\ part \in {"ring", "port", "pool", "pipe", "file", "store"}
    /\ Ring!Init /\ Port!Init /\ Pool!Init /\ Pipe!Init /\ File!Init /\ Store!Init
    /\ part # "pool" => stored = 0
    /\ part # "pipe" => input = [c \in Calls |-> <<>>]
    /\ part # "file" => mode = "known" /\ length = 0

Rest(p) ==
    /\ p # "ring" => UNCHANGED ringVars
    /\ p # "port" => UNCHANGED portVars
    /\ p # "pool" => UNCHANGED poolVars
    /\ p # "pipe" => UNCHANGED pipeVars
    /\ p # "file" => UNCHANGED fileVars
    /\ p # "store" => UNCHANGED storeVars

Only(p, A) == part = p /\ A /\ Rest(p) /\ UNCHANGED part

Next ==
    \/ Only("ring", Ring!Next)
    \/ Only("port", Port!Next)
    \/ Only("pool", Pool!Next)
    \/ Only("pipe", Pipe!Next)
    \/ Only("file", File!Next)
    \/ Only("store", Store!Next)

Spec == Init /\ [][Next]_vars

\* As long as a thread, the kernel, the poller or a task can go on, one does:
\* less than fairness to each of them, and enough, since every call that is
\* made has finitely many steps.
Progress ==
    \/ Only("ring", \E o \in Ops : Ring!Step(o) \/ Ring!Complete(o, "ok") \/ Ring!Complete(o, "error"))
    \/ Only("port", Port!Kernel \/ Port!Poll \/ \E w \in IoWrites : Port!Receive(w))
    \/ Only("pipe", \E c \in Calls : Pipe!Proceed(c))
    \/ Only("file", \E w \in File!Writers : File!Thread(w) \/ File!Engine(w))

FairSpec == Spec /\ WF_vars(Progress)

-----------------------------------------------------------------------------
(* The properties of the parts.                                             *)

\* The type invariants of the components: each variable stays in its range.
TypeOK ==
    /\ Ring!TypeOK /\ Port!TypeOK /\ Pool!TypeOK
    /\ Pipe!TypeOK /\ File!TypeOK /\ Store!TypeOK

\* A call that returned Ok was answered by its own completion: a sync of the
\* io_uring back end, and a write of the completion port.
OwnCompletion == Ring!OwnCompletion /\ Port!OwnAnswer
\* Buffers are neither lost nor made: those that the atomics of the pool count;
\* and of the fixed ones of the io_uring back end none is ever given out.
BuffersBalance == Ring!NoBufferTaken /\ Pool!PermitsBalance
\* The memory the Windows kernel works on is held until it is done.
MemoryHeld == Port!MemoryHeld
\* A batch leaves the file as its segments would.
BatchWritesSegments == Pipe!BatchWritesSegments
\* A writer that was told Ok has its data in the file.
WrittenIsThere == File!WrittenIsThere
\* What was written before sync survives a power failure after it.
SyncCovers == File!SyncCovers
\* Nobody reads half a snapshot.
ReadsWhole == Store!ReadsWhole
\* Progress that was acknowledged is in the snapshot.
ProgressKept == Store!ProgressKept

\* Accepted calls return: of the io_uring back end with a ring that a panic has
\* poisoned too, unless the panic ends the process, of the completion port, of the write pipeline however many
\* permits a batch wants, and the write loops of the engine however short
\* the writes are.
Waits == Ring!CallWaits \/ Port!WriteWaits \/ Pipe!CallQueues \/ File!WriterLoops
CallsReturn == Waits ~> ~Waits

\* Of the io_uring back end: the index of a fixed buffer is that of a buffer.
IndexInRange == Ring!IndexInRange
=============================================================================
