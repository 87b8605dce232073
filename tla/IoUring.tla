------------------------------- MODULE IoUring -------------------------------
(***************************************************************************)
(* The io_uring back end of tachyon-io on Linux.  Every operation runs on  *)
(* a blocking thread of its own, under the mutex of the ring.  A read or   *)
(* write first asks the bitmap for a fixed buffer, and gets the index of   *)
(* the lowest bit that is SET: of a buffer that does not exist, at which   *)
(* the thread panics, or none.  A sync pushes its entry, submits, waits    *)
(* for a completion and takes the next one from the completion queue.  The *)
(* kernel works on what was submitted at its own pace.                     *)
(***************************************************************************)
EXTENDS Naturals, Sequences, FiniteSets

CONSTANTS
    Ops,            \* operations; each is a write_at, read_at or sync
    Syncs,          \* which of them sync; the others read or write
    BufferCounts,   \* the values of config.buffer_count
    Width,          \* bits of the bitmap: 64 in the code
    SqDepth,        \* config.sq_depth
    MaxInterrupts,  \* bound: calls of submit_and_wait that fail or come back early
    None

VARIABLES
    state,       \* IoUringState; "Aborted": a panic has ended the process
    buffers,     \* how many fixed buffers there are
    at,          \* where an operation stands
    ring,        \* the holder of the mutex of the ring
    poisoned,    \* a holder has panicked
    bitmap,      \* the bits that are 1: taken
    index,       \* the index a read or write was given
    sq,          \* entries pushed and not yet submitted
    kernel,      \* entries the kernel works on
    cq,          \* completions
    performed,   \* what the kernel has done with success
    result,      \* what an operation has returned
    interrupts   \* failed or interrupted calls so far

ringVars == <<state, buffers, at, ring, poisoned, bitmap, index, sq, kernel, cq, performed, result, interrupts>>
queues == <<sq, kernel, cq, performed>>

\* The bits above the buffers are set, unless there are as many buffers as bits.
UsedMask(n) == {b \in 0..Width - 1 : n <= b}

Init ==
    /\ state = "Created" /\ buffers = 0
    /\ at = [o \in Ops |-> "new"]
    /\ ring = None /\ poisoned = FALSE
    /\ bitmap = {} /\ index = [o \in Ops |-> None]
    /\ sq = <<>> /\ kernel = {} /\ cq = <<>> /\ performed = {}
    /\ result = [o \in Ops |-> None]
    /\ interrupts = 0

\* init() builds the ring, registers the buffers and opens the file, or
\* leaves the engine as it was.
Initialise ==
    /\ state = "Created"
    /\ state' = "Ready"
    /\ buffers' \in BufferCounts
    /\ bitmap' = UsedMask(buffers')
    /\ UNCHANGED <<at, ring, poisoned, index, queues, result, interrupts>>

\* An engine that is not ready refuses; otherwise a blocking thread starts.
Call(o) ==
    /\ at[o] = "new" /\ state # "Aborted"
    /\ IF state = "Ready"
       THEN at' = [at EXCEPT ![o] = "lock"] /\ result' = result
       ELSE at' = [at EXCEPT ![o] = "done"] /\ result' = [result EXCEPT ![o] = "refused"]
    /\ UNCHANGED <<state, buffers, ring, poisoned, bitmap, index, queues, interrupts>>

\* The closure of o has returned r and the guard is dropped.
Finish(o, r) ==
    /\ result' = [result EXCEPT ![o] = r]
    /\ at' = [at EXCEPT ![o] = "done"]
    /\ ring' = None

\* Mutant of Lock: nothing is locked.
LockWithoutMutex(o) ==
    /\ at[o] = "lock" /\ state = "Ready"
    /\ at' = [at EXCEPT ![o] = IF o \in Syncs THEN "push" ELSE "take"]
    /\ UNCHANGED <<state, buffers, ring, poisoned, bitmap, index, queues, result, interrupts>>

\* A poisoned mutex is an error for whoever locks it.
Lock(o) ==
    /\ at[o] = "lock" /\ ring = None /\ state = "Ready"
    /\ IF poisoned
       THEN Finish(o, "error")
       ELSE /\ at' = [at EXCEPT ![o] = IF o \in Syncs THEN "push" ELSE "take"]
            /\ ring' = o /\ result' = result
    /\ UNCHANGED <<state, buffers, poisoned, bitmap, index, queues, interrupts>>

\* Mutant of LowestSet: the lowest bit that is clear, of a buffer that is free.
LowestClear ==
    LET clear == (0..Width - 1) \ bitmap
    IN  IF clear = {} THEN Width ELSE CHOOSE b \in clear : \A c \in clear : b <= c

\* trailing_zeros() of the bitmap.
LowestSet == IF bitmap = {} THEN Width ELSE CHOOSE b \in bitmap : \A c \in bitmap : b <= c

\* alloc_buffer_index of a read or write: with no bit set it finds the
\* buffers exhausted, and otherwise sets the bit that is set.
TakeBuffer(o) ==
    /\ at[o] = "take" /\ state = "Ready"
    /\ IF LowestSet >= Width
       THEN Finish(o, "error") /\ UNCHANGED <<bitmap, index>>
       ELSE /\ index' = [index EXCEPT ![o] = LowestSet]
            /\ bitmap' = bitmap \cup {LowestSet}
            /\ at' = [at EXCEPT ![o] = "buffer"]
            /\ UNCHANGED <<ring, result>>
    /\ UNCHANGED <<state, buffers, poisoned, queues, interrupts>>

\* buffers[buf_idx]: an index past the end panics.  Where panics unwind, the
\* guard is dropped, which poisons the mutex, the caller has the JoinError and
\* the index is not freed; in a release build the process ends.
UseBuffer(o) ==
    /\ at[o] = "buffer" /\ state = "Ready"
    /\ IF index[o] < buffers
       THEN at' = [at EXCEPT ![o] = "push"] /\ UNCHANGED <<state, ring, poisoned, result>>
       ELSE \/ Finish(o, "error") /\ poisoned' = TRUE /\ state' = state
            \/ state' = "Aborted" /\ UNCHANGED <<at, ring, poisoned, result>>
    /\ UNCHANGED <<buffers, bitmap, index, queues, interrupts>>

\* The closure returns r; the index of a read or write is freed.
Return(o, r) == Finish(o, r) /\ bitmap' = bitmap \ {index[o]}

Push(o) ==
    /\ at[o] = "push" /\ state = "Ready"
    /\ IF Len(sq) < SqDepth
       THEN sq' = Append(sq, o) /\ at' = [at EXCEPT ![o] = "submit"] /\ UNCHANGED <<ring, bitmap, result>>
       ELSE Return(o, "error") /\ sq' = sq
    /\ UNCHANGED <<state, buffers, poisoned, index, kernel, cq, performed, interrupts>>

\* submit_and_wait hands all entries to the kernel ...
Submit(o) ==
    /\ at[o] = "submit" /\ state = "Ready"
    /\ kernel' = kernel \cup {sq[i] : i \in 1..Len(sq)}
    /\ sq' = <<>>
    /\ at' = [at EXCEPT ![o] = "wait"]
    /\ UNCHANGED <<state, buffers, ring, poisoned, bitmap, index, cq, performed, result, interrupts>>

\* ... or fails before that, and `?' returns; the entry stays in the queue.
SubmitFails(o) ==
    /\ at[o] = "submit" /\ state = "Ready" /\ interrupts < MaxInterrupts
    /\ interrupts' = interrupts + 1
    /\ Return(o, "error")
    /\ UNCHANGED <<state, buffers, poisoned, index, queues>>

\* The wait is interrupted after the submission and no completion is there.
WaitInterrupted(o) ==
    /\ at[o] = "wait" /\ cq = <<>> /\ state = "Ready" /\ interrupts < MaxInterrupts
    /\ interrupts' = interrupts + 1
    /\ Return(o, "error")
    /\ UNCHANGED <<state, buffers, poisoned, index, queues>>

\* The next completion is taken for that of this operation.
Reap(o) ==
    /\ at[o] = "wait" /\ cq # <<>> /\ state = "Ready"
    /\ cq' = Tail(cq)
    /\ Return(o, Head(cq).res)
    /\ UNCHANGED <<state, buffers, poisoned, index, sq, kernel, performed, interrupts>>

\* The kernel ends its work on an entry.
Complete(o, r) ==
    /\ o \in kernel /\ state = "Ready"
    /\ kernel' = kernel \ {o}
    /\ cq' = Append(cq, [op |-> o, res |-> r])
    /\ performed' = IF r = "ok" THEN performed \cup {o} ELSE performed
    /\ UNCHANGED <<state, buffers, at, ring, poisoned, bitmap, index, sq, result, interrupts>>

Step(o) == Lock(o) \/ TakeBuffer(o) \/ UseBuffer(o) \/ Push(o) \/ Submit(o) \/ Reap(o)
Interrupted(o) == SubmitFails(o) \/ WaitInterrupted(o)

Next ==
    \/ Initialise
    \/ \E o \in Ops :
        \/ Call(o) \/ Step(o) \/ Interrupted(o)
        \/ \E r \in {"ok", "error"} : Complete(o, r)

Spec == Init /\ [][Next]_ringVars

-----------------------------------------------------------------------------
(* Properties.                                                              *)

TypeOK ==
    /\ state \in {"Created", "Ready", "Aborted"}
    /\ buffers \in BufferCounts \cup {0}
    /\ at \in [Ops -> {"new", "lock", "take", "buffer", "push", "submit", "wait", "done"}]
    /\ ring \in Ops \cup {None} /\ poisoned \in BOOLEAN
    /\ bitmap \subseteq 0..Width - 1
    /\ index \in [Ops -> (0..Width - 1) \cup {None}]
    /\ sq \in Seq(Ops) /\ kernel \subseteq Ops /\ performed \subseteq Ops
    /\ cq \in Seq([op : Ops, res : {"ok", "error"}])
    /\ result \in [Ops -> {None, "ok", "error", "refused"}]
    /\ interrupts \in 0..MaxInterrupts

\* However operations of many threads follow each other, one that has
\* returned Ok was done: its caller was given its own completion, as long as no
\* call of submit_and_wait has failed or come back early.
OwnCompletion ==
    interrupts = 0 => \A o \in Ops : result[o] = "ok" => o \in performed

\* Whatever the number of the buffers, no fixed buffer is ever taken: the bit
\* that is found is never that of a buffer, no read or write gets an entry to
\* the kernel, and none returns Ok.
NoBufferTaken ==
    /\ bitmap = IF state = "Created" THEN {} ELSE UsedMask(buffers)
    /\ kernel \subseteq Syncs
    /\ \A o \in Ops \ Syncs : result[o] # "ok"

\* Some call that was accepted has not returned.
CallWaits == state = "Ready" /\ \E o \in Ops : at[o] \notin {"new", "done"}

-----------------------------------------------------------------------------
(* What the repository says and the code does not do.                       *)

\* alloc_buffer_index returns the index of a free buffer, "in the range
\* [0, buffers.len()-1]".
IndexInRange == \A o \in Ops : index[o] # None => index[o] < buffers
=============================================================================
