-------------------------------- MODULE Iocp --------------------------------
(***************************************************************************)
(* The completion-port back end of tachyon-io on Windows.  A write takes   *)
(* an OVERLAPPED from a pool, leaves it and its data in a registry under   *)
(* the address of the OVERLAPPED, and waits; a poller thread matches the   *)
(* packets of the port with the registry.  A write whose future is dropped *)
(* asks the kernel to cancel it and leaves its memory in the registry.     *)
(***************************************************************************)
EXTENDS Naturals, Sequences, FiniteSets, SequencesExt

CONSTANTS
    IoWrites,   \* calls of write_at
    Addresses,  \* where an OVERLAPPED can lie, numbered in the order of first use
    None

VARIABLES
    portState,  \* IoCpState; "draining" and "drained" are stages of Drop
    writePc,    \* where a write stands
    address,    \* the address of its OVERLAPPED
    registry,   \* CompletionRegistry: the write registered under an address
    freeList,   \* OverlappedPool
    pending,    \* the write the kernel works on at an address
    cancelled,  \* writes the kernel was asked to cancel
    packets,    \* packets of the completion port
    answer,     \* what was sent to a write through its oneshot channel
    landed,     \* writes whose data is in the file
    leaked      \* the registry was leaked by Drop

portVars == <<portState, writePc, address, registry, freeList, pending, cancelled,
              packets, answer, landed, leaked>>

Init ==
    /\ portState = "Created"
    /\ writePc = [w \in IoWrites |-> "idle"]
    /\ address = [w \in IoWrites |-> None]
    /\ registry = [a \in Addresses |-> None]
    /\ freeList = <<>>
    /\ pending = [a \in Addresses |-> None]
    /\ cancelled = {} /\ packets = <<>> /\ landed = {} /\ leaked = FALSE
    /\ answer = [w \in IoWrites |-> None]

Go(w, pc) == writePc' = [writePc EXCEPT ![w] = pc]
Registered == {a \in Addresses : registry[a] # None}

\* init() opens the file, ties it to a port and starts the poller.
Open ==
    /\ portState = "Created"
    /\ portState' = "Ready"
    /\ UNCHANGED <<writePc, address, registry, freeList, pending, cancelled, packets, answer, landed, leaked>>

\* write_at outside of Ready is an error.
Refuse(w) ==
    /\ writePc[w] = "idle" /\ portState # "Ready"
    /\ Go(w, "error")
    /\ UNCHANGED <<portState, address, registry, freeList, pending, cancelled, packets, answer, landed, leaked>>

\* acquire: the oldest one of the pool, or a new one.
Acquired ==
    IF freeList = <<>> THEN Min(Addresses \ Registered) ELSE Head(freeList)

Register(w) ==
    /\ writePc[w] = "idle" /\ portState = "Ready"
    /\ address' = [address EXCEPT ![w] = Acquired]
    /\ registry' = [registry EXCEPT ![Acquired] = w]
    /\ freeList' = IF freeList = <<>> THEN freeList ELSE Tail(freeList)
    /\ Go(w, "registered")
    /\ UNCHANGED <<portState, pending, cancelled, packets, answer, landed, leaked>>

\* The entry leaves the registry and its OVERLAPPED returns to the pool.
Release(a) ==
    /\ registry' = [registry EXCEPT ![a] = None]
    /\ freeList' = Append(freeList, a)

\* WriteFile succeeds at once: no packet.
WriteSync(w) ==
    /\ writePc[w] = "registered"
    /\ landed' = landed \cup {w}
    /\ Release(address[w])
    /\ Go(w, "ok")
    /\ UNCHANGED <<portState, address, pending, cancelled, packets, answer, leaked>>

WriteRefused(w) ==
    /\ writePc[w] = "registered"
    /\ Release(address[w])
    /\ Go(w, "error")
    /\ UNCHANGED <<portState, address, pending, cancelled, packets, answer, landed, leaked>>

\* ERROR_IO_PENDING: the cancel guard is armed and the write awaits its answer.
WritePending(w) ==
    /\ writePc[w] = "registered"
    /\ pending' = [pending EXCEPT ![address[w]] = w]
    /\ Go(w, "awaiting")
    /\ UNCHANGED <<portState, address, registry, freeList, cancelled, packets, answer, landed, leaked>>

\* The kernel ends a write; only one it was asked to cancel is aborted.
KernelFinishes(a, res) ==
    /\ pending[a] # None
    /\ res = "aborted" => pending[a] \in cancelled
    /\ pending' = [pending EXCEPT ![a] = None]
    /\ landed' = IF res = "ok" THEN landed \cup {pending[a]} ELSE landed
    /\ packets' = Append(packets, [at |-> a, res |-> res])
    /\ UNCHANGED <<portState, writePc, address, registry, freeList, cancelled, answer, leaked>>

Polling == portState \in {"Ready", "draining", "drained"} /\ packets # <<>>

\* complete_pending_write: the write registered under the address of the
\* packet is answered; an address that is not registered is skipped.
Poll ==
    /\ Polling
    /\ packets' = Tail(packets)
    /\ LET p == Head(packets) IN
        IF registry[p.at] = None
        THEN UNCHANGED <<answer, registry, freeList>>
        ELSE /\ answer' = [answer EXCEPT ![registry[p.at]] = IF p.res = "ok" THEN "ok" ELSE "error"]
             /\ Release(p.at)
    /\ UNCHANGED <<portState, writePc, address, pending, cancelled, landed, leaked>>

\* rx.await returns; the guard is disarmed.
Receive(w) ==
    /\ writePc[w] = "awaiting" /\ answer[w] # None
    /\ Go(w, answer[w])
    /\ UNCHANGED <<portState, address, registry, freeList, pending, cancelled, packets, answer, landed, leaked>>

\* Mutant of Abort: the guard takes the entry out of the registry.
AbortFrees(w) ==
    /\ writePc[w] = "awaiting" /\ registry[address[w]] # None
    /\ Release(address[w])
    /\ cancelled' = cancelled \cup ({pending[address[w]]} \ {None})
    /\ Go(w, "dropped")
    /\ UNCHANGED <<portState, address, pending, packets, answer, landed, leaked>>

\* The future is dropped at rx.await: if the address is in the registry,
\* whatever is pending there is cancelled.
Abort(w) ==
    /\ writePc[w] = "awaiting"
    /\ cancelled' = IF registry[address[w]] = None THEN cancelled
                    ELSE cancelled \cup ({pending[address[w]]} \ {None})
    /\ Go(w, "dropped")
    /\ UNCHANGED <<portState, address, registry, freeList, pending, packets, answer, landed, leaked>>

\* Drop of the storage, which no write borrows any more: everything pending
\* is cancelled ...
DropStarts ==
    /\ portState = "Ready"
    /\ \A w \in IoWrites : writePc[w] \notin {"registered", "awaiting"}
    /\ cancelled' = cancelled \cup ({pending[a] : a \in Registered} \ {None})
    /\ portState' = IF Registered = {} THEN "drained" ELSE "draining"
    /\ UNCHANGED <<writePc, address, registry, freeList, pending, packets, answer, landed, leaked>>

\* ... and its packets are awaited, for five seconds: after that the registry
\* is leaked.
Drained ==
    /\ portState = "draining"
    /\ portState' = "drained"
    /\ leaked' = (Registered # {})
    /\ UNCHANGED <<writePc, address, registry, freeList, pending, cancelled, packets, answer, landed>>

\* The poller ends, the port and the file are closed, and a registry that was
\* not leaked is freed with all it holds.
Close ==
    /\ portState = "drained"
    /\ portState' = "Closed"
    /\ registry' = IF leaked THEN registry ELSE [a \in Addresses |-> None]
    /\ freeList' = <<>> /\ packets' = <<>>
    /\ UNCHANGED <<writePc, address, pending, cancelled, answer, landed, leaked>>

Kernel == \E a \in Addresses, res \in {"ok", "error", "aborted"} : KernelFinishes(a, res)
Submission(w) == WriteSync(w) \/ WriteRefused(w) \/ WritePending(w)
Storage == Open \/ DropStarts \/ Drained \/ Close

Next ==
    \/ Storage \/ Kernel \/ Poll
    \/ \E w \in IoWrites : Refuse(w) \/ Register(w) \/ Submission(w) \/ Receive(w) \/ Abort(w)

Spec == Init /\ [][Next]_portVars

-----------------------------------------------------------------------------
(* Properties.                                                              *)

TypeOK ==
    /\ portState \in {"Created", "Ready", "draining", "drained", "Closed"}
    /\ writePc \in [IoWrites -> {"idle", "registered", "awaiting", "ok", "error", "dropped"}]
    /\ address \in [IoWrites -> Addresses \cup {None}]
    /\ registry \in [Addresses -> IoWrites \cup {None}]
    /\ freeList \in Seq(Addresses)
    /\ pending \in [Addresses -> IoWrites \cup {None}]
    /\ cancelled \subseteq IoWrites /\ landed \subseteq IoWrites
    /\ packets \in Seq([at : Addresses, res : {"ok", "error", "aborted"}])
    /\ answer \in [IoWrites -> {None, "ok", "error"}]
    /\ leaked \in BOOLEAN

\* The OVERLAPPED and the data the kernel works on are in the registry, under
\* the write they belong to and not in the pool, whatever was aborted, and
\* still after the storage was dropped.
MemoryHeld ==
    \A a \in Addresses :
        pending[a] # None => registry[a] = pending[a] /\ a \notin ToSet(freeList)

\* A write is told of its own I/O: Ok exactly when its data is in the file,
\* though the OVERLAPPEDs, and with them the keys of the registry, are reused.
OwnAnswer ==
    \A w \in IoWrites :
        /\ writePc[w] = "ok" => w \in landed
        /\ writePc[w] = "error" => w \notin landed

\* Some write waits for the packet that answers it.
WriteWaits == \E w \in IoWrites : writePc[w] = "awaiting"

=============================================================================
