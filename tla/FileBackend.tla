---------------------------- MODULE FileBackend ----------------------------
(***************************************************************************)
(* What the engine writes and where: the choice of a storage back end, the *)
(* write loops of the engine over it, and the blocking threads that do the *)
(* work and go on when the future that awaits them is dropped.  The file   *)
(* is a function from units to the writer whose data they hold; Sector     *)
(* units make a sector.                                                    *)
(***************************************************************************)
EXTENDS Naturals, FiniteSets, SequencesExt

CONSTANTS
    Fragments,  \* the writers of a download in fragments
    Stream,     \* the writer of a download in one piece
    From,       \* where a writer begins
    Ends,       \* where its batches (fragment) or chunks (stream) end
    Size,       \* length of the file that is downloaded
    Sector,     \* SECTOR_SIZE
    RingBuffer, \* buffer_size of the io_uring back end
    Hole        \* no data

Writers == Fragments \cup {Stream}
Units == 0 .. Size - 1

VARIABLES
    mode,      \* "fragments" or "stream"; a stream of "known" or "unknown" size
    backend,   \* DynStorage: the back end behind it
    length,    \* length of the file; it may exist and be longer
    prepared,  \* prepare_storage has returned
    disk,      \* the writer whose data a unit of the file holds
    durable,   \* what of it a power failure leaves
    filePc,    \* where a writer stands
    place,     \* [pos, rest, batch]: offset, units left of the batch, its number
    job,       \* the blocking call that runs for a writer: [at, len] or None
    reply,     \* what it answered: [is, n], n units written or an error
    flush      \* the sync() of the engine: state and the writers done before it

fileVars == <<mode, backend, length, prepared, disk, durable, filePc, place, job, reply, flush>>
storage == <<backend, prepared>>

Active == IF mode = "fragments" THEN Fragments ELSE {Stream}
NoJob == [at |-> Size, len |-> 0]
NoReply == [is |-> "none", n |-> 0]
Closed == [sectors |-> FALSE, most |-> 0, cuts |-> FALSE]

\* The length of the i-th batch.
LengthOf(w, i) == Ends[w][i] - (IF i = 1 THEN From[w] ELSE Ends[w][i - 1])

Init ==
    /\ mode \in {"fragments", "known", "unknown"}
    /\ backend = Closed /\ prepared = FALSE
    /\ length \in {0, Size + 1}
    /\ disk = [u \in Units |-> Hole] /\ durable = disk
    /\ filePc = [w \in Writers |-> "idle"]
    /\ place = [w \in Writers |-> [pos |-> From[w], rest |-> LengthOf(w, 1), batch |-> 1]]
    /\ job = [w \in Writers |-> NoJob]
    /\ reply = [w \in Writers |-> NoReply]
    /\ flush = [state |-> "idle", done |-> {}]

\* The back ends write at a position on a blocking thread or in the kernel; they
\* differ in three things: whether they take whole sectors only, how much they
\* take at once, and whether allocate may cut the file (set_len) or only
\* extends it (fallocate).
TokioLinux == [sectors |-> FALSE, most |-> Size, cuts |-> FALSE]
TokioUnix == [sectors |-> FALSE, most |-> Size, cuts |-> TRUE]
TokioWindows == [sectors |-> FALSE, most |-> Size, cuts |-> TRUE]
WinFile == [sectors |-> TRUE, most |-> Size, cuts |-> TRUE]
IoCp == [sectors |-> FALSE, most |-> Size, cuts |-> TRUE]
\* Its file is opened with O_DIRECT: most file systems then refuse a write that
\* is not of whole sectors, some take it.
IoUring(direct) == [sectors |-> direct, most |-> RingBuffer, cuts |-> FALSE]

Standard(platform) ==
    CASE platform = "windows" -> TokioWindows
      [] platform = "linux" -> TokioLinux
      [] OTHER -> TokioUnix

\* open_with_strategy: the back end of the strategy, if this platform has it
\* and it initialises; the standard one otherwise.
Offered(strategy, platform) ==
    CASE strategy = "WinAligned" /\ platform = "windows" -> {WinFile}
      [] strategy = "Iocp" /\ platform = "windows" -> {IoCp, TokioWindows}
      [] strategy = "IoUring" /\ platform = "linux" -> {IoUring(TRUE), IoUring(FALSE), TokioLinux}
      [] OTHER -> {Standard(platform)}

OpenStorage ==
    /\ backend = Closed
    /\ \E s \in {"Standard", "WinAligned", "Iocp", "IoUring"}, p \in {"windows", "linux", "other"} :
        backend' \in Offered(s, p)
    /\ UNCHANGED <<mode, length, prepared, disk, durable, filePc, place, job, reply, flush>>

\* fallocate() never makes a file shorter, set_len() does.
Extended == Max({Size, length})

\* The length of the file after allocate(Size).
Allocated == IF backend.cuts THEN Size ELSE Extended

\* prepare_storage allocates the known size; a size that is not known is 0,
\* which allocates nothing.
PrepareStorage ==
    /\ backend # Closed /\ ~prepared
    /\ prepared' = TRUE
    /\ length' = IF mode = "unknown" THEN length ELSE Allocated
    /\ UNCHANGED <<mode, backend, disk, durable, filePc, place, job, reply, flush>>

\* WinFile checks that offset and length are whole sectors, for io_uring the
\* kernel does.
WholeSectors(at, len) == at % Sector = 0 /\ len % Sector = 0

\* The io_uring back end checks that the data fits into a fixed buffer.
Fits(len) == len <= backend.most

Accepts(at, len) == (backend.sectors => WholeSectors(at, len)) /\ Fits(len)

\* write_at hands the call to a blocking thread.
Issue(w) ==
    /\ prepared /\ w \in Active /\ filePc[w] = "idle"
    /\ LET at == place[w].pos  len == place[w].rest IN
        IF Accepts(at, len)
        THEN /\ job' = [job EXCEPT ![w] = [at |-> at, len |-> len]]
             /\ filePc' = [filePc EXCEPT ![w] = "waiting"]
        ELSE /\ filePc' = [filePc EXCEPT ![w] = "error"]
             /\ job' = job
    /\ UNCHANGED <<mode, storage, length, disk, durable, place, reply, flush>>

\* The thread writes the first n units, or fails.
Land(w, n) ==
    /\ job[w] # NoJob /\ n <= job[w].len
    /\ disk' = [u \in Units |-> IF job[w].at <= u /\ u < job[w].at + n THEN w ELSE disk[u]]
    /\ reply' = [reply EXCEPT ![w] = [is |-> "written", n |-> n]]
    /\ job' = [job EXCEPT ![w] = NoJob]
    /\ length' = IF n > 0 THEN Max({length, job[w].at + n}) ELSE length
    /\ UNCHANGED <<mode, storage, durable, filePc, place, flush>>

Fail(w) ==
    /\ job[w] # NoJob
    /\ reply' = [reply EXCEPT ![w] = [is |-> "error", n |-> 0]]
    /\ job' = [job EXCEPT ![w] = NoJob]
    /\ UNCHANGED <<mode, storage, length, disk, durable, filePc, place, flush>>

Answered(w) == filePc[w] = "waiting" /\ reply[w] # NoReply

\* The next batch of a writer, or its end.
NextBatch(w, pos) ==
    LET next == place[w].batch + 1 IN
    IF next <= Len(Ends[w])
    THEN /\ place' = [place EXCEPT ![w] = [pos |-> pos, rest |-> LengthOf(w, next), batch |-> next]]
         /\ filePc' = [filePc EXCEPT ![w] = "idle"]
    ELSE /\ place' = [place EXCEPT ![w] = [pos |-> pos, rest |-> 0, batch |-> @.batch]]
         /\ filePc' = [filePc EXCEPT ![w] = IF mode = "known" /\ pos # Size THEN "error" ELSE "ok"]

\* Mutant of WriteAll: a short write counts as the whole batch.
WriteAllOnce(w) ==
    /\ mode = "fragments" /\ Answered(w)
    /\ IF reply[w].n = 0
       THEN filePc' = [filePc EXCEPT ![w] = "error"] /\ place' = place
       ELSE NextBatch(w, place[w].pos + place[w].rest)
    /\ reply' = [reply EXCEPT ![w] = NoReply]
    /\ UNCHANGED <<mode, storage, length, disk, durable, job, flush>>

\* write_all_at: the rest of a short write is written again, one that does
\* not advance is an error.
WriteAll(w) ==
    /\ mode = "fragments" /\ Answered(w)
    /\ IF reply[w].n = 0
       THEN filePc' = [filePc EXCEPT ![w] = "error"] /\ place' = place
       ELSE IF reply[w].n = place[w].rest THEN NextBatch(w, place[w].pos + reply[w].n)
       ELSE /\ place' = [place EXCEPT ![w] = [pos |-> @.pos + reply[w].n, rest |-> @.rest - reply[w].n,
                                               batch |-> @.batch]]
            /\ filePc' = [filePc EXCEPT ![w] = "idle"]
    /\ reply' = [reply EXCEPT ![w] = NoReply]
    /\ UNCHANGED <<mode, storage, length, disk, durable, job, flush>>

\* execute_full_download writes a chunk once: what a short write leaves out is
\* lost, and found out at the end if the size is known.
WriteChunk(w) ==
    /\ mode # "fragments" /\ Answered(w)
    /\ IF reply[w].is = "error"
       THEN filePc' = [filePc EXCEPT ![w] = "error"] /\ place' = place
       ELSE NextBatch(w, place[w].pos + reply[w].n)
    /\ reply' = [reply EXCEPT ![w] = NoReply]
    /\ UNCHANGED <<mode, storage, length, disk, durable, job, flush>>

\* A control signal or an abort drops the future; the thread goes on.
Interrupt(w) ==
    /\ filePc[w] = "waiting"
    /\ filePc' = [filePc EXCEPT ![w] = "interrupted"]
    /\ UNCHANGED <<mode, storage, length, disk, durable, place, job, reply, flush>>

\* sync() after the last fragment has returned Ok, on a thread of its own.
SyncStarts ==
    /\ flush.state = "idle" /\ \A w \in Active : filePc[w] = "ok"
    /\ flush' = [state |-> "running", done |-> Active]
    /\ UNCHANGED <<mode, storage, length, disk, durable, filePc, place, job, reply>>

\* Mutant of SyncRuns: the thread is not awaited.
SyncUnawaited ==
    /\ flush.state = "running"
    /\ flush' = [flush EXCEPT !.state = "ok"]
    /\ UNCHANGED <<mode, storage, length, disk, durable, filePc, place, job, reply>>

SyncRuns ==
    /\ flush.state = "running"
    /\ durable' = disk
    /\ flush' = [flush EXCEPT !.state = "ok"]
    /\ UNCHANGED <<mode, storage, length, disk, filePc, place, job, reply>>

Thread(w) == Fail(w) \/ \E n \in 0..Size : Land(w, n)
Engine(w) == Issue(w) \/ WriteAll(w) \/ WriteChunk(w)

Next ==
    \/ OpenStorage \/ PrepareStorage \/ SyncStarts \/ SyncRuns
    \/ \E w \in Writers : Thread(w) \/ Engine(w) \/ Interrupt(w)

Spec == Init /\ [][Next]_fileVars

-----------------------------------------------------------------------------
(* Properties.                                                              *)

TypeOK ==
    /\ mode \in {"fragments", "known", "unknown"}
    /\ backend \in [sectors : BOOLEAN, most : 0..Size, cuts : BOOLEAN]
    /\ length \in 0 .. Size + 1 /\ prepared \in BOOLEAN
    /\ disk \in [Units -> Writers \cup {Hole}] /\ durable \in [Units -> Writers \cup {Hole}]
    /\ filePc \in [Writers -> {"idle", "waiting", "ok", "error", "interrupted"}]
    /\ place \in [Writers -> [pos : 0..Size, rest : 0..Size, batch : Nat]]
    /\ job \in [Writers -> [at : 0..Size, len : 0..Size]]
    /\ reply \in [Writers -> [is : {"none", "written", "error"}, n : 0..Size]]
    /\ flush \in [state : {"idle", "running", "ok"}, done : SUBSET Writers]

Region(w) == {u \in Units : From[w] <= u /\ u < Last(Ends[w])}

\* A writer that is told Ok has its data where it belongs, over short writes,
\* write by write or in one stream whose size is known, and with other
\* writers' threads landing at any time, those of dropped futures included.
WrittenIsThere ==
    \A w \in Active :
        filePc[w] = "ok" /\ mode # "unknown" => \A u \in Region(w) : disk[u] = w

\* When sync has returned, a power failure leaves every byte of the writers
\* that were done before.
SyncCovers ==
    flush.state = "ok" /\ mode # "unknown" =>
        \A w \in flush.done : \A u \in Region(w) : durable[u] = w

\* Some write loop has begun and not ended.
WriterLoops == \E w \in Writers : filePc[w] = "waiting"
=============================================================================
