----------------------------- MODULE DownloadTask -----------------------------
(***************************************************************************)
(* DownloadTask::run of tachyon-engine for a file of known size: the       *)
(* phases of run_inner, one tokio task per fragment with its retry loop,   *)
(* semaphore, circuit breaker and control signal, and the loop that joins  *)
(* them.  The signal is set by whoever holds the watch sender; the         *)
(* network, the storage and the shared connection pool answer as they like.*)
(***************************************************************************)
EXTENDS Naturals, FiniteSets

CONSTANTS
    Frags,       \* the planned fragments
    Chunks,      \* chunks of the stream of a fragment
    MaxRetries,  \* config.max_retries
    MaxPermits,  \* limit of effective_concurrency
    Threshold    \* failure_threshold: consecutive failures that open the breaker

ASSUME DownloadAssumption ==
    /\ IsFiniteSet(Frags) /\ Frags # {}
    /\ Chunks \in Nat
    /\ MaxRetries \in Nat
    /\ MaxPermits \in Nat \ {0}
    /\ Threshold \in Nat \ {0}

VARIABLES
    verify,   \* config.verify_checksum
    ranged,   \* supports_range, with more than one fragment
    permits,  \* effective_concurrency: the permits of the fragment semaphore
    phase,    \* where run_inner stands
    error,    \* why the run failed: "none", "cancelled", "checksum", "other"
    signal,   \* the value of the control channel
    closed,   \* its sender was dropped
    fstate,   \* FragmentRecord.state
    task,     \* where the tokio task of a fragment stands
    attempt,  \* its retry counter
    got,      \* chunks received in the current attempt
    written,  \* fragments whose bytes are all in the file
    detached, \* fragments whose last batch is with a blocking thread nobody awaits
    events,   \* fragments with a completed progress event, or resumed as done
    breaker   \* the circuit breaker of the URL

-----------------------------------------------------------------------------
(* One CircuitBreaker, as operators on its record.  The clock is abstracted *)
(* to `elapsed': open_duration has passed since opened_at.                  *)

Breaker == [failures: Nat, opened: BOOLEAN, elapsed: BOOLEAN, probeSent: BOOLEAN]

NewBreaker == [failures |-> 0, opened |-> FALSE, elapsed |-> FALSE, probeSent |-> FALSE]

CircuitState(b) == IF ~b.opened THEN "closed" ELSE IF b.elapsed THEN "halfopen" ELSE "open"

Allows(b) ==
    \/ CircuitState(b) = "closed"
    \/ CircuitState(b) = "halfopen" /\ ~b.probeSent

\* What allow() leaves behind when it lets a request through.
AfterAllow(b) == IF CircuitState(b) = "halfopen" THEN [b EXCEPT !.probeSent = TRUE] ELSE b

RecordSuccess(b) == NewBreaker

RecordFailure(b) ==
    IF b.failures + 1 >= Threshold
    THEN [failures |-> b.failures + 1, opened |-> TRUE, elapsed |-> FALSE, probeSent |-> FALSE]
    ELSE [b EXCEPT !.failures = @ + 1]

OpenDurationPasses(b) == IF b.opened THEN [b EXCEPT !.elapsed = TRUE] ELSE b

-----------------------------------------------------------------------------
(* The state.                                                               *)

config == <<verify, ranged, permits>>
channel == <<signal, closed>>
records == <<fstate, task, attempt, got>>
file == <<written, events, detached>>
vars == <<config, phase, error, channel, records, file, breaker>>

Whole == CHOOSE f \in Frags : TRUE     \* fragments.first_mut()

\* The fragments of the plan: a source without ranges is one fragment.
Plan == IF ranged THEN Frags ELSE {Whole}

\* completed_fragments are the fragments a checkpoint named.
Init ==
    /\ verify \in BOOLEAN
    /\ ranged \in (IF Cardinality(Frags) > 1 THEN BOOLEAN ELSE {FALSE})
    /\ permits \in 1..MaxPermits
    /\ phase = "probe"
    /\ error = "none"
    /\ signal \in {"downloading", "paused"}
    /\ closed = FALSE
    /\ fstate = [f \in Frags |-> "pending"]
    /\ task = [f \in Frags |-> "none"]
    /\ attempt = [f \in Frags |-> 0]
    /\ got = [f \in Frags |-> 0]
    /\ written \in SUBSET Plan
    /\ events = written
    /\ detached = {}
    /\ breaker = NewBreaker

Ended == phase \in {"ok", "err"}

-----------------------------------------------------------------------------
(* The control channel.  A cancelled task is never resumed.                 *)

Signal(s) ==
    /\ ~closed /\ signal \notin {s, "cancelled"}
    /\ signal' = s
    /\ UNCHANGED <<config, phase, error, closed, records, file, breaker>>

Close ==
    /\ ~closed
    /\ closed' = TRUE
    /\ UNCHANGED <<config, phase, error, signal, records, file, breaker>>

\* wait_control_rx goes on at once, fails at once, or waits out a pause.
ControlPasses == signal = "downloading"
ControlFails == signal = "cancelled" \/ (signal = "paused" /\ closed)

\* Mutant of PauseExpires: a pause has no time limit.
PauseUnlimited == FALSE

PauseExpires == signal = "paused"

\* watch_for_interrupt and wait_for_cancel also see the channel close.
InterruptFires == signal = "cancelled" \/ closed

\* The error of an interrupt: Cancelled, or Other for a closed channel.
InterruptError == IF signal = "cancelled" THEN "cancelled" ELSE "other"

-----------------------------------------------------------------------------
(* run_inner outside execute.  The three select! arms of wait_for_cancel    *)
(* race a phase that may end first, and call a closed channel Cancelled.    *)

Enter(from, to) ==
    /\ phase = from
    /\ phase' = to
    /\ UNCHANGED error

Leave(from, e) ==
    /\ phase = from
    /\ phase' = "err"
    /\ error' = e

PhaseSucceeds(from, to) ==
    Enter(from, to) /\ UNCHANGED <<config, channel, records, file, breaker>>

PhaseFails(from) ==
    Leave(from, "other") /\ UNCHANGED <<config, channel, records, file, breaker>>

PhaseCancelled(from) ==
    /\ InterruptFires
    /\ Leave(from, "cancelled")
    /\ UNCHANGED <<config, channel, records, file, breaker>>

\* init_storage is not raced with the signal; check_cancelled follows it.
InitStorage == signal # "cancelled" /\ PhaseSucceeds("init", "plan")
CheckCancelled == signal = "cancelled" /\ PhaseCancelled("init")

\* Completed fragments are marked Done and skipped by the ranged download.
PlanFragments ==
    /\ Enter("plan", "prepare")
    /\ fstate' = [f \in Frags |-> IF f \in written THEN "done" ELSE "pending"]
    /\ UNCHANGED <<config, channel, task, attempt, got, file, breaker>>

FullDownloadChosen == ~ranged /\ PhaseSucceeds("prepare", "full")

\* A tokio task is spawned for every fragment that is still Pending.
SpawnFragments ==
    LET todo == {f \in Frags : fstate[f] = "pending"}
    IN /\ ranged
       /\ Enter("prepare", "join")
       /\ fstate' = [f \in Frags |-> IF f \in todo THEN "downloading" ELSE fstate[f]]
       /\ task' = [f \in Frags |-> IF f \in todo THEN "gate" ELSE "none"]
       /\ UNCHANGED <<config, channel, attempt, got, file, breaker>>

\* plan() leaves every FragmentInfo.hash empty, so a verification that is
\* asked for finds no expected hash.
VerifySkipped == ~verify /\ PhaseSucceeds("verify", "ok")
VerifyFindsNoHash ==
    /\ verify
    /\ Leave("verify", "checksum")
    /\ UNCHANGED <<config, channel, records, file, breaker>>

\* task_fn has probed the URL before, so that probe() returns what is cached.
Phases ==
    \/ PhaseSucceeds("probe", "init") \/ PhaseCancelled("probe")
    \/ InitStorage \/ PhaseFails("init") \/ CheckCancelled
    \/ PlanFragments
    \/ FullDownloadChosen \/ SpawnFragments
    \/ PhaseFails("prepare") \/ PhaseCancelled("prepare")
    \/ VerifySkipped \/ VerifyFindsNoHash \/ PhaseCancelled("verify")

-----------------------------------------------------------------------------
(* execute_full_download: one stream, no retry.                             *)

FullControl == ControlPasses /\ PhaseSucceeds("full", "fullpool")
FullGranted == PhaseSucceeds("fullpool", "fullconnect")
FullConnects == PhaseSucceeds("fullconnect", "fullstream")

FullReceives ==
    /\ phase = "fullstream"
    /\ ControlPasses
    /\ got[Whole] < Chunks
    /\ got' = [got EXCEPT ![Whole] = @ + 1]
    /\ UNCHANGED <<config, phase, error, channel, fstate, task, attempt, file, breaker>>

\* The record was Pending, or a resumed one that is Done already: its second
\* completion is an illegal transition and fails the run.
FullFinishes ==
    /\ got[Whole] = Chunks
    /\ written' = written \cup {Whole}
    /\ IF fstate[Whole] = "pending"
       THEN /\ Enter("fullstream", "verify")
            /\ fstate' = [fstate EXCEPT ![Whole] = "done"]
       ELSE /\ Leave("fullstream", "other")
            /\ UNCHANGED fstate
    /\ UNCHANGED <<config, channel, task, attempt, got, events, detached, breaker>>

\* The pause expires, or the source or the storage fails.
FullFails ==
    \/ PauseExpires /\ PhaseFails("full")
    \/ PhaseFails("fullconnect")
    \/ PhaseFails("fullstream")

FullInterrupted ==
    /\ \/ ControlFails /\ Leave("full", InterruptError)
       \/ InterruptFires /\ Leave("fullconnect", InterruptError)
       \/ ControlFails /\ Leave("fullstream", InterruptError)
    /\ UNCHANGED <<config, channel, records, file, breaker>>

FullDownload ==
    \/ FullControl \/ FullGranted \/ FullConnects \/ FullReceives \/ FullFinishes
    \/ FullFails \/ FullInterrupted

-----------------------------------------------------------------------------
(* The tokio task of a fragment: the retry loop of                          *)
(* execute_fragmented_download around download_single_fragment.             *)

\* The states in which a task holds a permit of the fragment semaphore.
Holding == {"control", "pool", "connect", "stream", "announce"}
Returned == {"ok", "cancelled", "failed"}
Live(f) == task[f] \in Holding \cup {"gate", "permit", "sleep"}

Goto(f, from, to) == task[f] = from /\ task' = [task EXCEPT ![f] = to]

\* Mutant of MayRetry: max_retries is taken for the number of attempts left.
OneRetryMore(f) == attempt[f] <= MaxRetries

MayRetry(f) == attempt[f] < MaxRetries

\* What an attempt comes to that was refused or failed with a retryable error.
AfterFailure(f) == IF MayRetry(f) THEN "sleep" ELSE "failed"

\* An open breaker costs an attempt and a second of sleep.
GateOpens(f) ==
    /\ Allows(breaker)
    /\ breaker' = AfterAllow(breaker)
    /\ Goto(f, "gate", "permit")
    /\ UNCHANGED <<config, phase, error, channel, fstate, attempt, got, file>>

GateRefuses(f) ==
    /\ ~Allows(breaker)
    /\ Goto(f, "gate", AfterFailure(f))
    /\ UNCHANGED <<config, phase, error, channel, fstate, attempt, got, file, breaker>>

AcquirePermit(f) ==
    /\ Cardinality({g \in Frags : task[g] \in Holding}) < permits
    /\ Goto(f, "permit", "control")
    /\ UNCHANGED <<config, phase, error, channel, fstate, attempt, got, file, breaker>>

PassControl(f) ==
    /\ ControlPasses
    /\ Goto(f, "control", "pool")
    /\ UNCHANGED <<config, phase, error, channel, fstate, attempt, got, file, breaker>>

\* The pool of all downloads; the signal is not looked at while waiting.
PoolGranted(f) ==
    /\ Goto(f, "pool", "connect")
    /\ UNCHANGED <<config, phase, error, channel, fstate, attempt, got, file, breaker>>

Connects(f) ==
    /\ Goto(f, "connect", "stream")
    /\ got' = [got EXCEPT ![f] = 0]
    /\ UNCHANGED <<config, phase, error, channel, fstate, attempt, file, breaker>>

ReceivesChunk(f) ==
    /\ task[f] = "stream"
    /\ ControlPasses
    /\ got[f] < Chunks
    /\ got' = [got EXCEPT ![f] = @ + 1]
    /\ UNCHANGED <<config, phase, error, channel, fstate, task, attempt, file, breaker>>

\* The last batch is written with no wait for the signal before it: it races
\* watch_for_interrupt and can win.
Flushes(f) ==
    /\ got[f] = Chunks
    /\ Goto(f, "stream", "announce")
    /\ written' = written \cup {f}
    /\ UNCHANGED <<config, phase, error, channel, fstate, attempt, got, events, detached, breaker>>

\* Mutant of Announces: the completed event is sent before the last batch.
AnnouncesBeforeFlush(f) ==
    /\ Goto(f, "stream", "announce")
    /\ events' = events \cup {f}
    /\ UNCHANGED <<config, phase, error, channel, fstate, attempt, got, written, detached, breaker>>

\* The completed event, the release of the permits, record_success.
Announces(f) ==
    /\ Goto(f, "announce", "ok")
    /\ events' = events \cup {f}
    /\ breaker' = RecordSuccess(breaker)
    /\ UNCHANGED <<config, phase, error, channel, fstate, attempt, got, written, detached>>

AttemptEnds(f, from, to) ==
    /\ Goto(f, from, to)
    /\ breaker' = RecordFailure(breaker)
    /\ UNCHANGED <<config, phase, error, channel, fstate, attempt, got, written, events>>

\* A write that is under way when its future is dropped goes on in its blocking
\* thread.  That of an earlier batch makes no fragment complete and is left out.
LeavesWrite(f) ==
    \/ UNCHANGED detached
    \/ task[f] = "stream" /\ got[f] = Chunks /\ detached' = detached \cup {f}

\* The thread is done, at any time: its batch is in the file, or was written
\* short or not at all.
DetachedWriteEnds(f) ==
    /\ f \in detached
    /\ detached' = detached \ {f}
    /\ written' \in {written, written \cup {f}}
    /\ UNCHANGED <<config, phase, error, channel, records, events, breaker>>

\* An error of the source or the storage, retryable or not (a 4xx).
AttemptFails(f) ==
    /\ \E from \in {"connect", "stream"} :
          AttemptEnds(f, from, AfterFailure(f)) \/ AttemptEnds(f, from, "failed")
    /\ UNCHANGED detached

\* DownloadError::Timeout is retryable.
PauseTimesOut(f) ==
    /\ PauseExpires
    /\ \E from \in {"control", "connect", "stream"} : AttemptEnds(f, from, AfterFailure(f))
    /\ LeavesWrite(f)

\* Cancelled and Other are not.
Stopped == IF signal = "cancelled" THEN "cancelled" ELSE "failed"
AttemptInterrupted(f) ==
    /\ \/ ControlFails /\ AttemptEnds(f, "control", Stopped)
       \/ InterruptFires /\ AttemptEnds(f, "connect", Stopped)
       \/ InterruptFires /\ AttemptEnds(f, "stream", Stopped)
    /\ LeavesWrite(f)

\* Neither sleep is raced with the signal.
Wakes(f) ==
    /\ Goto(f, "sleep", "gate")
    /\ attempt' = [attempt EXCEPT ![f] = @ + 1]
    /\ UNCHANGED <<config, phase, error, channel, fstate, got, file, breaker>>

FragmentTask(f) ==
    \/ GateOpens(f) \/ GateRefuses(f) \/ AcquirePermit(f)
    \/ PassControl(f) \/ PoolGranted(f) \/ Connects(f)
    \/ ReceivesChunk(f) \/ Flushes(f) \/ Announces(f)
    \/ AttemptFails(f) \/ PauseTimesOut(f) \/ AttemptInterrupted(f)
    \/ Wakes(f)

BreakerHalfOpens ==
    /\ CircuitState(breaker) = "open"
    /\ breaker' = OpenDurationPasses(breaker)
    /\ UNCHANGED <<config, phase, error, channel, records, file>>

-----------------------------------------------------------------------------
(* The join loop and sync.                                                  *)

JoinOk(f) ==
    /\ phase = "join"
    /\ Goto(f, "ok", "joined")
    /\ fstate' = [fstate EXCEPT ![f] = "done"]
    /\ UNCHANGED <<config, phase, error, channel, attempt, got, file, breaker>>

\* The first failure aborts the other tasks and waits for them.
JoinErr(f) ==
    /\ Enter("join", "aborting")
    /\ task[f] \in {"cancelled", "failed"}
    /\ fstate' = [fstate EXCEPT ![f] = "failed"]
    /\ UNCHANGED <<config, channel, task, attempt, got, file, breaker>>

\* Mutant of AbortFinished: abort_all is not followed by a join.
AbortNotAwaited == TRUE

AbortFinished == \A f \in Frags : ~Live(f)

\* abort takes effect at an await of the task; until then it goes on.  What it
\* does not reach is the blocking thread of a write.
Aborted(f) ==
    /\ phase = "aborting"
    /\ Live(f)
    /\ task' = [task EXCEPT ![f] = "aborted"]
    /\ LeavesWrite(f)
    /\ UNCHANGED <<config, phase, error, channel, fstate, attempt, got, written, events, breaker>>

\* The error of the run is the one of the task that was marked Failed.
AbortEnds ==
    /\ AbortFinished
    /\ \E f \in Frags :
          /\ fstate[f] = "failed"
          /\ Leave("aborting", IF task[f] = "cancelled" THEN "cancelled" ELSE "other")
    /\ UNCHANGED <<config, channel, records, file, breaker>>

\* Mutant of AllJoined: tasks that sleep between attempts are not waited for.
SleepersIgnored == \A f \in Frags : task[f] \in {"none", "joined", "sleep"}

\* join_next returns None.
AllJoined == \A f \in Frags : task[f] \in {"none", "joined"}

FragmentsJoined == AllJoined /\ PhaseSucceeds("join", "sync")

Sync == PhaseSucceeds("sync", "verify") \/ PhaseFails("sync")

JoinLoop ==
    \/ \E f \in Frags : JoinOk(f) \/ JoinErr(f) \/ Aborted(f)
    \/ AbortEnds \/ FragmentsJoined \/ Sync

-----------------------------------------------------------------------------
Next ==
    \/ \E s \in {"downloading", "paused", "cancelled"} : Signal(s)
    \/ Close
    \/ Phases \/ FullDownload \/ JoinLoop
    \/ \E f \in Frags : FragmentTask(f) \/ DetachedWriteEnds(f)
    \/ BreakerHalfOpens

Spec == Init /\ [][Next]_vars

\* tokio polls the run and every task, sleeps and the pause timeout expire,
\* the HTTP client has a read timeout (an attempt gets its next chunk or an
\* error), the pool is fair and its other users give their permits back.
\* Nothing is assumed of the breaker's clock or of the signals.
Fairness ==
    /\ WF_vars(Phases \/ FullDownload \/ JoinLoop)
    /\ \A f \in Frags : WF_vars(FragmentTask(f))

FairSpec == Spec /\ Fairness

-----------------------------------------------------------------------------
(* Properties.                                                              *)

TypeOK ==
    /\ verify \in BOOLEAN /\ ranged \in BOOLEAN /\ permits \in 1..MaxPermits
    /\ phase \in {"probe", "init", "plan", "prepare", "full", "fullpool", "fullconnect",
                  "fullstream", "join", "aborting", "sync", "verify", "ok", "err"}
    /\ error \in {"none", "cancelled", "checksum", "other"}
    /\ signal \in {"downloading", "paused", "cancelled"}
    /\ closed \in BOOLEAN
    /\ fstate \in [Frags -> {"pending", "downloading", "done", "failed"}]
    /\ task \in [Frags -> {"none", "gate", "permit", "sleep", "joined", "aborted"}
                          \cup Holding \cup Returned]
    /\ attempt \in [Frags -> 0..MaxRetries]
    /\ got \in [Frags -> 0..Chunks]
    /\ written \in SUBSET Frags
    /\ events \in SUBSET Frags
    /\ detached \in SUBSET Frags
    /\ breaker \in Breaker

\* Past the download, every fragment of the plan is in the file and recorded
\* Done, whatever was resumed, retried, refused by the breaker or paused.
DownloadedIsComplete ==
    phase \in {"sync", "verify", "ok"} =>
        \A f \in Plan : f \in written /\ fstate[f] = "done"

\* A completion event is sent for bytes that are in the file, never for an
\* attempt that was retried or aborted: the chunk reader checkpoints on it.
EventsAreWritten == events \subseteq written

\* When run() returns no fragment task is left to begin a write.
NoTaskOutlivesRun == Ended => \A f \in Frags : ~Live(f)

\* The run is what its caller may take it for: Ok means that the whole file is
\* there and nothing changes it, and after an error only writes go on that were
\* under way when their task was interrupted or aborted.
Run == INSTANCE DownloadRun WITH
           complete <- IF ranged THEN written ELSE IF Whole \in written THEN Frags ELSE {},
           loose <- detached,
           result <- IF Ended THEN phase ELSE "running"
ImplementsRun == Run!Spec

\* A run ends once the user stops pausing and resuming it: cancelled, paused
\* beyond the timeout or left alone, with a source that fails or stalls.
RunEnds == (<>[](signal = "paused") \/ <>[](signal # "paused")) => <>Ended

-----------------------------------------------------------------------------
(* What the repository says and the code does not do.                       *)

\* After the fragments, "finalize_hash()", then "update_state(Completed)": a
\* file that was downloaded and not interrupted is completed (README).
DownloadedFileCompletes ==
    [][phase = "verify" /\ ~InterruptFires => phase' \in {"verify", "ok"}]_vars
=============================================================================
