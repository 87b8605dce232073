---------------------------- MODULE TaskLifecycle ----------------------------
(***************************************************************************)
(* The life of download tasks in tachyon-app: the commands a user issues   *)
(* (create, pause, resume, cancel, delete), the background task_fn that    *)
(* each create spawns, its chunk reader, and the snapshots both sides keep *)
(* on disk across a crash and a restart.                                   *)
(*                                                                         *)
(* AppState.tasks is a DashMap held by value, and DashMap::clone copies    *)
(* every entry, so task_fn works on the copy taken by create_task_inner:   *)
(* `tasks' is the table the commands see and `private' the entry of a task *)
(* in the copy its own task_fn owns.  Every other field is an Arc and is   *)
(* shared.                                                                 *)
(***************************************************************************)
EXTENDS Naturals, FiniteSets, TLC

CONSTANTS
    Tasks,      \* task ids; each one is used by at most one create (a v4 UUID)
    Urls,       \* the URLs a task can have, after redaction
    Frags,      \* the fragments every download is planned into
    Commands,   \* slots for command handlers that run at the same time
    MaxTasks,   \* config.max_concurrent_tasks
    MaxCrashes, \* bound on the number of crashes
    None        \* no value

ASSUME ConstantsAssumption ==
    /\ None \notin Tasks \cup Urls \cup Commands
    /\ Tasks \cap Commands = {}
    /\ MaxTasks \in Nat
    /\ MaxCrashes \in Nat

\* The states of DownloadState that the task table can hold.
Status == {"pending", "downloading", "paused", "completed", "failed", "cancelled"}
Terminal == {"completed", "failed", "cancelled"}
Active == {"pending", "downloading"}
Row == Status \cup {"absent"}

VARIABLES
    tasks,      \* AppState.tasks of the commands: task id -> status or "absent"
    url,        \* the redacted URL of a task
    private,    \* the task's own entry in the table its task_fn owns
    control,    \* its watch sender in AppState.controls: "none", "open", "closed"
    signal,     \* the value in the watch channel
    handles,    \* the ids in AppState.handles
    snapshot,   \* the TaskSnapshot on disk: status and completed fragments
    create,     \* where the create of a task stands
    createLock, \* the holder of create_task_lock
    worker,     \* where the task_fn of a task stands
    written,    \* the fragments the engine has written to the file
    reader,     \* the snapshot a chunk reader has loaded and will save
    seen,       \* the fragments a chunk reader has received an event for
    saver,      \* persist_task_snapshot calls, of command slots and of task_fns
    crashes     \* crashes so far

vars == <<tasks, url, private, control, signal, handles, snapshot, create,
          createLock, worker, written, reader, seen, saver, crashes>>

CreatePC == {"idle", "checked", "inserted", "read", "saved", "cloned",
             "registered", "spawned", "done", "recovered", "gone"}
WorkerPC == {"none", "start", "probing", "probed", "running", "ok", "err",
             "published", "persisting", "finished"}
Savers == Commands \cup Tasks
Idle == [pc |-> "idle", task |-> None, status |-> "absent", base |-> {}]

Snapshot == [status: Row, completed: SUBSET Frags]

Init ==
    /\ tasks = [t \in Tasks |-> "absent"]
    /\ url = [t \in Tasks |-> None]
    /\ private = [t \in Tasks |-> "absent"]
    /\ control = [t \in Tasks |-> "none"]
    /\ signal = [t \in Tasks |-> "downloading"]
    /\ handles = {}
    /\ snapshot = [t \in Tasks |-> None]
    /\ create = [t \in Tasks |-> "idle"]
    /\ createLock = None
    /\ worker = [t \in Tasks |-> "none"]
    /\ written = [t \in Tasks |-> {}]
    /\ reader = [t \in Tasks |-> None]
    /\ seen = [t \in Tasks |-> {}]
    /\ saver = [k \in Savers |-> Idle]
    /\ crashes = 0

-----------------------------------------------------------------------------
(* watch::Sender: a send through the entry of AppState.controls.  Nothing   *)
(* happens when the entry is not there.                                     *)
Send(t, s) ==
    signal' = IF control[t] = "open" THEN [signal EXCEPT ![t] = s] ELSE signal

\* Removing the entry drops the only sender: receivers see the channel closed.
Drop(t) == control' = IF control[t] = "open" THEN [control EXCEPT ![t] = "closed"] ELSE control

-----------------------------------------------------------------------------
(* create_task_inner.  Validation and the download directory touch nothing  *)
(* that is modelled; a create that is refused changes nothing.              *)

\* Mutant of Unfinished: the duplicate check forgets paused tasks.
UnfinishedUnlessPaused(t) == tasks[t] \in Active

\* A task that still claims its URL.
Unfinished(t) == tasks[t] \in Status \ Terminal

\* Mutant of LockFree: the check is made without create_task_lock.
LockIgnored(t) == TRUE

LockFree(t) == createLock = None

CreateCheck(t, u) ==
    /\ create[t] = "idle"
    /\ LockFree(t)
    /\ \A o \in Tasks : Unfinished(o) => url[o] # u
    /\ Cardinality({o \in Tasks : tasks[o] \in Active}) < MaxTasks
    /\ createLock' = t
    /\ url' = [url EXCEPT ![t] = u]
    /\ create' = [create EXCEPT ![t] = "checked"]
    /\ UNCHANGED <<tasks, private, control, signal, handles, snapshot, worker,
                   written, reader, seen, saver, crashes>>

CreateInsert(t) ==
    /\ create[t] = "checked"
    /\ tasks' = [tasks EXCEPT ![t] = "pending"]
    /\ createLock' = None
    /\ create' = [create EXCEPT ![t] = "inserted"]
    /\ UNCHANGED <<url, private, control, signal, handles, snapshot, worker,
                   written, reader, seen, saver, crashes>>

\* The initial snapshot: the row is read (it may be gone already) ...
CreateRead(t) ==
    /\ create[t] = "inserted"
    /\ IF tasks[t] = "absent"
       THEN /\ create' = [create EXCEPT ![t] = "saved"]
            /\ UNCHANGED saver
       ELSE /\ create' = [create EXCEPT ![t] = "read"]
            /\ saver' = [saver EXCEPT ![t].status = tasks[t]]
    /\ UNCHANGED <<tasks, url, private, control, signal, handles, snapshot,
                   createLock, worker, written, reader, seen, crashes>>

\* ... and then saved with no completed fragment.
CreateSave(t) ==
    /\ create[t] = "read"
    /\ snapshot' = [snapshot EXCEPT
                      ![t] = [status |-> saver[t].status, completed |-> {}]]
    /\ saver' = [saver EXCEPT ![t] = Idle]
    /\ create' = [create EXCEPT ![t] = "saved"]
    /\ UNCHANGED <<tasks, url, private, control, signal, handles, createLock,
                   worker, written, reader, seen, crashes>>

\* `tasks: state.tasks.clone()': task_fn gets a copy of the table.
CreateClone(t) ==
    /\ create[t] = "saved"
    /\ private' = [private EXCEPT ![t] = tasks[t]]
    /\ create' = [create EXCEPT ![t] = "cloned"]
    /\ UNCHANGED <<tasks, url, control, signal, handles, snapshot, createLock,
                   worker, written, reader, seen, saver, crashes>>

CreateRegister(t) ==
    /\ create[t] = "cloned"
    /\ control' = [control EXCEPT ![t] = "open"]
    /\ signal' = [signal EXCEPT ![t] = "downloading"]
    /\ create' = [create EXCEPT ![t] = "registered"]
    /\ UNCHANGED <<tasks, url, private, handles, snapshot, createLock, worker,
                   written, reader, seen, saver, crashes>>

CreateSpawn(t) ==
    /\ create[t] = "registered"
    /\ worker' = [worker EXCEPT ![t] = "start"]
    /\ create' = [create EXCEPT ![t] = "spawned"]
    /\ UNCHANGED <<tasks, url, private, control, signal, handles, snapshot,
                   createLock, written, reader, seen, saver, crashes>>

\* The handle is stored and start_tx opens the gate task_fn waits at.
CreateFinish(t) ==
    /\ create[t] = "spawned"
    /\ handles' = handles \cup {t}
    /\ create' = [create EXCEPT ![t] = "done"]
    /\ UNCHANGED <<tasks, url, private, control, signal, snapshot, createLock,
                   worker, written, reader, seen, saver, crashes>>

Create(t) ==
    \/ \E u \in Urls : CreateCheck(t, u)
    \/ CreateInsert(t)
    \/ CreateRead(t)
    \/ CreateSave(t)
    \/ CreateClone(t)
    \/ CreateRegister(t)
    \/ CreateSpawn(t)
    \/ CreateFinish(t)

-----------------------------------------------------------------------------
(* The other commands.  Each flips the row and sends the signal under the   *)
(* row's guard, then calls persist_task_snapshot with the guard released.   *)

Command(c, t, from, to) ==
    /\ saver[c].pc = "idle"
    /\ tasks[t] \in from
    /\ tasks' = [tasks EXCEPT ![t] = to]
    /\ Send(t, to)
    /\ saver' = [saver EXCEPT ![c] = [Idle EXCEPT !.pc = "begin", !.task = t]]
    /\ UNCHANGED <<url, private, control, handles, snapshot, create, createLock,
                   worker, written, reader, seen, crashes>>

PauseTask(c, t) == Command(c, t, {"pending", "downloading"}, "paused")
ResumeTask(c, t) == Command(c, t, {"paused"}, "downloading")
CancelTask(c, t) == Command(c, t, Status \ {"completed", "cancelled"}, "cancelled")

\* The snapshot is not removed from the disk.
DeleteTask(t) ==
    /\ tasks[t] \in Terminal
    /\ tasks' = [tasks EXCEPT ![t] = "absent"]
    /\ handles' = handles \ {t}
    /\ Drop(t)
    /\ UNCHANGED <<url, private, signal, snapshot, create, createLock, worker,
                   written, reader, seen, saver, crashes>>

-----------------------------------------------------------------------------
(* persist_task_snapshot: read the row, load what is on disk, save the row  *)
(* with the completed fragments that were loaded.  No lock spans the three. *)

\* A command persists from the shared table, task_fn from its own copy.
RowOf(k, t) == IF k \in Commands THEN tasks[t] ELSE private[t]

PersistRead(k) ==
    /\ saver[k].pc = "begin"
    /\ LET row == RowOf(k, saver[k].task)
       IN saver' = [saver EXCEPT ![k] = IF row = "absent"
                                        THEN Idle
                                        ELSE [@ EXCEPT !.pc = "read", !.status = row]]
    /\ UNCHANGED <<tasks, url, private, control, signal, handles, snapshot, create,
                   createLock, worker, written, reader, seen, crashes>>

\* No snapshot on disk yet counts as one with no completed fragment.
CompletedOnDisk(t) == IF snapshot[t] = None THEN {} ELSE snapshot[t].completed

PersistLoad(k) ==
    /\ saver[k].pc = "read"
    /\ saver' = [saver EXCEPT ![k].pc = "loaded",
                              ![k].base = CompletedOnDisk(saver[k].task)]
    /\ UNCHANGED <<tasks, url, private, control, signal, handles, snapshot, create,
                   createLock, worker, written, reader, seen, crashes>>

PersistSave(k) ==
    /\ saver[k].pc = "loaded"
    /\ snapshot' = [snapshot EXCEPT ![saver[k].task] =
                      [status |-> saver[k].status, completed |-> saver[k].base]]
    /\ saver' = [saver EXCEPT ![k] = Idle]
    /\ UNCHANGED <<tasks, url, private, control, signal, handles, create,
                   createLock, worker, written, reader, seen, crashes>>

Persist(k) == PersistRead(k) \/ PersistLoad(k) \/ PersistSave(k)

-----------------------------------------------------------------------------
(* task_fn.                                                                 *)

\* update_task_status on the private copy: nothing happens without a row.
SetPrivate(t, s) ==
    private' = IF private[t] = "absent" THEN private ELSE [private EXCEPT ![t] = s]

\* cleanup_runtime, at the end of task_fn or before an early return.
Cleanup(t) == Drop(t) /\ handles' = handles \ {t}

\* Mutant of StartGate: task_fn does not wait for its handle to be stored.
NoStartGate(t) == TRUE

StartGate(t) == create[t] = "done"

\* A task that was cancelled before the table was copied is not downloaded.
WorkerSkip(t) ==
    /\ worker[t] = "start" /\ StartGate(t)
    /\ private[t] = "cancelled"
    /\ worker' = [worker EXCEPT ![t] = "finished"]
    /\ Cleanup(t)
    /\ UNCHANGED <<tasks, url, private, signal, snapshot, create, createLock,
                   written, reader, seen, saver, crashes>>

\* The row is set to Downloading, also when it was copied as Paused.
WorkerBegin(t) ==
    /\ worker[t] = "start" /\ StartGate(t)
    /\ private[t] # "cancelled"
    /\ SetPrivate(t, "downloading")
    /\ worker' = [worker EXCEPT ![t] = "probing"]
    /\ UNCHANGED <<tasks, url, control, signal, handles, snapshot, create,
                   createLock, written, reader, seen, saver, crashes>>

\* No directory, no DownloadTask, a probe that fails, a channel that closed
\* during the probe: Failed in the private copy, and nothing is persisted.
WorkerSetupFails(t) ==
    /\ worker[t] = "probing"
    /\ SetPrivate(t, "failed")
    /\ worker' = [worker EXCEPT ![t] = "finished"]
    /\ Cleanup(t)
    /\ UNCHANGED <<tasks, url, signal, snapshot, create, createLock, written,
                   reader, seen, saver, crashes>>

\* The checks of the signal before and after the probe, and the arm of the
\* select! that waits for a cancel: return with nothing persisted.
WorkerStops(t) ==
    /\ worker[t] \in {"probing", "probed"}
    /\ signal[t] = "cancelled"
    /\ worker' = [worker EXCEPT ![t] = "finished"]
    /\ Cleanup(t)
    /\ UNCHANGED <<tasks, url, private, signal, snapshot, create, createLock,
                   written, reader, seen, saver, crashes>>

\* The snapshot is written again, from the private row and with no completed
\* fragment.  select! is unbiased: a cancel that is there already can lose.
WorkerProbed(t) ==
    /\ worker[t] = "probing"
    /\ snapshot' = IF private[t] = "absent" THEN snapshot
                   ELSE [snapshot EXCEPT
                           ![t] = [status |-> private[t], completed |-> {}]]
    /\ worker' = [worker EXCEPT ![t] = "probed"]
    /\ UNCHANGED <<tasks, url, private, control, signal, handles, create,
                   createLock, written, reader, seen, saver, crashes>>

\* The chunk reader and the progress monitor are spawned and run() starts.
WorkerRuns(t) ==
    /\ worker[t] = "probed"
    /\ signal[t] # "cancelled"
    /\ worker' = [worker EXCEPT ![t] = "running"]
    /\ UNCHANGED <<tasks, url, private, control, signal, handles, snapshot, create,
                   createLock, written, reader, seen, saver, crashes>>

\* DownloadTask::run, one fragment at a time (module DownloadTask has the
\* steps).  A fragment can still end after a signal: run() looks at the
\* signal between chunks.
WorkerWrites(t, f) ==
    /\ worker[t] = "running"
    /\ f \notin written[t]
    /\ written' = [written EXCEPT ![t] = @ \cup {f}]
    /\ UNCHANGED <<tasks, url, private, control, signal, handles, snapshot, create,
                   createLock, worker, reader, seen, saver, crashes>>

RunEnds(t, result) ==
    /\ worker[t] = "running"
    /\ worker' = [worker EXCEPT ![t] = result]
    /\ UNCHANGED <<tasks, url, private, control, signal, handles, snapshot, create,
                   createLock, written, reader, seen, saver, crashes>>

WorkerSucceeds(t) == written[t] = Frags /\ RunEnds(t, "ok")

\* Errors of the network, the disk or the verification, and the pause timeout.
WorkerFails(t) == RunEnds(t, "err")

\* Mutant of WorkerInterrupted: run() looks only for a closed channel.
WorkerInterruptedByClose(t) == control[t] = "closed" /\ RunEnds(t, "err")

\* run() sees the cancel, or that the channel was closed.
WorkerInterrupted(t) ==
    /\ signal[t] = "cancelled" \/ control[t] = "closed"
    /\ RunEnds(t, "err")

\* Mutant of Outcome: a failed run is recorded as completed.
AlwaysCompleted(result) == "completed"

\* What a result makes of the row, unless the row is gone or cancelled.
Outcome(result) == IF result = "ok" THEN "completed" ELSE "failed"

WorkerPublishes(t) ==
    /\ worker[t] \in {"ok", "err"}
    /\ IF private[t] \in {"absent", "cancelled"}
       THEN UNCHANGED <<private, signal>>
       ELSE /\ private' = [private EXCEPT ![t] = Outcome(worker[t])]
            /\ Send(t, Outcome(worker[t]))
    /\ worker' = [worker EXCEPT ![t] = "published"]
    /\ UNCHANGED <<tasks, url, control, handles, snapshot, create, createLock,
                   written, reader, seen, saver, crashes>>

\* The monitor is awaited or aborted, the runtime entries go and the final
\* persist_task_snapshot starts.
WorkerCleansUp(t) ==
    /\ worker[t] = "published"
    /\ Cleanup(t)
    /\ saver' = [saver EXCEPT ![t] = [Idle EXCEPT !.pc = "begin", !.task = t]]
    /\ worker' = [worker EXCEPT ![t] = "persisting"]
    /\ UNCHANGED <<tasks, url, private, signal, snapshot, create, createLock,
                   written, reader, seen, crashes>>

WorkerReturns(t) ==
    /\ worker[t] = "persisting"
    /\ saver[t].pc = "idle"
    /\ worker' = [worker EXCEPT ![t] = "finished"]
    /\ UNCHANGED <<tasks, url, private, control, signal, handles, snapshot, create,
                   createLock, written, reader, seen, saver, crashes>>

Worker(t) ==
    \/ WorkerSkip(t)
    \/ WorkerBegin(t)
    \/ WorkerSetupFails(t)
    \/ WorkerStops(t)
    \/ WorkerProbed(t)
    \/ WorkerRuns(t)
    \/ \E f \in Frags : WorkerWrites(t, f)
    \/ WorkerSucceeds(t)
    \/ WorkerFails(t)
    \/ WorkerInterrupted(t)
    \/ WorkerPublishes(t)
    \/ WorkerCleansUp(t)
    \/ WorkerReturns(t)

-----------------------------------------------------------------------------
(* The chunk reader: for every fragment whose completion event arrives, a   *)
(* checkpoint that loads the snapshot and saves it with all fragments seen. *)
(* It outlives run() until the channel is drained.                          *)

\* Mutant of Events: an event of a fragment that has only begun counts.
EventsOfBegunFragments(t) == IF worker[t] = "none" THEN {} ELSE Frags \ seen[t]

\* The completion events in the channel; only their union matters.  There is
\* a channel once task_fn runs.
Events(t) == IF worker[t] = "none" THEN {} ELSE written[t] \ seen[t]

ReaderLoads(t, f) ==
    /\ reader[t] = None
    /\ f \in Events(t)
    /\ seen' = [seen EXCEPT ![t] = @ \cup {f}]
    /\ reader' = [reader EXCEPT ![t] = snapshot[t]]
    /\ UNCHANGED <<tasks, url, private, control, signal, handles, snapshot, create,
                   createLock, worker, written, saver, crashes>>

ReaderSaves(t) ==
    /\ reader[t] # None
    /\ snapshot' = [snapshot EXCEPT
                      ![t] = [status |-> reader[t].status, completed |-> seen[t]]]
    /\ reader' = [reader EXCEPT ![t] = None]
    /\ UNCHANGED <<tasks, url, private, control, signal, handles, create,
                   createLock, worker, written, seen, saver, crashes>>

Reader(t) == (\E f \in Frags : ReaderLoads(t, f)) \/ ReaderSaves(t)

-----------------------------------------------------------------------------
(* A crash and the start after it: load_recovered_tasks fills a fresh table *)
(* from the snapshots that were left downloading or paused.  A snapshot is  *)
(* replaced by a rename, so a crash leaves the old one or the new one.      *)

Recoverable(t) == snapshot[t] # None /\ snapshot[t].status \in {"downloading", "paused"}

\* Mutant of NormalizeRecoveredStatus: a status the table never holds.
NormalizeToVerifying(s) == "verifying"

NormalizeRecoveredStatus(s) == IF s = "downloading" THEN "pending" ELSE s

CrashAndRecover ==
    /\ crashes < MaxCrashes
    /\ crashes' = crashes + 1
    /\ tasks' = [t \in Tasks |-> IF Recoverable(t)
                                 THEN NormalizeRecoveredStatus(snapshot[t].status)
                                 ELSE "absent"]
    /\ create' = [t \in Tasks |-> IF Recoverable(t) THEN "recovered"
                                  ELSE IF create[t] = "idle" THEN "idle" ELSE "gone"]
    /\ private' = [t \in Tasks |-> "absent"]
    /\ control' = [t \in Tasks |-> "none"]
    /\ signal' = [t \in Tasks |-> "downloading"]
    /\ handles' = {}
    /\ createLock' = None
    /\ worker' = [t \in Tasks |-> "none"]
    /\ reader' = [t \in Tasks |-> None]
    /\ seen' = [t \in Tasks |-> {}]
    /\ saver' = [k \in Savers |-> Idle]
    /\ url' = [t \in Tasks |-> IF Recoverable(t) THEN url[t] ELSE None]
    /\ UNCHANGED <<snapshot, written>>

-----------------------------------------------------------------------------
Next ==
    \/ \E t \in Tasks : Create(t) \/ Worker(t) \/ Reader(t) \/ DeleteTask(t)
    \/ \E c \in Commands, t \in Tasks :
          PauseTask(c, t) \/ ResumeTask(c, t) \/ CancelTask(c, t)
    \/ \E k \in Savers : Persist(k)
    \/ CrashAndRecover

Spec == Init /\ [][Next]_vars

\* tokio polls every spawned future and every command to its next await: a
\* create that passed its check, a save that has begun and a task_fn whose
\* next step depends on nothing outside go on.  Nothing is assumed of the
\* user, of the network (writing and succeeding) or of crashes.
Steps(t) ==
    \/ CreateInsert(t) \/ CreateRead(t) \/ CreateSave(t) \/ CreateClone(t)
    \/ CreateRegister(t) \/ CreateSpawn(t) \/ CreateFinish(t)
    \/ WorkerSkip(t) \/ WorkerBegin(t) \/ WorkerRuns(t)
    \/ WorkerPublishes(t) \/ WorkerCleansUp(t) \/ WorkerReturns(t)

\* The arms of task_fn and run() that wait for a cancel or for the channel
\* to close.
Interrupts(t) ==
    \/ WorkerStops(t)
    \/ WorkerInterrupted(t)
    \/ control[t] = "closed" /\ WorkerSetupFails(t)

Fairness ==
    /\ \A t \in Tasks : WF_vars(Steps(t))
    /\ \A t \in Tasks : WF_vars(Interrupts(t))
    /\ \A t \in Tasks : WF_vars(Reader(t))
    /\ \A k \in Savers : WF_vars(Persist(k))

FairSpec == Spec /\ Fairness

-----------------------------------------------------------------------------
(* Properties.                                                              *)

PersistPC == {"idle", "begin", "read", "loaded"}
SaverRecord == [pc: PersistPC, task: Tasks \cup {None}, status: Row, base: SUBSET Frags]

\* Every variable has its type, and a busy saver names a task.
TypeOK ==
    /\ tasks \in [Tasks -> Row]
    /\ url \in [Tasks -> Urls \cup {None}]
    /\ private \in [Tasks -> Row]
    /\ control \in [Tasks -> {"none", "open", "closed"}]
    /\ signal \in [Tasks -> Status]
    /\ handles \in SUBSET Tasks
    /\ snapshot \in [Tasks -> Snapshot \cup {None}]
    /\ create \in [Tasks -> CreatePC]
    /\ createLock \in Tasks \cup {None}
    /\ worker \in [Tasks -> WorkerPC]
    /\ written \in [Tasks -> SUBSET Frags]
    /\ reader \in [Tasks -> Snapshot \cup {None}]
    /\ seen \in [Tasks -> SUBSET Frags]
    /\ saver \in [Savers -> SaverRecord]
    /\ \A k \in Savers : saver[k].pc # "idle" => saver[k].task \in Tasks
    /\ crashes \in Nat

\* Two tasks of the table that both claim a URL never claim the same one,
\* whatever creates, pauses, resumes and cancels overlap (the check and the
\* insert of create_task_inner are two steps under create_task_lock).  Only
\* two tasks that a restart brought back can share a URL.
UniqueLiveUrl ==
    \A t, o \in Tasks :
        /\ t # o
        /\ Unfinished(t) /\ Unfinished(o)
        /\ url[t] = url[o]
        => create[t] = "recovered" /\ create[o] = "recovered"

\* No snapshot on disk, and none that a persist or a checkpoint still holds
\* in memory, names a fragment that is not in the file: what a restart would
\* skip has been written, though the writers of the snapshot overlap.
CheckpointSound ==
    \A t \in Tasks :
        /\ CompletedOnDisk(t) \subseteq written[t]
        /\ \A k \in Savers : saver[k].task = t => saver[k].base \subseteq written[t]

\* A snapshot that says Completed belongs to a file with all its fragments,
\* even when the row or the snapshot it was made from was read long before.
StoredCompletedIsComplete ==
    \A t \in Tasks :
        snapshot[t] # None /\ snapshot[t].status = "completed" => written[t] = Frags

\* A task_fn that has returned leaves no JoinHandle and no live watch sender
\* behind (cleanup_runtime), however its create and a delete overlapped.
NoRuntimeLeak ==
    \A t \in Tasks : worker[t] = "finished" => t \notin handles /\ control[t] # "open"

\* create_task_inner and the other commands implement the atomic registry of
\* URLs: "check-and-insert" is one step there.
Claim == [t \in Tasks |-> IF Unfinished(t) THEN url[t] ELSE None]
Issued == [t \in Tasks |-> IF create[t] \in {"idle", "checked"} THEN None ELSE url[t]]
Registry == INSTANCE TaskRegistry WITH claim <- Claim, issued <- Issued
ImplementsRegistry == Registry!Spec

\* A cancel that reached the watch channel ends the task_fn and empties the
\* runtime tables, in whatever phase the download is.
CancelStopsWorker ==
    \A t \in Tasks :
        (signal[t] = "cancelled" /\ control[t] = "open")
            ~> (worker[t] \in {"none", "finished"} /\ control[t] # "open" /\ t \notin handles)

-----------------------------------------------------------------------------
(* What the repository says and the code does not do: each is checked by a  *)
(* run that finds it violated.                                              *)

Quiet(t) == /\ worker[t] \in {"none", "finished"} /\ reader[t] = None /\ Events(t) = {}
            /\ \A k \in Savers : saver[k].task # t

\* Only unfinished tasks are recovered: a task that was cancelled before the
\* crash, with everything about it at rest, does not come back.
CancelledNotRecovered ==
    [][\A t \in Tasks :
          crashes' # crashes /\ tasks[t] = "cancelled" /\ Quiet(t)
              => tasks'[t] = "absent"]_vars

\* "Wait for the existing tasks to complete": a download that has ended
\* gives its slot back.
SlotFreed ==
    \A t \in Tasks :
        (worker[t] = "finished" /\ private[t] = "completed") ~> (tasks[t] \notin Active)

-----------------------------------------------------------------------------
(* For TLC.                                                                 *)

\* The tasks are interchangeable; used by runs without liveness only.
Symmetry == Permutations(Tasks)

\* With two tasks: one download at a time gets past its start gate, and none
\* past its probe, so that the private steps of two downloads are not
\* multiplied with each other.  The snapshot of the probe is the last one a
\* restart can bring back.
Started == {t \in Tasks : worker[t] \notin {"none", "start"}}
OneDownload ==
    /\ Cardinality(Started) <= 1
    /\ \A t \in Started : worker[t] \in {"probing", "probed", "finished"}
=============================================================================
