------------------------- MODULE TaskLifecycle_proofs -------------------------
(***************************************************************************)
(* Proofs about TaskLifecycle, for every set of tasks, URLs, fragments and *)
(* command slots and every number of crashes.                              *)
(***************************************************************************)
EXTENDS TaskLifecycle, TLAPS

-----------------------------------------------------------------------------
(* Type correctness.                                                        *)

\* The sets of names that the types are made of.
USE DEF Row, Status, Terminal, Active, CreatePC, WorkerPC, PersistPC

\* A persist call that changes keeps the type of saver, when its record does
\* and it names a task unless it is idle.
LEMMA SaverType ==
    ASSUME TypeOK, NEW k \in Savers, NEW r \in SaverRecord,
           r.pc # "idle" => r.task \in Tasks,
           saver' = [saver EXCEPT ![k] = r]
    PROVE  /\ saver' \in [Savers -> SaverRecord]
           /\ \A j \in Savers : saver'[j].pc # "idle" => saver'[j].task \in Tasks
BY DEF TypeOK

\* The steps of a create keep the types.
LEMMA TypeOfCreate ==
    ASSUME TypeOK, NEW t \in Tasks, Create(t)
    PROVE  TypeOK'
<1>1. ASSUME NEW u \in Urls, CreateCheck(t, u) PROVE TypeOK'
  BY <1>1 DEF TypeOK, CreateCheck
<1>2. CASE CreateInsert(t)
  BY <1>2 DEF TypeOK, CreateInsert
<1>3. CASE CreateRead(t)
  <2>1. t \in Savers /\ saver[t] \in SaverRecord /\ tasks[t] \in Row
    BY DEF TypeOK, Savers
  <2>2. CASE tasks[t] = "absent"
    BY <1>3, <2>2 DEF TypeOK, CreateRead
  <2>3. CASE tasks[t] # "absent"
    <3> DEFINE r == [saver[t] EXCEPT !.status = tasks[t]]
    <3>1. r \in SaverRecord /\ r.pc = saver[t].pc /\ r.task = saver[t].task
      BY <2>1 DEF SaverRecord
    <3>2. saver' = [saver EXCEPT ![t] = r]
      BY <1>3, <2>3 DEF CreateRead
    <3>3. r.pc # "idle" => r.task \in Tasks
      BY <2>1, <3>1 DEF TypeOK
    <3> HIDE DEF r
    <3>4. /\ saver' \in [Savers -> SaverRecord]
          /\ \A j \in Savers : saver'[j].pc # "idle" => saver'[j].task \in Tasks
      BY <2>1, <3>1, <3>2, <3>3, SaverType
    <3> QED
      BY <1>3, <2>3, <3>4 DEF TypeOK, CreateRead
  <2> QED
    BY <2>2, <2>3
<1>4. CASE CreateSave(t)
  BY <1>4 DEF TypeOK, CreateSave, Savers, SaverRecord, Snapshot, Idle
<1>5. CASE CreateClone(t)
  BY <1>5 DEF TypeOK, CreateClone
<1>6. CASE CreateRegister(t)
  BY <1>6 DEF TypeOK, CreateRegister
<1>7. CASE CreateSpawn(t)
  BY <1>7 DEF TypeOK, CreateSpawn
<1>8. CASE CreateFinish(t)
  BY <1>8 DEF TypeOK, CreateFinish
<1> QED
  BY <1>1, <1>2, <1>3, <1>4, <1>5, <1>6, <1>7, <1>8 DEF Create

\* The commands on a row that exists.
LEMMA TypeOfCommand ==
    ASSUME TypeOK, NEW c \in Commands, NEW t \in Tasks,
           NEW from, NEW to \in Status, Command(c, t, from, to)
    PROVE  TypeOK'
<1> DEFINE r == [Idle EXCEPT !.pc = "begin", !.task = t]
<1>1. r \in SaverRecord /\ r.task = t /\ c \in Savers
  BY DEF SaverRecord, Idle, Savers
<1>2. saver' = [saver EXCEPT ![c] = r]
  BY DEF Command
<1> HIDE DEF r
<1>3. /\ saver' \in [Savers -> SaverRecord]
      /\ \A j \in Savers : saver'[j].pc # "idle" => saver'[j].task \in Tasks
  BY <1>1, <1>2, SaverType
<1>4. signal' \in [Tasks -> Status] /\ tasks' \in [Tasks -> Row]
  BY DEF TypeOK, Command, Send
<1> QED
  BY <1>3, <1>4 DEF TypeOK, Command

LEMMA TypeOfDelete ==
    ASSUME TypeOK, NEW t \in Tasks, DeleteTask(t)
    PROVE  TypeOK'
BY DEF TypeOK, DeleteTask, Drop

\* persist_task_snapshot.
LEMMA TypeOfPersist ==
    ASSUME TypeOK, NEW k \in Savers, Persist(k)
    PROVE  TypeOK'
<1> DEFINE s == saver[k]
<1>0. s \in SaverRecord
  BY DEF TypeOK
<1>1. CASE PersistRead(k)
  <2> DEFINE row == RowOf(k, s.task)
             r == IF row = "absent" THEN Idle ELSE [s EXCEPT !.pc = "read", !.status = row]
  <2>1. s.task \in Tasks /\ row \in Row
    BY <1>1 DEF TypeOK, PersistRead, RowOf
  <2>2. r \in SaverRecord /\ (r.pc # "idle" => r.task \in Tasks)
    BY <1>0, <2>1 DEF SaverRecord, Idle
  <2>3. saver' = [saver EXCEPT ![k] = r]
    BY <1>1 DEF PersistRead
  <2> HIDE DEF r
  <2>4. /\ saver' \in [Savers -> SaverRecord]
        /\ \A j \in Savers : saver'[j].pc # "idle" => saver'[j].task \in Tasks
    BY <2>2, <2>3, SaverType
  <2> QED
    BY <1>1, <2>4 DEF TypeOK, PersistRead
<1>2. CASE PersistLoad(k)
  <2> DEFINE r == [s EXCEPT !.pc = "loaded", !.base = CompletedOnDisk(s.task)]
  <2>1. s.task \in Tasks
    BY <1>2 DEF TypeOK, PersistLoad
  <2>2. CompletedOnDisk(s.task) \in SUBSET Frags
    BY <2>1 DEF TypeOK, CompletedOnDisk, Snapshot
  <2>3. r \in SaverRecord /\ r.task \in Tasks
    BY <1>0, <2>1, <2>2 DEF SaverRecord
  <2>4. saver' = [saver EXCEPT ![k] = r]
    BY <1>0, <1>2 DEF PersistLoad, SaverRecord
  <2> HIDE DEF r
  <2>5. /\ saver' \in [Savers -> SaverRecord]
        /\ \A j \in Savers : saver'[j].pc # "idle" => saver'[j].task \in Tasks
    BY <2>3, <2>4, SaverType
  <2> QED
    BY <1>2, <2>5 DEF TypeOK, PersistLoad
<1>3. CASE PersistSave(k)
  <2>1. s.task \in Tasks /\ [status |-> s.status, completed |-> s.base] \in Snapshot
    BY <1>0, <1>3 DEF TypeOK, PersistSave, SaverRecord, Snapshot
  <2>2. Idle \in SaverRecord
    BY DEF SaverRecord, Idle
  <2> QED
    BY <1>3, <2>1, <2>2 DEF TypeOK, PersistSave, Idle
<1> QED
  BY <1>1, <1>2, <1>3 DEF Persist

\* task_fn.
LEMMA TypeOfWorker ==
    ASSUME TypeOK, NEW t \in Tasks, Worker(t)
    PROVE  TypeOK'
<1>1. CASE WorkerSkip(t)
  BY <1>1 DEF TypeOK, WorkerSkip, Cleanup, Drop
<1>2. CASE WorkerBegin(t)
  BY <1>2 DEF TypeOK, WorkerBegin, SetPrivate
<1>3. CASE WorkerSetupFails(t)
  <2>1. private' \in [Tasks -> Row] /\ control' \in [Tasks -> {"none", "open", "closed"}]
    BY <1>3 DEF TypeOK, WorkerSetupFails, SetPrivate, Cleanup, Drop
  <2> QED
    BY <1>3, <2>1 DEF TypeOK, WorkerSetupFails, Cleanup
<1>4. CASE WorkerStops(t)
  BY <1>4 DEF TypeOK, WorkerStops, Cleanup, Drop
<1>5. CASE WorkerProbed(t)
  BY <1>5 DEF TypeOK, WorkerProbed, Snapshot
<1>6. CASE WorkerRuns(t)
  BY <1>6 DEF TypeOK, WorkerRuns
<1>7. ASSUME NEW f \in Frags, WorkerWrites(t, f) PROVE TypeOK'
  BY <1>7 DEF TypeOK, WorkerWrites
<1>8. CASE WorkerSucceeds(t)
  BY <1>8 DEF TypeOK, WorkerSucceeds, RunEnds
<1>9. CASE WorkerFails(t)
  BY <1>9 DEF TypeOK, WorkerFails, RunEnds
<1>10. CASE WorkerInterrupted(t)
  BY <1>10 DEF TypeOK, WorkerInterrupted, RunEnds
<1>11. CASE WorkerPublishes(t)
  <2>1. private' \in [Tasks -> Row] /\ signal' \in [Tasks -> Status]
    BY <1>11 DEF TypeOK, WorkerPublishes, Outcome, Send
  <2> QED
    BY <1>11, <2>1 DEF TypeOK, WorkerPublishes
<1>12. CASE WorkerCleansUp(t)
  <2> DEFINE r == [Idle EXCEPT !.pc = "begin", !.task = t]
  <2>1. r \in SaverRecord /\ r.task = t /\ t \in Savers
    BY DEF SaverRecord, Idle, Savers
  <2>2. saver' = [saver EXCEPT ![t] = r]
    BY <1>12 DEF WorkerCleansUp
  <2> HIDE DEF r
  <2>3. /\ saver' \in [Savers -> SaverRecord]
        /\ \A j \in Savers : saver'[j].pc # "idle" => saver'[j].task \in Tasks
    BY <2>1, <2>2, SaverType
  <2> QED
    BY <1>12, <2>3 DEF TypeOK, WorkerCleansUp, Cleanup, Drop
<1>13. CASE WorkerReturns(t)
  BY <1>13 DEF TypeOK, WorkerReturns
<1> QED
  BY <1>1, <1>2, <1>3, <1>4, <1>5, <1>6, <1>7, <1>8, <1>9, <1>10, <1>11, <1>12, <1>13 DEF Worker

\* The chunk reader.
LEMMA TypeOfReader ==
    ASSUME TypeOK, NEW t \in Tasks, Reader(t)
    PROVE  TypeOK'
<1>1. ASSUME NEW f \in Frags, ReaderLoads(t, f) PROVE TypeOK'
  BY <1>1 DEF TypeOK, ReaderLoads
<1>2. CASE ReaderSaves(t)
  BY <1>2 DEF TypeOK, ReaderSaves, Snapshot
<1> QED
  BY <1>1, <1>2 DEF Reader

\* A crash and the recovery after it.
LEMMA TypeOfRecovery ==
    ASSUME TypeOK, CrashAndRecover
    PROVE  TypeOK'
<1>1. /\ tasks' \in [Tasks -> Row] /\ url' \in [Tasks -> Urls \cup {None}]
      /\ create' \in [Tasks -> CreatePC]
  BY DEF TypeOK, CrashAndRecover, Recoverable, NormalizeRecoveredStatus, Snapshot
<1>2. Idle \in SaverRecord
  BY DEF SaverRecord, Idle
<1>3. saver' \in [Savers -> SaverRecord] /\ \A k \in Savers : saver'[k].pc = "idle"
  BY <1>2 DEF CrashAndRecover, Idle
<1> QED
  BY <1>1, <1>3 DEF TypeOK, CrashAndRecover

LEMMA TypeInit == Init => TypeOK
<1> SUFFICES ASSUME Init PROVE TypeOK
  OBVIOUS
<1>1. Idle \in SaverRecord
  BY DEF SaverRecord, Idle
<1>2. saver \in [Savers -> SaverRecord] /\ \A k \in Savers : saver[k].pc = "idle"
  BY <1>1 DEF Init, Idle
<1> QED
  BY <1>2 DEF Init, TypeOK

LEMMA TypeStep == TypeOK /\ [Next]_vars => TypeOK'
<1> SUFFICES ASSUME TypeOK, [Next]_vars PROVE TypeOK'
  OBVIOUS
<1>1. ASSUME NEW t \in Tasks, Create(t) \/ Worker(t) \/ Reader(t) \/ DeleteTask(t)
      PROVE  TypeOK'
  BY <1>1, TypeOfCreate, TypeOfWorker, TypeOfReader, TypeOfDelete
<1>2. ASSUME NEW c \in Commands, NEW t \in Tasks,
             PauseTask(c, t) \/ ResumeTask(c, t) \/ CancelTask(c, t)
      PROVE  TypeOK'
  BY <1>2, TypeOfCommand DEF PauseTask, ResumeTask, CancelTask
<1>3. ASSUME NEW k \in Savers, Persist(k) PROVE TypeOK'
  BY <1>3, TypeOfPersist
<1>4. CASE CrashAndRecover
  BY <1>4, TypeOfRecovery
<1>5. CASE UNCHANGED vars
  BY <1>5 DEF TypeOK, vars
<1> QED
  BY <1>1, <1>2, <1>3, <1>4, <1>5 DEF Next

\* Every variable of the task layer keeps its type in every behaviour.
THEOREM TypeCorrect == Spec => []TypeOK
BY TypeInit, TypeStep, PTL DEF Spec

-----------------------------------------------------------------------------
(* UniqueLiveUrl.  It is not inductive alone: between the duplicate check   *)
(* and the insert of a create only create_task_lock keeps a second create   *)
(* from claiming the same URL.                                              *)

UrlInv ==
    /\ \A t \in Tasks : create[t] = "checked" => createLock = t
    /\ \A t \in Tasks : create[t] \in {"idle", "checked"} => tasks[t] = "absent"
    /\ \A t, o \in Tasks : create[t] = "checked" /\ Unfinished(o) => url[o] # url[t]
    /\ UniqueLiveUrl

LEMMA UrlOfFrame ==
    ASSUME UrlInv, UNCHANGED <<tasks, url, create, createLock>>
    PROVE  UrlInv'
BY DEF UrlInv, UniqueLiveUrl, Unfinished

\* A step that changes the row of a task and claims nothing new.
LEMMA UrlOfRelease ==
    ASSUME TypeOK, UrlInv, NEW t \in Tasks, UNCHANGED <<url, create, createLock>>,
           NEW to \in Row, tasks' = [tasks EXCEPT ![t] = to],
           tasks[t] # "absent",
           to \notin {"completed", "failed", "cancelled", "absent"} => Unfinished(t)
    PROVE  UrlInv'
BY DEF TypeOK, UrlInv, UniqueLiveUrl, Unfinished

LEMMA UrlOfCreate ==
    ASSUME TypeOK, UrlInv, NEW t \in Tasks, Create(t)
    PROVE  UrlInv'
<1>1. ASSUME NEW u \in Urls, CreateCheck(t, u) PROVE UrlInv'
  <2>1. /\ \A o \in Tasks : create[o] # "checked"
        /\ tasks[t] = "absent" /\ UNCHANGED tasks
        /\ url' = [url EXCEPT ![t] = u]
        /\ create' = [create EXCEPT ![t] = "checked"]
        /\ createLock' = t
        /\ \A o \in Tasks : Unfinished(o) => url[o] # u
    BY <1>1, ConstantsAssumption DEF UrlInv, CreateCheck, LockFree
  <2> QED
    BY <2>1 DEF TypeOK, UrlInv, UniqueLiveUrl, Unfinished
<1>2. CASE CreateInsert(t)
  BY <1>2 DEF TypeOK, UrlInv, UniqueLiveUrl, Unfinished, CreateInsert
<1>3. ASSUME create[t] \notin {"idle", "checked"}, UNCHANGED <<tasks, url, createLock>>,
             NEW pc, pc \notin {"idle", "checked", "recovered"},
             create[t] # "recovered",
             create' = [create EXCEPT ![t] = pc]
      PROVE  UrlInv'
  BY <1>3 DEF TypeOK, UrlInv, UniqueLiveUrl, Unfinished
<1>4. CASE CreateRead(t)
  BY <1>3, <1>4 DEF CreateRead
<1>5. CASE CreateSave(t)
  BY <1>3, <1>5 DEF CreateSave
<1>6. CASE CreateClone(t)
  BY <1>3, <1>6 DEF CreateClone
<1>7. CASE CreateRegister(t)
  BY <1>3, <1>7 DEF CreateRegister
<1>8. CASE CreateSpawn(t)
  BY <1>3, <1>8 DEF CreateSpawn
<1>9. CASE CreateFinish(t)
  BY <1>3, <1>9 DEF CreateFinish
<1> QED
  BY <1>1, <1>2, <1>4, <1>5, <1>6, <1>7, <1>8, <1>9 DEF Create

LEMMA UrlOfCommand ==
    ASSUME TypeOK, UrlInv, NEW c \in Commands, NEW t \in Tasks,
           PauseTask(c, t) \/ ResumeTask(c, t) \/ CancelTask(c, t)
    PROVE  UrlInv'
<1>1. CASE PauseTask(c, t)
  <2>1. Unfinished(t) /\ tasks[t] # "absent"
    BY <1>1 DEF PauseTask, Command, Unfinished
  <2> QED
    BY <1>1, <2>1, UrlOfRelease DEF PauseTask, Command
<1>2. CASE ResumeTask(c, t)
  <2>1. Unfinished(t) /\ tasks[t] # "absent"
    BY <1>2 DEF ResumeTask, Command, Unfinished
  <2> QED
    BY <1>2, <2>1, UrlOfRelease DEF ResumeTask, Command
<1>3. CASE CancelTask(c, t)
  <2>1. tasks[t] # "absent"
    BY <1>3 DEF CancelTask, Command
  <2> QED
    BY <1>3, <2>1, UrlOfRelease DEF CancelTask, Command
<1> QED
  BY <1>1, <1>2, <1>3

LEMMA UrlOfDelete ==
    ASSUME TypeOK, UrlInv, NEW t \in Tasks, DeleteTask(t)
    PROVE  UrlInv'
BY UrlOfRelease DEF DeleteTask

LEMMA UrlOfWorker ==
    ASSUME UrlInv, NEW t \in Tasks, Worker(t)
    PROVE  UrlInv'
<1>1. UNCHANGED <<tasks, url, create, createLock>>
  BY DEF Worker, WorkerSkip, WorkerBegin, WorkerSetupFails, WorkerStops, WorkerProbed,
         WorkerRuns, WorkerWrites, WorkerSucceeds, WorkerFails, WorkerInterrupted,
         RunEnds, WorkerPublishes, WorkerCleansUp, WorkerReturns
<1> QED
  BY <1>1, UrlOfFrame

LEMMA UrlOfReader ==
    ASSUME UrlInv, NEW t \in Tasks, Reader(t)
    PROVE  UrlInv'
BY UrlOfFrame DEF Reader, ReaderLoads, ReaderSaves

LEMMA UrlOfPersist ==
    ASSUME UrlInv, NEW k \in Savers, Persist(k)
    PROVE  UrlInv'
BY UrlOfFrame DEF Persist, PersistRead, PersistLoad, PersistSave

LEMMA UrlOfRecovery ==
    ASSUME UrlInv, CrashAndRecover
    PROVE  UrlInv'
BY DEF CrashAndRecover, UrlInv, UniqueLiveUrl, Unfinished

LEMMA UrlInit == Init => UrlInv
BY DEF Init, UrlInv, UniqueLiveUrl, Unfinished

LEMMA UrlStep == TypeOK /\ UrlInv /\ [Next]_vars => UrlInv'
<1> SUFFICES ASSUME TypeOK, UrlInv, [Next]_vars PROVE UrlInv'
  OBVIOUS
<1>1. ASSUME NEW t \in Tasks, Create(t) \/ Worker(t) \/ Reader(t) \/ DeleteTask(t)
      PROVE  UrlInv'
  BY <1>1, UrlOfCreate, UrlOfWorker, UrlOfReader, UrlOfDelete
<1>2. ASSUME NEW c \in Commands, NEW t \in Tasks,
             PauseTask(c, t) \/ ResumeTask(c, t) \/ CancelTask(c, t)
      PROVE  UrlInv'
  BY <1>2, UrlOfCommand
<1>3. ASSUME NEW k \in Savers, Persist(k) PROVE UrlInv'
  BY <1>3, UrlOfPersist
<1>4. CASE CrashAndRecover
  BY <1>4, UrlOfRecovery
<1>5. CASE UNCHANGED vars
  BY <1>5, UrlOfFrame DEF vars
<1> QED
  BY <1>1, <1>2, <1>3, <1>4, <1>5 DEF Next

\* No two unfinished tasks have the same URL, however many creates, commands
\* and downloads overlap (create_task_inner's check-and-insert).
THEOREM UrlsAreUnique == Spec => []UniqueLiveUrl
<1>1. UrlInv => UniqueLiveUrl
  BY DEF UrlInv
<1> QED
  BY <1>1, UrlInit, UrlStep, TypeCorrect, PTL DEF Spec

-----------------------------------------------------------------------------
(* CheckpointSound: what the chunk reader has seen is in the file, and so   *)
(* is what it saves; a persist saves what it loaded.                        *)

FileInv ==
    /\ CheckpointSound
    /\ \A t \in Tasks : seen[t] \subseteq written[t]

LEMMA FileOfFrame ==
    ASSUME FileInv, UNCHANGED <<snapshot, saver, seen, written>>
    PROVE  FileInv'
BY DEF FileInv, CheckpointSound, CompletedOnDisk

\* A saver that begins, ends or changes only its status.
LEMMA FileOfSaver ==
    ASSUME TypeOK, FileInv, NEW k \in Savers, NEW r \in SaverRecord,
           saver' = [saver EXCEPT ![k] = r],
           r.base = {} \/ (r.base = saver[k].base /\ r.task = saver[k].task),
           UNCHANGED <<snapshot, seen, written>>
    PROVE  FileInv'
<1>1. \A j \in Savers : saver'[j] = IF j = k THEN r ELSE saver[j]
  BY DEF TypeOK
<1>2. ASSUME NEW t \in Tasks, NEW j \in Savers, saver'[j].task = t
      PROVE  saver'[j].base \subseteq written[t]
  BY <1>1, <1>2 DEF FileInv, CheckpointSound
<1> QED
  BY <1>2 DEF FileInv, CheckpointSound, CompletedOnDisk

LEMMA FileOfCreate ==
    ASSUME TypeOK, FileInv, NEW t \in Tasks, Create(t)
    PROVE  FileInv'
<1>0. t \in Savers /\ saver[t] \in SaverRecord /\ Idle \in SaverRecord /\ Idle.base = {}
  BY DEF TypeOK, Savers, SaverRecord, Idle
<1>1. ASSUME NEW u \in Urls, CreateCheck(t, u) PROVE FileInv'
  BY <1>1, FileOfFrame DEF CreateCheck
<1>2. CASE CreateRead(t)
  <2>1. CASE tasks[t] = "absent"
    BY <1>2, <2>1, FileOfFrame DEF CreateRead
  <2>2. CASE tasks[t] # "absent"
    <3> DEFINE r == [saver[t] EXCEPT !.status = tasks[t]]
    <3>1. r \in SaverRecord /\ r.base = saver[t].base /\ r.task = saver[t].task
      BY <1>0 DEF SaverRecord, TypeOK
    <3>2. saver' = [saver EXCEPT ![t] = r] /\ UNCHANGED <<snapshot, seen, written>>
      BY <1>2, <2>2 DEF CreateRead
    <3> HIDE DEF r
    <3> QED
      BY <1>0, <3>1, <3>2, FileOfSaver
  <2> QED
    BY <2>1, <2>2
<1>3. CASE CreateSave(t)
  <2>1. \A j \in Savers : saver'[j] = IF j = t THEN Idle ELSE saver[j]
    BY <1>0, <1>3 DEF TypeOK, CreateSave
  <2>2. \A o \in Tasks : snapshot'[o] = IF o = t
                                        THEN [status |-> saver[t].status, completed |-> {}]
                                        ELSE snapshot[o]
    BY <1>3 DEF TypeOK, CreateSave
  <2>3. \A o \in Tasks : CompletedOnDisk(o)' \subseteq written[o]
    BY <2>2 DEF FileInv, CheckpointSound, CompletedOnDisk
  <2>4. ASSUME NEW o \in Tasks, NEW j \in Savers, saver'[j].task = o
        PROVE  saver'[j].base \subseteq written[o]
    BY <1>0, <2>1, <2>4 DEF FileInv, CheckpointSound
  <2> QED
    BY <1>3, <2>3, <2>4 DEF FileInv, CheckpointSound, CreateSave
<1>4. CASE CreateInsert(t) \/ CreateClone(t) \/ CreateRegister(t) \/ CreateSpawn(t) \/ CreateFinish(t)
  BY <1>4, FileOfFrame
     DEF CreateInsert, CreateClone, CreateRegister, CreateSpawn, CreateFinish
<1> QED
  BY <1>1, <1>2, <1>3, <1>4 DEF Create

LEMMA FileOfCommand ==
    ASSUME TypeOK, FileInv, NEW c \in Commands, NEW t \in Tasks,
           NEW from, NEW to, Command(c, t, from, to)
    PROVE  FileInv'
<1> DEFINE r == [Idle EXCEPT !.pc = "begin", !.task = t]
<1>1. r \in SaverRecord /\ r.base = {} /\ c \in Savers
  BY DEF SaverRecord, Idle, Savers
<1>2. saver' = [saver EXCEPT ![c] = r] /\ UNCHANGED <<snapshot, seen, written>>
  BY DEF Command
<1> HIDE DEF r
<1> QED
  BY <1>1, <1>2, FileOfSaver

LEMMA FileOfPersist ==
    ASSUME TypeOK, FileInv, NEW k \in Savers, Persist(k)
    PROVE  FileInv'
<1> DEFINE s == saver[k]
<1>0. s \in SaverRecord /\ Idle \in SaverRecord /\ Idle.base = {}
  BY DEF TypeOK, SaverRecord, Idle
<1>1. CASE PersistRead(k)
  <2> DEFINE row == RowOf(k, s.task)
             r == IF row = "absent" THEN Idle ELSE [s EXCEPT !.pc = "read", !.status = row]
  <2>1. row \in Row
    BY <1>1 DEF TypeOK, PersistRead, RowOf
  <2>2. r \in SaverRecord /\ (r.base = {} \/ (r.base = s.base /\ r.task = s.task))
    BY <1>0, <2>1 DEF SaverRecord
  <2>3. saver' = [saver EXCEPT ![k] = r] /\ UNCHANGED <<snapshot, seen, written>>
    BY <1>1 DEF PersistRead
  <2> HIDE DEF r
  <2> QED
    BY <2>2, <2>3, FileOfSaver
<1>2. CASE PersistLoad(k)
  <2>1. s.task \in Tasks
    BY <1>2 DEF TypeOK, PersistLoad
  <2>2. \A j \in Savers \ {k} : saver'[j] = saver[j]
    BY <1>2 DEF TypeOK, PersistLoad
  <2>3. saver'[k].task = s.task /\ saver'[k].base = CompletedOnDisk(s.task)
    BY <1>0, <1>2 DEF TypeOK, PersistLoad, SaverRecord
  <2>4. CompletedOnDisk(s.task) \subseteq written[s.task]
    BY <2>1 DEF FileInv, CheckpointSound
  <2>5. ASSUME NEW o \in Tasks, NEW j \in Savers, saver'[j].task = o
        PROVE  saver'[j].base \subseteq written[o]
    BY <2>2, <2>3, <2>4, <2>5 DEF FileInv, CheckpointSound
  <2> QED
    BY <1>2, <2>5 DEF FileInv, CheckpointSound, CompletedOnDisk, PersistLoad
<1>3. CASE PersistSave(k)
  <2>1. s.task \in Tasks
    BY <1>3 DEF TypeOK, PersistSave
  <2>2. \A j \in Savers : saver'[j] = IF j = k THEN Idle ELSE saver[j]
    BY <1>3 DEF TypeOK, PersistSave
  <2>3. \A o \in Tasks : snapshot'[o] = IF o = s.task
                                        THEN [status |-> s.status, completed |-> s.base]
                                        ELSE snapshot[o]
    BY <1>3, <2>1 DEF TypeOK, PersistSave
  <2>4. s.base \subseteq written[s.task]
    BY <2>1 DEF FileInv, CheckpointSound
  <2>5. \A o \in Tasks : CompletedOnDisk(o)' \subseteq written[o]
    BY <2>3, <2>4 DEF FileInv, CheckpointSound, CompletedOnDisk
  <2>6. ASSUME NEW o \in Tasks, NEW j \in Savers, saver'[j].task = o
        PROVE  saver'[j].base \subseteq written[o]
    BY <1>0, <2>2, <2>6 DEF FileInv, CheckpointSound
  <2> QED
    BY <1>3, <2>5, <2>6 DEF FileInv, CheckpointSound, PersistSave
<1> QED
  BY <1>1, <1>2, <1>3 DEF Persist

LEMMA FileOfWorker ==
    ASSUME TypeOK, FileInv, NEW t \in Tasks, Worker(t)
    PROVE  FileInv'
<1>1. CASE WorkerSkip(t) \/ WorkerBegin(t) \/ WorkerSetupFails(t) \/ WorkerStops(t)
           \/ WorkerRuns(t) \/ WorkerSucceeds(t) \/ WorkerFails(t) \/ WorkerInterrupted(t)
           \/ WorkerPublishes(t) \/ WorkerReturns(t)
  BY <1>1, FileOfFrame
     DEF WorkerSkip, WorkerBegin, WorkerSetupFails, WorkerStops, WorkerRuns, WorkerSucceeds,
         WorkerFails, WorkerInterrupted, RunEnds, WorkerPublishes, WorkerReturns
<1>2. CASE WorkerProbed(t)
  <2>1. \A o \in Tasks : snapshot'[o] = IF o = t /\ private[t] # "absent"
                                        THEN [status |-> private[t], completed |-> {}]
                                        ELSE snapshot[o]
    BY <1>2 DEF TypeOK, WorkerProbed
  <2>2. \A o \in Tasks : CompletedOnDisk(o)' \subseteq written[o]
    BY <2>1 DEF FileInv, CheckpointSound, CompletedOnDisk
  <2> QED
    BY <1>2, <2>2 DEF FileInv, CheckpointSound, WorkerProbed
<1>3. ASSUME NEW f \in Frags, WorkerWrites(t, f) PROVE FileInv'
  <2>1. \A o \in Tasks : written[o] \subseteq written'[o]
    BY <1>3 DEF TypeOK, WorkerWrites
  <2> QED
    BY <1>3, <2>1 DEF FileInv, CheckpointSound, CompletedOnDisk, WorkerWrites
<1>4. CASE WorkerCleansUp(t)
  <2> DEFINE r == [Idle EXCEPT !.pc = "begin", !.task = t]
  <2>1. r \in SaverRecord /\ r.base = {} /\ t \in Savers
    BY DEF SaverRecord, Idle, Savers
  <2>2. saver' = [saver EXCEPT ![t] = r] /\ UNCHANGED <<snapshot, seen, written>>
    BY <1>4 DEF WorkerCleansUp
  <2> HIDE DEF r
  <2> QED
    BY <2>1, <2>2, FileOfSaver
<1> QED
  BY <1>1, <1>2, <1>3, <1>4 DEF Worker

LEMMA FileOfReader ==
    ASSUME TypeOK, FileInv, NEW t \in Tasks, Reader(t)
    PROVE  FileInv'
<1>1. ASSUME NEW f \in Frags, ReaderLoads(t, f) PROVE FileInv'
  <2>1. \A o \in Tasks : seen'[o] \subseteq written[o]
    BY <1>1 DEF TypeOK, FileInv, ReaderLoads, Events
  <2> QED
    BY <1>1, <2>1 DEF FileInv, CheckpointSound, CompletedOnDisk, ReaderLoads
<1>2. CASE ReaderSaves(t)
  <2>1. \A o \in Tasks : snapshot'[o] = IF o = t
                                        THEN [status |-> reader[t].status, completed |-> seen[t]]
                                        ELSE snapshot[o]
    BY <1>2 DEF TypeOK, ReaderSaves
  <2>2. \A o \in Tasks : CompletedOnDisk(o)' \subseteq written[o]
    BY <2>1 DEF FileInv, CheckpointSound, CompletedOnDisk
  <2> QED
    BY <1>2, <2>2 DEF FileInv, CheckpointSound, ReaderSaves
<1> QED
  BY <1>1, <1>2 DEF Reader

LEMMA FileOfRecovery ==
    ASSUME FileInv, CrashAndRecover
    PROVE  FileInv'
BY DEF FileInv, CheckpointSound, CompletedOnDisk, CrashAndRecover, Idle

LEMMA FileInit == Init => FileInv
BY DEF Init, FileInv, CheckpointSound, CompletedOnDisk, Idle

LEMMA FileStep == TypeOK /\ FileInv /\ [Next]_vars => FileInv'
<1> SUFFICES ASSUME TypeOK, FileInv, [Next]_vars PROVE FileInv'
  OBVIOUS
<1>1. ASSUME NEW t \in Tasks, DeleteTask(t) PROVE FileInv'
  BY <1>1, FileOfFrame DEF DeleteTask
<1>2. ASSUME NEW t \in Tasks, Create(t) \/ Worker(t) \/ Reader(t)
      PROVE  FileInv'
  BY <1>2, FileOfCreate, FileOfWorker, FileOfReader
<1>3. ASSUME NEW c \in Commands, NEW t \in Tasks,
             PauseTask(c, t) \/ ResumeTask(c, t) \/ CancelTask(c, t)
      PROVE  FileInv'
  BY <1>3, FileOfCommand DEF PauseTask, ResumeTask, CancelTask
<1>4. ASSUME NEW k \in Savers, Persist(k) PROVE FileInv'
  BY <1>4, FileOfPersist
<1>5. CASE CrashAndRecover
  BY <1>5, FileOfRecovery
<1>6. CASE UNCHANGED vars
  BY <1>6, FileOfFrame DEF vars
<1> QED
  BY <1>1, <1>2, <1>3, <1>4, <1>5, <1>6 DEF Next

\* No checkpoint, on disk or about to be saved, names a fragment that is not
\* in the file, though task_fn, the chunk reader and the commands all write
\* the same snapshot without a lock.
THEOREM CheckpointsAreSound == Spec => []CheckpointSound
<1>1. FileInv => CheckpointSound
  BY DEF FileInv
<1> QED
  BY <1>1, FileInit, FileStep, TypeCorrect, PTL DEF Spec

-----------------------------------------------------------------------------
(* NoRuntimeLeak: the gate of task_fn makes every registration come before  *)
(* the cleanup.                                                             *)

RuntimeInv ==
    /\ NoRuntimeLeak
    /\ \A t \in Tasks : worker[t] = "persisting" => t \notin handles /\ control[t] # "open"
    /\ \A t \in Tasks : create[t] \notin {"spawned", "done"} => worker[t] = "none"
    /\ \A t \in Tasks : create[t] = "spawned" => worker[t] = "start"

LEMMA RuntimeOfFrame ==
    ASSUME RuntimeInv, UNCHANGED <<create, worker, handles, control>>
    PROVE  RuntimeInv'
BY DEF RuntimeInv, NoRuntimeLeak

LEMMA RuntimeOfCreate ==
    ASSUME TypeOK, RuntimeInv, NEW t \in Tasks, Create(t)
    PROVE  RuntimeInv'
<1>1. ASSUME NEW u \in Urls, CreateCheck(t, u) PROVE RuntimeInv'
  BY <1>1 DEF TypeOK, RuntimeInv, NoRuntimeLeak, CreateCheck
<1>2. CASE CreateInsert(t)
  BY <1>2 DEF TypeOK, RuntimeInv, NoRuntimeLeak, CreateInsert
<1>3. CASE CreateRead(t)
  BY <1>3 DEF TypeOK, RuntimeInv, NoRuntimeLeak, CreateRead
<1>4. CASE CreateSave(t)
  BY <1>4 DEF TypeOK, RuntimeInv, NoRuntimeLeak, CreateSave
<1>5. CASE CreateClone(t)
  BY <1>5 DEF TypeOK, RuntimeInv, NoRuntimeLeak, CreateClone
<1>6. CASE CreateRegister(t)
  BY <1>6 DEF TypeOK, RuntimeInv, NoRuntimeLeak, CreateRegister
<1>7. CASE CreateSpawn(t)
  BY <1>7 DEF TypeOK, RuntimeInv, NoRuntimeLeak, CreateSpawn
<1>8. CASE CreateFinish(t)
  BY <1>8 DEF TypeOK, RuntimeInv, NoRuntimeLeak, CreateFinish
<1> QED
  BY <1>1, <1>2, <1>3, <1>4, <1>5, <1>6, <1>7, <1>8 DEF Create

\* A step of task_fn, which has passed its gate or is past its start: the
\* create is done.  When it returns it has cleaned up.
LEMMA RuntimeOfWorkerStep ==
    ASSUME TypeOK, RuntimeInv, NEW t \in Tasks, UNCHANGED create,
           worker[t] # "none", worker[t] = "start" => create[t] = "done",
           NEW pc \in WorkerPC, worker' = [worker EXCEPT ![t] = pc],
           \/ Cleanup(t)
           \/ pc \notin {"persisting", "finished"} /\ UNCHANGED <<handles, control>>
    PROVE  RuntimeInv'
<1>1. create[t] = "done"
  BY DEF RuntimeInv, TypeOK
<1>2. \A o \in Tasks : worker'[o] = IF o = t THEN pc ELSE worker[o]
  BY DEF TypeOK
<1>3. CASE Cleanup(t)
  <2>1. t \notin handles' /\ control'[t] # "open"
    BY <1>3 DEF TypeOK, Cleanup, Drop
  <2>2. \A o \in Tasks \ {t} : control'[o] = control[o] /\ (o \in handles' => o \in handles)
    BY <1>3 DEF TypeOK, Cleanup, Drop
  <2> QED
    BY <1>1, <1>2, <2>1, <2>2 DEF RuntimeInv, NoRuntimeLeak
<1>4. CASE pc \notin {"persisting", "finished"} /\ UNCHANGED <<handles, control>>
  BY <1>1, <1>2, <1>4 DEF RuntimeInv, NoRuntimeLeak
<1> QED
  BY <1>3, <1>4

LEMMA RuntimeOfWorker ==
    ASSUME TypeOK, RuntimeInv, NEW t \in Tasks, Worker(t)
    PROVE  RuntimeInv'
<1>1. CASE WorkerSkip(t)
  BY <1>1, RuntimeOfWorkerStep DEF WorkerSkip, StartGate
<1>2. CASE WorkerBegin(t)
  BY <1>2, RuntimeOfWorkerStep DEF WorkerBegin, StartGate
<1>3. CASE WorkerSetupFails(t)
  BY <1>3, RuntimeOfWorkerStep DEF WorkerSetupFails
<1>4. CASE WorkerStops(t)
  BY <1>4, RuntimeOfWorkerStep DEF WorkerStops
<1>5. CASE WorkerProbed(t)
  BY <1>5, RuntimeOfWorkerStep DEF WorkerProbed
<1>6. CASE WorkerRuns(t)
  BY <1>6, RuntimeOfWorkerStep DEF WorkerRuns
<1>7. ASSUME NEW f \in Frags, WorkerWrites(t, f) PROVE RuntimeInv'
  BY <1>7, RuntimeOfFrame DEF WorkerWrites
<1>8. CASE WorkerSucceeds(t)
  BY <1>8, RuntimeOfWorkerStep DEF WorkerSucceeds, RunEnds
<1>9. CASE WorkerFails(t)
  BY <1>9, RuntimeOfWorkerStep DEF WorkerFails, RunEnds
<1>10. CASE WorkerInterrupted(t)
  BY <1>10, RuntimeOfWorkerStep DEF WorkerInterrupted, RunEnds
<1>11. CASE WorkerPublishes(t)
  BY <1>11, RuntimeOfWorkerStep DEF WorkerPublishes
<1>12. CASE WorkerCleansUp(t)
  BY <1>12, RuntimeOfWorkerStep DEF WorkerCleansUp
<1>13. CASE WorkerReturns(t)
  BY <1>13 DEF TypeOK, RuntimeInv, NoRuntimeLeak, WorkerReturns
<1> QED
  BY <1>1, <1>2, <1>3, <1>4, <1>5, <1>6, <1>7, <1>8, <1>9, <1>10, <1>11, <1>12, <1>13 DEF Worker

LEMMA RuntimeOfDelete ==
    ASSUME TypeOK, RuntimeInv, NEW t \in Tasks, DeleteTask(t)
    PROVE  RuntimeInv'
<1>1. \A o \in Tasks : control'[o] = "open" => control[o] = "open"
  BY DEF TypeOK, DeleteTask, Drop
<1> QED
  BY <1>1 DEF RuntimeInv, NoRuntimeLeak, DeleteTask

LEMMA RuntimeInit == Init => RuntimeInv
BY DEF Init, RuntimeInv, NoRuntimeLeak

LEMMA RuntimeStep == TypeOK /\ RuntimeInv /\ [Next]_vars => RuntimeInv'
<1> SUFFICES ASSUME TypeOK, RuntimeInv, [Next]_vars PROVE RuntimeInv'
  OBVIOUS
<1>1. ASSUME NEW t \in Tasks, Create(t) \/ Worker(t) \/ DeleteTask(t)
      PROVE  RuntimeInv'
  BY <1>1, RuntimeOfCreate, RuntimeOfWorker, RuntimeOfDelete
<1>2. ASSUME NEW t \in Tasks, Reader(t) PROVE RuntimeInv'
  BY <1>2, RuntimeOfFrame DEF Reader, ReaderLoads, ReaderSaves
<1>3. ASSUME NEW c \in Commands, NEW t \in Tasks,
             PauseTask(c, t) \/ ResumeTask(c, t) \/ CancelTask(c, t)
      PROVE  RuntimeInv'
  BY <1>3, RuntimeOfFrame DEF PauseTask, ResumeTask, CancelTask, Command
<1>4. ASSUME NEW k \in Savers, Persist(k) PROVE RuntimeInv'
  BY <1>4, RuntimeOfFrame DEF Persist, PersistRead, PersistLoad, PersistSave
<1>5. CASE CrashAndRecover
  BY <1>5 DEF CrashAndRecover, RuntimeInv, NoRuntimeLeak
<1>6. CASE UNCHANGED vars
  BY <1>6, RuntimeOfFrame DEF vars
<1> QED
  BY <1>1, <1>2, <1>3, <1>4, <1>5, <1>6 DEF Next

\* A task_fn that has returned leaves nothing in the runtime tables
\* (cleanup_runtime), in whatever order its create, a delete and the end of
\* the download happen.
THEOREM RuntimeIsReleased == Spec => []NoRuntimeLeak
<1>1. RuntimeInv => NoRuntimeLeak
  BY DEF RuntimeInv
<1> QED
  BY <1>1, RuntimeInit, RuntimeStep, TypeCorrect, PTL DEF Spec

-----------------------------------------------------------------------------
(* StoredCompletedIsComplete.  Completed has one source, task_fn's private  *)
(* row after a run that returned Ok; from there it goes to the snapshot and *)
(* to those who hold a copy of the row or of the snapshot.                  *)

\* The places a status of task t can be in.
HoldsCompleted(t) ==
    \/ private[t] = "completed"
    \/ snapshot[t] # None /\ snapshot[t].status = "completed"
    \/ reader[t] # None /\ reader[t].status = "completed"
    \/ saver[t].status = "completed"

DoneInv ==
    /\ \A t \in Tasks : HoldsCompleted(t) \/ worker[t] = "ok" => written[t] = Frags
    /\ \A t \in Tasks : tasks[t] # "completed"
    /\ \A t \in Tasks : saver[t].task \in {t, None}
    /\ \A c \in Commands : saver[c].status # "completed"

LEMMA DoneOfFrame ==
    ASSUME DoneInv, UNCHANGED <<tasks, private, snapshot, reader, saver, worker, written>>
    PROVE  DoneInv'
BY DEF DoneInv, HoldsCompleted

\* A saver takes a status that is not Completed, or that its task vouches for.
LEMMA DoneOfSaver ==
    ASSUME TypeOK, DoneInv, NEW k \in Savers, NEW r,
           saver' = [saver EXCEPT ![k] = r],
           UNCHANGED <<tasks, private, snapshot, reader, worker, written>>,
           k \in Tasks => /\ r.task \in {k, None}
                          /\ r.status = "completed" => written[k] = Frags,
           k \in Commands => r.status # "completed"
    PROVE  DoneInv'
<1>1. \A j \in Savers : saver'[j] = IF j = k THEN r ELSE saver[j]
  BY DEF TypeOK
<1>2. Tasks \subseteq Savers /\ Commands \subseteq Savers
  BY DEF Savers
<1> QED
  BY <1>1, <1>2 DEF DoneInv, HoldsCompleted

LEMMA DoneOfCreate ==
    ASSUME TypeOK, DoneInv, NEW t \in Tasks, Create(t)
    PROVE  DoneInv'
<1>0. t \in Savers /\ t \notin Commands /\ saver[t] \in SaverRecord /\ tasks[t] \in Row
  BY ConstantsAssumption DEF TypeOK, Savers
<1>1. ASSUME NEW u \in Urls, CreateCheck(t, u) PROVE DoneInv'
  BY <1>1, DoneOfFrame DEF CreateCheck
<1>2. CASE CreateInsert(t)
  <2>1. \A o \in Tasks : tasks'[o] # "completed"
    BY <1>2 DEF TypeOK, DoneInv, CreateInsert
  <2> QED
    BY <1>2, <2>1 DEF DoneInv, HoldsCompleted, CreateInsert
<1>3. CASE CreateRead(t)
  <2>1. CASE tasks[t] = "absent"
    BY <1>3, <2>1, DoneOfFrame DEF CreateRead
  <2>2. CASE tasks[t] # "absent"
    <3> DEFINE r == [saver[t] EXCEPT !.status = tasks[t]]
    <3>1. r.status = tasks[t] /\ r.task = saver[t].task
      BY <1>0 DEF SaverRecord
    <3>2. saver' = [saver EXCEPT ![t] = r]
          /\ UNCHANGED <<tasks, private, snapshot, reader, worker, written>>
      BY <1>3, <2>2 DEF CreateRead
    <3> HIDE DEF r
    <3>3. r.status # "completed" /\ r.task \in {t, None}
      BY <3>1 DEF DoneInv
    <3> QED
      BY <1>0, <3>2, <3>3, DoneOfSaver
  <2> QED
    BY <2>1, <2>2
<1>4. CASE CreateSave(t)
  <2>1. \A j \in Savers : saver'[j] = IF j = t THEN Idle ELSE saver[j]
    BY <1>4 DEF TypeOK, CreateSave
  <2>2. \A o \in Tasks : snapshot'[o] = IF o = t
                                        THEN [status |-> saver[t].status, completed |-> {}]
                                        ELSE snapshot[o]
    BY <1>4 DEF TypeOK, CreateSave
  <2>3. Tasks \subseteq Savers /\ Commands \subseteq Savers
    BY DEF Savers
  <2>4. \A o \in Tasks : HoldsCompleted(o)' => HoldsCompleted(o)
    BY <1>4, <2>1, <2>2, <2>3 DEF HoldsCompleted, CreateSave, Idle
  <2>5. /\ \A o \in Tasks : saver'[o].task \in {o, None}
        /\ \A c \in Commands : saver'[c].status # "completed"
    BY <2>1, <2>3 DEF DoneInv, Idle
  <2> QED
    BY <1>4, <2>4, <2>5 DEF DoneInv, CreateSave
<1>5. CASE CreateClone(t)
  <2>1. \A o \in Tasks : private'[o] = IF o = t THEN tasks[t] ELSE private[o]
    BY <1>5 DEF TypeOK, CreateClone
  <2>2. \A o \in Tasks : HoldsCompleted(o)' => HoldsCompleted(o)
    BY <1>5, <2>1 DEF DoneInv, HoldsCompleted, CreateClone
  <2> QED
    BY <1>5, <2>2 DEF DoneInv, CreateClone
<1>6. CASE CreateSpawn(t)
  <2>1. \A o \in Tasks : worker'[o] = "ok" => worker[o] = "ok"
    BY <1>6 DEF TypeOK, CreateSpawn
  <2> QED
    BY <1>6, <2>1 DEF DoneInv, HoldsCompleted, CreateSpawn
<1>7. CASE CreateRegister(t) \/ CreateFinish(t)
  BY <1>7, DoneOfFrame DEF CreateRegister, CreateFinish
<1> QED
  BY <1>1, <1>2, <1>3, <1>4, <1>5, <1>6, <1>7 DEF Create

LEMMA DoneOfCommand ==
    ASSUME TypeOK, DoneInv, NEW c \in Commands, NEW t \in Tasks,
           NEW from, NEW to \in Status \ {"completed"}, Command(c, t, from, to)
    PROVE  DoneInv'
<1> DEFINE r == [Idle EXCEPT !.pc = "begin", !.task = t]
<1>1. r.status # "completed" /\ c \in Savers /\ c \notin Tasks
  BY ConstantsAssumption DEF Idle, Savers
<1>2. \A j \in Savers : saver'[j] = IF j = c THEN r ELSE saver[j]
  BY DEF TypeOK, Command
<1> HIDE DEF r
<1>3. Tasks \subseteq Savers /\ Commands \subseteq Savers
  BY DEF Savers
<1>4. \A o \in Tasks : tasks'[o] # "completed"
  BY DEF TypeOK, DoneInv, Command
<1>5. \A o \in Tasks : saver'[o] = saver[o]
  BY <1>1, <1>2, <1>3
<1>6. \A d \in Commands : saver'[d].status # "completed"
  BY <1>1, <1>2, <1>3 DEF DoneInv
<1> QED
  BY <1>4, <1>5, <1>6 DEF DoneInv, HoldsCompleted, Command

LEMMA DoneOfPersist ==
    ASSUME TypeOK, DoneInv, NEW k \in Savers, Persist(k)
    PROVE  DoneInv'
<1> DEFINE s == saver[k]
<1>0. s \in SaverRecord /\ (k \in Commands \/ k \in Tasks) /\ ~(k \in Commands /\ k \in Tasks)
  BY ConstantsAssumption DEF TypeOK, Savers
<1>1. CASE PersistRead(k)
  <2> DEFINE row == RowOf(k, s.task)
             r == IF row = "absent" THEN Idle ELSE [s EXCEPT !.pc = "read", !.status = row]
  <2>1. s.task \in Tasks
    BY <1>1 DEF TypeOK, PersistRead
  <2>2. saver' = [saver EXCEPT ![k] = r]
        /\ UNCHANGED <<tasks, private, snapshot, reader, worker, written>>
    BY <1>1 DEF PersistRead
  <2>3. (r.status = "absent" /\ r.task = None) \/ (r.status = row /\ r.task = s.task)
    BY <1>0 DEF SaverRecord, Idle
  <2>4. CASE k \in Commands
    <3>1. row # "completed"
      BY <2>1, <2>4 DEF DoneInv, RowOf
    <3> HIDE DEF r, row
    <3> QED
      BY <1>0, <2>2, <2>3, <2>4, <3>1, DoneOfSaver
  <2>5. CASE k \in Tasks
    <3>1. s.task = k
      BY <2>1, <2>5, ConstantsAssumption DEF DoneInv
    <3>2. row = "completed" => written[k] = Frags
      BY <1>0, <2>5, <3>1 DEF DoneInv, HoldsCompleted, RowOf
    <3> HIDE DEF r, row
    <3> QED
      BY <1>0, <2>2, <2>3, <2>5, <3>1, <3>2, DoneOfSaver
  <2> QED
    BY <1>0, <2>4, <2>5
<1>2. CASE PersistLoad(k)
  <2> DEFINE r == [s EXCEPT !.pc = "loaded", !.base = CompletedOnDisk(s.task)]
  <2>1. r.task = s.task /\ r.status = s.status
    BY <1>0 DEF SaverRecord
  <2>2. saver' = [saver EXCEPT ![k] = r]
        /\ UNCHANGED <<tasks, private, snapshot, reader, worker, written>>
    BY <1>0, <1>2 DEF PersistLoad, SaverRecord
  <2> HIDE DEF r
  <2>3. k \in Tasks => /\ r.task \in {k, None}
                       /\ r.status = "completed" => written[k] = Frags
    BY <2>1 DEF DoneInv, HoldsCompleted
  <2>4. k \in Commands => r.status # "completed"
    BY <2>1 DEF DoneInv
  <2> QED
    BY <2>2, <2>3, <2>4, DoneOfSaver
<1>3. CASE PersistSave(k)
  <2>1. s.task \in Tasks
    BY <1>3 DEF TypeOK, PersistSave
  <2>2. \A j \in Savers : saver'[j] = IF j = k THEN Idle ELSE saver[j]
    BY <1>3 DEF TypeOK, PersistSave
  <2>3. \A o \in Tasks : snapshot'[o] = IF o = s.task
                                        THEN [status |-> s.status, completed |-> s.base]
                                        ELSE snapshot[o]
    BY <1>3, <2>1 DEF TypeOK, PersistSave
  <2>4. Tasks \subseteq Savers /\ Commands \subseteq Savers
    BY DEF Savers
  <2>5. s.status = "completed" => s.task = k /\ k \in Tasks
    BY <1>0, <2>1, ConstantsAssumption DEF DoneInv
  <2>6. \A o \in Tasks : HoldsCompleted(o)' => HoldsCompleted(o)
    BY <1>3, <2>2, <2>3, <2>4, <2>5 DEF HoldsCompleted, PersistSave, Idle
  <2>7. /\ \A o \in Tasks : saver'[o].task \in {o, None}
        /\ \A c \in Commands : saver'[c].status # "completed"
    BY <2>2, <2>4 DEF DoneInv, Idle
  <2> QED
    BY <1>3, <2>6, <2>7 DEF DoneInv, PersistSave
<1> QED
  BY <1>1, <1>2, <1>3 DEF Persist

\* A step of task_fn that completes nothing and saves nothing.
LEMMA DoneOfWorkerStep ==
    ASSUME TypeOK, DoneInv, NEW t \in Tasks,
           NEW pc \in WorkerPC \ {"ok"}, worker' = [worker EXCEPT ![t] = pc],
           \A o \in Tasks : private'[o] = "completed" => private[o] = "completed",
           UNCHANGED <<tasks, snapshot, reader, saver, written>>
    PROVE  DoneInv'
<1>1. \A o \in Tasks : worker'[o] = "ok" => worker[o] = "ok"
  BY DEF TypeOK
<1> QED
  BY <1>1 DEF DoneInv, HoldsCompleted

LEMMA DoneOfWorker ==
    ASSUME TypeOK, DoneInv, NEW t \in Tasks, Worker(t)
    PROVE  DoneInv'
<1>1. CASE WorkerSkip(t) \/ WorkerStops(t) \/ WorkerRuns(t) \/ WorkerReturns(t)
           \/ WorkerFails(t) \/ WorkerInterrupted(t)
  BY <1>1, DoneOfWorkerStep
     DEF WorkerSkip, WorkerStops, WorkerRuns, WorkerReturns, WorkerFails, WorkerInterrupted, RunEnds
<1>2. CASE WorkerBegin(t) \/ WorkerSetupFails(t)
  <2>1. \A o \in Tasks : private'[o] = "completed" => private[o] = "completed"
    BY <1>2 DEF TypeOK, WorkerBegin, WorkerSetupFails, SetPrivate
  <2> QED
    BY <1>2, <2>1, DoneOfWorkerStep DEF WorkerBegin, WorkerSetupFails
<1>3. CASE WorkerProbed(t)
  <2>1. \A o \in Tasks : snapshot'[o] = IF o = t /\ private[t] # "absent"
                                        THEN [status |-> private[t], completed |-> {}]
                                        ELSE snapshot[o]
    BY <1>3 DEF TypeOK, WorkerProbed
  <2>2. \A o \in Tasks : HoldsCompleted(o)' => HoldsCompleted(o)
    BY <1>3, <2>1 DEF HoldsCompleted, WorkerProbed
  <2>3. \A o \in Tasks : worker'[o] = "ok" => worker[o] = "ok"
    BY <1>3 DEF TypeOK, WorkerProbed
  <2> QED
    BY <1>3, <2>2, <2>3 DEF DoneInv, WorkerProbed
<1>4. ASSUME NEW f \in Frags, WorkerWrites(t, f) PROVE DoneInv'
  <2>1. \A o \in Tasks : written[o] = Frags => written'[o] = Frags
    BY <1>4 DEF TypeOK, WorkerWrites
  <2> QED
    BY <1>4, <2>1 DEF DoneInv, HoldsCompleted, WorkerWrites
<1>5. CASE WorkerSucceeds(t)
  <2>1. written[t] = Frags /\ \A o \in Tasks : worker'[o] = "ok" => o = t \/ worker[o] = "ok"
    BY <1>5 DEF TypeOK, WorkerSucceeds, RunEnds
  <2> QED
    BY <1>5, <2>1 DEF DoneInv, HoldsCompleted, WorkerSucceeds, RunEnds
<1>6. CASE WorkerPublishes(t)
  <2>1. \A o \in Tasks : private'[o] = "completed" => private[o] = "completed" \/ worker[o] = "ok"
    BY <1>6 DEF TypeOK, WorkerPublishes, Outcome
  <2>2. \A o \in Tasks : worker'[o] = "ok" => worker[o] = "ok"
    BY <1>6 DEF TypeOK, WorkerPublishes
  <2> QED
    BY <1>6, <2>1, <2>2 DEF DoneInv, HoldsCompleted, WorkerPublishes
<1>7. CASE WorkerCleansUp(t)
  <2> DEFINE r == [Idle EXCEPT !.pc = "begin", !.task = t]
  <2>1. r.status # "completed" /\ r.task = t /\ t \in Savers
    BY DEF Idle, Savers
  <2>2. saver' = [saver EXCEPT ![t] = r]
    BY <1>7 DEF WorkerCleansUp
  <2> HIDE DEF r
  <2>3. \A j \in Savers : saver'[j] = IF j = t THEN r ELSE saver[j]
    BY <2>2 DEF TypeOK
  <2>4. Tasks \subseteq Savers /\ Commands \subseteq Savers
    BY DEF Savers
  <2>5. \A o \in Tasks : HoldsCompleted(o)' => HoldsCompleted(o)
    BY <1>7, <2>1, <2>3, <2>4 DEF HoldsCompleted, WorkerCleansUp
  <2>6. \A o \in Tasks : worker'[o] = "ok" => worker[o] = "ok"
    BY <1>7 DEF TypeOK, WorkerCleansUp
  <2>7. /\ \A o \in Tasks : saver'[o].task \in {o, None}
        /\ \A c \in Commands : saver'[c].status # "completed"
    BY <2>1, <2>3, <2>4 DEF DoneInv
  <2> QED
    BY <1>7, <2>5, <2>6, <2>7 DEF DoneInv, WorkerCleansUp
<1> QED
  BY <1>1, <1>2, <1>3, <1>4, <1>5, <1>6, <1>7 DEF Worker

LEMMA DoneOfReader ==
    ASSUME TypeOK, DoneInv, NEW t \in Tasks, Reader(t)
    PROVE  DoneInv'
<1>1. ASSUME NEW f \in Frags, ReaderLoads(t, f) PROVE DoneInv'
  <2>1. \A o \in Tasks : reader'[o] = IF o = t THEN snapshot[t] ELSE reader[o]
    BY <1>1 DEF TypeOK, ReaderLoads
  <2>2. \A o \in Tasks : HoldsCompleted(o)' => HoldsCompleted(o)
    BY <1>1, <2>1 DEF HoldsCompleted, ReaderLoads
  <2> QED
    BY <1>1, <2>2 DEF DoneInv, ReaderLoads
<1>2. CASE ReaderSaves(t)
  <2>1. \A o \in Tasks : snapshot'[o] = IF o = t
                                        THEN [status |-> reader[t].status, completed |-> seen[t]]
                                        ELSE snapshot[o]
    BY <1>2 DEF TypeOK, ReaderSaves
  <2>2. reader[t] # None /\ \A o \in Tasks : reader'[o] = IF o = t THEN None ELSE reader[o]
    BY <1>2 DEF TypeOK, ReaderSaves
  <2>3. \A o \in Tasks : HoldsCompleted(o)' => HoldsCompleted(o)
    BY <1>2, <2>1, <2>2 DEF HoldsCompleted, ReaderSaves
  <2> QED
    BY <1>2, <2>3 DEF DoneInv, ReaderSaves
<1> QED
  BY <1>1, <1>2 DEF Reader

\* Only downloading and paused snapshots are recovered.
LEMMA DoneOfRecovery ==
    ASSUME DoneInv, CrashAndRecover
    PROVE  DoneInv'
<1>1. \A t \in Tasks : tasks'[t] # "completed"
  BY DEF CrashAndRecover, Recoverable, NormalizeRecoveredStatus
<1>2. Tasks \subseteq Savers /\ Commands \subseteq Savers
  BY DEF Savers
<1>3. /\ \A t \in Tasks : saver'[t].task \in {t, None}
      /\ \A c \in Commands : saver'[c].status # "completed"
  BY <1>2 DEF CrashAndRecover, Idle
<1>4. \A t \in Tasks : HoldsCompleted(t)' => HoldsCompleted(t)
  BY <1>2 DEF CrashAndRecover, HoldsCompleted, Idle
<1> QED
  BY <1>1, <1>3, <1>4 DEF CrashAndRecover, DoneInv

LEMMA DoneInit == Init => DoneInv
BY DEF Init, DoneInv, HoldsCompleted, Idle, Savers

LEMMA DoneStep == TypeOK /\ DoneInv /\ [Next]_vars => DoneInv'
<1> SUFFICES ASSUME TypeOK, DoneInv, [Next]_vars PROVE DoneInv'
  OBVIOUS
<1>1. ASSUME NEW t \in Tasks, DeleteTask(t) PROVE DoneInv'
  <2>1. \A o \in Tasks : tasks'[o] # "completed"
    BY <1>1 DEF TypeOK, DoneInv, DeleteTask
  <2> QED
    BY <1>1, <2>1 DEF DoneInv, HoldsCompleted, DeleteTask
<1>2. ASSUME NEW t \in Tasks, Create(t) \/ Worker(t) \/ Reader(t)
      PROVE  DoneInv'
  BY <1>2, DoneOfCreate, DoneOfWorker, DoneOfReader
<1>3. ASSUME NEW c \in Commands, NEW t \in Tasks,
             PauseTask(c, t) \/ ResumeTask(c, t) \/ CancelTask(c, t)
      PROVE  DoneInv'
  BY <1>3, DoneOfCommand DEF PauseTask, ResumeTask, CancelTask
<1>4. ASSUME NEW k \in Savers, Persist(k) PROVE DoneInv'
  BY <1>4, DoneOfPersist
<1>5. CASE CrashAndRecover
  BY <1>5, DoneOfRecovery
<1>6. CASE UNCHANGED vars
  BY <1>6, DoneOfFrame DEF vars
<1> QED
  BY <1>1, <1>2, <1>3, <1>4, <1>5, <1>6 DEF Next

\* A stored Completed is never stale or early: the file has every fragment,
\* whoever saved the snapshot and however old the row was that it saved.
THEOREM StoredCompletedIsTrue == Spec => []StoredCompletedIsComplete
<1>1. DoneInv => StoredCompletedIsComplete
  BY DEF DoneInv, HoldsCompleted, StoredCompletedIsComplete
<1> QED
  BY <1>1, DoneInit, DoneStep, TypeCorrect, PTL DEF Spec

-----------------------------------------------------------------------------
(* The refinement of TaskRegistry.  A task that can come back has a create  *)
(* that inserted it, and nobody works on a task that did not come back.     *)

\* Nothing holds a snapshot of t that it could still save.
Untouched(t) ==
    /\ tasks[t] = "absent"
    /\ worker[t] = "none"
    /\ reader[t] = None
    /\ \A k \in Savers : saver[k].task # t
    /\ ~Recoverable(t)

RestartInv ==
    /\ \A t \in Tasks : create[t] \in {"idle", "checked", "gone"} => Untouched(t)
    /\ \A t \in Tasks : create[t] \notin {"idle", "gone"} => url[t] \in Urls
    /\ \A t \in Tasks : reader[t] # None => worker[t] # "none"

\* A step that works on tasks whose create has inserted them.
LEMMA RestartOfTouch ==
    ASSUME TypeOK, RestartInv, NEW t \in Tasks,
           create[t] \notin {"idle", "checked", "gone"},
           UNCHANGED url,
           \A o \in Tasks \ {t} : /\ create'[o] = create[o]
                                  /\ tasks'[o] = tasks[o]
                                  /\ worker'[o] = worker[o]
                                  /\ reader'[o] = reader[o]
                                  /\ snapshot'[o] = snapshot[o],
           create'[t] \notin {"idle", "checked", "gone"},
           reader'[t] # None => worker'[t] # "none",
           \A k \in Savers : saver'[k].task \in {saver[k].task, t, None}
    PROVE  RestartInv'
<1>1. ASSUME NEW o \in Tasks, create'[o] \in {"idle", "checked", "gone"}
      PROVE  Untouched(o)'
  <2>1. o # t /\ Untouched(o)
    BY <1>1 DEF RestartInv
  <2>2. \A k \in Savers : saver'[k].task # o
    BY <2>1, ConstantsAssumption DEF Untouched
  <2> QED
    BY <2>1, <2>2 DEF Untouched, Recoverable
<1>2. \A o \in Tasks : create'[o] \notin {"idle", "gone"} => url'[o] \in Urls
  BY DEF RestartInv
<1>3. \A o \in Tasks : reader'[o] # None => worker'[o] # "none"
  BY DEF RestartInv
<1> QED
  BY <1>1, <1>2, <1>3 DEF RestartInv

LEMMA RestartOfCreate ==
    ASSUME TypeOK, RestartInv, NEW t \in Tasks, Create(t)
    PROVE  RestartInv'
<1>0. t \in Savers /\ saver[t] \in SaverRecord /\ Idle.task = None
  BY DEF TypeOK, Savers, Idle
<1>1. ASSUME NEW u \in Urls, CreateCheck(t, u) PROVE RestartInv'
  BY <1>1 DEF TypeOK, RestartInv, Untouched, Recoverable, CreateCheck
<1>2. CASE CreateInsert(t)
  BY <1>2 DEF TypeOK, RestartInv, Untouched, Recoverable, CreateInsert
<1>3. CASE CreateRead(t)
  <2>1. \A k \in Savers : saver'[k].task = saver[k].task
    <3>1. CASE tasks[t] = "absent"
      BY <1>3, <3>1 DEF CreateRead
    <3>2. CASE tasks[t] # "absent"
      BY <1>0, <1>3, <3>2 DEF TypeOK, CreateRead, SaverRecord
    <3> QED
      BY <3>1, <3>2
  <2> QED
    BY <1>3, <2>1, RestartOfTouch DEF TypeOK, RestartInv, CreateRead
<1>4. CASE CreateSave(t)
  <2>1. \A k \in Savers : saver'[k].task \in {saver[k].task, None}
    BY <1>0, <1>4 DEF TypeOK, CreateSave
  <2> QED
    BY <1>4, <2>1, RestartOfTouch DEF TypeOK, RestartInv, CreateSave
<1>5. CASE CreateClone(t)
  BY <1>5, RestartOfTouch DEF TypeOK, RestartInv, CreateClone
<1>6. CASE CreateRegister(t)
  BY <1>6, RestartOfTouch DEF TypeOK, RestartInv, CreateRegister
<1>7. CASE CreateSpawn(t)
  BY <1>7, RestartOfTouch DEF TypeOK, RestartInv, CreateSpawn
<1>8. CASE CreateFinish(t)
  BY <1>8, RestartOfTouch DEF TypeOK, RestartInv, CreateFinish
<1> QED
  BY <1>1, <1>2, <1>3, <1>4, <1>5, <1>6, <1>7, <1>8 DEF Create

LEMMA RestartOfCommand ==
    ASSUME TypeOK, RestartInv, NEW c \in Commands, NEW t \in Tasks,
           NEW from \in SUBSET Status, NEW to, Command(c, t, from, to)
    PROVE  RestartInv'
<1>1. create[t] \notin {"idle", "checked", "gone"}
  BY DEF RestartInv, Untouched, Command
<1>2. c \in Savers /\ \A k \in Savers : saver'[k].task \in {saver[k].task, t}
  BY DEF TypeOK, Command, Idle, Savers
<1> QED
  BY <1>1, <1>2, RestartOfTouch DEF TypeOK, RestartInv, Command

LEMMA RestartOfDelete ==
    ASSUME TypeOK, RestartInv, NEW t \in Tasks, DeleteTask(t)
    PROVE  RestartInv'
<1>1. create[t] \notin {"idle", "checked", "gone"}
  BY DEF RestartInv, Untouched, DeleteTask
<1> QED
  BY <1>1, RestartOfTouch DEF TypeOK, RestartInv, DeleteTask

LEMMA RestartOfPersist ==
    ASSUME TypeOK, RestartInv, NEW k \in Savers, Persist(k)
    PROVE  RestartInv'
<1> DEFINE t == saver[k].task
<1>1. t \in Tasks /\ saver[k] \in SaverRecord
  BY DEF TypeOK, Persist, PersistRead, PersistLoad, PersistSave
<1>2. create[t] \notin {"idle", "checked", "gone"}
  BY <1>1 DEF RestartInv, Untouched
<1>3. \A j \in Savers : saver'[j].task \in {saver[j].task, None}
  <2>1. CASE PersistRead(k)
    BY <1>1, <2>1 DEF TypeOK, PersistRead, SaverRecord, Idle
  <2>2. CASE PersistLoad(k)
    BY <1>1, <2>2 DEF TypeOK, PersistLoad, SaverRecord
  <2>3. CASE PersistSave(k)
    BY <1>1, <2>3 DEF TypeOK, PersistSave, Idle
  <2> QED
    BY <2>1, <2>2, <2>3 DEF Persist
<1>4. UNCHANGED <<tasks, url, create, worker, reader>>
  BY DEF Persist, PersistRead, PersistLoad, PersistSave
<1>5. \A o \in Tasks \ {t} : snapshot'[o] = snapshot[o]
  BY <1>1 DEF TypeOK, Persist, PersistRead, PersistLoad, PersistSave
<1> QED
  BY <1>1, <1>2, <1>3, <1>4, <1>5, RestartOfTouch DEF RestartInv

LEMMA RestartOfWorker ==
    ASSUME TypeOK, RuntimeInv, RestartInv, NEW t \in Tasks, Worker(t)
    PROVE  RestartInv'
<1>1. worker[t] # "none"
  BY DEF Worker, WorkerSkip, WorkerBegin, WorkerSetupFails, WorkerStops, WorkerProbed,
         WorkerRuns, WorkerWrites, WorkerSucceeds, WorkerFails, WorkerInterrupted,
         RunEnds, WorkerPublishes, WorkerCleansUp, WorkerReturns
<1>2. create[t] \notin {"idle", "checked", "gone"}
  BY <1>1 DEF RuntimeInv
<1>3. UNCHANGED <<tasks, url, create, reader>>
  BY DEF Worker, WorkerSkip, WorkerBegin, WorkerSetupFails, WorkerStops, WorkerProbed,
         WorkerRuns, WorkerWrites, WorkerSucceeds, WorkerFails, WorkerInterrupted,
         RunEnds, WorkerPublishes, WorkerCleansUp, WorkerReturns
<1>4. /\ worker'[t] # "none"
      /\ \A o \in Tasks \ {t} : worker'[o] = worker[o]
  BY <1>1 DEF TypeOK, Worker, WorkerSkip, WorkerBegin, WorkerSetupFails, WorkerStops, WorkerProbed,
         WorkerRuns, WorkerWrites, WorkerSucceeds, WorkerFails, WorkerInterrupted,
         RunEnds, WorkerPublishes, WorkerCleansUp, WorkerReturns
<1>5. \A o \in Tasks \ {t} : snapshot'[o] = snapshot[o]
  BY DEF TypeOK, Worker, WorkerSkip, WorkerBegin, WorkerSetupFails, WorkerStops, WorkerProbed,
         WorkerRuns, WorkerWrites, WorkerSucceeds, WorkerFails, WorkerInterrupted,
         RunEnds, WorkerPublishes, WorkerCleansUp, WorkerReturns
<1>6. \A k \in Savers : saver'[k].task \in {saver[k].task, t}
  <2>1. CASE WorkerCleansUp(t)
    BY <2>1 DEF TypeOK, WorkerCleansUp, Idle, Savers
  <2>2. CASE ~WorkerCleansUp(t)
    BY <2>2 DEF Worker, WorkerSkip, WorkerBegin, WorkerSetupFails, WorkerStops, WorkerProbed,
         WorkerRuns, WorkerWrites, WorkerSucceeds, WorkerFails, WorkerInterrupted,
         RunEnds, WorkerPublishes, WorkerReturns
  <2> QED
    BY <2>1, <2>2
<1> QED
  BY <1>2, <1>3, <1>4, <1>5, <1>6, RestartOfTouch

LEMMA RestartOfReader ==
    ASSUME TypeOK, RuntimeInv, RestartInv, NEW t \in Tasks, Reader(t)
    PROVE  RestartInv'
<1>1. worker[t] # "none"
  BY DEF Reader, ReaderLoads, ReaderSaves, Events, RestartInv
<1>2. create[t] \notin {"idle", "checked", "gone"}
  BY <1>1 DEF RuntimeInv
<1>3. UNCHANGED <<tasks, url, create, worker, saver>>
  BY DEF Reader, ReaderLoads, ReaderSaves
<1>4. \A o \in Tasks \ {t} : reader'[o] = reader[o] /\ snapshot'[o] = snapshot[o]
  BY DEF TypeOK, Reader, ReaderLoads, ReaderSaves
<1> QED
  BY <1>1, <1>2, <1>3, <1>4, RestartOfTouch

LEMMA RestartOfRecovery ==
    ASSUME RestartInv, CrashAndRecover
    PROVE  RestartInv'
<1>1. \A t \in Tasks : Recoverable(t) => url[t] \in Urls
  BY DEF RestartInv, Untouched
<1>2. ASSUME NEW t \in Tasks, create'[t] \in {"idle", "checked", "gone"}
      PROVE  ~Recoverable(t)
  BY <1>2 DEF CrashAndRecover
<1>3. \A t \in Tasks : Recoverable(t)' <=> Recoverable(t)
  BY DEF CrashAndRecover, Recoverable
<1>4. \A t \in Tasks : \A k \in Savers : saver'[k].task # t
  BY ConstantsAssumption DEF CrashAndRecover, Idle
<1>5. \A t \in Tasks : create'[t] \in {"idle", "checked", "gone"} => Untouched(t)'
  BY <1>2, <1>3, <1>4 DEF CrashAndRecover, Untouched
<1> QED
  BY <1>1, <1>5 DEF CrashAndRecover, RestartInv

LEMMA RestartInit == Init => RestartInv
BY ConstantsAssumption DEF Init, RestartInv, Untouched, Recoverable, Idle

LEMMA RestartStep == TypeOK /\ RuntimeInv /\ RestartInv /\ [Next]_vars => RestartInv'
<1> SUFFICES ASSUME TypeOK, RuntimeInv, RestartInv, [Next]_vars PROVE RestartInv'
  OBVIOUS
<1>1. ASSUME NEW t \in Tasks, Create(t) \/ Worker(t) \/ Reader(t) \/ DeleteTask(t)
      PROVE  RestartInv'
  BY <1>1, RestartOfCreate, RestartOfWorker, RestartOfReader, RestartOfDelete
<1>2. ASSUME NEW c \in Commands, NEW t \in Tasks,
             PauseTask(c, t) \/ ResumeTask(c, t) \/ CancelTask(c, t)
      PROVE  RestartInv'
  BY <1>2, RestartOfCommand DEF PauseTask, ResumeTask, CancelTask
<1>3. ASSUME NEW k \in Savers, Persist(k) PROVE RestartInv'
  BY <1>3, RestartOfPersist
<1>4. CASE CrashAndRecover
  BY <1>4, RestartOfRecovery
<1>5. CASE UNCHANGED vars
  BY <1>5 DEF vars, RestartInv, Untouched, Recoverable
<1> QED
  BY <1>1, <1>2, <1>3, <1>4, <1>5 DEF Next

-----------------------------------------------------------------------------
(* The steps of the registry.  Creating is its Add at the insert.           *)

LEMMA RegistryOfFrame ==
    ASSUME UNCHANGED <<tasks, url>>,
           \A t \in Tasks : create'[t] \in {"idle", "checked"} <=> create[t] \in {"idle", "checked"}
    PROVE  UNCHANGED <<Claim, Issued>>
BY DEF Claim, Issued, Unfinished

\* A row that changes and is unfinished before and after, or neither.
LEMMA RegistryOfRow ==
    ASSUME UNCHANGED <<url, create>>, TypeOK,
           NEW t \in Tasks, NEW to \in Row, tasks' = [tasks EXCEPT ![t] = to],
           Unfinished(t)' <=> Unfinished(t)
    PROVE  UNCHANGED <<Claim, Issued>>
<1>1. \A o \in Tasks : Unfinished(o)' <=> Unfinished(o)
  BY DEF TypeOK, Unfinished
<1> QED
  BY <1>1 DEF Claim, Issued

LEMMA RegistryOfCreate ==
    ASSUME TypeOK, UrlInv, RestartInv, NEW t \in Tasks, Create(t)
    PROVE  \/ \E u \in Urls : Registry!Add(t, u)
           \/ UNCHANGED <<Claim, Issued>>
<1>1. ASSUME NEW u \in Urls, CreateCheck(t, u) PROVE UNCHANGED <<Claim, Issued>>
  <2>1. tasks[t] = "absent" /\ UNCHANGED tasks
    BY <1>1 DEF UrlInv, CreateCheck
  <2>2. \A o \in Tasks \ {t} : url'[o] = url[o] /\ create'[o] = create[o]
    BY <1>1 DEF TypeOK, CreateCheck
  <2>3. create[t] = "idle" /\ create'[t] = "checked"
    BY <1>1 DEF TypeOK, CreateCheck
  <2>4. UNCHANGED Claim
    BY <2>1, <2>2 DEF Claim, Unfinished
  <2>5. UNCHANGED Issued
    BY <2>2, <2>3 DEF Issued
  <2> QED
    BY <2>4, <2>5
<1>2. ASSUME CreateInsert(t) PROVE \E u \in Urls : Registry!Add(t, u)
  <2>1. create[t] = "checked" /\ url[t] \in Urls /\ UNCHANGED url
    BY <1>2 DEF RestartInv, CreateInsert
  <2>2. /\ \A o \in Tasks : create'[o] = IF o = t THEN "inserted" ELSE create[o]
        /\ \A o \in Tasks : tasks'[o] = IF o = t THEN "pending" ELSE tasks[o]
    BY <1>2 DEF TypeOK, CreateInsert
  <2>3. \A o \in Tasks : Claim[o] # url[t]
    BY <2>1, ConstantsAssumption DEF UrlInv, Claim
  <2>4. Issued[t] = None
    BY <2>1 DEF Issued
  <2>5. Claim' = [Claim EXCEPT ![t] = url[t]]
    BY <2>1, <2>2 DEF Claim, Unfinished
  <2>6. Issued' = [Issued EXCEPT ![t] = url[t]]
    BY <2>1, <2>2 DEF Issued
  <2> QED
    BY <2>1, <2>3, <2>4, <2>5, <2>6 DEF Registry!Add
<1>3. CASE CreateRead(t)
  BY <1>3, RegistryOfFrame DEF TypeOK, CreateRead
<1>4. CASE CreateSave(t)
  BY <1>4, RegistryOfFrame DEF TypeOK, CreateSave
<1>5. CASE CreateClone(t)
  BY <1>5, RegistryOfFrame DEF TypeOK, CreateClone
<1>6. CASE CreateRegister(t)
  BY <1>6, RegistryOfFrame DEF TypeOK, CreateRegister
<1>7. CASE CreateSpawn(t)
  BY <1>7, RegistryOfFrame DEF TypeOK, CreateSpawn
<1>8. CASE CreateFinish(t)
  BY <1>8, RegistryOfFrame DEF TypeOK, CreateFinish
<1> QED
  BY <1>1, <1>2, <1>3, <1>4, <1>5, <1>6, <1>7, <1>8 DEF Create

LEMMA RegistryOfCancel ==
    ASSUME TypeOK, RestartInv, NEW c \in Commands, NEW t \in Tasks, CancelTask(c, t)
    PROVE  Registry!Release(t) \/ UNCHANGED <<Claim, Issued>>
<1>1. UNCHANGED <<url, create>> /\ tasks' = [tasks EXCEPT ![t] = "cancelled"]
  BY DEF CancelTask, Command
<1>2. ~Unfinished(t)'
  BY <1>1 DEF TypeOK, Unfinished
<1>3. CASE ~Unfinished(t)
  BY <1>1, <1>2, <1>3, RegistryOfRow
<1>4. CASE Unfinished(t)
  <2>1. Claim[t] = url[t] /\ url[t] # None
    BY <1>4, ConstantsAssumption DEF Claim, RestartInv, Untouched, Unfinished
  <2>2. \A o \in Tasks \ {t} : Unfinished(o)' <=> Unfinished(o)
    BY <1>1 DEF TypeOK, Unfinished
  <2>3. Claim' = [Claim EXCEPT ![t] = None]
    BY <1>1, <1>2, <2>2 DEF Claim
  <2>4. UNCHANGED Issued
    BY <1>1 DEF Issued
  <2> QED
    BY <2>1, <2>3, <2>4 DEF Registry!Release
<1> QED
  BY <1>3, <1>4

LEMMA RegistryOfRecovery ==
    ASSUME RestartInv, CrashAndRecover
    PROVE  Registry!Restart
<1> DEFINE back == {t \in Tasks : Recoverable(t)}
<1>1. \A t \in Tasks : Recoverable(t) => create[t] \notin {"idle", "checked", "gone"} /\ url[t] \in Urls
  BY DEF RestartInv, Untouched
<1>2. \A t \in back : Issued[t] = url[t] /\ url[t] # None
  BY <1>1, ConstantsAssumption DEF Issued
<1>3. \A t \in Tasks : Unfinished(t)' <=> t \in back
  BY DEF CrashAndRecover, Unfinished, Recoverable, NormalizeRecoveredStatus
<1>4. \A t \in Tasks : url'[t] = IF t \in back THEN url[t] ELSE None
  BY DEF CrashAndRecover
<1>5. Claim' = [t \in Tasks |-> IF t \in back THEN Issued[t] ELSE None]
  BY <1>2, <1>3, <1>4 DEF Claim
<1>6. Issued' = Claim'
  <2>1. \A t \in back : create'[t] = "recovered"
    BY DEF CrashAndRecover
  <2>2. \A t \in Tasks : Issued'[t] = Claim'[t]
    BY <1>3, <1>4, <2>1 DEF Issued, Claim
  <2> QED
    BY <2>2 DEF Issued, Claim
<1> HIDE DEF back
<1>7. back \in SUBSET {t \in Tasks : Issued[t] # None}
  BY <1>2 DEF back
<1> QED
  BY <1>5, <1>6, <1>7 DEF Registry!Restart

LEMMA RegistryStep ==
    TypeOK /\ UrlInv /\ RestartInv /\ [Next]_vars => [Registry!Next]_<<Claim, Issued>>
<1> SUFFICES ASSUME TypeOK, UrlInv, RestartInv, [Next]_vars
             PROVE  [Registry!Next]_<<Claim, Issued>>
  OBVIOUS
<1>1. ASSUME NEW t \in Tasks, Create(t) PROVE [Registry!Next]_<<Claim, Issued>>
  BY <1>1, RegistryOfCreate DEF Registry!Next
<1>2. ASSUME NEW t \in Tasks, Worker(t) \/ Reader(t) PROVE UNCHANGED <<Claim, Issued>>
  <2>1. UNCHANGED <<tasks, url, create>>
    BY <1>2 DEF Reader, ReaderLoads, ReaderSaves, Worker, WorkerSkip, WorkerBegin,
                WorkerSetupFails, WorkerStops, WorkerProbed, WorkerRuns, WorkerWrites,
                WorkerSucceeds, WorkerFails, WorkerInterrupted, RunEnds, WorkerPublishes,
                WorkerCleansUp, WorkerReturns
  <2> QED
    BY <2>1, RegistryOfFrame
<1>3. ASSUME NEW t \in Tasks, DeleteTask(t) PROVE UNCHANGED <<Claim, Issued>>
  <2>1. tasks' = [tasks EXCEPT ![t] = "absent"] /\ UNCHANGED <<url, create>>
    BY <1>3 DEF DeleteTask
  <2>2. ~Unfinished(t) /\ ~Unfinished(t)'
    BY <1>3, <2>1 DEF TypeOK, DeleteTask, Unfinished
  <2> QED
    BY <2>1, <2>2, RegistryOfRow
<1>4. ASSUME NEW c \in Commands, NEW t \in Tasks, PauseTask(c, t) \/ ResumeTask(c, t)
      PROVE  UNCHANGED <<Claim, Issued>>
  <2>1. PICK to \in {"paused", "downloading"} :
           tasks' = [tasks EXCEPT ![t] = to] /\ UNCHANGED <<url, create>>
    BY <1>4 DEF PauseTask, ResumeTask, Command
  <2>2. Unfinished(t) /\ Unfinished(t)'
    BY <1>4, <2>1 DEF TypeOK, PauseTask, ResumeTask, Command, Unfinished
  <2> QED
    BY <2>1, <2>2, RegistryOfRow
<1>5. ASSUME NEW c \in Commands, NEW t \in Tasks, CancelTask(c, t)
      PROVE  [Registry!Next]_<<Claim, Issued>>
  BY <1>5, RegistryOfCancel DEF Registry!Next
<1>6. ASSUME NEW k \in Savers, Persist(k) PROVE UNCHANGED <<Claim, Issued>>
  <2>1. UNCHANGED <<tasks, url, create>>
    BY <1>6 DEF Persist, PersistRead, PersistLoad, PersistSave
  <2> QED
    BY <2>1, RegistryOfFrame
<1>7. CASE CrashAndRecover
  BY <1>7, RegistryOfRecovery DEF Registry!Next
<1>8. CASE UNCHANGED vars
  BY <1>8, RegistryOfFrame DEF vars
<1> QED
  BY <1>1, <1>2, <1>3, <1>4, <1>5, <1>6, <1>7, <1>8 DEF Next

LEMMA RegistryInit == Init => Registry!Init
BY DEF Init, Registry!Init, Claim, Issued, Unfinished

\* create_task_inner, the other commands and a restart implement the atomic
\* registry of URLs: check-and-insert is one step of it.
THEOREM RegistryIsImplemented == Spec => ImplementsRegistry
BY TypeInit, TypeStep, UrlInit, UrlStep, RuntimeInit, RuntimeStep, RestartInit, RestartStep,
   RegistryInit, RegistryStep, PTL
   DEF Spec, ImplementsRegistry, Registry!Spec
=============================================================================
