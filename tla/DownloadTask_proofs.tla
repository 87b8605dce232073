-------------------------- MODULE DownloadTask_proofs --------------------------
(***************************************************************************)
(* Proofs about DownloadTask, for every number of fragments, chunks,       *)
(* retries and permits and every threshold of the circuit breaker.         *)
(***************************************************************************)
EXTENDS DownloadTask, TLAPS

-----------------------------------------------------------------------------
(* The inductive invariant.                                                 *)

Before == {"probe", "init", "plan", "prepare"}
Full == {"full", "fullpool", "fullconnect", "fullstream"}
Past == {"sync", "verify", "ok"}

\* Fragment tasks exist only between the spawn and the end of the join loop.
TasksInv ==
    /\ phase \notin {"join", "aborting"} => \A f \in Frags : ~Live(f)
    /\ phase \in Before \cup Full => \A f \in Frags : task[f] = "none"
    /\ phase \in {"join", "aborting"} => ranged
    /\ phase \in Full => ~ranged

\* What a record says of its fragment and of its task.
RecordsInv ==
    /\ phase \in {"prepare"} \cup Full => \A f \in Frags : fstate[f] \in {"pending", "done"}
    /\ phase \in {"join", "aborting"} =>
          \A f \in Frags : task[f] \in {"none", "joined"} => fstate[f] = "done"
    /\ \A f \in Frags : task[f] = "sleep" => MayRetry(f)

\* What is known to be in the file.
FileInv ==
    /\ written \in SUBSET Plan
    /\ \A f \in Frags : fstate[f] = "done" => f \in written
    /\ \A f \in Frags : task[f] \in {"announce", "ok", "joined"} => f \in written
    /\ detached # {} => ranged

IInv == TypeOK /\ TasksInv /\ RecordsInv /\ FileInv /\ EventsAreWritten /\ DownloadedIsComplete

Phase == {"probe", "init", "plan", "prepare", "full", "fullpool", "fullconnect",
          "fullstream", "join", "aborting", "sync", "verify", "ok", "err"}
TaskState == {"none", "gate", "permit", "sleep", "joined", "aborted"} \cup Holding \cup Returned
LiveState == Holding \cup {"gate", "permit", "sleep"}

USE DEF Before, Full, Past, Phase, Holding, Returned, TaskState, LiveState

-----------------------------------------------------------------------------
(* The breaker and the plan.                                                *)

\* Every operation of the breaker returns a breaker.
LEMMA BreakerType ==
    ASSUME NEW b \in Breaker
    PROVE  /\ NewBreaker \in Breaker /\ AfterAllow(b) \in Breaker
           /\ RecordSuccess(b) \in Breaker /\ RecordFailure(b) \in Breaker
           /\ OpenDurationPasses(b) \in Breaker
<1>1. NewBreaker \in Breaker /\ RecordSuccess(b) \in Breaker
  BY DEF Breaker, NewBreaker, RecordSuccess
<1>2. AfterAllow(b) \in Breaker
  BY DEF Breaker, AfterAllow
<1>3. OpenDurationPasses(b) \in Breaker
  BY DEF Breaker, OpenDurationPasses
<1>4. RecordFailure(b) \in Breaker
  <2>1. b.failures + 1 \in Nat
    BY DEF Breaker
  <2>2. [b EXCEPT !.failures = @ + 1] \in Breaker
    BY <2>1 DEF Breaker
  <2>3. [failures |-> b.failures + 1, opened |-> TRUE, elapsed |-> FALSE, probeSent |-> FALSE] \in Breaker
    BY <2>1 DEF Breaker
  <2> QED
    BY <2>2, <2>3 DEF RecordFailure
<1> QED
  BY <1>1, <1>2, <1>3, <1>4

\* The fragment a download without ranges writes is one of Frags.
LEMMA WholeIsFragment == Whole \in Frags
BY DownloadAssumption DEF Whole

-----------------------------------------------------------------------------
(* Steps that move only the phase.                                          *)

\* A step that leaves records and file alone keeps the invariant when the
\* phase it reaches claims nothing of them.
LEMMA PhaseStep ==
    ASSUME IInv,
           NEW from \in Phase, NEW to \in Phase,
           phase = from, phase' = to, to # "prepare",
           error' \in {"none", "cancelled", "checksum", "other"},
           UNCHANGED <<config, channel, records, file, breaker>>,
           \/ from \in Before /\ to \in Before
           \/ from \in Full /\ to \in Full
           \/ from \in Past /\ to \in Past
           \/ to = "err" /\ \A f \in Frags : ~Live(f)
    PROVE  IInv'
<1>1. TypeOK'
  BY DEF IInv, TypeOK, config, channel, records, file
<1>2. TasksInv'
  BY DEF IInv, TasksInv, Live, config, records
<1>3. RecordsInv'
  BY DEF IInv, RecordsInv, MayRetry, records
<1>4. FileInv'
  BY DEF IInv, FileInv, Plan, config, records, file
<1>5. EventsAreWritten'
  BY DEF IInv, EventsAreWritten, file
<1>6. DownloadedIsComplete'
  BY DEF IInv, DownloadedIsComplete, Plan, config, records, file
<1> QED
  BY <1>1, <1>2, <1>3, <1>4, <1>5, <1>6 DEF IInv

\* A step of the control channel or of the breaker's clock touches nothing
\* the invariant speaks of.
LEMMA OutsideStep ==
    ASSUME IInv,
           \/ \E s \in {"downloading", "paused", "cancelled"} : Signal(s)
           \/ Close \/ BreakerHalfOpens \/ UNCHANGED vars
    PROVE  IInv'
<1>1. UNCHANGED <<config, phase, error, records, file>>
  BY DEF Signal, Close, BreakerHalfOpens, vars
<1>2. breaker' \in Breaker
  BY BreakerType DEF IInv, TypeOK, Signal, Close, BreakerHalfOpens, vars
<1>3. signal' \in {"downloading", "paused", "cancelled"} /\ closed' \in BOOLEAN
  BY DEF IInv, TypeOK, Signal, Close, BreakerHalfOpens, vars, channel
<1>4. TypeOK'
  BY <1>1, <1>2, <1>3 DEF IInv, TypeOK, config, records, file
<1>5. TasksInv'
  BY <1>1 DEF IInv, TasksInv, Live, config, records
<1>6. RecordsInv'
  BY <1>1 DEF IInv, RecordsInv, MayRetry, records
<1>7. FileInv'
  BY <1>1 DEF IInv, FileInv, Plan, config, records, file
<1>8. EventsAreWritten' /\ DownloadedIsComplete'
  BY <1>1 DEF IInv, EventsAreWritten, DownloadedIsComplete, Plan, config, records, file
<1> QED
  BY <1>4, <1>5, <1>6, <1>7, <1>8 DEF IInv

-----------------------------------------------------------------------------
(* run_inner outside execute, and the full download.                        *)

\* The phases around the download keep the invariant.
LEMMA PhasesStep ==
    ASSUME IInv, Phases
    PROVE  IInv'
<1> DEFINE Moves(from, to) ==
      /\ phase = from /\ phase' = to
      /\ error' \in {"none", "cancelled", "checksum", "other"}
      /\ UNCHANGED <<config, channel, records, file, breaker>>
<1>1. error \in {"none", "cancelled", "checksum", "other"}
  BY DEF IInv, TypeOK
<1>2. CASE \/ Moves("probe", "init") \/ Moves("init", "plan") \/ Moves("verify", "ok")
           \/ \E from \in Before \cup {"verify"} : Moves(from, "err")
  <2>1. phase \in Before \cup {"verify"} => \A f \in Frags : ~Live(f)
    BY DEF IInv, TasksInv
  <2> QED
    BY <1>2, <2>1, PhaseStep
<1>3. CASE PlanFragments
  <2>1. /\ phase = "plan" /\ phase' = "prepare" /\ UNCHANGED error
        /\ fstate' = [f \in Frags |-> IF f \in written THEN "done" ELSE "pending"]
        /\ UNCHANGED <<config, channel, task, attempt, got, file, breaker>>
    BY <1>3 DEF PlanFragments, Enter
  <2>2. TypeOK'
    BY <2>1 DEF IInv, TypeOK, config, channel, file
  <2>3. TasksInv'
    BY <2>1 DEF IInv, TasksInv, Live, config
  <2>4. RecordsInv'
    BY <2>1 DEF IInv, RecordsInv, MayRetry
  <2>5. FileInv'
    BY <2>1 DEF IInv, FileInv, Plan, config, file
  <2>6. EventsAreWritten' /\ DownloadedIsComplete'
    BY <2>1 DEF IInv, EventsAreWritten, DownloadedIsComplete, file
  <2> QED
    BY <2>2, <2>3, <2>4, <2>5, <2>6 DEF IInv
<1>4. CASE FullDownloadChosen
  <2>1. Moves("prepare", "full") /\ ~ranged
    BY <1>1, <1>4 DEF FullDownloadChosen, PhaseSucceeds, Enter
  <2>2. TypeOK'
    BY <2>1 DEF IInv, TypeOK, config, channel, records, file
  <2>3. TasksInv'
    BY <2>1 DEF IInv, TasksInv, Live, config, records
  <2>4. RecordsInv'
    BY <2>1 DEF IInv, RecordsInv, MayRetry, records
  <2>5. FileInv'
    BY <2>1 DEF IInv, FileInv, Plan, config, records, file
  <2>6. EventsAreWritten' /\ DownloadedIsComplete'
    BY <2>1 DEF IInv, EventsAreWritten, DownloadedIsComplete, file
  <2> QED
    BY <2>2, <2>3, <2>4, <2>5, <2>6 DEF IInv
<1>5. CASE SpawnFragments
  <2>1. /\ ranged /\ phase = "prepare" /\ phase' = "join" /\ UNCHANGED error
        /\ UNCHANGED <<config, channel, attempt, got, file, breaker>>
        /\ fstate' = [f \in Frags |-> IF fstate[f] = "pending" THEN "downloading" ELSE fstate[f]]
        /\ task' = [f \in Frags |-> IF fstate[f] = "pending" THEN "gate" ELSE "none"]
    BY <1>5 DEF SpawnFragments, Enter
  <2>2. TypeOK'
    BY <2>1 DEF IInv, TypeOK, config, channel, file
  <2>3. TasksInv'
    BY <2>1 DEF TasksInv, config
  <2>4. RecordsInv'
    BY <2>1 DEF IInv, RecordsInv, MayRetry
  <2>5. FileInv'
    BY <2>1 DEF IInv, FileInv, Plan, config, file
  <2>6. EventsAreWritten' /\ DownloadedIsComplete'
    BY <2>1 DEF IInv, EventsAreWritten, DownloadedIsComplete, file
  <2> QED
    BY <2>2, <2>3, <2>4, <2>5, <2>6 DEF IInv
<1>6. \/ Moves("probe", "init") \/ Moves("init", "plan") \/ Moves("verify", "ok")
      \/ \E from \in Before \cup {"verify"} : Moves(from, "err")
      \/ PlanFragments \/ FullDownloadChosen \/ SpawnFragments
  BY <1>1 DEF Phases, PhaseSucceeds, PhaseFails, PhaseCancelled, InitStorage, CheckCancelled,
              VerifySkipped, VerifyFindsNoHash, Enter, Leave
<1> QED
  BY <1>2, <1>3, <1>4, <1>5, <1>6

\* The single stream of a source without ranges keeps the invariant.
LEMMA FullStep ==
    ASSUME IInv, FullDownload
    PROVE  IInv'
<1> DEFINE Moves(from, to) ==
      /\ phase = from /\ phase' = to
      /\ error' \in {"none", "cancelled", "checksum", "other"}
      /\ UNCHANGED <<config, channel, records, file, breaker>>
<1>1. error \in {"none", "cancelled", "checksum", "other"}
  BY DEF IInv, TypeOK
<1>2. CASE \E from \in Full, to \in Full \cup {"err"} : Moves(from, to)
  <2>1. phase \in Full => \A f \in Frags : ~Live(f)
    BY DEF IInv, TasksInv
  <2> QED
    BY <1>2, <2>1, PhaseStep
<1>3. CASE FullReceives
  <2>1. /\ phase = "fullstream" /\ got[Whole] < Chunks
        /\ got' = [got EXCEPT ![Whole] = @ + 1]
        /\ UNCHANGED <<config, phase, error, channel, fstate, task, attempt, file, breaker>>
    BY <1>3 DEF FullReceives
  <2>2. got' \in [Frags -> 0..Chunks]
    BY <2>1, WholeIsFragment, DownloadAssumption DEF IInv, TypeOK
  <2>3. TypeOK'
    BY <2>1, <2>2 DEF IInv, TypeOK, config, channel, file
  <2>4. TasksInv' /\ RecordsInv'
    BY <2>1 DEF IInv, TasksInv, RecordsInv, MayRetry, Live, config
  <2>5. FileInv' /\ EventsAreWritten' /\ DownloadedIsComplete'
    BY <2>1 DEF IInv, FileInv, EventsAreWritten, DownloadedIsComplete, Plan, config, file
  <2> QED
    BY <2>3, <2>4, <2>5 DEF IInv
<1>4. CASE FullFinishes
  <2>1. /\ phase = "fullstream" /\ phase' \in {"verify", "err"}
        /\ error' \in {"none", "cancelled", "checksum", "other"}
        /\ written' = written \cup {Whole}
        /\ \/ phase' = "verify" /\ fstate' = [fstate EXCEPT ![Whole] = "done"]
           \/ phase' = "err" /\ UNCHANGED fstate
        /\ UNCHANGED <<config, channel, task, attempt, got, events, detached, breaker>>
    BY <1>1, <1>4 DEF FullFinishes, Enter, Leave
  <2>2. ~ranged /\ \A f \in Frags : task[f] = "none"
    BY <2>1 DEF IInv, TasksInv
  <2>3. TypeOK'
    BY <2>1, WholeIsFragment DEF IInv, TypeOK, config, channel
  <2>4. TasksInv'
    BY <2>1, <2>2 DEF TasksInv, Live, config
  <2>5. RecordsInv'
    BY <2>1 DEF IInv, RecordsInv, MayRetry
  <2>6. FileInv'
    BY <2>1, <2>2, WholeIsFragment DEF IInv, TypeOK, FileInv, Plan, config
  <2>7. EventsAreWritten'
    BY <2>1 DEF IInv, EventsAreWritten
  <2>8. DownloadedIsComplete'
    BY <2>1, <2>2, WholeIsFragment DEF IInv, TypeOK, DownloadedIsComplete, Plan, config
  <2> QED
    BY <2>3, <2>4, <2>5, <2>6, <2>7, <2>8 DEF IInv
<1>5. \/ \E from \in Full, to \in Full \cup {"err"} : Moves(from, to)
      \/ FullReceives \/ FullFinishes
  BY <1>1 DEF FullDownload, FullControl, FullGranted, FullConnects, FullFails, FullInterrupted,
              InterruptError, PhaseSucceeds, PhaseFails, Enter, Leave
<1> QED
  BY <1>2, <1>3, <1>4, <1>5

-----------------------------------------------------------------------------
(* The tasks of the fragments.                                              *)

\* A step of a task that runs keeps the invariant, when what it does to the
\* file goes with the state it reaches.
LEMMA TaskStep ==
    ASSUME IInv,
           NEW f \in Frags, NEW to \in TaskState \ {"none", "joined"},
           task[f] \in LiveState,
           task' = [task EXCEPT ![f] = to],
           UNCHANGED <<config, phase, error, channel, fstate>>,
           attempt' \in [Frags -> 0..MaxRetries],
           \A g \in Frags \ {f} : attempt'[g] = attempt[g],
           to = "sleep" => attempt'[f] < MaxRetries,
           got' \in [Frags -> 0..Chunks],
           breaker' \in Breaker,
           written' \in {written, written \cup {f}},
           to \in {"announce", "ok"} => f \in written',
           detached' \in {detached, detached \cup {f}},
           events' \in SUBSET written'
    PROVE  IInv'
<1>1. phase \in {"join", "aborting"} /\ ranged
  BY DEF IInv, TasksInv, Live
<1>2. TypeOK'
  <2>1. task' \in [Frags -> TaskState]
    BY DEF IInv, TypeOK
  <2>2. {written', events', detached'} \subseteq SUBSET Frags
    BY DEF IInv, TypeOK
  <2> QED
    BY <2>1, <2>2 DEF IInv, TypeOK, config, channel
<1>3. \A g \in Frags : task'[g] = IF g = f THEN to ELSE task[g]
  BY DEF IInv, TypeOK
<1>4. TasksInv'
  BY <1>1 DEF TasksInv, config
<1>5. RecordsInv'
  BY <1>1, <1>3 DEF IInv, RecordsInv, MayRetry
<1>6. FileInv'
  BY <1>1, <1>3 DEF IInv, FileInv, Plan, config
<1>7. EventsAreWritten' /\ DownloadedIsComplete'
  BY <1>1 DEF EventsAreWritten, DownloadedIsComplete
<1> QED
  BY <1>2, <1>4, <1>5, <1>6, <1>7 DEF IInv

\* A task that moves on by itself: the breaker, the permits, the control
\* signal, the pool and the connection.
LEMMA AdvanceStep ==
    ASSUME IInv, NEW f \in Frags,
           \/ GateOpens(f) \/ GateRefuses(f) \/ AcquirePermit(f) \/ PassControl(f)
           \/ PoolGranted(f) \/ Connects(f) \/ Wakes(f)
    PROVE  IInv'
<1>1. /\ attempt \in [Frags -> 0..MaxRetries] /\ got \in [Frags -> 0..Chunks]
      /\ MaxRetries \in Nat /\ Chunks \in Nat /\ breaker \in Breaker
      /\ events \in SUBSET written
  BY DownloadAssumption DEF IInv, TypeOK, EventsAreWritten
<1>2. AfterAllow(breaker) \in Breaker
  BY <1>1, BreakerType
<1>3. CASE GateOpens(f) \/ GateRefuses(f) \/ AcquirePermit(f) \/ PassControl(f) \/ PoolGranted(f)
  <2>1. PICK to \in TaskState \ {"none", "joined", "announce", "ok"} :
           /\ task[f] \in LiveState /\ task' = [task EXCEPT ![f] = to]
           /\ to = "sleep" => attempt[f] < MaxRetries
    BY <1>3 DEF GateOpens, GateRefuses, AcquirePermit, PassControl, PoolGranted, Goto,
                AfterFailure, MayRetry
  <2>2. /\ UNCHANGED <<config, phase, error, channel, fstate, attempt, got, file>>
        /\ breaker' \in Breaker
    BY <1>1, <1>2, <1>3 DEF GateOpens, GateRefuses, AcquirePermit, PassControl, PoolGranted
  <2> QED
    BY <1>1, <2>1, <2>2, TaskStep DEF file
<1>4. CASE Connects(f)
  <2>1. /\ task[f] = "connect" /\ task' = [task EXCEPT ![f] = "stream"]
        /\ got' = [got EXCEPT ![f] = 0]
        /\ UNCHANGED <<config, phase, error, channel, fstate, attempt, file, breaker>>
    BY <1>4 DEF Connects, Goto
  <2>2. got' \in [Frags -> 0..Chunks]
    BY <1>1, <2>1
  <2> QED
    BY <1>1, <2>1, <2>2, TaskStep DEF file
<1>5. CASE Wakes(f)
  <2>1. /\ task[f] = "sleep" /\ task' = [task EXCEPT ![f] = "gate"]
        /\ attempt' = [attempt EXCEPT ![f] = @ + 1]
        /\ UNCHANGED <<config, phase, error, channel, fstate, got, file, breaker>>
    BY <1>5 DEF Wakes, Goto
  <2>2. attempt[f] < MaxRetries
    BY <2>1 DEF IInv, RecordsInv, MayRetry
  <2>3. attempt' \in [Frags -> 0..MaxRetries] /\ \A g \in Frags \ {f} : attempt'[g] = attempt[g]
    BY <1>1, <2>1, <2>2
  <2> QED
    BY <1>1, <2>1, <2>3, TaskStep DEF file
<1> QED
  BY <1>3, <1>4, <1>5

\* An attempt that ends early, and the retry it may come to.
LEMMA AttemptStep ==
    ASSUME IInv, NEW f \in Frags,
           AttemptFails(f) \/ PauseTimesOut(f) \/ AttemptInterrupted(f)
    PROVE  IInv'
<1>1. /\ attempt \in [Frags -> 0..MaxRetries] /\ got \in [Frags -> 0..Chunks]
      /\ RecordFailure(breaker) \in Breaker /\ events \in SUBSET written
  BY BreakerType DEF IInv, TypeOK, EventsAreWritten
<1>2. PICK from \in {"control", "connect", "stream"}, to \in {"sleep", "failed", "cancelled"} :
         /\ AttemptEnds(f, from, to)
         /\ to = "sleep" => attempt[f] < MaxRetries
  BY DEF AttemptFails, PauseTimesOut, AttemptInterrupted, AfterFailure, MayRetry, Stopped
<1>3. /\ task[f] \in LiveState /\ task' = [task EXCEPT ![f] = to]
      /\ breaker' = RecordFailure(breaker)
      /\ UNCHANGED <<config, phase, error, channel, fstate, attempt, got, written, events>>
  BY <1>2 DEF AttemptEnds, Goto
<1>4. detached' \in {detached, detached \cup {f}}
  BY DEF AttemptFails, PauseTimesOut, AttemptInterrupted, LeavesWrite
<1> QED
  BY <1>1, <1>2, <1>3, <1>4, TaskStep

\* The stream of an attempt, its last batch and the completed event.
LEMMA StreamStep ==
    ASSUME IInv, NEW f \in Frags, ReceivesChunk(f) \/ Flushes(f) \/ Announces(f)
    PROVE  IInv'
<1>1. /\ attempt \in [Frags -> 0..MaxRetries] /\ got \in [Frags -> 0..Chunks]
      /\ task \in [Frags -> TaskState] /\ Chunks \in Nat
      /\ breaker \in Breaker /\ RecordSuccess(breaker) \in Breaker
      /\ events \in SUBSET written
  BY BreakerType, DownloadAssumption DEF IInv, TypeOK, EventsAreWritten
<1>2. CASE ReceivesChunk(f)
  <2>1. /\ task[f] = "stream" /\ got[f] < Chunks /\ got' = [got EXCEPT ![f] = @ + 1]
        /\ UNCHANGED <<config, phase, error, channel, fstate, task, attempt, file, breaker>>
    BY <1>2 DEF ReceivesChunk
  <2>2. task' = [task EXCEPT ![f] = "stream"]
    BY <1>1, <2>1
  <2>3. got' \in [Frags -> 0..Chunks]
    BY <1>1, <2>1
  <2> QED
    BY <1>1, <2>1, <2>2, <2>3, TaskStep DEF file
<1>3. CASE Flushes(f)
  BY <1>1, <1>3, TaskStep DEF Flushes, Goto
<1>4. CASE Announces(f)
  <2>1. /\ task[f] = "announce" /\ task' = [task EXCEPT ![f] = "ok"]
        /\ events' = events \cup {f} /\ breaker' = RecordSuccess(breaker)
        /\ UNCHANGED <<config, phase, error, channel, fstate, attempt, got, written, detached>>
    BY <1>4 DEF Announces, Goto
  <2>2. f \in written
    BY <2>1 DEF IInv, FileInv
  <2> QED
    BY <1>1, <2>1, <2>2, TaskStep
<1> QED
  BY <1>2, <1>3, <1>4

\* A blocking thread that ends after its task adds its fragment at most.
LEMMA DetachedStep ==
    ASSUME IInv, NEW f \in Frags, DetachedWriteEnds(f)
    PROVE  IInv'
<1>1. /\ f \in detached /\ detached' = detached \ {f}
      /\ written \subseteq written' /\ written' \subseteq written \cup {f}
      /\ UNCHANGED <<config, phase, error, channel, records, events, breaker>>
  BY DEF DetachedWriteEnds
<1>2. TypeOK'
  BY <1>1 DEF IInv, TypeOK, config, channel, records
<1>3. TasksInv' /\ RecordsInv'
  BY <1>1 DEF IInv, TasksInv, RecordsInv, MayRetry, Live, config, records
<1>4. FileInv'
  BY <1>1 DEF IInv, FileInv, Plan, config, records
<1>5. EventsAreWritten' /\ DownloadedIsComplete'
  BY <1>1 DEF IInv, EventsAreWritten, DownloadedIsComplete, Plan, config, records
<1> QED
  BY <1>2, <1>3, <1>4, <1>5 DEF IInv

-----------------------------------------------------------------------------
(* The join loop.                                                           *)

\* Joining, aborting and syncing keep the invariant: a task is joined as ok
\* only after its bytes are written, and none runs when the loop ends.
LEMMA JoinStep ==
    ASSUME IInv, JoinLoop
    PROVE  IInv'
<1>1. /\ task \in [Frags -> TaskState]
      /\ fstate \in [Frags -> {"pending", "downloading", "done", "failed"}]
      /\ error \in {"none", "cancelled", "checksum", "other"}
  BY DEF IInv, TypeOK
<1>2. ASSUME NEW f \in Frags, JoinOk(f) PROVE IInv'
  <2>1. /\ phase = "join" /\ task[f] = "ok" /\ task' = [task EXCEPT ![f] = "joined"]
        /\ fstate' = [fstate EXCEPT ![f] = "done"]
        /\ UNCHANGED <<config, phase, error, channel, attempt, got, file, breaker>>
    BY <1>2 DEF JoinOk, Goto
  <2>2. f \in written
    BY <2>1 DEF IInv, FileInv
  <2>3. \A g \in Frags : /\ task'[g] = IF g = f THEN "joined" ELSE task[g]
                         /\ fstate'[g] = IF g = f THEN "done" ELSE fstate[g]
    BY <1>1, <2>1
  <2>4. TypeOK'
    BY <2>1 DEF IInv, TypeOK, config, channel, file
  <2>5. TasksInv'
    BY <2>1 DEF IInv, TasksInv, config
  <2>6. RecordsInv'
    BY <2>1, <2>3 DEF IInv, RecordsInv, MayRetry
  <2>7. FileInv'
    BY <2>1, <2>2, <2>3 DEF IInv, FileInv, Plan, config, file
  <2>8. EventsAreWritten' /\ DownloadedIsComplete'
    BY <2>1 DEF IInv, EventsAreWritten, DownloadedIsComplete, file
  <2> QED
    BY <2>4, <2>5, <2>6, <2>7, <2>8 DEF IInv
<1>3. ASSUME NEW f \in Frags, JoinErr(f) PROVE IInv'
  <2>1. /\ phase = "join" /\ phase' = "aborting" /\ task[f] \in {"cancelled", "failed"}
        /\ fstate' = [fstate EXCEPT ![f] = "failed"]
        /\ UNCHANGED <<config, error, channel, task, attempt, got, file, breaker>>
    BY <1>3 DEF JoinErr, Enter
  <2>2. \A g \in Frags : fstate'[g] = IF g = f THEN "failed" ELSE fstate[g]
    BY <1>1, <2>1
  <2>3. TypeOK'
    BY <2>1 DEF IInv, TypeOK, config, channel, file
  <2>4. TasksInv'
    BY <2>1 DEF IInv, TasksInv, config
  <2>5. RecordsInv'
    BY <2>1, <2>2 DEF IInv, RecordsInv, MayRetry
  <2>6. FileInv'
    BY <2>1, <2>2 DEF IInv, FileInv, Plan, config, file
  <2>7. EventsAreWritten' /\ DownloadedIsComplete'
    BY <2>1 DEF IInv, EventsAreWritten, DownloadedIsComplete, file
  <2> QED
    BY <2>3, <2>4, <2>5, <2>6, <2>7 DEF IInv
<1>4. ASSUME NEW f \in Frags, Aborted(f) PROVE IInv'
  BY <1>4, TaskStep DEF Aborted, LeavesWrite, Live, IInv, TypeOK, EventsAreWritten
<1>5. CASE AbortEnds
  <2>1. /\ phase = "aborting" /\ phase' = "err" /\ error' \in {"cancelled", "other"}
        /\ \A f \in Frags : ~Live(f)
        /\ UNCHANGED <<config, channel, records, file, breaker>>
    BY <1>5 DEF AbortEnds, AbortFinished, Leave
  <2> QED
    BY <2>1, PhaseStep
<1>6. CASE FragmentsJoined
  <2>1. /\ phase = "join" /\ phase' = "sync" /\ UNCHANGED error
        /\ \A f \in Frags : task[f] \in {"none", "joined"}
        /\ UNCHANGED <<config, channel, records, file, breaker>>
    BY <1>6 DEF FragmentsJoined, AllJoined, PhaseSucceeds, Enter
  <2>2. \A f \in Frags : fstate[f] = "done" /\ f \in written
    BY <2>1 DEF IInv, RecordsInv, FileInv
  <2>3. TypeOK'
    BY <2>1 DEF IInv, TypeOK, config, channel, records, file
  <2>4. TasksInv'
    BY <2>1 DEF TasksInv, Live, config, records
  <2>5. RecordsInv'
    BY <2>1 DEF IInv, RecordsInv, MayRetry, records
  <2>6. FileInv' /\ EventsAreWritten'
    BY <2>1 DEF IInv, FileInv, EventsAreWritten, Plan, config, records, file
  <2>7. DownloadedIsComplete'
    BY <2>1, <2>2, WholeIsFragment DEF DownloadedIsComplete, Plan, config, records, file
  <2> QED
    BY <2>3, <2>4, <2>5, <2>6, <2>7 DEF IInv
<1>7. CASE Sync
  <2>1. /\ phase = "sync" /\ phase' \in {"verify", "err"}
        /\ error' \in {"none", "cancelled", "checksum", "other"}
        /\ \A f \in Frags : ~Live(f)
        /\ UNCHANGED <<config, channel, records, file, breaker>>
    BY <1>1, <1>7 DEF Sync, PhaseSucceeds, PhaseFails, Enter, Leave, IInv, TasksInv
  <2> QED
    BY <2>1, PhaseStep
<1> QED
  BY <1>2, <1>3, <1>4, <1>5, <1>6, <1>7 DEF JoinLoop

-----------------------------------------------------------------------------
(* The invariant, and what follows from it.                                 *)

LEMMA InvInit == Init => IInv
<1> SUFFICES ASSUME Init PROVE IInv
  OBVIOUS
<1>1. NewBreaker \in Breaker
  BY DEF NewBreaker, Breaker
<1>2. TypeOK
  <2>1. ranged \in BOOLEAN
    BY Zenon DEF Init
  <2>2. written \in SUBSET Frags /\ events \in SUBSET Frags
    BY WholeIsFragment DEF Init, Plan
  <2>3. attempt \in [Frags -> 0..MaxRetries] /\ got \in [Frags -> 0..Chunks]
    BY DownloadAssumption DEF Init
  <2> QED
    BY <1>1, <2>1, <2>2, <2>3 DEF Init, TypeOK
<1>3. TasksInv /\ RecordsInv /\ FileInv
  BY DEF Init, TasksInv, RecordsInv, FileInv, Live
<1>4. EventsAreWritten /\ DownloadedIsComplete
  BY DEF Init, EventsAreWritten, DownloadedIsComplete
<1> QED
  BY <1>2, <1>3, <1>4 DEF IInv

LEMMA InvStep == IInv /\ [Next]_vars => IInv'
<1> SUFFICES ASSUME IInv, [Next]_vars PROVE IInv'
  OBVIOUS
<1>1. ASSUME NEW f \in Frags, FragmentTask(f) PROVE IInv'
  BY <1>1, AdvanceStep, StreamStep, AttemptStep DEF FragmentTask
<1> QED
  BY <1>1, OutsideStep, PhasesStep, FullStep, JoinStep, DetachedStep DEF Next

\* Every variable of a download keeps its type; an attempt counter never
\* passes max_retries.
THEOREM DownloadTypeCorrect == Spec => []TypeOK
BY InvInit, InvStep, PTL DEF Spec, IInv

\* A run that has passed the download has every fragment of the plan in the
\* file and recorded Done, whatever was retried, refused, paused or resumed.
THEOREM DownloadsAreComplete == Spec => []DownloadedIsComplete
BY InvInit, InvStep, PTL DEF Spec, IInv

\* The completed events, from which the chunk reader makes checkpoints, are
\* of fragments whose last batch has been written.
THEOREM EventsAreTrue == Spec => []EventsAreWritten
BY InvInit, InvStep, PTL DEF Spec, IInv

\* run() returns only after every fragment task was joined or aborted.
THEOREM TasksEndWithRun == Spec => []NoTaskOutlivesRun
<1>1. IInv => NoTaskOutlivesRun
  BY DEF IInv, TasksInv, NoTaskOutlivesRun, Ended
<1> QED
  BY <1>1, InvInit, InvStep, PTL DEF Spec

-----------------------------------------------------------------------------
(* The run as its caller sees it.                                           *)

Complete == IF ranged THEN written ELSE IF Whole \in written THEN Frags ELSE {}
Result == IF Ended THEN phase ELSE "running"

\* A step that writes at most more fragments and does not end the run is a
\* write of the abstract run.
LEMMA RunWrites ==
    ASSUME IInv, ranged' = ranged, ~Ended, ~Ended', written' \in SUBSET Frags,
           written \subseteq written', detached' = detached
    PROVE  Run!Next
<1>1. Result = "running" /\ Result' = "running"
  BY DEF Result
<1>2. Complete' = Complete \cup Complete' /\ Complete' \in SUBSET Frags
  BY DEF Complete, IInv, TypeOK
<1>3. Run!Write(Complete')
  BY <1>1, <1>2 DEF Run!Write, Complete, Result
<1> QED
  BY <1>2, <1>3 DEF Run!Next, Complete

\* A step that changes neither the file, nor who writes to it, nor whether the
\* run has ended.
LEMMA RunStutters ==
    ASSUME UNCHANGED <<ranged, written, detached, phase>>
    PROVE  UNCHANGED <<Complete, detached, Result>>
BY DEF Complete, Result, Ended

\* A task that leaves its write to a blocking thread before the run has ended.
LEMMA RunLeaves ==
    ASSUME NEW f \in Frags, ~Ended, UNCHANGED <<ranged, written, phase>>,
           detached' \in {detached, detached \cup {f}}
    PROVE  [Run!Next]_<<Complete, detached, Result>>
<1>1. CASE detached' = detached
  BY <1>1, RunStutters
<1>2. CASE detached' = detached \cup {f}
  <2>1. Result = "running" /\ UNCHANGED <<Complete, Result>>
    BY DEF Complete, Result, Ended
  <2>2. Run!Leave(f)
    BY <1>2, <2>1 DEF Run!Leave, Complete, Result
  <2> QED
    BY <2>2 DEF Run!Next
<1> QED
  BY <1>1, <1>2

\* The end of such a write, which may come after the answer.
LEMMA RunLands ==
    ASSUME IInv, NEW f \in Frags, DetachedWriteEnds(f)
    PROVE  Run!Next
<1>1. /\ f \in detached /\ detached' = detached \ {f}
      /\ written' \in {written, written \cup {f}} /\ UNCHANGED <<ranged, phase>>
  BY DEF DetachedWriteEnds, config
<1>2. ranged
  BY <1>1 DEF IInv, FileInv
<1>3. Complete' \in {Complete, Complete \cup {f}} /\ UNCHANGED Result
  BY <1>1, <1>2 DEF Complete, Result, Ended
<1>4. Run!Land(f)
  BY <1>1, <1>3 DEF Run!Land, Complete, Result
<1> QED
  BY <1>4 DEF Run!Next

LEMMA RunStep == IInv /\ [Next]_vars => [Run!Next]_<<Complete, detached, Result>>
<1> SUFFICES ASSUME IInv, [Next]_vars PROVE [Run!Next]_<<Complete, detached, Result>>
  OBVIOUS
<1>1. CASE UNCHANGED <<ranged, written, detached, phase>>
  BY <1>1, RunStutters
<1>2. CASE ranged' = ranged /\ ~Ended /\ ~Ended' /\ written \subseteq written'
           /\ detached' = detached
  <2>1. written' \in SUBSET Frags
    BY InvStep DEF IInv, TypeOK
  <2> QED
    BY <1>2, <2>1, RunWrites
<1>3. CASE ~Ended /\ phase' = "err" /\ UNCHANGED <<ranged, written, detached>>
  <2>1. Complete' = Complete /\ Result = "running" /\ Result' = "err"
    BY <1>3 DEF Complete, Result, Ended
  <2> QED
    BY <1>3, <2>1 DEF Run!Next, Run!Fail, Complete, Result
<1>4. CASE phase = "verify" /\ phase' = "ok" /\ UNCHANGED <<ranged, written, detached>>
  <2>1. Complete = Frags
    BY <1>4 DEF IInv, TypeOK, DownloadedIsComplete, Complete, Plan
  <2>2. Complete' = Complete /\ Result = "running" /\ Result' = "ok"
    BY <1>4 DEF Complete, Result, Ended
  <2> QED
    BY <1>4, <2>1, <2>2 DEF Run!Next, Run!Succeed, Complete, Result
<1>5. CASE \/ \E s \in {"downloading", "paused", "cancelled"} : Signal(s)
           \/ Close \/ BreakerHalfOpens \/ UNCHANGED vars
  BY <1>1, <1>5 DEF Signal, Close, BreakerHalfOpens, vars, config, file
<1>6. CASE Phases
  BY <1>2, <1>3, <1>4, <1>6
     DEF Phases, PhaseSucceeds, PhaseFails, PhaseCancelled, InitStorage, CheckCancelled,
         PlanFragments, FullDownloadChosen, SpawnFragments, VerifySkipped, VerifyFindsNoHash,
         Enter, Leave, Ended, config, file
<1>7. CASE FullDownload
  <2>1. CASE FullFinishes
    <3>1. phase = "fullstream" /\ ranged' = ranged /\ written' = written \cup {Whole} /\ detached' = detached
      BY <2>1 DEF FullFinishes, Enter, Leave, config
    <3>2. fstate[Whole] = "pending" \/ Whole \in written
      BY <3>1, WholeIsFragment DEF IInv, RecordsInv, FileInv
    <3>3. CASE fstate[Whole] = "pending"
      BY <1>2, <2>1, <3>1, <3>3 DEF FullFinishes, Enter, Ended
    <3>4. CASE Whole \in written
      <4>1. written' = written
        BY <3>1, <3>4
      <4>2. phase' \in {"verify", "err"}
        BY <2>1 DEF FullFinishes, Enter, Leave
      <4> QED
        BY <1>2, <1>3, <3>1, <4>1, <4>2 DEF Ended
    <3> QED
      BY <3>2, <3>3, <3>4
  <2>2. CASE FullReceives
    BY <1>1, <2>2 DEF FullReceives, config, file
  <2> QED
    BY <1>2, <1>3, <1>7, <2>1, <2>2
       DEF FullDownload, FullControl, FullGranted, FullConnects, FullFails, FullInterrupted,
           PhaseSucceeds, PhaseFails, Enter, Leave, Ended, config, file
<1>8. ASSUME NEW f \in Frags, FragmentTask(f) PROVE [Run!Next]_<<Complete, detached, Result>>
  <2>1. Live(f) /\ UNCHANGED <<phase, ranged>>
    BY <1>8 DEF FragmentTask, GateOpens, GateRefuses, AcquirePermit, PassControl, PoolGranted,
                Connects, ReceivesChunk, Flushes, Announces, AttemptFails, PauseTimesOut,
                AttemptInterrupted, AttemptEnds, Wakes, Goto, Live, config
  <2>2. phase \in {"join", "aborting"}
    BY <2>1 DEF IInv, TasksInv
  <2>3. CASE written \subseteq written' /\ detached' = detached
    BY <1>2, <2>1, <2>2, <2>3 DEF Ended
  <2>4. CASE written' = written /\ detached' \in {detached, detached \cup {f}}
    BY <2>1, <2>2, <2>4, RunLeaves DEF Ended
  <2>5. \/ written \subseteq written' /\ detached' = detached
        \/ written' = written /\ detached' \in {detached, detached \cup {f}}
    BY <1>8 DEF FragmentTask, GateOpens, GateRefuses, AcquirePermit, PassControl, PoolGranted,
                Connects, ReceivesChunk, Flushes, Announces, AttemptFails, PauseTimesOut,
                AttemptInterrupted, AttemptEnds, LeavesWrite, Wakes, file
  <2> QED
    BY <2>3, <2>4, <2>5
<1>9. CASE JoinLoop
  <2>1. ASSUME NEW f \in Frags, Aborted(f) PROVE [Run!Next]_<<Complete, detached, Result>>
    BY <2>1, RunLeaves DEF Aborted, LeavesWrite, Ended, config
  <2>2. CASE \/ \E f \in Frags : JoinOk(f) \/ JoinErr(f)
             \/ AbortEnds \/ FragmentsJoined \/ Sync
    <3>1. UNCHANGED <<ranged, written, detached>>
      BY <2>2 DEF JoinOk, JoinErr, AbortEnds, FragmentsJoined, Sync, PhaseSucceeds, PhaseFails,
                  config, file
    <3>2. \/ phase' = phase
          \/ phase \in {"join", "aborting", "sync"} /\ phase' \in {"aborting", "sync", "verify", "err"}
      BY <2>2 DEF JoinOk, JoinErr, AbortEnds, FragmentsJoined, Sync, PhaseSucceeds, PhaseFails,
                  Enter, Leave
    <3> QED
      BY <1>1, <1>2, <1>3, <3>1, <3>2 DEF Ended
  <2> QED
    BY <1>9, <2>1, <2>2 DEF JoinLoop
<1>10. ASSUME NEW f \in Frags, DetachedWriteEnds(f) PROVE [Run!Next]_<<Complete, detached, Result>>
  BY <1>10, RunLands
<1> QED
  BY <1>5, <1>6, <1>7, <1>8, <1>9, <1>10 DEF Next

LEMMA RunInit == Init => Run!Init
<1> SUFFICES ASSUME Init PROVE Run!Init
  OBVIOUS
<1>1. ranged \in BOOLEAN
  BY Zenon DEF Init
<1>2. Complete \in SUBSET Frags /\ Result = "running"
  BY <1>1, WholeIsFragment DEF Init, Complete, Result, Ended, Plan
<1> QED
  BY <1>2 DEF Init, Run!Init, Complete, Result

\* run_inner implements the run its caller knows: the file only grows, Ok means
\* all of it, and a run that has answered begins no write.  Only a write that
\* was with its blocking thread when the task was interrupted, timed out or
\* aborted (abort_all) may still end, so that Err does not mean a quiet file.
THEOREM RunIsImplemented == Spec => ImplementsRun
BY InvInit, InvStep, RunInit, RunStep, PTL
   DEF Spec, ImplementsRun, Run!Spec, Complete, Result
=============================================================================
