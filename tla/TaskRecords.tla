---------------------------- MODULE TaskRecords ----------------------------
(***************************************************************************)
(* The file of a task under the two interfaces of RecoveryManager: the     *)
(* TaskSnapshot of today, and the TaskRecord of old versions, which has    *)
(* fewer fields and names the status in a string of its own.  A file may   *)
(* have been written by either; update_fragment_progress goes through the  *)
(* old one.  How calls interleave is module SnapshotStore.                 *)
(***************************************************************************)
EXTENDS Naturals, FiniteSets

CONSTANTS
    RecordFrags   \* indices of fragments

VARIABLES
    file,         \* the JSON of task_<id>, or Missing
    saved,        \* ghost: the status of the last save, and the fragments reported since
    loaded        \* the answers of both interfaces to the last call

recordVars == <<file, saved, loaded>>

DebugNames ==
    {"Pending", "Connecting", "Downloading", "Paused", "Resuming", "Verifying",
     "Completed", "Failed", "Cancelled"}
Lower ==
    [n \in DebugNames |->
        CASE n = "Pending" -> "pending" [] n = "Connecting" -> "connecting"
          [] n = "Downloading" -> "downloading" [] n = "Paused" -> "paused"
          [] n = "Resuming" -> "resuming" [] n = "Verifying" -> "verifying"
          [] n = "Completed" -> "completed" [] n = "Failed" -> "failed"
          [] n = "Cancelled" -> "cancelled"]

\* `rest' are the fields that only a snapshot has: etag, last_modified,
\* fragment_size, created_at, fail_reason and retry_count.
Snapshots == [form : {"snapshot"}, status : DebugNames, done : SUBSET RecordFrags, rest : {"kept", "blank"}]
Records == [form : {"record"}, status : {Lower[n] : n \in DebugNames} \cup {"queued"}, done : SUBSET RecordFrags]
Missing == [form |-> "none"]

TypeOK ==
    /\ file \in Snapshots \cup Records \cup {Missing}
    /\ loaded.snapshot \in Snapshots \cup {Missing} /\ loaded.record \in Records \cup {Missing}

-----------------------------------------------------------------------------
\* From<TaskSnapshot> for TaskRecord
ToRecord(s) == [form |-> "record", status |-> Lower[s.status], done |-> s.done]

\* parse_legacy_status(): a name it does not know is a failed task.
ParseLegacyStatus(name) ==
    IF \E n \in DebugNames : Lower[n] = name THEN CHOOSE n \in DebugNames : Lower[n] = name ELSE "Failed"

\* From<TaskRecord> for TaskSnapshot
ToSnapshot(r) ==
    [form |-> "snapshot", status |-> ParseLegacyStatus(r.status), done |-> r.done, rest |-> "blank"]

\* load_task_snapshot(): a file that is no snapshot is read as a record.
LoadSnapshot == IF file.form = "record" THEN ToSnapshot(file) ELSE file

\* load_task()
LoadRecord == IF file = Missing THEN Missing ELSE ToRecord(LoadSnapshot)

\* recover_pending_snapshots() and recover_pending_tasks().
PendingSnapshot(s) == s # Missing /\ s.status \in {"Downloading", "Paused"}
PendingRecord(r) == r # Missing /\ r.status \in {"downloading", "paused"}

-----------------------------------------------------------------------------
\* The file an earlier version left, of either form, or none.
Init ==
    /\ file \in {Missing} \cup {r \in Records : r.done = {}}
    /\ saved = [status |-> IF file = Missing THEN "none" ELSE ParseLegacyStatus(file.status), done |-> {}]
    /\ loaded = [snapshot |-> Missing, record |-> Missing]

\* save_task_snapshot(), with the row of the task.
SaveSnapshot(status) ==
    /\ file' = [form |-> "snapshot", status |-> status,
                done |-> IF file = Missing THEN {} ELSE file.done, rest |-> "kept"]
    /\ saved' = [status |-> status, done |-> file'.done]
    /\ UNCHANGED loaded

\* save_task(): the record becomes a snapshot before it is written.
SaveTask(record) ==
    /\ file' = ToSnapshot(record)
    /\ UNCHANGED loaded

\* update_fragment_progress()
UpdateFragmentProgress(f) ==
    /\ file # Missing
    /\ SaveTask([LoadRecord EXCEPT !.done = @ \cup {f}])
    /\ saved' = [saved EXCEPT !.done = @ \cup {f}]

RemoveTask ==
    /\ file # Missing /\ file' = Missing
    /\ saved' = [status |-> "none", done |-> {}] /\ UNCHANGED loaded

Load ==
    /\ loaded' = [snapshot |-> LoadSnapshot, record |-> LoadRecord]
    /\ UNCHANGED <<file, saved>>

Next ==
    \/ \E status \in DebugNames : SaveSnapshot(status)
    \/ (\E f \in RecordFrags : UpdateFragmentProgress(f))
    \/ RemoveTask \/ Load

-----------------------------------------------------------------------------
\* Whatever form the file has and through whichever interface progress is
\* reported, the status that was saved and every fragment reported since are
\* read back, and both recoveries find the task or neither does.  What only a
\* snapshot has does not survive a report of progress.
RecordSurvives ==
    LET snapshot == LoadSnapshot  record == LoadRecord IN
    /\ (file = Missing) = (saved.status = "none")
    /\ file # Missing =>
        /\ snapshot.status = saved.status /\ snapshot.done = saved.done
        /\ record.done = saved.done
    /\ PendingSnapshot(snapshot) = PendingRecord(record)
=============================================================================
