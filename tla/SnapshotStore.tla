---------------------------- MODULE SnapshotStore ----------------------------
(***************************************************************************)
(* The store of task snapshots: FileStore, one file per key, written to a  *)
(* temporary file and renamed under a write lock, read without a lock; and *)
(* RecoveryManager over it, whose progress updates read, change and save.  *)
(* The process may crash between any two steps.                            *)
(***************************************************************************)
EXTENDS Naturals, FiniteSets

CONSTANTS
    Clients,      \* threads that call the store
    Keys,         \* task_<id>
    Parts,        \* fragments of a task
    MaxCalls,     \* bound: calls that are made
    MaxCrashes,   \* bound: crashes of the process
    Nobody

VARIABLES
    final,         \* the file of a key
    temp,          \* its temporary file
    writeLock,     \* holder of write_lock
    progressLock,  \* holder of progress_lock
    storePc,       \* where a client stands
    call,          \* what it does: [op, key, part, value]
    got,           \* what it has read
    answerOf,      \* what its last call returned
    acked,         \* fragments of a key whose update returned Ok since its last save or removal
    calls, crashes

storeVars == <<final, temp, writeLock, progressLock, storePc, call, got, answerOf, acked, calls, crashes>>

\* A file is absent, half written, or holds a snapshot.
Absent == [is |-> "absent", parts |-> {}]
Torn == [is |-> "torn", parts |-> {}]
Snapshot(parts) == [is |-> "snapshot", parts |-> parts]
Whole == [is : {"snapshot"}, parts : SUBSET Parts]

NoCall == [op |-> "none", key |-> Nobody, part |-> Nobody, value |-> Absent]

Init ==
    /\ final = [k \in Keys |-> Absent] /\ temp = [k \in Keys |-> Absent]
    /\ writeLock = Nobody /\ progressLock = Nobody
    /\ storePc = [c \in Clients |-> "idle"]
    /\ call = [c \in Clients |-> NoCall]
    /\ got = [c \in Clients |-> Absent]
    /\ answerOf = [c \in Clients |-> "none"]
    /\ acked = [k \in Keys |-> {}]
    /\ calls = 0 /\ crashes = 0

Step(c, from, to) == storePc[c] = from /\ storePc' = [storePc EXCEPT ![c] = to]

\* save_task_snapshot, load_task_snapshot, remove_task, update_fragment_progress.
Start(c) ==
    /\ calls < MaxCalls /\ calls' = calls + 1
    /\ \E op \in {"save", "load", "remove", "progress"}, k \in Keys, p \in Parts :
        /\ call' = [call EXCEPT ![c] = [op |-> op, key |-> k, part |-> p,
                                        value |-> IF op = "save" THEN Snapshot({}) ELSE Absent]]
        /\ Step(c, "idle", CASE op = "progress" -> "lock progress"
                             [] op = "load" -> "look"
                             [] OTHER -> "lock write")
    /\ answerOf' = [answerOf EXCEPT ![c] = "none"]
    /\ UNCHANGED <<final, temp, writeLock, progressLock, got, acked, crashes>>

\* Mutant of LockProgress: read-modify-write is not serialised.
LockProgressNot(c) ==
    /\ Step(c, "lock progress", "look")
    /\ UNCHANGED <<final, temp, writeLock, progressLock, call, got, answerOf, acked, calls, crashes>>

LockProgress(c) ==
    /\ Step(c, "lock progress", "look")
    /\ progressLock = Nobody /\ progressLock' = c
    /\ UNCHANGED <<final, temp, writeLock, call, got, answerOf, acked, calls, crashes>>

\* The call returns; its guards are dropped.
Return(c, answer) ==
    /\ answerOf' = [answerOf EXCEPT ![c] = answer]
    /\ storePc' = [storePc EXCEPT ![c] = "idle"]
    /\ writeLock' = IF writeLock = c THEN Nobody ELSE writeLock
    /\ progressLock' = IF progressLock = c THEN Nobody ELSE progressLock

\* get(): path.exists() ...
Look(c) ==
    /\ storePc[c] = "look"
    /\ IF final[call[c].key] = Absent
       THEN got' = [got EXCEPT ![c] = Absent] /\ Return(c, "nothing")
       ELSE /\ Step(c, "look", "read") /\ got' = got
            /\ UNCHANGED <<writeLock, progressLock, answerOf>>
    /\ UNCHANGED <<final, temp, call, acked, calls, crashes>>

\* ... and then the read, of a file that may be gone by now.  An update adds
\* its fragment and goes on to save.
Read(c) ==
    /\ storePc[c] = "read"
    /\ LET file == final[call[c].key] IN
        /\ got' = [got EXCEPT ![c] = file]
        /\ IF file.is # "snapshot" THEN Return(c, "error") /\ call' = call
           ELSE IF call[c].op = "load" THEN Return(c, "ok") /\ call' = call
           ELSE /\ call' = [call EXCEPT ![c].value = Snapshot(file.parts \cup {call[c].part})]
                /\ Step(c, "read", "lock write")
                /\ UNCHANGED <<writeLock, progressLock, answerOf>>
    /\ UNCHANGED <<final, temp, acked, calls, crashes>>

LockWrite(c) ==
    /\ Step(c, "lock write", IF call[c].op = "remove" THEN "remove" ELSE "write")
    /\ writeLock = Nobody /\ writeLock' = c
    /\ UNCHANGED <<final, temp, progressLock, call, got, answerOf, acked, calls, crashes>>

\* Mutant of WriteTemp: the file of the key is written in place.
WriteInPlace(c) ==
    /\ \/ Step(c, "write", "writing") /\ final' = [final EXCEPT ![call[c].key] = Torn]
       \/ Step(c, "writing", "rename") /\ final' = [final EXCEPT ![call[c].key] = call[c].value]
    /\ temp' = [temp EXCEPT ![call[c].key] = call[c].value]
    /\ UNCHANGED <<writeLock, progressLock, call, got, answerOf, acked, calls, crashes>>

\* set(): fs::write truncates the temporary file and fills it.
WriteTemp(c) ==
    /\ \/ Step(c, "write", "writing") /\ temp' = [temp EXCEPT ![call[c].key] = Torn]
       \/ Step(c, "writing", "rename") /\ temp' = [temp EXCEPT ![call[c].key] = call[c].value]
    /\ UNCHANGED <<final, writeLock, progressLock, call, got, answerOf, acked, calls, crashes>>

\* A write that fails leaves the temporary file as it is.
WriteFails(c) ==
    /\ storePc[c] = "writing"
    /\ Return(c, "error")
    /\ UNCHANGED <<final, temp, call, got, acked, calls, crashes>>

\* The rename replaces the file, or fails and the temporary file is removed.
Rename(c) ==
    /\ storePc[c] = "rename"
    /\ LET k == call[c].key IN
        /\ temp' = [temp EXCEPT ![k] = Absent]
        /\ \/ /\ final' = [final EXCEPT ![k] = temp[k]]
              /\ acked' = [acked EXCEPT ![k] = IF call[c].op = "progress" THEN @ \cup {call[c].part} ELSE {}]
              /\ Return(c, "ok")
           \/ /\ Return(c, "error")
              /\ UNCHANGED <<final, acked>>
    /\ UNCHANGED <<call, got, calls, crashes>>

\* delete(): under the lock, so that exists and remove are one step.
Remove(c) ==
    /\ storePc[c] = "remove"
    /\ final' = [final EXCEPT ![call[c].key] = Absent]
    /\ acked' = [acked EXCEPT ![call[c].key] = {}]
    /\ Return(c, IF final[call[c].key] = Absent THEN "nothing" ELSE "ok")
    /\ UNCHANGED <<temp, call, got, calls, crashes>>

\* The process dies and starts anew with the files as they are.
Crash ==
    /\ crashes < MaxCrashes /\ crashes' = crashes + 1
    /\ writeLock' = Nobody /\ progressLock' = Nobody
    /\ storePc' = [c \in Clients |-> "idle"]
    /\ call' = [c \in Clients |-> NoCall]
    /\ got' = [c \in Clients |-> Absent]
    /\ answerOf' = [c \in Clients |-> "none"]
    /\ UNCHANGED <<final, temp, acked, calls>>

Work(c) ==
    \/ LockProgress(c) \/ Look(c) \/ Read(c) \/ LockWrite(c)
    \/ WriteTemp(c) \/ Rename(c) \/ Remove(c)

Next == Crash \/ \E c \in Clients : Start(c) \/ Work(c) \/ WriteFails(c)

Spec == Init /\ [][Next]_storeVars

-----------------------------------------------------------------------------
(* Properties.                                                              *)

TypeOK ==
    /\ final \in [Keys -> Whole \cup {Absent, Torn}]
    /\ temp \in [Keys -> Whole \cup {Absent, Torn}]
    /\ writeLock \in Clients \cup {Nobody} /\ progressLock \in Clients \cup {Nobody}
    /\ storePc \in [Clients -> {"idle", "lock progress", "look", "read", "lock write",
                                "write", "writing", "rename", "remove"}]
    /\ got \in [Clients -> Whole \cup {Absent, Torn}]
    /\ answerOf \in [Clients -> {"none", "ok", "error", "nothing"}]
    /\ acked \in [Keys -> SUBSET Parts]
    /\ calls \in 0..MaxCalls /\ crashes \in 0..MaxCrashes

\* Nobody reads half a snapshot, though reads take no lock and the process may
\* have crashed in the middle of a write.
ReadsWhole == \A c \in Clients : got[c] # Torn

\* A fragment whose update returned Ok, and that no save or removal of the
\* snapshot has dropped since, is in the snapshot of its task: updates of one
\* task do not lose each other, whatever saves and removals come between their
\* read and their write, and a crash loses none.
ProgressKept == \A k \in Keys : acked[k] \subseteq final[k].parts
=============================================================================
