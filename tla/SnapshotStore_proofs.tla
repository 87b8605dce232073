------------------------- MODULE SnapshotStore_proofs -------------------------
(***************************************************************************)
(* Proofs about SnapshotStore, for any clients, keys and fragments and any *)
(* number of calls and crashes.                                            *)
(***************************************************************************)
EXTENDS SnapshotStore, TLAPS

StoreConstants == Nobody \notin Clients /\ MaxCalls \in Nat /\ MaxCrashes \in Nat

Pcs == {"idle", "lock progress", "look", "read", "lock write", "write", "writing", "rename", "remove"}
Writing == {"write", "writing", "rename"}
Calls == [op : {"none", "save", "load", "remove", "progress"}, key : Keys \cup {Nobody},
          part : Parts \cup {Nobody}, value : Whole \cup {Absent}]

\* A call under way has the key it was made with, and is where its kind is.
CallOf(c) ==
    /\ storePc[c] # "idle" => call[c].key \in Keys /\ call[c].part \in Parts
    /\ storePc[c] = "lock progress" => call[c].op = "progress"
    /\ storePc[c] \in {"look", "read"} => call[c].op \in {"load", "progress"}
    /\ storePc[c] = "lock write" => call[c].op \in {"save", "remove", "progress"}
    /\ storePc[c] \in Writing => call[c].op \in {"save", "progress"}

Updating(c) == call[c].op = "progress" /\ storePc[c] \in {"lock write"} \cup Writing

\* The two locks: who writes holds the one, who updates progress the other.
LockOf(c) ==
    /\ storePc[c] \in Writing \cup {"remove"} => writeLock = c
    /\ call[c].op = "progress" /\ storePc[c] \in {"look", "read", "lock write"} \cup Writing
           => progressLock = c

\* A snapshot is complete before it gets the name of its key.
ValueOf(c) ==
    /\ storePc[c] \in {"lock write"} \cup Writing /\ call[c].op # "remove" => call[c].value \in Whole
    /\ storePc[c] = "rename" => temp[call[c].key] = call[c].value

\* What an update is about to write has all that was acknowledged, since
\* acknowledged fragments are added under its lock only.
UpdateOf(c) ==
    Updating(c) => acked[call[c].key] \cup {call[c].part} \subseteq call[c].value.parts

ClientInv ==
    /\ call \in [Clients -> Calls]
    /\ \A c \in Clients : CallOf(c) /\ LockOf(c) /\ ValueOf(c) /\ UpdateOf(c)

FilesInv == \A k \in Keys : final[k] # Torn

StoreInv ==
    /\ StoreConstants /\ TypeOK
    /\ ClientInv /\ FilesInv /\ ReadsWhole /\ ProgressKept

USE DEF Pcs, Writing, Calls

-----------------------------------------------------------------------------
(* Files and calls.                                                         *)

LEMMA Files ==
    /\ Absent # Torn /\ Absent.parts = {} /\ Torn \notin Whole /\ Absent \notin Whole
    /\ \A S \in SUBSET Parts : Snapshot(S) \in Whole /\ Snapshot(S).parts = S
    /\ \A f \in Whole : f.is = "snapshot" /\ f.parts \in SUBSET Parts
    /\ Absent.is # "snapshot" /\ Torn.is # "snapshot"
BY DEF Absent, Torn, Whole, Snapshot

LEMMA StoreInit == StoreConstants /\ Init => StoreInv
<1> SUFFICES ASSUME StoreConstants, Init PROVE StoreInv
  OBVIOUS
<1>1. NoCall \in Calls /\ NoCall.op = "none"
  BY DEF NoCall
<1>2. TypeOK
  BY DEF StoreConstants, Init, TypeOK
<1>3. ClientInv
  BY <1>1 DEF Init, ClientInv, CallOf, LockOf, ValueOf, UpdateOf, Updating
<1>4. FilesInv /\ ReadsWhole /\ ProgressKept
  BY Files DEF Init, FilesInv, ReadsWhole, ProgressKept
<1> QED
  BY <1>2, <1>3, <1>4 DEF StoreInv

\* The step of one client c: the others' locks, their temporary files and
\* what their updates rest on are left alone.
Moves(c) ==
    /\ \A d \in Clients \ {c} : storePc'[d] = storePc[d] /\ call'[d] = call[d]
    /\ writeLock' = writeLock \/ writeLock \in {Nobody, c}
    /\ progressLock' = progressLock \/ progressLock \in {Nobody, c}
    /\ temp' = temp \/ writeLock = c
    /\ (\A k \in Keys : acked'[k] \subseteq acked[k]) \/ progressLock = c

\* What holds of the client itself holds of all of them.
LEMMA OthersKeep ==
    ASSUME StoreInv, NEW c \in Clients, Moves(c), call' \in [Clients -> Calls],
           CallOf(c)', LockOf(c)', ValueOf(c)', UpdateOf(c)'
    PROVE  ClientInv'
<1> SUFFICES ASSUME NEW d \in Clients, d # c
             PROVE  CallOf(d)' /\ LockOf(d)' /\ ValueOf(d)' /\ UpdateOf(d)'
  BY DEF ClientInv
<1>1. /\ CallOf(d) /\ LockOf(d) /\ ValueOf(d) /\ UpdateOf(d)
      /\ storePc'[d] = storePc[d] /\ call'[d] = call[d] /\ Nobody \notin Clients
  BY DEF StoreInv, StoreConstants, ClientInv, Moves
<1>2. CallOf(d)'
  BY <1>1 DEF CallOf
<1>3. LockOf(d)'
  BY <1>1 DEF LockOf, Moves
<1>4. ValueOf(d)'
  BY <1>1 DEF LockOf, ValueOf, Moves
<1>5. UpdateOf(d)'
  <2>1. CASE \A k \in Keys : acked'[k] \subseteq acked[k]
    BY <1>1, <2>1 DEF UpdateOf, Updating, CallOf
  <2>2. CASE progressLock = c
    BY <1>1, <2>2 DEF UpdateOf, Updating, LockOf
  <2> QED
    BY <2>1, <2>2 DEF Moves
<1> QED
  BY <1>2, <1>3, <1>4, <1>5

\* A call that returns leaves its locks to others.
LEMMA ReturnKeeps ==
    ASSUME StoreInv, NEW c \in Clients, NEW answer \in {"ok", "error", "nothing"},
           Return(c, answer), UNCHANGED call
    PROVE  /\ CallOf(c)' /\ LockOf(c)' /\ ValueOf(c)' /\ UpdateOf(c)'
           /\ storePc' \in [Clients -> Pcs]
           /\ answerOf' \in [Clients -> {"none", "ok", "error", "nothing"}]
           /\ writeLock' \in Clients \cup {Nobody} /\ progressLock' \in Clients \cup {Nobody}
           /\ \A d \in Clients \ {c} : storePc'[d] = storePc[d] /\ call'[d] = call[d]
           /\ writeLock' = writeLock \/ writeLock = c
           /\ progressLock' = progressLock \/ progressLock = c
<1>1. storePc'[c] = "idle"
  BY DEF StoreInv, TypeOK, Return
<1> QED
  BY <1>1 DEF StoreInv, TypeOK, Return, CallOf, LockOf, ValueOf, UpdateOf, Updating

-----------------------------------------------------------------------------
(* The steps of a call.                                                     *)

\* A call begins.
LEMMA StartKeeps ==
    ASSUME StoreInv, NEW c \in Clients, Start(c)
    PROVE  StoreInv'
<1>1. PICK op \in {"save", "load", "remove", "progress"}, k \in Keys, p \in Parts, v \in Whole \cup {Absent} :
         /\ call' = [call EXCEPT ![c] = [op |-> op, key |-> k, part |-> p, value |-> v]]
         /\ op = "save" => v \in Whole
         /\ storePc[c] = "idle"
         /\ storePc' = [storePc EXCEPT ![c] =
                CASE op = "progress" -> "lock progress" [] op = "load" -> "look" [] OTHER -> "lock write"]
         /\ answerOf' = [answerOf EXCEPT ![c] = "none"]
         /\ calls < MaxCalls /\ calls' = calls + 1
         /\ UNCHANGED <<final, temp, writeLock, progressLock, got, acked, crashes>>
  BY Files DEF Start, Step
<1>2. storePc' \in [Clients -> Pcs] /\ call' \in [Clients -> Calls]
  BY <1>1 DEF StoreInv, TypeOK, ClientInv
<1>3. TypeOK'
  <2>1. calls' \in 0..MaxCalls
    <3>1. calls \in 0..MaxCalls /\ MaxCalls \in Nat
      BY DEF StoreInv, StoreConstants, TypeOK
    <3>2. calls < MaxCalls /\ calls' = calls + 1
      BY <1>1
    <3> QED
      BY <3>1, <3>2
  <2>2. answerOf' \in [Clients -> {"none", "ok", "error", "nothing"}]
    BY <1>1 DEF StoreInv, TypeOK
  <2> QED
    BY <1>1, <1>2, <2>1, <2>2 DEF StoreInv, TypeOK
<1>4. CallOf(c)' /\ LockOf(c)' /\ ValueOf(c)' /\ UpdateOf(c)' /\ Moves(c)
  BY <1>1 DEF StoreInv, TypeOK, ClientInv, CallOf, LockOf, ValueOf, UpdateOf, Updating, Moves
<1>5. ClientInv'
  BY <1>2, <1>4, OthersKeep
<1> QED
  BY <1>1, <1>3, <1>5 DEF StoreInv, StoreConstants, FilesInv, ReadsWhole, ProgressKept

\* The locks are taken.
LEMMA LocksKeep ==
    ASSUME StoreInv, NEW c \in Clients, LockProgress(c) \/ LockWrite(c)
    PROVE  StoreInv'
<1>1. UNCHANGED <<final, temp, call, got, answerOf, acked, calls, crashes>>
  BY DEF LockProgress, LockWrite
<1>2. TypeOK'
  BY <1>1 DEF StoreInv, TypeOK, LockProgress, LockWrite, Step
<1>3. CallOf(c)' /\ LockOf(c)' /\ ValueOf(c)' /\ UpdateOf(c)' /\ Moves(c)
  BY <1>1 DEF StoreInv, TypeOK, ClientInv, CallOf, LockOf, ValueOf, UpdateOf, Updating, Moves,
              LockProgress, LockWrite, Step
<1>4. ClientInv'
  BY <1>1, <1>3, OthersKeep DEF StoreInv, ClientInv
<1> QED
  BY <1>1, <1>2, <1>4 DEF StoreInv, StoreConstants, FilesInv, ReadsWhole, ProgressKept

\* The file is looked for.
LEMMA LookKeeps ==
    ASSUME StoreInv, NEW c \in Clients, Look(c)
    PROVE  StoreInv'
<1>1. UNCHANGED <<final, temp, call, acked, calls, crashes>>
  BY DEF Look
<1>2. CASE got' = [got EXCEPT ![c] = Absent] /\ Return(c, "nothing")
  <2>1. /\ got' \in [Clients -> Whole \cup {Absent, Torn}] /\ ReadsWhole'
    BY <1>2, Files DEF StoreInv, TypeOK, ReadsWhole
  <2>2. TypeOK'
    BY <1>1, <1>2, <2>1, ReturnKeeps DEF StoreInv, TypeOK
  <2>3. ClientInv'
    BY <1>1, <1>2, ReturnKeeps, OthersKeep DEF Moves, StoreInv, ClientInv
  <2> QED
    BY <1>1, <2>1, <2>2, <2>3 DEF StoreInv, StoreConstants, FilesInv, ProgressKept
<1>3. CASE Step(c, "look", "read") /\ UNCHANGED <<got, writeLock, progressLock, answerOf>>
  <2>1. TypeOK'
    BY <1>1, <1>3 DEF StoreInv, TypeOK, Step
  <2>2. CallOf(c)' /\ LockOf(c)' /\ ValueOf(c)' /\ UpdateOf(c)' /\ Moves(c)
    BY <1>1, <1>3 DEF StoreInv, TypeOK, ClientInv, CallOf, LockOf, ValueOf, UpdateOf, Updating,
                      Moves, Step
  <2>3. ClientInv'
    BY <1>1, <2>2, OthersKeep DEF StoreInv, ClientInv
  <2> QED
    BY <1>1, <1>3, <2>1, <2>3 DEF StoreInv, StoreConstants, FilesInv, ReadsWhole, ProgressKept
<1> QED
  BY <1>2, <1>3 DEF Look

\* The file is read; an update adds its fragment to what it finds.
LEMMA ReadKeeps ==
    ASSUME StoreInv, NEW c \in Clients, Read(c)
    PROVE  StoreInv'
<1> DEFINE file == final[call[c].key]
<1>1. /\ storePc[c] = "read" /\ call[c].key \in Keys /\ call[c].part \in Parts
      /\ call[c].op \in {"load", "progress"} /\ file \in Whole \cup {Absent} /\ file # Torn
      /\ got' = [got EXCEPT ![c] = file]
      /\ UNCHANGED <<final, temp, acked, calls, crashes>>
  BY DEF StoreInv, TypeOK, ClientInv, CallOf, FilesInv, Read
<1>2. got' \in [Clients -> Whole \cup {Absent, Torn}] /\ ReadsWhole'
  BY <1>1 DEF StoreInv, TypeOK, ReadsWhole
<1>3. ASSUME NEW answer \in {"ok", "error"}, Return(c, answer), call' = call PROVE StoreInv'
  <2>1. TypeOK'
    BY <1>1, <1>2, <1>3, ReturnKeeps DEF StoreInv, TypeOK
  <2>2. ClientInv'
    BY <1>1, <1>3, ReturnKeeps, OthersKeep DEF Moves, StoreInv, ClientInv
  <2> QED
    BY <1>1, <1>2, <2>1, <2>2 DEF StoreInv, StoreConstants, FilesInv, ProgressKept
<1>4. CASE /\ file.is = "snapshot" /\ call[c].op = "progress"
           /\ call' = [call EXCEPT ![c].value = Snapshot(file.parts \cup {call[c].part})]
           /\ Step(c, "read", "lock write")
           /\ UNCHANGED <<writeLock, progressLock, answerOf>>
  <2> DEFINE v == Snapshot(file.parts \cup {call[c].part})
  <2>1. v \in Whole /\ v.parts = file.parts \cup {call[c].part}
    BY <1>1, <1>4, Files
  <2>2. acked[call[c].key] \subseteq file.parts
    BY <1>1 DEF StoreInv, ProgressKept
  <2> HIDE DEF v
  <2>3. call' = [call EXCEPT ![c].value = v] /\ call \in [Clients -> Calls]
    BY <1>4 DEF v, StoreInv, ClientInv
  <2>4. /\ call' \in [Clients -> Calls] /\ call'[c].value = v /\ call'[c].op = call[c].op
        /\ call'[c].key = call[c].key /\ call'[c].part = call[c].part
        /\ \A d \in Clients \ {c} : call'[d] = call[d]
    BY <2>1, <2>3
  <2>5. TypeOK'
    BY <1>1, <1>2, <1>4 DEF StoreInv, TypeOK, Step
  <2>6. storePc'[c] = "lock write" /\ \A d \in Clients \ {c} : storePc'[d] = storePc[d]
    BY <1>4 DEF StoreInv, TypeOK, Step
  <2>7. progressLock = c
    BY <1>1, <1>4 DEF StoreInv, ClientInv, LockOf
  <2>8. CallOf(c)' /\ LockOf(c)' /\ ValueOf(c)' /\ Moves(c)
    BY <1>1, <1>4, <2>1, <2>4, <2>6, <2>7 DEF CallOf, LockOf, ValueOf, Moves
  <2>9. UpdateOf(c)'
    BY <1>1, <2>1, <2>2, <2>4, <2>6 DEF UpdateOf, Updating
  <2>10. ClientInv'
    BY <2>4, <2>8, <2>9, OthersKeep
  <2> QED
    BY <1>1, <1>2, <2>5, <2>10 DEF StoreInv, StoreConstants, FilesInv, ProgressKept
<1> QED
  BY <1>1, <1>3, <1>4 DEF Read

\* The temporary file is truncated and filled, or the write fails.
LEMMA WriteKeeps ==
    ASSUME StoreInv, NEW c \in Clients, WriteTemp(c) \/ WriteFails(c)
    PROVE  StoreInv'
<1>1. UNCHANGED <<final, call, got, acked, calls, crashes>>
  BY DEF WriteTemp, WriteFails
<1>2. CASE WriteFails(c)
  <2>1. Return(c, "error") /\ UNCHANGED temp
    BY <1>2 DEF WriteFails
  <2>2. TypeOK'
    BY <1>1, <2>1, ReturnKeeps DEF StoreInv, TypeOK
  <2>3. ClientInv'
    BY <1>1, <2>1, ReturnKeeps, OthersKeep DEF Moves, StoreInv, ClientInv
  <2> QED
    BY <1>1, <2>2, <2>3 DEF StoreInv, StoreConstants, FilesInv, ReadsWhole, ProgressKept
<1>3. CASE WriteTemp(c)
  <2>1. /\ storePc[c] \in Writing /\ writeLock = c /\ call[c].key \in Keys /\ call[c].value \in Whole
        /\ UNCHANGED <<writeLock, progressLock, answerOf>>
    BY <1>3 DEF WriteTemp, Step, StoreInv, ClientInv, CallOf, LockOf, ValueOf
  <2>2. /\ storePc' \in [Clients -> Pcs] /\ storePc'[c] \in {"writing", "rename"}
        /\ \A d \in Clients \ {c} : storePc'[d] = storePc[d]
        /\ temp' \in [Keys -> Whole \cup {Absent, Torn}]
        /\ storePc'[c] = "rename" => temp'[call[c].key] = call[c].value
    BY <1>3, <2>1 DEF WriteTemp, Step, StoreInv, TypeOK
  <2>3. TypeOK'
    BY <1>1, <2>1, <2>2 DEF StoreInv, TypeOK
  <2>4. CallOf(c)' /\ LockOf(c)' /\ ValueOf(c)' /\ UpdateOf(c)' /\ Moves(c)
    BY <1>1, <2>1, <2>2 DEF StoreInv, ClientInv, CallOf, LockOf, ValueOf, UpdateOf, Updating, Moves
  <2>5. ClientInv'
    BY <1>1, <2>4, OthersKeep DEF StoreInv, ClientInv
  <2> QED
    BY <1>1, <2>3, <2>5 DEF StoreInv, StoreConstants, FilesInv, ReadsWhole, ProgressKept
<1> QED
  BY <1>2, <1>3

\* The temporary file gets the name of the key, or is removed.
LEMMA RenameKeeps ==
    ASSUME StoreInv, NEW c \in Clients, Rename(c)
    PROVE  StoreInv'
<1> DEFINE k == call[c].key
<1>1. /\ storePc[c] = "rename" /\ k \in Keys /\ call[c].part \in Parts
      /\ call[c].op \in {"save", "progress"} /\ writeLock = c
      /\ temp[k] = call[c].value /\ call[c].value \in Whole
      /\ call[c].op = "progress" =>
            progressLock = c /\ acked[k] \cup {call[c].part} \subseteq call[c].value.parts
      /\ temp' = [temp EXCEPT ![k] = Absent]
      /\ UNCHANGED <<call, got, calls, crashes>>
  BY DEF Rename, StoreInv, ClientInv, CallOf, LockOf, ValueOf, UpdateOf, Updating
<1>2. PICK answer \in {"ok", "error"} : Return(c, answer)
  BY DEF Rename
<1>3. CASE UNCHANGED <<final, acked>>
  <2>1. TypeOK'
    BY <1>1, <1>2, <1>3, ReturnKeeps DEF StoreInv, TypeOK
  <2>2. ClientInv'
    BY <1>1, <1>2, <1>3, ReturnKeeps, OthersKeep DEF Moves, StoreInv, ClientInv
  <2> QED
    BY <1>1, <1>3, <2>1, <2>2 DEF StoreInv, StoreConstants, FilesInv, ReadsWhole, ProgressKept
<1>4. CASE /\ final' = [final EXCEPT ![k] = temp[k]]
           /\ acked' = [acked EXCEPT ![k] = IF call[c].op = "progress" THEN @ \cup {call[c].part} ELSE {}]
  <2>1. /\ final \in [Keys -> Whole \cup {Absent, Torn}] /\ acked \in [Keys -> SUBSET Parts]
        /\ temp \in [Keys -> Whole \cup {Absent, Torn}]
    BY DEF StoreInv, TypeOK
  <2>2. /\ final' \in [Keys -> Whole \cup {Absent, Torn}] /\ acked' \in [Keys -> SUBSET Parts]
        /\ temp' \in [Keys -> Whole \cup {Absent, Torn}]
    BY <1>1, <1>4, <2>1
  <2>3. /\ final'[k] = call[c].value
        /\ \A j \in Keys \ {k} : final'[j] = final[j] /\ acked'[j] = acked[j]
        /\ acked'[k] \subseteq call[c].value.parts
        /\ call[c].op # "progress" => acked'[k] = {}
    BY <1>1, <1>4, <2>1
  <2>4. TypeOK'
    BY <1>1, <1>2, <2>2, ReturnKeeps DEF StoreInv, TypeOK
  <2>5. (\A j \in Keys : acked'[j] \subseteq acked[j]) \/ progressLock = c
    BY <1>1, <2>3
  <2>6. ClientInv'
    BY <1>1, <1>2, <2>5, ReturnKeeps, OthersKeep DEF Moves, StoreInv, ClientInv
  <2>7. FilesInv' /\ ProgressKept'
    BY <1>1, <2>3, Files DEF StoreInv, FilesInv, ProgressKept
  <2> QED
    BY <1>1, <2>4, <2>6, <2>7 DEF StoreInv, StoreConstants, ReadsWhole
<1> QED
  BY <1>3, <1>4 DEF Rename

\* The file of a key is removed.
LEMMA RemoveKeeps ==
    ASSUME StoreInv, NEW c \in Clients, Remove(c)
    PROVE  StoreInv'
<1> DEFINE k == call[c].key
<1>1. PICK answer \in {"ok", "nothing"} :
         /\ storePc[c] = "remove" /\ k \in Keys /\ Return(c, answer)
         /\ final' = [final EXCEPT ![k] = Absent] /\ acked' = [acked EXCEPT ![k] = {}]
         /\ UNCHANGED <<temp, call, got, calls, crashes>>
  BY DEF Remove, StoreInv, ClientInv, CallOf
<1>2. /\ final' \in [Keys -> Whole \cup {Absent, Torn}] /\ acked' \in [Keys -> SUBSET Parts]
      /\ \A j \in Keys : \/ final'[j] = final[j] /\ acked'[j] = acked[j]
                         \/ final'[j] = Absent /\ acked'[j] = {}
  BY <1>1 DEF StoreInv, TypeOK
<1>3. TypeOK'
  <2>1. /\ storePc' \in [Clients -> Pcs]
        /\ answerOf' \in [Clients -> {"none", "ok", "error", "nothing"}]
        /\ writeLock' \in Clients \cup {Nobody} /\ progressLock' \in Clients \cup {Nobody}
    BY <1>1, ReturnKeeps
  <2> QED
    BY <1>1, <1>2, <2>1 DEF StoreInv, TypeOK
<1>4. ClientInv'
  BY <1>1, <1>2, ReturnKeeps, OthersKeep DEF Moves, StoreInv, ClientInv
<1>5. FilesInv' /\ ProgressKept'
  BY <1>2, Files DEF StoreInv, FilesInv, ProgressKept
<1> QED
  BY <1>1, <1>3, <1>4, <1>5 DEF StoreInv, StoreConstants, ReadsWhole

\* The process dies: the files stay, the calls are forgotten.
LEMMA CrashKeeps ==
    ASSUME StoreInv, Crash
    PROVE  StoreInv'
<1>1. NoCall \in Calls /\ NoCall.op = "none"
  BY DEF NoCall
<1>2. TypeOK'
  <2>1. crashes' \in 0..MaxCrashes
    <3>1. crashes \in 0..MaxCrashes /\ MaxCrashes \in Nat
      BY DEF StoreInv, StoreConstants, TypeOK
    <3>2. crashes < MaxCrashes /\ crashes' = crashes + 1
      BY DEF Crash
    <3> QED
      BY <3>1, <3>2
  <2>2. /\ storePc' \in [Clients -> Pcs] /\ got' \in [Clients -> Whole \cup {Absent, Torn}]
        /\ answerOf' \in [Clients -> {"none", "ok", "error", "nothing"}]
    BY DEF Crash
  <2> QED
    BY <2>1, <2>2 DEF StoreInv, TypeOK, Crash
<1>3. ClientInv'
  BY <1>1 DEF Crash, ClientInv, CallOf, LockOf, ValueOf, UpdateOf, Updating
<1>4. FilesInv' /\ ReadsWhole' /\ ProgressKept'
  BY Files DEF StoreInv, Crash, FilesInv, ReadsWhole, ProgressKept
<1> QED
  BY <1>2, <1>3, <1>4 DEF StoreInv, StoreConstants

-----------------------------------------------------------------------------
LEMMA StoreStep == StoreInv /\ [Next]_storeVars => StoreInv'
<1> SUFFICES ASSUME StoreInv, [Next]_storeVars PROVE StoreInv'
  OBVIOUS
<1>1. CASE UNCHANGED storeVars
  BY <1>1 DEF storeVars, StoreInv, StoreConstants, TypeOK, ClientInv, CallOf, LockOf, ValueOf,
              UpdateOf, Updating, FilesInv, ReadsWhole, ProgressKept
<1> QED
  BY <1>1, StartKeeps, LocksKeep, LookKeeps, ReadKeeps, WriteKeeps, RenameKeeps, RemoveKeeps,
     CrashKeeps DEF Next, Work

\* Every variable of the store keeps its type, across crashes too.
THEOREM StoreTypeCorrect == StoreConstants => (Spec => []TypeOK)
BY StoreInit, StoreStep, PTL DEF Spec, StoreInv

\* A read returns a whole snapshot or none, whatever is being written and
\* wherever the process died: a file gets its name when it is complete.
THEOREM ReadsAreWhole == StoreConstants => (Spec => []ReadsWhole)
BY StoreInit, StoreStep, PTL DEF Spec, StoreInv

\* A fragment whose update returned Ok stays in the snapshot until a save or
\* a removal: the read and the write of an update are under one lock.
THEOREM ProgressIsKept == StoreConstants => (Spec => []ProgressKept)
BY StoreInit, StoreStep, PTL DEF Spec, StoreInv
=============================================================================
