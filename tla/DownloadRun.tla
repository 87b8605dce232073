----------------------------- MODULE DownloadRun -----------------------------
(* What DownloadTask::run promises its caller: fragments become complete in  *)
(* the file one by one, and a run that returns Ok leaves all of them         *)
(* complete.  A run that has returned begins no write; a write whose task    *)
(* was interrupted or aborted may still end after it.  Module TaskLifecycle  *)
(* builds on this view of a run.                                             *)
CONSTANT Frags

VARIABLES
    complete,  \* fragments whose bytes are all in the file
    loose,     \* fragments with a write that nobody waits for
    result     \* "running", "ok" or "err"

Init == complete \in SUBSET Frags /\ loose = {} /\ result = "running"

Write(S) == result = "running" /\ complete' = complete \cup S /\ UNCHANGED <<loose, result>>

Leave(f) == result = "running" /\ loose' = loose \cup {f} /\ UNCHANGED <<complete, result>>

Land(f) ==
    /\ f \in loose /\ loose' = loose \ {f}
    /\ complete' \in {complete, complete \cup {f}}
    /\ UNCHANGED result

Succeed ==
    result = "running" /\ complete = Frags /\ result' = "ok" /\ UNCHANGED <<complete, loose>>

Fail == result = "running" /\ result' = "err" /\ UNCHANGED <<complete, loose>>

Next ==
    \/ \E S \in SUBSET Frags : Write(S)
    \/ \E f \in Frags : Leave(f) \/ Land(f)
    \/ Succeed \/ Fail

Spec == Init /\ [][Next]_<<complete, loose, result>>
=============================================================================
