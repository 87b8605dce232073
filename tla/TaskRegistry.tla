----------------------------- MODULE TaskRegistry -----------------------------
(***************************************************************************)
(* What tachyon-app promises about URLs: a registry in which an unfinished *)
(* task claims its URL, a URL is claimed in one step and only when nobody  *)
(* claims it, and a restart brings back some of the tasks issued so far.   *)
(***************************************************************************)
CONSTANTS Tasks, Urls, None

VARIABLES
    claim,  \* the URL an unfinished task holds, or None
    issued  \* the URL a task was created for, or None

Init ==
    /\ claim = [t \in Tasks |-> None]
    /\ issued = [t \in Tasks |-> None]

Add(t, u) ==
    /\ issued[t] = None
    /\ \A o \in Tasks : claim[o] # u
    /\ claim' = [claim EXCEPT ![t] = u]
    /\ issued' = [issued EXCEPT ![t] = u]

\* Cancelled or deleted.
Release(t) ==
    /\ claim[t] # None
    /\ claim' = [claim EXCEPT ![t] = None]
    /\ UNCHANGED issued

\* Nothing is promised about which of the issued tasks come back.
Restart ==
    \E back \in SUBSET {t \in Tasks : issued[t] # None} :
        /\ claim' = [t \in Tasks |-> IF t \in back THEN issued[t] ELSE None]
        /\ issued' = claim'

Next ==
    \/ \E t \in Tasks, u \in Urls : Add(t, u)
    \/ \E t \in Tasks : Release(t)
    \/ Restart

Spec == Init /\ [][Next]_<<claim, issued>>
=============================================================================
