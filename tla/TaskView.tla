------------------------------ MODULE TaskView ------------------------------
(***************************************************************************)
(* What the window knows of the tasks: every task_fn has its private copy  *)
(* of the table and sends rows of it through one watch channel, which      *)
(* keeps the last value only; subscribe_progress turns each value it sees  *)
(* into a `progress-update' event.  The stores of the frontend merge the   *)
(* events, replace the list by the replies to get_task_list, and keep a    *)
(* history of the downloads that have ended.                               *)
(***************************************************************************)
EXTENDS Naturals, Sequences, FiniteSets

CONSTANTS
    ViewTasks,    \* tasks
    MaxReplies,   \* bound on the replies to get_task_list that are under way
    MaxEvents     \* bound on the events that are under way

VARIABLES
    shared,       \* the status of each row of the shared table, or "none"
    private,      \* the copy of the table of each task_fn
    run,          \* where a task_fn stands
    tested,       \* the monitors that have found their task on its way and not sent its row
    listening,    \* subscribe_progress has subscribed
    latest,       \* the value of the watch channel: who sent it, and the rows it has
    unseen,       \* the subscriber has not seen it
    events,       \* progress-update events on their way to the window
    replies,      \* replies to get_task_list on their way
    shown,        \* the list of the window: the status of each row, or "none"
    recorded      \* how often the history says of a task that it has completed, by the
                  \* sender of the event

backendVars == <<shared, private, run, tested>>
channelVars == <<listening, latest, unseen>>
windowVars == <<shown, recorded>>
viewVars == <<backendVars, channelVars, events, replies, windowVars>>

\* "active" stands for pending, downloading and paused, "stopped" for failed and
\* cancelled: no property tells them apart.
Statuses == {"active", "completed", "stopped"}
Ended == Statuses \ {"active"}
NoRows == [t \in ViewTasks |-> "none"]
Row(t, status) == [NoRows EXCEPT ![t] = status]

\* Two senders of a task_fn tell of its end: its monitor and its last lines.
Senders == {"monitor", "last"}
Value(sender, rows) == [from |-> sender, rows |-> rows]
NoValue == Value("list", NoRows)

TypeOK ==
    /\ shared \in [ViewTasks -> {"active", "stopped", "none"}]
    /\ run \in [ViewTasks -> {"none", "runs", "ended", "gone"}]
    /\ tested \subseteq ViewTasks
    /\ listening \in BOOLEAN /\ unseen \in BOOLEAN /\ (unseen => listening)
    /\ shown \in [ViewTasks -> Statuses \cup {"none"}]
    /\ Len(events) <= MaxEvents /\ Cardinality(replies) <= MaxReplies

Init ==
    /\ shared = NoRows /\ private = [t \in ViewTasks |-> NoRows] /\ run = [t \in ViewTasks |-> "none"]
    /\ tested = {}
    /\ listening = FALSE /\ latest = NoValue /\ unseen = FALSE
    /\ events = <<>> /\ replies = {} /\ shown = NoRows
    /\ recorded = [t \in ViewTasks |-> [s \in Senders |-> 0]]

-----------------------------------------------------------------------------
(* The backend.                                                             *)

\* create_task inserts the row under an id not used yet, which one makes no
\* difference, and gives task_fn a copy of the table.
Create(t) ==
    /\ run[t] = "none" /\ t = CHOOSE u \in ViewTasks : run[u] = "none"
    /\ shared' = [shared EXCEPT ![t] = "active"]
    /\ private' = [private EXCEPT ![t] = shared']
    /\ run' = [run EXCEPT ![t] = "runs"]
    /\ UNCHANGED <<tested, channelVars, events, replies, windowVars>>

Cancel(t) ==
    /\ shared[t] = "active"
    /\ shared' = [shared EXCEPT ![t] = "stopped"]
    /\ UNCHANGED <<private, run, tested, channelVars, events, replies, windowVars>>

\* delete_task, after which the list has no row of the task.
Delete(t) ==
    /\ shared[t] # "none" /\ run[t] = "gone"
    /\ shared' = [shared EXCEPT ![t] = "none"]
    /\ UNCHANGED <<private, run, tested, channelVars, events, replies, windowVars>>

\* The end of a run is written to the private row; an interrupt is an error
\* like any other.
Ends(t, status) ==
    /\ run[t] = "runs"
    /\ private' = [private EXCEPT ![t][t] = status]
    /\ run' = [run EXCEPT ![t] = "ended"]
    /\ UNCHANGED <<shared, tested, channelVars, events, replies, windowVars>>

\* watch::Sender::send leaves the value alone when nobody has subscribed.
Send(sender, rows) ==
    IF listening THEN latest' = Value(sender, rows) /\ unseen' = TRUE /\ UNCHANGED listening
    ELSE UNCHANGED channelVars

\* Mutant of MonitorGoesOn: the monitor does not stop at a row that has ended.
MonitorNeverStops(t) == run[t] \in {"runs", "ended"}

\* It returns at a row that has ended.
MonitorGoesOn(t) == run[t] \in {"runs", "ended"} /\ private[t][t] \notin {"completed", "stopped"}

MonitorTests(t) ==
    /\ t \notin tested
    /\ MonitorGoesOn(t)
    /\ tested' = tested \cup {t}
    /\ UNCHANGED <<shared, private, run, channelVars, events, replies, windowVars>>

\* The row is read again: it may have ended since the test.
MonitorSends(t) ==
    /\ t \in tested
    /\ Send("monitor", Row(t, private[t][t]))
    /\ tested' = tested \ {t}
    /\ UNCHANGED <<shared, private, run, events, replies, windowVars>>

\* At the end task_fn joins its monitor (an abort takes effect at its next await)
\* and sends its whole copy of the table.
LastEvent(t) ==
    /\ run[t] = "ended" /\ t \notin tested
    /\ Send("last", private[t])
    /\ run' = [run EXCEPT ![t] = "gone"]
    /\ UNCHANGED <<shared, private, tested, events, replies, windowVars>>

-----------------------------------------------------------------------------
(* Between the backend and the window.                                      *)

\* subscribe_progress sends the table as it is, then every value it sees.
Subscribe ==
    /\ ~listening /\ Len(events) < MaxEvents
    /\ listening' = TRUE
    /\ events' = Append(events, Value("list", shared))
    /\ UNCHANGED <<backendVars, latest, unseen, replies, windowVars>>

\* A value that was seen is not looked at again.
Forward ==
    /\ unseen /\ Len(events) < MaxEvents
    /\ unseen' = FALSE /\ latest' = NoValue
    /\ events' = Append(events, latest)
    /\ UNCHANGED <<backendVars, listening, replies, windowVars>>

\* refreshTaskList, after a command of the window or on its own: replies are
\* promises, each comes back in its own time.
Refresh ==
    /\ Cardinality(replies) < MaxReplies
    /\ replies' = replies \cup {shared}
    /\ UNCHANGED <<backendVars, channelVars, events, windowVars>>

ShowReply(reply) ==
    /\ replies' = replies \ {reply}
    /\ shown' = reply
    /\ UNCHANGED <<backendVars, channelVars, events, recorded>>

\* updateProgress: the rows of the event that are in the list; a row that ends
\* now goes to the history.
Updated(rows) == {t \in ViewTasks : rows[t] # "none" /\ shown[t] # "none"}

RecordedNow(t, rows) == t \in Updated(rows) /\ shown[t] \notin Ended /\ rows[t] \in Ended

ShowEvent ==
    /\ events # <<>>
    /\ LET rows == Head(events).rows
           sender == Head(events).from
       IN  /\ shown' = [t \in ViewTasks |-> IF t \in Updated(rows) THEN rows[t] ELSE shown[t]]
           /\ recorded' = [t \in ViewTasks |->
                  IF RecordedNow(t, rows) /\ rows[t] = "completed"
                  THEN [recorded[t] EXCEPT ![sender] = @ + 1] ELSE recorded[t]]
    /\ events' = Tail(events)
    /\ UNCHANGED <<backendVars, channelVars, replies>>

Next ==
    \/ \E t \in ViewTasks :
        \/ Create(t) \/ Cancel(t) \/ Delete(t)
        \/ Ends(t, "completed") \/ Ends(t, "stopped") 
        \/ MonitorTests(t) \/ MonitorSends(t) \/ LastEvent(t)
    \/ Subscribe \/ Forward \/ Refresh \/ ShowEvent
    \/ \E reply \in replies : ShowReply(reply)

-----------------------------------------------------------------------------
\* In whatever order events and replies reach the window, and whatever a refresh
\* takes back, the history says of a download that it has completed only after it
\* did, and at most twice: once for a report of the monitor that has found the
\* task on its way and reads its row after the end, and once for the last event.
RecordedAsAnnounced ==
    \A t \in ViewTasks, s \in Senders :
        /\ recorded[t][s] <= 1
        /\ recorded[t][s] = 1 => private[t][t] = "completed"
=============================================================================
