---------------------------- MODULE ConfigLimits ----------------------------
(***************************************************************************)
(* The numbers of AppConfig: what they are by default and when a caller    *)
(* leaves them out, which ones validate accepts, and what is made of them. *)
(* The pool and the scheduler are built once, from the defaults, and an    *)
(* update does not reach them; a download keeps the copy that create_task  *)
(* made.  Times are in seconds, sizes in KiB, ewma_alpha in hundredths.    *)
(***************************************************************************)
EXTENDS Naturals, FiniteSetsExt

CONSTANTS
    Huge,         \* more than any limit
    MaxUpdates    \* bound on the updates of the configuration

VARIABLES
    limits,       \* the numbers of state.config
    pool,         \* ConnectionPool: permits, permits of a host, cleanup_threshold
    scheduler,    \* the SchedulerConfig of orchestrator and scheduler
    task,         \* the numbers of a DownloadTask's config, those in use at its creation
    updates

limitVars == <<limits, pool, scheduler, task, updates>>

-----------------------------------------------------------------------------
(* Defaults.                                                                *)

DownloadDefaults ==
    [max_concurrent_fragments |-> 16, max_retries |-> 3, request_timeout_secs |-> 30,
     connect_timeout_secs |-> 10, pause_timeout_secs |-> 300,
     rate_limit |-> Huge, max_full_stream |-> 64 * 1024 * 1024]
ConnectionDefaults == [max_connections_per_host |-> 16, max_global_connections |-> 256]
SchedulerDefaults ==
    [min_fragment_size |-> 1024, max_fragment_size |-> 64 * 1024, sampling_interval_secs |-> 60,
     ewma_alpha |-> 30, default_target_fragments |-> 16,
     high_bandwidth_threshold |-> 100 * 1024, medium_bandwidth_threshold |-> 10 * 1024]

\* The numbers of all three sections, and one that is in none.
Fields ==
    DOMAIN DownloadDefaults \cup DOMAIN ConnectionDefaults \cup DOMAIN SchedulerDefaults
        \cup {"max_concurrent_tasks"}
Defaults ==
    [f \in Fields |->
        IF f \in DOMAIN DownloadDefaults THEN DownloadDefaults[f]
        ELSE IF f \in DOMAIN ConnectionDefaults THEN ConnectionDefaults[f]
        ELSE IF f \in DOMAIN SchedulerDefaults THEN SchedulerDefaults[f] ELSE 5]

\* The numbers a caller may leave out: serde fills in the default.
Optional ==
    {"connect_timeout_secs", "pause_timeout_secs", "rate_limit", "max_full_stream",
     "default_target_fragments", "high_bandwidth_threshold", "medium_bandwidth_threshold"}

-----------------------------------------------------------------------------
(* Validation.                                                              *)

AtMost ==
    [max_concurrent_tasks |-> 100, max_concurrent_fragments |-> 256, max_retries |-> 100,
     request_timeout_secs |-> 3600, connect_timeout_secs |-> 300, pause_timeout_secs |-> 86400,
     max_connections_per_host |-> 128, max_global_connections |-> 4096, ewma_alpha |-> 100]

MayBeZero == {"max_retries", "ewma_alpha", "high_bandwidth_threshold", "medium_bandwidth_threshold"}

\* AppConfig::validate and what it calls.
Valid(c) ==
    /\ \A f \in DOMAIN c : (f \in MayBeZero \/ c[f] > 0) /\ (f \in DOMAIN AtMost => c[f] <= AtMost[f])
    /\ c.min_fragment_size <= c.max_fragment_size

-----------------------------------------------------------------------------
Part(c, part) == [f \in DOMAIN part |-> c[f]]

\* ConnectionPool::new; each host gets max_per_host permits.
PoolOf(c) ==
    [global |-> c.max_global_connections, host |-> c.max_connections_per_host,
     threshold |-> Max({2 * c.max_global_connections, 64})]

TypeOK ==
    /\ DOMAIN limits = Fields /\ DOMAIN task = DOMAIN DownloadDefaults
    /\ DOMAIN scheduler = DOMAIN SchedulerDefaults /\ updates \in 0..MaxUpdates
    /\ \A f \in DOMAIN limits : limits[f] \in Nat

\* AppState::new; the first task is created with the defaults.
Init ==
    /\ limits = Defaults /\ pool = PoolOf(Defaults)
    /\ scheduler = Part(Defaults, SchedulerDefaults)
    /\ task = Part(Defaults, DownloadDefaults)
    /\ updates = 0

\* update_config with one number changed or left out; it is taken or refused.
Update(f, n) ==
    /\ updates < MaxUpdates
    /\ LET asked == [limits EXCEPT ![f] = n] IN Valid(asked) /\ limits' = asked
    /\ updates' = updates + 1
    /\ UNCHANGED <<pool, scheduler, task>>

LeaveOut(f) == Update(f, Defaults[f])

\* build_download_config: a copy of the download section.
CreateTask ==
    /\ task' = Part(limits, DownloadDefaults)
    /\ UNCHANGED <<limits, pool, scheduler, updates>>

Next ==
    \/ \E f \in Fields :
        \E n \in {0, 1, Huge} \cup IF f \in DOMAIN AtMost THEN {AtMost[f], AtMost[f] + 1} ELSE {} :
            Update(f, n)
    \/ (\E f \in Optional : LeaveOut(f)) \/ CreateTask

-----------------------------------------------------------------------------
(* What the components do with the numbers.                                 *)

\* The wait before a retry, for some jitter below its base.
Backoff(attempt, jitter) == Max({1, 2 ^ Min({attempt, 10}) - jitter})

\* A clamp between the two sizes panics when they are the wrong way round.
PlansWith(c) == 0 < c.min_fragment_size /\ c.min_fragment_size <= c.max_fragment_size

\* Whatever a caller asks for, one number after the other: what is accepted
\* lets every component run.  No semaphore is made without a permit, where
\* everybody would wait for ever; no clamp has its bounds the wrong way round
\* and no divisor is zero; no wait before a retry is zero or longer than 1024 s;
\* no timeout ends at once.
AcceptedConfigRuns ==
    /\ pool.global >= 1 /\ pool.host >= 1 /\ pool.threshold > pool.global
    /\ PlansWith(scheduler) /\ PlansWith(limits)
    /\ limits.default_target_fragments >= 1
    /\ task.max_concurrent_fragments \in 1..256
    /\ task.connect_timeout_secs > 0 /\ task.request_timeout_secs > 0 /\ task.pause_timeout_secs > 0
    /\ task.rate_limit > 0 /\ task.max_full_stream > 0
    /\ \A attempt \in 0..Min({task.max_retries, 64}) :
        Backoff(attempt, 0) \in 1..1024 /\ Backoff(attempt, 2 ^ Min({attempt, 10}) - 1) = 1
=============================================================================
