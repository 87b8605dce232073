---------------------------- MODULE FragmentPlan ----------------------------
(***************************************************************************)
(* How a file is cut: the scheduler's recommendation from the bandwidth it *)
(* predicts, plan_fragments of the orchestrator, and the records that      *)
(* DownloadTask::plan makes of the plan and of a checkpoint.  A prediction *)
(* is any bandwidth, once there is a sample: its smoothing is left out.    *)
(***************************************************************************)
EXTENDS Naturals, Sequences, FiniteSets, FiniteSetsExt

CONSTANTS
    FileSizes, Bandwidths,
    MinFragment, MaxFragment, TargetFragments,     \* SchedulerConfig
    MediumBandwidth, HighBandwidth,
    MaxFragmentCount,                              \* MAX_FRAGMENT_COUNT
    MaxConcurrency,                                \* config.max_concurrent_fragments
    FragmentRetries,                               \* max_retries of a record
    EnoughSamples                                  \* from here on the confidence is above one half

VARIABLES
    samples,      \* sample_count of the predictor and of the bandwidth tracker
    predicted,    \* predict(1), rounded
    estimate,     \* estimate() of the bandwidth tracker
    fileSize,     \* file_size of the last plan, 0 before it
    advice,       \* its ScheduleRecommendation
    fragments,    \* its fragments
    records       \* state and retry_count of their records

planVars == <<samples, predicted, estimate, fileSize, advice, fragments, records>>

RecordStates == {"pending", "downloading", "verifying", "writing", "done", "failed"}
NewRecord == [state |-> "pending", retries |-> 0]

Init ==
    /\ samples = 0 /\ predicted = 0 /\ estimate = 0
    /\ fileSize = 0 /\ advice = [concurrency |-> 1, size |-> 0] /\ fragments = <<>> /\ records = <<>>

TypeOK ==
    /\ samples \in 0..EnoughSamples /\ predicted \in Bandwidths /\ estimate \in Bandwidths
    /\ fileSize \in FileSizes \cup {0} /\ Len(records) = Len(fragments)
    /\ \A i \in DOMAIN records :
        records[i].state \in RecordStates /\ records[i].retries \in 0..(FragmentRetries + 1)

-----------------------------------------------------------------------------
(* Sizes.                                                                   *)

\* confidence() > 0.5
Confident == samples >= EnoughSamples

CeilDiv(a, b) == (a + b - 1) \div b
Clamp(n, low, high) == Max({low, Min({n, high})})

\* recommend(): three seconds to a fragment when the prediction is sure, else five.
TargetSeconds == IF Confident THEN 3 ELSE 5

SuggestedSize ==
    IF predicted > 0 THEN Clamp(predicted * TargetSeconds, MinFragment, MaxFragment) ELSE MinFragment

SuggestedConcurrency(size) ==
    IF predicted > 0
    THEN Max({1, Min({(predicted * TargetSeconds) \div SuggestedSize,
                      CeilDiv(size, SuggestedSize), MaxConcurrency})})
    ELSE Max({1, MaxConcurrency})

\* compute_fragment_size()
Widened(base) ==
    CASE estimate > HighBandwidth -> 2 * base
      [] estimate > MediumBandwidth /\ estimate <= HighBandwidth -> (3 * base) \div 2
      [] OTHER -> base

ComputedSize(size) == Clamp(Widened(size \div Max({1, TargetFragments})), MinFragment, MaxFragment)

\* A suggestion counts when there are samples behind it.
FragmentSize(size) == IF samples > 0 THEN SuggestedSize ELSE ComputedSize(size)

\* Mutant of EffectiveSize: the limit on the number is applied rounding down.
EffectiveSizeDown(size) ==
    IF size \div FragmentSize(size) > MaxFragmentCount THEN size \div MaxFragmentCount
    ELSE FragmentSize(size)

EffectiveSize(size) ==
    IF size \div FragmentSize(size) > MaxFragmentCount THEN CeilDiv(size, MaxFragmentCount)
    ELSE FragmentSize(size)

\* The loop of plan_fragments.
Cut(size, step) ==
    LET from[offset \in 0..size] ==
            IF offset = size THEN <<>>
            ELSE LET length == Min({size - offset, step})
                 IN  <<[start |-> offset, end |-> offset + length - 1]>> \o from[offset + length]
    IN  from[0]

Planned(size, ranged) ==
    IF size = 0 THEN <<>>
    ELSE IF ~ranged THEN <<[start |-> 0, end |-> size - 1]>>
    ELSE Cut(size, EffectiveSize(size))

-----------------------------------------------------------------------------
\* The level and the trend of HoltLinearPredictor: after a sample predict(1) may
\* be any bandwidth, as low as zero when the trend falls.
Predictions == Bandwidths

\* The moving average of BandwidthTracker, which skips samples of zero.
Estimates == Bandwidths \ {0}

\* on_fragment_done and observe_bandwidth after a fragment was joined.
Observe ==
    /\ samples' = Min({samples + 1, EnoughSamples})
    /\ predicted' \in Predictions
    /\ estimate' \in Estimates
    /\ UNCHANGED <<fileSize, advice, fragments, records>>

\* plan(): what the checkpoint names is done, unless the plan has no such fragment.
Plan(size, ranged, completed) ==
    /\ fileSize = 0
    /\ fileSize' = size
    /\ advice' = [concurrency |-> SuggestedConcurrency(size), size |-> SuggestedSize]
    /\ fragments' = Planned(size, ranged)
    /\ records' = [i \in DOMAIN fragments' |->
                      IF i \in completed THEN [NewRecord EXCEPT !.state = "done"] ELSE NewRecord]
    /\ UNCHANGED <<samples, predicted, estimate>>

\* The transitions of a FragmentRecord; others are refused.
Move(i, from, to) ==
    /\ records[i].state = from
    /\ records' = [records EXCEPT ![i].state = to]
    /\ UNCHANGED <<samples, predicted, estimate, fileSize, advice, fragments>>

StartDownload(i) == Move(i, "pending", "downloading")
CompleteDownload(i) == Move(i, "downloading", "verifying")
CompleteDownloadFast(i) == Move(i, "downloading", "done")
VerifyOk(i) == Move(i, "verifying", "writing")
WriteDone(i) == Move(i, "writing", "done")

MarkFailed(i) ==
    /\ records[i].state \in {"downloading", "verifying", "writing"}
    /\ records' = [records EXCEPT
                      ![i].retries = @ + 1,
                      ![i].state = IF records[i].retries < FragmentRetries THEN "pending" ELSE "failed"]
    /\ UNCHANGED <<samples, predicted, estimate, fileSize, advice, fragments>>

Next ==
    \/ fileSize = 0 /\ Observe
    \/ \E size \in FileSizes, ranged \in BOOLEAN, completed \in SUBSET {1, MaxFragmentCount + 2} :
        Plan(size, ranged, completed)
    \/ \E i \in DOMAIN records :
        /\ i = 1
        /\ \/ StartDownload(i) \/ CompleteDownload(i) \/ CompleteDownloadFast(i)
           \/ VerifyOk(i) \/ WriteDone(i) \/ MarkFailed(i)

-----------------------------------------------------------------------------
\* Whatever the bandwidths, limits and sizes, the fragments follow each other
\* from the first byte of the file to its last, and there are no more of them
\* than the limit and the remainder (plan_fragments); the recommended
\* concurrency is at least one and no more than the user allows.
PlanCovers ==
    fileSize > 0 =>
        /\ fragments[1].start = 0 /\ fragments[Len(fragments)].end = fileSize - 1
        /\ \A i \in DOMAIN fragments :
            /\ fragments[i].start <= fragments[i].end
            /\ i > 1 => fragments[i].start = fragments[i - 1].end + 1
        /\ Len(fragments) <= MaxFragmentCount + 1
        /\ advice.concurrency \in 1..Max({1, MaxConcurrency})
=============================================================================
