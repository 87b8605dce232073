--------------------------- MODULE ProgressMeter ---------------------------
(***************************************************************************)
(* The numbers of a download: the fragments report the bytes of their      *)
(* present attempt through a bounded channel, the chunk reader of task_fn  *)
(* adds the differences up.  The speeds of all tasks go into the ring of   *)
(* speedHistory.ts, with a running sum and a running peak.                 *)
(***************************************************************************)
EXTENDS Naturals, Sequences, SequencesExt, FiniteSets, FiniteSetsExt, Functions

CONSTANTS
    MeterFrags,    \* fragments
    FragBytes,     \* bytes of each
    Attempts,      \* attempts of each
    ChannelSize,   \* capacity of the progress channel
    Speeds,        \* speeds the monitor finds
    RingSize       \* HISTORY_SIZE

VARIABLES
    attempts,      \* attempts a fragment has begun
    received,      \* total_written of its present attempt
    finished,      \* fragments whose completed report was sent
    reports,       \* the mpsc channel of FragmentProgress
    fragBytes,     \* frag_bytes of the chunk reader
    total,         \* total_downloaded
    counted,       \* completed, shown as fragments_done
    ring,          \* buffer
    writeIndex,    \* its next place
    ringCount,     \* count
    ringSum,       \* sum
    peak,          \* peak
    pushed         \* the speeds pushed last, newest first

fragmentVars == <<attempts, received, finished>>
readerVars == <<fragBytes, total, counted>>
ringVars == <<ring, writeIndex, ringCount, ringSum, peak, pushed>>
meterVars == <<fragmentVars, reports, readerVars, ringVars>>

TypeOK ==
    /\ \A f \in MeterFrags : attempts[f] \in 1..Attempts /\ received[f] \in 0..FragBytes
    /\ Len(reports) <= ChannelSize /\ counted \subseteq finished
    /\ fragBytes \in [MeterFrags -> 0..FragBytes] /\ total \in 0..(Cardinality(MeterFrags) * Attempts * FragBytes)
    /\ writeIndex \in 1..RingSize /\ ringCount \in 0..RingSize

Init ==
    /\ attempts = [f \in MeterFrags |-> 1] /\ received = [f \in MeterFrags |-> 0] /\ finished = {}
    /\ reports = <<>>
    /\ fragBytes = [f \in MeterFrags |-> 0] /\ total = 0 /\ counted = {}
    /\ ring = [i \in 1..RingSize |-> 0] /\ writeIndex = 1 /\ ringCount = 0
    /\ ringSum = 0 /\ peak = 0 /\ pushed = <<>>

-----------------------------------------------------------------------------
\* A written batch is reported every few chunks; a report that finds the
\* channel full is dropped.
Report(f, bytes, completed) == [frag |-> f, bytes |-> bytes, completed |-> completed]

WriteBatch(f) ==
    /\ f \notin finished /\ received[f] < FragBytes
    /\ received' = [received EXCEPT ![f] = @ + 1]
    /\ \/ UNCHANGED reports
       \/ Len(reports) < ChannelSize /\ reports' = Append(reports, Report(f, received'[f], FALSE))
    /\ UNCHANGED <<attempts, finished, readerVars, ringVars>>

\* The completed report waits for room.
CompleteFragment(f) ==
    /\ f \notin finished /\ received[f] = FragBytes /\ Len(reports) < ChannelSize
    /\ finished' = finished \cup {f}
    /\ reports' = Append(reports, Report(f, FragBytes, TRUE))
    /\ UNCHANGED <<attempts, received, readerVars, ringVars>>

\* A new attempt begins with the first byte of the fragment.
RetryFragment(f) ==
    /\ f \notin finished /\ attempts[f] < Attempts
    /\ attempts' = [attempts EXCEPT ![f] = @ + 1]
    /\ received' = [received EXCEPT ![f] = 0]
    /\ UNCHANGED <<finished, reports, readerVars, ringVars>>

\* fragment_downloaded.saturating_sub(old)
Difference(new, old) == IF new > old THEN new - old ELSE 0

ReadReport ==
    /\ reports # <<>>
    /\ LET r == Head(reports)
       IN  /\ fragBytes' = [fragBytes EXCEPT ![r.frag] = r.bytes]
           /\ total' = total + Difference(r.bytes, fragBytes[r.frag])
           /\ counted' = IF r.completed THEN counted \cup {r.frag} ELSE counted
    /\ reports' = Tail(reports)
    /\ UNCHANGED <<fragmentVars, ringVars>>

-----------------------------------------------------------------------------
\* pushSpeed(): a full ring gives up its oldest speed, and looks for a new peak
\* when that was the peak.
Full == ringCount = RingSize
Others == {ring[i] : i \in (1..RingSize) \ {writeIndex}}

\* Mutant of PeakLeaves: the peak is looked for only when it was exceeded.
PeakExceeded == ring[writeIndex] > peak

PeakLeaves == ring[writeIndex] >= peak

PushSpeed(speed) ==
    LET rest == IF Full /\ PeakLeaves THEN Max(Others \cup {speed}) ELSE peak
    IN  /\ ringCount' = IF Full THEN RingSize ELSE ringCount + 1
        /\ ringSum' = (IF Full THEN ringSum - ring[writeIndex] ELSE ringSum) + speed
        /\ peak' = Max({rest, speed})
        /\ ring' = [ring EXCEPT ![writeIndex] = speed]
        /\ writeIndex' = (writeIndex % RingSize) + 1
        /\ pushed' = SubSeq(<<speed>> \o pushed, 1, Min({RingSize, Len(pushed) + 1}))
        /\ UNCHANGED <<fragmentVars, reports, readerVars>>

\* clearHistory()
ClearSpeeds ==
    /\ ring' = [i \in 1..RingSize |-> 0] /\ writeIndex' = 1 /\ ringCount' = 0
    /\ ringSum' = 0 /\ peak' = 0 /\ pushed' = <<>>
    /\ UNCHANGED <<fragmentVars, reports, readerVars>>

MeterStep ==
    \/ \E f \in MeterFrags : WriteBatch(f) \/ CompleteFragment(f) \/ RetryFragment(f)
    \/ ReadReport

SpeedStep == (\E s \in Speeds : PushSpeed(s)) \/ ClearSpeeds

\* The two have nothing to do with each other: one at a time is enough.
Next ==
    \/ MeterStep /\ pushed = <<>>
    \/ SpeedStep /\ \A f \in MeterFrags : attempts[f] = 1 /\ received[f] = 0

-----------------------------------------------------------------------------
(* Properties.                                                              *)

Bytes == FoldFunction(+, 0, fragBytes)

\* What the ring keeps in passing is what a walk over it would find: sum, peak
\* and order of the last RingSize speeds (getAverageSpeed, getPeakSpeed,
\* getHistory); and the total is never less than the fragments' bytes.
MetersExact ==
    /\ ringSum = FoldSeq(+, 0, pushed)
    /\ peak = Max({0} \cup Range(pushed))
    /\ [i \in 1..ringCount |-> ring[((writeIndex - 1 - i + 2 * RingSize) % RingSize) + 1]] = pushed
    /\ total >= Bytes

\* The total is what the fragments have ("替换旧值,差值累加到总数", chunk reader).
TotalIsSum == total = Bytes
=============================================================================
