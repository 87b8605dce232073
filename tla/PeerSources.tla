---------------------------- MODULE PeerSources ----------------------------
(***************************************************************************)
(* SourceSelector: the list of sources with their scores and the weighted  *)
(* random choice of one.  A weight is a small number; what latency,        *)
(* bandwidth, stability and distance make of it is PeerScore's.            *)
(***************************************************************************)
EXTENDS SequencesExt, FiniteSets

CONSTANTS
    Keys,         \* URLs and addresses
    Scores,       \* weights a score may have; weighted_score is positive
    MaxSources    \* bound on the list

VARIABLES
    sources,      \* the list: [key, weight]
    lastUpdated   \* the key whose score update_score has changed

sourceVars == <<sources, lastUpdated>>

Nothing == [key |-> "none", weight |-> 0]

TypeOK ==
    /\ sources \in BoundedSeq([key : Keys, weight : Scores], MaxSources)
    /\ lastUpdated \in Keys \cup {"none"}

Init == sources = <<>> /\ lastUpdated = "none"

-----------------------------------------------------------------------------
\* A source may be in the list twice.
AddSource(key, weight) ==
    /\ Len(sources) < MaxSources
    /\ sources' = Append(sources, [key |-> key, weight |-> weight])
    /\ lastUpdated' = "none"

\* What retain leaves of a list: the entries at some of its places, in their order.
PlaceOf(n, places) == CHOOSE i \in places : Cardinality({j \in places : j <= i}) = n
AtPlaces(s, places) == [n \in 1..Cardinality(places) |-> s[PlaceOf(n, places)]]

RemoveSource(key) ==
    /\ sources' = AtPlaces(sources, {i \in DOMAIN sources : sources[i].key # key})
    /\ lastUpdated' = "none"

\* The score of the first source with the key.
UpdateScore(key, weight) ==
    LET i == SelectInSeq(sources, LAMBDA s : s.key = key)
    IN  /\ sources' = IF i = 0 THEN sources ELSE [sources EXCEPT ![i].weight = weight]
        /\ lastUpdated' = IF i = 0 THEN "none" ELSE key

Next ==
    \E key \in Keys :
        \/ RemoveSource(key)
        \/ \E weight \in Scores : AddSource(key, weight) \/ UpdateScore(key, weight)

-----------------------------------------------------------------------------
Cumulative(i) == FoldLeft(LAMBDA sum, s : sum + s.weight, 0, SubSeq(sources, 1, i))
Total == Cumulative(Len(sources))

\* select_source(): the place in the list of the first source whose cumulative
\* weight is above the roll, a number below the total.
Chosen(roll) ==
    LET i == SelectInSeq([j \in DOMAIN sources |-> Cumulative(j)], LAMBDA sum : roll < sum)
    IN  IF sources = <<>> THEN 0 ELSE IF i = 0 THEN Len(sources) ELSE i

-----------------------------------------------------------------------------
\* Each source is chosen in proportion to its weight, however the list came
\* about: of the rolls below the total, as many choose it as it weighs.
ChosenByWeight ==
    sources # <<>> =>
        \A i \in DOMAIN sources :
            Cardinality({roll \in 0..(Total - 1) : Chosen(roll) = i}) = sources[i].weight
=============================================================================
