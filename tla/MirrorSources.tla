--------------------------- MODULE MirrorSources ---------------------------
(***************************************************************************)
(* MirrorProtocol: a primary source and mirrors behind one Protocol.       *)
(* probe() races them all and remembers the winner; a download asks the    *)
(* winner, or else the primary with a short timeout and then all mirrors   *)
(* in a race.  A source is named by its URL.                               *)
(***************************************************************************)
CONSTANTS Primary, Mirrors, Nobody

Sources == {Primary} \cup Mirrors

VARIABLES
    selected,    \* the source that won the probe
    raceUrl,     \* what a source was asked for, in the current call
    race,        \* how it answered: "no" (not asked), "asked", "ok", "err"
    racePc       \* where the call stands

mirrorVars == <<selected, raceUrl, race, racePc>>

Calling == {"probing", "winner", "fast", "racing"}

TypeOK ==
    /\ selected \in Sources \cup {Nobody}
    /\ raceUrl \in [Sources -> Sources \cup {Nobody}]
    /\ race \in [Sources -> {"no", "asked", "ok", "err"}]
    /\ racePc \in Calling \cup {"idle", "ok", "failed"}

Nothing == [s \in Sources |-> "no"]

Init ==
    /\ selected = Nobody /\ racePc = "idle"
    /\ race = Nothing /\ raceUrl = [s \in Sources |-> Nobody]

\* Each source is asked for url[s]; every call starts from a clean slate.
Ask(asked, url) ==
    /\ race' = [s \in Sources |-> IF s \in asked THEN "asked" ELSE "no"]
    /\ raceUrl' = [s \in Sources |-> IF s \in asked THEN url[s] ELSE Nobody]

Own == [s \in Sources |-> s]
OfPrimary == [s \in Sources |-> Primary]

-----------------------------------------------------------------------------
\* probe(): all sources at once, each for its own URL.
Probe ==
    /\ racePc \notin Calling
    /\ Ask(Sources, Own) /\ racePc' = "probing"
    /\ UNCHANGED selected

\* race_download(): the winner of the probe, or the primary.
Download ==
    /\ racePc \notin Calling
    /\ IF selected # Nobody
       THEN Ask({selected}, OfPrimary) /\ racePc' = "winner"
       ELSE Ask({Primary}, OfPrimary) /\ racePc' = "fast"
    /\ UNCHANGED selected

\* A source answers, fails, or its task panics.
Reply(s) ==
    /\ race[s] = "asked"
    /\ \E r \in {"ok", "err"} : race' = [race EXCEPT ![s] = r]
    /\ UNCHANGED <<selected, raceUrl, racePc>>

\* abort_all, or the drop of the JoinSet.
AbortOthers(s) == [x \in Sources |-> IF race[x] = "asked" THEN "no" ELSE race[x]]

\* The first of a race that is joined and Ok wins; the probe keeps it.
JoinWinner(s) ==
    /\ racePc \in {"probing", "racing"} /\ race[s] = "ok"
    /\ selected' = IF racePc = "probing" THEN s ELSE selected
    /\ race' = AbortOthers(s) /\ racePc' = "ok"
    /\ UNCHANGED raceUrl

Asked == {s \in Sources : race[s] # "no"}

\* The first error ends the race.
RaceOverEarly == \E s \in Asked : race[s] = "err"

\* join_next has nothing left.
RaceOver == \A s \in Asked : race[s] = "err"

AllLost ==
    /\ racePc \in {"probing", "racing"} /\ RaceOver
    /\ racePc' = "failed"
    /\ UNCHANGED <<selected, raceUrl, race>>

\* The answer of the winner is the answer of the call: nobody else is asked.
WinnerAnswers ==
    /\ racePc = "winner" /\ race[selected] \in {"ok", "err"}
    /\ racePc' = IF race[selected] = "ok" THEN "ok" ELSE "failed"
    /\ UNCHANGED <<selected, raceUrl, race>>

PrimaryAnswers ==
    /\ racePc = "fast" /\ race[Primary] = "ok"
    /\ racePc' = "ok"
    /\ UNCHANGED <<selected, raceUrl, race>>

\* An error, or 500 ms without an answer.
PrimaryGivenUp ==
    /\ racePc = "fast" /\ race[Primary] \in {"asked", "err"}
    /\ Ask(Mirrors, Own) /\ racePc' = "racing"
    /\ UNCHANGED selected

\* The caller drops the future, and with it what is still asked.
CallerDrops ==
    /\ racePc \in Calling
    /\ race' = Nothing /\ racePc' = "idle"
    /\ raceUrl' = [s \in Sources |-> Nobody]
    /\ UNCHANGED selected

Settle == (\E s \in Sources : JoinWinner(s)) \/ AllLost \/ WinnerAnswers \/ PrimaryAnswers \/ PrimaryGivenUp

Next == Probe \/ Download \/ (\E s \in Sources : Reply(s)) \/ Settle \/ CallerDrops

Proceed == (\E s \in Sources : Reply(s)) \/ Settle

Call == racePc \in Calling

-----------------------------------------------------------------------------
\* A race is lost only when each source that was asked has failed, and won
\* only with nobody left running; a probe that has a winner has heard from it.
RaceDecided ==
    /\ racePc = "failed" => \A s \in Sources : race[s] \in {"no", "err"}
    /\ racePc = "ok" => \A s \in Sources : race[s] # "asked"
    /\ racePc = "ok" => \E s \in Asked : race[s] = "ok"

\* The source that is asked is asked for what it has ("probe 选中的源").
SelectedIsAsked == \A s \in Sources : raceUrl[s] \in {Nobody, s}
=============================================================================
