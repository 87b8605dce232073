---------------------------- MODULE HttpExchange ----------------------------
(***************************************************************************)
(* HttpClient: one request, from the lookup of its host through the        *)
(* redirects it may follow to the outcome that the engine sees.            *)
(***************************************************************************)
EXTENDS Integers, FiniteSetsExt, Functions

CONSTANTS
    Names,       \* hosts
    MaxPrevious, \* URLs of a redirect chain before it is refused (10)
    MaxFull,     \* download_full: largest body, in units of content
    Dates,       \* days that a Retry-After header may name: <<year, month, day>>
    Today,       \* the day it is, counted from 1970-01-01
    Huge         \* more than any wait

VARIABLES
    httpPc,      \* where the request stands
    httpKind,    \* "probe", "range" (also the stream form), "full", "stream"
    name,        \* host it is at
    previous,    \* URLs it has been sent to before
    reply,       \* the response
    outcome      \* what the caller is told

httpVars == <<httpPc, httpKind, name, previous, reply, outcome>>

\* The Retry-After header: absent or unreadable, seconds, or a date.
NoHeader == [form |-> "none"]
Headers == {NoHeader} \cup [form : {"seconds"}, secs : {0, 120}] \cup [form : {"date"}, date : Dates]

NoReply == [status |-> 0, size |-> 0, after |-> NoHeader]
Pending == [kind |-> "pending", after |-> -1]

TypeOK ==
    /\ httpPc \in {"lookup", "request", "reply", "body", "done"}
    /\ httpKind \in {"probe", "range", "full", "stream"}
    /\ name \in Names /\ previous \in 0..MaxPrevious
    /\ reply.after \in Headers
    /\ outcome.kind \in {"pending", "ok", "ignoresRange", "throttled", "forbidden", "protocol",
                         "network", "tooLarge"}

Init ==
    /\ httpPc = "lookup" /\ httpKind \in {"probe", "range", "full", "stream"}
    /\ name \in Names /\ previous = 0
    /\ reply = NoReply /\ outcome = Pending

-----------------------------------------------------------------------------
(* Retry-After.                                                             *)

\* days_from_epoch(): years start in March, eras have 400 years.
DaysFromEpoch(date) ==
    LET month == date[2]
        y == IF month <= 2 THEN date[1] - 1 ELSE date[1]
        m == IF month <= 2 THEN month + 9 ELSE month - 3
        era == y \div 400
        yoe == y - era * 400
        doy == (153 * m + 2) \div 5 + date[3] - 1
        doe == yoe * 365 + yoe \div 4 - yoe \div 100 + doy
    IN  era * 146097 + doe - 719468

\* parse_retry_after(): seconds, or a date, of which days are counted here;
\* -1 when there is no header or none that can be read.  A negative number of
\* days wraps as an u64, to a wait without end.
RetryAfter(header) ==
    CASE header.form = "none" -> -1
      [] header.form = "seconds" -> header.secs
      [] header.form = "date" ->
            LET days == DaysFromEpoch(header.date)
            IN  IF days < 0 THEN Huge ELSE Max({0, days - Today})

\* classify_http_error()
Classify(r) ==
    CASE r.status \in {429, 503} -> [kind |-> "throttled", after |-> RetryAfter(r.after)]
      [] r.status \in {401, 403} -> [kind |-> "forbidden", after |-> -1]
      [] OTHER -> [kind |-> "protocol", after |-> -1]

-----------------------------------------------------------------------------
Ends(kind) == httpPc' = "done" /\ outcome' = [Pending EXCEPT !.kind = kind]

\* PublicDnsResolver::resolve(): the cache it asks, and fills, is a copy of its
\* own, so what was looked up before is looked up again.  An address that is
\* not public, or a lookup that fails, ends the request.
Lookup ==
    /\ httpPc = "lookup"
    /\ \/ httpPc' = "request" /\ UNCHANGED outcome
       \/ Ends("network")
    /\ UNCHANGED <<httpKind, name, previous, reply>>

Reply(r) == httpPc' = "reply" /\ reply' = r /\ UNCHANGED <<name, previous, outcome>>

\* The server answers, or the connection fails.
Respond ==
    /\ httpPc = "request"
    /\ \/ \E status \in {200, 206, 301, 401, 403, 404, 416, 429, 500, 503}, size \in 0..(MaxFull + 1), after \in Headers :
            /\ after # NoHeader => status \in {429, 503} /\ size = 0
            /\ Reply([status |-> status, size |-> size, after |-> after])
       \/ Ends("network") /\ UNCHANGED <<name, previous, reply>>
    /\ UNCHANGED httpKind

\* safe_redirect_policy(): the URL so far becomes one of the previous ones.
Redirect ==
    /\ httpPc = "reply" /\ reply.status = 301
    /\ IF previous + 1 >= MaxPrevious
       THEN Ends("network") /\ UNCHANGED <<name, previous, reply>>
       ELSE \/ Ends("network") /\ UNCHANGED <<name, previous, reply>>
            \/ /\ name' \in Names /\ previous' = previous + 1
               /\ httpPc' = "lookup" /\ reply' = NoReply /\ UNCHANGED outcome
    /\ UNCHANGED httpKind

Success(r) == r.status \in 200..299

\* Whether the head of the response is what the call wants.
Accepts(r) == IF httpKind = "range" THEN r.status = 206 ELSE Success(r)

Refused(r) == IF httpKind = "range" /\ r.status = 200 THEN [Pending EXCEPT !.kind = "ignoresRange"] ELSE Classify(r)

Judge ==
    /\ httpPc = "reply" /\ reply.status # 301
    /\ \/ ~Accepts(reply) /\ httpPc' = "done" /\ outcome' = Refused(reply)
       \/ Accepts(reply) /\ httpKind = "probe" /\ Ends("ok")
       \/ Accepts(reply) /\ httpKind = "full" /\ reply.size > MaxFull /\ Ends("tooLarge")
       \/ /\ Accepts(reply) /\ httpKind # "probe" /\ (httpKind = "full" => reply.size <= MaxFull)
          /\ httpPc' = "body" /\ UNCHANGED outcome
    /\ UNCHANGED <<httpKind, name, previous, reply>>

ReadBody ==
    /\ httpPc = "body"
    /\ Ends("ok") \/ Ends("network")
    /\ UNCHANGED <<httpKind, name, previous, reply>>

Next == Lookup \/ Respond \/ Redirect \/ Judge \/ ReadBody

RequestRuns == httpPc # "done"

-----------------------------------------------------------------------------
Leap(y) == y % 4 = 0 /\ (y % 100 # 0 \/ y % 400 = 0)
YearLength(y) == IF Leap(y) THEN 366 ELSE 365
MonthLength(y, m) ==
    IF m = 2 THEN IF Leap(y) THEN 29 ELSE 28 ELSE IF m \in {4, 6, 9, 11} THEN 30 ELSE 31

\* The days of the calendar: whole years, whole months of the last one, days.
SumOf(f) == FoldFunction(+, 0, f)
DaysSince1970(date) ==
    SumOf([y \in 1970..(date[1] - 1) |-> YearLength(y)])
        + SumOf([m \in 1..(date[2] - 1) |-> MonthLength(date[1], m)]) + date[3] - 1

\* A server that is asked to be left alone until some day is: the wait it is
\* given is the time to that day by the calendar, and nothing for a day that
\* is past ("若已过期则返回 Some(0)"), unless it is one before 1970.
WaitsUntilDate ==
    outcome.kind = "throttled" /\ reply.after.form = "date" /\ reply.after.date[1] >= 1970 =>
        outcome.after = Max({0, DaysSince1970(reply.after.date) - Today})
=============================================================================
