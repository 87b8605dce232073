---------------------------- MODULE QuicTransport ----------------------------
(***************************************************************************)
(* QuicTransport: one connection, one HTTP/3 sender behind a mutex, and a  *)
(* bounded cache of the hosts a TLS session may be resumed with.  connect  *)
(* has the transport to itself (&mut self), but requests that cloned the   *)
(* sender before go on.  Connections are numbered by the call of connect   *)
(* that made them, and the sender has the number of its connection.        *)
(***************************************************************************)
EXTENDS Naturals, FiniteSets, SequencesExt

CONSTANTS
    Servers,      \* hosts
    Requests,     \* calls of probe, download_range, download_full
    MaxTokens,    \* MAX_SESSION_TOKENS
    MaxConnects,  \* bound on the calls of connect
    Free

VARIABLES
    connects,     \* calls of connect so far
    connection,   \* number of the connection, 0 for none
    closed,       \* connections that were closed, by either side
    sender,       \* number of h3_send, 0 for none
    tokens,       \* hosts of session_tokens, oldest first
    expired,      \* those of them older than SESSION_TOKEN_TTL
    holder,       \* for each sender, the request that holds its mutex
    reqPc,        \* where a request stands
    reqOn         \* the sender it has cloned

quicVars == <<connects, connection, closed, sender, tokens, expired, holder, reqPc, reqOn>>

Numbers == 1..MaxConnects

TypeOK ==
    /\ connects \in 0..MaxConnects /\ connection \in 0..MaxConnects /\ sender \in 0..MaxConnects
    /\ closed \subseteq Numbers
    /\ IsInjective(tokens) /\ Range(tokens) \subseteq Servers /\ expired \subseteq Range(tokens)
    /\ holder \in [Numbers -> Requests \cup {Free}]
    /\ reqPc \in [Requests -> {"idle", "lock", "send", "response", "body", "returned"}]
    /\ reqOn \in [Requests -> 0..MaxConnects]

Init ==
    /\ connects = 0 /\ connection = 0 /\ closed = {} /\ sender = 0
    /\ tokens = <<>> /\ expired = {}
    /\ holder = [n \in Numbers |-> Free]
    /\ reqPc = [r \in Requests |-> "idle"] /\ reqOn = [r \in Requests |-> 0]

-----------------------------------------------------------------------------
\* The entries of s at some of its places, in their order.
PlaceOf(n, places) == CHOOSE i \in places : Cardinality({j \in places : j <= i}) = n
AtPlaces(s, places) == [n \in 1..Cardinality(places) |-> s[PlaceOf(n, places)]]

Without(seq, hosts) == AtPlaces(seq, {i \in DOMAIN seq : seq[i] \notin hosts})

HasValidSession(h) == h \in Range(tokens) \ expired

\* The handshake: the tokens it leaves, and whether it succeeds.  A session
\* that the server rejects is forgotten, and so is one that is too old.
Handshakes(h) ==
    IF HasValidSession(h)
    THEN {[tokens |-> tokens, ok |-> TRUE], [tokens |-> tokens, ok |-> FALSE],
          [tokens |-> Without(tokens, {h}), ok |-> TRUE], [tokens |-> Without(tokens, {h}), ok |-> FALSE]}
    ELSE {[tokens |-> tokens, ok |-> FALSE],
          [tokens |-> Without(tokens, {h}), ok |-> TRUE], [tokens |-> Without(tokens, {h}), ok |-> FALSE]}

\* A full cache loses what has expired and nothing else.
EvictedExpired(seq) == IF Len(seq) < MaxTokens THEN seq ELSE Without(seq, expired)

\* A full cache first loses what has expired, then the oldest entry.
Evicted(seq) ==
    IF Len(seq) < MaxTokens THEN seq
    ELSE LET valid == Without(seq, expired)
         IN  IF Len(valid) < MaxTokens THEN valid ELSE Tail(valid)

Remembered(seq, h) == IF Contains(seq, h) THEN seq ELSE Append(Evicted(seq), h)

\* connect(): a failure leaves the connection that was there; a failure to
\* start HTTP/3 leaves the new connection without a sender.  A server may show
\* no certificate to remember.
Connect(h) ==
    /\ connects < MaxConnects /\ connects' = connects + 1
    /\ \E shake \in Handshakes(h) :
        IF shake.ok
        THEN /\ connection' = connects'
             /\ sender' \in {0, connects'}
             /\ tokens' \in {shake.tokens, Remembered(shake.tokens, h)}
             /\ expired' = (expired \cap Range(tokens')) \ {h}
        ELSE /\ tokens' = shake.tokens /\ expired' = expired \cap Range(tokens')
             /\ UNCHANGED <<connection, sender>>
    /\ UNCHANGED <<closed, holder, reqPc, reqOn>>

\* disconnect(), also by Drop: the handles are given up, the connection closed.
Disconnect ==
    /\ connection # 0
    /\ closed' = closed \cup {connection}
    /\ connection' = 0 /\ sender' = 0
    /\ UNCHANGED <<connects, tokens, expired, holder, reqPc, reqOn>>

PeerCloses ==
    /\ connection # 0 /\ connection \notin closed
    /\ closed' = closed \cup {connection}
    /\ UNCHANGED <<connects, connection, sender, tokens, expired, holder, reqPc, reqOn>>

\* An hour passes for the oldest entry that is still valid.
Expires ==
    /\ \E i \in DOMAIN tokens :
        /\ tokens[i] \notin expired /\ \A j \in 1..(i - 1) : tokens[j] \in expired
        /\ expired' = expired \cup {tokens[i]}
    /\ UNCHANGED <<connects, connection, closed, sender, tokens, holder, reqPc, reqOn>>

CleanupExpiredSessions ==
    /\ expired # {}
    /\ tokens' = Without(tokens, expired) /\ expired' = {}
    /\ UNCHANGED <<connects, connection, closed, sender, holder, reqPc, reqOn>>

-----------------------------------------------------------------------------
ReqUnchanged == UNCHANGED <<connects, connection, closed, sender, tokens, expired>>

\* require_connection and require_h3_send, then the checks of the URL.
Request(r) ==
    /\ reqPc[r] = "idle"
    /\ IF connection # 0 /\ connection \notin closed /\ sender # 0
       THEN reqPc' = [reqPc EXCEPT ![r] = "lock"] /\ reqOn' = [reqOn EXCEPT ![r] = sender]
       ELSE reqPc' = [reqPc EXCEPT ![r] = "returned"] /\ UNCHANGED reqOn
    /\ UNCHANGED holder /\ ReqUnchanged

LockSender(r) ==
    /\ reqPc[r] = "lock" /\ holder[reqOn[r]] = Free
    /\ holder' = [holder EXCEPT ![reqOn[r]] = r]
    /\ reqPc' = [reqPc EXCEPT ![r] = "send"]
    /\ UNCHANGED reqOn /\ ReqUnchanged

\* send_request, whose error drops the guard of the mutex.
Send(r) ==
    /\ reqPc[r] = "send"
    /\ \/ /\ reqOn[r] \notin closed
          /\ reqPc' = [reqPc EXCEPT ![r] = "response"] /\ UNCHANGED holder
       \/ /\ reqPc' = [reqPc EXCEPT ![r] = "returned"]
          /\ holder' = [holder EXCEPT ![reqOn[r]] = Free]
    /\ UNCHANGED reqOn /\ ReqUnchanged

\* The head of the response, or an error: only then the mutex is released.
Response(r) ==
    /\ reqPc[r] = "response"
    /\ \E to \in {"body", "returned"} :
        /\ to = "body" => reqOn[r] \notin closed
        /\ reqPc' = [reqPc EXCEPT ![r] = to]
    /\ holder' = [holder EXCEPT ![reqOn[r]] = Free]
    /\ UNCHANGED reqOn /\ ReqUnchanged

\* The DATA frames up to the end, an empty one, an error, or the size limit.
Body(r) ==
    /\ reqPc[r] = "body"
    /\ reqPc' = [reqPc EXCEPT ![r] = "returned"]
    /\ UNCHANGED <<holder, reqOn>> /\ ReqUnchanged

\* The caller drops the future of a request, and with it the guard.
AbortRequest(r) ==
    /\ reqPc[r] \in {"lock", "send", "response", "body"}
    /\ reqPc' = [reqPc EXCEPT ![r] = "returned"]
    /\ holder' = [n \in Numbers |-> IF holder[n] = r THEN Free ELSE holder[n]]
    /\ UNCHANGED reqOn /\ ReqUnchanged

Serve(r) == LockSender(r) \/ Send(r) \/ Response(r) \/ Body(r)

Next ==
    \/ \E h \in Servers : Connect(h)
    \/ Disconnect \/ PeerCloses \/ Expires \/ CleanupExpiredSessions
    \/ \E r \in Requests : Request(r) \/ Serve(r) \/ AbortRequest(r)

-----------------------------------------------------------------------------
\* The session cache keeps to its limit whatever hosts are met, and a connect
\* that makes room drops a session that is still valid only when none has expired.
SessionCacheStep ==
    /\ Len(tokens') <= MaxTokens
    /\ \A h \in Range(tokens) \ expired :
        h \notin Range(tokens') /\ ~(Range(tokens') \subseteq Range(tokens)) => expired' = {}
=============================================================================
