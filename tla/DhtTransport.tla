--------------------------- MODULE DhtTransport ---------------------------
(***************************************************************************)
(* DhtTransport: RPCs over UDP.  A caller registers a request id, sends a  *)
(* packet and waits for five seconds; the receive loop gives a packet to   *)
(* the caller registered under its id and takes every other one for a      *)
(* request of a peer.  Packets are lost, duplicated and reordered; peers   *)
(* count their own requests from 1, too.                                   *)
(***************************************************************************)
EXTENDS Naturals, FiniteSets

CONSTANTS
    Rpcs,         \* calls of send_rpc, find_node_rpc and of a lookup
    Known,        \* ids of the nodes in the routing table
    Strangers,    \* other ids
    MaxPerSecond, \* MAX_REQUESTS_PER_SEC
    PeerIds,      \* bound: the request ids peers use
    MaxDatagrams  \* bound on the packets under way when a peer asks

VARIABLES
    running,      \* running
    receiver,     \* whether a receive loop is running
    nextId,       \* next_request_id
    pendingIds,   \* keys of pending_requests, each with the call that registered it
    rpc,          \* a call: where it stands, its id, and whose packet it was given
    datagrams,    \* packets on their way to this node
    sentTo,       \* requests of this node on their way to a peer
    window,       \* request_count
    kept          \* the sender_ids under which a Store was accepted into local_store

dhtVars == <<running, receiver, nextId, pendingIds, rpc, datagrams, sentTo, window, kept>>

SenderIds == Known \cup Strangers
NoPacket == [form |-> "none", id |-> 0, from |-> "none"]

\* A packet that answers an RPC names it; one that asks carries the sender_id it
\* names.  A message without a signature is processed like any other, so that
\* nothing ties this id to the node that has sent the packet.
Response(c) == [form |-> "response", id |-> rpc[c].id, from |-> c]
Requested(kind, i, sender) == [form |-> kind, id |-> i, from |-> sender]
Packets ==
    [form : {"response"}, id : Nat, from : Rpcs] \cup [form : {"ask", "store"}, id : PeerIds, from : SenderIds]

TypeOK ==
    /\ running \in BOOLEAN /\ receiver \in BOOLEAN /\ nextId \in Nat
    /\ pendingIds \subseteq Nat \X Rpcs /\ kept \subseteq SenderIds /\ window \in 0..MaxPerSecond
    /\ rpc \in [Rpcs -> [pc : {"idle", "ready", "waiting", "ok", "failed", "timeout"}, id : Nat,
                         given : {NoPacket} \cup Packets]]
    /\ datagrams \subseteq Packets /\ sentTo \subseteq Rpcs

Init ==
    /\ running = TRUE /\ receiver = TRUE /\ nextId = 1
    /\ pendingIds = {} /\ datagrams = {} /\ sentTo = {} /\ window = 0 /\ kept = {}
    /\ rpc = [c \in Rpcs |-> [pc |-> "idle", id |-> 0, given |-> NoPacket]]

Registered(i) == {c \in Rpcs : <<i, c>> \in pendingIds}

-----------------------------------------------------------------------------
\* The counter is read and stored in two steps, and the second call read it before.
NextIdUnsynced(c) ==
    rpc[c].pc = "idle" /\ nextId' \in {nextId, nextId + 1}

\* The counter is read and moved in one step, by fetch_add.
NextId(c) == rpc[c].pc = "idle" /\ nextId' = nextId + 1

\* send_rpc() up to the send: an id, and the channel under it.
SendRpc(c) ==
    IF running
    THEN /\ NextId(c)
         /\ rpc' = [rpc EXCEPT ![c] = [pc |-> "ready", id |-> nextId, given |-> @.given]]
         /\ pendingIds' = {e \in pendingIds : e[1] # nextId} \cup {<<nextId, c>>}
         /\ UNCHANGED <<running, receiver, datagrams, sentTo, window, kept>>
    ELSE /\ rpc[c].pc = "idle"
         /\ rpc' = [rpc EXCEPT ![c].pc = "failed"]
         /\ UNCHANGED <<running, receiver, nextId, pendingIds, datagrams, sentTo, window, kept>>

\* The packet leaves, or an error leaves the channel where it is.
Transmit(c) ==
    /\ rpc[c].pc = "ready"
    /\ \/ rpc' = [rpc EXCEPT ![c].pc = "waiting"] /\ sentTo' = sentTo \cup {c}
       \/ rpc' = [rpc EXCEPT ![c].pc = "failed"] /\ UNCHANGED sentTo
    /\ UNCHANGED <<running, receiver, nextId, pendingIds, datagrams, window, kept>>

\* A call waits for its answer for ever.
TimeoutNever(c) == FALSE

\* Five seconds; the channel is taken out of the map.
Timeout(c) ==
    /\ rpc[c].pc = "waiting" /\ rpc[c].given = NoPacket
    /\ rpc' = [rpc EXCEPT ![c].pc = "timeout"]
    /\ pendingIds' = {e \in pendingIds : e[1] # rpc[c].id}
    /\ UNCHANGED <<running, receiver, nextId, datagrams, sentTo, window, kept>>

Answered(c) ==
    /\ rpc[c].pc = "waiting" /\ rpc[c].given # NoPacket
    /\ rpc' = [rpc EXCEPT ![c].pc = "ok"]
    /\ UNCHANGED <<running, receiver, nextId, pendingIds, datagrams, sentTo, window, kept>>

\* store_rpc() takes an id and waits for nothing.
StoreRpc(c) ==
    /\ NextId(c)
    /\ rpc' = [rpc EXCEPT ![c] = [pc |-> "ok", id |-> nextId, given |-> @.given]]
    /\ UNCHANGED <<running, receiver, pendingIds, datagrams, sentTo, window, kept>>

-----------------------------------------------------------------------------
(* The network and the peers.  A packet that is lost is never received.     *)

PeerAnswers(c) ==
    /\ c \in sentTo
    /\ datagrams' = datagrams \cup {Response(c)}
    /\ UNCHANGED <<running, receiver, nextId, pendingIds, rpc, sentTo, window, kept>>

\* Some peer asks, under any sender_id; which one makes a difference to Store only.
PeerAsks(sender, i, kind) ==
    /\ Cardinality(datagrams) < MaxDatagrams /\ (kind = "store" \/ sender \in Known)
    /\ datagrams' = datagrams \cup {Requested(kind, i, sender)}
    /\ UNCHANGED <<running, receiver, nextId, pendingIds, rpc, sentTo, window, kept>>

-----------------------------------------------------------------------------
\* process_incoming(): a request is answered, a late response is not, and a
\* Store is kept when the node that it names as its sender is known.
ProcessIncoming(d) ==
    kept' = IF d.form = "store" /\ d.from \in Known THEN kept \cup {d.from} ELSE kept

\* A round of the receive loop; the copy of a packet may come again.
Receive(d) ==
    /\ receiver /\ running /\ d \in datagrams
    /\ datagrams' \in {datagrams, datagrams \ {d}}
    /\ IF Registered(d.id) # {}
       THEN /\ pendingIds' = {e \in pendingIds : e[1] # d.id}
            /\ rpc' = [c \in Rpcs |-> IF c \in Registered(d.id) /\ rpc[c].pc \in {"ready", "waiting"}
                                      THEN [rpc[c] EXCEPT !.given = d] ELSE rpc[c]]
            /\ UNCHANGED <<window, kept>>
       ELSE /\ IF window < MaxPerSecond
               THEN window' = window + 1 /\ ProcessIncoming(d)
               ELSE UNCHANGED <<window, kept>>
            /\ UNCHANGED <<pendingIds, rpc>>
    /\ UNCHANGED <<running, receiver, nextId, sentTo>>

SecondPasses ==
    /\ window > 0
    /\ window' = 0
    /\ UNCHANGED <<running, receiver, nextId, pendingIds, rpc, datagrams, sentTo, kept>>

\* shutdown(), or the drop; the receive loop sees it after its next packet.
Shutdown ==
    /\ running
    /\ running' = FALSE
    /\ UNCHANGED <<receiver, nextId, pendingIds, rpc, datagrams, sentTo, window, kept>>

ReceiverEnds ==
    /\ receiver /\ ~running
    /\ receiver' = FALSE
    /\ UNCHANGED <<running, nextId, pendingIds, rpc, datagrams, sentTo, window, kept>>

Caller(c) == Transmit(c) \/ Timeout(c) \/ Answered(c)

Next ==
    \/ \E c \in Rpcs : SendRpc(c) \/ StoreRpc(c) \/ Caller(c) \/ PeerAnswers(c)
    \/ \E sender \in SenderIds, i \in PeerIds, kind \in {"ask", "store"} : PeerAsks(sender, i, kind)
    \/ \E d \in datagrams : Receive(d)
    \/ SecondPasses \/ Shutdown \/ ReceiverEnds

RpcWaits == \E c \in Rpcs : rpc[c].pc \in {"ready", "waiting"}

-----------------------------------------------------------------------------
\* The answer to one call is never given to another, however late it comes and
\* however often.
AnswersNotMixed == \A c \in Rpcs : rpc[c].given.form = "response" => rpc[c].given.from = c

\* What a call is given is a response: its id names one request only
\* ("分配唯一的 request ID", send_rpc).
OwnReply == \A c \in Rpcs : rpc[c].given.form \in {"none", "response"}
=============================================================================
