-------------------------- MODULE MCServices_proofs --------------------------
(***************************************************************************)
(* Proofs about the components that a download calls on, in their          *)
(* composition, for all constants that satisfy ServicesAssumption and      *)
(* AddressAssumption.  Each component has an inductive invariant of its    *)
(* own, also those whose property is about what a function computes; at    *)
(* the end they are put together, part by part.                            *)
(***************************************************************************)
EXTENDS MCServices_grants_proofs

-----------------------------------------------------------------------------
(* The race of mirrors.                                                     *)

\* The winner of the probe, or the primary, is asked alone.
AloneInv ==
    /\ racePc = "winner" => /\ selected # Nobody
                            /\ \A s \in Mirror!Sources : s # selected => race[s] = "no"
    /\ racePc = "fast" => \A s \in Mirror!Sources : s # Primary => race[s] = "no"

MirrorInv == Mirror!TypeOK /\ AloneInv /\ Mirror!RaceDecided

LEMMA MirrorInit == Mirror!Init => MirrorInv
BY DEF Mirror!Init, Mirror!Nothing, Mirror!Sources, MirrorInv, AloneInv, Mirror!TypeOK,
       Mirror!RaceDecided

LEMMA MirrorStep == MirrorInv /\ [Mirror!Next]_(Mirror!mirrorVars) => MirrorInv'
<1> SUFFICES ASSUME MirrorInv, [Mirror!Next]_(Mirror!mirrorVars) PROVE MirrorInv'
  OBVIOUS
<1> USE DEF MirrorInv, Mirror!TypeOK, AloneInv, Mirror!RaceDecided, Mirror!Calling, Mirror!Asked
<1>1. CASE UNCHANGED Mirror!mirrorVars
  BY <1>1 DEF Mirror!mirrorVars
<1>2. CASE Mirror!Probe \/ Mirror!Download \/ Mirror!PrimaryGivenUp
  <2>1. Nobody \notin Mirror!Sources /\ Primary \in Mirror!Sources
    BY ServicesAssumption DEF Mirror!Sources
  <2> QED
    BY <1>2, <2>1 DEF Mirror!Probe, Mirror!Download, Mirror!PrimaryGivenUp, Mirror!Ask, Mirror!Own,
                      Mirror!OfPrimary
<1>3. ASSUME NEW s \in Mirror!Sources, Mirror!Reply(s) PROVE MirrorInv'
  BY <1>3 DEF Mirror!Reply
<1>4. ASSUME NEW s \in Mirror!Sources, Mirror!JoinWinner(s) PROVE MirrorInv'
  BY <1>4 DEF Mirror!JoinWinner, Mirror!AbortOthers
<1>5. CASE Mirror!AllLost \/ Mirror!WinnerAnswers \/ Mirror!PrimaryAnswers
  BY <1>5 DEF Mirror!AllLost, Mirror!WinnerAnswers, Mirror!PrimaryAnswers, Mirror!RaceOver,
              Mirror!Sources
<1>6. CASE Mirror!CallerDrops
  BY <1>6 DEF Mirror!CallerDrops, Mirror!Nothing
<1> QED
  BY <1>1, <1>2, <1>3, <1>4, <1>5, <1>6 DEF Mirror!Next, Mirror!Settle

-----------------------------------------------------------------------------
(* The calls of an FTP client.                                              *)

\* A connection is open while it is the one of the client, or not stored yet.
OpenInv == \A c \in open : c = ftpStream \/ ftpPc[c] = "install"

\* As long as the client has a connection, somebody is going to disconnect: a
\* call, or the guard of its stream; or a call was aborted.
StreamInv ==
    /\ ftpState # "Disconnected" => ftpStream # NoStream
    /\ ftpStream # NoStream =>
        \E c \in FtpCalls :
            \/ ftpPc[c] \in {"login", "command", "reading", "finalize", "disconnect", "aborted"}
            \/ c \in cleaner

FtpInv == Ftp!TypeOK /\ OpenInv /\ StreamInv

LEMMA FtpInit == Ftp!Init => FtpInv
BY ServicesAssumption DEF Ftp!Init, FtpInv, OpenInv, StreamInv, Ftp!TypeOK

LEMMA FtpStep == FtpInv /\ [Ftp!Next]_(Ftp!ftpVars) => FtpInv'
<1> SUFFICES ASSUME FtpInv, [Ftp!Next]_(Ftp!ftpVars) PROVE FtpInv'
  OBVIOUS
<1> USE DEF FtpInv, Ftp!TypeOK, OpenInv, StreamInv, Ftp!At, Ftp!To
<1>1. CASE UNCHANGED Ftp!ftpVars
  BY <1>1 DEF Ftp!ftpVars
<1>2. ASSUME NEW c \in FtpCalls, Ftp!Begin(c) \/ Ftp!Connected(c) PROVE FtpInv'
  BY <1>2 DEF Ftp!Begin, Ftp!Connected
<1>3. ASSUME NEW c \in FtpCalls, Ftp!Install(c) PROVE FtpInv'
  BY <1>3, ServicesAssumption DEF Ftp!Install
<1>4. ASSUME NEW c \in FtpCalls, Ftp!Login(c) PROVE FtpInv'
  BY <1>4 DEF Ftp!Login
<1>5. ASSUME NEW c \in FtpCalls, Ftp!Command(c) PROVE FtpInv'
  BY <1>5 DEF Ftp!Command
<1>6. ASSUME NEW c \in FtpCalls, Ftp!StreamEnds(c) \/ Ftp!Finalize(c) PROVE FtpInv'
  BY <1>6 DEF Ftp!StreamEnds, Ftp!Finalize
<1>7. ASSUME NEW c \in FtpCalls, Ftp!Leave(c) \/ Ftp!Clean(c) PROVE FtpInv'
  BY <1>7 DEF Ftp!Leave, Ftp!Clean, Ftp!Disconnect
<1>8. ASSUME NEW c \in FtpCalls, Ftp!DropStream(c) PROVE FtpInv'
  BY <1>8 DEF Ftp!DropStream, Ftp!Guarded
<1>9. ASSUME NEW c \in FtpCalls, Ftp!AbortCall(c) PROVE FtpInv'
  BY <1>9 DEF Ftp!AbortCall
<1> QED
  BY <1>1, <1>2, <1>3, <1>4, <1>5, <1>6, <1>7, <1>8, <1>9 DEF Ftp!Next, Ftp!Proceed

LEMMA FtpPromises == FtpInv => Ftp!NoConnectionLeft
<1>1. NoStream \notin FtpCalls
  BY ServicesAssumption
<1> QED
  BY <1>1 DEF FtpInv, Ftp!TypeOK, OpenInv, StreamInv, Ftp!NoConnectionLeft

-----------------------------------------------------------------------------
(* The RPCs of a DHT node.                                                  *)

\* No two calls have one id, and those that are registered, sent or answered
\* have the id they were given.
RpcIdsInv ==
    /\ \A c \in Rpcs : /\ rpc[c].id < nextId
                       /\ rpc[c].pc = "idle" => rpc[c].id = 0
                       /\ rpc[c].pc = "ready" => rpc[c].id # 0
    /\ \A c, d \in Rpcs : c # d /\ rpc[c].id # 0 => rpc[c].id # rpc[d].id
    /\ \A e \in pendingIds : e[1] # 0 /\ rpc[e[2]].id = e[1]
    /\ \A c \in sentTo : rpc[c].id # 0

\* A response on its way has the id of the call it names.
ResponseInv ==
    \A d \in datagrams : d.form = "response" => d.from \in Rpcs /\ d.id # 0 /\ rpc[d.from].id = d.id

RpcInv == Rpc!TypeOK /\ nextId # 0 /\ RpcIdsInv /\ ResponseInv /\ Rpc!AnswersNotMixed

LEMMA RpcInit == Rpc!Init => RpcInv
BY ServicesAssumption DEF Rpc!Init, RpcInv, RpcIdsInv, ResponseInv, Rpc!AnswersNotMixed, Rpc!TypeOK,
                          Rpc!NoPacket

LEMMA RpcStep == RpcInv /\ [Rpc!Next]_(Rpc!dhtVars) => RpcInv'
<1> SUFFICES ASSUME RpcInv, [Rpc!Next]_(Rpc!dhtVars) PROVE RpcInv'
  OBVIOUS
<1> DEFINE CallRecord == [pc : {"idle", "ready", "waiting", "ok", "failed", "timeout"}, id : Nat,
                      given : {Rpc!NoPacket} \cup Rpc!Packets]
<1> USE DEF RpcInv, RpcIdsInv, ResponseInv
<1>a. (\A e \in pendingIds : e[2] \in Rpcs) /\ sentTo \subseteq Rpcs
  BY DEF Rpc!TypeOK
<1>1. CASE UNCHANGED Rpc!dhtVars
  BY <1>1 DEF Rpc!dhtVars, Rpc!TypeOK, Rpc!AnswersNotMixed
<1>2. ASSUME NEW c \in Rpcs, Rpc!SendRpc(c) \/ Rpc!StoreRpc(c) PROVE RpcInv'
  <2>1. UNCHANGED <<running, receiver, datagrams, sentTo, window, kept>>
    BY <1>2 DEF Rpc!SendRpc, Rpc!StoreRpc
  <2>2. rpc[c].pc = "idle" /\ rpc[c].id = 0
    BY <1>2 DEF Rpc!SendRpc, Rpc!StoreRpc, Rpc!NextId
  <2>3. CASE nextId' = nextId
    <3>1. nextId \in Nat /\ rpc \in [Rpcs -> CallRecord]
      BY DEF Rpc!TypeOK
    <3>2. rpc' = [rpc EXCEPT ![c].pc = "failed"] /\ pendingIds' = pendingIds
      BY <1>2, <2>3, <3>1 DEF Rpc!SendRpc, Rpc!StoreRpc, Rpc!NextId
    <3>3. rpc' \in [Rpcs -> CallRecord] /\ \A d \in Rpcs : rpc'[d].id = rpc[d].id /\ rpc'[d].given = rpc[d].given
                    /\ (d # c => rpc'[d].pc = rpc[d].pc) /\ rpc'[c].pc = "failed"
      BY <3>1, <3>2
    <3>4. Rpc!TypeOK' /\ Rpc!AnswersNotMixed'
      BY <2>1, <2>3, <3>2, <3>3 DEF Rpc!TypeOK, Rpc!AnswersNotMixed
    <3>5. RpcIdsInv' /\ ResponseInv'
      BY <2>1, <2>3, <3>2, <3>3 DEF Rpc!TypeOK
    <3> QED
      BY <2>3, <3>4, <3>5
  <2>4. CASE nextId' # nextId
    <3>1. nextId \in Nat /\ rpc \in [Rpcs -> CallRecord]
      BY DEF Rpc!TypeOK
    <3>2. /\ nextId' = nextId + 1
          /\ \E pc1 \in {"ready", "ok"} : rpc' = [rpc EXCEPT ![c] = [pc |-> pc1, id |-> nextId, given |-> @.given]]
          /\ pendingIds' \subseteq pendingIds \cup {<<nextId, c>>}
      BY <1>2, <2>4 DEF Rpc!SendRpc, Rpc!StoreRpc, Rpc!NextId
    <3>3. /\ rpc' \in [Rpcs -> CallRecord]
          /\ \A d \in Rpcs : rpc'[d].given = rpc[d].given /\ (d # c => rpc'[d] = rpc[d])
          /\ rpc'[c].id = nextId /\ rpc'[c].pc # "idle"
      BY <3>1, <3>2
    <3>4. Rpc!TypeOK' /\ Rpc!AnswersNotMixed'
      BY <2>1, <3>1, <3>2, <3>3 DEF Rpc!TypeOK, Rpc!AnswersNotMixed
    <3>5. \A e \in pendingIds : e[2] # c /\ e[2] \in Rpcs /\ e[1] # 0 /\ rpc[e[2]].id = e[1]
      BY <2>2 DEF Rpc!TypeOK
    <3>6. \A e \in pendingIds' : e[1] # 0 /\ rpc'[e[2]].id = e[1]
      BY <3>2, <3>3, <3>5
    <3>7. /\ \A d \in Rpcs : rpc'[d].id < nextId' /\ (rpc'[d].pc = "idle" => rpc'[d].id = 0)
                           /\ (rpc'[d].pc = "ready" => rpc'[d].id # 0)
          /\ \A d, f \in Rpcs : d # f /\ rpc'[d].id # 0 => rpc'[d].id # rpc'[f].id
      BY <3>1, <3>2, <3>3
    <3>8. \A d \in sentTo' : rpc'[d].id # 0
      BY <2>1, <2>2, <3>3 DEF Rpc!TypeOK
    <3>9. ResponseInv'
      BY <2>1, <2>2, <3>3
    <3> QED
      BY <3>1, <3>2, <3>4, <3>6, <3>7, <3>8, <3>9
  <2> QED
    BY <2>3, <2>4
<1>3. ASSUME NEW c \in Rpcs, Rpc!Caller(c) PROVE RpcInv'
  <2>1. UNCHANGED <<running, receiver, nextId, datagrams, window, kept>>
    BY <1>3 DEF Rpc!Caller, Rpc!Transmit, Rpc!Timeout, Rpc!Answered
  <2>2. /\ rpc[c].pc # "idle" /\ pendingIds' \subseteq pendingIds
        /\ sentTo' = sentTo \/ (rpc[c].pc = "ready" /\ sentTo' = sentTo \cup {c})
        /\ \E pc1 \in {"waiting", "failed", "timeout", "ok"} : rpc' = [rpc EXCEPT ![c].pc = pc1]
    BY <1>3 DEF Rpc!Caller, Rpc!Transmit, Rpc!Timeout, Rpc!Answered
  <2>3. /\ rpc' \in [Rpcs -> CallRecord]
        /\ \A d \in Rpcs : rpc'[d].id = rpc[d].id /\ rpc'[d].given = rpc[d].given
                             /\ (d # c => rpc'[d].pc = rpc[d].pc)
        /\ rpc'[c].pc \notin {"idle", "ready"}
    BY <2>2 DEF Rpc!TypeOK
  <2>4. Rpc!TypeOK' /\ Rpc!AnswersNotMixed'
    BY <2>1, <2>2, <2>3 DEF Rpc!TypeOK, Rpc!AnswersNotMixed
  <2>5. RpcIdsInv' /\ ResponseInv'
    BY <2>1, <2>2, <2>3 DEF Rpc!TypeOK
  <2> QED
    BY <2>1, <2>4, <2>5
<1>4. ASSUME NEW c \in Rpcs, Rpc!PeerAnswers(c) PROVE RpcInv'
  <2>1. /\ UNCHANGED <<running, receiver, nextId, pendingIds, rpc, sentTo, window, kept>>
        /\ rpc[c].id # 0 /\ rpc[c].id \in Nat
        /\ datagrams' = datagrams \cup {[form |-> "response", id |-> rpc[c].id, from |-> c]}
    BY <1>4 DEF Rpc!PeerAnswers, Rpc!Response, Rpc!TypeOK
  <2>2. datagrams' \subseteq Rpc!Packets
    BY <2>1 DEF Rpc!TypeOK, Rpc!Packets
  <2>3. Rpc!TypeOK' /\ Rpc!AnswersNotMixed'
    BY <2>1, <2>2 DEF Rpc!TypeOK, Rpc!AnswersNotMixed
  <2>4. ResponseInv'
    BY <2>1
  <2> QED
    BY <2>1, <2>3, <2>4
<1>5. ASSUME NEW p \in Rpc!SenderIds, NEW i \in PeerIds, NEW kind \in {"ask", "store"}, Rpc!PeerAsks(p, i, kind)
      PROVE  RpcInv'
  <2>1. /\ UNCHANGED <<running, receiver, nextId, pendingIds, rpc, sentTo, window, kept>>
        /\ datagrams' = datagrams \cup {[form |-> kind, id |-> i, from |-> p]}
    BY <1>5 DEF Rpc!PeerAsks, Rpc!Requested
  <2>2. datagrams' \subseteq Rpc!Packets
    BY <2>1 DEF Rpc!TypeOK, Rpc!Packets
  <2>3. Rpc!TypeOK' /\ Rpc!AnswersNotMixed'
    BY <2>1, <2>2 DEF Rpc!TypeOK, Rpc!AnswersNotMixed
  <2>4. ResponseInv'
    BY <2>1
  <2> QED
    BY <2>1, <2>3, <2>4
<1>6. ASSUME NEW d \in datagrams, Rpc!Receive(d) PROVE RpcInv'
  <2>1. /\ UNCHANGED <<running, receiver, nextId, sentTo>> /\ datagrams' \subseteq datagrams
        /\ pendingIds' \subseteq pendingIds /\ d \in Rpc!Packets
    BY <1>6 DEF Rpc!Receive, Rpc!TypeOK
  <2>2. CASE Rpc!Registered(d.id) # {}
    <3>1. /\ rpc' = [c \in Rpcs |-> IF c \in Rpc!Registered(d.id) /\ rpc[c].pc \in {"ready", "waiting"}
                                    THEN [rpc[c] EXCEPT !.given = d] ELSE rpc[c]]
          /\ UNCHANGED <<window, kept>>
      BY <1>6, <2>2 DEF Rpc!Receive
    <3>2. \A c \in Rpcs : /\ rpc'[c].id = rpc[c].id /\ rpc'[c].pc = rpc[c].pc
                          /\ rpc'[c].given = rpc[c].given \/ (c \in Rpc!Registered(d.id) /\ rpc'[c].given = d)
      BY <3>1 DEF Rpc!TypeOK
    <3>3. rpc' \in [Rpcs -> CallRecord]
      BY <2>1, <3>1 DEF Rpc!TypeOK
    <3>4. Rpc!TypeOK'
      BY <2>1, <3>1, <3>3 DEF Rpc!TypeOK
    <3>5. ASSUME NEW c \in Rpcs, rpc'[c].given.form = "response" PROVE rpc'[c].given.from = c
      <4>1. CASE rpc'[c].given = rpc[c].given
        BY <3>5, <4>1 DEF Rpc!AnswersNotMixed
      <4>2. CASE c \in Rpc!Registered(d.id) /\ rpc'[c].given = d
        <5>1. <<d.id, c>> \in pendingIds
          BY <4>2 DEF Rpc!Registered
        <5>2. rpc[c].id = d.id
          BY <5>1
        <5>3. d.from \in Rpcs /\ d.id # 0 /\ rpc[d.from].id = d.id
          BY <3>5, <4>2
        <5> QED
          BY <4>2, <5>2, <5>3
      <4> QED
        BY <3>2, <4>1, <4>2
    <3>6. Rpc!AnswersNotMixed'
      BY <3>1, <3>5 DEF Rpc!AnswersNotMixed
    <3>7. \A c \in Rpcs : rpc'[c].id = rpc[c].id /\ rpc'[c].pc = rpc[c].pc
      <4> HIDE DEF RpcInv
      <4> QED
        BY <3>2
    <3>8. \A e \in pendingIds' : e[1] # 0 /\ rpc'[e[2]].id = e[1]
      BY <1>a, <2>1, <3>7
    <3>9. RpcIdsInv'
      <4> HIDE DEF ResponseInv
      <4>1. \A c \in sentTo' : rpc'[c].id # 0
        BY <1>a, <2>1, <3>7
      <4> QED
        BY <2>1, <3>7, <3>8, <4>1
    <3>10. ResponseInv'
      <4> HIDE DEF RpcIdsInv
      <4> QED
        BY <2>1, <3>7
    <3> QED
      BY <2>1, <3>4, <3>6, <3>9, <3>10
  <2>3. CASE Rpc!Registered(d.id) = {}
    <3>1. /\ rpc' = rpc /\ window' \in {window, window + 1} /\ (window' = window \/ window < MaxPerSecond)
          /\ kept' = kept \/ (d.from \in Known /\ kept' = kept \cup {d.from})
      BY <1>6, <2>3 DEF Rpc!Receive, Rpc!ProcessIncoming
    <3>2. window' \in 0..MaxPerSecond /\ kept' \subseteq Rpc!SenderIds
      BY <3>1, ServicesAssumption DEF Rpc!TypeOK, Rpc!SenderIds
    <3>3. Rpc!TypeOK' /\ Rpc!AnswersNotMixed'
      BY <2>1, <3>1, <3>2 DEF Rpc!TypeOK, Rpc!AnswersNotMixed, Rpc!SenderIds
    <3>4. RpcIdsInv' /\ ResponseInv'
      BY <2>1, <3>1
    <3> QED
      BY <2>1, <3>3, <3>4
  <2> QED
    BY <2>2, <2>3
<1>7. CASE Rpc!SecondPasses \/ Rpc!Shutdown \/ Rpc!ReceiverEnds
  <2>1. /\ UNCHANGED <<nextId, pendingIds, rpc, datagrams, sentTo, kept>>
        /\ window' \in {0, window} /\ running' \in {FALSE, running} /\ receiver' \in {FALSE, receiver}
    BY <1>7 DEF Rpc!SecondPasses, Rpc!Shutdown, Rpc!ReceiverEnds
  <2>2. window' \in 0..MaxPerSecond
    BY <2>1, ServicesAssumption DEF Rpc!TypeOK
  <2> QED
    BY <2>1, <2>2 DEF Rpc!TypeOK, Rpc!AnswersNotMixed
<1> QED
  BY <1>1, <1>2, <1>3, <1>4, <1>5, <1>6, <1>7 DEF Rpc!Next

-----------------------------------------------------------------------------
(* The signatures of DHT messages.                                          *)

\* The signature of the node a body names.
SignatureOf(body) == [key |-> body.sender, over |-> Sign!Message(body, Sign!Unsigned)]

\* Whatever is on its way has no signature or that of a body that was sent,
\* and its own if it was not damaged.
PacketInv ==
    packet # Sign!NoMessage =>
        /\ packet.body \in Sign!Bodies /\ packet.intact \in BOOLEAN
        /\ packet.signature = Sign!Unsigned \/ \E body \in sent : packet.signature = SignatureOf(body)
        /\ packet.intact => packet.signature \in {Sign!Unsigned, SignatureOf(packet.body)}

SignInv == sent \subseteq Sign!Bodies /\ PacketInv /\ Sign!SignedAsSent

\* What a body is signed with once, it is signed with twice.
LEMMA SignedOnce ==
    \A body, m : m.body = body => Sign!SignMessage(body.sender, m) = SignatureOf(body)
BY DEF Sign!SignMessage, Sign!Cleared, Sign!Message, SignatureOf

LEMMA SignInit == Sign!Init => SignInv
BY DEF Sign!Init, SignInv, PacketInv, Sign!SignedAsSent

LEMMA SignStep == SignInv /\ [Sign!Next]_(Sign!signVars) => SignInv'
<1> SUFFICES ASSUME SignInv, [Sign!Next]_(Sign!signVars) PROVE SignInv'
  OBVIOUS
<1>1. CASE UNCHANGED Sign!signVars
  BY <1>1 DEF Sign!signVars, SignInv, PacketInv, Sign!SignedAsSent
<1>2. ASSUME NEW body \in Sign!Bodies, NEW twice \in BOOLEAN, Sign!Send(body, twice) PROVE SignInv'
  <2> DEFINE once == Sign!Message(body, SignatureOf(body))
  <2>1. once.body = body /\ Sign!Message(body, Sign!Unsigned).body = body
    BY DEF Sign!Message
  <2>2. /\ sent' = sent \cup {body} /\ UNCHANGED <<taken, discarded>>
        /\ packet' = [body |-> body, signature |-> SignatureOf(body), intact |-> TRUE]
    BY <1>2, <2>1, SignedOnce DEF Sign!Send, Sign!OnItsWay, Sign!Message
  <2> QED
    BY <2>2 DEF SignInv, PacketInv, Sign!SignedAsSent
<1>3. ASSUME NEW body \in Sign!Bodies, Sign!SendUnsigned(body) PROVE SignInv'
  <2>1. /\ sent' = sent \cup {body} /\ UNCHANGED <<taken, discarded>>
        /\ packet' = [body |-> body, signature |-> Sign!Unsigned, intact |-> TRUE]
    BY <1>3 DEF Sign!SendUnsigned, Sign!OnItsWay, Sign!Message
  <2> QED
    BY <2>1 DEF SignInv, PacketInv, Sign!SignedAsSent
<1>4. CASE Sign!Damage
  <2>1. packet # Sign!NoMessage /\ packet.signature # Sign!Unsigned /\ UNCHANGED <<sent, taken, discarded>>
    BY <1>4 DEF Sign!Damage
  <2>2. PICK body, signature :
          /\ body \in Sign!Bodies
          /\ packet' = [body |-> body, signature |-> signature, intact |-> FALSE]
          /\ signature = packet.signature \/ \E b \in sent : signature = SignatureOf(b)
    <3>1. CASE \E body \in Sign!Bodies \ {packet.body} :
                   packet' = Sign!OnItsWay(Sign!Message(body, packet.signature), FALSE)
      BY <3>1 DEF Sign!OnItsWay, Sign!Message
    <3>2. CASE \E body \in sent \ {packet.body} :
                   packet' = Sign!OnItsWay(Sign!Message(packet.body, Sign!SignMessage(body.sender,
                                               Sign!Message(body, Sign!Unsigned))), FALSE)
      <4>1. PICK body \in sent :
                   packet' = Sign!OnItsWay(Sign!Message(packet.body, Sign!SignMessage(body.sender,
                                               Sign!Message(body, Sign!Unsigned))), FALSE)
        BY <3>2
      <4>2. Sign!SignMessage(body.sender, Sign!Message(body, Sign!Unsigned)) = SignatureOf(body)
        BY SignedOnce DEF Sign!Message
      <4>3. packet' = [body |-> packet.body, signature |-> SignatureOf(body), intact |-> FALSE]
        BY <4>1, <4>2 DEF Sign!OnItsWay, Sign!Message
      <4> QED
        BY <2>1, <4>3 DEF SignInv, PacketInv
    <3> QED
      BY <1>4, <3>1, <3>2 DEF Sign!Damage
  <2>3. \E b \in sent : signature = SignatureOf(b)
    BY <2>1, <2>2 DEF SignInv, PacketInv
  <2> QED
    BY <2>1, <2>2, <2>3 DEF SignInv, PacketInv, Sign!SignedAsSent
<1>5. CASE Sign!Receive
  <2>1. packet # Sign!NoMessage /\ packet' = Sign!NoMessage /\ sent' = sent
    BY <1>5 DEF Sign!Receive
  <2>2. PacketInv'
    BY <2>1 DEF PacketInv, Sign!NoMessage
  <2>3. CASE Sign!Passes(packet)
    <3>1. taken' = packet /\ discarded' = discarded
      BY <1>5, <2>3 DEF Sign!Receive
    <3>2. ASSUME packet.signature # Sign!Unsigned PROVE packet.body \in sent
      <4>1. packet.signature.over = Sign!Message(packet.body, Sign!Unsigned)
        BY <2>3, <3>2 DEF Sign!Passes, Sign!VerifyMessage, Sign!Cleared
      <4>2. PICK body \in sent : packet.signature = SignatureOf(body)
        BY <2>1, <3>2 DEF SignInv, PacketInv
      <4>3. body = packet.body
        BY <4>1, <4>2 DEF SignatureOf, Sign!Message
      <4> QED
        BY <4>3
    <3> QED
      BY <2>1, <2>2, <3>1, <3>2 DEF SignInv, Sign!SignedAsSent
  <2>4. CASE ~Sign!Passes(packet)
    <3>1. taken' = taken /\ discarded' = packet
      BY <1>5, <2>4 DEF Sign!Receive
    <3>2. packet.signature # SignatureOf(packet.body) /\ packet.signature # Sign!Unsigned
      BY <2>4 DEF Sign!Passes, Sign!VerifyMessage, SignatureOf, Sign!Cleared, Sign!NodeIdOf
    <3>3. ~packet.intact
      BY <2>1, <3>2 DEF SignInv, PacketInv
    <3> QED
      BY <2>1, <2>2, <3>1, <3>3 DEF SignInv, Sign!SignedAsSent
  <2> QED
    BY <2>3, <2>4
<1> QED
  BY <1>1, <1>2, <1>3, <1>4, <1>5 DEF Sign!Next

-----------------------------------------------------------------------------
(* Sequences.                                                               *)

\* What the places of a sequence are after Append and Tail.
LEMMA Appended ==
    ASSUME NEW S, NEW s \in Seq(S), NEW e \in S
    PROVE  /\ Append(s, e) \in Seq(S)
           /\ DOMAIN Append(s, e) = (DOMAIN s) \cup {Len(s) + 1} /\ Len(s) + 1 \notin DOMAIN s
           /\ \A i \in DOMAIN s : Append(s, e)[i] = s[i]
           /\ Append(s, e)[Len(s) + 1] = e
OBVIOUS

LEMMA Tailed ==
    ASSUME NEW S, NEW s \in Seq(S), s # <<>>
    PROVE  /\ Tail(s) \in Seq(S) /\ 1 \in DOMAIN s /\ Head(s) = s[1] /\ Head(s) \in S
           /\ \A i \in DOMAIN Tail(s) : i + 1 \in DOMAIN s /\ Tail(s)[i] = s[i + 1] /\ i + 1 # 1
           /\ \A i, j \in DOMAIN Tail(s) : i + 1 = j + 1 => i = j
OBVIOUS

-----------------------------------------------------------------------------
(* The queue of the task scheduler.                                         *)

Entries == [id : Jobs, priority : Priorities, length : Lengths, progress : Progresses, version : Nat]

\* The entry of a task is in the heap.
IndexInv == \A j \in DOMAIN index : j \in Jobs /\ index[j].id = j /\ index[j] \in heap

\* A version names an entry: of those in the heap, and of the one popped last.
VersionInv ==
    /\ heap \subseteq Entries
    /\ \A e \in heap : e.version < nextVersion
    /\ \A d, e \in heap : d.version = e.version => d = e
    /\ popped # Queue!Nothing =>
        /\ popped \in Entries /\ popped.version < nextVersion
        /\ \A e \in heap : e.version = popped.version => e = popped

QueueInv == nextVersion \in Nat /\ IndexInv /\ VersionInv

LEMMA QueueInit == Queue!Init => QueueInv
BY DEF Queue!Init, QueueInv, IndexInv, VersionInv

\* An insert of an entry with a version of its own.
LEMMA InsertKeeps ==
    ASSUME QueueInv, NEW j \in Jobs, NEW entry \in Entries, entry.id = j, entry.version = nextVersion,
           Queue!Insert(j, entry)
    PROVE  QueueInv' /\ Queue!QueueStep
<1>1. /\ heap' = heap \cup {entry} /\ nextVersion' = nextVersion + 1 /\ popped' = popped
      /\ index' = [k \in DOMAIN index \cup {j} |-> IF k = j THEN entry ELSE index[k]]
  BY DEF Queue!Insert, Queue!With
<1>2. IndexInv'
  BY <1>1 DEF QueueInv, IndexInv
<1>3. VersionInv' /\ nextVersion' \in Nat
  BY <1>1 DEF QueueInv, VersionInv, Entries
<1>4. Queue!QueueStep
  BY <1>1 DEF Queue!QueueStep, Queue!Ranked!Step, Queue!Ranked!PutAny, Queue!Ranked!Put
<1> QED
  BY <1>2, <1>3, <1>4 DEF QueueInv

\* The entry that pop takes is the one of its task, since versions are unique,
\* and no other task that waits is before it, since its entry is in the heap.
LEMMA PopKeeps == QueueInv /\ Queue!Pop => QueueInv' /\ Queue!QueueStep
<1> SUFFICES ASSUME QueueInv, Queue!Pop PROVE QueueInv' /\ Queue!QueueStep
  OBVIOUS
<1>1. ASSUME NEW e \in heap, Queue!Current(e), \A d \in heap : Queue!Current(d) => ~Queue!Greater(d, e),
             NEW stale \in SUBSET {d \in heap : /\ ~Queue!Current(d)
                                               /\ ~Queue!Greater(d, e) /\ ~Queue!Greater(e, d)},
             heap' = {d \in heap \ {e} : ~Queue!Greater(d, e)} \ stale,
             index' = Queue!Without(e.id), popped' = e, nextVersion' = nextVersion
      PROVE  QueueInv' /\ Queue!QueueStep
  <2>1. /\ e.id \in DOMAIN index /\ e.id \in Jobs /\ index[e.id] = e
    BY <1>1 DEF Queue!Current, QueueInv, IndexInv, VersionInv
  <2>2. index' = [k \in DOMAIN index \ {e.id} |-> index[k]]
    BY <1>1 DEF Queue!Without
  <2>3. ASSUME NEW k \in DOMAIN index \ {e.id}
        PROVE  /\ k \in Jobs /\ index[k].id = k /\ index[k] \in heap /\ index[k] # e
               /\ Queue!Current(index[k]) /\ ~Queue!Greater(index[k], e)
    BY <1>1, <2>1 DEF Queue!Current, QueueInv, IndexInv
  <2>4. \A k \in DOMAIN index \ {e.id} : index[k] \in heap'
    BY <1>1, <2>3
  <2>5. IndexInv'
    BY <2>2, <2>3, <2>4 DEF IndexInv
  <2>6. heap' \subseteq heap /\ e \notin heap'
    BY <1>1
  <2>7. VersionInv' /\ nextVersion' \in Nat
    BY <1>1, <2>6 DEF QueueInv, VersionInv
  <2>8. Queue!Ranked!Take(e.id)
    BY <1>1, <2>1, <2>2, <2>3 DEF Queue!Ranked!Take
  <2> QED
    BY <2>1, <2>5, <2>7, <2>8 DEF QueueInv, Queue!QueueStep, Queue!Ranked!Step
<1>2. ASSUME \A e \in heap : ~Queue!Current(e), heap' = {}, UNCHANGED <<index, nextVersion, popped>>
      PROVE  QueueInv' /\ Queue!QueueStep
  <2>1. DOMAIN index = {}
    BY <1>2 DEF QueueInv, IndexInv, Queue!Current
  <2> QED
    BY <1>2, <2>1 DEF QueueInv, IndexInv, VersionInv, Queue!QueueStep
<1> QED
  BY <1>1, <1>2 DEF Queue!Pop

\* A step of the scheduler is a step of the queue.
LEMMA QueueKeeps ==
    QueueInv /\ [Queue!Next]_(Queue!queueVars) => QueueInv' /\ Queue!QueueStep
<1> SUFFICES ASSUME QueueInv, [Queue!Next]_(Queue!queueVars) PROVE QueueInv' /\ Queue!QueueStep
  OBVIOUS
<1>1. CASE UNCHANGED Queue!queueVars
  BY <1>1 DEF Queue!queueVars, QueueInv, IndexInv, VersionInv, Queue!QueueStep
<1>2. ASSUME NEW j \in Jobs, NEW p \in Priorities, NEW l \in Lengths, NEW g \in Progresses,
             Queue!Push(j, p, l, g)
      PROVE  QueueInv' /\ Queue!QueueStep
  BY <1>2, InsertKeeps DEF Queue!Push, Queue!Entry, Entries, QueueInv
<1>3. ASSUME NEW j \in Jobs, NEW p \in Priorities, Queue!UpdatePriority(j, p)
      PROVE  QueueInv' /\ Queue!QueueStep
  <2> DEFINE entry == [index[j] EXCEPT !.priority = p, !.version = nextVersion]
  <2>1. index[j] \in Entries /\ index[j].id = j
    BY <1>3 DEF Queue!UpdatePriority, QueueInv, IndexInv, VersionInv
  <2>2. entry \in Entries /\ entry.id = j /\ entry.version = nextVersion
    BY <2>1 DEF QueueInv, Entries
  <2> QED
    BY <1>3, <2>2, InsertKeeps DEF Queue!UpdatePriority
<1>4. ASSUME NEW j \in Jobs, NEW g \in Progresses, Queue!UpdateProgress(j, g)
      PROVE  QueueInv' /\ Queue!QueueStep
  <2> DEFINE entry == [index[j] EXCEPT !.progress = g, !.version = nextVersion]
  <2>1. index[j] \in Entries /\ index[j].id = j
    BY <1>4 DEF Queue!UpdateProgress, QueueInv, IndexInv, VersionInv
  <2>2. entry \in Entries /\ entry.id = j /\ entry.version = nextVersion
    BY <2>1 DEF QueueInv, Entries
  <2> QED
    BY <1>4, <2>2, InsertKeeps DEF Queue!UpdateProgress
<1>5. ASSUME NEW j \in Jobs, Queue!Remove(j) PROVE QueueInv' /\ Queue!QueueStep
  BY <1>5 DEF Queue!Remove, Queue!Without, QueueInv, IndexInv, VersionInv, Queue!QueueStep,
              Queue!Ranked!Step, Queue!Ranked!Drop
<1>6. CASE Queue!PushAgain
  <2>1. /\ popped \in Entries /\ heap' = heap \cup {popped} /\ UNCHANGED <<nextVersion, popped>>
        /\ index' = [k \in DOMAIN index \cup {popped.id} |-> IF k = popped.id THEN popped ELSE index[k]]
    BY <1>6 DEF Queue!PushAgain, Queue!With, QueueInv, VersionInv
  <2>2. popped.id \in Jobs
    BY <2>1 DEF Entries
  <2>3. QueueInv'
    BY <1>6, <2>1, <2>2 DEF Queue!PushAgain, QueueInv, IndexInv, VersionInv
  <2>4. Queue!QueueStep
    BY <2>1, <2>2 DEF Queue!QueueStep, Queue!Ranked!Step, Queue!Ranked!PutAny, Queue!Ranked!Put
  <2> QED
    BY <2>3, <2>4
<1> QED
  BY <1>1, <1>2, <1>3, <1>4, <1>5, <1>6, PopKeeps DEF Queue!Next

-----------------------------------------------------------------------------
(* What the window knows of the tasks.                                      *)

Rows == [ViewTasks -> View!Statuses \cup {"none"}]
Values == [from : View!Senders \cup {"list"}, rows : Rows]

ViewTypes ==
    /\ shared \in [ViewTasks -> {"active", "stopped", "none"}]
    /\ private \in [ViewTasks -> Rows] /\ latest \in Values /\ events \in Seq(Values)
    /\ run \in [ViewTasks -> {"none", "runs", "ended", "gone"}]
    /\ recorded \in [ViewTasks -> [View!Senders -> {0, 1}]]

\* A value that says of t, in the name of s, that it has completed.
SaysDone(item, t, s) == item.rows[t] = "completed" /\ item.from = s
Announced(t, s) == \E i \in DOMAIN events : SaysDone(events[i], t, s)

\* The sender of a completion has sent it: the monitor after the run has ended
\* and after the last test that found the task on its way.
Sent(t, s) ==
    IF s = "monitor" THEN run[t] \in {"ended", "gone"} /\ t \notin tested ELSE run[t] = "gone"

\* A sender tells once that t has completed: what it said is in the channel, on
\* its way to the window, or in the history.
OnceInv(t, s) ==
    /\ ~Sent(t, s) => recorded[t][s] = 0 /\ ~SaysDone(latest, t, s) /\ ~Announced(t, s)
    /\ recorded[t][s] = 1 \/ SaysDone(latest, t, s) \/ Announced(t, s) => private[t][t] = "completed"
    /\ recorded[t][s] = 1 => ~SaysDone(latest, t, s) /\ ~Announced(t, s)
    /\ SaysDone(latest, t, s) => ~Announced(t, s)
    /\ \A i, j \in DOMAIN events : SaysDone(events[i], t, s) /\ SaysDone(events[j], t, s) => i = j

\* No other task_fn, and no reply, says of t that it has completed.
OwnInv(t) ==
    /\ \A u \in ViewTasks \ {t} : private[u][t] # "completed"
    /\ run[t] \in {"none", "runs"} => private[t][t] # "completed"
    /\ ~SaysDone(latest, t, "list") /\ ~Announced(t, "list")

ViewInv ==
    /\ ViewTypes
    /\ \A t \in ViewTasks : OwnInv(t) /\ \A s \in View!Senders : OnceInv(t, s)

LEMMA ViewInit == View!Init => ViewInv
<1> SUFFICES ASSUME View!Init PROVE ViewInv
  OBVIOUS
<1>1. \A S : <<>> \in Seq(S) /\ DOMAIN <<>> = {}
  OBVIOUS
<1>2. /\ View!NoRows \in Rows /\ View!NoValue \in Values
      /\ \A t \in ViewTasks : View!NoRows[t] = "none" /\ View!NoValue.rows[t] = "none"
  BY DEF Rows, Values, View!NoRows, View!NoValue, View!Value
<1>3. ViewTypes
  BY <1>1, <1>2 DEF View!Init, ViewTypes, View!NoRows
<1>4. ASSUME NEW t \in ViewTasks PROVE OwnInv(t)
  BY <1>1, <1>2 DEF View!Init, OwnInv, Announced, SaysDone
<1>5. ASSUME NEW t \in ViewTasks, NEW s \in View!Senders PROVE OnceInv(t, s)
  BY <1>1, <1>2 DEF View!Init, OnceInv, Announced, SaysDone
<1> QED
  BY <1>3, <1>4, <1>5 DEF ViewInv

\* What the parts of the invariant are about.
LEMMA ViewSame ==
    ASSUME ViewInv, UNCHANGED <<shared, private, run, tested, latest, events, recorded>>
    PROVE  ViewInv'
BY DEF ViewInv, ViewTypes, OwnInv, OnceInv, Announced, SaysDone, Sent

\* The backend: rows are made, cancelled, deleted and come to their end, and a
\* monitor finds its task on its way.
LEMMA BackendKeeps ==
    ASSUME ViewInv, NEW t \in ViewTasks, NEW status \in {"completed", "stopped"},
           \/ View!Create(t) \/ View!Cancel(t) \/ View!Delete(t) \/ View!Ends(t, status)
           \/ View!MonitorTests(t)
    PROVE  ViewInv'
<1>1. UNCHANGED <<latest, events, recorded>>
  BY DEF View!Create, View!Cancel, View!Delete, View!Ends, View!MonitorTests,
         View!channelVars, View!windowVars
<1>2. \A u : \A s : SaysDone(latest, u, s)' = SaysDone(latest, u, s) /\ Announced(u, s)' = Announced(u, s)
  BY <1>1 DEF Announced, SaysDone
<1>3. CASE View!Create(t)
  <2>1. /\ run[t] = "none" /\ shared' = [shared EXCEPT ![t] = "active"] /\ tested' = tested
        /\ private' = [private EXCEPT ![t] = shared'] /\ run' = [run EXCEPT ![t] = "runs"]
    BY <1>3 DEF View!Create
  <2>2. /\ shared' \in [ViewTasks -> {"active", "stopped", "none"}] /\ shared' \in Rows
        /\ \A u \in ViewTasks : shared'[u] # "completed"
    BY <2>1 DEF ViewInv, ViewTypes, Rows, View!Statuses
  <2>3. ViewTypes'
    BY <1>1, <2>1, <2>2 DEF ViewInv, ViewTypes
  <2>4. \A u \in ViewTasks : OwnInv(u)'
    BY <1>2, <2>1, <2>2 DEF ViewInv, ViewTypes, OwnInv
  <2>5. \A u \in ViewTasks, s \in View!Senders : OnceInv(u, s)'
    BY <1>1, <1>2, <2>1, <2>2 DEF ViewInv, ViewTypes, OnceInv, Sent, View!Senders, SaysDone
  <2> QED
    BY <2>3, <2>4, <2>5 DEF ViewInv
<1>4. CASE View!Cancel(t) \/ View!Delete(t)
  <2>1. /\ \E s \in {"stopped", "none"} : shared' = [shared EXCEPT ![t] = s]
        /\ UNCHANGED <<private, run, tested>>
    BY <1>4 DEF View!Cancel, View!Delete
  <2> QED
    BY <1>1, <2>1 DEF ViewInv, ViewTypes, OwnInv, OnceInv, Sent, Announced, SaysDone
<1>5. CASE View!Ends(t, status)
  <2>1. /\ run[t] = "runs" /\ UNCHANGED <<shared, tested>> /\ run' = [run EXCEPT ![t] = "ended"]
        /\ private' = [private EXCEPT ![t] = [private[t] EXCEPT ![t] = status]]
    BY <1>5 DEF View!Ends
  <2>2. [private[t] EXCEPT ![t] = status] \in Rows
    BY DEF ViewInv, ViewTypes, Rows, View!Statuses
  <2>3. ViewTypes'
    BY <1>1, <2>1, <2>2 DEF ViewInv, ViewTypes
  <2>4. \A u \in ViewTasks : OwnInv(u)'
    BY <1>2, <2>1 DEF ViewInv, ViewTypes, OwnInv, Rows
  <2>5. ASSUME NEW u \in ViewTasks, NEW s \in View!Senders PROVE OnceInv(u, s)'
    <3>1. OnceInv(u, s) /\ OwnInv(u)
      BY DEF ViewInv
    <3>2. u = t => ~Sent(u, s)
      BY <2>1 DEF Sent, View!Senders
    <3>3. u # t => Sent(u, s)' = Sent(u, s) /\ private'[u][u] = private[u][u]
      BY <2>1 DEF Sent, ViewInv, ViewTypes
    <3> QED
      BY <1>1, <1>2, <2>1, <3>1, <3>2, <3>3 DEF OnceInv, SaysDone
  <2> QED
    BY <2>3, <2>4, <2>5 DEF ViewInv
<1>6. CASE View!MonitorTests(t)
  <2>1. /\ run[t] \in {"runs", "ended"} /\ private[t][t] # "completed"
        /\ tested' = tested \cup {t} /\ UNCHANGED <<shared, private, run>>
    BY <1>6 DEF View!MonitorTests, View!MonitorGoesOn
  <2>2. ViewTypes' /\ \A u \in ViewTasks : OwnInv(u)'
    BY <1>1, <1>2, <2>1 DEF ViewInv, ViewTypes, OwnInv
  <2>3. ASSUME NEW u \in ViewTasks, NEW s \in View!Senders PROVE OnceInv(u, s)'
    <3>1. OnceInv(u, s) /\ recorded[u][s] \in {0, 1}
      BY DEF ViewInv, ViewTypes
    <3>2. Sent(u, s)' => Sent(u, s)
      BY <2>1 DEF Sent
    <3>3. u = t => recorded[u][s] = 0 /\ ~SaysDone(latest, u, s) /\ ~Announced(u, s)
      BY <2>1, <3>1 DEF OnceInv
    <3>4. u # t => Sent(u, s)' = Sent(u, s)
      BY <2>1 DEF Sent
    <3> QED
      BY <1>1, <1>2, <2>1, <3>1, <3>2, <3>3, <3>4 DEF OnceInv, SaysDone
  <2> QED
    BY <2>2, <2>3 DEF ViewInv
<1> QED
  BY <1>3, <1>4, <1>5, <1>6

\* A sender that has not told of its completion sends rows: they are the new
\* value of the channel, or nothing changes.
LEMMA SendKeeps ==
    ASSUME ViewInv, NEW listed \in Rows, NEW t \in ViewTasks, NEW author \in View!Senders,
           View!Send(author, listed), ~Sent(t, author),
           UNCHANGED <<shared, private, events, recorded>>,
           \A u \in ViewTasks \ {t} : listed[u] # "completed",
           listed[t] = "completed" => private[t][t] = "completed" /\ Sent(t, author)',
           \A u \in ViewTasks, s \in View!Senders : Sent(u, s) => Sent(u, s)',
           run' \in [ViewTasks -> {"none", "runs", "ended", "gone"}],
           \A u \in ViewTasks : run'[u] \in {"none", "runs"} => run[u] = run'[u]
    PROVE  ViewInv'
<1>1. latest' = latest \/ latest' = [from |-> author, rows |-> listed]
  BY DEF View!Send, View!Value, View!channelVars
<1>2. latest' \in Values
  BY <1>1 DEF Values, ViewInv, ViewTypes
<1>3. ViewTypes'
  BY <1>2 DEF ViewInv, ViewTypes
<1>4. \A u : \A s : Announced(u, s)' = Announced(u, s)
  BY DEF Announced, SaysDone
<1>5. ASSUME NEW u \in ViewTasks, NEW s, SaysDone(latest, u, s)', ~SaysDone(latest, u, s)
      PROVE  u = t /\ s = author /\ listed[t] = "completed"
  BY <1>1, <1>5 DEF SaysDone
<1>6. ASSUME NEW u \in ViewTasks PROVE OwnInv(u)'
  BY <1>4, <1>5 DEF ViewInv, OwnInv, View!Senders
<1>7. ASSUME NEW u \in ViewTasks, NEW s \in View!Senders PROVE OnceInv(u, s)'
  <2>1. OnceInv(u, s) /\ OnceInv(t, author)
    BY DEF ViewInv
  <2>2. \A i \in DOMAIN events : SaysDone(events[i], u, s)' = SaysDone(events[i], u, s)
    BY DEF SaysDone
  <2> QED
    BY <1>4, <1>5, <2>1, <2>2 DEF OnceInv
<1> QED
  BY <1>3, <1>6, <1>7 DEF ViewInv

LEMMA ViewStep == ViewInv /\ [View!Next]_(View!viewVars) => ViewInv'
<1> SUFFICES ASSUME ViewInv, [View!Next]_(View!viewVars) PROVE ViewInv'
  OBVIOUS
<1>2. ASSUME NEW t \in ViewTasks, View!MonitorSends(t) PROVE ViewInv'
  <2> DEFINE listed == [View!NoRows EXCEPT ![t] = private[t][t]]
  <2>1. /\ t \in tested /\ tested' = tested \ {t} /\ View!Send("monitor", listed)
        /\ UNCHANGED <<shared, private, run, events, recorded>>
    BY <1>2 DEF View!MonitorSends, View!Row, View!windowVars
  <2>2. /\ listed \in Rows /\ listed[t] = private[t][t]
        /\ \A u \in ViewTasks \ {t} : listed[u] # "completed"
    BY DEF ViewInv, ViewTypes, Rows, View!NoRows
  <2>3. private[t][t] = "completed" => run[t] \in {"ended", "gone"}
    BY DEF ViewInv, ViewTypes, OwnInv
  <2>4. /\ ~Sent(t, "monitor") /\ \A u \in ViewTasks, s \in View!Senders : Sent(u, s) => Sent(u, s)'
        /\ private[t][t] = "completed" => Sent(t, "monitor")'
    BY <2>1, <2>3 DEF Sent
  <2>5. /\ run' \in [ViewTasks -> {"none", "runs", "ended", "gone"}] /\ "monitor" \in View!Senders
        /\ \A u \in ViewTasks : run'[u] \in {"none", "runs"} => run[u] = run'[u]
    BY <2>1 DEF ViewInv, ViewTypes, View!Senders
  <2> HIDE DEF listed
  <2> QED
    BY <2>1, <2>2, <2>4, <2>5, SendKeeps
<1>3. ASSUME NEW t \in ViewTasks, View!LastEvent(t) PROVE ViewInv'
  <2>1. /\ run[t] = "ended" /\ View!Send("last", private[t]) /\ run' = [run EXCEPT ![t] = "gone"]
        /\ UNCHANGED <<shared, private, tested, events, recorded>>
    BY <1>3 DEF View!LastEvent, View!windowVars
  <2>2. private[t] \in Rows /\ \A u \in ViewTasks \ {t} : private[t][u] # "completed"
    BY DEF ViewInv, ViewTypes, OwnInv
  <2>3. /\ run' \in [ViewTasks -> {"none", "runs", "ended", "gone"}] /\ "last" \in View!Senders
        /\ \A u \in ViewTasks : run'[u] = IF u = t THEN "gone" ELSE run[u]
    BY <2>1 DEF ViewInv, ViewTypes, View!Senders
  <2>4. /\ ~Sent(t, "last") /\ Sent(t, "last")'
        /\ \A u \in ViewTasks, s \in View!Senders : Sent(u, s) => Sent(u, s)'
    BY <2>1, <2>3 DEF Sent
  <2> QED
    BY <2>1, <2>2, <2>3, <2>4, SendKeeps
<1>4. CASE View!Subscribe \/ View!Forward
  <2>1. PICK item \in {[from |-> "list", rows |-> shared], latest} :
          /\ events' = Append(events, item) /\ UNCHANGED <<shared, private, run, tested, recorded>>
          /\ \/ item = [from |-> "list", rows |-> shared] /\ latest' = latest
             \/ item = latest /\ latest' = [from |-> "list", rows |-> View!NoRows]
    BY <1>4 DEF View!Subscribe, View!Forward, View!Value, View!NoValue, View!backendVars, View!windowVars
  <2>2. /\ shared \in Rows /\ View!NoRows \in Rows
        /\ \A u \in ViewTasks : View!NoRows[u] # "completed" /\ shared[u] # "completed"
    BY DEF ViewInv, ViewTypes, Rows, View!NoRows, View!Statuses
  <2>3. item \in Values /\ latest' \in Values /\ events \in Seq(Values)
    BY <2>1, <2>2 DEF ViewInv, ViewTypes, Values
  <2>4. /\ events' \in Seq(Values)
        /\ DOMAIN events' = (DOMAIN events) \cup {Len(events) + 1} /\ Len(events) + 1 \notin DOMAIN events
        /\ \A i \in DOMAIN events : events'[i] = events[i]
        /\ events'[Len(events) + 1] = item
    <3> HIDE DEF Values
    <3> QED
      BY <2>1, <2>3, Appended
  <2>5. ViewTypes'
    BY <2>1, <2>3, <2>4 DEF ViewInv, ViewTypes
  <2>6. \A u \in ViewTasks : \A s : Announced(u, s)' <=> Announced(u, s) \/ SaysDone(item, u, s)
    BY <2>4 DEF Announced, SaysDone
  <2>7. \A u \in ViewTasks : \A s :
            \/ ~SaysDone(item, u, s) /\ (SaysDone(latest, u, s)' => SaysDone(latest, u, s))
            \/ SaysDone(item, u, s) /\ SaysDone(latest, u, s) /\ ~SaysDone(latest, u, s)'
    BY <2>1, <2>2 DEF SaysDone
  <2>8. ASSUME NEW u \in ViewTasks PROVE OwnInv(u)'
    BY <2>1, <2>6, <2>7 DEF ViewInv, OwnInv
  <2>9. ASSUME NEW u \in ViewTasks, NEW s \in View!Senders PROVE OnceInv(u, s)'
    <3>1. OnceInv(u, s) /\ (Sent(u, s)' = Sent(u, s))
      BY <2>1 DEF ViewInv, Sent
    <3>2. \A i, j \in DOMAIN events' : SaysDone(events'[i], u, s) /\ SaysDone(events'[j], u, s) => i = j
      BY <2>4, <2>7, <3>1 DEF OnceInv, Announced, SaysDone
    <3> QED
      BY <2>1, <2>6, <2>7, <3>1, <3>2 DEF OnceInv, SaysDone
  <2> QED
    BY <2>5, <2>8, <2>9 DEF ViewInv
<1>5. CASE View!Refresh \/ \E arrived \in replies : View!ShowReply(arrived)
  BY <1>5, ViewSame
     DEF View!Refresh, View!ShowReply, View!backendVars, View!channelVars, View!windowVars
<1>6. CASE View!ShowEvent
  <2> DEFINE item == events[1]
  <2>1. /\ events # <<>> /\ events' = Tail(events) /\ UNCHANGED <<shared, private, run, tested, latest>>
        /\ recorded' = [t \in ViewTasks |->
               IF View!RecordedNow(t, Head(events).rows) /\ Head(events).rows[t] = "completed"
               THEN [recorded[t] EXCEPT ![Head(events).from] = @ + 1] ELSE recorded[t]]
    BY <1>6 DEF View!ShowEvent, View!backendVars, View!channelVars
  <2>2. /\ events' \in Seq(Values) /\ 1 \in DOMAIN events /\ Head(events) = item
        /\ \A i \in DOMAIN events' : i + 1 \in DOMAIN events /\ events'[i] = events[i + 1] /\ i + 1 # 1
        /\ \A i, j \in DOMAIN events' : i + 1 = j + 1 => i = j
    BY <2>1, Tailed DEF ViewInv, ViewTypes
  <2> HIDE DEF item
  <2>3. ASSUME NEW u \in ViewTasks
        PROVE  \/ recorded'[u] = recorded[u]
               \/ /\ item.from \in View!Senders /\ SaysDone(item, u, item.from)
                  /\ recorded'[u] = [recorded[u] EXCEPT ![item.from] = @ + 1]
    <3>1. item \in Values /\ OwnInv(u)
      BY <2>2 DEF ViewInv, ViewTypes, item
    <3>2. ~SaysDone(item, u, "list")
      BY <2>2, <3>1 DEF OwnInv, Announced, item
    <3> QED
      BY <2>1, <2>2, <3>1, <3>2 DEF Values, SaysDone
  <2>4. ASSUME NEW u \in ViewTasks, NEW s \in View!Senders
        PROVE  \/ recorded'[u][s] = recorded[u][s]
               \/ SaysDone(item, u, s) /\ recorded[u][s] = 0 /\ recorded'[u][s] = 1
    <3>1. recorded[u] \in [View!Senders -> {0, 1}] /\ OnceInv(u, s)
      BY DEF ViewInv, ViewTypes
    <3>2. SaysDone(item, u, s) => recorded[u][s] = 0
      BY <2>2, <3>1 DEF OnceInv, Announced, item
    <3>3. recorded'[u] = [recorded[u] EXCEPT ![item.from] = @ + 1] =>
             recorded'[u][s] = IF s = item.from THEN recorded[u][s] + 1 ELSE recorded[u][s]
      BY <3>1
    <3> QED
      BY <2>3, <3>1, <3>2, <3>3
  <2>5. recorded' \in [ViewTasks -> [View!Senders -> {0, 1}]]
    <3>1. \A u \in ViewTasks : recorded'[u] \in [View!Senders -> {0, 1}]
      <4> SUFFICES ASSUME NEW u \in ViewTasks PROVE recorded'[u] \in [View!Senders -> {0, 1}]
        OBVIOUS
      <4>1. recorded[u] \in [View!Senders -> {0, 1}]
        BY DEF ViewInv, ViewTypes
      <4>2. recorded'[u] = [s \in View!Senders |-> recorded'[u][s]]
        BY <2>3, <4>1
      <4>3. \A s \in View!Senders : recorded'[u][s] \in {0, 1}
        BY <2>4, <4>1
      <4> QED
        BY <4>2, <4>3
    <3>2. recorded' = [u \in ViewTasks |-> recorded'[u]]
      BY <2>1
    <3> QED
      BY <3>1, <3>2
  <2>6. ViewTypes'
    BY <2>1, <2>2, <2>5 DEF ViewInv, ViewTypes
  <2>7. \A u \in ViewTasks : \A s : (Announced(u, s)' => Announced(u, s)) /\ (SaysDone(item, u, s) => Announced(u, s))
    BY <2>2 DEF Announced, SaysDone, item
  <2>8. ASSUME NEW u \in ViewTasks PROVE OwnInv(u)'
    BY <2>1, <2>7 DEF ViewInv, OwnInv, SaysDone
  <2>9. ASSUME NEW u \in ViewTasks, NEW s \in View!Senders PROVE OnceInv(u, s)'
    <3>1. OnceInv(u, s) /\ Sent(u, s)' = Sent(u, s) /\ SaysDone(latest, u, s)' = SaysDone(latest, u, s)
      BY <2>1 DEF ViewInv, Sent, SaysDone
    <3>2. /\ \A i, j \in DOMAIN events' : SaysDone(events'[i], u, s) /\ SaysDone(events'[j], u, s) => i = j
          /\ SaysDone(item, u, s) => ~Announced(u, s)'
      BY <2>2, <3>1 DEF OnceInv, Announced, SaysDone, item
    <3> QED
      BY <2>1, <2>4, <2>7, <3>1, <3>2 DEF OnceInv, SaysDone
  <2> QED
    BY <2>6, <2>8, <2>9 DEF ViewInv
<1>7. CASE UNCHANGED View!viewVars
  BY <1>7, ViewSame DEF View!viewVars, View!backendVars, View!channelVars, View!windowVars
<1>8. CASE \E t \in ViewTasks : \/ View!Create(t) \/ View!Cancel(t) \/ View!Delete(t)
                                \/ View!Ends(t, "completed") \/ View!Ends(t, "stopped")
                                \/ View!MonitorTests(t)
  BY <1>8, BackendKeeps
<1> QED
  BY <1>2, <1>3, <1>4, <1>5, <1>6, <1>7, <1>8 DEF View!Next

LEMMA ViewPromises == ViewInv => View!RecordedAsAnnounced
BY DEF ViewInv, ViewTypes, OnceInv, View!RecordedAsAnnounced

-----------------------------------------------------------------------------
(* The list of the sniffer.                                                 *)

\* URLs as they are shown.
Shows == {Sniff!Shown(url) : url \in Urls}

\* The list is the end of what was captured.
NewestInv ==
    /\ Len(resources) <= MaxResources /\ Len(resources) <= Len(captured)
    /\ \A i \in 1..Len(resources) : resources[i] = captured[Len(captured) - Len(resources) + i]

OnceListed ==
    \A i, j \in DOMAIN resources :
        resources[i] = resources[j] /\ resources[i].token = NoToken => i = j

SniffInv ==
    /\ passing \in [Pages -> Urls \cup {NoPage}]
    /\ resources \in Seq(Shows) /\ captured \in Seq(Shows)
    /\ NewestInv /\ OnceListed

\* A URL that is shown without a token is shown as it is.
LEMMA ShownAsIs == \A url \in Urls : Sniff!Shown(url).token = NoToken => Sniff!Shown(url) = url
BY ServicesAssumption DEF Sniff!Shown

LEMMA SniffInit == Sniff!Init => SniffInv
<1>1. \A S : <<>> \in Seq(S) /\ DOMAIN <<>> = {} /\ Len(<<>>) = 0
  OBVIOUS
<1> QED
  BY <1>1, ServicesAssumption DEF Sniff!Init, SniffInv, NewestInv, OnceListed

\* The list after a URL was added to it: without its first, if it was full.
LEMMA RoomIsEnd ==
    ASSUME SniffInv
    PROVE  /\ Sniff!Room(resources) \in Seq(Shows)
           /\ Len(Sniff!Room(resources)) < MaxResources /\ Len(Sniff!Room(resources)) <= Len(captured)
           /\ \E n \in {0, 1} : /\ Len(Sniff!Room(resources)) = Len(resources) - n
                                /\ \A i \in 1..Len(Sniff!Room(resources)) :
                                       Sniff!Room(resources)[i] = resources[i + n]
<1>1. /\ resources \in Seq(Shows) /\ captured \in Seq(Shows) /\ MaxResources \in Nat \ {0}
      /\ Len(resources) <= MaxResources /\ Len(resources) <= Len(captured)
      /\ Len(resources) \in Nat /\ Len(captured) \in Nat
  BY ServicesAssumption DEF SniffInv, NewestInv
<1> HIDE DEF Shows
<1>2. CASE Len(resources) >= MaxResources
  <2>1. resources # <<>>
    BY <1>1, <1>2
  <2>2. /\ Tail(resources) \in Seq(Shows) /\ Len(Tail(resources)) = Len(resources) - 1
        /\ \A i \in 1..Len(Tail(resources)) : Tail(resources)[i] = resources[i + 1]
    BY <1>1, <2>1
  <2> QED
    BY <1>1, <1>2, <2>2 DEF Sniff!Room
<1>3. CASE ~(Len(resources) >= MaxResources)
  BY <1>1, <1>3 DEF Sniff!Room
<1> QED
  BY <1>2, <1>3

LEMMA AddKeeps ==
    ASSUME SniffInv, NEW p \in Pages, Sniff!Add(p)
    PROVE  SniffInv'
<1> DEFINE url == passing[p]
           entry == Sniff!Shown(url)
           list == Sniff!Room(resources)
<1>1. /\ url \in Urls /\ passing' = [passing EXCEPT ![p] = NoPage] /\ UNCHANGED <<filters, managed>>
      /\ passing' \in [Pages -> Urls \cup {NoPage}]
  BY DEF Sniff!Add, SniffInv
<1>2. CASE Sniff!Listed(url)
  BY <1>1, <1>2 DEF Sniff!Add, SniffInv, NewestInv, OnceListed
<1>3. CASE ~Sniff!Listed(url)
  <2>1. resources' = Append(list, entry) /\ captured' = Append(captured, entry)
    BY <1>3 DEF Sniff!Add
  <2>2. entry \in Shows /\ (entry.token = NoToken => entry = url)
    BY <1>1, ShownAsIs DEF Shows
  <2>3. PICK n \in {0, 1} : /\ Len(list) = Len(resources) - n
                            /\ \A i \in 1..Len(list) : list[i] = resources[i + n]
    BY RoomIsEnd
  <2>4. /\ list \in Seq(Shows) /\ Len(list) < MaxResources /\ Len(list) <= Len(captured)
        /\ MaxResources \in Nat
    BY RoomIsEnd, ServicesAssumption
  <2>5. /\ resources \in Seq(Shows) /\ captured \in Seq(Shows)
        /\ Len(resources) <= Len(captured) /\ OnceListed
        /\ \A i \in 1..Len(resources) : resources[i] = captured[Len(captured) - Len(resources) + i]
        /\ \A i \in 1..Len(resources) : resources[i] # url
    <3>1. DOMAIN resources = 1..Len(resources)
      BY DEF SniffInv
    <3> HIDE DEF Shows
    <3>2. \A i \in 1..Len(resources) : resources[i] # url
      BY <1>3, <3>1 DEF Sniff!Listed
    <3> QED
      BY <3>2 DEF SniffInv, NewestInv
  <2> HIDE DEF list, entry, url, Shows
  <2>6. /\ resources' \in Seq(Shows) /\ Len(resources') = Len(list) + 1
        /\ \A i \in 1..Len(list) : resources'[i] = list[i]
        /\ resources'[Len(list) + 1] = entry
    BY <2>1, <2>2, <2>4
  <2>7. /\ captured' \in Seq(Shows) /\ Len(captured') = Len(captured) + 1
        /\ \A i \in 1..Len(captured) : captured'[i] = captured[i]
        /\ captured'[Len(captured) + 1] = entry
    BY <2>1, <2>2, <2>5
  <2>8. Len(list) \in Nat /\ Len(captured) \in Nat /\ Len(resources) \in Nat
    BY <2>4, <2>5
  <2>9. Len(resources') <= MaxResources /\ Len(resources') <= Len(captured')
    BY <2>4, <2>6, <2>7, <2>8
  <2>14. /\ Len(captured') = Len(captured) + 1 /\ Len(resources') = Len(resources) - n + 1
         /\ Len(captured) \in Int /\ Len(resources) \in Int /\ n \in Int
    BY <2>3, <2>6, <2>7, <2>8
  <2>10. ASSUME NEW i \in 1..Len(resources')
         PROVE  resources'[i] = captured'[Len(captured') - Len(resources') + i]
    <3>1. CASE i = Len(list) + 1
      <4>1. Len(captured') - Len(resources') + i = Len(captured) + 1
        BY <2>6, <2>7, <2>8, <3>1
      <4> QED
        BY <2>6, <2>7, <3>1, <4>1
    <3>2. CASE i # Len(list) + 1
      <4>1. i \in 1..Len(list) /\ i + n \in 1..Len(resources)
        BY <2>3, <2>6, <2>8, <3>2
      <4>2. Len(captured') - Len(resources') + i = Len(captured) - Len(resources) + (i + n)
        <5>1. i \in Int
          BY <4>1
        <5> QED
          BY <2>14, <5>1
      <4>3. Len(captured) - Len(resources) + (i + n) \in 1..Len(captured)
        BY <2>5, <2>8, <4>1
      <4>4. resources'[i] = resources[i + n]
        BY <2>3, <2>6, <4>1
      <4>5. resources[i + n] = captured[Len(captured) - Len(resources) + (i + n)]
        BY <2>5, <4>1
      <4> QED
        BY <2>7, <4>2, <4>3, <4>4, <4>5
    <3> QED
      BY <3>1, <3>2
  <2>11. DOMAIN resources' = 1..Len(list) + 1 /\ DOMAIN resources = 1..Len(resources)
    BY <2>5, <2>6
  <2>12. \A i \in 1..Len(list) : i + n \in 1..Len(resources) /\ resources'[i] = resources[i + n]
    BY <2>3, <2>6, <2>8
  <2>13. OnceListed'
    <3> SUFFICES ASSUME NEW i \in DOMAIN resources', NEW j \in DOMAIN resources',
                        resources'[i] = resources'[j], resources'[i].token = NoToken, i # j
                 PROVE  FALSE
      BY DEF OnceListed
    <3>1. CASE i \in 1..Len(list) /\ j \in 1..Len(list)
      <4>1. /\ i + n \in DOMAIN resources /\ j + n \in DOMAIN resources
            /\ resources[i + n] = resources[j + n] /\ resources[i + n].token = NoToken
        BY <2>11, <2>12, <3>1
      <4>2. i + n = j + n
        BY <2>5, <4>1 DEF OnceListed
      <4> QED
        BY <2>8, <3>1, <4>2
    <3>2. CASE ~(i \in 1..Len(list) /\ j \in 1..Len(list))
      <4>1. PICK k \in 1..Len(list) : resources'[k] = entry
        BY <2>6, <2>8, <2>11, <3>2
      <4>2. entry = url
        BY <2>2, <2>6, <2>8, <2>11, <3>2
      <4> QED
        BY <2>5, <2>12, <4>1, <4>2
    <3> QED
      BY <3>1, <3>2
  <2> QED
    BY <1>1, <2>6, <2>7, <2>9, <2>10, <2>13 DEF SniffInv, NewestInv
<1> QED
  BY <1>2, <1>3

LEMMA SniffStep == SniffInv /\ [Sniff!Next]_(Sniff!sniffVars) => SniffInv'
<1> SUFFICES ASSUME SniffInv, [Sniff!Next]_(Sniff!sniffVars) PROVE SniffInv'
  OBVIOUS
<1>1. ASSUME NEW p \in Pages, NEW url \in Urls, Sniff!Check(p, url) PROVE SniffInv'
  BY <1>1 DEF Sniff!Check, SniffInv, NewestInv, OnceListed
<1>2. CASE UNCHANGED <<passing, resources, captured>>
  BY <1>2 DEF SniffInv, NewestInv, OnceListed
<1> QED
  BY <1>1, <1>2, AddKeeps
     DEF Sniff!Next, Sniff!AddFilter, Sniff!OnRequest, Sniff!Forget, Sniff!sniffVars

LEMMA SniffPromises == SniffInv => Sniff!SnifferKept
<1> SUFFICES ASSUME SniffInv PROVE Sniff!SnifferKept
  OBVIOUS
<1> DEFINE n == Len(captured)
           end == SubSeq(captured, n - Len(resources) + 1, n)
<1>1. /\ resources \in Seq(Shows) /\ captured \in Seq(Shows) /\ n \in Nat /\ Len(resources) \in Nat
      /\ Len(resources) <= n
      /\ \A i \in 1..Len(resources) : resources[i] = captured[n - Len(resources) + i]
  BY DEF SniffInv, NewestInv
<1> HIDE DEF Shows
<1>2. n - Len(resources) + 1 \in 1..n + 1
  BY <1>1
<1>3. end = [i \in 1..Len(resources) |-> captured[n - Len(resources) + i]]
  BY <1>1, <1>2
<1>4. resources = [i \in 1..Len(resources) |-> resources[i]]
  BY <1>1
<1>5. resources = end
  BY <1>1, <1>3, <1>4
<1> QED
  BY <1>5 DEF SniffInv, NewestInv, OnceListed, Sniff!SnifferKept

-----------------------------------------------------------------------------
(* The lookup of the DHT.                                                   *)

\* What a lookup knows; a round without anything new has asked the nearest.
LookupInv ==
    /\ found \subseteq Lookup!Nodes /\ news \in BOOLEAN /\ value \in BOOLEAN
    /\ lookupPc = "joining" /\ ~news => Lookup!Nearest(found, Alpha) \subseteq queried
    /\ lookupPc = "local" => goal = "store"
    /\ Lookup!LookupConverged

LEMMA LookupCardinality == \A S : Lookup!Cardinality(S) = Cardinality(S)
<1> SUFFICES ASSUME NEW S PROVE Lookup!Cardinality(S) = Cardinality(S)
  OBVIOUS
<1> QED
  BY DEF Lookup!Cardinality, Cardinality

\* The nearest of all ids were asked before or are among the nearest of those
\* that were not: fewer ids are left that are closer.
LEMMA NearestLeft ==
    ASSUME NEW S \in SUBSET Lookup!Nodes, NEW Q
    PROVE  Lookup!Nearest(S, Alpha) \subseteq Q \cup Lookup!Nearest(S \ Q, Alpha)
<1> SUFFICES ASSUME NEW x \in Lookup!Nearest(S, Alpha), x \notin Q
             PROVE  x \in Lookup!Nearest(S \ Q, Alpha)
  OBVIOUS
<1> DEFINE A == {y \in S : Lookup!Closer(y, x)}
           B == {y \in S \ Q : Lookup!Closer(y, x)}
<1>1. x \in S /\ Cardinality(A) < Alpha
  BY LookupCardinality DEF Lookup!Nearest
<1>2. IsFiniteSet(A) /\ B \in SUBSET A
  <2>1. IsFiniteSet(Lookup!Nodes)
    BY ServicesAssumption, FS_SUBSET DEF Lookup!Nodes
  <2>2. A \in SUBSET Lookup!Nodes
    OBVIOUS
  <2> QED
    BY <2>1, <2>2, FS_Subset
<1>3. Cardinality(A) \in Nat /\ Cardinality(B) \in Nat /\ Cardinality(B) <= Cardinality(A)
  <2> HIDE DEF A, B
  <2> QED
    BY <1>2, FS_Subset, FS_CardinalityType
<1>4. Cardinality(B) < Alpha
  BY <1>1, <1>3, ServicesAssumption
<1> QED
  BY <1>1, <1>4, LookupCardinality DEF Lookup!Nearest

LEMMA LookupInit == Lookup!Init => LookupInv
BY DEF Lookup!Init, LookupInv, Lookup!LookupConverged, Lookup!Nodes

LEMMA LookupStep == LookupInv /\ [Lookup!Next]_(Lookup!lookupVars) => LookupInv'
<1> SUFFICES ASSUME LookupInv, [Lookup!Next]_(Lookup!lookupVars) PROVE LookupInv'
  OBVIOUS
<1> USE DEF LookupInv, Lookup!LookupConverged
<1>1. CASE UNCHANGED Lookup!lookupVars
  BY <1>1 DEF Lookup!lookupVars
<1>2. CASE Lookup!Begin
  <2>1. PICK first \in SUBSET Start :
            /\ found' = Lookup!Nearest(first, Width)
            /\ lookupPc' = IF first = {} THEN "found" ELSE "round"
    BY <1>2 DEF Lookup!Begin
  <2>2. Lookup!Nearest(first, Width) \subseteq first
    BY DEF Lookup!Nearest
  <2>3. found' \subseteq Lookup!Nodes /\ (first = {} => found' = {})
    BY <2>1, <2>2, ServicesAssumption DEF Lookup!Nodes
  <2>4. Lookup!Nearest({}, Alpha) = {}
    BY DEF Lookup!Nearest
  <2> QED
    BY <1>2, <2>1, <2>3, <2>4 DEF Lookup!Begin
<1>3. CASE Lookup!Round
  BY <1>3, NearestLeft DEF Lookup!Round, Lookup!Targets
<1>4. ASSUME NEW n \in Lookup!Nodes, Lookup!Join(n) PROVE LookupInv'
  <2>1. PICK heard \in SUBSET Tells[n] :
            /\ found' = found \cup heard
            /\ news' = (news \/ heard \ found # {})
    BY <1>4 DEF Lookup!Join
  <2>2. Tells[n] \subseteq Lookup!Nodes
    BY ServicesAssumption DEF Lookup!Nodes
  <2>3. found' \subseteq Lookup!Nodes /\ news' \in BOOLEAN
    BY <2>1, <2>2
  <2>4. ~news' => ~news /\ found' = found
    BY <2>1
  <2> QED
    BY <1>4, <2>3, <2>4 DEF Lookup!Join
<1>5. CASE Lookup!Converged
  BY <1>5, NearestLeft DEF Lookup!Converged, Lookup!LastRound, Lookup!Targets
<1>6. CASE Lookup!NextRound
  BY <1>6 DEF Lookup!NextRound
<1>7. CASE \/ Lookup!FindNodeReturns \/ Lookup!AskForValue \/ Lookup!FindValueReturns
           \/ Lookup!StoreLocally \/ Lookup!StoreReturns
  BY <1>7 DEF Lookup!FindNodeReturns, Lookup!AskForValue, Lookup!FindValueReturns,
              Lookup!StoreLocally, Lookup!StoreReturns
<1> QED
  BY <1>1, <1>2, <1>3, <1>4, <1>5, <1>6, <1>7 DEF Lookup!Next, Lookup!LookupStep

-----------------------------------------------------------------------------
(* The session cache of QUIC.                                               *)

CacheInv == tokens \in Seq(Servers) /\ Len(tokens) <= MaxTokens

LEMMA CacheInit == Quic!Init => CacheInv
<1>1. MaxTokens \in Nat /\ <<>> \in Seq(Servers) /\ Len(<<>>) = 0
  BY ServicesAssumption
<1> QED
  BY <1>1 DEF Quic!Init, CacheInv

\* Without leaves the other hosts, and no more entries than there were.
LEMMA WithoutKeeps ==
    ASSUME NEW s \in Seq(Servers), NEW hosts
    PROVE  /\ Quic!Without(s, hosts) \in Seq(Servers)
           /\ Len(Quic!Without(s, hosts)) \in 0..Len(s)
           /\ Range(Quic!Without(s, hosts)) = Range(s) \ hosts
<1> DEFINE P == {i \in DOMAIN s : s[i] \notin hosts}
           w == AtPlaces(s, P)
<1>1. Quic!Without(s, hosts) = w
  BY DEF Quic!Without, Quic!AtPlaces, Quic!PlaceOf, AtPlaces, PlaceOf, Quic!Cardinality, Cardinality
<1>2. P \in SUBSET (1..Len(s)) /\ DOMAIN s = 1..Len(s)
  OBVIOUS
<1>3. /\ w \in Seq(Servers) /\ Len(w) = Cardinality(P) /\ Cardinality(P) \in 0..Len(s)
      /\ \A n \in 1..Cardinality(P) : \E i \in P : w[n] = s[i]
      /\ \A i \in P : \E n \in 1..Cardinality(P) : w[n] = s[i]
  BY <1>2, AtPlacesHas
<1>4. DOMAIN w = 1..Cardinality(P)
  BY <1>3
<1>5. Range(w) = Range(s) \ hosts
  <2> HIDE DEF w
  <2> QED
    BY <1>2, <1>3, <1>4 DEF Range
<1> QED
  BY <1>1, <1>3, <1>5

\* A session for another host that is remembered keeps to the limit, and costs
\* a valid one only when no expired one is left.
LEMMA RememberedFits ==
    ASSUME NEW s \in Seq(Servers), Len(s) <= MaxTokens, NEW h \in Servers
    PROVE  LET r == Quic!Remembered(s, h)
           IN  /\ r \in Seq(Servers) /\ Len(r) <= MaxTokens
               /\ Range(r) \subseteq Range(s) \cup {h}
               /\ h \notin Range(s) =>
                    \/ Range(s) \ expired \subseteq Range(r)
                    \/ Range(r) \cap expired \subseteq {h}
<1> DEFINE valid == Quic!Without(s, expired)
           e == Quic!Evicted(s)
<1>1. Len(s) \in Nat /\ MaxTokens \in Nat \ {0}
  BY ServicesAssumption
<1>2. /\ valid \in Seq(Servers) /\ Len(valid) \in 0..Len(s)
      /\ Range(valid) = Range(s) \ expired
  BY WithoutKeeps
<1>3. valid # <<>> =>
        /\ Tail(valid) \in Seq(Servers) /\ Len(Tail(valid)) = Len(valid) - 1
        /\ Range(Tail(valid)) \subseteq Range(valid)
  <2> HIDE DEF valid
  <2>1. valid # <<>> => /\ Tail(valid) \in Seq(Servers) /\ Len(Tail(valid)) = Len(valid) - 1
                        /\ DOMAIN Tail(valid) = 1..(Len(valid) - 1)
                        /\ DOMAIN valid = 1..Len(valid) /\ Len(valid) \in Nat
                        /\ \A i \in 1..(Len(valid) - 1) : Tail(valid)[i] = valid[i + 1]
    BY <1>2
  <2>2. \A i \in 1..(Len(valid) - 1) : i + 1 \in 1..Len(valid)
    BY <1>1, <1>2
  <2> QED
    BY <2>1, <2>2 DEF Range
<1>4. valid = <<>> => Len(valid) = 0
  BY <1>2
<1>5. /\ e \in Seq(Servers) /\ Len(e) < MaxTokens /\ Range(e) \subseteq Range(s)
      /\ Range(s) \ expired \subseteq Range(e) \/ Range(e) \cap expired = {}
  <2>1. CASE Len(s) < MaxTokens
    BY <2>1 DEF Quic!Evicted
  <2>2. CASE ~(Len(s) < MaxTokens) /\ Len(valid) < MaxTokens
    <3>1. e = valid
      BY <2>2 DEF Quic!Evicted
    <3> QED
      BY <1>2, <2>2, <3>1
  <2>3. CASE ~(Len(s) < MaxTokens) /\ ~(Len(valid) < MaxTokens)
    <3>1. e = Tail(valid)
      BY <2>3 DEF Quic!Evicted
    <3>2. valid # <<>>
      BY <1>1, <1>4, <2>3
    <3>3. Len(valid) \in Nat /\ Len(valid) - 1 < MaxTokens
      BY <1>1, <1>2
    <3> HIDE DEF valid, e
    <3> QED
      BY <1>2, <1>3, <3>1, <3>2, <3>3
  <2> QED
    BY <2>1, <2>2, <2>3
<1>6. /\ Append(e, h) \in Seq(Servers) /\ Len(Append(e, h)) <= MaxTokens
      /\ Range(Append(e, h)) = Range(e) \cup {h}
  <2> HIDE DEF e
  <2>1. /\ Append(e, h) \in Seq(Servers) /\ Len(Append(e, h)) = Len(e) + 1 /\ Len(e) \in Nat
        /\ DOMAIN Append(e, h) = (DOMAIN e) \cup {Len(e) + 1} /\ Len(e) + 1 \notin DOMAIN e
        /\ \A i \in DOMAIN e : Append(e, h)[i] = e[i]
        /\ Append(e, h)[Len(e) + 1] = h
    BY <1>5
  <2>2. Range(Append(e, h)) = Range(e) \cup {h}
    BY <2>1 DEF Range
  <2> QED
    BY <1>1, <1>5, <2>1, <2>2
<1>7. CASE Quic!Contains(s, h)
  <2>1. Quic!Remembered(s, h) = s
    BY <1>7 DEF Quic!Remembered
  <2>2. h \in Range(s)
    <3>1. DOMAIN s = 1..Len(s)
      OBVIOUS
    <3> QED
      BY <1>7, <3>1 DEF Quic!Contains, Range
  <2> QED
    BY <2>1, <2>2
<1>8. CASE ~Quic!Contains(s, h)
  <2>1. Quic!Remembered(s, h) = Append(e, h)
    BY <1>8 DEF Quic!Remembered
  <2> HIDE DEF e
  <2> QED
    BY <1>5, <1>6, <2>1
<1> QED
  BY <1>7, <1>8

LEMMA CacheStep == CacheInv /\ [Quic!Next]_(Quic!quicVars) => CacheInv' /\ Quic!SessionCacheStep
<1> SUFFICES ASSUME CacheInv, [Quic!Next]_(Quic!quicVars)
             PROVE  CacheInv' /\ Quic!SessionCacheStep
  OBVIOUS
<1>0. \A s : Quic!Range(s) = Range(s)
  BY DEF Quic!Range, Range
<1>1. tokens \in Seq(Servers) /\ Len(tokens) <= MaxTokens
  BY DEF CacheInv
<1>2. ASSUME NEW h \in Servers, Quic!Connect(h)
      PROVE  CacheInv' /\ Quic!SessionCacheStep
  <2>1. PICK shake \in Quic!Handshakes(h) :
          IF shake.ok
          THEN /\ tokens' \in {shake.tokens, Quic!Remembered(shake.tokens, h)}
               /\ expired' = (expired \cap Range(tokens')) \ {h}
          ELSE tokens' = shake.tokens
    BY <1>0, <1>2 DEF Quic!Connect
  <2>2. /\ shake.tokens \in {tokens, Quic!Without(tokens, {h})}
        /\ shake.ok /\ h \notin Range(tokens) => shake.tokens = Quic!Without(tokens, {h})
    <3>1. Quic!HasValidSession(h) => h \in Range(tokens)
      BY <1>0 DEF Quic!HasValidSession
    <3> QED
      BY <3>1 DEF Quic!Handshakes
  <2>3. /\ shake.tokens \in Seq(Servers) /\ Len(shake.tokens) <= MaxTokens
        /\ Range(shake.tokens) \subseteq Range(tokens)
        /\ Range(tokens) \ {h} \subseteq Range(shake.tokens)
    <3>1. MaxTokens \in Nat /\ Len(tokens) \in Nat
      BY <1>1, ServicesAssumption
    <3> QED
      BY <1>1, <2>2, <3>1, WithoutKeeps
  <2>4. CASE tokens' = shake.tokens
    BY <1>0, <2>3, <2>4 DEF CacheInv, Quic!SessionCacheStep
  <2>5. CASE shake.ok /\ tokens' = Quic!Remembered(shake.tokens, h)
    <3>1. /\ tokens' \in Seq(Servers) /\ Len(tokens') <= MaxTokens
          /\ Range(tokens') \subseteq Range(shake.tokens) \cup {h}
          /\ h \notin Range(shake.tokens) =>
                \/ Range(shake.tokens) \ expired \subseteq Range(tokens')
                \/ Range(tokens') \cap expired \subseteq {h}
      BY <2>3, <2>5, RememberedFits
    <3>2. ASSUME NEW k \in Range(tokens) \ expired, k \notin Range(tokens'),
                 ~(Range(tokens') \subseteq Range(tokens))
          PROVE  expired' = {}
      <4>1. h \notin Range(tokens)
        BY <2>3, <3>1, <3>2
      <4>2. k \in Range(shake.tokens) \ expired
        BY <2>3, <3>2, <4>1
      <4>3. Range(tokens') \cap expired \subseteq {h}
        BY <2>3, <3>1, <3>2, <4>1, <4>2
      <4> QED
        BY <2>1, <2>5, <4>3
    <3> QED
      BY <1>0, <3>1, <3>2 DEF CacheInv, Quic!SessionCacheStep
  <2> QED
    BY <2>1, <2>4, <2>5
<1>3. CASE Quic!CleanupExpiredSessions
  <2>1. tokens' = Quic!Without(tokens, expired)
    BY <1>3 DEF Quic!CleanupExpiredSessions
  <2>2. /\ tokens' \in Seq(Servers) /\ Len(tokens') \in 0..Len(tokens)
        /\ Range(tokens') \subseteq Range(tokens)
    BY <1>1, <2>1, WithoutKeeps
  <2>3. Len(tokens') <= MaxTokens
    BY <1>1, <2>2, ServicesAssumption
  <2> QED
    BY <1>0, <2>2, <2>3 DEF CacheInv, Quic!SessionCacheStep
<1>4. CASE UNCHANGED tokens
  BY <1>0, <1>1, <1>4 DEF CacheInv, Quic!SessionCacheStep
<1>5. CASE Quic!Disconnect \/ Quic!PeerCloses \/ Quic!Expires
  BY <1>4, <1>5 DEF Quic!Disconnect, Quic!PeerCloses, Quic!Expires
<1>6. ASSUME NEW r \in Requests, Quic!Request(r) \/ Quic!Serve(r) \/ Quic!AbortRequest(r)
      PROVE  UNCHANGED tokens
  BY <1>6 DEF Quic!Request, Quic!Serve, Quic!AbortRequest, Quic!LockSender, Quic!Send,
              Quic!Response, Quic!Body, Quic!ReqUnchanged
<1>7. CASE UNCHANGED Quic!quicVars
  BY <1>4, <1>7 DEF Quic!quicVars
<1> QED
  BY <1>2, <1>3, <1>4, <1>5, <1>6, <1>7 DEF Quic!Next

-----------------------------------------------------------------------------
(* The routing table.                                                       *)

\* The entries that may be in a bucket.
Near(b) == [id : {n \in Met : Routes!BucketIndex(n) = b}, stale : BOOLEAN]

\* A bucket that is not over its size, and whose cache is empty unless it is full.
Fits(k, b) ==
    /\ k.active \in Seq(Near(b)) /\ k.cache \in Seq(Near(b))
    /\ Len(k.active) <= K /\ (k.cache # <<>> => Len(k.active) = K)

FittingTable(table) == DOMAIN table = Bits /\ \A b \in Bits : Fits(table[b], b)

TableInv == DOMAIN nodes = Bits /\ DOMAIN standby = Bits /\ FittingTable(Routes!Table)

\* The first place of an entry, and the sequence without it.
PlaceIn(s, id) == Routes!SelectInSeq(s, LAMBDA x : x.id = id)

LEMMA FirstPlace ==
    ASSUME NEW S, NEW s \in Seq(S), NEW id
    PROVE  PlaceIn(s, id) \in 0..Len(s)
<1> DEFINE I == {j \in 1..Len(s) : s[j].id = id}
<1>1. PlaceIn(s, id) = IF I # {} THEN Routes!Min(I) ELSE 0
  BY DEF PlaceIn, Routes!SelectInSeq
<1>2. I \in SUBSET Nat
  OBVIOUS
<1>3. I # {} => Routes!Min(I) \in I
  <2> HIDE DEF I
  <2> QED
    <3>1. I # {} => \E x \in I : \A y \in I : x <= y
      BY <1>2, LeastNat
    <3> QED
      BY <3>1 DEF Routes!Min
<1>4. Len(s) \in Nat
  OBVIOUS
<1> QED
  BY <1>1, <1>3, <1>4

LEMMA RemovedOne ==
    ASSUME NEW S, NEW s \in Seq(S), NEW i \in 1..Len(s)
    PROVE  Routes!RemoveAt(s, i) \in Seq(S) /\ Len(Routes!RemoveAt(s, i)) = Len(s) - 1
<1>1. Len(s) \in Nat /\ i - 1 \in 0..Len(s) /\ i + 1 \in 1..(Len(s) + 1)
  OBVIOUS
<1>2. SubSeq(s, 1, i - 1) \in Seq(S) /\ Len(SubSeq(s, 1, i - 1)) = i - 1
  BY <1>1
<1>3. SubSeq(s, i + 1, Len(s)) \in Seq(S) /\ Len(SubSeq(s, i + 1, Len(s))) = Len(s) - i
  BY <1>1
<1>4. \A a, c \in Seq(S) : a \o c \in Seq(S) /\ Len(a \o c) = Len(a) + Len(c)
  OBVIOUS
<1>5. i - 1 + (Len(s) - i) = Len(s) - 1
  BY <1>1
<1> QED
  BY <1>2, <1>3, <1>4, <1>5, Zenon DEF Routes!RemoveAt

\* What one entry more or less, or its successor, makes of a bucket.
LEMMA UpdatedFits ==
    ASSUME NEW b, NEW k, Fits(k, b), NEW e \in Near(b)
    PROVE  Fits(Routes!Updated(k, e), b)
<1> DEFINE i == Routes!SelectInSeq(k.active, LAMBDA x : x.id = e.id)
           rest == Routes!RemoveAt(k.active, i)
<1>1. k.active \in Seq(Near(b)) /\ k.cache \in Seq(Near(b)) /\ Len(k.active) \in Nat /\ K \in Nat \ {0}
  BY ServicesAssumption DEF Fits
<1>2. i \in 0..Len(k.active)
  <2>1. i = PlaceIn(k.active, e.id)
    BY DEF PlaceIn
  <2> HIDE DEF i
  <2> QED
    BY <1>1, <2>1, FirstPlace
<1>3. i # 0 => rest \in Seq(Near(b)) /\ Len(rest) = Len(k.active) - 1
  <2> HIDE DEF i
  <2> QED
    BY <1>1, <1>2, RemovedOne
<1>4. Routes!Now(e.id) \in Near(b)
  BY DEF Routes!Now, Near
<1>5. Routes!Updated(k, e) =
        CASE i # 0 -> Routes!Bucket(Append(rest, Routes!Now(e.id)), k.cache)
          [] i = 0 /\ Len(k.active) < K -> Routes!Bucket(Append(k.active, e), k.cache)
          [] OTHER -> Routes!Bucket(k.active,
                        Append(IF Len(k.cache) >= K THEN Tail(k.cache) ELSE k.cache, e))
  BY DEF Routes!Updated
<1> HIDE DEF i, rest
<1>6. CASE i # 0
  <2>1. Append(rest, Routes!Now(e.id)) \in Seq(Near(b)) /\ Len(Append(rest, Routes!Now(e.id))) = Len(k.active)
    BY <1>1, <1>3, <1>4, <1>6
  <2> QED
    BY <1>1, <1>5, <1>6, <2>1 DEF Fits, Routes!Bucket
<1>7. CASE i = 0 /\ Len(k.active) < K
  <2>1. Append(k.active, e) \in Seq(Near(b)) /\ Len(Append(k.active, e)) = Len(k.active) + 1
    BY <1>1
  <2>2. k.cache = <<>> /\ Len(k.active) + 1 <= K
    BY <1>1, <1>7 DEF Fits
  <2>3. Routes!Updated(k, e) = Routes!Bucket(Append(k.active, e), k.cache)
    BY <1>5, <1>7
  <2> QED
    BY <1>1, <2>1, <2>2, <2>3 DEF Fits, Routes!Bucket
<1>8. CASE i = 0 /\ ~(Len(k.active) < K)
  <2> DEFINE left == IF Len(k.cache) >= K THEN Tail(k.cache) ELSE k.cache
  <2>1. \A c \in Seq(Near(b)) : Append(c, e) \in Seq(Near(b))
    OBVIOUS
  <2>2. left \in Seq(Near(b))
    BY <1>1
  <2>3. Len(k.active) = K
    BY <1>1, <1>8 DEF Fits
  <2>4. Routes!Updated(k, e) = Routes!Bucket(k.active, Append(left, e))
    BY <1>5, <1>8
  <2> HIDE DEF left
  <2> QED
    BY <1>1, <2>1, <2>2, <2>3, <2>4 DEF Fits, Routes!Bucket
<1> QED
  BY <1>6, <1>7, <1>8

LEMMA LastOf ==
    ASSUME NEW S, NEW s \in Seq(S), s # <<>>
    PROVE  /\ Routes!Last(s) \in S /\ Routes!Front(s) \in Seq(S) /\ Len(s) \in Nat \ {0}
<1>1. Len(s) \in Nat \ {0}
  OBVIOUS
<1>2. s[Len(s)] \in S
  BY <1>1
<1>3. SubSeq(s, 1, Len(s) - 1) \in Seq(S)
  BY <1>1
<1> QED
  BY <1>1, <1>2, <1>3 DEF Routes!Last, Routes!Front

LEMMA RemovedFits ==
    ASSUME NEW b, NEW k, Fits(k, b), NEW id
    PROVE  Fits(Routes!Removed(k, id), b)
<1> DEFINE i == Routes!SelectInSeq(k.active, LAMBDA x : x.id = id)
           rest == Routes!RemoveAt(k.active, i)
<1>1. k.active \in Seq(Near(b)) /\ k.cache \in Seq(Near(b)) /\ Len(k.active) \in Nat /\ K \in Nat \ {0}
  BY ServicesAssumption DEF Fits
<1>2. i \in 0..Len(k.active)
  <2>1. i = PlaceIn(k.active, id)
    BY DEF PlaceIn
  <2> HIDE DEF i
  <2> QED
    BY <1>1, <2>1, FirstPlace
<1>3. i # 0 => rest \in Seq(Near(b)) /\ Len(rest) = Len(k.active) - 1
  <2> HIDE DEF i
  <2> QED
    BY <1>1, <1>2, RemovedOne
<1>4. Routes!Removed(k, id) =
        CASE i = 0 -> k
          [] i # 0 /\ k.cache = <<>> -> Routes!Bucket(rest, <<>>)
          [] OTHER -> Routes!Bucket(Append(rest, Routes!Last(k.cache)), Routes!Front(k.cache))
  BY DEF Routes!Removed
<1> HIDE DEF i, rest
<1>5. CASE i = 0
  BY <1>4, <1>5
<1>6. CASE i # 0 /\ k.cache = <<>>
  <2>1. Routes!Removed(k, id) = Routes!Bucket(rest, <<>>)
    BY <1>4, <1>6
  <2>2. Len(rest) <= K
    BY <1>1, <1>3, <1>6 DEF Fits
  <2> QED
    BY <1>1, <1>3, <1>6, <2>1, <2>2 DEF Fits, Routes!Bucket
<1>7. CASE i # 0 /\ k.cache # <<>>
  <2>1. Routes!Removed(k, id) = Routes!Bucket(Append(rest, Routes!Last(k.cache)), Routes!Front(k.cache))
    BY <1>4, <1>7
  <2>2. Routes!Last(k.cache) \in Near(b) /\ Routes!Front(k.cache) \in Seq(Near(b))
    BY <1>1, <1>7, LastOf
  <2>3. /\ Append(rest, Routes!Last(k.cache)) \in Seq(Near(b))
        /\ Len(Append(rest, Routes!Last(k.cache))) = Len(k.active)
    BY <1>1, <1>3, <1>7, <2>2
  <2>4. Len(k.active) = K
    BY <1>7 DEF Fits
  <2> QED
    BY <1>1, <2>1, <2>2, <2>3, <2>4 DEF Fits, Routes!Bucket
<1> QED
  BY <1>5, <1>6, <1>7

LEMMA OldestReplacedFits ==
    ASSUME NEW b, NEW k, Fits(k, b)
    PROVE  Fits(Routes!OldestReplaced(k), b)
<1> DEFINE last == Routes!Last(k.cache)
           front == Routes!Front(k.cache)
           new == [k.active EXCEPT ![1] = last]
<1>1. k.active \in Seq(Near(b)) /\ k.cache \in Seq(Near(b)) /\ Len(k.active) \in Nat /\ K \in Nat \ {0}
  BY ServicesAssumption DEF Fits
<1>2. CASE k.cache = <<>>
  BY <1>2 DEF Routes!OldestReplaced
<1>3. CASE k.cache # <<>>
  <2>1. last \in Near(b) /\ front \in Seq(Near(b))
    BY <1>1, <1>3, LastOf
  <2>2. Len(k.active) = K /\ k.active # <<>>
    BY <1>1, <1>3 DEF Fits
  <2>3. Routes!OldestReplaced(k) = Routes!Bucket(new, front)
    BY <1>3, <2>2 DEF Routes!OldestReplaced
  <2>4. new \in Seq(Near(b)) /\ Len(new) = Len(k.active)
    <3>1. 1 \in 1..Len(k.active)
      BY <1>1, <2>2
    <3> HIDE DEF last
    <3> QED
      BY <1>1, <2>1, <3>1, ExceptSeq
  <2> HIDE DEF new, front
  <2> QED
    BY <1>1, <2>1, <2>2, <2>3, <2>4 DEF Fits, Routes!Bucket
<1> QED
  BY <1>2, <1>3

\* The fresh entries from a place on are at most one more than from the next on.
LEMMA FreshFromKeeps ==
    ASSUME NEW S, NEW s \in Seq(S), NEW i \in 1..(Len(s) + 1)
    PROVE  /\ Routes!FreshFrom(s, i) \in Seq(S) /\ Len(Routes!FreshFrom(s, i)) \in 0..Len(s)
           /\ i = Len(s) + 1 => Len(Routes!FreshFrom(s, i)) = 0
           /\ i # Len(s) + 1 => Len(Routes!FreshFrom(s, i)) <= Len(Routes!FreshFrom(s, i + 1)) + 1
<1> DEFINE P(n) == {j \in n..Len(s) : ~s[j].stale}
<1>1. Len(s) \in Nat
  OBVIOUS
<1>2. \A n \in 1..(Len(s) + 1) : P(n) \in SUBSET (1..Len(s))
  BY <1>1
<1>3. \A n : Routes!FreshFrom(s, n) = AtPlaces(s, P(n))
  BY DEF Routes!FreshFrom, Routes!AtPlaces, Routes!PlaceOf, AtPlaces, PlaceOf, Routes!Cardinality, Cardinality
<1>4. \A n \in 1..(Len(s) + 1) : /\ AtPlaces(s, P(n)) \in Seq(S) /\ Len(AtPlaces(s, P(n))) = Cardinality(P(n))
                              /\ Cardinality(P(n)) \in 0..Len(s)
  <2> HIDE DEF P
  <2> QED
    BY <1>2, AtPlacesHas
<1>5. i = Len(s) + 1 => P(i) = {}
  BY <1>1
<1>6. ASSUME i # Len(s) + 1 PROVE Cardinality(P(i)) <= Cardinality(P(i + 1)) + 1
  <2>1. i + 1 \in 1..(Len(s) + 1) /\ i \in 1..Len(s)
    BY <1>1, <1>6
  <2>2. P(i) \subseteq P(i + 1) \cup {i} /\ i \notin P(i + 1)
    BY <1>1, <2>1
  <2>3. IsFiniteSet(P(i + 1))
    <3>1. IsFiniteSet(1..Len(s))
      BY <1>1, FS_Interval
    <3> HIDE DEF P
    <3> QED
      BY <1>2, <2>1, <3>1, FS_Subset
  <2> HIDE DEF P
  <2>4. IsFiniteSet(P(i + 1) \cup {i}) /\ Cardinality(P(i + 1) \cup {i}) = Cardinality(P(i + 1)) + 1
    BY <2>2, <2>3, FS_AddElement
  <2> QED
    BY <2>2, <2>4, FS_Subset
<1>7. i = Len(s) + 1 => Cardinality(P(i)) = 0
  BY <1>5, FS_EmptySet
<1> HIDE DEF P
<1>8. i # Len(s) + 1 => i + 1 \in 1..(Len(s) + 1)
  BY <1>1
<1> QED
  BY <1>3, <1>4, <1>6, <1>7, <1>8

LEMMA Reversed ==
    ASSUME NEW S, NEW s \in Seq(S)
    PROVE  Routes!Reverse(s) \in Seq(S) /\ Len(Routes!Reverse(s)) = Len(s)
<1>1. Len(s) \in Nat /\ \A j \in 1..Len(s) : s[j] \in S
  BY ElementOfSeq
<1>2. \A j \in 1..Len(s) : (Len(s) - j) + 1 \in 1..Len(s)
  BY <1>1
<1>3. Routes!Reverse(s) = [j \in 1..Len(s) |-> s[(Len(s) - j) + 1]]
  BY DEF Routes!Reverse
<1>4. Routes!Reverse(s) \in [1..Len(s) -> S]
  BY <1>1, <1>2, <1>3
<1> QED
  BY <1>1, <1>4

LEMMA RoutesGreatest ==
    ASSUME NEW n \in Nat, NEW A \in SUBSET (0..n), A # {}
    PROVE  Routes!Max(A) \in A /\ \A a \in A : Routes!Max(A) >= a
BY GreatestNat DEF Routes!Max

LEMMA EvictedFits ==
    ASSUME NEW b, NEW k, Fits(k, b)
    PROVE  Fits(Routes!Evicted(k), b)
<1> DEFINE n == Len(k.cache)
           fresh == Routes!FreshFrom(k.active, 1)
           Popped(i) == Routes!FreshFrom(k.cache, i + 1)
           full == {i \in 0..n : Len(fresh \o Popped(i)) >= K}
           stop == Routes!Max({0} \cup full)
           filled == fresh \o Routes!Reverse(Popped(stop))
           cache == SubSeq(k.cache, 1, stop)
<1>1. k.active \in Seq(Near(b)) /\ k.cache \in Seq(Near(b)) /\ Len(k.active) \in Nat /\ n \in Nat
  BY DEF Fits
<1>2. Routes!Evicted(k) = Routes!Bucket(filled, cache)
  BY DEF Routes!Evicted
<1>3. K \in Nat \ {0} /\ Len(k.active) <= K
  BY ServicesAssumption DEF Fits
<1>4. fresh \in Seq(Near(b)) /\ Len(fresh) \in Nat /\ Len(fresh) <= K
  <2>1. 1 \in 1..(Len(k.active) + 1)
    BY <1>1
  <2>2. fresh \in Seq(Near(b)) /\ Len(fresh) \in 0..Len(k.active)
    BY <1>1, <2>1, FreshFromKeeps
  <2> QED
    BY <1>1, <1>3, <2>2
<1>5. \A i \in 0..n : i + 1 \in 1..(n + 1) /\ (i + 1 = n + 1 <=> i = n) /\ (i # n => i + 1 \in 0..n)
  BY <1>1
<1>6. \A i \in 0..n : /\ Popped(i) \in Seq(Near(b)) /\ Len(Popped(i)) \in Nat
                      /\ i = n => Len(Popped(i)) = 0
                      /\ i # n => Len(Popped(i)) <= Len(Popped(i + 1)) + 1
  <2>1. ASSUME NEW i \in 0..n
        PROVE  /\ Popped(i) \in Seq(Near(b)) /\ Len(Popped(i)) \in 0..n
               /\ i = n => Len(Popped(i)) = 0
               /\ i # n => Len(Popped(i)) <= Len(Popped(i + 1)) + 1
    BY <1>1, <1>5, FreshFromKeeps
  <2>2. \A m \in 0..n : m \in Nat
    OBVIOUS
  <2> HIDE DEF Popped, n
  <2> QED
    BY <2>1, <2>2
<1> HIDE DEF fresh, Popped
<1>7. \A i \in 0..n : Len(fresh \o Popped(i)) = Len(fresh) + Len(Popped(i))
  BY <1>4, <1>6
<1>8. stop \in {0} \cup full /\ (\A i \in full : stop >= i) /\ stop \in 0..n
  <2>1. {0} \cup full \in SUBSET (0..n)
    BY <1>1
  <2> HIDE DEF full
  <2> QED
    BY <1>1, <2>1, RoutesGreatest
<1> HIDE DEF stop
<1>9. Len(fresh) + Len(Popped(stop)) <= K
  <2>1. CASE stop = n
    BY <1>3, <1>4, <1>6, <1>8, <2>1
  <2>2. CASE stop # n
    <3>1. stop + 1 \in 0..n /\ ~(stop >= stop + 1)
      BY <1>1, <1>8, <2>2
    <3>2. ~(Len(fresh) + Len(Popped(stop + 1)) >= K)
      BY <1>7, <1>8, <3>1
    <3>3. Len(Popped(stop)) <= Len(Popped(stop + 1)) + 1 /\ Len(Popped(stop)) \in Nat /\ Len(Popped(stop + 1)) \in Nat
      BY <1>6, <1>8, <2>2, <3>1
    <3> QED
      BY <1>3, <1>4, <3>2, <3>3
  <2> QED
    BY <2>1, <2>2
<1>10. stop # 0 => Len(fresh) + Len(Popped(stop)) = K
  <2>1. stop # 0 => Len(fresh) + Len(Popped(stop)) >= K
    BY <1>7, <1>8
  <2>2. Len(fresh) + Len(Popped(stop)) \in Int /\ K \in Int
    BY <1>3, <1>4, <1>6, <1>8
  <2> QED
    BY <1>9, <2>1, <2>2
<1>11. filled \in Seq(Near(b)) /\ Len(filled) = Len(fresh) + Len(Popped(stop))
  <2>1. Routes!Reverse(Popped(stop)) \in Seq(Near(b)) /\ Len(Routes!Reverse(Popped(stop))) = Len(Popped(stop))
    BY <1>6, <1>8, Reversed
  <2> QED
    BY <1>4, <2>1
<1>12. cache \in Seq(Near(b)) /\ (stop = 0 => cache = <<>>)
  BY <1>1, <1>8
<1> HIDE DEF filled, cache
<1> QED
  BY <1>2, <1>9, <1>10, <1>11, <1>12 DEF Fits, Routes!Bucket

\* A table that fits with one bucket replaced by one that fits.
LEMMA OneBucket ==
    ASSUME NEW table, FittingTable(table), NEW b, NEW k, b \in Bits => Fits(k, b)
    PROVE  FittingTable([table EXCEPT ![b] = k])
BY DEF FittingTable

LEMMA TableInit == Routes!Init => TableInv
<1>1. K \in Nat
  BY ServicesAssumption
<1>2. \A b : <<>> \in Seq(Near(b)) /\ Len(<<>>) = 0
  OBVIOUS
<1>3. \A b : Fits([active |-> <<>>, cache |-> <<>>], b)
  BY <1>1, <1>2 DEF Fits
<1> QED
  BY <1>3 DEF Routes!Init, TableInv, FittingTable, Routes!Table, Routes!Bucket

\* Where a table fits, so does one that has made room.
LEMMA OldestEvictedFits ==
    ASSUME NEW table, FittingTable(table), NEW b \in Bits
    PROVE  FittingTable(Routes!OldestEvicted(table, b))
<1> DEFINE k == Routes!Removed(table[b], table[b].active[1].id)
           l == IF k.cache = <<>> THEN k ELSE Routes!Updated(k, Routes!Last(k.cache))
<1>1. Fits(k, b)
  BY RemovedFits DEF FittingTable
<1>2. Routes!OldestEvicted(table, b) = [table EXCEPT ![b] = l]
  BY DEF Routes!OldestEvicted
<1> HIDE DEF k
<1>3. k.cache # <<>> => Routes!Last(k.cache) \in Near(b)
  BY <1>1, LastOf DEF Fits
<1>4. Fits(l, b)
  BY <1>1, <1>3, UpdatedFits
<1> HIDE DEF l
<1>5. FittingTable([table EXCEPT ![b] = l])
  BY <1>4, OneBucket
<1> QED
  BY <1>2, <1>5

LEMMA RoomMadeFits ==
    ASSUME NEW table, FittingTable(table), NEW room \in Routes!RoomMade(table)
    PROVE  FittingTable(room)
<1> DEFINE clean == [b \in Bits |-> Routes!Evicted(table[b])]
<1>1. FittingTable(clean)
  BY EvictedFits DEF FittingTable
<1>2. room \in {table, clean} \cup {Routes!OldestEvicted(clean, b) : b \in Bits}
  BY DEF Routes!RoomMade
<1> HIDE DEF clean
<1> QED
  BY <1>1, <1>2, OldestEvictedFits

LEMMA FittingBecomes ==
    ASSUME NEW table, FittingTable(table), Routes!Becomes(table)
    PROVE  TableInv'
<1>1. nodes' = [b \in Bits |-> table[b].active] /\ standby' = [b \in Bits |-> table[b].cache]
  BY DEF Routes!Becomes
<1>2. ASSUME NEW b \in Bits PROVE Fits([active |-> nodes'[b], cache |-> standby'[b]], b)
  BY <1>1 DEF FittingTable, Fits
<1> QED
  BY <1>1, <1>2 DEF TableInv, FittingTable, Routes!Table, Routes!Bucket

LEMMA AgedFits ==
    ASSUME NEW b, NEW s \in Seq(Near(b)), NEW i \in DOMAIN s
    PROVE  LET t == [s EXCEPT ![i].stale = TRUE]
           IN  t \in Seq(Near(b)) /\ Len(t) = Len(s) /\ (t = <<>> <=> s = <<>>)
<1> DEFINE e == [s[i] EXCEPT !.stale = TRUE]
           t == [s EXCEPT ![i].stale = TRUE]
<1>1. i \in 1..Len(s) /\ s[i] \in Near(b) /\ Len(s) \in Nat
  OBVIOUS
<1>2. e \in Near(b)
  BY <1>1 DEF Near
<1>3. t = [s EXCEPT ![i] = e]
  OBVIOUS
<1> HIDE DEF e, t
<1>4. t \in Seq(Near(b)) /\ Len(t) = Len(s)
  BY <1>1, <1>2, <1>3, ExceptSeq
<1>5. t # <<>> /\ s # <<>>
  BY <1>1, <1>4
<1> QED
  BY <1>4, <1>5 DEF t

LEMMA TableStep == TableInv /\ [Routes!Next]_(Routes!tableVars) => TableInv'
<1> SUFFICES ASSUME TableInv, [Routes!Next]_(Routes!tableVars) PROVE TableInv'
  OBVIOUS
<1> DEFINE T == Routes!Table
<1>1. FittingTable(T) /\ \A b \in Bits : Fits(T[b], b)
  BY DEF TableInv, FittingTable
<1>2. ASSUME NEW id \in Met PROVE Routes!Now(id) \in Near(Routes!BucketIndex(id))
  BY DEF Routes!Now, Near
<1>3. ASSUME NEW id \in Met, NEW table, FittingTable(table),
             Routes!Becomes([table EXCEPT ![Routes!BucketIndex(id)] = Routes!Updated(@, Routes!Now(id))])
      PROVE  TableInv'
  <2> DEFINE b == Routes!BucketIndex(id)
             k == Routes!Updated(table[b], Routes!Now(id))
  <2>1. Routes!Becomes([table EXCEPT ![b] = k])
    BY <1>3
  <2>2. b \in Bits => Fits(k, b)
    BY <1>2, <1>3, UpdatedFits DEF FittingTable
  <2> HIDE DEF b, k
  <2>3. FittingTable([table EXCEPT ![b] = k])
    BY <1>3, <2>2, OneBucket
  <2> QED
    BY <2>1, <2>3, FittingBecomes
<1>4. ASSUME NEW id \in Met, Routes!AddNode(id) PROVE TableInv'
  <2>1. \/ Routes!Becomes([T EXCEPT ![Routes!BucketIndex(id)] = Routes!Updated(@, Routes!Now(id))])
        \/ \E table \in Routes!RoomMade(T) :
              Routes!Becomes([table EXCEPT ![Routes!BucketIndex(id)] = Routes!Updated(@, Routes!Now(id))])
    BY <1>4 DEF Routes!AddNode
  <2> HIDE DEF T
  <2> QED
    BY <1>1, <1>3, <2>1, RoomMadeFits
<1>5. ASSUME NEW id \in Met, Routes!RemoveNode(id) PROVE TableInv'
  <2> DEFINE b == Routes!BucketIndex(id)
             k == Routes!Removed(T[b], id)
  <2>1. Routes!Becomes([T EXCEPT ![b] = k])
    BY <1>5 DEF Routes!RemoveNode
  <2>2. b \in Bits => Fits(k, b)
    BY <1>1, RemovedFits
  <2> HIDE DEF T, b, k
  <2>3. FittingTable([T EXCEPT ![b] = k])
    BY <1>1, <2>2, OneBucket
  <2> QED
    BY <2>1, <2>3, FittingBecomes
<1>6. ASSUME NEW id \in Met, Routes!HandleMessage(id) PROVE TableInv'
  <2>1. Routes!Becomes([T EXCEPT ![Routes!BucketIndex(id)] = Routes!Updated(@, Routes!Now(id))])
    BY <1>6 DEF Routes!HandleMessage
  <2> HIDE DEF T
  <2> QED
    BY <1>1, <1>3, <2>1
<1>7. ASSUME NEW b \in Bits, Routes!ReplaceOldest(b) PROVE TableInv'
  <2> DEFINE k == Routes!OldestReplaced(T[b])
  <2>1. Routes!Becomes([T EXCEPT ![b] = k])
    BY <1>7 DEF Routes!ReplaceOldest
  <2>2. Fits(k, b)
    BY <1>1, OldestReplacedFits
  <2> HIDE DEF T, k
  <2>3. FittingTable([T EXCEPT ![b] = k])
    BY <1>1, <2>2, OneBucket
  <2> QED
    BY <2>1, <2>3, FittingBecomes
<1>8. CASE Routes!CleanupStale
  <2> DEFINE clean == [b \in Bits |-> Routes!Evicted(T[b])]
  <2>1. Routes!Becomes(clean)
    BY <1>8 DEF Routes!CleanupStale
  <2>2. FittingTable(clean)
    BY <1>1, EvictedFits DEF FittingTable
  <2> HIDE DEF clean
  <2> QED
    BY <2>1, <2>2, FittingBecomes
<1>9. /\ DOMAIN nodes = Bits /\ DOMAIN standby = Bits
      /\ \A b \in Bits : Fits([active |-> nodes[b], cache |-> standby[b]], b)
  BY DEF TableInv, FittingTable, Routes!Table, Routes!Bucket
<1>10. ASSUME DOMAIN nodes' = Bits, DOMAIN standby' = Bits,
              \A b \in Bits : Fits([active |-> nodes'[b], cache |-> standby'[b]], b)
       PROVE  TableInv'
  BY <1>10 DEF TableInv, FittingTable, Routes!Table, Routes!Bucket
<1>11. ASSUME NEW b \in Bits, NEW i, Routes!GoesStale(b, i) PROVE TableInv'
  <2>1. CASE i \in DOMAIN nodes[b] /\ nodes' = [nodes EXCEPT ![b][i].stale = TRUE] /\ UNCHANGED standby
    <3> DEFINE t == [nodes[b] EXCEPT ![i].stale = TRUE]
    <3>1. nodes' = [nodes EXCEPT ![b] = t]
      BY <2>1
    <3>2. t \in Seq(Near(b)) /\ Len(t) = Len(nodes[b])
      BY <1>9, <2>1, AgedFits DEF Fits
    <3> HIDE DEF t
    <3>3. Fits([active |-> t, cache |-> standby[b]], b)
      BY <1>9, <3>2 DEF Fits
    <3>4. \A c \in Bits : nodes'[c] = IF c = b THEN t ELSE nodes[c]
      BY <1>9, <3>1
    <3>5. DOMAIN nodes' = Bits /\ standby' = standby
      BY <1>9, <2>1, <3>1
    <3> QED
      BY <1>9, <1>10, <3>3, <3>4, <3>5
  <2>2. CASE i \in DOMAIN standby[b] /\ standby' = [standby EXCEPT ![b][i].stale = TRUE] /\ UNCHANGED nodes
    <3> DEFINE t == [standby[b] EXCEPT ![i].stale = TRUE]
    <3>1. standby' = [standby EXCEPT ![b] = t]
      BY <2>2
    <3>2. t \in Seq(Near(b)) /\ (t = <<>> <=> standby[b] = <<>>)
      BY <1>9, <2>2, AgedFits DEF Fits
    <3> HIDE DEF t
    <3>3. Fits([active |-> nodes[b], cache |-> t], b)
      BY <1>9, <3>2 DEF Fits
    <3>4. \A c \in Bits : standby'[c] = IF c = b THEN t ELSE standby[c]
      BY <1>9, <3>1
    <3>5. DOMAIN standby' = Bits /\ nodes' = nodes
      BY <1>9, <2>2, <3>1
    <3> QED
      BY <1>9, <1>10, <3>3, <3>4, <3>5
  <2> QED
    BY <1>11, <2>1, <2>2 DEF Routes!GoesStale
<1>12. CASE UNCHANGED Routes!tableVars
  BY <1>9, <1>10, <1>12 DEF Routes!tableVars
<1> QED
  BY <1>4, <1>5, <1>6, <1>7, <1>8, <1>11, <1>12 DEF Routes!Next

\* The node that is nearest to an id is that id; its bucket is looked into first.
LEMMA KnownFound ==
    ASSUME TableInv, NEW b \in Bits, NEW id \in Routes!IdsIn(nodes[b])
    PROVE  Routes!BucketIndex(id) = b /\ id \in Routes!FindClosest(id, K)
<1> DEFINE Nearby(r) == {c \in Bits : c <= b + r /\ c + r >= b}
           most == Routes!Max(Bits)
           enough == {r \in 0..most : Routes!Held(Nearby(r)) >= K \/ Nearby(r) = Bits}
           candidates == UNION {Routes!IdsIn(nodes[c]) : c \in Nearby(Routes!Min(enough))}
<1>1. id \in Met /\ Routes!BucketIndex(id) = b
  <2>1. nodes[b] \in Seq(Near(b))
    BY DEF TableInv, FittingTable, Fits, Routes!Table, Routes!Bucket
  <2>2. PICK i \in DOMAIN nodes[b] : id = nodes[b][i].id
    BY DEF Routes!IdsIn
  <2>3. nodes[b][i] \in Near(b)
    BY <2>1, <2>2
  <2> QED
    BY <2>2, <2>3 DEF Near
<1>2. id # Local
  BY <1>1, ServicesAssumption
<1>3. Routes!Candidates(id, K) = candidates
  BY <1>1, <1>2 DEF Routes!Candidates
<1>4. most \in Nat /\ \A c \in Bits : c \in 0..most
  <2> DEFINE n == Cardinality(Bits) - 1
  <2>1. IsFiniteSet(Bits) /\ Bits = 0..n
    BY ServicesAssumption
  <2>2. Cardinality(Bits) \in Nat
    BY <2>1, FS_CardinalityType
  <2>3. n \in Nat
    BY <2>1, <2>2
  <2> HIDE DEF n
  <2>4. most \in Bits /\ \A c \in Bits : most >= c
    BY <2>1, <2>3, RoutesGreatest
  <2> QED
    BY <2>1, <2>3, <2>4
<1>5. Nearby(most) = Bits
  BY <1>4
<1>6. Routes!Min(enough) \in Nat
  <2>1. most \in enough /\ enough \in SUBSET Nat
    BY <1>4, <1>5
  <2> HIDE DEF enough
  <2>2. Routes!Min(enough) \in enough
    BY <2>1, LeastNat DEF Routes!Min
  <2> QED
    BY <2>1, <2>2
<1> HIDE DEF enough
<1>7. id \in candidates
  <2>1. b \in Nearby(Routes!Min(enough))
    BY <1>4, <1>6
  <2> QED
    BY <2>1
<1> HIDE DEF candidates
<1>8. {m \in candidates : Routes!Closer(m, id, id)} = {}
  BY DEF Routes!Closer, Routes!XorDistance
<1>9. Routes!Cardinality({m \in candidates : Routes!Closer(m, id, id)}) < K
  <2>1. Routes!Cardinality({}) = 0
    BY FS_EmptySet DEF Routes!Cardinality, Cardinality
  <2>2. 0 < K
    BY ServicesAssumption
  <2> DEFINE closer == {m \in candidates : Routes!Closer(m, id, id)}
  <2>3. closer = {}
    BY <1>8
  <2> HIDE DEF closer
  <2>4. Routes!Cardinality(closer) < K
    BY <2>1, <2>2, <2>3
  <2> QED
    BY <2>4 DEF closer
<1> QED
  BY <1>1, <1>3, <1>7, <1>9 DEF Routes!FindClosest, Routes!Closest

LEMMA TablePromises == TableInv => Routes!CacheOnlyWhenFull /\ Routes!KnownIsFound
<1> SUFFICES ASSUME TableInv PROVE Routes!CacheOnlyWhenFull /\ Routes!KnownIsFound
  OBVIOUS
<1>1. Routes!CacheOnlyWhenFull
  BY DEF TableInv, FittingTable, Fits, Routes!Table, Routes!Bucket, Routes!CacheOnlyWhenFull
<1>2. Routes!KnownIsFound
  BY KnownFound DEF Routes!KnownIsFound
<1> QED
  BY <1>1, <1>2

-----------------------------------------------------------------------------
(* Random ids of a bucket.                                                  *)

LEMMA BucketConstants ==
    ByteBits \in Nat \ {0} /\ IdBytes \in Nat \ {0} /\ Refresh!Positions \in Nat \ {0}
BY ServicesAssumption DEF Refresh!Positions

\* The bytes after that of the bucket and the bits below it are the positions below it.
LEMMA FilledBelow ==
    ASSUME NEW b \in 0..(Refresh!Positions - 1)
    PROVE  Refresh!Filled(b) = 0..(b - 1)
<1> DEFINE P == Refresh!Positions
           m == P - 1 - b
<1>1. P \in Nat \ {0} /\ ByteBits \in Nat \ {0} /\ m \in Nat
  BY BucketConstants
<1> HIDE DEF P
<1>2. ASSUME NEW p \in 0..(P - 1)
      PROVE  /\ Refresh!ByteOf(p) = (P - 1 - p) \div ByteBits
             /\ Refresh!BitOf(p) = (P - 1 - p) % ByteBits
  BY DEF P, Refresh!ByteOf, Refresh!BitOf
<1>3. ASSUME NEW p \in 0..(P - 1)
      PROVE  p < b <=> \/ Refresh!ByteOf(p) > Refresh!ByteOf(b)
                       \/ Refresh!ByteOf(p) = Refresh!ByteOf(b) /\ Refresh!BitOf(b) < ByteBits - 1 /\ p < b
  <2> DEFINE n == P - 1 - p
             B == Refresh!ByteOf(b)
             A == Refresh!ByteOf(p)
             X == Refresh!BitOf(p)
             Y == Refresh!BitOf(b)
  <2>1. n \in Nat /\ (p < b <=> n > m)
    BY <1>1 DEF P
  <2>2. A = n \div ByteBits /\ B = m \div ByteBits /\ X = n % ByteBits /\ Y = m % ByteBits
    BY <1>2 DEF P
  <2> HIDE DEF n, m, A, B, X, Y
  <2>0. /\ n % ByteBits \in 0..(ByteBits - 1) /\ m % ByteBits \in 0..(ByteBits - 1)
        /\ n \div ByteBits > m \div ByteBits => n > m
        /\ n > m => \/ n \div ByteBits > m \div ByteBits
                    \/ n \div ByteBits = m \div ByteBits /\ n % ByteBits > m % ByteBits
    BY <1>1, <2>1, QuotientOrder
  <2>3. X \in 0..(ByteBits - 1) /\ Y \in 0..(ByteBits - 1) /\ (A > B => n > m) /\ (n > m => A > B \/ (A = B /\ X > Y))
    BY <2>0, <2>2, Zenon
  <2>4. p < b <=> A > B \/ (A = B /\ Y < ByteBits - 1 /\ p < b)
    BY <1>1, <2>1, <2>3
  <2> QED
    BY <2>4 DEF A, B, X, Y
<1>4. Refresh!Filled(b) = {p \in 0..(P - 1) : p < b}
  BY <1>3 DEF Refresh!Filled, P
<1> QED
  BY <1>1, <1>4 DEF P

LEMMA GreatestIsMax ==
    ASSUME NEW n \in Nat, NEW d \in SUBSET (0..n), d # {}
    PROVE  /\ Refresh!Max(d) \in d /\ \A y \in d : Refresh!Max(d) >= y
           /\ \A b \in d : (\A y \in d : b >= y) => Refresh!Max(d) = b
<1>1. \E x \in d : \A y \in d : x >= y
  BY GreatestNat
<1>2. Refresh!Max(d) \in d /\ \A y \in d : Refresh!Max(d) >= y
  BY <1>1 DEF Refresh!Max
<1>3. \A x, y \in d : x >= y /\ y >= x => x = y
  OBVIOUS
<1> QED
  BY <1>2, <1>3

LEMMA RandomIds == Refresh!RandomIdInBucket
<1> DEFINE n == Refresh!Positions - 1
<1>1. n \in Nat
  BY BucketConstants
<1> SUFFICES ASSUME NEW b \in 0..n
             PROVE  Refresh!RandomDistances(b) = {d \in SUBSET (0..n) : d # {} /\ Refresh!Max(d) = b}
  BY DEF Refresh!RandomIdInBucket
<1>2. Refresh!RandomDistances(b) = {{b} \cup random : random \in SUBSET (0..(b - 1))}
  BY FilledBelow DEF Refresh!RandomDistances
<1> HIDE DEF n
<1>3. ASSUME NEW random \in SUBSET (0..(b - 1))
      PROVE  {b} \cup random \in SUBSET (0..n) /\ {b} \cup random # {} /\ Refresh!Max({b} \cup random) = b
  <2> DEFINE d == {b} \cup random
  <2>1. d \in SUBSET (0..n) /\ d # {} /\ b \in d /\ \A y \in d : b >= y
    BY <1>1
  <2> HIDE DEF d
  <2>2. Refresh!Max(d) = b
    BY <1>1, <2>1, GreatestIsMax
  <2> QED
    BY <2>1, <2>2 DEF d
<1>4. ASSUME NEW d \in SUBSET (0..n), d # {}, Refresh!Max(d) = b
      PROVE  \E random \in SUBSET (0..(b - 1)) : d = {b} \cup random
  <2>1. b \in d /\ \A y \in d : b >= y
    BY <1>1, <1>4, GreatestIsMax
  <2>2. d \ {b} \in SUBSET (0..(b - 1)) /\ d = {b} \cup (d \ {b})
    BY <1>1, <2>1
  <2> QED
    BY <2>2
<1> DEFINE Low == SUBSET (0..(b - 1))
           All == SUBSET (0..n)
<1>5. \A random \in Low : {b} \cup random \in All /\ {b} \cup random # {} /\ Refresh!Max({b} \cup random) = b
  BY <1>3
<1>6. \A d \in All : d # {} /\ Refresh!Max(d) = b => \E random \in Low : d = {b} \cup random
  BY <1>4
<1>7. Refresh!RandomDistances(b) = {{b} \cup random : random \in Low}
  BY <1>2
<1> HIDE DEF Low, All
<1>8. {{b} \cup random : random \in Low} = {d \in All : d # {} /\ Refresh!Max(d) = b}
  <2> DEFINE L == {{b} \cup random : random \in Low}
             R == {d \in All : d # {} /\ Refresh!Max(d) = b}
  <2>1. ASSUME NEW d \in L PROVE d \in R
    <3>1. PICK random \in Low : d = {b} \cup random
      OBVIOUS
    <3>2. d \in All /\ d # {} /\ Refresh!Max(d) = b
      BY <1>5, <3>1, Zenon
    <3> QED
      BY <3>2
  <2>2. ASSUME NEW d \in R PROVE d \in L
    <3>1. PICK random \in Low : d = {b} \cup random
      BY <1>6, Zenon
    <3> QED
      BY <3>1
  <2> QED
    BY <2>1, <2>2
<1> QED
  BY <1>7, <1>8 DEF All

-----------------------------------------------------------------------------
(* The date of a Retry-After.                                               *)

\* The leap years up to y, from a year 0 on.
Leaps(y) == ((y \div 4) - (y \div 100)) + (y \div 400)

LEMMA OneMoreLeap ==
    ASSUME NEW y \in Nat \ {0}
    PROVE  /\ Leaps(y) \in Nat /\ Leaps(y - 1) \in Nat
           /\ Leaps(y) = Leaps(y - 1) + (IF Http!Leap(y) THEN 1 ELSE 0)
<1>1. /\ y \div 4 = ((y - 1) \div 4) + (IF y % 4 = 0 THEN 1 ELSE 0)
      /\ y \div 100 = ((y - 1) \div 100) + (IF y % 100 = 0 THEN 1 ELSE 0)
      /\ y \div 400 = ((y - 1) \div 400) + (IF y % 400 = 0 THEN 1 ELSE 0)
  OBVIOUS
<1>2. (y % 400 = 0 => y % 100 = 0) /\ (y % 100 = 0 => y % 4 = 0)
  OBVIOUS
<1>3. \A n \in Nat : Leaps(n) \in Nat
  BY DEF Leaps
<1>4. y \in Nat /\ y - 1 \in Nat
  OBVIOUS
<1>5. Http!Leap(y) <=> y % 4 = 0 /\ (y % 100 # 0 \/ y % 400 = 0)
  BY DEF Http!Leap
<1>6. Leaps(y) = Leaps(y - 1) + (IF Http!Leap(y) THEN 1 ELSE 0)
  BY <1>1, <1>2, <1>5 DEF Leaps
<1> QED
  BY <1>3, <1>4, <1>6

\* The days of the years from a on, before y.
YearsFrom(a, y) == SumOver([x \in a..(y - 1) |-> Http!YearLength(x)])

LEMMA OneMoreYear ==
    ASSUME NEW a \in Nat \ {0}, NEW z \in Nat, z >= a
    PROVE  YearsFrom(a, z) \in Nat /\ YearsFrom(a, z + 1) = YearsFrom(a, z) + Http!YearLength(z)
<1> DEFINE n == z - 1
           f == [x \in a..(n + 1) |-> Http!YearLength(x)]
           g == [x \in a..n |-> Http!YearLength(x)]
<1>1. n \in Nat /\ n >= a - 1 /\ n + 1 = z /\ (z + 1) - 1 = n + 1 /\ n + 1 \in a..(n + 1)
  OBVIOUS
<1>2. \A x : Http!YearLength(x) \in Nat
  BY DEF Http!YearLength
<1>3. YearsFrom(a, z) = SumOver(g) /\ YearsFrom(a, z + 1) = SumOver(f)
  BY <1>1 DEF YearsFrom
<1> HIDE DEF n
<1>4. f \in [a..(n + 1) -> Nat] /\ g \in [a..n -> Nat] /\ \A x \in a..n : g[x] = f[x]
  BY <1>1, <1>2
<1>5. f[n + 1] = Http!YearLength(z)
  BY <1>1
<1> HIDE DEF f, g
<1>6. SumOver(g) \in Nat /\ SumOver(f) = SumOver(g) + f[n + 1]
  BY <1>1, <1>4, SumExtended
<1> QED
  BY <1>3, <1>5, <1>6

\* With the days from the year 0 to the year a, 365 a year and one for a leap year.
LEMMA YearsCounted ==
    ASSUME NEW a \in Nat \ {0}, NEW y \in Nat, y >= a
    PROVE  YearsFrom(a, y) = (365 * (y - a)) + Leaps(y - 1) - Leaps(a - 1)
<1> DEFINE Good == {k \in Nat : YearsFrom(a, a + k) = (365 * k) + Leaps((a + k) - 1) - Leaps(a - 1)}
<1>0. Leaps(a - 1) \in Nat
  BY OneMoreLeap
<1>1. 0 \in Good
  <2>1. a..((a + 0) - 1) = {} /\ a + 0 = a
    OBVIOUS
  <2>2. [x \in a..((a + 0) - 1) |-> Http!YearLength(x)] = [x \in {} |-> 0]
    BY <2>1
  <2>3. YearsFrom(a, a + 0) = 0
    BY <2>2, SumOfNothing DEF YearsFrom
  <2>4. 365 * 0 = 0
    OBVIOUS
  <2>5. (365 * 0) + Leaps((a + 0) - 1) - Leaps(a - 1) = 0
    BY <1>0, <2>1, <2>4, SMT
  <2> QED
    BY <2>3, <2>5, SMT
<1>2. ASSUME NEW k \in Good PROVE k + 1 \in Good
  <2> DEFINE z == a + k
  <2>1. k \in Nat /\ k + 1 \in Nat /\ z \in Nat \ {0} /\ z >= a /\ a + (k + 1) = z + 1 /\ (z + 1) - 1 = z
    OBVIOUS
  <2>2. YearsFrom(a, z) = (365 * k) + Leaps(z - 1) - Leaps(a - 1)
    OBVIOUS
  <2> HIDE DEF z
  <2>3. YearsFrom(a, z) \in Nat /\ YearsFrom(a, z + 1) = YearsFrom(a, z) + Http!YearLength(z)
    BY <2>1, OneMoreYear
  <2>4. Leaps(z) = Leaps(z - 1) + (IF Http!Leap(z) THEN 1 ELSE 0) /\ Leaps(z) \in Nat /\ Leaps(z - 1) \in Nat
    BY <2>1, OneMoreLeap
  <2>5. YearsFrom(a, z + 1) = (365 * (k + 1)) + Leaps(z) - Leaps(a - 1)
    BY <1>0, <2>1, <2>2, <2>3, <2>4, SMT DEF Http!YearLength
  <2>6. YearsFrom(a, a + (k + 1)) = (365 * (k + 1)) + Leaps((a + (k + 1)) - 1) - Leaps(a - 1)
    BY <2>1, <2>5, SMT
  <2> QED
    BY <2>1, <2>6
<1>3. Good \in SUBSET Nat
  OBVIOUS
<1>4. Good = Nat
  <2> HIDE DEF Good
  <2> QED
    BY <1>1, <1>2, <1>3, FirstFailure
<1> DEFINE k == y - a
<1>5. k \in Nat /\ a + k = y /\ k \in Good
  <2>1. k \in Nat /\ a + k = y
    OBVIOUS
  <2> HIDE DEF k, Good
  <2> QED
    BY <1>4, <2>1
<1>6. YearsFrom(a, a + k) = (365 * k) + Leaps((a + k) - 1) - Leaps(a - 1)
  <2> HIDE DEF k
  <2> QED
    BY <1>5, SMT
<1> QED
  BY <1>5, <1>6, SMT

\* The days of the months of the year y before the month m.
Months(y, m) == SumOver([x \in 1..(m - 1) |-> Http!MonthLength(y, x)])

LEMMA MonthsCounted ==
    ASSUME NEW y \in Nat, NEW m \in 1..12
    PROVE  LET leap == IF Http!Leap(y) THEN 1 ELSE 0
           IN  Months(y, m) = CASE m = 1 -> 0 [] m = 2 -> 31 [] m = 3 -> 59 + leap
                     [] m = 4 -> 90 + leap [] m = 5 -> 120 + leap [] m = 6 -> 151 + leap
                     [] m = 7 -> 181 + leap [] m = 8 -> 212 + leap [] m = 9 -> 243 + leap
                     [] m = 10 -> 273 + leap [] m = 11 -> 304 + leap [] m = 12 -> 334 + leap
<1>1. Months(y, 1) = 0
  <2>1. 1..(1 - 1) = {}
    OBVIOUS
  <2>2. [x \in 1..(1 - 1) |-> Http!MonthLength(y, x)] = [x \in {} |-> 0]
    BY <2>1
  <2> QED
    BY <2>2, SumOfNothing DEF Months
<1>2. ASSUME NEW n \in Nat
      PROVE  Months(y, n + 1) \in Nat /\ Months(y, n + 2) = Months(y, n + 1) + Http!MonthLength(y, n + 1)
  <2> DEFINE f == [x \in 1..(n + 1) |-> Http!MonthLength(y, x)]
             g == [x \in 1..n |-> Http!MonthLength(y, x)]
  <2>1. \A x : Http!MonthLength(y, x) \in Nat
    BY DEF Http!MonthLength
  <2>2. f \in [1..(n + 1) -> Nat] /\ g \in [1..n -> Nat] /\ \A x \in 1..n : g[x] = f[x]
    BY <2>1
  <2>3. f[n + 1] = Http!MonthLength(y, n + 1)
    OBVIOUS
  <2>4. (n + 1) - 1 = n /\ (n + 2) - 1 = n + 1 /\ n >= 1 - 1 /\ 1 \in Nat
    OBVIOUS
  <2>5. Months(y, n + 1) = SumOver(g) /\ Months(y, n + 2) = SumOver(f)
    BY <2>4 DEF Months
  <2> HIDE DEF f, g
  <2>6. SumOver(g) \in Nat /\ SumOver(f) = SumOver(g) + f[n + 1]
    BY <2>2, <2>4, SumExtended
  <2> QED
    BY <2>3, <2>5, <2>6
<1> DEFINE leap == IF Http!Leap(y) THEN 1 ELSE 0
           M(m_) == Months(y, m_)
           L(m_) == Http!MonthLength(y, m_)
<1>3. /\ L(1) = 31 /\ L(2) = 28 + leap /\ L(3) = 31 /\ L(4) = 30 /\ L(5) = 31 /\ L(6) = 30
      /\ L(7) = 31 /\ L(8) = 31 /\ L(9) = 30 /\ L(10) = 31 /\ L(11) = 30
  BY DEF Http!MonthLength
<1>4. \A n \in 1..11 : M(n + 1) = M(n) + L(n)
  <2> SUFFICES ASSUME NEW n \in 1..11 PROVE M(n + 1) = M(n) + L(n)
    OBVIOUS
  <2>1. n - 1 \in Nat /\ (n - 1) + 1 = n /\ (n - 1) + 2 = n + 1
    OBVIOUS
  <2>2. Months(y, (n - 1) + 2) = Months(y, (n - 1) + 1) + Http!MonthLength(y, (n - 1) + 1)
    BY <1>2, <2>1
  <2> QED
    BY <2>1, <2>2
<1> HIDE DEF M, L
<1>5. /\ M(2) = M(1) + L(1) /\ M(3) = M(2) + L(2) /\ M(4) = M(3) + L(3) /\ M(5) = M(4) + L(4)
      /\ M(6) = M(5) + L(5) /\ M(7) = M(6) + L(6) /\ M(8) = M(7) + L(7) /\ M(9) = M(8) + L(8)
      /\ M(10) = M(9) + L(9) /\ M(11) = M(10) + L(10) /\ M(12) = M(11) + L(11)
  BY <1>4, SMT
<1>6. leap \in {0, 1}
  OBVIOUS
<1>7. M(1) = 0
  BY <1>1 DEF M
<1>8. M(m) = CASE m = 1 -> 0 [] m = 2 -> 31 [] m = 3 -> 59 + leap
               [] m = 4 -> 90 + leap [] m = 5 -> 120 + leap [] m = 6 -> 151 + leap
               [] m = 7 -> 181 + leap [] m = 8 -> 212 + leap [] m = 9 -> 243 + leap
               [] m = 10 -> 273 + leap [] m = 11 -> 304 + leap [] m = 12 -> 334 + leap
  <2> HIDE DEF leap
  <2>1. /\ M(2) = 31 /\ M(3) = 59 + leap /\ M(4) = 90 + leap /\ M(5) = 120 + leap /\ M(6) = 151 + leap
        /\ M(7) = 181 + leap /\ M(8) = 212 + leap /\ M(9) = 243 + leap /\ M(10) = 273 + leap
        /\ M(11) = 304 + leap /\ M(12) = 334 + leap
    BY <1>3, <1>5, <1>6, <1>7
  <2>2. m \in {1, 2, 3, 4, 5, 6, 7, 8, 9, 10, 11, 12}
    OBVIOUS
  <2> QED
    BY <1>7, <2>1, <2>2
<1> QED
  BY <1>8 DEF M

\* The count of days_from_epoch from a year in its era on, for a date of March
\* or later (m in 3..12) and for one of January or February.
YearOfEra(y, era, yoe) == era = y \div 400 /\ yoe = y - era * 400

LEMMA EraCounted ==
    ASSUME NEW y \in Nat, NEW era, NEW yoe, YearOfEra(y, era, yoe)
    PROVE  /\ era * 146097 + (yoe * 365 + yoe \div 4 - yoe \div 100) = (365 * y) + Leaps(y)
           /\ era \in Nat /\ yoe \in 0..399 /\ yoe \div 4 \in Nat /\ yoe \div 100 \in Nat
<1>1. era \in Nat /\ yoe \in 0..399 /\ y = (400 * era) + yoe
  BY SMT DEF YearOfEra
<1>2. /\ y \div 4 = (100 * era) + (yoe \div 4) /\ y \div 100 = (4 * era) + (yoe \div 100)
      /\ yoe \div 4 \in Nat /\ yoe \div 100 \in Nat
  BY <1>1, SMT
<1>3. Leaps(y) = (97 * era) + ((yoe \div 4) - (yoe \div 100))
  BY <1>1, <1>2, SMT DEF Leaps
<1> QED
  BY <1>1, <1>2, <1>3, SMT

LEMMA SumsAre == \A f : Http!SumOf(f) = SumOver(f)
BY DEF Http!SumOf, Http!FoldFunction, Http!FoldFunctionOnSet, Http!MapThenFoldSet,
       SumOver, FoldFunction, FoldFunctionOnSet, MapThenFoldSet

\* The two counts of days agree.
LEMMA DaysAgree ==
    ASSUME NEW date \in Nat \X (1..12) \X (1..31), date[1] >= 1970
    PROVE  /\ Http!DaysFromEpoch(date) = Http!DaysSince1970(date)
           /\ Http!DaysSince1970(date) \in Nat
<1> DEFINE y == date[1]
           m == date[2]
           d == date[3]
           leap == IF Http!Leap(y) THEN 1 ELSE 0
<1>1. y \in Nat \ {0} /\ m \in 1..12 /\ d \in 1..31 /\ y - 1 \in Nat
  BY SMT
<1>2. Http!DaysSince1970(date) = YearsFrom(1970, y) + Months(y, m) + d - 1
  BY SumsAre, SMT DEF Http!DaysSince1970, YearsFrom, Months
<1>3. YearsFrom(1970, y) = (365 * (y - 1970)) + Leaps(y - 1) - 477
  <2>1. Leaps(1970 - 1) = 477 /\ 1970 \in Nat \ {0}
    BY SMT DEF Leaps
  <2>2. YearsFrom(1970, y) = (365 * (y - 1970)) + Leaps(y - 1) - Leaps(1970 - 1)
    BY <1>1, <2>1, YearsCounted, SMT
  <2> QED
    BY <2>1, <2>2, SMT
<1>4. Leaps(y) = Leaps(y - 1) + leap /\ Leaps(y) \in Nat /\ Leaps(y - 1) \in Nat /\ leap \in {0, 1}
  BY <1>1, OneMoreLeap
<1>5. Months(y, m) = CASE m = 1 -> 0 [] m = 2 -> 31 [] m = 3 -> 59 + leap
               [] m = 4 -> 90 + leap [] m = 5 -> 120 + leap [] m = 6 -> 151 + leap
               [] m = 7 -> 181 + leap [] m = 8 -> 212 + leap [] m = 9 -> 243 + leap
               [] m = 10 -> 273 + leap [] m = 11 -> 304 + leap [] m = 12 -> 334 + leap
  BY <1>1, MonthsCounted
<1> DEFINE Y == IF m <= 2 THEN y - 1 ELSE y
           w == IF m <= 2 THEN m + 9 ELSE m - 3
           doy == (153 * w + 2) \div 5 + d - 1
           era == Y \div 400
           yoe == Y - era * 400
<1>6. Http!DaysFromEpoch(date) = era * 146097 + (yoe * 365 + yoe \div 4 - yoe \div 100 + doy) - 719468
  BY DEF Http!DaysFromEpoch
<1>7. Y \in Nat
  BY <1>1, SMT
<1>8. Leaps(Y) \in Nat /\ YearOfEra(Y, era, yoe)
  <2> HIDE DEF Y
  <2> QED
    BY <1>7, SMT DEF Leaps, YearOfEra
<1>9. /\ era * 146097 + (yoe * 365 + yoe \div 4 - yoe \div 100) = (365 * Y) + Leaps(Y)
      /\ era \in Nat /\ yoe \in 0..399 /\ yoe \div 4 \in Nat /\ yoe \div 100 \in Nat
  <2> HIDE DEF Y, era, yoe
  <2> QED
    BY <1>7, <1>8, EraCounted, SMT
<1>10. doy \in Int
  BY <1>1, SMT
<1>11. Http!DaysFromEpoch(date) = (365 * Y) + Leaps(Y) + doy - 719468
  <2> HIDE DEF Y, era, yoe, doy
  <2> QED
    BY <1>6, <1>7, <1>8, <1>9, <1>10, SMT
<1> HIDE DEF y, m, d, leap, era, yoe
<1>12. Http!DaysFromEpoch(date) = Http!DaysSince1970(date)
  <2>1. CASE m <= 2
    <3>1. Y = y - 1 /\ doy = ((153 * (m + 9) + 2) \div 5) + d - 1
      BY <2>1
    <3>2. (m = 1 /\ doy = 306 + d - 1) \/ (m = 2 /\ doy = 337 + d - 1)
      <4> HIDE DEF doy, Y
      <4> QED
        BY <1>1, <2>1, <3>1, SMT
    <3> HIDE DEF doy, Y
    <3> QED
      BY <1>1, <1>2, <1>3, <1>4, <1>5, <1>11, <3>1, <3>2, SMT
  <2>2. CASE ~(m <= 2)
    <3>1. Y = y /\ doy = ((153 * (m - 3) + 2) \div 5) + d - 1
      BY <2>2
    <3>2. \/ m = 3 /\ doy = d - 1
          \/ m = 4 /\ doy = 31 + d - 1
          \/ m = 5 /\ doy = 61 + d - 1
          \/ m = 6 /\ doy = 92 + d - 1
          \/ m = 7 /\ doy = 122 + d - 1
          \/ m = 8 /\ doy = 153 + d - 1
          \/ m = 9 /\ doy = 184 + d - 1
          \/ m = 10 /\ doy = 214 + d - 1
          \/ m = 11 /\ doy = 245 + d - 1
          \/ m = 12 /\ doy = 275 + d - 1
      <4> HIDE DEF doy, Y
      <4>1. m \in {3, 4, 5, 6, 7, 8, 9, 10, 11, 12}
        BY <1>1, <2>2, SMT
      <4>2. CASE m = 3
        BY <1>1, <3>1, <4>2, SMT
      <4>3. CASE m = 4
        BY <3>1, <4>3, SMT
      <4>4. CASE m = 5
        BY <3>1, <4>4, SMT
      <4>5. CASE m = 6
        BY <3>1, <4>5, SMT
      <4>6. CASE m = 7
        BY <3>1, <4>6, SMT
      <4>7. CASE m = 8
        BY <3>1, <4>7, SMT
      <4>8. CASE m = 9
        BY <3>1, <4>8, SMT
      <4>9. CASE m = 10
        BY <3>1, <4>9, SMT
      <4>10. CASE m = 11
        BY <3>1, <4>10, SMT
      <4>11. CASE m = 12
        BY <3>1, <4>11, SMT
      <4> QED
        BY <4>1, <4>2, <4>3, <4>4, <4>5, <4>6, <4>7, <4>8, <4>9, <4>10, <4>11
    <3> HIDE DEF doy, Y
    <3> QED
      BY <1>1, <1>2, <1>3, <1>4, <1>5, <1>11, <3>1, <3>2, SMT
  <2> QED
    BY <2>1, <2>2
<1>13. YearsFrom(1970, y) \in Nat
  <2>1. 1970 \in Nat \ {0}
    BY SMT
  <2>2. y >= 1970
    BY DEF y
  <2> QED
    BY <1>1, <2>1, <2>2, OneMoreYear, SMT
<1>14. Months(y, m) \in Nat
  BY <1>1, <1>4, <1>5, SMT
<1> QED
  BY <1>1, <1>2, <1>12, <1>13, <1>14, SMT

\* Only a request that has ended has an outcome, and that of one that was
\* throttled is what its header says.
HttpInv ==
    /\ httpPc # "done" => outcome = Http!Pending
    /\ outcome.kind = "throttled" => outcome.after = Http!RetryAfter(reply.after)
    /\ reply.after \in Http!Headers

LEMMA HttpInit == Http!Init => HttpInv
BY DEF Http!Init, HttpInv, Http!Pending, Http!NoReply, Http!Headers

LEMMA HttpStep ==
    ASSUME HttpInv, [Http!Next]_httpVars
    PROVE  HttpInv'
<1>0. /\ httpPc # "done" => outcome = Http!Pending
      /\ outcome.kind = "throttled" => outcome.after = Http!RetryAfter(reply.after)
      /\ reply.after \in Http!Headers
  BY DEF HttpInv
<1>1. ASSUME NEW kind, kind # "throttled", Http!Ends(kind), reply'.after \in Http!Headers PROVE HttpInv'
  BY <1>1 DEF HttpInv, Http!Ends, Http!Pending
<1>2. ASSUME httpPc # "done", UNCHANGED outcome, reply'.after \in Http!Headers PROVE HttpInv'
  BY <1>0, <1>2 DEF HttpInv, Http!Pending
<1>3. Http!NoReply.after \in Http!Headers
  BY DEF Http!NoReply, Http!Headers
<1>4. ASSUME Http!Lookup PROVE HttpInv'
  <2>1. httpPc # "done" /\ reply' = reply
    BY <1>4 DEF Http!Lookup
  <2> QED
    BY <1>0, <1>1, <1>2, <1>4, <2>1 DEF Http!Lookup
<1>5. ASSUME Http!Respond PROVE HttpInv'
  <2>1. httpPc # "done"
    BY <1>5 DEF Http!Respond
  <2>2. CASE Http!Ends("network") /\ UNCHANGED <<name, previous, reply>>
    BY <1>0, <1>1, <2>2
  <2>3. ASSUME NEW status, NEW size, NEW after \in Http!Headers,
               Http!Reply([status |-> status, size |-> size, after |-> after])
        PROVE  HttpInv'
    <3>1. UNCHANGED outcome /\ reply'.after = after
      BY <2>3 DEF Http!Reply
    <3> QED
      BY <1>2, <2>1, <2>3, <3>1
  <2>4. \/ Http!Ends("network") /\ UNCHANGED <<name, previous, reply>>
        \/ \E status, size : \E after \in Http!Headers :
               Http!Reply([status |-> status, size |-> size, after |-> after])
    BY <1>5 DEF Http!Respond
  <2> QED
    BY <2>2, <2>3, <2>4, Zenon
<1>6. ASSUME Http!Redirect PROVE HttpInv'
  <2>1. httpPc # "done"
    BY <1>6 DEF Http!Redirect
  <2>2. CASE Http!Ends("network") /\ UNCHANGED <<name, previous, reply>>
    BY <1>0, <1>1, <2>2
  <2>3. CASE reply' = Http!NoReply /\ UNCHANGED outcome
    BY <1>2, <1>3, <2>1, <2>3
  <2> QED
    BY <1>6, <2>2, <2>3 DEF Http!Redirect
<1>7. ASSUME Http!Judge PROVE HttpInv'
  <2>1. httpPc # "done" /\ reply' = reply
    BY <1>7 DEF Http!Judge
  <2>2. CASE httpPc' = "done" /\ outcome' = Http!Refused(reply)
    <3>1. outcome'.kind = "throttled" => outcome'.after = Http!RetryAfter(reply.after)
      BY <2>2 DEF Http!Refused, Http!Classify, Http!Pending
    <3> QED
      BY <1>0, <2>1, <2>2, <3>1 DEF HttpInv
  <2>3. CASE Http!Ends("ok") \/ Http!Ends("tooLarge")
    BY <1>0, <1>1, <2>1, <2>3
  <2>4. CASE UNCHANGED outcome
    BY <1>0, <1>2, <2>1, <2>4
  <2> QED
    BY <1>7, <2>2, <2>3, <2>4 DEF Http!Judge
<1>8. ASSUME Http!ReadBody PROVE HttpInv'
  <2>1. reply' = reply /\ (Http!Ends("ok") \/ Http!Ends("network"))
    BY <1>8 DEF Http!ReadBody
  <2> QED
    BY <1>0, <1>1, <2>1
<1>9. CASE UNCHANGED httpVars
  BY <1>0, <1>9 DEF httpVars, HttpInv
<1> QED
  BY <1>4, <1>5, <1>6, <1>7, <1>8, <1>9 DEF Http!Next

LEMMA HttpWaits == HttpInv => Http!WaitsUntilDate
<1> SUFFICES ASSUME HttpInv, outcome.kind = "throttled", reply.after.form = "date", reply.after.date[1] >= 1970
             PROVE  outcome.after = Http!Max({0, Http!DaysSince1970(reply.after.date) - Today})
  BY DEF Http!WaitsUntilDate
<1> DEFINE date == reply.after.date
<1>1. reply.after \in Http!Headers
  BY DEF HttpInv
<1>2. reply.after \in [form : {"date"}, date : Dates]
  BY <1>1 DEF Http!Headers, Http!NoHeader
<1>3. date \in Nat \X (1..12) \X (1..31)
  BY <1>2, ServicesAssumption
<1> HIDE DEF date
<1>4. date[1] >= 1970
  BY DEF date
<1>5. Http!DaysFromEpoch(date) = Http!DaysSince1970(date) /\ Http!DaysSince1970(date) \in Nat
  BY <1>3, <1>4, DaysAgree, SMT
<1>6. outcome.after = Http!RetryAfter(reply.after)
  BY DEF HttpInv
<1>7. Http!RetryAfter(reply.after) =
          IF Http!DaysFromEpoch(date) < 0 THEN Huge ELSE Http!Max({0, Http!DaysFromEpoch(date) - Today})
  BY SMT DEF Http!RetryAfter, date
<1>8. ~(Http!DaysFromEpoch(date) < 0)
  BY <1>5, SMT
<1> QED
  BY <1>5, <1>6, <1>7, <1>8, SMT DEF date

-----------------------------------------------------------------------------
(* The two forms of a record.                                               *)

LEMMA LowerIs ==
    /\ Record!Lower["Pending"] = "pending" /\ Record!Lower["Connecting"] = "connecting"
    /\ Record!Lower["Downloading"] = "downloading" /\ Record!Lower["Paused"] = "paused"
    /\ Record!Lower["Resuming"] = "resuming" /\ Record!Lower["Verifying"] = "verifying"
    /\ Record!Lower["Completed"] = "completed" /\ Record!Lower["Failed"] = "failed"
    /\ Record!Lower["Cancelled"] = "cancelled"
BY DEF Record!Lower, Record!DebugNames

\* No two statuses have the same name in lower case.
LEMMA LowerDiffers ==
    ASSUME NEW n \in Record!DebugNames, NEW m \in Record!DebugNames, Record!Lower[n] = Record!Lower[m]
    PROVE  n = m
BY LowerIs DEF Record!DebugNames

LEMMA StatusReadBack ==
    ASSUME NEW n \in Record!DebugNames
    PROVE  Record!ParseLegacyStatus(Record!Lower[n]) = n
<1> DEFINE text == Record!Lower[n]
           c == CHOOSE m \in Record!DebugNames : Record!Lower[m] = text
<1>1. c \in Record!DebugNames /\ Record!Lower[c] = text
  OBVIOUS
<1>2. c = n
  <2> HIDE DEF c
  <2> QED
    BY <1>1, LowerDiffers
<1>3. Record!ParseLegacyStatus(text) = c
  BY DEF Record!ParseLegacyStatus
<1> QED
  BY <1>2, <1>3

LEMMA StatusParsed == \A text : Record!ParseLegacyStatus(text) \in Record!DebugNames
<1> SUFFICES ASSUME NEW text PROVE Record!ParseLegacyStatus(text) \in Record!DebugNames
  OBVIOUS
<1>1. CASE \E n \in Record!DebugNames : Record!Lower[n] = text
  BY <1>1 DEF Record!ParseLegacyStatus
<1>2. CASE ~(\E n \in Record!DebugNames : Record!Lower[n] = text)
  BY <1>2 DEF Record!ParseLegacyStatus, Record!DebugNames
<1> QED
  BY <1>1, <1>2

SavedType == [status : Record!DebugNames \cup {"none"}, done : SUBSET RecordFrags]

\* The file is what was saved, in either form.
RecordInv ==
    /\ file \in Record!Snapshots \cup Record!Records \cup {Record!Missing}
    /\ saved \in SavedType
    /\ file = Record!Missing <=> saved.status = "none"
    /\ file # Record!Missing =>
        /\ Record!LoadSnapshot.status = saved.status /\ file.done = saved.done
        /\ saved.status \in Record!DebugNames

\* What is read of a file as a snapshot.
LEMMA SnapshotRead ==
    ASSUME file \in Record!Snapshots \cup Record!Records
    PROVE  /\ Record!LoadSnapshot \in Record!Snapshots /\ Record!LoadSnapshot.done = file.done
           /\ Record!LoadSnapshot.status \in Record!DebugNames
           /\ Record!LoadSnapshot # Record!Missing /\ file # Record!Missing
<1>1. CASE file \in Record!Snapshots
  <2>1. file.form = "snapshot"
    BY <1>1 DEF Record!Snapshots
  <2>2. Record!LoadSnapshot = file
    BY <2>1 DEF Record!LoadSnapshot
  <2> QED
    BY <1>1, <2>1, <2>2 DEF Record!Snapshots, Record!Missing
<1>2. CASE file \in Record!Records
  <2>1. file.form = "record" /\ file.done \in SUBSET RecordFrags
    BY <1>2 DEF Record!Records
  <2>2. Record!LoadSnapshot = Record!ToSnapshot(file)
    BY <2>1 DEF Record!LoadSnapshot
  <2>3. Record!ToSnapshot(file) = [form |-> "snapshot", status |-> Record!ParseLegacyStatus(file.status),
                                   done |-> file.done, rest |-> "blank"]
    BY DEF Record!ToSnapshot
  <2>4. Record!ParseLegacyStatus(file.status) \in Record!DebugNames
    BY StatusParsed
  <2> QED
    BY <2>1, <2>2, <2>3, <2>4 DEF Record!Snapshots, Record!Missing
<1> QED
  BY <1>1, <1>2

LEMMA RecordInit ==
    ASSUME Record!Init
    PROVE  RecordInv
<1>1. CASE file = Record!Missing
  BY <1>1 DEF Record!Init, RecordInv, SavedType
<1>2. CASE file # Record!Missing
  <2>1. file \in Record!Records /\ file.done = {} /\ saved = [status |-> Record!ParseLegacyStatus(file.status), done |-> {}]
    BY <1>2 DEF Record!Init
  <2>2. file.form = "record"
    BY <2>1 DEF Record!Records
  <2>3. Record!LoadSnapshot.status = Record!ParseLegacyStatus(file.status)
    BY <2>2 DEF Record!LoadSnapshot, Record!ToSnapshot
  <2>4. Record!ParseLegacyStatus(file.status) \in Record!DebugNames
    BY StatusParsed
  <2>5. "none" \notin Record!DebugNames
    BY DEF Record!DebugNames
  <2> QED
    BY <1>2, <2>1, <2>3, <2>4, <2>5 DEF RecordInv, SavedType
<1> QED
  BY <1>1, <1>2

\* A snapshot with a status and fragments is written, and noted as saved.
LEMMA SnapshotSaved ==
    ASSUME NEW status \in Record!DebugNames, NEW done \in SUBSET RecordFrags, NEW rest \in {"kept", "blank"},
           file' = [form |-> "snapshot", status |-> status, done |-> done, rest |-> rest],
           saved' = [status |-> status, done |-> done]
    PROVE  RecordInv'
<1>1. file' \in Record!Snapshots
  BY DEF Record!Snapshots
<1>2. file'.form = "snapshot" /\ file' # Record!Missing
  BY DEF Record!Missing
<1>3. Record!LoadSnapshot' = file'
  BY <1>2 DEF Record!LoadSnapshot
<1>4. "none" \notin Record!DebugNames
  BY DEF Record!DebugNames
<1> QED
  BY <1>1, <1>2, <1>3, <1>4 DEF RecordInv, SavedType

LEMMA RecordStep ==
    ASSUME RecordInv, [Record!Next]_recordVars
    PROVE  RecordInv'
<1>0. /\ file \in Record!Snapshots \cup Record!Records \cup {Record!Missing}
      /\ saved \in SavedType
      /\ file # Record!Missing => /\ Record!LoadSnapshot.status = saved.status /\ file.done = saved.done
                                  /\ saved.status \in Record!DebugNames
  BY DEF RecordInv
<1>1. ASSUME NEW status \in Record!DebugNames, Record!SaveSnapshot(status) PROVE RecordInv'
  <2> DEFINE done == IF file = Record!Missing THEN {} ELSE file.done
  <2>1. file' = [form |-> "snapshot", status |-> status, done |-> done, rest |-> "kept"]
    BY <1>1 DEF Record!SaveSnapshot
  <2>2. done \in SUBSET RecordFrags
    BY <1>0 DEF Record!Snapshots, Record!Records
  <2> HIDE DEF done
  <2>3. saved' = [status |-> status, done |-> done]
    BY <1>1, <2>1 DEF Record!SaveSnapshot
  <2> QED
    BY <2>1, <2>2, <2>3, SnapshotSaved
<1>2. ASSUME NEW f \in RecordFrags, Record!UpdateFragmentProgress(f) PROVE RecordInv'
  <2> DEFINE s == Record!LoadSnapshot
             done == file.done \cup {f}
             record == [Record!LoadRecord EXCEPT !.done = @ \cup {f}]
  <2>1. file # Record!Missing /\ file' = Record!ToSnapshot(record) /\ saved' = [saved EXCEPT !.done = @ \cup {f}]
    BY <1>2 DEF Record!UpdateFragmentProgress, Record!SaveTask
  <2>2. file \in Record!Snapshots \cup Record!Records
    BY <1>0, <2>1
  <2>3. s \in Record!Snapshots /\ s.done = file.done /\ s.status \in Record!DebugNames
    BY <2>2, SnapshotRead
  <2>4. Record!LoadRecord = [form |-> "record", status |-> Record!Lower[s.status], done |-> s.done]
    BY <2>1 DEF Record!LoadRecord, Record!ToRecord
  <2> HIDE DEF s
  <2>5. record.status = Record!Lower[s.status] /\ record.done = done
    BY <2>3, <2>4
  <2> HIDE DEF record
  <2>6. Record!ParseLegacyStatus(record.status) = s.status
    BY <2>3, <2>5, StatusReadBack
  <2>7. file' = [form |-> "snapshot", status |-> s.status, done |-> done, rest |-> "blank"]
    BY <2>1, <2>5, <2>6 DEF Record!ToSnapshot
  <2>8. done \in SUBSET RecordFrags
    BY <2>2 DEF Record!Snapshots, Record!Records
  <2>9. saved' = [status |-> s.status, done |-> done]
    <3>1. s.status = saved.status /\ saved.done = file.done /\ saved \in SavedType
      BY <1>0, <2>1 DEF s
    <3> QED
      BY <2>1, <3>1 DEF SavedType
  <2> HIDE DEF done
  <2> QED
    BY <2>3, <2>7, <2>8, <2>9, SnapshotSaved
<1>3. ASSUME Record!RemoveTask PROVE RecordInv'
  BY <1>3 DEF Record!RemoveTask, RecordInv, SavedType
<1>4. ASSUME UNCHANGED <<file, saved>> PROVE RecordInv'
  BY <1>4 DEF RecordInv, Record!LoadSnapshot
<1> QED
  BY <1>1, <1>2, <1>3, <1>4 DEF Record!Next, Record!Load, recordVars

LEMMA RecordReadBack == RecordInv => Record!RecordSurvives
<1> SUFFICES ASSUME RecordInv PROVE Record!RecordSurvives
  OBVIOUS
<1>1. CASE file = Record!Missing
  BY <1>1 DEF RecordInv, Record!RecordSurvives, Record!LoadSnapshot, Record!LoadRecord, Record!Missing,
              Record!PendingSnapshot, Record!PendingRecord
<1>2. CASE file # Record!Missing
  <2> DEFINE s == Record!LoadSnapshot
             r == Record!LoadRecord
  <2>1. /\ s.done = file.done /\ s.status \in Record!DebugNames /\ s # Record!Missing
    BY <1>2, SnapshotRead DEF RecordInv
  <2>2. r = [form |-> "record", status |-> Record!Lower[s.status], done |-> s.done]
    BY <1>2 DEF Record!LoadRecord, Record!ToRecord
  <2>3. s.status = saved.status /\ file.done = saved.done /\ saved.status # "none"
    BY <1>2 DEF RecordInv
  <2> HIDE DEF s, r
  <2>4. r # Record!Missing /\ r.done = s.done /\ r.status = Record!Lower[s.status]
    BY <2>2 DEF Record!Missing
  <2>5. s.status \in {"Downloading", "Paused"} <=> r.status \in {"downloading", "paused"}
    BY <2>1, <2>4, LowerIs DEF Record!DebugNames
  <2>6. Record!PendingSnapshot(s) = Record!PendingRecord(r)
    BY <2>1, <2>4, <2>5 DEF Record!PendingSnapshot, Record!PendingRecord
  <2> QED
    BY <1>2, <2>1, <2>3, <2>4, <2>6 DEF Record!RecordSurvives, s, r
<1> QED
  BY <1>1, <1>2

-----------------------------------------------------------------------------
(* The model hub.                                                           *)

\* What of ServicesAssumption the hub needs.
LEMMA HubConstants ==
    /\ Repos \subseteq Seq(STRING) /\ (\A repo \in Repos : \A i \in DOMAIN repo : repo[i] # Main)
    /\ Main \notin Revisions /\ Main \notin HubFiles /\ MirrorSite # Main
BY ServicesAssumption

\* The names of a file after the endpoint: its repository, revision and path.
\* What \o makes of an endpoint, a repository, a revision and a file.
LEMMA Joined ==
    ASSUME NEW e, NEW repo \in Seq(STRING), Len(repo) = 2, NEW v, NEW f
    PROVE  /\ <<e>> \o repo \o <<v, f>> = <<e, repo[1], repo[2], v, f>>
           /\ repo \o <<v, f>> = <<repo[1], repo[2], v, f>>
<1> DEFINE S == STRING \cup {e, v, f}
           s == <<e>>
           t == <<v, f>>
           a == repo[1]
           b == repo[2]
           r == <<a, b>>
           u == <<e, a, b>>
<1>1. a \in STRING /\ b \in STRING /\ repo = r
  BY PairIs
<1> HIDE DEF a, b
<1>2. /\ Len(s) = 1 /\ s[1] = e /\ Len(t) = 2 /\ t[1] = v /\ t[2] = f
      /\ Len(r) = 2 /\ r[1] = a /\ r[2] = b /\ Len(u) = 3 /\ u[1] = e /\ u[2] = a /\ u[3] = b
  OBVIOUS
<1>3. a \in S /\ b \in S /\ e \in S /\ v \in S /\ f \in S
  BY <1>1
<1> HIDE DEF S
<1>4. s \in Seq(S) /\ t \in Seq(S) /\ r \in Seq(S) /\ u \in Seq(S)
  BY <1>3
<1> HIDE DEF s, t, r
<1>5. s \o r = u
  BY <1>2, <1>4, OneAndTwo
<1> HIDE DEF u
<1>6. u \o t = <<e, a, b, v, f>>
  BY <1>2, <1>4, ThreeAndTwo
<1>7. r \o t = <<a, b, v, f>>
  BY <1>2, <1>4, TwoAndTwo
<1>8. (s \o r) \o t = <<e, a, b, v, f>>
  BY <1>5, <1>6
<1> QED
  BY <1>1, <1>7, <1>8 DEF a, b, s, t

Linked(url, endpoint) ==
    \E repo \in Repos, revision \in Revisions, file_ \in HubFiles :
        /\ Hub!ValidRepo(repo) /\ Hub!ValidRevision(revision)
        /\ url = <<endpoint, repo[1], repo[2], revision, file_>>

Preferred == IF env.endpoint \in {Unset, Hub!Blank} THEN MirrorSite ELSE env.endpoint

HubInv ==
    /\ listing # Hub!NoListing =>
        /\ listing.repo \in Repos /\ listing.revision \in Revisions
        /\ Hub!ValidRepo(listing.repo) /\ Hub!ValidRevision(listing.revision)
    /\ link # Hub!NoLink => Linked(link, Hub!HfEndpoint)
    /\ fetched # Hub!NoLink => Linked(fetched, Preferred)

LEMMA HubInit == Hub!Init => HubInv
BY DEF Hub!Init, HubInv

\* The endpoint is rewritten to the preferred one, and the names are not.
LEMMA Rewritten ==
    ASSUME NEW url, NEW endpoint, Linked(url, endpoint), endpoint \in {Main, Preferred}
    PROVE  Linked(Hub!RewriteHfUrl(url), Preferred)
<1>1. PICK repo \in Repos, revision \in Revisions, file_ \in HubFiles :
        /\ Hub!ValidRepo(repo) /\ Hub!ValidRevision(revision)
        /\ url = <<endpoint, repo[1], repo[2], revision, file_>>
  BY DEF Linked
<1>2. repo[1] # Main /\ repo[2] # Main /\ revision # Main /\ file_ # Main
  <2>1. repo \in Seq(STRING) /\ Len(repo) = 2
    BY <1>1, HubConstants DEF Hub!ValidRepo
  <2>2. 1 \in DOMAIN repo /\ 2 \in DOMAIN repo
    BY <2>1, PairIs
  <2> QED
    BY <2>2, HubConstants
<1>3. Hub!RewriteHfUrl(url) = [i \in DOMAIN url |-> IF url[i] = Main THEN Preferred ELSE url[i]]
  BY DEF Hub!RewriteHfUrl, Preferred
<1> HIDE DEF Preferred
<1>4. [i \in DOMAIN url |-> IF url[i] = Main THEN Preferred ELSE url[i]]
        = <<Preferred, repo[1], repo[2], revision, file_>>
  BY <1>1, <1>2
<1> QED
  BY <1>1, <1>3, <1>4 DEF Linked

LEMMA HubStep ==
    ASSUME HubInv, [Hub!Next]_hubVars
    PROVE  HubInv'
<1>0. /\ listing # Hub!NoListing =>
           /\ listing.repo \in Repos /\ listing.revision \in Revisions
           /\ Hub!ValidRepo(listing.repo) /\ Hub!ValidRevision(listing.revision)
      /\ link # Hub!NoLink => Linked(link, Hub!HfEndpoint)
      /\ fetched # Hub!NoLink => Linked(fetched, Preferred)
  BY DEF HubInv
<1>1. UNCHANGED env => Hub!HfEndpoint' = Hub!HfEndpoint /\ Preferred' = Preferred
  BY DEF Hub!HfEndpoint, Preferred
<1>2. \A url, endpoint : Linked(url, endpoint)' <=> Linked(url, endpoint)
  BY DEF Linked
<1>3. ASSUME NEW repo \in Repos, NEW revision \in Revisions, Hub!ListFiles(repo, revision) PROVE HubInv'
  BY <1>0, <1>1, <1>3 DEF HubInv, Hub!ListFiles, Linked
<1>4. ASSUME NEW file_ \in HubFiles, Hub!DownloadUrl(file_) PROVE HubInv'
  <2>1. listing # Hub!NoListing /\ link' = <<Hub!HfEndpoint>> \o listing.repo \o <<listing.revision, file_>>
        /\ UNCHANGED <<env, listing, fetched>>
    BY <1>4 DEF Hub!DownloadUrl
  <2>2. listing.repo \in Seq(STRING) /\ Len(listing.repo) = 2
    BY <1>0, <2>1, HubConstants DEF Hub!ValidRepo
  <2> DEFINE repo == listing.repo
             e == Hub!HfEndpoint
             v == listing.revision
  <2>3. link' = <<e, repo[1], repo[2], v, file_>>
    <3> HIDE DEF repo, e, v
    <3>1. link' = <<e>> \o repo \o <<v, file_>> /\ repo \in Seq(STRING) /\ Len(repo) = 2
      BY <2>1, <2>2 DEF repo, e, v
    <3> QED
      BY <3>1, Joined
  <2>4. Linked(link', e)
    BY <1>0, <2>1, <2>3 DEF Linked
  <2> QED
    BY <1>0, <1>1, <2>1, <2>4 DEF HubInv, Linked
<1>5. ASSUME Hub!Fetch PROVE HubInv'
  <2>1. Linked(Hub!RewriteHfUrl(link), Preferred)
    <3>1. Hub!HfEndpoint \in {Main, Preferred} /\ Linked(link, Hub!HfEndpoint)
      BY <1>0, <1>5 DEF Hub!Fetch, Hub!HfEndpoint, Preferred
    <3> QED
      BY <3>1, Rewritten
  <2> QED
    BY <1>0, <1>1, <1>5, <2>1 DEF HubInv, Hub!Fetch, Linked
<1>6. CASE UNCHANGED hubVars
  BY <1>0, <1>1, <1>6 DEF HubInv, hubVars, Linked
<1> QED
  BY <1>3, <1>4, <1>5, <1>6 DEF Hub!Next

LEMMA LinkFetched == HubInv => Hub!LinkedFileFetched
<1> SUFFICES ASSUME HubInv, fetched # Hub!NoLink PROVE Hub!LinkedFileFetched
  BY DEF Hub!LinkedFileFetched
<1>1. PICK repo \in Repos, revision \in Revisions, file_ \in HubFiles :
        /\ Hub!ValidRepo(repo) /\ Hub!ValidRevision(revision)
        /\ fetched = <<Preferred, repo[1], repo[2], revision, file_>>
  BY DEF HubInv, Linked
<1>2. repo \in Seq(STRING) /\ Len(repo) = 2 /\ repo[1] # Main /\ repo[2] # Main /\ revision # Main /\ file_ # Main
  <2>1. repo \in Seq(STRING) /\ Len(repo) = 2
    BY <1>1, HubConstants DEF Hub!ValidRepo
  <2>2. 1 \in DOMAIN repo /\ 2 \in DOMAIN repo
    BY <2>1, PairIs
  <2> QED
    BY <2>1, <2>2, HubConstants
<1>3. fetched[1] = Preferred
  BY <1>1
<1>4. Tail(fetched) = repo \o <<revision, file_>>
  <2>1. repo \o <<revision, file_>> = <<repo[1], repo[2], revision, file_>>
    BY <1>2, Joined
  <2>2. Tail(fetched) = <<repo[1], repo[2], revision, file_>>
    BY <1>1
  <2> QED
    BY <2>1, <2>2
<1>5. Hub!RewriteHfUrl(fetched) = fetched
  <2>1. Hub!RewriteHfUrl(fetched) = [i \in DOMAIN fetched |-> IF fetched[i] = Main THEN Preferred ELSE fetched[i]]
    BY DEF Hub!RewriteHfUrl, Preferred
  <2> HIDE DEF Preferred
  <2>2. [i \in DOMAIN fetched |-> IF fetched[i] = Main THEN Preferred ELSE fetched[i]] = fetched
    BY <1>1, <1>2
  <2> QED
    BY <2>1, <2>2
<1> QED
  BY <1>1, <1>3, <1>4, <1>5 DEF Hub!LinkedFileFetched, Preferred

-----------------------------------------------------------------------------
(* The list of sources.                                                     *)

PeersInv == sources \in Seq(Weighed)

LEMMA PeersBegin == Peers!Init => PeersInv
BY DEF Peers!Init, PeersInv

LEMMA PeersStep ==
    ASSUME PeersInv, [Peers!Next]_sourceVars
    PROVE  PeersInv'
<1>1. ASSUME NEW key \in Keys, Peers!RemoveSource(key) PROVE PeersInv'
  <2> DEFINE P == {i \in DOMAIN sources : sources[i].key # key}
  <2>1. sources' = AtPlaces(sources, P)
    BY <1>1 DEF Peers!RemoveSource, Peers!AtPlaces, Peers!PlaceOf, AtPlaces, PlaceOf,
                Peers!Cardinality, Cardinality
  <2>2. P \in SUBSET (1..Len(sources))
    BY DEF PeersInv
  <2> HIDE DEF P
  <2>3. AtPlaces(sources, P) \in Seq(Weighed)
    BY <2>2, AtPlacesHas DEF PeersInv
  <2> QED
    BY <2>1, <2>3 DEF PeersInv
<1>2. ASSUME NEW key \in Keys, NEW weight \in Scores, Peers!AddSource(key, weight) PROVE PeersInv'
  <2>1. [key |-> key, weight |-> weight] \in Weighed
    BY DEF Weighed
  <2>2. sources' = Append(sources, [key |-> key, weight |-> weight])
    BY <1>2 DEF Peers!AddSource
  <2> QED
    BY <2>1, <2>2 DEF PeersInv
<1>3. ASSUME NEW key \in Keys, NEW weight \in Scores, Peers!UpdateScore(key, weight) PROVE PeersInv'
  <2> DEFINE J == {j \in 1..Len(sources) : sources[j].key = key}
             i == IF J # {} THEN Peers!Min(J) ELSE 0
  <2>1. sources' = IF i = 0 THEN sources ELSE [sources EXCEPT ![i].weight = weight]
    BY <1>3 DEF Peers!UpdateScore, Peers!SelectInSeq
  <2>2. i # 0 => i \in 1..Len(sources)
    <3>1. J \in SUBSET Nat
      OBVIOUS
    <3>2. J # {} => \E x \in J : \A y \in J : x <= y
      BY <3>1, LeastNat
    <3>3. J # {} => Peers!Min(J) \in J
      BY <3>2 DEF Peers!Min
    <3> QED
      BY <3>3
  <2> HIDE DEF i
  <2>3. CASE i = 0
    BY <2>1, <2>3 DEF PeersInv
  <2>4. CASE i # 0
    <3>1. sources' = [sources EXCEPT ![i].weight = weight]
      BY <2>1, <2>4
    <3>2. sources \in [1..Len(sources) -> Weighed] /\ Len(sources) \in Nat
      BY DEF PeersInv
    <3>3. [sources[i] EXCEPT !.weight = weight] \in Weighed
      BY <2>2, <2>4, <3>2 DEF Weighed
    <3>4. sources' \in [1..Len(sources) -> Weighed]
      BY <2>2, <2>4, <3>1, <3>2, <3>3
    <3> QED
      BY <3>2, <3>4 DEF PeersInv
  <2> QED
    BY <2>3, <2>4
<1>4. CASE UNCHANGED sourceVars
  BY <1>4 DEF sourceVars, PeersInv
<1> QED
  BY <1>1, <1>2, <1>3, <1>4 DEF Peers!Next

-----------------------------------------------------------------------------
(* Addresses.                                                               *)

LEMMA BlocksAre4 ==
    ASSUME NEW a1 \in Nat, NEW a2 \in Nat, NEW a3 \in Nat, NEW a4 \in Nat,
           a1 < 256, a2 < 256, a3 < 256, a4 < 256
    PROVE  Url!IsForbidden4(<<a1, a2, a3, a4>>) <=>
               \E block \in Url!Blocks : Url!InBlock(<<a1, a2, a3, a4>>, block)
<1> DEFINE a == <<a1, a2, a3, a4>>
<1>1. Url!IsForbidden4(a) <=>
          \/ a1 = 127
          \/ a1 = 10
          \/ a1 = 172 /\ a2 >= 16 /\ a2 <= 31
          \/ a1 = 192 /\ a2 = 168
          \/ a1 = 169 /\ a2 = 254
          \/ a1 = 0 /\ a2 = 0 /\ a3 = 0 /\ a4 = 0
          \/ a1 >= 224 /\ a1 < 240
          \/ a1 >= 240
          \/ a1 = 100 /\ a2 \div 64 = 1
          \/ a1 = 192 /\ a2 = 0 /\ a3 = 2
          \/ a1 = 198 /\ a2 = 51 /\ a3 = 100
          \/ a1 = 203 /\ a2 = 0 /\ a3 = 113
          \/ a1 = 198 /\ a2 \in {18, 19}
          \/ a1 = 192 /\ a2 = 0 /\ a3 = 0
  BY DEF Url!IsForbidden4, Url!IsDocumentation
<1>2. (\E block \in Url!Blocks : Url!InBlock(a, block)) <=>
          \/ Url!InBlock(a, <<<<127, 0, 0, 0>>, 8>>)
          \/ Url!InBlock(a, <<<<10, 0, 0, 0>>, 8>>)
          \/ Url!InBlock(a, <<<<172, 16, 0, 0>>, 12>>)
          \/ Url!InBlock(a, <<<<192, 168, 0, 0>>, 16>>)
          \/ Url!InBlock(a, <<<<169, 254, 0, 0>>, 16>>)
          \/ Url!InBlock(a, <<<<0, 0, 0, 0>>, 32>>)
          \/ Url!InBlock(a, <<<<224, 0, 0, 0>>, 4>>)
          \/ Url!InBlock(a, <<<<240, 0, 0, 0>>, 4>>)
          \/ Url!InBlock(a, <<<<100, 64, 0, 0>>, 10>>)
          \/ Url!InBlock(a, <<<<192, 0, 2, 0>>, 24>>)
          \/ Url!InBlock(a, <<<<198, 51, 100, 0>>, 24>>)
          \/ Url!InBlock(a, <<<<203, 0, 113, 0>>, 24>>)
          \/ Url!InBlock(a, <<<<198, 18, 0, 0>>, 15>>)
          \/ Url!InBlock(a, <<<<192, 0, 0, 0>>, 24>>)
  <2> HIDE DEF a
  <2> QED
    BY SMT DEF Url!Blocks
<1>3. (\E block \in Url!Blocks : Url!InBlock(a, block)) <=>
          \/ a1 = 127
          \/ a1 = 10
          \/ a1 = 172 /\ a2 >= 16 /\ a2 <= 31
          \/ a1 = 192 /\ a2 = 168
          \/ a1 = 169 /\ a2 = 254
          \/ a1 = 0 /\ a2 = 0 /\ a3 = 0 /\ a4 = 0
          \/ a1 >= 224 /\ a1 < 240
          \/ a1 >= 240
          \/ a1 = 100 /\ a2 \div 64 = 1
          \/ a1 = 192 /\ a2 = 0 /\ a3 = 2
          \/ a1 = 198 /\ a2 = 51 /\ a3 = 100
          \/ a1 = 203 /\ a2 = 0 /\ a3 = 113
          \/ a1 = 198 /\ a2 \in {18, 19}
          \/ a1 = 192 /\ a2 = 0 /\ a3 = 0
  <2>1. Url!InBlock(a, <<<<127, 0, 0, 0>>, 8>>) <=> a1 = 127
    BY SMTT(30) DEF Url!InBlock
  <2>2. Url!InBlock(a, <<<<10, 0, 0, 0>>, 8>>) <=> a1 = 10
    BY SMTT(30) DEF Url!InBlock
  <2>3. Url!InBlock(a, <<<<172, 16, 0, 0>>, 12>>) <=> a1 = 172 /\ a2 >= 16 /\ a2 <= 31
    BY SMTT(30) DEF Url!InBlock
  <2>4. Url!InBlock(a, <<<<192, 168, 0, 0>>, 16>>) <=> a1 = 192 /\ a2 = 168
    BY SMTT(30) DEF Url!InBlock
  <2>5. Url!InBlock(a, <<<<169, 254, 0, 0>>, 16>>) <=> a1 = 169 /\ a2 = 254
    BY SMTT(30) DEF Url!InBlock
  <2>6. Url!InBlock(a, <<<<0, 0, 0, 0>>, 32>>) <=> a1 = 0 /\ a2 = 0 /\ a3 = 0 /\ a4 = 0
    BY SMTT(30) DEF Url!InBlock
  <2>7. Url!InBlock(a, <<<<224, 0, 0, 0>>, 4>>) <=> a1 >= 224 /\ a1 < 240
    BY SMTT(30) DEF Url!InBlock
  <2>8. Url!InBlock(a, <<<<240, 0, 0, 0>>, 4>>) <=> a1 >= 240
    BY SMTT(30) DEF Url!InBlock
  <2>9. Url!InBlock(a, <<<<100, 64, 0, 0>>, 10>>) <=> a1 = 100 /\ a2 \div 64 = 1
    BY SMTT(30) DEF Url!InBlock
  <2>10. Url!InBlock(a, <<<<192, 0, 2, 0>>, 24>>) <=> a1 = 192 /\ a2 = 0 /\ a3 = 2
    BY SMTT(30) DEF Url!InBlock
  <2>11. Url!InBlock(a, <<<<198, 51, 100, 0>>, 24>>) <=> a1 = 198 /\ a2 = 51 /\ a3 = 100
    BY SMTT(30) DEF Url!InBlock
  <2>12. Url!InBlock(a, <<<<203, 0, 113, 0>>, 24>>) <=> a1 = 203 /\ a2 = 0 /\ a3 = 113
    BY SMTT(30) DEF Url!InBlock
  <2>13. Url!InBlock(a, <<<<198, 18, 0, 0>>, 15>>) <=> a1 = 198 /\ a2 \in {18, 19}
    BY SMTT(30) DEF Url!InBlock
  <2>14. Url!InBlock(a, <<<<192, 0, 0, 0>>, 24>>) <=> a1 = 192 /\ a2 = 0 /\ a3 = 0
    BY SMTT(30) DEF Url!InBlock
  <2> HIDE DEF a
  <2> QED
    BY <1>2, <2>1, <2>2, <2>3, <2>4, <2>5, <2>6, <2>7, <2>8, <2>9, <2>10, <2>11, <2>12, <2>13, <2>14
<1> QED
  BY <1>1, <1>3

LEMMA BlocksAre6 ==
    ASSUME NEW s \in Segments, NEW t \in {0, 1, 2}
    PROVE  Url!IsForbidden(<<s, t>>) <=> Url!Blocked(<<s, t>>)
<1>0. s \in Nat /\ s < 65536
  BY AddressAssumption
<1>1. Url!IsForbidden6(<<s, t>>) <=>
          <<s, t>> \in {<<0, 0>>, <<0, 1>>} \/ \E b \in Url!Blocks6 : b[1] <= s /\ s <= b[2]
  BY <1>0, SMTT(20) DEF Url!IsForbidden6, Url!Blocks6
<1>2. Len(<<s, t>>) = 2 /\ <<s, t>>[1] = s
  OBVIOUS
<1>3. Url!IsForbidden(<<s, t>>) <=> Url!IsForbidden6(<<s, t>>)
  BY <1>2 DEF Url!IsForbidden
<1>4. Url!Blocked(<<s, t>>) <=>
          <<s, t>> \in {<<0, 0>>, <<0, 1>>} \/ \E b \in Url!Blocks6 : b[1] <= s /\ s <= b[2]
  BY <1>2 DEF Url!Blocked
<1> QED
  BY <1>1, <1>3, <1>4

\* An IPv4 address that is mapped to an IPv6 address comes back by Tail.
LEMMA MappedTail ==
    ASSUME NEW a1 \in Nat, NEW a2 \in Nat, NEW a3 \in Nat, NEW a4 \in Nat
    PROVE  LET s == <<Url!Mapped>> \o <<a1, a2, a3, a4>> IN Len(s) = 5 /\ Tail(s) = <<a1, a2, a3, a4>>
<1> DEFINE s == <<Url!Mapped>>
           t == <<a1, a2, a3, a4>>
           u == s \o t
<1>1. s \in Seq(Nat) /\ t \in Seq(Nat) /\ Len(s) = 1 /\ Len(t) = 4
  BY DEF Url!Mapped
<1> HIDE DEF s, t
<1>2. /\ u \in Seq(Nat) /\ Len(u) = 5
      /\ \A i \in 1..5 : u[i] = IF i <= 1 THEN s[i] ELSE t[i - 1]
  <2>1. /\ s \o t \in Seq(Nat) /\ Len(s \o t) = Len(s) + Len(t)
        /\ \A i \in 1..(Len(s) + Len(t)) : (s \o t)[i] = IF i <= Len(s) THEN s[i] ELSE t[i - Len(s)]
    BY <1>1, ConcatProperties
  <2> QED
    BY <1>1, <2>1
<1> HIDE DEF u
<1>3. u # <<>>
  <2>1. SUFFICES ASSUME u = <<>> PROVE FALSE
    OBVIOUS
  <2>2. Len(<<>>) = 0
    OBVIOUS
  <2>3. Len(u) = Len(<<>>)
    BY <2>1, Zenon
  <2> QED
    BY <1>2, <2>2, <2>3
<1> DEFINE v == Tail(u)
<1>4. v \in Seq(Nat) /\ Len(v) = Len(u) - 1 /\ \A i \in 1..Len(v) : v[i] = u[i + 1]
  BY <1>2, <1>3, HeadTailProperties
<1> HIDE DEF v
<1>5. Len(v) = 4 /\ \A i \in 1..4 : v[i] = u[i + 1]
  BY <1>2, <1>4
<1>6. \A i \in 1..4 : v[i] = t[i]
  BY <1>2, <1>5
<1>7. v = t
  BY <1>1, <1>4, <1>5, <1>6, SeqEqual
<1> QED
  BY <1>2, <1>7 DEF u, v, s, t

LEMMA BlocksAre ==
    ASSUME NEW a \in Url!LookedAt \cup {Url!Public}
    PROVE  Url!IsForbidden(a) <=> Url!Blocked(a)
<1> DEFINE IsAddress(x) == \E a1, a2, a3, a4 \in Nat : /\ a1 < 256 /\ a2 < 256 /\ a3 < 256 /\ a4 < 256
                                                       /\ x = <<a1, a2, a3, a4>>
<1>1. ASSUME NEW x \in Url!LookedAt4 PROVE IsAddress(x)
  <2>1. PICK a1 \in Octets[1], a2 \in Octets[2], a3 \in Octets[3], a4 \in Octets[4] : x = <<a1, a2, a3, a4>>
    BY DEF Url!LookedAt4
  <2>2. /\ a1 \in Nat /\ a2 \in Nat /\ a3 \in Nat /\ a4 \in Nat
        /\ a1 < 256 /\ a2 < 256 /\ a3 < 256 /\ a4 < 256
    BY AddressAssumption
  <2> QED
    BY <2>1, <2>2
<1>2. IsAddress(Url!Public)
  BY DEF Url!Public
<1>3. ASSUME IsAddress(a) PROVE Url!IsForbidden(a) <=> Url!Blocked(a)
  <2>1. PICK a1, a2, a3, a4 \in Nat : a1 < 256 /\ a2 < 256 /\ a3 < 256 /\ a4 < 256 /\ a = <<a1, a2, a3, a4>>
    BY <1>3
  <2>2. Url!IsForbidden4(a) <=> \E block \in Url!Blocks : Url!InBlock(a, block)
    BY <2>1, BlocksAre4
  <2>3. Len(a) = 4
    BY <2>1
  <2> QED
    BY <2>2, <2>3 DEF Url!IsForbidden, Url!Blocked
<1>4. ASSUME NEW x \in Url!LookedAt4, a = <<Url!Mapped>> \o x PROVE Url!IsForbidden(a) <=> Url!Blocked(a)
  <2>1. IsAddress(x)
    BY <1>1
  <2>2. PICK a1, a2, a3, a4 \in Nat : a1 < 256 /\ a2 < 256 /\ a3 < 256 /\ a4 < 256 /\ x = <<a1, a2, a3, a4>>
    BY <2>1
  <2>3. Url!IsForbidden4(x) <=> \E block \in Url!Blocks : Url!InBlock(x, block)
    BY <2>2, BlocksAre4
  <2>4. Len(a) = 5 /\ Tail(a) = x
    <3>1. a = <<Url!Mapped>> \o <<a1, a2, a3, a4>>
      BY <1>4, <2>2, Zenon
    <3> QED
      BY <2>2, <3>1, MappedTail, Zenon
  <2>5. Url!IsForbidden(a) <=> Url!IsForbidden4(Tail(a))
    BY <2>4 DEF Url!IsForbidden
  <2>6. Url!Blocked(a) <=> \E block \in Url!Blocks : Url!InBlock(Tail(a), block)
    BY <2>4 DEF Url!Blocked
  <2> QED
    BY <2>3, <2>4, <2>5, <2>6, Zenon
<1>5. ASSUME a \in Segments \X {0, 1, 2} PROVE Url!IsForbidden(a) <=> Url!Blocked(a)
  <2>1. PICK s \in Segments, t \in {0, 1, 2} : a = <<s, t>>
    BY <1>5
  <2>2. Url!IsForbidden(<<s, t>>) <=> Url!Blocked(<<s, t>>)
    BY BlocksAre6, Zenon
  <2> QED
    BY <2>1, <2>2, Zenon
<1>6. a \in Url!LookedAt4 \/ a = Url!Public \/ (\E x \in Url!LookedAt4 : a = <<Url!Mapped>> \o x)
          \/ a \in Segments \X {0, 1, 2}
  BY DEF Url!LookedAt
<1> HIDE DEF IsAddress
<1> QED
  BY <1>1, <1>2, <1>3, <1>4, <1>5, <1>6

UrlInv ==
    resolved # "none" =>
        /\ answer \subseteq Url!LookedAt \cup {Url!Public}
        /\ resolved = "yes" <=> answer # {} /\ \A a \in answer : ~Url!IsForbidden(a)

LEMMA UrlInit == Url!Init => UrlInv
BY DEF Url!Init, UrlInv

LEMMA UrlStep ==
    ASSUME UrlInv, [Url!Next]_urlVars
    PROVE  UrlInv'
<1>1. ASSUME NEW addresses \in SUBSET (Url!LookedAt \cup {Url!Public}), Url!Resolve(addresses) PROVE UrlInv'
  <2>1. answer' = addresses
    BY <1>1 DEF Url!Resolve
  <2>2. resolved' = "yes" <=> addresses # {} /\ \A a \in addresses : ~Url!IsForbidden(a)
    BY <1>1 DEF Url!Resolve
  <2> QED
    BY <1>1, <2>1, <2>2 DEF UrlInv
<1>2. ASSUME UNCHANGED <<answer, resolved>> PROVE UrlInv'
  BY <1>2 DEF UrlInv
<1>3. CASE resolved = "none" /\ \E u \in TaskUrls : Url!Claim(u)
  BY <1>2, <1>3 DEF Url!Claim
<1>4. CASE \E r \in rows : Url!Ends(r) \/ Url!Redownload(r)
  BY <1>2, <1>4 DEF Url!Ends, Url!Redownload, Url!Claim
<1>5. CASE \E addresses \in {{}} \cup {{a} : a \in Url!LookedAt} \cup {{Url!Public, a} : a \in Url!LookedAt} :
               Url!Resolve(addresses)
  <2>1. PICK addresses \in {{}} \cup {{a} : a \in Url!LookedAt} \cup {{Url!Public, a} : a \in Url!LookedAt} :
            Url!Resolve(addresses)
    BY <1>5
  <2>2. addresses \in SUBSET (Url!LookedAt \cup {Url!Public})
    OBVIOUS
  <2> QED
    BY <1>1, <2>1, <2>2
<1>6. CASE UNCHANGED urlVars
  BY <1>2, <1>6 DEF urlVars
<1> QED
  BY <1>3, <1>4, <1>5, <1>6 DEF Url!Next

LEMMA BlocksAreRefused == UrlInv => Url!BlocksRefused
BY BlocksAre DEF UrlInv, Url!BlocksRefused

-----------------------------------------------------------------------------
(* The limits of a configuration.                                           *)

LEMMA HugeIs == Huge \in Nat /\ Huge > 0
BY ServicesAssumption

LEMMA FieldsAre ==
    Limits!Fields = {"max_concurrent_fragments", "max_retries", "request_timeout_secs", "connect_timeout_secs",
                     "pause_timeout_secs", "rate_limit", "max_full_stream", "max_connections_per_host",
                     "max_global_connections", "min_fragment_size", "max_fragment_size", "sampling_interval_secs",
                     "ewma_alpha", "default_target_fragments", "high_bandwidth_threshold",
                     "medium_bandwidth_threshold", "max_concurrent_tasks"}
BY DEF Limits!Fields, Limits!DownloadDefaults, Limits!ConnectionDefaults, Limits!SchedulerDefaults

LEMMA DefaultsAre ==
    /\ Limits!Defaults \in [Limits!Fields -> Nat]
    /\ \A f \in Limits!Fields : Limits!Defaults[f] > 0
    /\ Limits!Defaults["max_concurrent_fragments"] = 16 /\ Limits!Defaults["max_retries"] = 3
    /\ Limits!Defaults["request_timeout_secs"] = 30 /\ Limits!Defaults["connect_timeout_secs"] = 10
    /\ Limits!Defaults["pause_timeout_secs"] = 300
    /\ Limits!Defaults["max_connections_per_host"] = 16 /\ Limits!Defaults["max_global_connections"] = 256
    /\ Limits!Defaults["min_fragment_size"] = 1024 /\ Limits!Defaults["max_fragment_size"] = 64 * 1024
    /\ Limits!Defaults["ewma_alpha"] = 30 /\ Limits!Defaults["max_concurrent_tasks"] = 5
<1> DEFINE d == Limits!Defaults
           dl == Limits!DownloadDefaults
           cn == Limits!ConnectionDefaults
           sc == Limits!SchedulerDefaults
<1>1. /\ DOMAIN dl = {"max_concurrent_fragments", "max_retries", "request_timeout_secs", "connect_timeout_secs",
                       "pause_timeout_secs", "rate_limit", "max_full_stream"}
      /\ dl["max_concurrent_fragments"] = 16 /\ dl["max_retries"] = 3 /\ dl["request_timeout_secs"] = 30
      /\ dl["connect_timeout_secs"] = 10 /\ dl["pause_timeout_secs"] = 300 /\ dl["rate_limit"] = Huge
      /\ dl["max_full_stream"] = (64 * 1024) * 1024
  BY DEF Limits!DownloadDefaults
<1>2. /\ DOMAIN cn = {"max_connections_per_host", "max_global_connections"}
      /\ cn["max_connections_per_host"] = 16 /\ cn["max_global_connections"] = 256
  BY DEF Limits!ConnectionDefaults
<1>3. /\ DOMAIN sc = {"min_fragment_size", "max_fragment_size", "sampling_interval_secs", "ewma_alpha",
                       "default_target_fragments", "high_bandwidth_threshold", "medium_bandwidth_threshold"}
      /\ sc["min_fragment_size"] = 1024 /\ sc["max_fragment_size"] = 64 * 1024
      /\ sc["sampling_interval_secs"] = 60 /\ sc["ewma_alpha"] = 30 /\ sc["default_target_fragments"] = 16
      /\ sc["high_bandwidth_threshold"] = 100 * 1024 /\ sc["medium_bandwidth_threshold"] = 10 * 1024
  BY DEF Limits!SchedulerDefaults
<1>4. d = [f \in Limits!Fields |-> IF f \in DOMAIN dl THEN dl[f] ELSE IF f \in DOMAIN cn THEN cn[f]
                                   ELSE IF f \in DOMAIN sc THEN sc[f] ELSE 5]
  BY DEF Limits!Defaults
<1>5. Limits!Fields = ((DOMAIN dl \cup DOMAIN cn) \cup DOMAIN sc) \cup {"max_concurrent_tasks"}
  BY DEF Limits!Fields
<1> HIDE DEF d, dl, cn, sc
<1>6. \A f \in DOMAIN dl : f \in Limits!Fields /\ d[f] = dl[f]
  BY <1>4, <1>5
<1>7. \A f \in DOMAIN cn : f \in Limits!Fields /\ d[f] = cn[f]
  BY <1>1, <1>2, <1>4, <1>5
<1>8. \A f \in DOMAIN sc : f \in Limits!Fields /\ d[f] = sc[f]
  BY <1>1, <1>2, <1>3, <1>4, <1>5
<1>9. d["max_concurrent_tasks"] = 5
  BY <1>1, <1>2, <1>3, <1>4, <1>5
<1>10. \A f \in DOMAIN dl : dl[f] \in Nat /\ dl[f] > 0
  BY <1>1, HugeIs
<1>11. \A f \in DOMAIN cn : cn[f] \in Nat /\ cn[f] > 0
  BY <1>2
<1>12. \A f \in DOMAIN sc : sc[f] \in Nat /\ sc[f] > 0
  BY <1>3
<1>13. \A f \in Limits!Fields : d[f] \in Nat /\ d[f] > 0
  BY <1>5, <1>6, <1>7, <1>8, <1>9, <1>10, <1>11, <1>12
<1>14. d \in [Limits!Fields -> Nat]
  BY <1>4, <1>13
<1>15. /\ d["max_concurrent_fragments"] = 16 /\ d["max_retries"] = 3 /\ d["request_timeout_secs"] = 30
       /\ d["connect_timeout_secs"] = 10 /\ d["pause_timeout_secs"] = 300
  BY <1>1, <1>6
<1>16. d["max_connections_per_host"] = 16 /\ d["max_global_connections"] = 256
  BY <1>2, <1>7
<1>17. d["min_fragment_size"] = 1024 /\ d["max_fragment_size"] = 64 * 1024 /\ d["ewma_alpha"] = 30
  BY <1>3, <1>8
<1> QED
  BY <1>9, <1>13, <1>14, <1>15, <1>16, <1>17 DEF d

\* The limits of the numbers that have one.
LEMMA AtMostAre ==
    /\ DOMAIN Limits!AtMost = {"max_concurrent_tasks", "max_concurrent_fragments", "max_retries",
           "request_timeout_secs", "connect_timeout_secs", "pause_timeout_secs", "max_connections_per_host",
           "max_global_connections", "ewma_alpha"}
    /\ Limits!AtMost["max_concurrent_tasks"] = 100 /\ Limits!AtMost["max_concurrent_fragments"] = 256
    /\ Limits!AtMost["max_retries"] = 100 /\ Limits!AtMost["request_timeout_secs"] = 3600
    /\ Limits!AtMost["connect_timeout_secs"] = 300 /\ Limits!AtMost["pause_timeout_secs"] = 86400
    /\ Limits!AtMost["max_connections_per_host"] = 128 /\ Limits!AtMost["max_global_connections"] = 4096
    /\ Limits!AtMost["ewma_alpha"] = 100
    /\ \A f \in DOMAIN Limits!AtMost : Limits!AtMost[f] \in Nat
BY DEF Limits!AtMost

LEMMA DefaultsValid == Limits!Valid(Limits!Defaults)
<1> DEFINE d == Limits!Defaults
           m == Limits!AtMost
<1>1. DOMAIN d = Limits!Fields /\ \A f \in Limits!Fields : d[f] > 0
  BY DefaultsAre
<1>2. \A f \in DOMAIN m : d[f] <= m[f]
  BY DefaultsAre, AtMostAre
<1>3. d.min_fragment_size <= d.max_fragment_size
  BY DefaultsAre
<1> QED
  BY <1>1, <1>2, <1>3 DEF Limits!Valid

\* What is in use is valid, or is part of what was valid when it was taken.
Accepted == {c \in [Limits!Fields -> Nat] : Limits!Valid(c)}
LimitsInv ==
    /\ limits \in Accepted
    /\ pool = Limits!PoolOf(Limits!Defaults)
    /\ scheduler = Limits!Part(Limits!Defaults, Limits!SchedulerDefaults)
    /\ \E c \in Accepted : task = Limits!Part(c, Limits!DownloadDefaults)

LEMMA LimitsInit == Limits!Init => LimitsInv
<1>1. Limits!Defaults \in Accepted
  BY DefaultsAre, DefaultsValid DEF Accepted
<1> QED
  BY <1>1 DEF Limits!Init, LimitsInv

LEMMA LimitsStep ==
    ASSUME LimitsInv, [Limits!Next]_limitVars
    PROVE  LimitsInv'
<1>1. ASSUME NEW f \in Limits!Fields, NEW n \in Nat, Limits!Update(f, n) PROVE LimitsInv'
  <2> DEFINE asked == [limits EXCEPT ![f] = n]
  <2>1. Limits!Valid(asked) /\ limits' = asked /\ UNCHANGED <<pool, scheduler, task>>
    BY <1>1 DEF Limits!Update
  <2>2. asked \in [Limits!Fields -> Nat]
    BY DEF LimitsInv, Accepted
  <2> HIDE DEF asked
  <2>3. limits' \in Accepted
    BY <2>1, <2>2 DEF Accepted
  <2> QED
    BY <2>1, <2>3 DEF LimitsInv
<1>2. CASE \E f \in Limits!Fields :
              \E n \in {0, 1, Huge} \cup IF f \in DOMAIN Limits!AtMost THEN {Limits!AtMost[f], Limits!AtMost[f] + 1} ELSE {} :
                  Limits!Update(f, n)
  <2>1. PICK f \in Limits!Fields :
            \E n \in {0, 1, Huge} \cup IF f \in DOMAIN Limits!AtMost THEN {Limits!AtMost[f], Limits!AtMost[f] + 1} ELSE {} :
                Limits!Update(f, n)
    BY <1>2
  <2>2. PICK n \in {0, 1, Huge} \cup IF f \in DOMAIN Limits!AtMost THEN {Limits!AtMost[f], Limits!AtMost[f] + 1} ELSE {} :
            Limits!Update(f, n)
    BY <2>1
  <2>3. n \in Nat
    BY <2>2, AtMostAre, HugeIs
  <2> QED
    BY <1>1, <2>2, <2>3
<1>3. CASE \E f \in Limits!Optional : Limits!LeaveOut(f)
  <2>1. PICK f \in Limits!Optional : Limits!Update(f, Limits!Defaults[f])
    BY <1>3 DEF Limits!LeaveOut
  <2>2. f \in Limits!Fields
    BY <2>1, FieldsAre DEF Limits!Optional
  <2>3. Limits!Defaults[f] \in Nat
    BY <2>2, DefaultsAre
  <2> QED
    BY <1>1, <2>1, <2>2, <2>3
<1>4. CASE Limits!CreateTask
  BY <1>4 DEF Limits!CreateTask, LimitsInv
<1>5. CASE UNCHANGED limitVars
  BY <1>5 DEF limitVars, LimitsInv
<1> QED
  BY <1>2, <1>3, <1>4, <1>5 DEF Limits!Next

LEMMA GreaterLimit ==
    ASSUME NEW a \in Int, NEW b \in Int
    PROVE  Limits!Max({a, b}) = IF a >= b THEN a ELSE b
<1>1. \E x \in {a, b} : \A y \in {a, b} : x >= y
  OBVIOUS
<1>2. Limits!Max({a, b}) \in {a, b} /\ \A y \in {a, b} : Limits!Max({a, b}) >= y
  BY <1>1 DEF Limits!Max
<1> QED
  BY <1>2

LEMMA LesserLimit ==
    ASSUME NEW a \in Int, NEW b \in Int
    PROVE  Limits!Min({a, b}) = IF a <= b THEN a ELSE b
<1>1. \E x \in {a, b} : \A y \in {a, b} : x <= y
  OBVIOUS
<1>2. Limits!Min({a, b}) \in {a, b} /\ \A y \in {a, b} : Limits!Min({a, b}) <= y
  BY <1>1 DEF Limits!Min
<1> QED
  BY <1>2

LEMMA BackoffFits ==
    ASSUME NEW attempt \in Nat
    PROVE  /\ Limits!Backoff(attempt, 0) \in 1..1024
           /\ Limits!Backoff(attempt, 2^Limits!Min({attempt, 10}) - 1) = 1
<1> DEFINE m == Limits!Min({attempt, 10})
           p == 2^m
<1>1. m \in 0..10
  BY LesserLimit
<1> HIDE DEF m
<1>2. p \in 1..1024 /\ p \in Int
  BY <1>1, BaseOfBackoff, Zenon
<1>3. \A jitter : Limits!Backoff(attempt, jitter) = Limits!Max({1, p - jitter})
  BY DEF Limits!Backoff, m
<1> HIDE DEF p
<1>4. Limits!Max({1, p - 0}) \in 1..1024
  <2>1. p - 0 = p
    BY <1>2
  <2>2. Limits!Max({1, p}) = IF 1 >= p THEN 1 ELSE p
    BY <1>2, GreaterLimit
  <2>3. Limits!Max({1, p}) \in 1..1024
    BY <1>2, <2>2
  <2> QED
    BY <2>1, <2>3, Zenon
<1>5. Limits!Max({1, p - (p - 1)}) = 1
  BY <1>2, GreaterLimit
<1> QED
  BY <1>3, <1>4, <1>5, Zenon DEF p, m

\* What validate demands, of the numbers that are used.
LEMMA ValidNumbers ==
    ASSUME NEW c \in Accepted
    PROVE  /\ 0 < c["min_fragment_size"] /\ c["min_fragment_size"] <= c["max_fragment_size"]
           /\ c["default_target_fragments"] >= 1
           /\ c["max_concurrent_fragments"] \in 1..256 /\ c["max_retries"] \in Nat
           /\ c["connect_timeout_secs"] > 0 /\ c["request_timeout_secs"] > 0 /\ c["pause_timeout_secs"] > 0
           /\ c["rate_limit"] > 0 /\ c["max_full_stream"] > 0
<1>1. /\ DOMAIN c = Limits!Fields
      /\ \A f \in Limits!Fields : c[f] \in Nat
      /\ \A f \in Limits!Fields : f \in Limits!MayBeZero \/ c[f] > 0
      /\ \A f \in Limits!Fields : f \in DOMAIN Limits!AtMost => c[f] <= Limits!AtMost[f]
      /\ c.min_fragment_size <= c.max_fragment_size
  BY DEF Accepted, Limits!Valid
<1> QED
  BY <1>1, FieldsAre, AtMostAre DEF Limits!MayBeZero

LEMMA AcceptedRuns == LimitsInv => Limits!AcceptedConfigRuns
<1> SUFFICES ASSUME LimitsInv PROVE Limits!AcceptedConfigRuns
  OBVIOUS
<1>1. pool.global >= 1 /\ pool.host >= 1 /\ pool.threshold > pool.global
  <2> DEFINE d == Limits!Defaults
  <2>1. pool = [global |-> d["max_global_connections"], host |-> d["max_connections_per_host"],
                threshold |-> Limits!Max({2 * d["max_global_connections"], 64})]
    BY DEF LimitsInv, Limits!PoolOf
  <2>2. d["max_global_connections"] = 256 /\ d["max_connections_per_host"] = 16
    BY DefaultsAre
  <2> HIDE DEF d
  <2>3. Limits!Max({2 * 256, 64}) = 512
    BY GreaterLimit
  <2> QED
    BY <2>1, <2>2, <2>3
<1>2. Limits!PlansWith(scheduler)
  <2> DEFINE d == Limits!Defaults
  <2>1. scheduler = [f \in DOMAIN Limits!SchedulerDefaults |-> d[f]]
    BY DEF LimitsInv, Limits!Part
  <2>2. {"min_fragment_size", "max_fragment_size"} \subseteq DOMAIN Limits!SchedulerDefaults
    BY DEF Limits!SchedulerDefaults
  <2>3. d["min_fragment_size"] = 1024 /\ d["max_fragment_size"] = 64 * 1024
    BY DefaultsAre
  <2> HIDE DEF d
  <2>4. scheduler["min_fragment_size"] = 1024 /\ scheduler["max_fragment_size"] = 64 * 1024
    BY <2>1, <2>2, <2>3
  <2> QED
    BY <2>4 DEF Limits!PlansWith
<1>3. Limits!PlansWith(limits) /\ limits.default_target_fragments >= 1
  BY ValidNumbers DEF LimitsInv, Limits!PlansWith
<1>4. PICK c \in Accepted : task = [f \in DOMAIN Limits!DownloadDefaults |-> c[f]]
  BY DEF LimitsInv, Limits!Part
<1>5. {"max_concurrent_fragments", "max_retries", "request_timeout_secs", "connect_timeout_secs",
       "pause_timeout_secs", "rate_limit", "max_full_stream"} \subseteq DOMAIN Limits!DownloadDefaults
  BY DEF Limits!DownloadDefaults
<1>6. /\ task["max_concurrent_fragments"] \in 1..256 /\ task["max_retries"] \in Nat
      /\ task["connect_timeout_secs"] > 0 /\ task["request_timeout_secs"] > 0
      /\ task["pause_timeout_secs"] > 0 /\ task["rate_limit"] > 0 /\ task["max_full_stream"] > 0
  BY <1>4, <1>5, ValidNumbers
<1>7. \A attempt \in 0..Limits!Min({task.max_retries, 64}) :
          /\ Limits!Backoff(attempt, 0) \in 1..1024
          /\ Limits!Backoff(attempt, 2^Limits!Min({attempt, 10}) - 1) = 1
  <2>1. \A attempt \in 0..Limits!Min({task.max_retries, 64}) : attempt \in Nat
    BY <1>6, LesserLimit
  <2> QED
    BY <2>1, BackoffFits
<1> QED
  BY <1>1, <1>2, <1>3, <1>6, <1>7, Zenon DEF Limits!AcceptedConfigRuns

-----------------------------------------------------------------------------
(* The composition.                                                         *)

\* Every part begins in an initial state of its own.
LEMMA AllBegin ==
    Init => /\ Mirror!Init /\ Ftp!Init /\ Rpc!Init /\ Sign!Init /\ Queue!Init
            /\ View!Init /\ Sniff!Init /\ Lookup!Init /\ Quic!Init /\ Routes!Init
            /\ Http!Init /\ Record!Init /\ Hub!Init /\ Peers!Init /\ Url!Init /\ Limits!Init
BY DEF Init

\* The part that a behaviour is about stays the same, and takes its steps only.
LEMMA OneMoves ==
    ASSUME [Next]_vars
    PROVE  /\ part' = part
           /\ part = "mirror" => [Mirror!Next]_(Mirror!mirrorVars)
           /\ part = "ftp" => [Ftp!Next]_(Ftp!ftpVars)
           /\ part = "rpc" => [Rpc!Next]_(Rpc!dhtVars)
           /\ part = "sign" => [Sign!Next]_(Sign!signVars)
           /\ part = "queue" => [Queue!Next]_(Queue!queueVars)
           /\ part = "view" => [View!Next]_(View!viewVars)
           /\ part = "sniffer" => [Sniff!Next]_(Sniff!sniffVars)
           /\ part = "lookup" => [Lookup!Next]_(Lookup!lookupVars)
           /\ part = "quic" => [Quic!Next]_(Quic!quicVars)
           /\ part = "routes" => [Routes!Next]_(Routes!tableVars)
           /\ part = "http" => [Http!Next]_httpVars
           /\ part = "records" => [Record!Next]_recordVars
           /\ part = "hub" => [Hub!Next]_hubVars
           /\ part = "peers" => [Peers!Next]_sourceVars
           /\ part = "urls" => [Url!Next]_urlVars
           /\ part = "limits" => [Limits!Next]_limitVars
<1>1. CASE UNCHANGED vars
  BY <1>1 DEF vars, mirrorVars, Mirror!mirrorVars, ftpVars, Ftp!ftpVars, dhtVars, Rpc!dhtVars,
              signVars, Sign!signVars, queueVars, Queue!queueVars, viewVars, View!viewVars,
              View!backendVars, View!channelVars, View!windowVars,
              sniffVars, Sniff!sniffVars, lookupVars, Lookup!lookupVars,
              quicVars, Quic!quicVars, tableVars, Routes!tableVars, httpVars, recordVars, hubVars,
              sourceVars, urlVars, limitVars
<1>2. CASE Next
  <2>0. part' = part
    BY <1>2 DEF Next, Only
  <2>1. part = "mirror" => Mirror!Next
    BY <1>2 DEF Next, Only
  <2>2. part = "ftp" => Ftp!Next
    BY <1>2 DEF Next, Only
  <2>3. part = "rpc" => Rpc!Next
    BY <1>2 DEF Next, Only
  <2>4. part = "sign" => Sign!Next
    BY <1>2 DEF Next, Only
  <2>5. part = "queue" => Queue!Next
    BY <1>2 DEF Next, Only
  <2>6. part = "view" => View!Next
    BY <1>2 DEF Next, Only
  <2>7. part = "sniffer" => Sniff!Next
    BY <1>2 DEF Next, Only
  <2>8. part = "lookup" => Lookup!Next
    BY <1>2 DEF Next, Only
  <2>9. part = "quic" => Quic!Next
    BY <1>2 DEF Next, Only
  <2>10. part = "routes" => Routes!Next
    BY <1>2 DEF Next, Only
  <2>11. part = "http" => Http!Next
    BY <1>2 DEF Next, Only
  <2>12. part = "records" => Record!Next
    BY <1>2 DEF Next, Only
  <2>13. part = "hub" => Hub!Next
    BY <1>2 DEF Next, Only
  <2>14. part = "peers" => Peers!Next
    BY <1>2 DEF Next, Only
  <2>15. part = "urls" => Url!Next
    BY <1>2 DEF Next, Only
  <2>16. part = "limits" => Limits!Next
    BY <1>2 DEF Next, Only
  <2> QED
    BY <2>0, <2>1, <2>2, <2>3, <2>4, <2>5, <2>6, <2>7, <2>8, <2>9, <2>10, <2>11, <2>12, <2>13,
       <2>14, <2>15, <2>16
<1> QED
  BY <1>1, <1>2

\* What is true of each part while it is the one that moves.
MirrorKept == part = "mirror" => MirrorInv
FtpKept == part = "ftp" => FtpInv
RpcKept == part = "rpc" => RpcInv
SignKept == part = "sign" => SignInv
QueueKept == part = "queue" => QueueInv
ViewKept == part = "view" => ViewInv
SniffKept == part = "sniffer" => SniffInv
LookupKept == part = "lookup" => LookupInv
CacheKept == part = "quic" => CacheInv
TableKept == part = "routes" => TableInv
HttpKept == part = "http" => HttpInv
RecordKept == part = "records" => RecordInv
HubKept == part = "hub" => HubInv
PeersKept == part = "peers" => PeersInv
UrlKept == part = "urls" => UrlInv
LimitsKept == part = "limits" => LimitsInv

ServicesInv ==
    /\ MirrorKept /\ FtpKept /\ RpcKept /\ SignKept /\ QueueKept
    /\ ViewKept /\ SniffKept /\ LookupKept /\ CacheKept /\ TableKept
    /\ HttpKept /\ RecordKept /\ HubKept /\ PeersKept /\ UrlKept /\ LimitsKept

LEMMA ServicesInit == Init => ServicesInv
BY AllBegin, MirrorInit, FtpInit, RpcInit, SignInit, QueueInit, ViewInit, SniffInit, LookupInit,
   CacheInit, TableInit, HttpInit, RecordInit, HubInit, PeersBegin, UrlInit, LimitsInit
   DEF ServicesInv, MirrorKept, FtpKept, RpcKept, SignKept, QueueKept, ViewKept, SniffKept,
       LookupKept, CacheKept, TableKept, HttpKept, RecordKept, HubKept,
       PeersKept, UrlKept, LimitsKept

LEMMA ServicesStep == ServicesInv /\ [Next]_vars => ServicesInv'
<1> SUFFICES ASSUME ServicesInv, [Next]_vars PROVE ServicesInv'
  OBVIOUS
<1>1. MirrorKept'
  BY OneMoves, MirrorStep DEF ServicesInv, MirrorKept
<1>2. FtpKept'
  BY OneMoves, FtpStep DEF ServicesInv, FtpKept
<1>3. RpcKept'
  BY OneMoves, RpcStep DEF ServicesInv, RpcKept
<1>4. SignKept'
  BY OneMoves, SignStep DEF ServicesInv, SignKept
<1>5. QueueKept'
  BY OneMoves, QueueKeeps DEF ServicesInv, QueueKept
<1>6. ViewKept'
  BY OneMoves, ViewStep DEF ServicesInv, ViewKept
<1>7. SniffKept'
  BY OneMoves, SniffStep DEF ServicesInv, SniffKept
<1>8. LookupKept'
  BY OneMoves, LookupStep DEF ServicesInv, LookupKept
<1>9. CacheKept'
  BY OneMoves, CacheStep DEF ServicesInv, CacheKept
<1>10. TableKept'
  BY OneMoves, TableStep DEF ServicesInv, TableKept
<1>11. HttpKept'
  BY OneMoves, HttpStep DEF ServicesInv, HttpKept
<1>12. RecordKept'
  BY OneMoves, RecordStep DEF ServicesInv, RecordKept
<1>13. HubKept'
  BY OneMoves, HubStep DEF ServicesInv, HubKept
<1>14. PeersKept'
  BY OneMoves, PeersStep DEF ServicesInv, PeersKept
<1>15. UrlKept'
  BY OneMoves, UrlStep DEF ServicesInv, UrlKept
<1>16. LimitsKept'
  BY OneMoves, LimitsStep DEF ServicesInv, LimitsKept
<1> QED
  BY <1>1, <1>2, <1>3, <1>4, <1>5, <1>6, <1>7, <1>8, <1>9, <1>10, <1>11, <1>12, <1>13,
     <1>14, <1>15, <1>16 DEF ServicesInv

\* The race of mirrors is won by a source that answered and lost only when all
\* have failed, whenever probes answer and whichever of them are aborted.
THEOREM RacesAreDecided == Spec => []RaceDecided
<1>1. ServicesInv => RaceDecided
  BY DEF ServicesInv, MirrorKept, MirrorInv, RaceDecided
<1> QED
  BY <1>1, ServicesInit, ServicesStep, PTL DEF Spec

\* When no call of an FTP client runs and none was aborted, it has no
\* connection left, however its calls have overlapped on the one stream.
THEOREM LastFtpCallDisconnects == Spec => []NoConnectionLeft
<1>1. ServicesInv => NoConnectionLeft
  BY FtpPromises DEF ServicesInv, FtpKept, NoConnectionLeft
<1> QED
  BY <1>1, ServicesInit, ServicesStep, PTL DEF Spec

\* No RPC is given the answer to another, though datagrams are lost, duplicated
\* and late (send_rpc, recv_loop_inner); a message that is taken under a signature
\* is one that the node it names has sent.  Of messages without a signature
\* nothing is said: they are processed under whatever sender_id they name.
THEOREM AnswersAreOwn == Spec => []AnswersNotMixed
<1>1. ServicesInv => AnswersNotMixed
  BY DEF ServicesInv, RpcKept, RpcInv, SignKept, SignInv, AnswersNotMixed
<1> QED
  BY <1>1, ServicesInit, ServicesStep, PTL DEF Spec

\* The window records a completion at most once for a report of the monitor that
\* straddles the end of the run and once for the last event, and only of a run
\* that has completed, though polls and events tell it of the same task out of
\* order (task_commands.rs, downloads.ts).
THEOREM CompletionsRecordedAsAnnounced == Spec => []RecordedAsAnnounced
<1>1. ServicesInv => RecordedAsAnnounced
  BY ViewPromises DEF ServicesInv, ViewKept, RecordedAsAnnounced
<1> QED
  BY <1>1, ServicesInit, ServicesStep, PTL DEF Spec

\* The list of the sniffer is the end of what was captured, in its order, and
\* names no URL twice that is shown as it is.
THEOREM NewestAreListed == Spec => []SnifferKept
<1>1. ServicesInv => SnifferKept
  BY SniffPromises DEF ServicesInv, SniffKept, SnifferKept
<1> QED
  BY <1>1, ServicesInit, ServicesStep, PTL DEF Spec

\* A lookup ends with the nearest known nodes asked, in a network whose nodes
\* tell of any others, or of none.
THEOREM LookupsConverge == Spec => []LookupConverged
<1>1. ServicesInv => LookupConverged
  BY DEF ServicesInv, LookupKept, LookupInv, LookupConverged
<1> QED
  BY <1>1, ServicesInit, ServicesStep, PTL DEF Spec

\* Each step of the scheduler's heap and index is one of a queue that pops in
\* the order of rank: no task is lost, popped twice or popped out of turn.
THEOREM QueueIsImplemented == Spec => QueueImplemented
<1>1. ServicesInv /\ [Next]_vars => [part = "queue" => Queue!QueueStep]_vars
  BY OneMoves, QueueKeeps DEF ServicesInv, QueueKept
<1> QED
  BY <1>1, ServicesInit, ServicesStep, PTL DEF Spec, QueueImplemented

\* The session cache of QUIC never holds more than its limit, and drops a valid
\* session for another host only when all that it keeps are valid.
THEOREM SessionsAreKept == Spec => SessionCacheKept
<1>1. ServicesInv /\ [Next]_vars => [part = "quic" => Quic!SessionCacheStep]_vars
  BY OneMoves, CacheStep DEF ServicesInv, CacheKept
<1> QED
  BY <1>1, ServicesInit, ServicesStep, PTL DEF Spec, SessionCacheKept

\* In a routing table no node waits while its bucket has room, and each node
\* is found again by a search for it, whatever was added, removed, replaced
\* or evicted.
THEOREM TablesAreFull == Spec => []CacheOnlyWhenFull
<1>1. ServicesInv => CacheOnlyWhenFull
  BY TablePromises DEF ServicesInv, TableKept, CacheOnlyWhenFull
<1> QED
  BY <1>1, ServicesInit, ServicesStep, PTL DEF Spec

\* The wait until the date of a Retry-After is what the days of the months and
\* years since 1970 add up to, leap years and all, less today, and no wait when
\* the date is past: for any date since 1970.
THEOREM WaitsAreToTheDate == Spec => [](part = "http" => Http!WaitsUntilDate)
<1>1. ServicesInv => (part = "http" => Http!WaitsUntilDate)
  BY HttpWaits DEF ServicesInv, HttpKept
<1> QED
  BY <1>1, ServicesInit, ServicesStep, PTL DEF Spec

\* Whichever form a file of progress has, the status that was saved and the
\* fragments reported since are read back, and both recoveries agree on whether
\* there is a task to recover.
THEOREM RecordsSurvive == Spec => [](part = "records" => Record!RecordSurvives)
<1>1. ServicesInv => (part = "records" => Record!RecordSurvives)
  BY RecordReadBack DEF ServicesInv, RecordKept
<1> QED
  BY <1>1, ServicesInit, ServicesStep, PTL DEF Spec

\* What is downloaded from a model hub is the file that was linked, of the same
\* repository and revision, from the endpoint that is set or from the mirror,
\* and rewriting its link once more changes nothing.  An endpoint is one name
\* here, which is the address of the main site or has nothing of it: with
\* HF_ENDPOINT set to that address and a slash, each rewriting adds a slash.
THEOREM LinkedFilesAreFetched == Spec => [](part = "hub" => Hub!LinkedFileFetched)
<1>1. ServicesInv => (part = "hub" => Hub!LinkedFileFetched)
  BY LinkFetched DEF ServicesInv, HubKept
<1> QED
  BY <1>1, ServicesInit, ServicesStep, PTL DEF Spec

\* The ids that may be drawn for a bucket are all the ids of that bucket and no
\* others, for ids of any number of bytes and bytes of any number of bits.
THEOREM RandomIdsAreInTheirBucket == Refresh!RandomIdInBucket
BY RandomIds

\* The weighted choice of a source, as the code walks the list and adds up the
\* weights, picks each source for exactly as many of the numbers that may be
\* drawn as its weight, whatever sources were added, removed and rated again.
THEOREM ChoicesAreByWeight == Spec => [](part = "peers" => Peers!ChosenByWeight)
<1>1. ServicesInv => (part = "peers" => Peers!ChosenByWeight)
  BY ListByWeight DEF ServicesInv, PeersKept, PeersInv
<1> QED
  BY <1>1, ServicesInit, ServicesStep, PTL DEF Spec

\* A name is connected to only when it has an address and none of its addresses
\* is in a block that is forbidden, where the tests of octets and segments that
\* the code makes are exactly the blocks as CIDR states them: for any octets and
\* any first segments of the addresses that are looked up.
THEOREM ForbiddenBlocksAreRefused == Spec => [](part = "urls" => Url!BlocksRefused)
<1>1. ServicesInv => (part = "urls" => Url!BlocksRefused)
  BY BlocksAreRefused DEF ServicesInv, UrlKept
<1> QED
  BY <1>1, ServicesInit, ServicesStep, PTL DEF Spec

\* Whatever configuration validate accepted, with whatever numbers were left out
\* of a file, the pool, the scheduler and the task that is created from it can
\* run, and no wait between attempts is zero or more than 1024 seconds.
THEOREM AcceptedConfigsRun == Spec => [](part = "limits" => Limits!AcceptedConfigRuns)
<1>1. ServicesInv => (part = "limits" => Limits!AcceptedConfigRuns)
  BY AcceptedRuns DEF ServicesInv, LimitsKept
<1> QED
  BY <1>1, ServicesInit, ServicesStep, PTL DEF Spec

=============================================================================
