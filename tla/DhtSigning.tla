----------------------------- MODULE DhtSigning -----------------------------
(***************************************************************************)
(* The signatures of DHT messages.  A node signs the message without its   *)
(* signature field, also one that is signed already: iterative lookups     *)
(* sign what send_rpc signs again.  The id of a node is the hash of its    *)
(* public key, which travels with the signature.  On its way a message may *)
(* be damaged, or be put together from parts of two.                       *)
(***************************************************************************)
EXTENDS Naturals, FiniteSets

CONSTANTS
    Identities,   \* the nodes with a key; a node stands for its key and its id
    Kinds,        \* variants of KademliaMessage
    Contents,     \* what they carry: a target, a key, a value, nodes
    MaxSent       \* bound on the messages that are sent

VARIABLES
    sent,         \* bodies that were sent: by the node their sender field names
    packet,       \* the message on its way; `intact' unless it was damaged
    taken,        \* the last message that was processed
    discarded     \* the last one that was not

signVars == <<sent, packet, taken, discarded>>

Bodies == [kind : Kinds, sender : Identities, content : Contents]
Unsigned == [key |-> "none"]
Message(body, signature) == [body |-> body, signature |-> signature]
NoMessage == [kind |-> "none"]

-----------------------------------------------------------------------------
\* clear_signature(): what is signed and verified.
Cleared(m) == Message(m.body, Unsigned)

\* NodeIdentity::sign() and sign_message(), by the holder of key n.
SignMessage(n, m) == [key |-> n, over |-> Cleared(m)]

\* public_key_to_node_id(): no two keys of this network have one id.
NodeIdOf(key) == key

\* DhtSignature::verify() and verify_message_signature()
VerifyMessage(m) ==
    /\ NodeIdOf(m.signature.key) = m.body.sender
    /\ m.signature.over = Cleared(m)

Passes(m) == m.signature # Unsigned => VerifyMessage(m)

TypeOK ==
    /\ sent \subseteq Bodies /\ Cardinality(sent) <= MaxSent
    /\ \A m \in {packet, taken, discarded} : m # NoMessage => m.body \in Bodies /\ m.intact \in BOOLEAN

Init == sent = {} /\ packet = NoMessage /\ taken = NoMessage /\ discarded = NoMessage

OnItsWay(m, intact) == [body |-> m.body, signature |-> m.signature, intact |-> intact]

-----------------------------------------------------------------------------
\* A node makes a message of its own (make_ping, make_find_node, ...) and signs
\* it once, or twice.
Send(body, twice) ==
    /\ packet = NoMessage /\ Cardinality(sent \cup {body}) <= MaxSent
    /\ sent' = sent \cup {body}
    /\ LET n == body.sender
           once == Message(body, SignMessage(n, Message(body, Unsigned)))
           again == Message(body, SignMessage(n, once))
       IN  packet' = OnItsWay(IF twice THEN again ELSE once, TRUE)
    /\ UNCHANGED <<taken, discarded>>

\* A node of a version without signatures.
SendUnsigned(body) ==
    /\ packet = NoMessage /\ Cardinality(sent \cup {body}) <= MaxSent
    /\ sent' = sent \cup {body}
    /\ packet' = OnItsWay(Message(body, Unsigned), TRUE)
    /\ UNCHANGED <<taken, discarded>>

\* The body of the packet becomes another one, or its signature that of
\* another message of some node.
Damage ==
    /\ packet # NoMessage /\ packet.signature # Unsigned
    /\ \/ \E body \in Bodies \ {packet.body} : packet' = OnItsWay(Message(body, packet.signature), FALSE)
       \/ \E body \in sent \ {packet.body} :
            packet' = OnItsWay(Message(packet.body, SignMessage(body.sender, Message(body, Unsigned))), FALSE)
    /\ UNCHANGED <<sent, taken, discarded>>

\* recv_loop_inner: a message with a signature is processed when it verifies.
Receive ==
    /\ packet # NoMessage /\ packet' = NoMessage
    /\ IF Passes(packet)
       THEN taken' = packet /\ UNCHANGED discarded
       ELSE discarded' = packet /\ UNCHANGED taken
    /\ UNCHANGED sent

Next ==
    \/ \E body \in Bodies : (\E twice \in BOOLEAN : Send(body, twice)) \/ SendUnsigned(body)
    \/ Damage \/ Receive

-----------------------------------------------------------------------------
\* A message that is processed under a signature is one that the node it names
\* has sent, word for word, however packets were damaged or mixed; and no
\* message that arrived as it was sent is discarded, signed once or twice.
SignedAsSent ==
    /\ taken # NoMessage /\ taken.signature # Unsigned => taken.body \in sent
    /\ discarded # NoMessage => ~discarded.intact
=============================================================================
