----------------------------- MODULE FtpSession -----------------------------
(***************************************************************************)
(* FtpClient: its clones share one ConnectionState behind an RwLock.  Each *)
(* Protocol call connects, logs in, runs its command and disconnects, with *)
(* the lock taken for each of these and released in between.  A connection *)
(* is named by the call that opened it.  No step that waits for the server *)
(* has a time limit.                                                       *)
(***************************************************************************)
CONSTANTS
    FtpCalls,    \* calls of probe, download_range, download_full and the stream forms
    NoStream

VARIABLES
    ftpState,    \* FtpState
    ftpStream,   \* the connection in ConnectionState.stream
    open,        \* connections that are open
    ftpKind,     \* "whole": the data is read under the lock; "stream": by the consumer
    ftpPc,       \* where a call stands
    dataOn,      \* the connection its data stream belongs to
    cleaner,     \* calls whose FtpDataGuard has spawned a disconnect
    usedOf       \* the connections a call has sent commands on

ftpVars == <<ftpState, ftpStream, open, ftpKind, ftpPc, dataOn, cleaner, usedOf>>

TypeOK ==
    /\ ftpState \in {"Disconnected", "Connected", "Authenticated"}
    /\ ftpStream \in FtpCalls \cup {NoStream} /\ dataOn \in [FtpCalls -> FtpCalls \cup {NoStream}]
    /\ open \subseteq FtpCalls /\ cleaner \subseteq FtpCalls
    /\ ftpKind \in [FtpCalls -> {"whole", "stream"}] /\ usedOf \in [FtpCalls -> SUBSET FtpCalls]
    /\ ftpPc \in [FtpCalls -> {"idle", "connect", "install", "login", "command", "reading",
                               "finalize", "disconnect", "returned", "aborted"}]

Init ==
    /\ ftpState = "Disconnected" /\ ftpStream = NoStream /\ open = {}
    /\ ftpKind \in [FtpCalls -> {"whole", "stream"}]
    /\ ftpPc = [c \in FtpCalls |-> "idle"] /\ dataOn = [c \in FtpCalls |-> NoStream]
    /\ cleaner = {} /\ usedOf = [c \in FtpCalls |-> {}]

At(c, from) == ftpPc[c] = from
To(c, to) == ftpPc' = [ftpPc EXCEPT ![c] = to]

-----------------------------------------------------------------------------
Begin(c) ==
    /\ At(c, "idle") /\ To(c, "connect")
    /\ UNCHANGED <<ftpState, ftpStream, open, ftpKind, dataOn, cleaner, usedOf>>

\* connect(): name lookup, checks and the TCP connection, without the lock.
Connected(c) ==
    /\ At(c, "connect")
    /\ \/ open' = open \cup {c} /\ To(c, "install")
       \/ UNCHANGED open /\ To(c, "returned")
    /\ UNCHANGED <<ftpState, ftpStream, ftpKind, dataOn, cleaner, usedOf>>

\* connect() stores the stream; the one that was there is dropped.
Install(c) ==
    /\ At(c, "install") /\ To(c, "login")
    /\ open' = open \ ({ftpStream} \ {c})
    /\ ftpStream' = c /\ ftpState' = "Connected"
    /\ UNCHANGED <<ftpKind, dataOn, cleaner, usedOf>>

\* login(): refused in another state, or by the server.
Login(c) ==
    /\ At(c, "login")
    /\ \/ /\ ftpState = "Connected"
          /\ usedOf' = [usedOf EXCEPT ![c] = @ \cup {ftpStream}]
          /\ \/ ftpState' = "Authenticated" /\ To(c, "command")
             \/ UNCHANGED ftpState /\ To(c, "disconnect")
       \/ /\ ftpState # "Connected" /\ To(c, "disconnect")
          /\ UNCHANGED <<ftpState, usedOf>>
    /\ UNCHANGED <<ftpStream, open, ftpKind, dataOn, cleaner>>

\* file_size(), retrieve(), retrieve_range(): the lock is held from the first
\* command to the last.  open_data_stream() releases it with the data stream.
Command(c) ==
    /\ At(c, "command")
    /\ IF ftpStream = NoStream
       THEN To(c, "disconnect") /\ UNCHANGED <<dataOn, usedOf>>
       ELSE /\ usedOf' = [usedOf EXCEPT ![c] = @ \cup {ftpStream}]
            /\ \/ To(c, "disconnect") /\ UNCHANGED dataOn
               \/ /\ ftpKind[c] = "stream"
                  /\ dataOn' = [dataOn EXCEPT ![c] = ftpStream] /\ To(c, "reading")
    /\ UNCHANGED <<ftpState, ftpStream, open, ftpKind, cleaner>>

\* The consumer polls the stream to its end or to an error.
StreamEnds(c) ==
    /\ At(c, "reading") /\ To(c, "finalize")
    /\ UNCHANGED <<ftpState, ftpStream, open, ftpKind, dataOn, cleaner, usedOf>>

\* finalize_retr_stream(), whose result is ignored.
Finalize(c) ==
    /\ At(c, "finalize") /\ To(c, "disconnect")
    /\ usedOf' = IF ftpStream = NoStream THEN usedOf ELSE [usedOf EXCEPT ![c] = @ \cup {ftpStream}]
    /\ UNCHANGED <<ftpState, ftpStream, open, ftpKind, dataOn, cleaner>>

\* disconnect(): QUIT on whichever stream is there.
Disconnect ==
    /\ open' = open \ {ftpStream}
    /\ ftpStream' = NoStream /\ ftpState' = "Disconnected"

Leave(c) ==
    /\ At(c, "disconnect") /\ Disconnect /\ To(c, "returned")
    /\ dataOn' = [dataOn EXCEPT ![c] = NoStream]
    /\ UNCHANGED <<ftpKind, cleaner, usedOf>>

\* FtpDataGuard::drop, unless the stream was finalised before it is dropped.
Guarded(c) == ftpPc[c] \in {"reading", "finalize"} \/ (At(c, "disconnect") /\ dataOn[c] # NoStream)

\* The drop of a stream does not disconnect.
DropStreamSilently(c) ==
    /\ Guarded(c)
    /\ dataOn' = [dataOn EXCEPT ![c] = NoStream]
    /\ To(c, "returned")
    /\ UNCHANGED <<ftpState, ftpStream, open, ftpKind, cleaner, usedOf>>

\* The consumer drops a stream, or the caller a call: a call that has not yet
\* handed out its stream has no guard.
DropStream(c) ==
    /\ Guarded(c)
    /\ cleaner' = cleaner \cup {c} /\ dataOn' = [dataOn EXCEPT ![c] = NoStream]
    /\ To(c, "returned")
    /\ UNCHANGED <<ftpState, ftpStream, open, ftpKind, usedOf>>

AbortCall(c) ==
    /\ ftpPc[c] \in {"connect", "install", "login", "command", "disconnect"} /\ ~Guarded(c)
    /\ To(c, "aborted")
    /\ open' = IF At(c, "install") THEN open \ {c} ELSE open
    /\ UNCHANGED <<ftpState, ftpStream, ftpKind, dataOn, cleaner, usedOf>>

Clean(c) ==
    /\ c \in cleaner /\ Disconnect
    /\ cleaner' = cleaner \ {c}
    /\ UNCHANGED <<ftpKind, ftpPc, dataOn, usedOf>>

Proceed(c) ==
    \/ Connected(c) \/ Install(c) \/ Login(c) \/ Command(c)
    \/ StreamEnds(c) \/ Finalize(c) \/ Leave(c) \/ Clean(c)

Next == \E c \in FtpCalls : Begin(c) \/ Proceed(c) \/ DropStream(c) \/ AbortCall(c)

-----------------------------------------------------------------------------
\* However the calls, their streams and the guards of dropped streams overlap,
\* once all are gone no connection is left open; a call that is aborted before
\* it has a stream has no guard, and is excepted.
NoConnectionLeft ==
    (\A c \in FtpCalls : ftpPc[c] \in {"idle", "returned"}) /\ cleaner = {}
        => open = {} /\ ftpStream = NoStream /\ ftpState = "Disconnected"

\* "每次调用均建立独立连接" (ftp.rs:10): a call uses the connection it opened.
OwnConnection == \A c \in FtpCalls : usedOf[c] \subseteq {c}
=============================================================================
