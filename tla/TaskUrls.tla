------------------------------ MODULE TaskUrls ------------------------------
(***************************************************************************)
(* URLs of tasks: create_task looks at the URL, and the HTTP client at the *)
(* addresses its host resolves to; the row keeps what redact_url_for_log   *)
(* leaves of it, and the window asks for that when the user downloads a    *)
(* file again.                                                             *)
(***************************************************************************)
EXTENDS Naturals, Sequences, FiniteSets

CONSTANTS
    TaskUrls,    \* URLs the user asks for: scheme, user, host, path, base and query
    Octets,      \* for each octet of an IPv4 address the values to look at
    Segments,    \* for the first segment of an IPv6 address those to look at
    NoUrl

VARIABLES
    rows,        \* rows of the table: the URL asked for, url, and whether it is unfinished
    refused,     \* the URL that was refused as a duplicate last
    answer,      \* addresses of the last resolution
    resolved     \* what validate_resolved_ip says of them: accepted or not, or "none"

urlVars == <<rows, refused, answer, resolved>>

\* An IPv6 address stands for its first segment and what the others hold: 0 for
\* nothing, 1 for the number one, 2 for more; one that maps an IPv4 address
\* starts with ::ffff, Mapped.
LookedAt4 == {<<a, b, c, d>> : a \in Octets[1], b \in Octets[2], c \in Octets[3], d \in Octets[4]}
Mapped == 65535
LookedAt == LookedAt4 \cup {<<Mapped>> \o a : a \in {v4 \in LookedAt4 : v4[3] = 0 /\ v4[4] = 0}} \cup (Segments \X {0, 1, 2})
Public == <<93, 184, 215, 14>>

TypeOK ==
    /\ rows \subseteq [url : TaskUrls, shown : TaskUrls, open : BOOLEAN]
    /\ refused \in TaskUrls \cup {NoUrl} /\ resolved \in {"none", "yes", "no"}

Init == rows = {} /\ refused = NoUrl /\ answer = {} /\ resolved = "none"

-----------------------------------------------------------------------------
\* redact_url_for_log(): user, path, query and fragment go.
Redacted(u) == [u EXCEPT !.user = "", !.path = "", !.query = ""]

\* supported_protocols()
Protocols == {"http", "https"}

\* validate_public_http_url() of a host that is a name.
Valid(u) == u.scheme \in Protocols /\ u.user = "" /\ u.host # "localhost"

\* create_task: the check and the row.
Claim(u) ==
    /\ Valid(u)
    /\ IF \E r \in rows : r.open /\ r.shown = Redacted(u)
       THEN refused' = u /\ UNCHANGED rows
       ELSE rows' = rows \cup {[url |-> u, shown |-> Redacted(u), open |-> TRUE]} /\ refused' = NoUrl
    /\ UNCHANGED <<answer, resolved>>

Ends(r) ==
    /\ r.open /\ rows' = (rows \ {r}) \cup {[r EXCEPT !.open = FALSE]}
    /\ UNCHANGED <<refused, answer, resolved>>

\* handleRedownload() of the window knows the row only.
Redownload(r) == ~r.open /\ Claim(r.shown)

-----------------------------------------------------------------------------
(* validate_resolved_ip() and reject_forbidden_ip().                        *)

IsDocumentation(a) == <<a[1], a[2], a[3]>> \in {<<192, 0, 2>>, <<198, 51, 100>>, <<203, 0, 113>>}

IsForbidden4(a) ==
    \/ a[1] = 127 \/ a[1] = 10
    \/ a[1] = 172 /\ a[2] >= 16 /\ a[2] <= 31
    \/ a[1] = 192 /\ a[2] = 168
    \/ a[1] = 169 /\ a[2] = 254
    \/ a = <<0, 0, 0, 0>>
    \/ a[1] >= 224
    \/ a[1] = 100 /\ a[2] \div 64 = 1
    \/ IsDocumentation(a)
    \/ a[1] = 198 /\ a[2] \in {18, 19}
    \/ a[1] = 192 /\ a[2] = 0 /\ a[3] = 0

\* The segment masked with 0xfe00 or 0xffc0.
IsForbidden6(a) ==
    \/ a[1] = 0 /\ a[2] \in {0, 1}
    \/ a[1] \div 256 = 255
    \/ a[1] \div 512 = 126
    \/ a[1] \div 64 \in {1018, 1019}

IsForbidden(a) ==
    CASE Len(a) = 4 -> IsForbidden4(a)
      [] Len(a) = 5 -> IsForbidden4(Tail(a))
      [] OTHER -> IsForbidden6(a)

\* One forbidden address among those of the host is enough; no address is an error.
Resolve(addresses) ==
    /\ rows = {} /\ answer' = addresses
    /\ resolved' = IF addresses # {} /\ \A a \in addresses : ~IsForbidden(a) THEN "yes" ELSE "no"
    /\ UNCHANGED <<rows, refused>>

Next ==
    \/ resolved = "none" /\ \E u \in TaskUrls : Claim(u)
    \/ \E r \in rows : Ends(r) \/ Redownload(r)
    \/ resolved = "none" /\ \E addresses \in {{}} \cup {{a} : a \in LookedAt} \cup {{Public, a} : a \in LookedAt} :
           Resolve(addresses)

-----------------------------------------------------------------------------
(* Properties.                                                              *)

\* The blocks that the comments name, as first address and length of the prefix.
Blocks ==
    {<<<<127, 0, 0, 0>>, 8>>, <<<<10, 0, 0, 0>>, 8>>, <<<<172, 16, 0, 0>>, 12>>, <<<<192, 168, 0, 0>>, 16>>,
     <<<<169, 254, 0, 0>>, 16>>, <<<<0, 0, 0, 0>>, 32>>, <<<<224, 0, 0, 0>>, 4>>, <<<<240, 0, 0, 0>>, 4>>,
     <<<<100, 64, 0, 0>>, 10>>, <<<<192, 0, 2, 0>>, 24>>, <<<<198, 51, 100, 0>>, 24>>,
     <<<<203, 0, 113, 0>>, 24>>, <<<<198, 18, 0, 0>>, 15>>, <<<<192, 0, 0, 0>>, 24>>}

InBlock(a, block) ==
    \A i \in 1..4 :
        LET bits == IF block[2] >= 8 * i THEN 8 ELSE IF block[2] <= 8 * (i - 1) THEN 0 ELSE block[2] % 8
        IN  a[i] \div (2^(8 - bits)) = block[1][i] \div (2^(8 - bits))

\* As first and last first segment: multicast, fc00::/7, fe80::/10, fec0::/10.
Blocks6 == {<<65280, 65535>>, <<64512, 65023>>, <<65152, 65215>>, <<65216, 65279>>}

Blocked(a) ==
    CASE Len(a) = 4 -> \E block \in Blocks : InBlock(a, block)
      [] Len(a) = 5 -> \E block \in Blocks : InBlock(Tail(a), block)
      [] OTHER -> a \in {<<0, 0>>, <<0, 1>>} \/ \E b \in Blocks6 : b[1] <= a[1] /\ a[1] <= b[2]

\* A host is accepted exactly when all its addresses are outside the blocks
\* that the comments of reject_forbidden_ipv4 and reject_forbidden_ipv6 name, at
\* every edge of a block.
BlocksRefused ==
    resolved # "none" => (resolved = "yes" <=> answer # {} /\ \A a \in answer : ~Blocked(a))

\* A download is refused as a duplicate of an unfinished one of the same URL
\* ("相同 URL 的下载任务已存在", create_task).
OnlySameUrlRefused == refused # NoUrl => \E r \in rows : r.open /\ r.url = refused
=============================================================================
