------------------------------ MODULE Sniffer ------------------------------
(***************************************************************************)
(* Resources that the browser asked for: the list of the window, which is  *)
(* filled behind two locks that are taken one after the other, and the     *)
(* ResourceManager of tachyon-sniffer.  A URL is a record of a page, the   *)
(* type of its file, and its token; what is shown of it has no token.      *)
(***************************************************************************)
EXTENDS Naturals, Sequences, FiniteSets

CONSTANTS
    Pages,         \* calls of add_sniffer_resource under way
    Urls, Filters, \* filters are sites: a URL passes one that names its site
    NoPage, Hidden, NoToken,
    MaxResources,  \* MAX_SNIFFER_RESOURCES
    MaxCaptured    \* bound on the resources that are ever listed

VARIABLES
    filters,       \* sniffer_filters
    passing,       \* URL of each call that passed the filters, or NoPage
    resources,     \* sniffer: the URLs as they are shown, oldest first
    captured,      \* history: every URL that was listed
    managed        \* ResourceManager: a resource for each URL

sniffVars == <<filters, passing, resources, captured, managed>>

TypeOK ==
    /\ filters \subseteq Filters /\ passing \in [Pages -> Urls \cup {NoPage}]
    /\ \A i \in DOMAIN resources : resources[i].token \in {NoToken, Hidden}
    /\ managed \subseteq Urls

Init ==
    /\ filters = {} /\ passing = [p \in Pages |-> NoPage]
    /\ resources = <<>> /\ captured = <<>> /\ managed = {}

-----------------------------------------------------------------------------
\* redact_sensitive_params().
Shown(url) == IF url.token = NoToken THEN url ELSE [url EXCEPT !.token = Hidden]

\* No filter lets everything pass.
Passes(url) == filters = {} \/ url.site \in filters

\* add_sniffer_filter.
AddFilter(f) ==
    /\ f \notin filters /\ filters' = filters \cup {f}
    /\ UNCHANGED <<passing, resources, captured, managed>>

\* add_sniffer_resource: the filters, under their own lock.
Check(p, url) ==
    /\ passing[p] = NoPage /\ Passes(url)
    /\ passing' = [passing EXCEPT ![p] = url]
    /\ UNCHANGED <<filters, resources, captured, managed>>

\* Mutant of Room: the oldest goes only when there are too many.
RoomLate(list) == IF Len(list) > MaxResources THEN Tail(list) ELSE list

Room(list) == IF Len(list) >= MaxResources THEN Tail(list) ELSE list

\* What is listed is compared with the URL as it was asked for.
Listed(url) == \E i \in DOMAIN resources : resources[i] = url

\* add_sniffer_resource: the list, under its lock.
Add(p) ==
    LET url == passing[p]
    IN  /\ url # NoPage /\ passing' = [passing EXCEPT ![p] = NoPage]
        /\ IF Listed(url) THEN UNCHANGED <<resources, captured>>
           ELSE /\ Len(captured) < MaxCaptured
                /\ resources' = Append(Room(resources), Shown(url))
                /\ captured' = Append(captured, Shown(url))
        /\ UNCHANGED <<filters, managed>>

\* should_capture() of the default configuration.
ShouldCapture(url) == url.type \in {"model", "archive"}

\* ResourceManager: on_request of a file of an enabled type and size, remove and clear.
OnRequest(url) ==
    /\ ShouldCapture(url) /\ managed' = managed \cup {url}
    /\ UNCHANGED <<filters, passing, resources, captured>>

Forget(urls) == managed' = managed \ urls /\ UNCHANGED <<filters, passing, resources, captured>>

\* The manager shares nothing with the list: it moves only before that is used.
Next ==
    \/ \E f \in Filters : AddFilter(f)
    \/ \E p \in Pages : Add(p) \/ \E url \in Urls : Check(p, url)
    \/ captured = <<>> /\ \E url \in Urls : OnRequest(url) \/ Forget({url})
    \/ captured = <<>> /\ Forget(managed)

-----------------------------------------------------------------------------
\* The list of the window is the newest of what was captured, in order and never
\* longer than its limit, and a URL without a token is in it only once, even
\* when two pages ask for it at a time.
SnifferKept ==
    LET n == Len(captured)
    IN  /\ Len(resources) <= MaxResources
        /\ resources = SubSeq(captured, n - Len(resources) + 1, n)
        /\ \A i, j \in DOMAIN resources :
               resources[i] = resources[j] /\ resources[i].token = NoToken => i = j
=============================================================================
