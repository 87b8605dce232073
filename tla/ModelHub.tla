------------------------------ MODULE ModelHub ------------------------------
(***************************************************************************)
(* Files of a model hub: the list of a repository (list_files), the URL of *)
(* one of its files (download_url), and what task_fn makes of it before it *)
(* downloads (rewrite_hf_url).  The environment of the process does not    *)
(* change; a URL is an endpoint and the names that follow it.  Endpoints   *)
(* are atoms: no HF_ENDPOINT is https://huggingface.co with more behind    *)
(* it, a slash for example, which each rewriting would make longer.        *)
(***************************************************************************)
EXTENDS Naturals, Sequences, FiniteSets

CONSTANTS
    HubEndpoints, \* values of HF_ENDPOINT, Main among them
    Main, MirrorSite, \* https://huggingface.co and https://hf-mirror.com
    Repos,        \* repo_id as its parts, some of them not valid
    Revisions,    \* revisions; those in Slashed have a character that is not allowed
    Slashed,
    HubFiles,     \* files of a repository
    Unset         \* no value

VARIABLES
    env,          \* HF_ENDPOINT and what each place of a token holds
    listing,      \* the last list: whose, from where, and with which token
    link,         \* the URL get_hf_download_url gave for a file of it
    fetched       \* the URL task_fn downloads

hubVars == <<env, listing, link, fetched>>

\* Set, to the empty string; a token may also be white space.
Blank == "blank"
Places == <<"HF_TOKEN", "HUGGINGFACE_HUB_TOKEN", "file">>
NoListing == [repo |-> <<>>, revision |-> Unset, from |-> Unset, token |-> Unset]
NoLink == <<>>

TypeOK ==
    /\ env.endpoint \in HubEndpoints \cup {Unset, Blank}
    /\ listing.repo \in Repos \cup {<<>>} /\ Len(link) \in {0, 5} /\ Len(fetched) \in {0, 5}

Init ==
    /\ env \in [endpoint : HubEndpoints \cup {Unset, Blank},
                tokens : [1..Len(Places) -> {Unset, Blank, "token"}]]
    /\ listing = NoListing /\ link = NoLink /\ fetched = NoLink

-----------------------------------------------------------------------------
\* hf_endpoint()
HfEndpoint == IF env.endpoint \in {Unset, Blank} THEN Main ELSE env.endpoint

\* load_token(): the first place that is not blank.
LoadToken ==
    LET given == {i \in 1..Len(Places) : env.tokens[i] \notin {Unset, Blank}}
    IN  IF given = {} THEN Unset ELSE Places[CHOOSE i \in given : \A j \in given : i <= j]

ValidRepo(repo) == Len(repo) = 2 /\ \A i \in DOMAIN repo : repo[i] \notin {"", ".."}
ValidRevision(revision) == revision \notin Slashed

\* list_repo_files: GET .../tree/revision, with the token if there is one.
ListFiles(repo, revision) ==
    /\ ValidRepo(repo) /\ ValidRevision(revision)
    /\ listing' = [repo |-> repo, revision |-> revision, from |-> HfEndpoint, token |-> LoadToken]
    /\ UNCHANGED <<env, link, fetched>>

\* get_hf_download_url: endpoint/repo/resolve/revision/file
DownloadUrl(file) ==
    /\ listing # NoListing
    /\ link' = <<HfEndpoint>> \o listing.repo \o <<listing.revision, file>>
    /\ UNCHANGED <<env, listing, fetched>>

-----------------------------------------------------------------------------
\* rewrite_hf_url(): every occurrence of the main endpoint; the main endpoint
\* itself is never tried.
RewriteHfUrl(url) ==
    LET mirror == IF env.endpoint \in {Unset, Blank} THEN MirrorSite ELSE env.endpoint
    IN  [i \in DOMAIN url |-> IF url[i] = Main THEN mirror ELSE url[i]]

\* task_fn, after create_task was given the link.
Fetch ==
    /\ link # NoLink
    /\ fetched' = RewriteHfUrl(link)
    /\ UNCHANGED <<env, listing, link>>

\* A link that was given stays as it is when another repository is listed.
Next ==
    \/ \E repo \in Repos, revision \in Revisions : ListFiles(repo, revision)
    \/ \E file \in HubFiles : DownloadUrl(file)
    \/ Fetch

-----------------------------------------------------------------------------
\* What is downloaded is the file that was linked, of the same repository and
\* revision, from the endpoint the user has set; without one it is the mirror,
\* though the list came from the main site.  To rewrite it once more, when the
\* task starts again, changes nothing (as long as no endpoint that is set
\* begins with the address of the main site and goes on).
LinkedFileFetched ==
    fetched # NoLink =>
        /\ \E repo \in Repos, revision \in Revisions, file \in HubFiles :
            /\ ValidRepo(repo) /\ ValidRevision(revision)
            /\ Tail(fetched) = repo \o <<revision, file>>
        /\ fetched[1] = IF env.endpoint \in {Unset, Blank} THEN MirrorSite ELSE env.endpoint
        /\ RewriteHfUrl(fetched) = fetched
=============================================================================
