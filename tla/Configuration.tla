--------------------------- MODULE Configuration ---------------------------
(***************************************************************************)
(* The configuration behind its mutex: the settings panel loads, edits and *)
(* saves it; create_task finds out, with the lock held, where it may       *)
(* write, and makes the directories that are missing, while other programs *)
(* change the disk.  A path is a sequence of names.                        *)
(***************************************************************************)
EXTENDS Naturals, Sequences, SequencesExt, FiniteSetsExt

CONSTANTS
    Paths,        \* absolute paths somebody may ask for, with all their ancestors
    LinkTo,       \* a symbolic link's path |-> the path it leads to
    SaveDirs,     \* download directories the user may choose
    SystemTops,   \* names in `/' that are no authorized root: "usr", "etc", "System"
    RootSets,     \* authorized_dirs the program may be started with
    Creators,     \* create_task handlers
    NoPath

VARIABLES
    dirs,         \* directories on the disk
    config,       \* state.config
    locked,       \* who holds its mutex
    panel,        \* the settings panel: where it stands, $config, and what it saves
    creator,      \* a create_task handler: where it stands and its locals
    made          \* directories that handlers have created

configVars == <<dirs, config, locked, panel, creator, made>>

\* faults: the sections with something out of its range (see ConfigLimits).
NoConfig == [dir |-> NoPath, roots |-> {}, faults |-> {}]
Resting == [pc |-> "idle", asked |-> NoPath, root |-> NoPath, at |-> NoPath, todo |-> <<>>]

-----------------------------------------------------------------------------
(* Paths.                                                                   *)

Links == DOMAIN LinkTo

\* canonicalize(): a link on the way is followed; links lead to no further link.
Canonical(p) ==
    LET through == {n \in 0..Len(p) : SubSeq(p, 1, n) \in Links}
    IN  IF through = {} THEN p
        ELSE LinkTo[SubSeq(p, 1, Min(through))] \o SubSeq(p, Min(through) + 1, Len(p))

Exists(p) == Canonical(p) \in dirs

\* Mutant of IsUnder: the two paths change places.
IsUnderSwapped(p, root) == IsPrefix(p, root)

IsUnder(p, root) == IsPrefix(root, p)

IsForbiddenRoot(p) == p = <<>> \/ p[1] \in SystemTops

DeepestExisting(p) == SubSeq(p, 1, Max({n \in 0..Len(p) : Exists(SubSeq(p, 1, n))}))

-----------------------------------------------------------------------------
(* Validation: AppConfig::validate and validate_config.                     *)

RootAccepted(r) == Exists(r) /\ ~IsForbiddenRoot(Canonical(r))

Accepted(c) == c.faults = {} /\ c.dir # NoPath /\ c.roots # {} /\ \A r \in c.roots : RootAccepted(r)

TypeOK ==
    /\ dirs \subseteq Paths /\ made \subseteq Paths /\ locked \in Creators \cup {"nobody"}
    /\ config.dir \in Paths /\ config.roots \in RootSets /\ config.faults = {}
    /\ panel.pc \in {"loading", "unloaded", "ready", "saving"}
    /\ \A c \in Creators :
        creator[c].pc \in {"idle", "waits", "enter", "look", "make", "ensure", "check", "build", "refused", "done"}

Init ==
    /\ dirs \in {{p \in Paths : p \notin Links}, {p \in Paths : p \notin Links /\ Len(p) < 2}}
    /\ \E roots \in RootSets : \E r \in roots : config = [dir |-> r, roots |-> roots, faults |-> {}]
    /\ locked = "nobody" /\ made = {}
    /\ panel = [pc |-> "loading", base |-> NoConfig, sent |-> NoConfig]
    /\ creator = [c \in Creators |-> Resting]

-----------------------------------------------------------------------------
(* The settings panel.                                                      *)

panelOnly == UNCHANGED <<dirs, locked, creator, made>>

\* onMount: get_config, or an error.
LoadConfig ==
    /\ panel.pc = "loading" /\ locked = "nobody"
    /\ panel' \in {[panel EXCEPT !.pc = "ready", !.base = config],
                   [panel EXCEPT !.pc = "unloaded"]}
    /\ panelOnly /\ UNCHANGED config

\* handleSave, after the user has moved some controls: buildConfig takes what
\* has no control, like the roots, from $config.  The button is disabled until
\* the call returns.
Save ==
    /\ panel.pc = "ready"
    /\ \E dir \in SaveDirs, faults \in {{}, {"scheduler"}} :
        panel' = [panel EXCEPT !.pc = "saving", !.sent = [panel.base EXCEPT !.dir = dir, !.faults = faults]]
    /\ panelOnly /\ UNCHANGED config

\* update_config looks at the configuration first and waits for the lock then;
\* $config follows when it was accepted.
UpdateConfig ==
    /\ panel.pc = "saving" /\ Accepted(panel.sent) /\ locked = "nobody"
    /\ config' = panel.sent
    /\ panel' = [panel EXCEPT !.pc = "ready", !.base = panel.sent, !.sent = NoConfig]
    /\ panelOnly

ConfigRefused ==
    /\ panel.pc = "saving" /\ ~Accepted(panel.sent)
    /\ panel' = [panel EXCEPT !.pc = "ready", !.sent = NoConfig]
    /\ panelOnly /\ UNCHANGED config

-----------------------------------------------------------------------------
(* create_task.                                                             *)

creatorOnly == UNCHANGED <<config, panel>>
Now(c, local) == creator' = [creator EXCEPT ![c] = local]
Refuse(c) == Now(c, [creator[c] EXCEPT !.pc = "refused"]) /\ locked' = "nobody"

Ask(c) ==
    /\ creator[c].pc = "idle"
    /\ \E p \in Paths \cup {NoPath} : Now(c, [Resting EXCEPT !.pc = "waits", !.asked = p])
    /\ creatorOnly /\ UNCHANGED <<dirs, locked, made>>

\* authorize_download_dir up to the chain: the deepest ancestor there is may
\* not be a link, and lies under a root.
Authorize(c) ==
    LET asked == IF creator[c].asked = NoPath THEN config.dir ELSE creator[c].asked
        ancestor == DeepestExisting(asked)
        roots == {Canonical(r) : r \in config.roots}
        over == {r \in roots : IsUnder(Canonical(ancestor), r)}
    IN  /\ creator[c].pc = "waits" /\ locked = "nobody"
        /\ IF (\A r \in config.roots : RootAccepted(r)) /\ ancestor \notin Links /\ over # {}
           THEN /\ locked' = c
                /\ \E r \in over :
                    Now(c, [pc |-> "enter", asked |-> asked, root |-> r, at |-> Canonical(ancestor),
                            todo |-> SubSeq(asked, Len(ancestor) + 1, Len(asked))])
           ELSE Refuse(c)
        /\ creatorOnly /\ UNCHANGED <<dirs, made>>

\* ensure_authorized_directory.
Ensured(p, root) == Exists(p) /\ p \notin Links /\ IsUnder(Canonical(p), root)

NextPart(local) == [local EXCEPT !.pc = IF local.todo = <<>> THEN "check" ELSE "look"]

Enter(c) ==
    /\ creator[c].pc \in {"enter", "ensure"}
    /\ IF Ensured(creator[c].at, creator[c].root)
       THEN Now(c, NextPart(creator[c])) /\ UNCHANGED locked
       ELSE Refuse(c)
    /\ creatorOnly /\ UNCHANGED <<dirs, made>>

\* The next name: it is looked for, and made in a step of its own.
Look(c) ==
    /\ creator[c].pc = "look"
    /\ LET p == Append(creator[c].at, Head(creator[c].todo))
       IN  Now(c, [creator[c] EXCEPT !.pc = IF Exists(p) THEN "ensure" ELSE "make",
                                     !.at = p, !.todo = Tail(@)])
    /\ creatorOnly /\ UNCHANGED <<dirs, locked, made>>

\* create_dir fails when somebody was faster, and when the parent is gone.
Make(c) ==
    LET p == creator[c].at
    IN  /\ creator[c].pc = "make"
        /\ IF ~Exists(p) /\ p \notin Links /\ Exists(Front(p))
           THEN /\ dirs' = dirs \cup {Canonical(p)} /\ made' = made \cup {Canonical(p)}
                /\ Now(c, [creator[c] EXCEPT !.pc = "ensure"]) /\ UNCHANGED locked
           ELSE Refuse(c) /\ UNCHANGED <<dirs, made>>
        /\ creatorOnly

\* The last look at the directory, and the lock is given back.
Check(c) ==
    LET p == Canonical(creator[c].at)
    IN  /\ creator[c].pc = "check"
        /\ IF Exists(creator[c].at) /\ IsUnder(p, creator[c].root)
           THEN Now(c, [creator[c] EXCEPT !.pc = "build", !.at = p]) /\ locked' = "nobody"
           ELSE Refuse(c)
        /\ creatorOnly /\ UNCHANGED <<dirs, made>>

\* build_download_config: the configuration of now, the directory of before.
BuildConfig(c) ==
    /\ creator[c].pc = "build" /\ locked = "nobody"
    /\ Now(c, [creator[c] EXCEPT !.pc = "done"])
    /\ creatorOnly /\ UNCHANGED <<dirs, locked, made>>

-----------------------------------------------------------------------------
\* Other programs make directories and remove empty ones.
DiskChanges ==
    /\ \/ \E p \in Paths \ (dirs \cup Links \cup {<<>>}) : Front(p) \in dirs /\ dirs' = dirs \cup {p}
       \/ \E p \in dirs \ {<<>>} : (\A q \in dirs \ {p} : ~IsUnder(q, p)) /\ dirs' = dirs \ {p}
    /\ UNCHANGED <<config, locked, panel, creator, made>>

Next ==
    \/ LoadConfig \/ Save \/ UpdateConfig \/ ConfigRefused
    \/ \E c \in Creators :
        Ask(c) \/ Authorize(c) \/ Enter(c) \/ Look(c) \/ Make(c) \/ Check(c) \/ BuildConfig(c)
    \/ DiskChanges

-----------------------------------------------------------------------------
\* However the path asked for runs through links, and whatever the user saves
\* and other programs do meanwhile: a directory is made, and handed to a
\* download, only under an authorized root, where the links really lead; and
\* the panel builds on the configuration that the program has, so that a save
\* keeps what no page of it shows.  (The links are there from the start; one
\* that is made between the check and create_dir is not covered.)
DirsAuthorized ==
    /\ \A p \in made \cup {creator[c].at : c \in {c \in Creators : creator[c].pc \in {"build", "done"}}} :
           \E r \in config.roots : IsPrefix(Canonical(r), p)
    /\ panel.pc = "ready" => panel.base = config
=============================================================================
