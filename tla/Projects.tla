------------------------------ MODULE Projects ------------------------------
(***************************************************************************)
(* A project's protocol and files, changed by owners with the command-line *)
(* client while a run of agents reads them.  The client resolves a slug    *)
(* to a project and then asks the hub for one thing after another, so      *)
(* other invocations come between; an editor stays open as long as its     *)
(* user likes.                                                             *)
(*                                                                         *)
(* The protocol stands for the seed bounty and the requirements, which are *)
(* edited in the same way.  A text is the set of the changes it contains.  *)
(* Owners' tokens are valid.                                               *)
(***************************************************************************)
EXTENDS Integers, FiniteSets

CONSTANTS
    Cmd,         \* invocations of the client
    Id,          \* project identifiers, each created once
    File,
    Slug,
    First,       \* the change and the version that were there at the start
    None,
    Scripts,     \* bound: what is invoked: a set of [Cmd -> command]
    MaxFailures  \* bound: calls that fail

Kind == {"create", "delete", "edit", "replace", "upload", "remove", "launch"}
Change == Cmd \cup {First}

ASSUME ProjectsAssumption ==
    /\ None \notin Change \cup Id \cup Slug /\ First \notin Cmd
    /\ Scripts \subseteq [Cmd -> [kind : Kind, slug : Slug, file : File]]
    /\ MaxFailures \in Nat

VARIABLES
    script,    \* [Cmd -> command]
    at,        \* [Cmd -> the next step of the invocation]
    on,        \* [Cmd -> Id or None]: what the slug was resolved to
    slug,      \* [Id -> Slug or None]: None before it is created and once deleted
    text,      \* [Id -> SUBSET Change]: the protocol
    files,     \* [Id -> [File -> Change or None]]
    base,      \* [Cmd -> SUBSET Change]: what the editor was opened with
    todo,      \* [Cmd -> SUBSET File]: listed and not yet asked for
    work,      \* [Cmd -> [File -> Change or None]]: the working directory
    failures,  \* bound
    read,      \* history: [Cmd -> SUBSET Change]: the protocol when asked for
    failed,    \* history: invocations one of whose calls failed
    shown      \* history: [Cmd -> [File -> SUBSET (Change or None)]]: what the
               \* hub had under each name listed, since it was listed

hub == <<slug, text, files>>
history == <<read, shown>>
vars == <<script, at, on, hub, base, todo, work, failures, failed, history>>

Nothing == [f \in File |-> None]

Init ==
    /\ script \in Scripts
    /\ at = [c \in Cmd |-> "idle"] /\ on = [c \in Cmd |-> None]
    /\ \E p \in Id, s \in Slug :
        /\ slug = [q \in Id |-> IF q = p THEN s ELSE None]
        /\ text = [q \in Id |-> IF q = p THEN {First} ELSE {}]
        /\ files = [q \in Id |-> [f \in File |-> IF q = p THEN First ELSE None]]
    /\ base = [c \in Cmd |-> {}] /\ read = base
    /\ todo = [c \in Cmd |-> {}] /\ work = [c \in Cmd |-> Nothing]
    /\ failures = 0 /\ failed = {}
    /\ shown = [c \in Cmd |-> [f \in File |-> {}]]

Doing(c) == script[c].kind
Live(p) == slug[p] # None
Goto(c, step) == at' = [at EXCEPT ![c] = step]
At(c, step) == at[c] = step
Succeeds == UNCHANGED <<failures, failed>>
Fails(c) == failures < MaxFailures /\ failures' = failures + 1 /\ failed' = failed \cup {c}

\* What the files become, and that launches under way are shown it.
Show(new) ==
    /\ files' = new
    /\ shown' = [c \in Cmd |-> [f \in File |->
                   IF shown[c][f] = {} THEN {} ELSE shown[c][f] \cup {new[on[c]][f]}]]

-----------------------------------------------------------------------------
After == [delete |-> "delete", edit |-> "fetch", replace |-> "save",
          upload |-> "upload", remove |-> "remove", launch |-> "protocol"]

\* get_project_by_slug: the invocation ends if there is none.
Resolve(c) ==
    /\ At(c, "idle") /\ Doing(c) # "create"
    /\ \/ \E p \in Id :
            /\ slug[p] = script[c].slug
            /\ on' = [on EXCEPT ![c] = p]
            /\ Goto(c, After[Doing(c)]) /\ Succeeds
       \/ /\ \A p \in Id : slug[p] # script[c].slug
          /\ Goto(c, "ended") /\ UNCHANGED on /\ Succeeds
       \/ Goto(c, "ended") /\ UNCHANGED on /\ Fails(c)
    /\ UNCHANGED <<script, hub, base, todo, work, history>>

\* A slug is taken or not: a unique index decides.
Create(c) ==
    /\ At(c, "idle") /\ Doing(c) = "create" /\ Goto(c, "ended")
    /\ IF \E p \in Id : slug[p] = script[c].slug
       THEN UNCHANGED <<slug, on>>
       ELSE \E p \in Id :
              /\ ~Live(p) /\ \A d \in Cmd : on[d] # p
              /\ text[p] = {}
              /\ slug' = [slug EXCEPT ![p] = script[c].slug]
              /\ on' = [on EXCEPT ![c] = p]
    /\ Succeeds
    /\ UNCHANGED <<script, text, files, base, todo, work, history>>

\* The owner confirms; the files go with the project.
Delete(c) ==
    /\ At(c, "delete") /\ Goto(c, "ended")
    /\ slug' = [slug EXCEPT ![on[c]] = None]
    /\ Show([files EXCEPT ![on[c]] = Nothing])
    /\ Succeeds
    /\ UNCHANGED <<script, on, text, base, todo, work, read>>

\* The editor is opened with the protocol, and with nothing when there is none
\* or the call fails.
Fetch(c) ==
    /\ At(c, "fetch") /\ Goto(c, "save")
    /\ read' = [read EXCEPT ![c] = text[on[c]]]
    /\ \/ /\ base' = [base EXCEPT ![c] = IF Live(on[c]) THEN text[on[c]] ELSE {}]
          /\ Succeeds
       \/ Fails(c) /\ UNCHANGED base
    /\ UNCHANGED <<script, on, hub, todo, work, shown>>

\* Mutant: the protocol is saved under the slug.
SaveBySlug(c) ==
    /\ At(c, "save") /\ Goto(c, "ended")
    /\ text' = [p \in Id |-> IF Live(p) /\ slug[p] = script[c].slug
                             THEN base[c] \cup {c} ELSE text[p]]
    /\ Succeeds
    /\ UNCHANGED <<script, on, slug, files, base, todo, work, history>>

\* The text of the editor, or of a file, replaces what is there.
Save(c) ==
    /\ At(c, "save") /\ Goto(c, "ended")
    /\ text' = IF Live(on[c]) THEN [text EXCEPT ![on[c]] = base[c] \cup {c}] ELSE text
    /\ Succeeds
    /\ UNCHANGED <<script, on, slug, files, base, todo, work, history>>

Upload(c) ==
    /\ At(c, "upload") /\ Goto(c, "ended")
    /\ Show(IF Live(on[c]) THEN [files EXCEPT ![on[c]][script[c].file] = c] ELSE files)
    /\ Succeeds
    /\ UNCHANGED <<script, on, slug, text, base, todo, work, read>>

Remove(c) ==
    /\ At(c, "remove") /\ Goto(c, "ended")
    /\ Show([files EXCEPT ![on[c]][script[c].file] = None])
    /\ Succeeds
    /\ UNCHANGED <<script, on, slug, text, base, todo, work, read>>

-----------------------------------------------------------------------------
\* A run reads the protocol: none if the project has gone meanwhile, which
\* the client does not tell from a project without one.
ReadProtocol(c) ==
    /\ At(c, "protocol") /\ Goto(c, "list")
    /\ base' = [base EXCEPT ![c] = IF Live(on[c]) THEN text[on[c]] ELSE {}]
    /\ Succeeds
    /\ UNCHANGED <<script, on, hub, todo, work, history>>

\* The names of the files; none if they cannot be had.
ListFiles(c) ==
    /\ At(c, "list") /\ Goto(c, "download")
    /\ \/ LET names == {f \in File : files[on[c]][f] # None}
          IN  /\ todo' = [todo EXCEPT ![c] = names]
              /\ shown' = [shown EXCEPT ![c] =
                             [f \in File |-> IF f \in names THEN {files[on[c]][f]} ELSE {}]]
              /\ Succeeds
       \/ Fails(c) /\ UNCHANGED <<todo, shown>>
    /\ UNCHANGED <<script, on, hub, base, work, read>>

\* Mutant: a download that fails ends the downloading.
DownloadOrEnd(c) ==
    /\ At(c, "download")
    /\ \E f \in todo[c] :
        IF files[on[c]][f] = None
        THEN todo' = [todo EXCEPT ![c] = {}] /\ UNCHANGED work
        ELSE /\ todo' = [todo EXCEPT ![c] = @ \ {f}]
             /\ work' = [work EXCEPT ![c][f] = files[on[c]][f]]
    /\ Succeeds
    /\ UNCHANGED <<script, at, on, hub, base, history>>

\* Each file as it is when it is asked for; one that cannot be had is left out
\* with a warning.
Download(c) ==
    /\ At(c, "download")
    /\ \E f \in todo[c] :
        /\ todo' = [todo EXCEPT ![c] = @ \ {f}]
        /\ \/ /\ files[on[c]][f] # None
              /\ work' = [work EXCEPT ![c][f] = files[on[c]][f]]
              /\ Succeeds
           \/ files[on[c]][f] = None /\ Succeeds /\ UNCHANGED work
           \/ Fails(c) /\ UNCHANGED work
    /\ UNCHANGED <<script, at, on, hub, base, history>>

Launch(c) ==
    /\ At(c, "download") /\ todo[c] = {} /\ Goto(c, "launched")
    /\ UNCHANGED <<script, on, hub, base, todo, work, failures, failed, history>>

\* A call that changes the hub, or that a run needs, fails; so does the owner
\* who leaves the editor or declines.
GivesUp(c) ==
    /\ at[c] \in {"delete", "save", "upload", "remove", "protocol"}
    /\ Goto(c, "ended") /\ Fails(c)
    /\ UNCHANGED <<script, on, hub, base, todo, work, history>>

Done == (\A c \in Cmd : at[c] \in {"ended", "launched"}) /\ UNCHANGED vars

Owner(c) == \/ Resolve(c) \/ Create(c) \/ Delete(c) \/ Fetch(c) \/ Save(c)
            \/ Upload(c) \/ Remove(c) \/ GivesUp(c)
Run(c) == ReadProtocol(c) \/ ListFiles(c) \/ Download(c) \/ Launch(c)

Next == (\E c \in Cmd : Owner(c) \/ Run(c)) \/ Done

Spec == Init /\ [][Next]_vars

-----------------------------------------------------------------------------
Step == {"idle", "delete", "fetch", "save", "upload", "remove",
         "protocol", "list", "download", "launched", "ended"}

Texts ==
    /\ slug \in [Id -> Slug \cup {None}] /\ text \in [Id -> SUBSET Change]
    /\ base \in [Cmd -> SUBSET Change] /\ read \in [Cmd -> SUBSET Change]

Trees ==
    /\ files \in [Id -> [File -> Change \cup {None}]]
    /\ work \in [Cmd -> [File -> Change \cup {None}]]
    /\ shown \in [Cmd -> [File -> SUBSET (Change \cup {None})]]
    /\ todo \in [Cmd -> SUBSET File]
    /\ \A c \in Cmd, f \in File : shown[c][f] # {} => on[c] \in Id

Invocations ==
    /\ script \in Scripts
    /\ at \in [Cmd -> Step] /\ on \in [Cmd -> Id \cup {None}]
    /\ failures \in 0..MaxFailures /\ failed \subseteq Cmd
    /\ \A c \in Cmd : /\ at[c] = "idle" => on[c] = None
                      /\ at[c] \notin {"idle", "ended"} => on[c] \in Id

\* Every variable has its type, and an invocation that goes on has resolved
\* its slug.
TypeOK == Texts /\ Trees /\ Invocations

\* A change to the protocol is undone only by a text from a file, by an editor
\* opened before the change was saved, or by one opened while the hub did not
\* answer: that one is opened empty.  And no editor carries a text from one
\* project into another, when a slug has passed to a new project meanwhile.
EditsKept ==
    [][\A p \in Id :
        /\ \A x \in text[p] \ text'[p] :
            \E c \in Cmd : /\ at[c] = "save" /\ at'[c] = "ended" /\ on[c] = p
                           /\ Doing(c) = "replace" \/ c \in failed \/ x \notin read[c]
        /\ \A x \in text'[p] \ {First} : on[x] = p]_vars

\* What a run launches its agents with: each file listed is there in a version
\* the hub had since the listing, and is left out only if it was removed or a
\* call failed; nothing else is there.
GivenWhatWasThere ==
    \A c \in Cmd : at[c] = "launched" =>
        \A f \in File :
            IF work[c][f] = None THEN shown[c][f] = {} \/ None \in shown[c][f] \/ c \in failed
            ELSE work[c][f] \in shown[c][f]
=============================================================================
