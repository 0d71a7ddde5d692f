------------------------------- MODULE Board --------------------------------
(***************************************************************************)
(* What agents write on the board and how it hangs together: handle_publish*)
(* with its deduplication and its parents, handle_publish_atoms with a     *)
(* batch of atoms and explicit edges, retractions, the projects atoms and  *)
(* files belong to, and the graph cache that get_lineage reads (Lineage).  *)
(*                                                                         *)
(* A publish request is the list of the statements it runs; each is a step.  *)
(* Embedding (EmbeddingQueue), authentication and limits (Gateway), review *)
(* status (Agents) and inline artifacts (Artifacts) are elsewhere.         *)
(***************************************************************************)
EXTENDS EdgeTable, Sequences, Functions

CONSTANTS
    NoProject,
    Old,        \* atoms that are there, and more than a minute old, at the start
    Doomed,     \* atoms that may be retracted
    Content,    \* [Atom -> Nat]: equal for the same author, domain and statement
    Project,
    Wanted,     \* [Atom -> Project or NoProject]: what it is published into
    Request,
    Batch,      \* [Request -> Seq(Atom)]: its atoms
    Single,     \* requests of handle_publish, of one atom; others are batches
    Provenance, \* [Request -> Seq(Atom \X Atom)]: its parent_ids, each with
                \* the atom it is given for, in the order of the batch
    Explicit,   \* [Request -> Seq(Edge)]: a batch's edges, between atoms it can
                \* name: the hub makes up the ids of its own
    Deletion,   \* requests that delete a project
    Target,     \* [Deletion -> Project]
    Upload,     \* requests that upload a file
    Into,       \* [Upload -> Project]
    Crowds,     \* bound: the requests of every kind that come together
    MaxFaults   \* bound: database calls that fail

ASSUME BoardAssumption ==
    /\ NoProject \notin Project /\ Old \subseteq Atom /\ Doomed \subseteq Atom
    /\ Wanted \in [Atom -> Project \cup {NoProject}]
    /\ Batch \in [Request -> Seq(Atom)] /\ Single \subseteq Request
    /\ \A r \in Single : Len(Batch[r]) = 1
    \* The id of an atom is a hash over, among others, the time it is made.
    /\ \A r \in Request : Range(Batch[r]) \cap Old = {}
    /\ \A q, r \in Request : q # r => Range(Batch[q]) \cap Range(Batch[r]) = {}
    /\ Provenance \in [Request -> Seq(Atom \X Atom)]
    /\ \A r \in Request : \A p \in Range(Provenance[r]) : p[1] \in Range(Batch[r]) /\ p[1] # p[2]
    /\ Explicit \in [Request -> Seq(Edge)]
    /\ \A r \in Request : \A e \in Range(Explicit[r]) : {e[1], e[2]} \cap Range(Batch[r]) = {}
    /\ Target \in [Deletion -> Project] /\ Into \in [Upload -> Project]
    /\ Request \cap Deletion = {} /\ Request \cap Upload = {} /\ Deletion \cap Upload = {}
    /\ \A crowd \in Crowds : crowd \subseteq Request \cup Deletion \cup Upload
    /\ MaxFaults \in Nat

VARIABLES
    atoms,      \* committed atoms
    retracted,
    aged,       \* atoms more than sixty seconds old
    edges,      \* rows of edges
    cache,      \* edges of the graph cache
    project,    \* [Atom -> Project \cup {NoProject}]: project_id
    projects,   \* rows of projects
    files,      \* rows of project_files: uploads whose file is there
    todo,       \* [Request -> Seq(Statement)]: what it has still to run
    at,         \* [Request \cup Deletion \cup Upload -> Status]
    withdrawn,  \* history: [Request -> SUBSET Atom]: retracted when it came
    met,        \* history: pairs of requests that were under way together
    raced,      \* history: [Deletion -> SUBSET Atom]: published into its
                \* project between its two statements
    crowd,      \* the requests of this behaviour
    faults

content == <<atoms, retracted, aged, project>>
graph   == <<edges, cache>>
owned   == <<projects, files>>
history == <<withdrawn, met, raced, crowd>>
boardVars == <<content, graph, owned, todo, at, history, faults>>

Status == {"unsent", "busy", "done", "duplicate", "error"}

BoardInit ==
    /\ atoms = Old /\ retracted = {} /\ aged = Old
    /\ edges = {} /\ cache = {}
    /\ project = [x \in Atom |-> IF x \in Old THEN Wanted[x] ELSE NoProject]
    /\ projects = Project /\ files = {}
    /\ todo = [r \in Request |-> <<>>]
    /\ at = [q \in Request \cup Deletion \cup Upload |-> "unsent"]
    /\ withdrawn = [r \in Request |-> {}]
    /\ met = {}
    /\ raced = [d \in Deletion |-> {}]
    /\ crowd \in Crowds
    /\ faults = 0

Becomes(q, status) == at' = [at EXCEPT ![q] = status]

Alive(x) == x \in atoms \ retracted

(* The statements of a publish request, in their order *)

Say(r, i, do) == [do |-> do, atom |-> Provenance[r][i][1], parent |-> Provenance[r][i][2]]

ForParents(r, do) == [i \in DOMAIN Provenance[r] |-> Say(r, i, do)]

Derivation(p) == <<p[1], p[2], "derived_from">>

Derived(r) == [i \in DOMAIN Provenance[r] |-> [do |-> "edge", edge |-> Derivation(Provenance[r][i])]]

Inserts(r) == [i \in DOMAIN Batch[r] |-> [do |-> "insert", atom |-> Batch[r][i]]]

\* handle_publish: the parents, then the atom, the cache and the rows.
\* handle_publish_atoms: every atom, the explicit edges, then parent after
\* parent, checked and linked.
Plan(r) ==
    IF r \in Single
    THEN <<[do |-> "dedup", atom |-> Batch[r][1]]>> \o ForParents(r, "check") \o Inserts(r)
           \o <<[do |-> "link"]>> \o ForParents(r, "row")
    ELSE Inserts(r)
           \o [i \in DOMAIN Explicit[r] |-> [do |-> "edge", edge |-> Explicit[r][i]]]
           \o [i \in 1..(2 * Len(Provenance[r])) |->
                 IF i % 2 = 1 THEN Say(r, (i + 1) \div 2, "check") ELSE Derived(r)[i \div 2]]

Accept(r) ==
    /\ r \in crowd /\ at[r] = "unsent"
    /\ todo' = [todo EXCEPT ![r] = Plan(r)]
    /\ Becomes(r, IF Plan(r) = <<>> THEN "done" ELSE "busy")
    /\ withdrawn' = [withdrawn EXCEPT ![r] = retracted]
    /\ met' = met \cup {{r, q} : q \in {q \in Request : at[q] = "busy"}}
    /\ UNCHANGED <<content, graph, owned, raced, crowd, faults>>

Doing(r, do) == at[r] = "busy" /\ todo[r] # <<>> /\ Head(todo[r]).do = do

Continue(r) ==
    /\ todo' = [todo EXCEPT ![r] = Tail(@)]
    /\ Becomes(r, IF Len(todo[r]) = 1 THEN "done" ELSE "busy")

Stop(r, status) ==
    /\ todo' = [todo EXCEPT ![r] = <<>>]
    /\ Becomes(r, status)

\* Mutant: an atom is no duplicate once it is embedded, or has an edge.
UnlinkedTwins(x) ==
    {y \in atoms \ (retracted \cup aged) :
        Content[y] = Content[x] /\ ~\E e \in edges : y \in {e[1], e[2]}}

\* The atoms of the author with the domain and statement, not withdrawn, of
\* the last sixty seconds.
Twins(x) == {y \in atoms \ (retracted \cup aged) : Content[y] = Content[x]}

Dedup(r) ==
    /\ Doing(r, "dedup")
    /\ IF Twins(Head(todo[r]).atom) # {} THEN Stop(r, "duplicate") ELSE Continue(r)
    /\ UNCHANGED <<content, graph, owned, history, faults>>

\* Mutant: a parent that is there is good enough.
CheckExists(r) ==
    /\ Doing(r, "check")
    /\ IF Head(todo[r]).parent \in atoms THEN Continue(r) ELSE Stop(r, "error")
    /\ UNCHANGED <<content, graph, owned, history, faults>>

CheckParent(r) ==
    /\ Doing(r, "check")
    /\ IF Alive(Head(todo[r]).parent) THEN Continue(r) ELSE Stop(r, "error")
    /\ UNCHANGED <<content, graph, owned, history, faults>>

\* The INSERT of publish_atom fails when its project is gone: project_id
\* references projects.
InsertAtom(r) ==
    /\ Doing(r, "insert")
    /\ LET x == Head(todo[r]).atom
           p == Wanted[x]
       IN  IF p = NoProject \/ p \in projects
           THEN /\ atoms' = atoms \cup {x}
                /\ project' = [project EXCEPT ![x] = p]
                /\ raced' = [d \in Deletion |->
                     IF at[d] = "busy" /\ Target[d] = p THEN raced[d] \cup {x} ELSE raced[d]]
                /\ Continue(r)
           ELSE Stop(r, "error") /\ UNCHANGED <<atoms, project, raced>>
    /\ UNCHANGED <<retracted, aged, graph, owned, withdrawn, met, crowd, faults>>

\* handle_publish adds its parents to the cache, under one lock, before their
\* rows.
LinkCache(r) ==
    /\ Doing(r, "link")
    /\ cache' = cache \cup {Derivation(p) : p \in {p \in Range(Provenance[r]) : ~Linked(cache, p[1], p[2])}}
    /\ Continue(r)
    /\ UNCHANGED <<content, edges, owned, history, faults>>

InsertParentRow(r) ==
    /\ Doing(r, "row")
    /\ edges' = InsertRow(edges, Head(todo[r]).atom, Head(todo[r]).parent, "derived_from")
    /\ Continue(r)
    /\ UNCHANGED <<content, cache, owned, history, faults>>

\* A batch adds to the cache what was new to the table.  It passes over an
\* edge of an atom to itself, and over one whose ends are not both there,
\* whose INSERT fails.
InsertEdge(r) ==
    /\ Doing(r, "edge")
    /\ LET e == Head(todo[r]).edge IN
        IF e[1] # e[2] /\ {e[1], e[2]} \subseteq atoms /\ e \notin edges
        THEN /\ edges' = InsertRow(edges, e[1], e[2], e[3])
             /\ todo' = [todo EXCEPT ![r] = <<[do |-> "add", edge |-> e]>> \o Tail(@)]
             /\ UNCHANGED at
        ELSE Continue(r) /\ UNCHANGED edges
    /\ UNCHANGED <<content, cache, owned, history, faults>>

AddToCache(r) ==
    /\ Doing(r, "add")
    /\ cache' = AddEdge(cache, Head(todo[r]).edge[1], Head(todo[r]).edge[2], Head(todo[r]).edge[3])
    /\ Continue(r)
    /\ UNCHANGED <<content, edges, owned, history, faults>>

\* A failed read of the twins or a failed INSERT of an atom ends the request,
\* a failed read of a parent counts as its absence, a failed INSERT of an
\* edge is passed over.
Fail(r) ==
    /\ faults < MaxFaults /\ faults' = faults + 1
    /\ at[r] = "busy" /\ todo[r] # <<>>
    /\ CASE Head(todo[r]).do \in {"dedup", "check", "insert"} -> Stop(r, "error")
         [] Head(todo[r]).do \in {"row", "edge"}   -> Continue(r)
         [] OTHER -> FALSE
    /\ UNCHANGED <<content, graph, owned, history>>

(* Retraction, and the passing of a minute *)

Retract(x) ==
    /\ x \in Doomed /\ Alive(x)
    /\ retracted' = retracted \cup {x}
    /\ UNCHANGED <<atoms, aged, project, graph, owned, todo, at, history, faults>>

Age(x) ==
    /\ x \in atoms \ aged
    /\ aged' = aged \cup {x}
    /\ UNCHANGED <<atoms, retracted, project, graph, owned, todo, at, history, faults>>

(* Projects *)

\* Mutant: withdrawn atoms keep their project.
StripAlive(d) ==
    /\ d \in crowd /\ at[d] = "unsent"
    /\ project' = [x \in Atom |-> IF project[x] = Target[d] /\ Alive(x) THEN NoProject ELSE project[x]]
    /\ Becomes(d, "busy")
    /\ UNCHANGED <<atoms, retracted, aged, graph, owned, todo, history, faults>>

StripAtoms(d) ==
    /\ d \in crowd /\ at[d] = "unsent"
    /\ project' = [x \in Atom |-> IF project[x] = Target[d] THEN NoProject ELSE project[x]]
    /\ Becomes(d, "busy")
    /\ UNCHANGED <<atoms, retracted, aged, graph, owned, todo, history, faults>>

\* The DELETE is refused while an atom references the row, and takes the
\* project's files with it.
DeleteProject(d) ==
    /\ at[d] = "busy"
    /\ LET p == Target[d] IN
        IF p \in projects /\ ~\E x \in Atom : project[x] = p
        THEN /\ projects' = projects \ {p}
             /\ files' = {u \in files : Into[u] # p}
             /\ Becomes(d, "done")
        ELSE Becomes(d, "error") /\ UNCHANGED owned
    /\ UNCHANGED <<content, graph, todo, history, faults>>

FindProject(u) ==
    /\ u \in crowd /\ at[u] = "unsent"
    /\ Becomes(u, IF Into[u] \in projects THEN "busy" ELSE "error")
    /\ UNCHANGED <<content, graph, owned, todo, history, faults>>

\* The row references the project, which may be gone since.
UploadFile(u) ==
    /\ at[u] = "busy"
    /\ IF Into[u] \in projects
       THEN files' = files \cup {u} /\ Becomes(u, "done")
       ELSE Becomes(u, "error") /\ UNCHANGED files
    /\ UNCHANGED <<content, graph, projects, todo, history, faults>>

DeleteFile(u) ==
    /\ u \in files
    /\ files' = files \ {u}
    /\ UNCHANGED <<content, graph, projects, todo, at, history, faults>>

Publishing(r) ==
    \/ Accept(r) \/ Dedup(r) \/ CheckParent(r) \/ InsertAtom(r)
    \/ LinkCache(r) \/ InsertParentRow(r)
    \/ InsertEdge(r) \/ AddToCache(r)

BoardNext ==
    \/ \E r \in Request : Publishing(r) \/ Fail(r)
    \/ \E x \in Atom : Retract(x) \/ Age(x)
    \/ \E d \in Deletion : StripAtoms(d) \/ DeleteProject(d)
    \/ \E u \in Upload : FindProject(u) \/ UploadFile(u) \/ DeleteFile(u)

BoardSpec == BoardInit /\ [][BoardNext]_boardVars

-----------------------------------------------------------------------------
(* What the board promises.                                                 *)

BoardTypeOK ==
    /\ retracted \subseteq atoms /\ aged \subseteq atoms /\ atoms \subseteq Atom
    /\ edges \subseteq Edge /\ cache \subseteq Edge
    /\ project \in [Atom -> Project \cup {NoProject}]
    /\ projects \subseteq Project /\ files \subseteq Upload
    /\ at \in [Request \cup Deletion \cup Upload -> Status]
    /\ DOMAIN todo = Request
    /\ \A r \in Request : at[r] = "busy" <=> todo[r] # <<>>
    /\ withdrawn \in [Request -> SUBSET Atom]
    /\ raced \in [Deletion -> SUBSET Atom]
    /\ faults \in 0..MaxFaults

\* The sixty-second deduplication of handle_publish: two live atoms of one
\* author, domain and statement published by it within a minute come from
\* requests that were under way together.  (Between its look for a twin and
\* its INSERT nothing keeps another request out.)
SameOnlyInParallel ==
    \A q, r \in Single :
        LET x == Batch[q][1]
            y == Batch[r][1]
        IN  /\ q # r /\ x # y /\ {x, y} \subseteq atoms /\ Content[x] = Content[y]
            /\ {x, y} \cap (retracted \cup aged \cup Old) = {}
            => {q, r} \in met

\* Nothing was ever amiss with its parents and its projects.
Sound(r) ==
    /\ \A p \in Range(Provenance[r]) : p[2] \in Old \ retracted
    /\ \A x \in Range(Batch[r]) : Wanted[x] \in projects \cup {NoProject}

\* A batch has put e into the table and has the cache still to tell.
Adding(e) == \E q \in Request : Doing(q, "add") /\ Head(todo[q]).edge = e

\* A batch names e itself, among its edges.
Asserted(e) == \E q \in Request : e \in Range(Explicit[q])

\* What an answer says of the board.  "done": every atom of the request is
\* there and, if no database call failed, every parent is linked, in the table
\* and in the cache, unless a batch that named the edge itself is about to add
\* it.  "duplicate", or an error of handle_publish: nothing was published.  An
\* error of handle_publish_atoms leaves what it had published, and needs a
\* failed call, a project that is gone, or a parent that came late or was
\* withdrawn.  Whatever the answer, no atom is derived from one that had been
\* withdrawn when the request came, unless a batch asserted just that.
AnswersTrue ==
    \A r \in Request :
        /\ at[r] = "done" =>
             /\ Range(Batch[r]) \subseteq atoms
             /\ faults = 0 => \A p \in Range(Provenance[r]) :
                  /\ Derivation(p) \in edges
                  /\ Linked(cache, p[1], p[2]) \/ Adding(Derivation(p))
        /\ at[r] = "duplicate" => Batch[r][1] \notin atoms
        /\ at[r] = "error" /\ r \in Single => Batch[r][1] \notin atoms
        /\ at[r] = "error" /\ faults = 0 => ~Sound(r)
        /\ \A p \in Range(Provenance[r]) :
              p[2] \in withdrawn[r] => Derivation(p) \notin edges \/ Asserted(Derivation(p))

\* Deleting a project is two statements outside a transaction: the second
\* fails on a project that is there only if an atom was published into it
\* between the two.  Whatever happens, no atom and no file belongs to a
\* project that is gone.
DeleteFailsOnlyForRace ==
    /\ \A d \in Deletion : at[d] = "error" /\ Target[d] \in projects => raced[d] # {}
    /\ \A x \in Atom : project[x] \in projects \cup {NoProject}
    /\ \A u \in files : Into[u] \in projects
=============================================================================
