--------------------------- MODULE ProjectsProofs ---------------------------
(***************************************************************************)
(* Proofs about Projects, for any invocations, projects, files and number  *)
(* of failed calls.                                                        *)
(***************************************************************************)
EXTENDS Projects, TLAPS

\* Every step keeps the types of the steps and what each invocation is about.
LEMMA InvocationsStep == TypeOK /\ [Next]_vars => Invocations'
<1> SUFFICES ASSUME TypeOK, [Next]_vars PROVE Invocations'
    OBVIOUS
<1> USE ProjectsAssumption
<1> USE DEF TypeOK, Goto, At, Succeeds, Fails, Doing, hub, history, Invocations, Step
<1>1. ASSUME NEW c \in Cmd, Resolve(c) PROVE Invocations'
    <2>1. After[Doing(c)] \in Step \ {"idle", "ended"}
        BY <1>1 DEF After, Kind, Resolve
    <2>2. CASE \E p \in Id : /\ on' = [on EXCEPT ![c] = p]
                             /\ Goto(c, After[Doing(c)]) /\ Succeeds
        <3>1. PICK p \in Id : on' = [on EXCEPT ![c] = p]
            BY <2>2
        <3>2. at' = [at EXCEPT ![c] = After[Doing(c)]]
            BY <2>2
        <3>3. on' \in [Cmd -> Id \cup {None}] /\ at' \in [Cmd -> Step]
            BY <2>1, <3>1, <3>2
        <3>4. ASSUME NEW d \in Cmd
              PROVE  /\ at'[d] = "idle" => on'[d] = None
                     /\ at'[d] \notin {"idle", "ended"} => on'[d] \in Id
            BY <2>1, <3>1, <3>2
        <3> QED
            BY <1>1, <2>2, <3>3, <3>4 DEF Resolve
    <2>3. CASE Goto(c, "ended") /\ UNCHANGED on /\ (Succeeds \/ Fails(c))
        BY <1>1, <2>3 DEF Resolve
    <2> QED
        BY <1>1, <2>2, <2>3 DEF Resolve
<1>2. ASSUME NEW c \in Cmd, Create(c) PROVE Invocations'
    BY <1>2 DEF Create
<1>3. ASSUME NEW c \in Cmd, Delete(c) PROVE Invocations'
    BY <1>3 DEF Delete, Show
<1>4. ASSUME NEW c \in Cmd, Fetch(c) PROVE Invocations'
    BY <1>4 DEF Fetch
<1>5. ASSUME NEW c \in Cmd, Save(c) PROVE Invocations'
    BY <1>5 DEF Save, Change
<1>6. ASSUME NEW c \in Cmd, Upload(c) PROVE Invocations'
    BY <1>6 DEF Upload, Show
<1>7. ASSUME NEW c \in Cmd, Remove(c) PROVE Invocations'
    BY <1>7 DEF Remove, Show
<1>8. ASSUME NEW c \in Cmd, GivesUp(c) PROVE Invocations'
    BY <1>8 DEF GivesUp
<1>9. ASSUME NEW c \in Cmd, ReadProtocol(c) PROVE Invocations'
    BY <1>9 DEF ReadProtocol
<1>10. ASSUME NEW c \in Cmd, ListFiles(c) PROVE Invocations'
    BY <1>10 DEF ListFiles
<1>11. ASSUME NEW c \in Cmd, Download(c) PROVE Invocations'
    BY <1>11 DEF Download
<1>12. ASSUME NEW c \in Cmd, Launch(c) PROVE Invocations'
    BY <1>12 DEF Launch
<1>13. ASSUME UNCHANGED vars PROVE Invocations'
    BY <1>13 DEF vars
<1> QED
    BY <1>1, <1>2, <1>3, <1>4, <1>5, <1>6, <1>7, <1>8, <1>9,
       <1>10, <1>11, <1>12, <1>13
    DEF Next, Owner, Run, Done

\* Every step keeps the types of the protocols and what is read of them.
LEMMA TextsStep == TypeOK /\ [Next]_vars => Texts'
<1> SUFFICES ASSUME TypeOK, [Next]_vars PROVE Texts'
    OBVIOUS
<1> USE ProjectsAssumption
<1> USE DEF TypeOK, Goto, At, Succeeds, Fails, Doing, hub, history, Texts, Invocations
<1>1. ASSUME NEW c \in Cmd, Resolve(c) PROVE Texts'
    BY <1>1 DEF Resolve, After, Kind
<1>2. ASSUME NEW c \in Cmd, Create(c) PROVE Texts'
    BY <1>2 DEF Create
<1>3. ASSUME NEW c \in Cmd, Delete(c) PROVE Texts'
    BY <1>3 DEF Delete, Show
<1>4. ASSUME NEW c \in Cmd, Fetch(c) PROVE Texts'
    BY <1>4 DEF Fetch
<1>5. ASSUME NEW c \in Cmd, Save(c) PROVE Texts'
    BY <1>5 DEF Save, Change
<1>6. ASSUME NEW c \in Cmd, Upload(c) PROVE Texts'
    BY <1>6 DEF Upload, Show
<1>7. ASSUME NEW c \in Cmd, Remove(c) PROVE Texts'
    BY <1>7 DEF Remove, Show
<1>8. ASSUME NEW c \in Cmd, GivesUp(c) PROVE Texts'
    BY <1>8 DEF GivesUp
<1>9. ASSUME NEW c \in Cmd, ReadProtocol(c) PROVE Texts'
    BY <1>9 DEF ReadProtocol
<1>10. ASSUME NEW c \in Cmd, ListFiles(c) PROVE Texts'
    BY <1>10 DEF ListFiles
<1>11. ASSUME NEW c \in Cmd, Download(c) PROVE Texts'
    BY <1>11 DEF Download
<1>12. ASSUME NEW c \in Cmd, Launch(c) PROVE Texts'
    BY <1>12 DEF Launch
<1>13. ASSUME UNCHANGED vars PROVE Texts'
    BY <1>13 DEF vars
<1> QED
    BY <1>1, <1>2, <1>3, <1>4, <1>5, <1>6, <1>7, <1>8, <1>9,
       <1>10, <1>11, <1>12, <1>13
    DEF Next, Owner, Run, Done

Tree == [File -> Change \cup {None}]

\* What the hub has, once shown, keeps the types.
LEMMA ShowTyped ==
    ASSUME Trees, Texts, Invocations, NEW new \in [Id -> Tree], Show(new),
           UNCHANGED <<work, todo, on>>
    PROVE  Trees'
<1>1. files' \in [Id -> Tree]
    BY DEF Show
<1>2. ASSUME NEW c \in Cmd, NEW f \in File
      PROVE (IF shown[c][f] = {} THEN {} ELSE shown[c][f] \cup {new[on[c]][f]})
                \in SUBSET (Change \cup {None})
    BY <1>2 DEF Trees, Tree
<1> QED
    BY <1>1, <1>2 DEF Show, Trees, Tree

\* One place of a table of tables is written.
LEMMA PutTyped ==
    ASSUME NEW A, NEW B, NEW V, NEW w \in [A -> [B -> V]], NEW a \in A, NEW b \in B, NEW v \in V
    PROVE  [w EXCEPT ![a][b] = v] \in [A -> [B -> V]]
OBVIOUS

\* Every step keeps the types of files, listings and working directories.
LEMMA TreesStep == TypeOK /\ [Next]_vars => Trees'
<1> SUFFICES ASSUME TypeOK, [Next]_vars PROVE Trees'
    OBVIOUS
<1>3. ASSUME NEW c \in Cmd, Delete(c) \/ Remove(c) \/ Upload(c)  PROVE Trees'
    <2>1. PICK new \in [Id -> Tree] : Show(new)
        <3>1. CASE Delete(c)
            <4>1. Nothing \in Tree
                BY DEF Nothing, Tree
            <4> QED
                BY <3>1, <4>1 DEF Delete, TypeOK, Trees, Tree
        <3>2. CASE Remove(c)
            <4>1. on[c] \in Id /\ script[c].file \in File
                BY <3>2, ProjectsAssumption DEF Remove, TypeOK, Invocations, At
            <4> QED
                BY <3>2, <4>1 DEF Remove, TypeOK, Trees, Tree
        <3>3. CASE Upload(c)
            <4>1. on[c] \in Id /\ script[c].file \in File
                BY <3>3, ProjectsAssumption DEF Upload, TypeOK, Invocations, At
            <4> QED
                BY <3>3, <4>1 DEF Upload, TypeOK, Trees, Tree, Change
        <3> QED
            BY <1>3, <3>1, <3>2, <3>3
    <2> QED
       BY <1>3, <2>1, ShowTyped DEF Delete, Remove, Upload, TypeOK
<1>10. ASSUME NEW c \in Cmd, ListFiles(c) PROVE Trees'
    <2>1. on[c] \in Id
        BY <1>10 DEF ListFiles, TypeOK, Invocations, At
    <2>2. {f \in File : files[on[c]][f] # None} \in SUBSET File
        OBVIOUS
    <2>3. CASE UNCHANGED <<todo, shown, files, work, on>>
        BY <2>3 DEF TypeOK, Trees
    <2>4. CASE LET names == {f \in File : files[on[c]][f] # None} IN
               /\ todo' = [todo EXCEPT ![c] = names]
               /\ shown' = [shown EXCEPT ![c] =
                             [f \in File |-> IF f \in names THEN {files[on[c]][f]} ELSE {}]]
               /\ UNCHANGED <<files, work, on>>
        <3> DEFINE names == {f \in File : files[on[c]][f] # None}
                   new == [f \in File |-> IF f \in names THEN {files[on[c]][f]} ELSE {}]
        <3>1. new \in [File -> SUBSET (Change \cup {None})]
            BY <2>1 DEF TypeOK, Trees
        <3>2. todo' = [todo EXCEPT ![c] = names] /\ shown' = [shown EXCEPT ![c] = new]
            BY <2>4
        <3> HIDE DEF names, new
        <3>3. names \in SUBSET File
            BY DEF names
        <3> QED
            BY <2>4, <2>1, <3>1, <3>2, <3>3 DEF TypeOK, Trees
    <2> QED
        BY <1>10, <2>3, <2>4 DEF ListFiles, hub
<1>11. ASSUME NEW c \in Cmd, Download(c) PROVE Trees'
    <2>1. on[c] \in Id /\ files' = files /\ shown' = shown
        BY <1>11 DEF Download, TypeOK, Invocations, At, hub, history
    <2>2. PICK f \in todo[c] : /\ todo' = [todo EXCEPT ![c] = @ \ {f}]
                               /\ work' = [work EXCEPT ![c][f] = files[on[c]][f]] \/ work' = work
        BY <1>11 DEF Download
    <2>3. files[on[c]][f] \in Change \cup {None} /\ f \in File
        BY <2>1 DEF TypeOK, Trees
    <2>4. work' \in [Cmd -> [File -> Change \cup {None}]]
        <3>1. work \in [Cmd -> [File -> Change \cup {None}]]
            BY DEF TypeOK, Trees
        <3>2. [work EXCEPT ![c][f] = files[on[c]][f]] \in [Cmd -> [File -> Change \cup {None}]]
            BY <2>3, <3>1, PutTyped, Zenon
        <3> QED
            BY <2>2, <3>1, <3>2
    <2>5. UNCHANGED on
        BY <1>11 DEF Download
    <2> QED
        BY <2>1, <2>2, <2>4, <2>5 DEF TypeOK, Trees
<1>12. ASSUME NEW c \in Cmd, Launch(c) \/ Save(c) \/ Fetch(c) \/ ReadProtocol(c) \/ GivesUp(c) PROVE Trees'
    BY <1>12 DEF Launch, Save, Fetch, ReadProtocol, GivesUp, TypeOK, Trees, hub, history
<1>13. ASSUME NEW c \in Cmd, Resolve(c) PROVE Trees'
    BY <1>13 DEF Resolve, TypeOK, Trees, Invocations, hub, history
<1>14. ASSUME NEW c \in Cmd, Create(c) PROVE Trees'
    BY <1>14 DEF Create, TypeOK, Trees, Invocations, hub, history
<1>15. ASSUME UNCHANGED vars PROVE Trees'
    BY <1>15 DEF TypeOK, Trees, vars, hub, history
<1> QED
    BY <1>3, <1>10, <1>11, <1>12, <1>13, <1>14, <1>15 DEF Next, Owner, Run, Done

LEMMA TypeStep == TypeOK /\ [Next]_vars => TypeOK'
    BY InvocationsStep, TextsStep, TreesStep DEF TypeOK

\* Type correctness: an invocation under way has resolved its slug.
THEOREM TypeCorrect == Spec => []TypeOK
<1>1. Init => TypeOK
    BY ProjectsAssumption DEF Init, TypeOK, Texts, Trees, Invocations, Step, Change, Nothing
<1> QED
    BY <1>1, TypeStep, PTL DEF Spec

---------------------------------------------------------------------------
\* Once resolved, an invocation keeps its project; a project that is gone
\* does not come back while an invocation is about it.
LEMMA ProjectsKept ==
    ASSUME TypeOK, [Next]_vars, NEW c \in Cmd, on[c] # None
    PROVE  on'[c] = on[c] /\ (slug'[on[c]] # None => slug[on[c]] # None)
<1> USE ProjectsAssumption
<1>0. on[c] \in Id
    BY DEF TypeOK, Invocations
<1>1. ASSUME NEW d \in Cmd, Resolve(d) PROVE on'[c] = on[c] /\ slug' = slug
    BY <1>1 DEF Resolve, TypeOK, Invocations, At, hub
<1>2. ASSUME NEW d \in Cmd, Create(d)
      PROVE on'[c] = on[c] /\ (slug'[on[c]] # None => slug[on[c]] # None)
    BY <1>0, <1>2 DEF Create, TypeOK, Texts, Invocations, At, Live
<1>3. ASSUME NEW d \in Cmd, Delete(d)
      PROVE on'[c] = on[c] /\ (slug'[on[c]] # None => slug[on[c]] # None)
    BY <1>0, <1>3 DEF Delete, TypeOK, Texts
<1>4. CASE UNCHANGED <<on, slug>>
    BY <1>4
<1> QED
    BY <1>1, <1>2, <1>3, <1>4
    DEF Next, Owner, Run, Fetch, Save, Upload, Remove, GivesUp, ReadProtocol, ListFiles,
        Download, Launch, Done, vars, hub

---------------------------------------------------------------------------
\* What a run has listed it was shown, and what it has, or lacks, it was shown
\* so: the history of each name listed includes what the hub has now.
GivenTo(c) ==
    /\ \A f \in File :
        /\ shown[c][f] # {} => files[on[c]][f] \in shown[c][f]
        /\ f \in todo[c] => shown[c][f] # {} /\ work[c][f] = None
        /\ work[c][f] # None => work[c][f] \in shown[c][f]
        /\ at[c] \in {"download", "launched"} /\ work[c][f] = None =>
              f \in todo[c] \/ shown[c][f] = {} \/ None \in shown[c][f] \/ c \in failed
    /\ at[c] \notin {"download", "launched"} =>
          todo[c] = {} /\ \A f \in File : shown[c][f] = {} /\ work[c][f] = None
    /\ at[c] = "launched" => todo[c] = {}

GivenInv == \A c \in Cmd : GivenTo(c)

\* Steps of others that leave the files alone.
LEMMA OthersKeep ==
    ASSUME GivenInv, NEW d \in Cmd, UNCHANGED files, failed \subseteq failed',
           at'[d] = at[d], on'[d] = on[d],
           shown'[d] = shown[d], todo'[d] = todo[d], work'[d] = work[d]
    PROVE  GivenTo(d)'
<1>1. GivenTo(d)
    BY DEF GivenInv
<1>2. \A f \in File : files'[on'[d]][f] = files[on[d]][f]
    OBVIOUS
<1> HIDE DEF GivenInv
<1> QED
    BY <1>1, <1>2 DEF GivenTo

\* Steps before an invocation has listed anything.
LEMMA BeforeListing ==
    ASSUME GivenInv, NEW d \in Cmd,
           at[d] \notin {"download", "launched"}, at'[d] \notin {"download", "launched"},
           shown'[d] = shown[d], todo'[d] = todo[d], work'[d] = work[d]
    PROVE  GivenTo(d)'
BY DEF GivenInv, GivenTo

\* A step that shows launches what the files become.
LEMMA ShowKeeps ==
    ASSUME TypeOK, GivenInv, NEW d \in Cmd, NEW new, Show(new),
           UNCHANGED <<on, todo, work>>, failed \subseteq failed',
           at'[d] # at[d] => /\ at[d] \notin {"download", "launched"}
                             /\ at'[d] \notin {"download", "launched"}
    PROVE  GivenTo(d)'
<1>1. \A f \in File : shown'[d][f] = {} <=> shown[d][f] = {}
    BY DEF Show
<1>2. \A f \in File : shown[d][f] \subseteq shown'[d][f]
    BY DEF Show
<1>3. \A f \in File : shown'[d][f] # {} => files'[on'[d]][f] \in shown'[d][f]
    BY DEF Show
<1>4. GivenTo(d)
    BY DEF GivenInv
<1>5. todo' = todo /\ work' = work
    OBVIOUS
<1>6. \A f \in File : f \in todo'[d] => shown'[d][f] # {} /\ work'[d][f] = None
    BY <1>1, <1>4, <1>5 DEF GivenTo
<1>7. \A f \in File : work'[d][f] # None => work'[d][f] \in shown'[d][f]
    BY <1>2, <1>4, <1>5 DEF GivenTo
<1>8. ASSUME NEW f \in File, at'[d] \in {"download", "launched"}, work'[d][f] = None
      PROVE  f \in todo'[d] \/ shown'[d][f] = {} \/ None \in shown'[d][f] \/ d \in failed'
    BY <1>1, <1>2, <1>4, <1>5, <1>8 DEF GivenTo
<1>9. at'[d] \notin {"download", "launched"} =>
          todo'[d] = {} /\ \A f \in File : shown'[d][f] = {} /\ work'[d][f] = None
    BY <1>1, <1>4, <1>5 DEF GivenTo
<1>10. at'[d] = "launched" => todo'[d] = {}
    BY <1>4, <1>5 DEF GivenTo
<1> QED
    BY <1>3, <1>6, <1>7, <1>8, <1>9, <1>10 DEF GivenTo

LEMMA GivenStep == TypeOK /\ GivenInv /\ [Next]_vars => GivenInv'
<1> SUFFICES ASSUME TypeOK, GivenInv, [Next]_vars, NEW d \in Cmd PROVE GivenTo(d)'
    BY DEF GivenInv
<1> USE ProjectsAssumption
<1>t. at \in [Cmd -> Step]
    BY DEF TypeOK, Invocations
<1>1. ASSUME NEW c \in Cmd, Delete(c) \/ Upload(c) \/ Remove(c) PROVE GivenTo(d)'
    <2>1. PICK new : Show(new)
        BY <1>1 DEF Delete, Upload, Remove
    <2>2. at'[d] # at[d] => /\ at[d] \notin {"download", "launched"}
                            /\ at'[d] \notin {"download", "launched"}
        BY <1>1, <1>t DEF Delete, Upload, Remove, At, Goto
    <2>3. UNCHANGED <<on, todo, work, failed>>
        BY <1>1 DEF Delete, Upload, Remove, Succeeds
    <2> QED
        BY <2>1, <2>2, <2>3, ShowKeeps
<1>2. ASSUME NEW c \in Cmd, ListFiles(c) PROVE GivenTo(d)'
    <2>1. UNCHANGED <<files, on, work>> /\ failed \subseteq failed' /\ at[c] = "list"
        BY <1>2 DEF ListFiles, At, hub, Succeeds, Fails
    <2>2. CASE d # c
        <3>1. at'[d] = at[d] /\ todo'[d] = todo[d] /\ shown'[d] = shown[d]
            BY <1>2, <1>t, <2>2 DEF ListFiles, Goto, TypeOK, Trees
        <3> QED
            BY <2>1, <3>1, OthersKeep
    <2>3. CASE d = c
        <3>1. at'[c] = "download"
            BY <1>2, <1>t DEF ListFiles, Goto
        <3>2. todo[c] = {} /\ \A f \in File : shown[c][f] = {} /\ work[c][f] = None
            BY <2>1 DEF GivenInv, GivenTo
        <3>3. CASE c \in failed' /\ UNCHANGED <<todo, shown>>
            BY <2>1, <2>3, <3>1, <3>2, <3>3 DEF GivenTo
        <3>4. CASE \A f \in File :
                /\ f \in todo'[c] <=> files[on[c]][f] # None
                /\ shown'[c][f] = IF files[on[c]][f] # None THEN {files[on[c]][f]} ELSE {}
            BY <2>1, <2>3, <3>1, <3>2, <3>4 DEF GivenTo
        <3> DEFINE names == {f \in File : files[on[c]][f] # None}
                   there == [f \in File |-> IF f \in names THEN {files[on[c]][f]} ELSE {}]
        <3>5. ASSUME todo' = [todo EXCEPT ![c] = names], shown' = [shown EXCEPT ![c] = there]
              PROVE  GivenTo(d)'
            <4>1. todo'[c] = names /\ shown'[c] = there
                BY <3>5 DEF TypeOK, Trees
            <4>2. \A f \in File : f \in todo'[c] <=> files[on[c]][f] # None
                BY <4>1
            <4> QED
                BY <3>4, <4>1, <4>2
        <3> QED
            BY <1>2, <3>3, <3>5 DEF ListFiles, Fails
    <2> QED
        BY <2>2, <2>3
<1>3. ASSUME NEW c \in Cmd, Download(c) PROVE GivenTo(d)'
    <2>1. UNCHANGED <<at, files, on, shown>> /\ failed \subseteq failed' /\ at[c] = "download"
        BY <1>3 DEF Download, At, hub, history, Succeeds, Fails
    <2>2. PICK f \in todo[c] :
            /\ todo' = [todo EXCEPT ![c] = @ \ {f}]
            /\ \/ files[on[c]][f] # None /\ work' = [work EXCEPT ![c][f] = files[on[c]][f]]
               \/ work' = work /\ (files[on[c]][f] = None \/ c \in failed')
        BY <1>3 DEF Download, Fails
    <2>3. f \in File /\ todo'[c] = todo[c] \ {f} /\ (d # c => todo'[d] = todo[d])
        BY <2>2 DEF TypeOK, Trees
    <2>4. CASE d # c
        <3>1. work'[d] = work[d]
            BY <2>2, <2>4 DEF TypeOK, Trees
        <3> QED
            BY <2>1, <2>3, <2>4, <3>1, OthersKeep
    <2>5. CASE d = c
        <3>1. GivenTo(c)
            BY DEF GivenInv
        <3>2. files[on[c]][f] \in shown[c][f]
            BY <2>2, <2>3, <3>1 DEF GivenTo
        <3>3. CASE files[on[c]][f] # None /\ work' = [work EXCEPT ![c][f] = files[on[c]][f]]
            <4>1. \A g \in File : work'[c][g] = IF g = f THEN files[on[c]][f] ELSE work[c][g]
                BY <3>3, <2>3 DEF TypeOK, Trees
            <4> QED
                BY <2>1, <2>3, <2>5, <3>1, <3>2, <3>3, <4>1 DEF GivenTo
        <3>4. CASE work' = work /\ (files[on[c]][f] = None \/ c \in failed')
            BY <2>1, <2>3, <2>5, <3>1, <3>2, <3>4 DEF GivenTo
        <3> QED
            BY <2>2, <3>3, <3>4
    <2> QED
        BY <2>4, <2>5
<1>4. ASSUME NEW c \in Cmd, Launch(c) PROVE GivenTo(d)'
    <2>1. UNCHANGED <<files, on, shown, todo, work, failed>> /\ at[c] = "download" /\ todo[c] = {}
        BY <1>4 DEF Launch, At, hub, history
    <2>2. d # c => at'[d] = at[d]
        BY <1>4, <1>t DEF Launch, Goto
    <2>3. at'[c] = "launched"
        BY <1>4, <1>t DEF Launch, Goto
    <2> QED
        BY <2>1, <2>2, <2>3, OthersKeep DEF GivenInv, GivenTo
<1>5. ASSUME NEW c \in Cmd,
             Resolve(c) \/ Create(c) \/ Fetch(c) \/ Save(c) \/ GivesUp(c) \/ ReadProtocol(c)
      PROVE GivenTo(d)'
    <2>1. UNCHANGED <<files, shown, todo, work>> /\ failed \subseteq failed'
        BY <1>5 DEF Resolve, Create, Fetch, Save, GivesUp, ReadProtocol, Succeeds, Fails, hub, history
    <2>2. /\ at[c] \notin {"download", "launched"}
          /\ at'[c] \notin {"download", "launched"}
        <3>1. Resolve(c) => After[Doing(c)] \notin {"download", "launched"}
            BY DEF After, Kind, Doing, Resolve, TypeOK, Invocations
        <3> QED
            BY <1>5, <1>t, <3>1 DEF Resolve, Create, Fetch, Save, GivesUp, ReadProtocol, At, Goto
    <2>3. d # c => at'[d] = at[d] /\ on'[d] = on[d]
        BY <1>5, <1>t DEF Resolve, Create, Fetch, Save, GivesUp, ReadProtocol, Goto, TypeOK, Invocations
    <2> QED
        BY <2>1, <2>2, <2>3, OthersKeep, BeforeListing
<1>6. ASSUME UNCHANGED vars PROVE GivenTo(d)'
    BY <1>6, OthersKeep DEF vars, hub, history
<1> QED
    BY <1>1, <1>2, <1>3, <1>4, <1>5, <1>6 DEF Next, Owner, Run, Done

\* A run launches its agents with what the hub had since it listed the files.
THEOREM RunsAreGiven == Spec => []GivenWhatWasThere
<1>1. Init => GivenInv
    BY DEF Init, GivenInv, GivenTo, Nothing
<1>2. GivenInv => GivenWhatWasThere
    BY DEF GivenInv, GivenTo, GivenWhatWasThere
<1> QED
    BY <1>1, <1>2, TypeCorrect, GivenStep, PTL DEF Spec

---------------------------------------------------------------------------
\* A protocol, and the text of an editor, holds changes of its own project; an
\* editor has what it asked for, unless a call failed, it replaces the text
\* from a file or the project has gone.
TextOwn == \A p \in Id, x \in Cmd : x \in text[p] => on[x] = p

BaseOwn == \A c, x \in Cmd : x \in base[c] => on[c] \in Id /\ on[x] = on[c]

Opened(c) ==
    at[c] = "save" => \/ Doing(c) = "replace" \/ c \in failed \/ slug[on[c]] = None
                      \/ read[c] \subseteq base[c]

TextInv == TextOwn /\ BaseOwn /\ \A c \in Cmd : Opened(c)

LEMMA TextOwnStep == TypeOK /\ TextInv /\ [Next]_vars => TextOwn'
<1> SUFFICES ASSUME TypeOK, TextInv, [Next]_vars,
                    NEW p \in Id, NEW x \in Cmd, x \in text'[p]
             PROVE  on'[x] = p
    BY DEF TextOwn
<1> USE ProjectsAssumption
<1>1. on[x] = p => on'[x] = p
    BY ProjectsKept
<1>2. CASE text' = text
    BY <1>1, <1>2 DEF TextInv, TextOwn
<1>3. ASSUME NEW c \in Cmd, Save(c) PROVE on'[x] = p
    <2>1. on[c] \in Id
        BY <1>3 DEF Save, TypeOK, Invocations, At
    <2>2. x \in text[p] \/ (p = on[c] /\ x \in base[c] \cup {c})
        BY <1>3, <2>1 DEF Save, TypeOK, Texts
    <2> QED
        BY <1>1, <2>1, <2>2 DEF TextInv, TextOwn, BaseOwn
<1> QED
    BY <1>2, <1>3
    DEF Next, Owner, Run, Done, vars, hub, Resolve, Create, Delete, Fetch, Upload, Remove,
        GivesUp, ReadProtocol, ListFiles, Download, Launch

LEMMA BaseOwnStep == TypeOK /\ TextInv /\ [Next]_vars => BaseOwn'
<1> SUFFICES ASSUME TypeOK, TextInv, [Next]_vars,
                    NEW c \in Cmd, NEW x \in Cmd, x \in base'[c]
             PROVE  on'[c] \in Id /\ on'[x] = on'[c]
    BY DEF BaseOwn
<1> USE ProjectsAssumption
<1>1. on[c] \in Id /\ on[x] = on[c] => on'[c] \in Id /\ on'[x] = on'[c]
    BY ProjectsKept
<1>2. CASE x \in base[c]
    BY <1>1, <1>2 DEF TextInv, BaseOwn
<1>3. ASSUME NEW d \in Cmd, Fetch(d) \/ ReadProtocol(d)
      PROVE  on'[c] \in Id /\ on'[x] = on'[c]
    <2>1. on[d] \in Id
        BY <1>3 DEF Fetch, ReadProtocol, TypeOK, Invocations, At
    <2>2. x \in base[c] \/ (d = c /\ x \in text[on[d]])
        BY <1>3 DEF Fetch, ReadProtocol, TypeOK, Texts
    <2> QED
        BY <1>1, <1>2, <2>1, <2>2 DEF TextInv, TextOwn
<1> QED
    BY <1>2, <1>3
    DEF Next, Owner, Run, Done, vars, Resolve, Create, Delete, Save, Upload, Remove,
        GivesUp, ListFiles, Download, Launch

LEMMA OpenedStep ==
    ASSUME TypeOK, TextInv, [Next]_vars, NEW c \in Cmd PROVE Opened(c)'
<1> USE ProjectsAssumption
<1> SUFFICES ASSUME at'[c] = "save"
             PROVE  \/ Doing(c) = "replace" \/ c \in failed' \/ slug'[on'[c]] = None
                    \/ read'[c] \subseteq base'[c]
    BY DEF Opened, Doing, Next, Owner, Run, Done, vars, Resolve, Create, Delete, Fetch, Save, Upload,
           Remove, GivesUp, ReadProtocol, ListFiles, Download, Launch
<1>t. at \in [Cmd -> Step] /\ failed \subseteq failed'
    BY DEF TypeOK, Invocations, Succeeds, Fails, Next, Owner, Run, Done, vars, Resolve, Create,
           Delete, Fetch, Save, Upload, Remove, GivesUp, ReadProtocol, ListFiles, Download, Launch
<1>1. CASE at[c] = "save" /\ read'[c] = read[c] /\ base'[c] = base[c]
    <2>1. on[c] # None
        BY <1>1 DEF TypeOK, Invocations
    <2>2. Opened(c)
        BY DEF TextInv
    <2> QED
        BY <1>1, <1>t, <2>1, <2>2, ProjectsKept DEF Opened
<1>2. ASSUME NEW d \in Cmd, Fetch(d), ~(at[c] = "save" /\ read'[c] = read[c] /\ base'[c] = base[c])
      PROVE  c \in failed' \/ slug'[on'[c]] = None \/ read'[c] \subseteq base'[c]
    <2>1. c = d /\ on[c] \in Id
        BY <1>2, <1>t DEF Fetch, At, Goto, TypeOK, Texts, Invocations
    <2>2. read'[c] = text[on[c]]
        BY <1>2, <2>1 DEF Fetch, TypeOK, Texts
    <2>3. c \in failed' \/ base'[c] = IF slug[on[c]] # None THEN text[on[c]] ELSE {}
        BY <1>2, <2>1 DEF Fetch, Fails, Live, TypeOK, Texts
    <2>4. UNCHANGED <<on, slug>>
        BY <1>2 DEF Fetch, hub
    <2> QED
        BY <2>2, <2>3, <2>4
<1>3. ASSUME NEW d \in Cmd, Resolve(d), at[c] # "save" PROVE Doing(c) = "replace"
    <2>1. c = d /\ at'[c] \in {"ended", After[Doing(c)]}
        BY <1>3, <1>t DEF Resolve, At, Goto
    <2> QED
        BY <1>3, <2>1 DEF Resolve, After, Kind, Doing, TypeOK, Invocations
<1>4. ASSUME NEW d \in Cmd, Resolve(d) PROVE read'[c] = read[c] /\ base'[c] = base[c]
    BY <1>4 DEF Resolve, history
<1>5. ASSUME NEW d \in Cmd, ReadProtocol(d)
      PROVE  at[c] = "save" /\ read'[c] = read[c] /\ base'[c] = base[c]
    <2>1. c # d
        BY <1>5, <1>t DEF ReadProtocol, Goto
    <2> QED
        BY <1>5, <1>t, <2>1 DEF ReadProtocol, Goto, history, TypeOK, Texts
<1>6. ASSUME NEW d \in Cmd,
             Create(d) \/ Delete(d) \/ Save(d) \/ Upload(d) \/ Remove(d) \/ GivesUp(d)
                \/ ListFiles(d) \/ Download(d) \/ Launch(d)
      PROVE  at[c] = "save" /\ read'[c] = read[c] /\ base'[c] = base[c]
    BY <1>6, <1>t DEF Create, Delete, Save, Upload, Remove, GivesUp, ListFiles, Download, Launch,
                      Goto, At, history
<1>7. ASSUME UNCHANGED vars PROVE at[c] = "save" /\ read'[c] = read[c] /\ base'[c] = base[c]
    BY <1>7 DEF vars, history
<1> QED
    BY <1>1, <1>2, <1>3, <1>4, <1>5, <1>6, <1>7 DEF Next, Owner, Run, Done

LEMMA TextStep == TypeOK /\ TextInv /\ [Next]_vars => TextInv'
    BY TextOwnStep, BaseOwnStep, OpenedStep DEF TextInv

\* A change is undone by an overlapping, blind or wholesale edit only, and
\* stays in its project.
THEOREM EditsAreKept == Spec => EditsKept
<1> USE ProjectsAssumption
<1>1. Init => TextInv
    BY DEF Init, TextInv, TextOwn, BaseOwn, Opened, Change
<1>2. ASSUME TypeOK, TextInv, TextInv', [Next]_vars
      PROVE [\A p \in Id :
        /\ \A x \in text[p] \ text'[p] :
            \E c \in Cmd : /\ at[c] = "save" /\ at'[c] = "ended" /\ on[c] = p
                           /\ Doing(c) = "replace" \/ c \in failed \/ x \notin read[c]
        /\ \A x \in text'[p] \ {First} : on[x] = p]_vars
    <2>1. ASSUME NEW c \in Cmd, Save(c), NEW p \in Id
          PROVE  \A x \in text[p] \ text'[p] :
                    /\ at[c] = "save" /\ at'[c] = "ended" /\ on[c] = p
                    /\ Doing(c) = "replace" \/ c \in failed \/ x \notin read[c]
        <3>1. at[c] = "save" /\ at'[c] = "ended" /\ on[c] \in Id
            BY <1>2, <2>1 DEF Save, At, Goto, TypeOK, Invocations
        <3>2. CASE slug[on[c]] = None
            BY <2>1, <3>2 DEF Save, Live
        <3>3. CASE slug[on[c]] # None
            <4>1. text' = [text EXCEPT ![on[c]] = base[c] \cup {c}]
                BY <2>1, <3>3 DEF Save, Live
            <4>2. \A x \in text[p] \ text'[p] : on[c] = p /\ x \notin base[c]
                BY <1>2, <3>1, <4>1 DEF TypeOK, Texts
            <4> QED
                BY <1>2, <3>1, <3>3, <4>2 DEF TextInv, Opened
        <3> QED
            BY <3>2, <3>3
    <2>2. ASSUME NEW p \in Id, NEW x \in text'[p] \ {First}, text' = text \/ on' = on
          PROVE  on[x] = p
        <3>1. text'[p] \in SUBSET Change
            BY <1>2, TypeStep DEF TypeOK, Texts
        <3> QED
            BY <1>2, <2>2, <3>1 DEF TextInv, TextOwn, TypeOK, Texts, Change
    <2>3. (\E c \in Cmd : Save(c) /\ on' = on) \/ text' = text
        BY <1>2
        DEF Next, Owner, Run, Done, vars, hub, Resolve, Create, Delete, Fetch, Save, Upload, Remove,
            GivesUp, ReadProtocol, ListFiles, Download, Launch
    <2> QED
        BY <2>1, <2>2, <2>3
<1> QED
    BY <1>1, <1>2, TypeCorrect, TextStep, PTL DEF Spec, EditsKept
=============================================================================
