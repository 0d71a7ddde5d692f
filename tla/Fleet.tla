------------------------------- MODULE Fleet --------------------------------
(***************************************************************************)
(* The command-line client as a set of processes that share a machine:     *)
(* `agent run', `agent stop', `reset', `up' and `down', invoked at any     *)
(* time and more than one at once.  Nothing locks the files they share:    *)
(* the credentials <project>_agent_<n>.toml, and in the working directory  *)
(* of each number the configuration and agent.pid.                         *)
(*                                                                         *)
(* One project.  An agent is known by the order in which the hub           *)
(* registered it; the process group spawned for it by the same number, so  *)
(* the reuse of process identifiers is left out, and so are the operator's *)
(* session (auth.toml) and what the agents themselves do.                  *)
(***************************************************************************)
EXTENDS Integers, FiniteSets

CONSTANTS
    Cmd,          \* invocations of the client
    MaxNumber,    \* bound: agent numbers
    MaxAgents,    \* bound: registrations
    Scripts,      \* bound: what is invoked: a set of [Cmd -> command]
    MaxFailures   \* bound: calls that fail, processes killed

Number == 1..MaxNumber
Agent  == 1..MaxAgents
Nil    == 0

\* `size' is the agents a run launches or the one number a stop names (0: all).
Command == [kind : {"run", "stop", "reset", "up", "down"}, size : 0..MaxNumber]

ASSUME FleetAssumption ==
    /\ MaxNumber \in Nat /\ MaxAgents \in Nat /\ MaxFailures \in Nat
    /\ Scripts \subseteq [Cmd -> Command]

VARIABLES
    script,    \* [Cmd -> Command]
    hub,       \* {"down", "starting", "up"}
    at,        \* [Cmd -> the next step of the invocation]
    todo,      \* [Cmd -> SUBSET Number]: the directory as it was listed
    hand,      \* [Cmd -> Nil or the number or agent the step is about]
    mine,      \* [Cmd -> SUBSET Agent]: registered by the run
    creds,     \* [Number -> Agent or Nil]: the credentials file
    config,    \* [Number -> Agent or Nil]: .agent_config
    pidFile,   \* [Number -> Agent or Nil]: agent.pid
    logs,      \* BOOLEAN: there are log files
    number,    \* [Agent -> Number or Nil]
    place,     \* [Agent -> how far it is]
    failures,  \* bound
    shared,    \* history: numbers picked twice, or whose file a reset deleted
    unnamed,   \* history: agents whose pid was never written
    listed     \* history: [Cmd -> agents the files named when a stop began]

files == <<creds, config, pidFile, logs>>
agents == <<number, place>>
history == <<shared, unnamed, listed>>
fleetVars == <<script, hub, at, todo, hand, mine, files, agents, failures, history>>

FleetInit ==
    /\ script \in Scripts
    /\ hub \in {"down", "up"}
    /\ at = [c \in Cmd |-> "idle"]
    /\ todo = [c \in Cmd |-> {}] /\ hand = [c \in Cmd |-> Nil] /\ mine = [c \in Cmd |-> {}]
    /\ creds = [n \in Number |-> Nil] /\ config = creds /\ pidFile = creds /\ logs = FALSE
    /\ number = [a \in Agent |-> Nil] /\ place = [a \in Agent |-> "unknown"]
    /\ failures = 0
    /\ shared = {} /\ unnamed = {} /\ listed = [c \in Cmd |-> {}]

Size(c) == script[c].size
Known == {a \in Agent : place[a] # "unknown"}

\* The invocation c is at step s and goes on to t.
Step(c, s, t) == at[c] = s /\ at' = [at EXCEPT ![c] = t]
Begins(c, kind, t) == script[c].kind = kind /\ Step(c, "idle", t)
\* A call, a file or a process fails.
Fails == failures < MaxFailures /\ failures' = failures + 1
\* The run exits, leaving what it has done.
GivesUp(c, s) ==
    /\ Step(c, s, "ended") /\ Fails
    /\ UNCHANGED <<script, hub, todo, hand, mine, files, agents, history>>

-----------------------------------------------------------------------------
(* asenix agent run                                                        *)

\* The checks that come first: the hub, the project, claude, the protocol,
\* the requirements and their installation.
Preflight(c) ==
    /\ Begins(c, "run", IF hub = "up" THEN "number" ELSE "ended")
    /\ UNCHANGED <<script, hub, todo, hand, mine, files, agents, failures, history>>

Missing(file) == {n \in Number : file[n] = Nil}
\* Mutant: the number is the first with no pid file.
NextUnlaunched(n) == n \in Missing(pidFile) /\ \A k \in Missing(pidFile) : n <= k
\* next_agent_n_for_domain: the first number with no credentials file.
NextNumber(n) == n \in Missing(creds) /\ \A k \in Missing(creds) : n <= k

PickNumber(c) ==
    /\ Step(c, "number", "register")
    /\ \E n \in Number :
        /\ NextNumber(n)
        /\ hand' = [hand EXCEPT ![c] = n]
        /\ shared' = IF \E d \in Cmd \ {c} : at[d] \in {"register", "save"} /\
                                     (IF at[d] = "save" THEN number[hand[d]] ELSE hand[d]) = n
                     THEN shared \cup {n} ELSE shared
    /\ UNCHANGED <<script, hub, todo, mine, files, agents, failures, unnamed, listed>>

\* The hub answers with a new agent.
Register(c) ==
    /\ hub = "up" /\ Step(c, "register", "save")
    /\ LET a == Cardinality(Known) + 1
       IN  /\ a \in Agent
           /\ number' = [number EXCEPT ![a] = hand[c]]
           /\ place' = [place EXCEPT ![a] = "registered"]
           /\ hand' = [hand EXCEPT ![c] = a]
           /\ mine' = [mine EXCEPT ![c] = @ \cup {a}]
    /\ UNCHANGED <<script, hub, todo, files, failures, history>>

\* save_agent_cred_for_domain writes whatever is there.
Save(c) ==
    /\ Step(c, "save", IF Cardinality(mine[c]) = 1 THEN "seed" ELSE "more")
    /\ creds' = [creds EXCEPT ![number[hand[c]]] = hand[c]]
    /\ place' = [place EXCEPT ![hand[c]] = "saved"]
    /\ UNCHANGED <<script, hub, todo, hand, mine, config, pidFile, logs, number, failures, history>>

\* After the first agent: the seed bounty is posted (the count of atoms is
\* always 0), with whatever comes of it; the operator may stop at a failure.
Seed(c) ==
    /\ Step(c, "seed", "more")
    /\ UNCHANGED <<script, hub, todo, hand, mine, files, agents, failures, history>>

More(c) ==
    /\ Step(c, "more", IF Cardinality(mine[c]) < Size(c) THEN "number" ELSE "launch")
    /\ hand' = [hand EXCEPT ![c] = Nil]
    /\ UNCHANGED <<script, hub, todo, mine, files, agents, failures, history>>

Waiting(c) == {a \in mine[c] : place[a] = "saved"}

\* The working directory of the next agent: project files, configuration.
Prepare(c) ==
    /\ Step(c, "launch", "spawn")
    /\ \E a \in Waiting(c) :
        /\ \A b \in Waiting(c) : a <= b
        /\ hand' = [hand EXCEPT ![c] = a]
        /\ config' = [config EXCEPT ![number[a]] = a]
    /\ UNCHANGED <<script, hub, todo, mine, creds, pidFile, logs, agents, failures, history>>

\* One agent runs in the foreground and has no pid file.
SpawnForeground(c) ==
    /\ Size(c) = 1 /\ Step(c, "spawn", "wait")
    /\ logs' = TRUE /\ place' = [place EXCEPT ![hand[c]] = "foreground"]
    /\ UNCHANGED <<script, hub, todo, hand, mine, creds, config, pidFile, number, failures, history>>

SpawnBackground(c) ==
    /\ Size(c) > 1 /\ Step(c, "spawn", "pid")
    /\ logs' = TRUE /\ place' = [place EXCEPT ![hand[c]] = "running"]
    /\ UNCHANGED <<script, hub, todo, hand, mine, creds, config, pidFile, number, failures, history>>

Onward(c) == IF Waiting(c) \ {hand[c]} = {} THEN "summary" ELSE "launch"

\* claude cannot be launched: the run goes on with the next agent, or ends
\* when it has but one.
SpawnFails(c) ==
    /\ Step(c, "spawn", IF Size(c) = 1 THEN "ended" ELSE Onward(c)) /\ Fails
    /\ logs' = TRUE /\ place' = [place EXCEPT ![hand[c]] = "over"]
    /\ UNCHANGED <<script, hub, todo, hand, mine, creds, config, pidFile, number, history>>

\* The result of the write is dropped.
WritePid(c) ==
    /\ Step(c, "pid", Onward(c))
    /\ \/ /\ pidFile' = [pidFile EXCEPT ![number[hand[c]]] = hand[c]]
          /\ UNCHANGED <<failures, unnamed>>
       \/ Fails /\ unnamed' = unnamed \cup {hand[c]} /\ UNCHANGED pidFile
    /\ UNCHANGED <<script, hub, todo, hand, mine, creds, config, logs, agents, shared, listed>>

\* The table of what was launched, two seconds later.
Summary(c) ==
    /\ Step(c, "summary", "ended")
    /\ UNCHANGED <<script, hub, todo, hand, mine, files, agents, failures, history>>

\* The foreground agent ends, and the run with it.
Waited(c) ==
    /\ Step(c, "wait", "ended") /\ place[hand[c]] = "over"
    /\ UNCHANGED <<script, hub, todo, hand, mine, files, agents, failures, history>>

-----------------------------------------------------------------------------
(* asenix agent stop                                                       *)

Named(c) == {n \in Number : pidFile[n] # Nil /\ Size(c) \in {Nil, n}}

\* collect_pid_paths: the pid files there are now.
Collect(c) ==
    /\ Begins(c, "stop", IF Named(c) = {} THEN "ended" ELSE "read")
    /\ todo' = [todo EXCEPT ![c] = Named(c)]
    /\ listed' = [listed EXCEPT ![c] = {pidFile[n] : n \in Named(c)}]
    /\ UNCHANGED <<script, hub, hand, mine, files, agents, failures, shared, unnamed>>

Rest(c, n) == IF todo[c] = {n} THEN "ended" ELSE "read"

\* The file of one of them is read; one that has gone is passed over.
ReadPid(c) ==
    /\ at[c] = "read"
    /\ \E n \in todo[c] :
        IF pidFile[n] = Nil
        THEN /\ at' = [at EXCEPT ![c] = Rest(c, n)]
             /\ todo' = [todo EXCEPT ![c] = @ \ {n}]
             /\ UNCHANGED hand
        ELSE /\ at' = [at EXCEPT ![c] = "kill"]
             /\ hand' = [hand EXCEPT ![c] = pidFile[n]]
             /\ UNCHANGED todo
    /\ UNCHANGED <<script, hub, mine, files, agents, failures, history>>

\* SIGTERM to the process group that was read, if there still is one.
Kill(c) ==
    /\ Step(c, "kill", "remove")
    /\ place' = IF place[hand[c]] = "running" THEN [place EXCEPT ![hand[c]] = "over"] ELSE place
    /\ UNCHANGED <<script, hub, todo, hand, mine, files, number, failures, history>>

\* Mutant: every pid file of the list goes at once, and the stop ends.
RemoveAll(c) ==
    /\ Step(c, "remove", "ended")
    /\ pidFile' = [n \in Number |-> IF n \in todo[c] THEN Nil ELSE pidFile[n]]
    /\ todo' = [todo EXCEPT ![c] = {}]
    /\ UNCHANGED <<script, hub, hand, mine, creds, config, logs, agents, failures, history>>

\* The file is removed, whatever came of the signal.
RemovePid(c) ==
    /\ Step(c, "remove", Rest(c, number[hand[c]]))
    /\ pidFile' = [pidFile EXCEPT ![number[hand[c]]] = Nil]
    /\ todo' = [todo EXCEPT ![c] = @ \ {number[hand[c]]}]
    /\ UNCHANGED <<script, hub, hand, mine, creds, config, logs, agents, failures, history>>

-----------------------------------------------------------------------------
(* asenix reset, up and down                                               *)

Saved == {n \in Number : creds[n] # Nil}

\* The files are counted; without any, and without a token, there is nothing
\* to ask.  Whether there is a token is left open.
ResetAsk(c) ==
    /\ \E t \in {"answer"} \cup (IF Saved = {} /\ ~logs THEN {"ended"} ELSE {}) : Begins(c, "reset", t)
    /\ UNCHANGED <<script, hub, todo, hand, mine, files, agents, failures, history>>

\* The operator answers; the directory is listed after that.
ResetAnswered(c) ==
    /\ \/ Step(c, "answer", "ended") /\ UNCHANGED todo
       \/ Step(c, "answer", "delete") /\ todo' = [todo EXCEPT ![c] = Saved]
    /\ UNCHANGED <<script, hub, hand, mine, files, agents, failures, history>>

\* delete_host_data: the files of the listing one by one; one that another
\* reset deleted makes this one fail.
DeleteCred(c) ==
    /\ at[c] = "delete"
    /\ \E n \in todo[c] :
        IF creds[n] = Nil
        THEN at' = [at EXCEPT ![c] = "ended"] /\ UNCHANGED <<todo, creds, shared>>
        ELSE /\ creds' = [creds EXCEPT ![n] = Nil]
             /\ shared' = shared \cup {n}
             /\ todo' = [todo EXCEPT ![c] = @ \ {n}]
             /\ UNCHANGED at
    /\ UNCHANGED <<script, hub, hand, mine, config, pidFile, logs, agents, failures, unnamed, listed>>

\* The working directories, their pid files and the agents stay.
DeleteLogs(c) ==
    /\ todo[c] = {} /\ Step(c, "delete", "ended")
    /\ logs' = FALSE
    /\ UNCHANGED <<script, hub, todo, hand, mine, creds, config, pidFile, agents, failures, history>>

Up(c) ==
    /\ Begins(c, "up", "poll")
    /\ hub' = IF hub = "down" THEN "starting" ELSE hub
    /\ UNCHANGED <<script, todo, hand, mine, files, agents, failures, history>>

\* The hub answers within 30 seconds, or the invocation ends without it.
Poll(c) ==
    /\ Step(c, "poll", "ended")
    /\ UNCHANGED <<script, hub, todo, hand, mine, files, agents, failures, history>>

HubReady ==
    /\ hub = "starting" /\ hub' = "up"
    /\ UNCHANGED <<script, at, todo, hand, mine, files, agents, failures, history>>

Down(c) ==
    /\ Begins(c, "down", "ended")
    /\ hub' = "down"
    /\ UNCHANGED <<script, todo, hand, mine, files, agents, failures, history>>

-----------------------------------------------------------------------------
\* A call or a write fails and the run exits; at "seed" so does the operator.
RunFails(c) == \E s \in {"number", "register", "save", "seed", "launch", "spawn"} : GivesUp(c, s)
\* The hub is gone when the run registers an agent.
NoHub(c) ==
    /\ hub # "up" /\ Step(c, "register", "ended")
    /\ UNCHANGED <<script, hub, todo, hand, mine, files, agents, failures, history>>

\* Ctrl+C: a foreground agent is killed with its run; background agents are
\* in groups of their own and stay.
Interrupt(c) ==
    /\ at[c] \notin {"idle", "ended"} /\ at' = [at EXCEPT ![c] = "ended"] /\ Fails
    /\ place' = IF at[c] = "wait" THEN [place EXCEPT ![hand[c]] = "over"] ELSE place
    /\ unnamed' = IF at[c] = "pid" THEN unnamed \cup {hand[c]} ELSE unnamed
    /\ UNCHANGED <<script, hub, todo, hand, mine, files, number, shared, listed>>

\* An agent ends by itself; nothing removes its pid file.
AgentEnds(a) ==
    /\ place[a] \in {"running", "foreground"}
    /\ place' = [place EXCEPT ![a] = "over"]
    /\ UNCHANGED <<script, hub, at, todo, hand, mine, files, number, failures, history>>

Done == (\A c \in Cmd : at[c] = "ended") /\ UNCHANGED fleetVars

Run(c) == \/ Preflight(c) \/ PickNumber(c) \/ Register(c) \/ Save(c) \/ Seed(c) \/ More(c)
          \/ Prepare(c) \/ SpawnForeground(c) \/ SpawnBackground(c) \/ SpawnFails(c)
          \/ WritePid(c) \/ Summary(c) \/ Waited(c) \/ RunFails(c) \/ NoHub(c)
Stop(c) == Collect(c) \/ ReadPid(c) \/ Kill(c) \/ RemovePid(c)
Reset(c) == ResetAsk(c) \/ ResetAnswered(c) \/ DeleteCred(c) \/ DeleteLogs(c)

FleetNext ==
    \/ \E c \in Cmd : Run(c) \/ Stop(c) \/ Reset(c) \/ Up(c) \/ Poll(c) \/ Down(c) \/ Interrupt(c)
    \/ \E a \in Agent : AgentEnds(a)
    \/ HubReady \/ Done

FleetSpec == FleetInit /\ [][FleetNext]_fleetVars

-----------------------------------------------------------------------------
\* The pid of a has been looked after: written, or given up.
Settled(a) == a \notin unnamed /\ \A c \in Cmd : ~(at[c] = "pid" /\ hand[c] = a)

\* Unless two runs picked one number at once or a reset freed it, the number
\* of an agent is its own: the credentials file of a number is that of the
\* agent registered under it, and the working directory and the pid file of
\* a background agent that runs are its own, so that it can be stopped.  Only
\* a pid that could not be written leaves one that cannot be.
OwnNumber ==
    \A a \in Known : number[a] \notin shared =>
        /\ place[a] # "registered" => creds[number[a]] = a
        /\ place[a] = "running" => config[number[a]] = a
        /\ place[a] = "running" /\ Settled(a) => pidFile[number[a]] = a

\* A stop that went to its end has stopped every agent the pid files named
\* when it began, whatever ran meanwhile, unless their number was shared.
StopStops ==
    \A c \in Cmd : script[c].kind = "stop" /\ at[c] = "ended" /\ todo[c] = {} =>
        \A a \in listed[c] : number[a] \in shared \/ place[a] = "over"
=============================================================================
