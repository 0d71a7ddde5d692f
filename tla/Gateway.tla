------------------------------ MODULE Gateway -------------------------------
(***************************************************************************)
(* The front of the hub: MCP sessions, the limit on authenticated          *)
(* requests, the event stream and the graceful shutdown, which ends only   *)
(* when every request in flight and every event stream has ended.          *)
(*                                                                         *)
(* A request goes through the steps between which another request, the     *)
(* session sweeper or a worker may run.  Refusals that change nothing (an  *)
(* unknown origin, a malformed body, an unknown method, an absent session, *)
(* another protocol version) are requests that are not made.               *)
(***************************************************************************)
EXTENDS Integers, FiniteSets, Sequences

CONSTANTS
    Session,      \* session ids; each is drawn once
    Conn,         \* connections: requests that may be in flight together
    Agent,        \* keys of a limiter: agents, or addresses for the limits by IP
    Max,          \* max_atoms_per_hour
    Window,       \* the limiter's hour, in ticks
    Ttl,          \* the idle time to live of a session, in ticks
    ChannelSize,  \* the channel to the embedding worker
    Buffer,       \* events a subscriber may fall behind
    Subscriber,
    Worker,       \* workers joined at shutdown, Embedder among them
    Embedder,
    None,         \* no session, no agent
    Menus,        \* bound: sets of what may happen together in one behaviour
    Horizon,      \* bound: the clock
    MaxEvents     \* bound: events broadcast

Kind == {"ping", "initialized", "call", "delete", "rpc"}

ASSUME GatewayAssumption ==
    /\ Max \in Nat /\ Window \in Nat \ {0} /\ Ttl \in Nat
    /\ ChannelSize \in Nat \ {0} /\ Buffer \in Nat \ {0}
    /\ IsFiniteSet(Worker) /\ Embedder \in Worker
    /\ Menus \subseteq SUBSET (Kind \cup {"initialize", "subscribe", "clock", "stop"})
    /\ None \notin Session \cup Agent
    /\ Horizon \in Nat /\ MaxEvents \in Nat

VARIABLES
    menu,         \* what clients, the clock and the operator do in this behaviour
    now,
    status,       \* [Session -> {"unused", "live", "removed"}]
    initialized,  \* [Session -> BOOLEAN]
    lastActive,   \* [Session -> 0..Horizon]
    job,          \* [Conn -> what the request is and how far it is]
    count,        \* [Agent -> Nat]: the limiter's entry, 0 when it has none
    start,        \* [Agent -> 0..Horizon]
    log,          \* history: [Agent -> Seq(0..Horizon)]: requests let through
    channel,      \* atoms waiting in the channel
    running,      \* workers whose task has not ended
    streaming,    \* subscribers with an open stream
    inbox,        \* [Subscriber -> Seq(EventKind)]: not yet read
    lagged,       \* [Subscriber -> BOOLEAN]: the buffer overran
    seen,         \* history: [Subscriber -> SUBSET EventKind]: sent to it
    sent,         \* events broadcast
    phase         \* "up", "joining", "draining", "down"

sessions == <<status, initialized, lastActive>>
limiter  == <<count, start, log>>
events   == <<inbox, lagged, seen, sent>>
vars == <<menu, now, sessions, job, limiter, channel, running, streaming, events, phase>>

EventKind == {"atom_published", "atom_retracted", "lifecycle_transition"}

\* The variants of TypedSseEvent; the data of the others has no type.
Typed == {"atom_published"}

Idle == [kind |-> "none", on |-> None, by |-> None, at |-> "idle"]

Init ==
    /\ menu \in Menus
    /\ now = 0
    /\ status = [s \in Session |-> "unused"]
    /\ initialized = [s \in Session |-> FALSE]
    /\ lastActive = [s \in Session |-> 0]
    /\ job = [c \in Conn |-> Idle]
    /\ count = [a \in Agent |-> 0]
    /\ start = [a \in Agent |-> 0]
    /\ log = [a \in Agent |-> <<>>]
    /\ channel = 0
    /\ running = Worker
    /\ streaming = {}
    /\ inbox = [u \in Subscriber |-> <<>>]
    /\ lagged = [u \in Subscriber |-> FALSE]
    /\ seen = [u \in Subscriber |-> {}]
    /\ sent = 0
    /\ phase = "up"

Accepting == phase \in {"up", "joining"}

At(c, kinds, step) == job[c].kind \in kinds /\ job[c].at = step

Goto(c, step) == job' = [job EXCEPT ![c].at = step]

Answer(c) == job' = [job EXCEPT ![c] = Idle]

(* Sessions *)

Initialize(s) ==
    /\ "initialize" \in menu /\ Accepting
    /\ status[s] = "unused"
    /\ status' = [status EXCEPT ![s] = "live"]
    /\ lastActive' = [lastActive EXCEPT ![s] = now]
    /\ UNCHANGED <<menu, now, initialized, job, limiter, channel, running, streaming, events, phase>>

\* The header's session is looked up before the method is dispatched.
Arrive(c) ==
    /\ job[c] = Idle /\ Accepting
    /\ \E k \in menu \cap (Kind \ {"rpc"}), s \in Session :
        /\ status[s] = "live"
        /\ job' = [job EXCEPT ![c] = [kind |-> k, on |-> s, by |-> None, at |-> "found"]]
    /\ UNCHANGED <<menu, now, sessions, limiter, channel, running, streaming, events, phase>>

\* The handler looks it up again and, for all but the notification, asks
\* that it be initialized.
Lookup(c) ==
    /\ At(c, {"ping", "initialized", "call"}, "found")
    /\ LET s == job[c].on IN
        IF status[s] = "live" /\ (job[c].kind = "initialized" \/ initialized[s])
        THEN Goto(c, "known") ELSE Answer(c)
    /\ UNCHANGED <<menu, now, sessions, limiter, channel, running, streaming, events, phase>>

Exists(c) ==
    /\ At(c, {"ping", "initialized", "call"}, "known")
    /\ IF status[job[c].on] = "live" THEN Goto(c, "exists")
       ELSE IF job[c].kind = "call" THEN Goto(c, "admitted") ELSE Answer(c)
    /\ UNCHANGED <<menu, now, sessions, limiter, channel, running, streaming, events, phase>>

MarkInitialized(c) ==
    /\ At(c, {"initialized"}, "exists")
    /\ LET s == job[c].on IN
        initialized' = [initialized EXCEPT ![s] = @ \/ status[s] = "live"]
    /\ Answer(c)
    /\ UNCHANGED <<menu, now, status, lastActive, limiter, channel, running, streaming, events, phase>>

\* Mutant: the second lock writes the session back instead of looking it up.
UpdateOrInsert(c) ==
    /\ At(c, {"ping", "call"}, "exists")
    /\ lastActive' = [lastActive EXCEPT ![job[c].on] = now]
    /\ status' = [status EXCEPT ![job[c].on] = "live"]
    /\ IF job[c].kind = "call" THEN Goto(c, "admitted") ELSE Answer(c)
    /\ UNCHANGED <<menu, now, initialized, limiter, channel, running, streaming, events, phase>>

UpdateActivity(c) ==
    /\ At(c, {"ping", "call"}, "exists")
    /\ LET s == job[c].on IN
        lastActive' = [lastActive EXCEPT ![s] = IF status[s] = "live" THEN now ELSE @]
    /\ IF job[c].kind = "call" THEN Goto(c, "admitted") ELSE Answer(c)
    /\ UNCHANGED <<menu, now, status, initialized, limiter, channel, running, streaming, events, phase>>

RemoveSession(c) ==
    /\ At(c, {"delete"}, "found")
    /\ status' = [status EXCEPT ![job[c].on] = "removed"]
    /\ Answer(c)
    /\ UNCHANGED <<menu, now, initialized, lastActive, limiter, channel, running, streaming, events, phase>>

Expired(s) == status[s] = "live" /\ now - lastActive[s] > Ttl

CleanupSessions ==
    /\ phase # "down"
    /\ \E s \in Session : Expired(s)
    /\ status' = [s \in Session |-> IF Expired(s) THEN "removed" ELSE status[s]]
    /\ UNCHANGED <<menu, now, initialized, lastActive, job, limiter, channel, running, streaming, events, phase>>

(* Requests of an agent: authentication, then the limiter, then the tool *)

ArriveRpc(c) ==
    /\ job[c] = Idle /\ Accepting /\ "rpc" \in menu
    /\ job' = [job EXCEPT ![c] = [kind |-> "rpc", on |-> None, by |-> None, at |-> "admitted"]]
    /\ UNCHANGED <<menu, now, sessions, limiter, channel, running, streaming, events, phase>>

\* The token (or the signature) is read from the database; when it is not
\* the agent's, or the read fails, the request ends here.
Authenticate(c) ==
    /\ job[c].at = "admitted"
    /\ \/ Answer(c)
       \/ \E a \in Agent : job' = [job EXCEPT ![c].by = a, ![c].at = "authenticated"]
    /\ UNCHANGED <<menu, now, sessions, limiter, channel, running, streaming, events, phase>>

Elapsed(a) == now - start[a] >= Window

\* Mutant: the comparison is off by one.
RefusedLate(a) == Max = 0 \/ (count[a] > 0 /\ ~Elapsed(a) /\ count[a] > Max)

Refused(a) == Max = 0 \/ (count[a] > 0 /\ ~Elapsed(a) /\ count[a] >= Max)

\* The tool is what the request asks for: publish, retract or another.
CheckRateLimit(c) ==
    /\ job[c].at = "authenticated"
    /\ LET a == job[c].by IN
        IF Refused(a) THEN Answer(c) /\ UNCHANGED limiter
        ELSE /\ IF count[a] = 0 \/ Elapsed(a)
                THEN count' = [count EXCEPT ![a] = 1] /\ start' = [start EXCEPT ![a] = now]
                ELSE count' = [count EXCEPT ![a] = @ + 1] /\ UNCHANGED start
             /\ log' = [log EXCEPT ![a] = Append(@, now)]
             /\ \E tool \in {"publish", "retract", "other"} : Goto(c, tool)
    /\ UNCHANGED <<menu, now, sessions, channel, running, streaming, events, phase>>

\* Each subscriber reads at its own pace from a ring: the oldest unread
\* event of one that is behind is overwritten.
Broadcast(e) ==
    /\ sent' = sent + 1
    /\ inbox' = [u \in Subscriber |->
        IF u \notin streaming THEN inbox[u]
        ELSE Append(IF Len(inbox[u]) = Buffer THEN Tail(inbox[u]) ELSE inbox[u], e)]
    /\ lagged' = [u \in Subscriber |->
        lagged[u] \/ (u \in streaming /\ Len(inbox[u]) = Buffer)]
    /\ UNCHANGED seen

\* A publication sends its atom to the embedding worker; it waits while the
\* channel is full and the worker is there to empty it.
Roomy == channel < ChannelSize

\* Mutant: the receiver outlives the worker's loop.
SendNeedsRoom(c) ==
    /\ job[c].at = "publish" /\ Roomy
    /\ channel' = channel + 1
    /\ Goto(c, "sent")
    /\ UNCHANGED <<menu, now, sessions, limiter, running, streaming, events, phase>>

Send(c) ==
    /\ job[c].at = "publish"
    /\ IF Embedder \in running THEN Roomy /\ channel' = channel + 1 ELSE UNCHANGED channel
    /\ Goto(c, "sent")
    /\ UNCHANGED <<menu, now, sessions, limiter, running, streaming, events, phase>>

AnswerPublish(c) ==
    /\ job[c].at = "sent" /\ sent < MaxEvents
    /\ Broadcast("atom_published")
    /\ Answer(c)
    /\ UNCHANGED <<menu, now, sessions, limiter, channel, running, streaming, phase>>

\* A retraction is answered without the embedding worker.
AnswerRetract(c) ==
    /\ job[c].at = "retract" /\ sent < MaxEvents
    /\ Broadcast("atom_retracted")
    /\ Answer(c)
    /\ UNCHANGED <<menu, now, sessions, limiter, channel, running, streaming, phase>>

\* Of the other tools the answer is all this module sees.  (Past MaxEvents,
\* nor is the event of a publication or a retraction seen.)
AnswerOther(c) ==
    /\ job[c].at = "other" \/ (job[c].at \in {"sent", "retract"} /\ sent = MaxEvents)
    /\ Answer(c)
    /\ UNCHANGED <<menu, now, sessions, limiter, channel, running, streaming, events, phase>>

(* The event stream *)

Subscribe(u) ==
    /\ "subscribe" \in menu /\ Accepting
    /\ u \notin streaming
    /\ streaming' = streaming \cup {u}
    /\ inbox' = [inbox EXCEPT ![u] = <<>>]
    /\ lagged' = [lagged EXCEPT ![u] = FALSE]
    /\ UNCHANGED <<menu, now, sessions, job, limiter, channel, running, seen, sent, phase>>

\* An event whose data does not parse is logged and dropped.
Deliver(u) ==
    /\ u \in streaming /\ inbox[u] # <<>>
    /\ inbox' = [inbox EXCEPT ![u] = Tail(@)]
    /\ seen' = [seen EXCEPT ![u] = @ \cup ({Head(inbox[u])} \cap Typed)]
    /\ UNCHANGED <<menu, now, sessions, job, limiter, channel, running, streaming, lagged, sent, phase>>

\* Only the client ends a stream: the channel closes with the state that the
\* server itself holds.
Leave(u) ==
    /\ u \in streaming
    /\ streaming' = streaming \ {u}
    /\ UNCHANGED <<menu, now, sessions, job, limiter, channel, running, events, phase>>

(* Workers and shutdown *)

Receive ==
    /\ Embedder \in running /\ channel > 0
    /\ channel' = channel - 1
    /\ UNCHANGED <<menu, now, sessions, job, limiter, running, streaming, events, phase>>

Transition ==
    /\ phase # "down" /\ running # {} /\ sent < MaxEvents
    /\ Broadcast("lifecycle_transition")
    /\ UNCHANGED <<menu, now, sessions, job, limiter, channel, running, streaming, phase>>

ShutdownSignal ==
    /\ "stop" \in menu /\ phase = "up"
    /\ phase' = "joining"
    /\ UNCHANGED <<menu, now, sessions, job, limiter, channel, running, streaming, events>>

\* The token is seen between two items; the channel goes with its receiver.
WorkerEnds(w) ==
    /\ w \in running /\ phase # "up" /\ phase # "down"
    /\ running' = running \ {w}
    /\ channel' = IF w = Embedder THEN 0 ELSE channel
    /\ UNCHANGED <<menu, now, sessions, job, limiter, streaming, events, phase>>

\* All have joined, or ten seconds have passed.
JoinEnds ==
    /\ phase = "joining"
    /\ phase' = "draining"
    /\ UNCHANGED <<menu, now, sessions, job, limiter, channel, running, streaming, events>>

Exit ==
    /\ phase = "draining"
    /\ streaming = {} /\ \A c \in Conn : job[c] = Idle
    /\ phase' = "down"
    /\ UNCHANGED <<menu, now, sessions, job, limiter, channel, running, streaming, events>>

Tick ==
    /\ "clock" \in menu /\ now < Horizon /\ phase # "down"
    /\ now' = now + 1
    /\ UNCHANGED <<menu, sessions, job, limiter, channel, running, streaming, events, phase>>

Handle(c) ==
    \/ Lookup(c) \/ Exists(c) \/ MarkInitialized(c) \/ UpdateActivity(c) \/ RemoveSession(c)
    \/ Authenticate(c) \/ CheckRateLimit(c)
    \/ Send(c) \/ AnswerPublish(c) \/ AnswerRetract(c) \/ AnswerOther(c)

Next ==
    \/ Tick \/ CleanupSessions
    \/ \E s \in Session : Initialize(s)
    \/ \E c \in Conn : Arrive(c) \/ ArriveRpc(c) \/ Handle(c)
    \/ \E u \in Subscriber : Subscribe(u) \/ Deliver(u) \/ Leave(u)
    \/ Receive \/ Transition
    \/ ShutdownSignal \/ JoinEnds \/ Exit
    \/ \E w \in Worker : WorkerEnds(w)

\* A request that was taken goes on, the embedding worker ends its item and
\* then sees the token, a stream is read, and the shutdown goes on.  The
\* other workers may take as long as they like, and no client has to ask or
\* to leave.
Fairness ==
    /\ \A c \in Conn : WF_vars(Handle(c))
    /\ \A u \in Subscriber : WF_vars(Deliver(u))
    /\ WF_vars(WorkerEnds(Embedder))
    /\ WF_vars(JoinEnds) /\ WF_vars(Exit)

Spec == Init /\ [][Next]_vars /\ Fairness
-----------------------------------------------------------------------------
Step == {"idle", "found", "known", "exists", "admitted", "authenticated", "publish",
         "retract", "other", "sent"}

(* Every variable has its type.                                             *)
TypeOK ==
    /\ menu \in Menus
    /\ now \in 0..Horizon
    /\ status \in [Session -> {"unused", "live", "removed"}]
    /\ initialized \in [Session -> BOOLEAN]
    /\ lastActive \in [Session -> 0..Horizon]
    /\ job \in [Conn -> [kind : Kind \cup {"none"}, on : Session \cup {None},
                         by : Agent \cup {None}, at : Step]]
    /\ count \in [Agent -> 0..Max] /\ start \in [Agent -> 0..Horizon]
    /\ log \in [Agent -> Seq(0..Horizon)]
    /\ channel \in 0..ChannelSize
    /\ running \subseteq Worker /\ streaming \subseteq Subscriber
    /\ inbox \in [Subscriber -> Seq(EventKind)]
    /\ lagged \in [Subscriber -> BOOLEAN]
    /\ seen \in [Subscriber -> SUBSET EventKind]
    /\ sent \in Nat
    /\ phase \in {"up", "joining", "draining", "down"}

(* The limiter lets through fewer than twice Max requests of an agent       *)
(* within any Window, as its windows are fixed; and it refuses no agent     *)
(* before it has let through Max within a Window: requests that fail to     *)
(* authenticate cost the agent nothing.                                     *)
LimitHolds ==
    \A a \in Agent :
        /\ \A i \in DOMAIN log[a] :
            LET j == i + 2 * Max - 1 IN
            j \in DOMAIN log[a] => log[a][j] - log[a][i] >= Window
        /\ Refused(a) =>
            Max = 0 \/ (Len(log[a]) >= Max /\ now - log[a][Len(log[a]) - Max + 1] < Window)

(* A session that was deleted or swept stays so, whichever requests found   *)
(* it before and write to it after, and a session is not initialized after  *)
(* its end.                                                                 *)
GoneForGood ==
    [][\A s \in Session : status[s] = "removed" =>
          status'[s] = "removed" /\ initialized'[s] = initialized[s]]_vars

(* Once told to stop the hub goes down, unless a client keeps an event      *)
(* stream open: a request that waits for the embedding worker to take its   *)
(* atom is released when that worker stops.                                 *)
ShutdownEnds == (phase # "up") ~> (phase = "down" \/ streaming # {})

=============================================================================
