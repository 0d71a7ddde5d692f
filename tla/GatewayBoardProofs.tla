------------------------- MODULE GatewayBoardProofs -------------------------
(***************************************************************************)
(* Proofs about Gateway: what the fixed windows of the limiter allow,      *)
(* that a session stays gone, and that the channel and the rings hold no   *)
(* more than they have room for, for any number of connections, sessions   *)
(* and agents, any limit and any window.                                   *)
(*                                                                         *)
(* Proofs about Board: what the answers to publish requests say, which     *)
(* duplicates get through, and when the deletion of a project fails, for   *)
(* any requests, batches, parents and edges.  A request is the list of the *)
(* statements it has still to run; what an earlier statement finds or does *)
(* for a later one is a guard: a statement that is before it in the list,  *)
(* or has run and holds.  Nothing takes it back, so it holds when the      *)
(* later one runs.                                                         *)
(*                                                                         *)
(* Proofs about Lineage and BoardLineage: what the traversals of the graph *)
(* cache find, for any graph, depth and types.  A loop is a function       *)
(* iterated; the search keeps an invariant of its rounds with two halves,  *)
(* that it finds nothing too far away and that it leaves nothing out       *)
(* nearer than the head of its queue, and ends because each atom is queued *)
(* but once.  Induction is by the least interval of numbers without the    *)
(* property, which needs no theorem with an operator for a parameter.      *)
(***************************************************************************)
EXTENDS Gateway, BoardLineage, FiniteSetTheorems, SequenceTheorems, TLAPS

---------------------------------------------------------------------------
(* The limiter                                                              *)

\* A log q with an entry of k requests since t, at time n: the window that is
\* open began with the request k from the end, and the one before it a window
\* earlier, at most Max requests before.
Ordered(q, n) ==
    /\ q \in Seq(Int)
    /\ \A i \in 1..Len(q) : q[i] <= n /\ \A j \in i..Len(q) : q[i] <= q[j]

Spaced(q) ==
    \A i, j \in 1..Len(q) : j = i + 2 * Max - 1 => q[j] - q[i] >= Window

\* The first request of the open window, and any a window's worth before it.
Opened(q, k, t) ==
    /\ k \in 0..Max /\ k <= Len(q) /\ t \in Int
    /\ k = 0 => Len(q) = 0
    /\ k > 0 => \A i \in 1..Len(q) :
        /\ i = Len(q) - k + 1 => q[i] = t
        /\ i = Len(q) - k + 1 - Max => t - q[i] >= Window

Fits(q, k, t, n) == Ordered(q, n) /\ Opened(q, k, t) /\ Spaced(q)

\* A log with one more request at its end.
LEMMA Appended ==
    ASSUME NEW q \in Seq(Int), NEW n \in Int
    PROVE  /\ Append(q, n) \in Seq(Int) /\ Len(Append(q, n)) = Len(q) + 1
           /\ \A i \in 1..Len(q) : Append(q, n)[i] = q[i]
           /\ Append(q, n)[Len(q) + 1] = n
OBVIOUS

LEMMA OrderedAppend ==
    ASSUME NEW q, NEW n \in Int, Ordered(q, n) PROVE Ordered(Append(q, n), n)
<1> DEFINE r == Append(q, n)
<1>1. /\ r \in Seq(Int) /\ Len(r) = Len(q) + 1 /\ Len(q) \in Nat
      /\ \A i \in 1..Len(q) : r[i] = q[i]
      /\ r[Len(q) + 1] = n
    BY Appended DEF Ordered
<1>2. \A i \in 1..Len(q) : q[i] <= n /\ \A j \in i..Len(q) : q[i] <= q[j]
    BY DEF Ordered
<1> HIDE DEF r
<1>3. ASSUME NEW i \in 1..Len(r) PROVE r[i] <= n /\ \A j \in i..Len(r) : r[i] <= r[j]
    <2>1. CASE i = Len(q) + 1
        BY <1>1, <2>1
    <2>2. CASE i \in 1..Len(q)
        <3>1. r[i] <= n
            BY <1>1, <1>2, <2>2
        <3>2. ASSUME NEW j \in i..Len(r) PROVE r[i] <= r[j]
            <4>1. CASE j = Len(q) + 1
                BY <1>1, <3>1, <4>1
            <4>2. CASE j \in i..Len(q)
                BY <1>1, <1>2, <2>2, <4>2
            <4> QED
                BY <1>1, <2>2, <4>1, <4>2
        <3> QED
            BY <3>1, <3>2
    <2> QED
        BY <1>1, <2>1, <2>2
<1> QED
    BY <1>1, <1>3 DEF Ordered, r

\* A request that opens a window.
LEMMA Opening ==
    ASSUME NEW q, NEW k, NEW t, NEW n \in Int, Fits(q, k, t, n),
           Max # 0, k = 0 \/ n - t >= Window
    PROVE  Fits(Append(q, n), 1, n, n)
<1> USE GatewayAssumption
<1> DEFINE r == Append(q, n)
           m == Len(q)
<1>1. /\ r \in Seq(Int) /\ Len(r) = m + 1 /\ m \in Nat
      /\ \A i \in 1..m : r[i] = q[i] /\ q[i] \in Int
      /\ r[m + 1] = n
    BY Appended DEF Fits, Ordered
<1>2. Ordered(r, n)
    BY OrderedAppend DEF Fits
<1>3. k \in 0..Max /\ k <= m /\ t \in Int /\ Max \in Nat /\ Max >= 1 /\ Window \in Nat
    BY DEF Fits, Opened
<1>4. /\ \A i, j \in 1..m : j = i + 2 * Max - 1 => q[j] - q[i] >= Window
      /\ \A i \in 1..m : \A j \in i..m : q[i] <= q[j]
      /\ k = 0 => m = 0
      /\ k > 0 => \A i \in 1..m : i = m - k + 1 => q[i] = t
    BY DEF Fits, Opened, Ordered, Spaced
<1> HIDE DEF r, m
<1>5. ASSUME NEW i \in 1..m, i <= m + 1 - Max PROVE n - r[i] >= Window
    <2>1. k > 0 /\ n - t >= Window
        BY <1>3, <1>4, <1>5
    <2>2. PICK j \in 1..m : j = m - k + 1
        BY <1>1, <1>3, <2>1
    <2>3. j \in i..m
        BY <1>1, <1>3, <1>5, <2>1, <2>2
    <2>4. q[i] <= t
        BY <1>4, <2>1, <2>2, <2>3
    <2> QED
        BY <1>1, <1>3, <2>1, <2>4
<1>6. Opened(r, 1, n)
    <2>1. ASSUME NEW i \in 1..Len(r), i = Len(r) - 1 + 1 PROVE r[i] = n
        BY <1>1, <2>1
    <2>2. ASSUME NEW i \in 1..Len(r), i = Len(r) - 1 + 1 - Max PROVE n - r[i] >= Window
        <3>1. i \in 1..m /\ i <= m + 1 - Max
            BY <1>1, <1>3, <2>2
        <3> QED
            BY <1>5, <3>1
    <2> QED
        BY <1>1, <1>3, <2>1, <2>2 DEF Opened
<1>7. Spaced(r)
    <2> SUFFICES ASSUME NEW i \in 1..Len(r), NEW j \in 1..Len(r), j = i + 2 * Max - 1
                 PROVE  r[j] - r[i] >= Window
        BY DEF Spaced
    <2>1. CASE j \in 1..m
        <3>1. i \in 1..m
            BY <1>1, <1>3, <2>1
        <3>2. r[i] = q[i] /\ r[j] = q[j]
            BY <1>1, <2>1, <3>1
        <3> QED
            BY <1>4, <2>1, <3>1, <3>2
    <2>2. CASE j = m + 1
        <3>1. CASE i \in 1..m
            <4>1. i <= m + 1 - Max
                BY <1>1, <1>3, <2>2
            <4>2. n - r[i] >= Window /\ r[j] = n
                BY <1>1, <1>5, <2>2, <3>1, <4>1
            <4> QED
                BY <4>2
        <3>2. CASE i = m + 1
            BY <1>1, <1>3, <2>2, <3>2
        <3> QED
            BY <1>1, <3>1, <3>2
    <2> QED
        BY <1>1, <2>1, <2>2
<1> QED
    BY <1>2, <1>6, <1>7 DEF Fits, r

\* A request within the window that is open.
LEMMA Counting ==
    ASSUME NEW q, NEW k, NEW t, NEW n \in Int, Fits(q, k, t, n), k > 0, k < Max
    PROVE  Fits(Append(q, n), k + 1, t, n)
<1> USE GatewayAssumption
<1> DEFINE r == Append(q, n)
           m == Len(q)
<1>1. /\ r \in Seq(Int) /\ Len(r) = m + 1 /\ m \in Nat
      /\ \A i \in 1..m : r[i] = q[i] /\ q[i] \in Int /\ q[i] <= n
      /\ r[m + 1] = n
    BY Appended DEF Fits, Ordered
<1>2. Ordered(r, n)
    BY OrderedAppend DEF Fits
<1>3. k \in 1..(Max - 1) /\ k <= m /\ t \in Int /\ Max \in Nat /\ Window \in Nat
    BY DEF Fits, Opened
<1>4. /\ \A i, j \in 1..m : j = i + 2 * Max - 1 => q[j] - q[i] >= Window
      /\ \A i \in 1..m : \A j \in i..m : q[i] <= q[j]
      /\ \A i \in 1..m : i = m - k + 1 => q[i] = t
      /\ \A i \in 1..m : i = m - k + 1 - Max => t - q[i] >= Window
    BY DEF Fits, Opened, Ordered, Spaced
<1> HIDE DEF r, m
<1>5. PICK p \in 1..m : p = m - k + 1
    BY <1>1, <1>3
<1>6. q[p] = t /\ t <= n /\ r[p] = t
    BY <1>1, <1>4, <1>5
<1>7. Opened(r, k + 1, t)
    <2>1. ASSUME NEW i \in 1..Len(r), i = Len(r) - (k + 1) + 1 PROVE r[i] = t
        <3>1. i = p
            BY <1>1, <1>3, <1>5, <2>1
        <3> QED
            BY <1>6, <3>1
    <2>2. ASSUME NEW i \in 1..Len(r), i = Len(r) - (k + 1) + 1 - Max PROVE t - r[i] >= Window
        <3>1. i \in 1..m /\ i = m - k + 1 - Max
            BY <1>1, <1>3, <2>2
        <3> QED
            BY <1>1, <1>4, <3>1
    <2>3. k + 1 \in 0..Max /\ k + 1 <= Len(r) /\ t \in Int /\ k + 1 # 0
        BY <1>1, <1>3
    <2> QED
        BY <2>1, <2>2, <2>3 DEF Opened
<1>8. Spaced(r)
    <2> SUFFICES ASSUME NEW i \in 1..Len(r), NEW j \in 1..Len(r), j = i + 2 * Max - 1
                 PROVE  r[j] - r[i] >= Window
        BY DEF Spaced
    <2>1. CASE j \in 1..m
        <3>1. i \in 1..m
            BY <1>1, <1>3, <2>1
        <3>2. r[i] = q[i] /\ r[j] = q[j]
            BY <1>1, <2>1, <3>1
        <3> QED
            BY <1>4, <2>1, <3>1, <3>2
    <2>2. CASE j = m + 1
        <3>1. i \in 1..m /\ i <= m - k + 1 - Max
            BY <1>1, <1>3, <2>2
        <3>2. PICK h \in 1..m : h = m - k + 1 - Max
            BY <1>1, <1>3, <3>1
        <3>3. t - q[h] >= Window
            BY <1>4, <3>2
        <3>4. h \in i..m
            BY <1>1, <3>1, <3>2
        <3>5. q[i] <= q[h]
            BY <1>4, <3>1, <3>4
        <3>6. r[i] = q[i] /\ r[j] = n
            BY <1>1, <2>2, <3>1
        <3>7. q[i] \in Int /\ q[h] \in Int
            BY <1>1, <3>1
        <3> QED
            BY <1>3, <1>6, <3>3, <3>5, <3>6, <3>7
    <2> QED
        BY <1>1, <2>1, <2>2
<1> QED
    BY <1>2, <1>7, <1>8 DEF Fits, r

\* Time alone changes nothing.
LEMMA Passing ==
    ASSUME NEW q, NEW k, NEW t, NEW n \in Int, NEW p \in Int, n <= p, Fits(q, k, t, n)
    PROVE  Fits(q, k, t, p)
<1>1. Ordered(q, p)
    BY DEF Fits, Ordered
<1> QED
    BY <1>1 DEF Fits

LimiterOK ==
    /\ now \in Int
    /\ count \in [Agent -> Int] /\ start \in [Agent -> Int] /\ log \in [Agent -> Seq(Int)]
    /\ \A a \in Agent : Fits(log[a], count[a], start[a], now)

LEMMA LimiterInit == ASSUME Init PROVE LimiterOK
<1>1. now = 0
    BY DEF Init
<1>2. /\ count = [a \in Agent |-> 0] /\ start = [a \in Agent |-> 0]
      /\ log = [a \in Agent |-> <<>>]
    BY DEF Init
<1>3. Fits(<<>>, 0, 0, 0)
    <2>1. Ordered(<<>>, 0)
        BY DEF Ordered
    <2>2. Opened(<<>>, 0, 0)
        BY GatewayAssumption DEF Opened
    <2>3. Spaced(<<>>)
        BY DEF Spaced
    <2> QED
        BY <2>1, <2>2, <2>3 DEF Fits
<1> QED
    BY <1>1, <1>2, <1>3 DEF LimiterOK

\* What CheckRateLimit lets through.
LEMMA LimiterCheck ==
    ASSUME LimiterOK, NEW c \in Conn, job[c].by \in Agent, CheckRateLimit(c)
    PROVE  LimiterOK'
<1> DEFINE a == job[c].by
<1>1. now' = now /\ now \in Int /\ a \in Agent
    BY DEF CheckRateLimit, LimiterOK
<1>2. /\ count \in [Agent -> Int] /\ start \in [Agent -> Int] /\ log \in [Agent -> Seq(Int)]
      /\ \A b \in Agent : Fits(log[b], count[b], start[b], now)
    BY DEF LimiterOK
<1>3. CASE Refused(a)
    <2>1. UNCHANGED limiter
        BY <1>3 DEF CheckRateLimit
    <2> QED
        BY <1>1, <1>2, <2>1 DEF LimiterOK, limiter
<1>4. CASE ~Refused(a)
    <2>1. log' = [log EXCEPT ![a] = Append(@, now)]
        BY <1>4 DEF CheckRateLimit
    <2>2. Max # 0 /\ (count[a] > 0 /\ ~Elapsed(a) => count[a] < Max)
        <3>1. count[a] \in Int /\ Max \in Int
            BY <1>1, <1>2, GatewayAssumption
        <3> QED
            BY <1>4, <3>1 DEF Refused
    <2>3. Append(log[a], now) \in Seq(Int)
        BY <1>1, <1>2
    <2>4. CASE count[a] = 0 \/ Elapsed(a)
        <3>1. count' = [count EXCEPT ![a] = 1] /\ start' = [start EXCEPT ![a] = now]
            BY <1>4, <2>4 DEF CheckRateLimit
        <3>2. Fits(Append(log[a], now), 1, now, now)
            BY <1>1, <1>2, <2>2, <2>4, Opening DEF Elapsed
        <3> QED
            BY <1>1, <1>2, <2>1, <2>3, <3>1, <3>2 DEF LimiterOK
    <2>5. CASE ~(count[a] = 0 \/ Elapsed(a))
        <3>1. count' = [count EXCEPT ![a] = @ + 1] /\ start' = start
            BY <1>4, <2>5 DEF CheckRateLimit
        <3>2. count[a] > 0 /\ count[a] < Max /\ count[a] \in Int
            BY <1>1, <1>2, <2>2, <2>5 DEF Fits, Opened
        <3>3. Fits(Append(log[a], now), count[a] + 1, start[a], now)
            BY <1>1, <1>2, <3>2, Counting
        <3> QED
            BY <1>1, <1>2, <2>1, <2>3, <3>1, <3>2, <3>3 DEF LimiterOK
    <2> QED
        BY <2>4, <2>5
<1> QED
    BY <1>3, <1>4

\* Whoever is past authentication is an agent.
Job == [kind : Kind \cup {"none"}, on : Session \cup {None},
        by : Agent \cup {None}, at : Step]

JobsOK == /\ job \in [Conn -> Job]
          /\ \A c \in Conn : job[c].at = "authenticated" => job[c].by \in Agent

LEMMA Placed ==
    ASSUME JobsOK, NEW c \in Conn, NEW j \in Job,
           j.at = "authenticated" => j.by \in Agent, job' = [job EXCEPT ![c] = j]
    PROVE  JobsOK'
<1>1. job' \in [Conn -> Job] /\ job'[c] = j /\ \A d \in Conn \ {c} : job'[d] = job[d]
    BY DEF JobsOK
<1> QED
    BY <1>1 DEF JobsOK

LEMMA Gone ==
    ASSUME JobsOK, NEW c \in Conn, NEW step \in Step, step # "authenticated", Goto(c, step)
    PROVE  JobsOK'
<1> DEFINE j == [job[c] EXCEPT !.at = step]
<1>1. j \in Job /\ j.at = step
    BY DEF JobsOK, Job
<1>2. job' = [job EXCEPT ![c] = j]
    BY DEF Goto
<1> HIDE DEF j
<1> QED
    BY <1>1, <1>2, Placed

LEMMA Answered == ASSUME JobsOK, NEW c \in Conn, Answer(c) PROVE JobsOK'
<1>1. Idle \in Job /\ Idle.at # "authenticated"
    BY DEF Idle, Job, Step
<1> QED
    BY <1>1, Placed DEF Answer

LEMMA HandledJobs == ASSUME JobsOK, NEW c \in Conn, Handle(c) PROVE JobsOK'
<1>1. CASE Authenticate(c)
    <2>1. CASE Answer(c)
        BY <2>1, Answered
    <2>2. ASSUME NEW a \in Agent, job' = [job EXCEPT ![c].by = a, ![c].at = "authenticated"]
          PROVE  JobsOK'
        <3> DEFINE j == [[job[c] EXCEPT !.by = a] EXCEPT !.at = "authenticated"]
        <3>1. j \in Job /\ j.by \in Agent
            BY DEF JobsOK, Job, Step
        <3>2. job' = [job EXCEPT ![c] = j]
            <4>1. /\ job \in [Conn -> Job] /\ job[c] \in Job
                  /\ DOMAIN [job EXCEPT ![c].by = a, ![c].at = "authenticated"] = Conn
                BY DEF JobsOK
            <4> QED
                BY <2>2, <4>1 DEF Job
        <3> HIDE DEF j
        <3> QED
            BY <3>1, <3>2, Placed
    <2> QED
        BY <1>1, <2>1, <2>2 DEF Authenticate
<1>2. CASE \/ Lookup(c) \/ Exists(c) \/ MarkInitialized(c) \/ UpdateActivity(c)
           \/ RemoveSession(c)
    BY <1>2, Gone, Answered
       DEF Step, Lookup, Exists, MarkInitialized, UpdateActivity, RemoveSession
<1>3. CASE CheckRateLimit(c)
    <2>1. \/ Answer(c)
          \/ \E tool \in {"publish", "retract", "other"} : Goto(c, tool)
        BY <1>3 DEF CheckRateLimit
    <2> QED
        BY <2>1, Gone, Answered DEF Step
<1>4. CASE Send(c) \/ AnswerPublish(c) \/ AnswerRetract(c) \/ AnswerOther(c)
    BY <1>4, Gone, Answered DEF Step, Send, AnswerPublish, AnswerRetract, AnswerOther
<1> QED
    BY <1>1, <1>2, <1>3, <1>4 DEF Handle

LEMMA NextJobs == ASSUME JobsOK, [Next]_vars PROVE JobsOK'
<1>1. ASSUME NEW c \in Conn, Arrive(c) PROVE JobsOK'
    <2>1. PICK k \in menu \cap (Kind \ {"rpc"}), s \in Session :
            job' = [job EXCEPT ![c] = [kind |-> k, on |-> s, by |-> None, at |-> "found"]]
        BY <1>1 DEF Arrive
    <2>2. [kind |-> k, on |-> s, by |-> None, at |-> "found"] \in Job
        BY DEF Job, Kind, Step
    <2> QED
        BY <2>1, <2>2, Placed
<1>2. ASSUME NEW c \in Conn, ArriveRpc(c) PROVE JobsOK'
    <2>1. [kind |-> "rpc", on |-> None, by |-> None, at |-> "admitted"] \in Job
        BY DEF Job, Kind, Step
    <2> QED
        BY <1>2, <2>1, Placed DEF ArriveRpc
<1>3. ASSUME NEW c \in Conn, Handle(c) PROVE JobsOK'
    BY <1>3, HandledJobs
<1>4. CASE UNCHANGED job
    BY <1>4 DEF JobsOK
<1> QED
    BY <1>1, <1>2, <1>3, <1>4
       DEF Next, vars, Tick, CleanupSessions, Initialize, Subscribe, Deliver, Leave,
           Receive, Transition, ShutdownSignal, JoinEnds, Exit, WorkerEnds

LEMMA NextLimiter == ASSUME JobsOK, LimiterOK, [Next]_vars PROVE LimiterOK'
<1>1. CASE Tick
    <2>1. now' = now + 1 /\ UNCHANGED limiter /\ now \in Int
        BY <1>1 DEF Tick, LimiterOK
    <2>2. now' \in Int /\ now <= now'
        BY <2>1
    <2>3. \A a \in Agent : Fits(log[a], count[a], start[a], now')
        BY <2>1, <2>2, Passing DEF LimiterOK
    <2> QED
        BY <2>1, <2>2, <2>3 DEF LimiterOK, limiter
<1>2. ASSUME NEW c \in Conn, CheckRateLimit(c) PROVE LimiterOK'
    <2>1. job[c].by \in Agent
        BY <1>2 DEF CheckRateLimit, JobsOK
    <2> QED
        BY <1>2, <2>1, LimiterCheck
<1>3. CASE UNCHANGED <<now, limiter>>
    BY <1>3 DEF LimiterOK, limiter
<1>4. ASSUME NEW c \in Conn, Arrive(c) \/ ArriveRpc(c) \/ Handle(c), ~CheckRateLimit(c)
      PROVE  UNCHANGED <<now, limiter>>
    BY <1>4 DEF Arrive, ArriveRpc, Handle, Lookup, Exists, MarkInitialized, UpdateActivity,
       RemoveSession, Authenticate, Send, AnswerPublish, AnswerRetract, AnswerOther
<1> QED
    BY <1>1, <1>2, <1>3, <1>4
       DEF Next, vars, CleanupSessions, Initialize, Subscribe, Deliver, Leave,
           Receive, Transition, ShutdownSignal, JoinEnds, Exit, WorkerEnds

LEMMA JobsInit == ASSUME Init PROVE JobsOK
BY DEF Init, JobsOK, Job, Idle, Step

LEMMA LimiterInvariant == Spec => [](JobsOK /\ LimiterOK)
<1>1. Init => JobsOK /\ LimiterOK
    BY JobsInit, LimiterInit
<1>2. JobsOK /\ LimiterOK /\ [Next]_vars => (JobsOK /\ LimiterOK)'
    BY NextJobs, NextLimiter
<1> QED
    BY <1>1, <1>2, PTL DEF Spec

(* Fewer than twice Max requests of an agent pass within any Window, and    *)
(* none is refused before Max passed within one (state.rs, the fixed window *)
(* of check_rate_limit), for every limit, window and number of requests.    *)
THEOREM LimitsHold == Spec => []LimitHolds
<1>1. LimiterOK => LimitHolds
    <2> SUFFICES ASSUME LimiterOK, NEW a \in Agent
                 PROVE  /\ \A i \in DOMAIN log[a] :
                            LET j == i + 2 * Max - 1 IN
                            j \in DOMAIN log[a] => log[a][j] - log[a][i] >= Window
                        /\ Refused(a) =>
                            Max = 0 \/ (Len(log[a]) >= Max
                                        /\ now - log[a][Len(log[a]) - Max + 1] < Window)
        BY DEF LimitHolds
    <2>1. /\ log[a] \in Seq(Int) /\ DOMAIN log[a] = 1..Len(log[a])
          /\ Len(log[a]) \in Nat /\ now \in Int
        BY DEF LimiterOK
    <2>2. Opened(log[a], count[a], start[a]) /\ Spaced(log[a])
        BY DEF LimiterOK, Fits
    <2>3. \A i \in DOMAIN log[a] :
            LET j == i + 2 * Max - 1 IN
            j \in DOMAIN log[a] => log[a][j] - log[a][i] >= Window
        BY <2>1, <2>2 DEF Spaced
    <2>4. ASSUME Refused(a), Max # 0
          PROVE  Len(log[a]) >= Max /\ now - log[a][Len(log[a]) - Max + 1] < Window
        <3>1. count[a] = Max /\ Max \in Nat /\ ~Elapsed(a) /\ count[a] > 0
            BY <2>2, <2>4, GatewayAssumption DEF Refused, Opened
        <3>2. Len(log[a]) >= Max
            BY <2>2, <3>1 DEF Opened
        <3>3. Len(log[a]) - Max + 1 \in 1..Len(log[a])
            BY <2>1, <3>1, <3>2
        <3>4. log[a][Len(log[a]) - Max + 1] = start[a] /\ start[a] \in Int
            BY <2>2, <3>1, <3>3 DEF Opened
        <3> QED
            BY <2>1, <3>1, <3>2, <3>4, GatewayAssumption DEF Elapsed
    <2> QED
        BY <2>3, <2>4
<1> QED
    BY <1>1, LimiterInvariant, PTL

---------------------------------------------------------------------------
(* Sessions                                                                 *)

SessionsOK == /\ DOMAIN status = Session
              /\ initialized \in [Session -> BOOLEAN]

LEMMA SessionStep ==
    ASSUME SessionsOK, [Next]_vars
    PROVE  /\ SessionsOK'
           /\ \A s \in Session : status[s] = "removed" =>
                  status'[s] = "removed" /\ initialized'[s] = initialized[s]
<1> DEFINE Kept == \A s \in Session : status[s] = "removed" =>
                       status'[s] = "removed" /\ initialized'[s] = initialized[s]
<1>1. CASE CleanupSessions
    <2>1. /\ status' = [s \in Session |-> IF Expired(s) THEN "removed" ELSE status[s]]
          /\ initialized' = initialized
        BY <1>1 DEF CleanupSessions
    <2> QED
        BY <2>1 DEF SessionsOK
<1>2. ASSUME NEW s \in Session, Initialize(s) PROVE SessionsOK' /\ Kept
    <2>1. status[s] = "unused" /\ status' = [status EXCEPT ![s] = "live"]
          /\ initialized' = initialized
        BY <1>2 DEF Initialize
    <2> QED
        BY <2>1 DEF SessionsOK
<1>3. ASSUME NEW c \in Conn, MarkInitialized(c) PROVE SessionsOK' /\ Kept
    <2>1. initialized' = [initialized EXCEPT ![job[c].on] = @ \/ status[job[c].on] = "live"]
          /\ status' = status
        BY <1>3 DEF MarkInitialized
    <2>2. initialized' \in [Session -> BOOLEAN]
        BY <2>1 DEF SessionsOK
    <2>3. ASSUME NEW s \in Session, status[s] = "removed" PROVE initialized'[s] = initialized[s]
        <3>1. CASE s = job[c].on
            BY <2>1, <2>3, <3>1 DEF SessionsOK
        <3>2. CASE s # job[c].on
            BY <2>1, <3>2 DEF SessionsOK
        <3> QED
            BY <3>1, <3>2
    <2> QED
        BY <2>1, <2>2, <2>3 DEF SessionsOK
<1>4. ASSUME NEW c \in Conn, RemoveSession(c) PROVE SessionsOK' /\ Kept
    <2>1. status' = [status EXCEPT ![job[c].on] = "removed"] /\ initialized' = initialized
        BY <1>4 DEF RemoveSession
    <2> QED
        BY <2>1 DEF SessionsOK
<1>5. CASE UNCHANGED <<status, initialized>>
    BY <1>5 DEF SessionsOK
<1>6. ASSUME NEW c \in Conn, Arrive(c) \/ ArriveRpc(c) \/ Handle(c),
             ~MarkInitialized(c), ~RemoveSession(c)
      PROVE  UNCHANGED <<status, initialized>>
    BY <1>6 DEF Arrive, ArriveRpc, Handle, Lookup, Exists, UpdateActivity, CheckRateLimit,
       Authenticate, Send, AnswerPublish, AnswerRetract, AnswerOther, sessions
<1> QED
    BY <1>1, <1>2, <1>3, <1>4, <1>5, <1>6
       DEF Next, vars, sessions, Tick, Subscribe, Deliver, Leave,
           Receive, Transition, ShutdownSignal, JoinEnds, Exit, WorkerEnds

(* A session that was deleted or swept is never brought back, nor is it     *)
(* marked initialized afterwards, by a request that looked it up before     *)
(* (mcp_session.rs, whose methods each take the lock anew).                 *)
THEOREM SessionsStayGone == Spec => GoneForGood
<1>1. Init => SessionsOK
    BY DEF Init, SessionsOK
<1>2. SessionsOK /\ [Next]_vars => SessionsOK'
    BY SessionStep
<1>3. SessionsOK /\ [Next]_vars =>
        [\A s \in Session : status[s] = "removed" =>
            status'[s] = "removed" /\ initialized'[s] = initialized[s]]_vars
    BY SessionStep
<1> QED
    BY <1>1, <1>2, <1>3, PTL DEF Spec, GoneForGood

---------------------------------------------------------------------------
(* Types of the gateway: what the other invariants leave out.               *)

\* The bound on behaviours, the clock and what is stamped with it.
Stamped ==
    /\ menu \in Menus /\ now \in 0..Horizon
    /\ status \in [Session -> {"unused", "live", "removed"}]
    /\ lastActive \in [Session -> 0..Horizon]
    /\ start \in [Agent -> 0..Horizon] /\ log \in [Agent -> Seq(0..Horizon)]

\* The channel never holds more than it has room for.
Staffed ==
    /\ channel \in 0..ChannelSize /\ running \subseteq Worker
    /\ phase \in {"up", "joining", "draining", "down"}

\* A ring never holds more than its buffer.
Streamed ==
    /\ streaming \subseteq Subscriber
    /\ inbox \in [Subscriber -> Seq(EventKind)]
    /\ \A u \in Subscriber : Len(inbox[u]) <= Buffer
    /\ lagged \in [Subscriber -> BOOLEAN]
    /\ seen \in [Subscriber -> SUBSET EventKind]
    /\ sent \in 0..MaxEvents

LEMMA StampedStep == ASSUME Stamped, [Next]_vars PROVE Stamped'
<1>1. CASE Tick
    BY <1>1, GatewayAssumption DEF Tick, Stamped, sessions, limiter
<1>2. CASE CleanupSessions
    BY <1>2 DEF CleanupSessions, Stamped, limiter
<1>3. ASSUME NEW s \in Session, Initialize(s) PROVE Stamped'
    BY <1>3 DEF Initialize, Stamped, limiter
<1>4. ASSUME NEW c \in Conn, UpdateActivity(c) \/ RemoveSession(c) PROVE Stamped'
    <2>1. UNCHANGED <<menu, now, start, log>>
        BY <1>4 DEF UpdateActivity, RemoveSession, limiter
    <2>2. status' \in [Session -> {"unused", "live", "removed"}]
        BY <1>4 DEF UpdateActivity, RemoveSession, Stamped
    <2>3. lastActive' \in [Session -> 0..Horizon]
        BY <1>4 DEF UpdateActivity, RemoveSession, Stamped
    <2> QED
        BY <2>1, <2>2, <2>3 DEF Stamped
<1>5. ASSUME NEW c \in Conn, CheckRateLimit(c) PROVE Stamped'
    <2>1. UNCHANGED <<menu, now, status, lastActive>>
        BY <1>5 DEF CheckRateLimit, sessions
    <2>2. start' \in [Agent -> 0..Horizon]
        BY <1>5 DEF CheckRateLimit, limiter, Stamped
    <2>3. \/ log' = log
          \/ log' = [log EXCEPT ![job[c].by] = Append(@, now)]
        BY <1>5 DEF CheckRateLimit, limiter
    <2>4. log' \in [Agent -> Seq(0..Horizon)]
        <3>1. CASE log' = log
            BY <3>1 DEF Stamped
        <3>2. ASSUME NEW a, log' = [log EXCEPT ![a] = Append(@, now)]
              PROVE  log' \in [Agent -> Seq(0..Horizon)]
            <4>1. \A b \in Agent : Append(log[b], now) \in Seq(0..Horizon)
                BY DEF Stamped
            <4>2. log' = [b \in Agent |-> IF b = a THEN Append(log[b], now) ELSE log[b]]
                BY <3>2 DEF Stamped
            <4> QED
                BY <4>1, <4>2 DEF Stamped
        <3> QED
            BY <2>3, <3>1, <3>2
    <2> QED
        BY <2>1, <2>2, <2>4 DEF Stamped
<1>6. CASE UNCHANGED <<menu, now, status, lastActive, start, log>>
    BY <1>6 DEF Stamped
<1>7. ASSUME NEW c \in Conn, Arrive(c) \/ ArriveRpc(c) \/ Handle(c),
             ~UpdateActivity(c), ~RemoveSession(c), ~CheckRateLimit(c)
      PROVE  UNCHANGED <<menu, now, status, lastActive, start, log>>
    BY <1>7 DEF Arrive, ArriveRpc, Handle, Lookup, Exists, MarkInitialized, Authenticate, Send,
       AnswerPublish, AnswerRetract, AnswerOther, sessions, limiter
<1> QED
    BY <1>1, <1>2, <1>3, <1>4, <1>5, <1>6, <1>7
       DEF Next, vars, sessions, limiter, Subscribe, Deliver, Leave,
           Receive, Transition, ShutdownSignal, JoinEnds, Exit, WorkerEnds

LEMMA StaffedStep == ASSUME Staffed, [Next]_vars PROVE Staffed'
<1>1. ASSUME NEW c \in Conn, Send(c) PROVE Staffed'
    BY <1>1, GatewayAssumption DEF Send, Roomy, Staffed
<1>2. CASE Receive
    BY <1>2, GatewayAssumption DEF Receive, Staffed
<1>3. ASSUME NEW w \in Worker, WorkerEnds(w) PROVE Staffed'
    BY <1>3, GatewayAssumption DEF WorkerEnds, Staffed
<1>4. CASE ShutdownSignal \/ JoinEnds \/ Exit
    BY <1>4 DEF ShutdownSignal, JoinEnds, Exit, Staffed
<1>5. CASE UNCHANGED <<channel, running, phase>>
    BY <1>5 DEF Staffed
<1>6. ASSUME NEW c \in Conn, Arrive(c) \/ ArriveRpc(c) \/ Handle(c), ~Send(c)
      PROVE  UNCHANGED <<channel, running, phase>>
    BY <1>6 DEF Arrive, ArriveRpc, Handle, Lookup, Exists, MarkInitialized, UpdateActivity,
       RemoveSession, Authenticate, CheckRateLimit, AnswerPublish, AnswerRetract, AnswerOther
<1> QED
    BY <1>1, <1>2, <1>3, <1>4, <1>5, <1>6
       DEF Next, vars, Tick, CleanupSessions, Initialize, Subscribe, Deliver, Leave, Transition

\* An event overwrites the oldest one where the ring is full.
LEMMA BroadcastStep ==
    ASSUME Streamed, NEW e \in EventKind, sent < MaxEvents, Broadcast(e), UNCHANGED streaming
    PROVE  Streamed'
<1>1. sent' \in 0..MaxEvents
    BY GatewayAssumption DEF Streamed, Broadcast
<1>2. ASSUME NEW u \in Subscriber
      PROVE  inbox'[u] \in Seq(EventKind) /\ Len(inbox'[u]) <= Buffer
    <2>1. inbox[u] \in Seq(EventKind) /\ Len(inbox[u]) <= Buffer /\ Buffer \in Nat \ {0}
        BY GatewayAssumption DEF Streamed
    <2>2. CASE u \notin streaming
        BY <2>1, <2>2 DEF Broadcast
    <2>3. CASE u \in streaming /\ Len(inbox[u]) = Buffer
        <3>1. inbox'[u] = Append(Tail(inbox[u]), e)
            BY <2>3 DEF Broadcast
        <3>2. inbox[u] # <<>>
            BY <2>1, <2>3
        <3>3. Tail(inbox[u]) \in Seq(EventKind) /\ Len(Tail(inbox[u])) = Len(inbox[u]) - 1
            BY <2>1, <3>2
        <3> QED
            BY <2>1, <2>3, <3>1, <3>3
    <2>4. CASE u \in streaming /\ Len(inbox[u]) # Buffer
        <3>1. inbox'[u] = Append(inbox[u], e)
            BY <2>4 DEF Broadcast
        <3> QED
            BY <2>1, <2>4, <3>1
    <2> QED
        BY <2>2, <2>3, <2>4
<1>3. DOMAIN inbox' = Subscriber
    BY DEF Broadcast
<1>4. inbox' \in [Subscriber -> Seq(EventKind)]
    <2>1. inbox' = [u \in Subscriber |-> inbox'[u]]
        BY DEF Broadcast
    <2> QED
        BY <1>2, <2>1
<1>5. lagged' \in [Subscriber -> BOOLEAN]
    <2>1. \A u \in Subscriber :
            (lagged[u] \/ (u \in streaming /\ Len(inbox[u]) = Buffer)) \in BOOLEAN
        OBVIOUS
    <2> QED
        BY <2>1 DEF Broadcast
<1> QED
    BY <1>1, <1>2, <1>4, <1>5 DEF Streamed, Broadcast

LEMMA StreamedStep == ASSUME Streamed, [Next]_vars PROVE Streamed'
<1>1. ASSUME NEW u \in Subscriber, Subscribe(u) PROVE Streamed'
    BY <1>1, GatewayAssumption DEF Subscribe, Streamed
<1>2. ASSUME NEW u \in Subscriber, Deliver(u) PROVE Streamed'
    <2>1. /\ inbox[u] \in Seq(EventKind) /\ inbox[u] # <<>> /\ Len(inbox[u]) <= Buffer
          /\ Buffer \in Nat
        BY <1>2, GatewayAssumption DEF Deliver, Streamed
    <2>2. /\ Tail(inbox[u]) \in Seq(EventKind) /\ Head(inbox[u]) \in EventKind
          /\ Len(Tail(inbox[u])) <= Buffer
        BY <2>1
    <2>3. /\ inbox' = [inbox EXCEPT ![u] = Tail(inbox[u])]
          /\ seen' = [seen EXCEPT ![u] = @ \cup ({Head(inbox[u])} \cap Typed)]
          /\ UNCHANGED <<streaming, lagged, sent>>
        BY <1>2 DEF Deliver
    <2>4. seen' \in [Subscriber -> SUBSET EventKind]
        BY <2>2, <2>3 DEF Streamed
    <2> QED
        BY <2>2, <2>3, <2>4 DEF Streamed
<1>3. ASSUME NEW u \in Subscriber, Leave(u) PROVE Streamed'
    BY <1>3 DEF Leave, events, Streamed
<1>4. CASE Transition
    BY <1>4, BroadcastStep DEF Transition, EventKind
<1>5. ASSUME NEW c \in Conn, AnswerPublish(c) \/ AnswerRetract(c) PROVE Streamed'
    BY <1>5, BroadcastStep DEF AnswerPublish, AnswerRetract, EventKind
<1>6. CASE UNCHANGED <<streaming, events>>
    BY <1>6 DEF events, Streamed
<1>7. ASSUME NEW c \in Conn, Arrive(c) \/ ArriveRpc(c) \/ Handle(c),
             ~AnswerPublish(c), ~AnswerRetract(c)
      PROVE  UNCHANGED <<streaming, events>>
    BY <1>7 DEF Arrive, ArriveRpc, Handle, Lookup, Exists, MarkInitialized, UpdateActivity,
       RemoveSession, Authenticate, CheckRateLimit, Send, AnswerOther
<1> QED
    BY <1>1, <1>2, <1>3, <1>4, <1>5, <1>6, <1>7
       DEF Next, vars, Tick, CleanupSessions, Initialize, Receive, ShutdownSignal, JoinEnds, Exit,
           WorkerEnds

(* Every variable of the gateway has its type: the channel to the embedding *)
(* worker and the rings of the event stream never hold more than they are   *)
(* made for, and no agent's entry in the limiter exceeds the limit.         *)
THEOREM GatewayTypeCorrect == Spec => [](TypeOK /\ Streamed)
<1> DEFINE Types == Stamped /\ Staffed /\ Streamed /\ SessionsOK
<1>1. Init => Types
    BY GatewayAssumption DEF Init, Stamped, Staffed, Streamed, SessionsOK
<1>2. Types /\ [Next]_vars => Types'
    BY StampedStep, StaffedStep, StreamedStep, SessionStep
<1>3. Types /\ JobsOK /\ LimiterOK => TypeOK /\ Streamed
    <2> SUFFICES ASSUME Types, JobsOK, LimiterOK PROVE TypeOK
        OBVIOUS
    <2>1. count \in [Agent -> 0..Max]
        BY DEF LimiterOK, Fits, Opened
    <2>2. sent \in Nat
        BY GatewayAssumption DEF Streamed
    <2> QED
        BY <2>1, <2>2 DEF Stamped, Staffed, Streamed, SessionsOK, JobsOK, Job, TypeOK
<1> QED
    BY <1>1, <1>2, <1>3, LimiterInvariant, PTL DEF Spec

-----------------------------------------------------------------------------
(* Sequences of statements                                                  *)

IsSequence(q) == q \in Seq(Range(q))

\* Before any t of q there is an s.
Guarded(q, t, s) == \A j \in 1..Len(q) : q[j] = t => \E i \in 1..(j - 1) : q[i] = s

\* What belongs before the insertion of an atom, and what comes up to it.
Sorted(q) ==
    \A i, j \in 1..Len(q) :
        i < j /\ q[j].do \in {"dedup", "check", "insert"} => q[i].do \in {"dedup", "check"}

LEMMA Listing ==
    ASSUME NEW n \in Nat, NEW f, DOMAIN f = 1..n, f = [i \in 1..n |-> f[i]]
    PROVE  IsSequence(f) /\ Len(f) = n
<1>1. f \in [1..n -> Range(f)]
    BY DEF Range
<1> QED
    BY <1>1 DEF IsSequence

\* Whatever a sequence is of, it is of its range.
LEMMA Sequence == ASSUME NEW S, NEW q \in Seq(S) PROVE IsSequence(q)
<1>1. Len(q) \in Nat /\ q \in [1..Len(q) -> S] /\ DOMAIN q = 1..Len(q)
    BY LenProperties
<1> QED
    BY <1>1, Listing

LEMMA Joined ==
    ASSUME NEW p, NEW q, IsSequence(p), IsSequence(q)
    PROVE  /\ IsSequence(p \o q) /\ Len(p \o q) = Len(p) + Len(q)
           /\ \A i \in 1..Len(p) : (p \o q)[i] = p[i]
           /\ \A i \in 1..Len(q) : (p \o q)[Len(p) + i] = q[i]
           /\ \A i \in 1..Len(p \o q) : i \in 1..Len(p) \/ i - Len(p) \in 1..Len(q)
           /\ Range(p \o q) = Range(p) \cup Range(q)
<1> DEFINE S == Range(p) \cup Range(q)
<1>1. p \in Seq(S) /\ q \in Seq(S)
    BY DEF IsSequence
<1> HIDE DEF S
<1>2. /\ p \o q \in Seq(S) /\ Len(p \o q) = Len(p) + Len(q) /\ Len(p) \in Nat /\ Len(q) \in Nat
      /\ DOMAIN p = 1..Len(p) /\ DOMAIN q = 1..Len(q) /\ DOMAIN (p \o q) = 1..Len(p \o q)
      /\ \A i \in 1..Len(p) : (p \o q)[i] = p[i]
      /\ \A i \in 1..Len(q) : (p \o q)[Len(p) + i] = q[i]
    BY <1>1
<1>3. \A i \in 1..Len(p \o q) : i \in 1..Len(p) \/ i - Len(p) \in 1..Len(q)
    BY <1>2
<1>4. Range(p) \cup Range(q) \subseteq Range(p \o q)
    <2>1. \A i \in 1..Len(p) : i \in DOMAIN (p \o q)
        BY <1>2
    <2>2. \A i \in 1..Len(q) : Len(p) + i \in DOMAIN (p \o q)
        BY <1>2
    <2>3. ASSUME NEW i \in 1..Len(p) PROVE p[i] \in Range(p \o q)
        BY <1>2, <2>1 DEF Range
    <2>4. ASSUME NEW i \in 1..Len(q) PROVE q[i] \in Range(p \o q)
        BY <1>2, <2>2 DEF Range
    <2> QED
        BY <1>2, <2>3, <2>4 DEF Range
<1>5. Range(p \o q) \subseteq Range(p) \cup Range(q)
    <2>1. ASSUME NEW i \in 1..Len(p \o q) PROVE (p \o q)[i] \in Range(p) \cup Range(q)
        <3>1. CASE i \in 1..Len(p)
            BY <1>2, <3>1 DEF Range
        <3>2. CASE i - Len(p) \in 1..Len(q)
            <4>1. i = Len(p) + (i - Len(p))
                BY <1>2
            <4>2. (p \o q)[i] = q[i - Len(p)]
                BY <1>2, <3>2, <4>1
            <4> QED
                BY <1>2, <3>2, <4>2 DEF Range
        <3> QED
            BY <1>3, <2>1, <3>1, <3>2
    <2> QED
        BY <1>2, <2>1 DEF Range
<1>6. IsSequence(p \o q)
    BY <1>2, Sequence
<1> QED
    BY <1>2, <1>3, <1>4, <1>5, <1>6

\* What is left when the first statement has run.
LEMMA Rest ==
    ASSUME NEW q, IsSequence(q), q # <<>>
    PROVE  /\ IsSequence(Tail(q)) /\ Len(Tail(q)) = Len(q) - 1 /\ Len(q) \in Nat \ {0}
           /\ (Tail(q) = <<>>) = (Len(q) = 1)
           /\ \A i \in 1..(Len(q) - 1) : Tail(q)[i] = q[i + 1]
           /\ Head(q) = q[1] /\ Range(q) = {Head(q)} \cup Range(Tail(q))
<1>1. /\ Len(q) \in Nat \ {0} /\ DOMAIN q = 1..Len(q) /\ Head(q) = q[1]
      /\ Tail(q) \in Seq(Range(q)) /\ Len(Tail(q)) = Len(q) - 1
      /\ DOMAIN Tail(q) = 1..(Len(q) - 1)
      /\ \A i \in 1..(Len(q) - 1) : Tail(q)[i] = q[i + 1]
    BY DEF IsSequence
<1>3. IsSequence(Tail(q))
    BY <1>1, Sequence
<1>4. (Tail(q) = <<>>) = (Len(q) = 1)
    BY <1>1
<1>5. {Head(q)} \cup Range(Tail(q)) \subseteq Range(q)
    <2>1. \A i \in 1..(Len(q) - 1) : i + 1 \in DOMAIN q
        BY <1>1
    <2> QED
        BY <1>1, <2>1 DEF Range
<1>6. Range(q) \subseteq {Head(q)} \cup Range(Tail(q))
    <2>1. ASSUME NEW i \in 1..Len(q) PROVE q[i] \in {Head(q)} \cup Range(Tail(q))
        <3>1. CASE i = 1
            BY <1>1, <3>1
        <3>2. CASE i # 1
            <4>1. i - 1 \in 1..(Len(q) - 1) /\ (i - 1) + 1 = i
                BY <1>1, <3>2
            <4>2. Tail(q)[i - 1] = q[i]
                BY <1>1, <4>1
            <4> QED
                BY <1>1, <4>1, <4>2 DEF Range
        <3> QED
            BY <3>1, <3>2
    <2> QED
        BY <1>1, <2>1 DEF Range
<1> QED
    BY <1>1, <1>3, <1>4, <1>5, <1>6

\* A guard holds of a whole when it does of the part that has what it guards.
LEMMA GuardedJoined ==
    ASSUME NEW p, NEW q, NEW t, NEW s, IsSequence(p), IsSequence(q), t \notin Range(p),
           s \in Range(p) \/ Guarded(q, t, s)
    PROVE  Guarded(p \o q, t, s)
<1> SUFFICES ASSUME NEW j \in 1..Len(p \o q), (p \o q)[j] = t
             PROVE  \E i \in 1..(j - 1) : (p \o q)[i] = s
    BY DEF Guarded
<1>1. /\ Len(p) \in Nat /\ Len(q) \in Nat /\ DOMAIN p = 1..Len(p) /\ Len(p \o q) = Len(p) + Len(q)
      /\ \A i \in 1..Len(p) : (p \o q)[i] = p[i]
      /\ \A i \in 1..Len(q) : (p \o q)[Len(p) + i] = q[i]
    BY Joined DEF IsSequence
<1>2. j \notin 1..Len(p)
    BY <1>1 DEF Range
<1>3. j - Len(p) \in 1..Len(q) /\ Len(p) + (j - Len(p)) = j
    BY <1>1, <1>2
<1>4. q[j - Len(p)] = t
    BY <1>1, <1>3
<1>5. CASE s \in Range(p)
    <2>1. PICK i \in 1..Len(p) : p[i] = s
        BY <1>1, <1>5 DEF Range
    <2>2. i \in 1..(j - 1)
        BY <1>1, <1>3
    <2> QED
        BY <1>1, <2>1, <2>2
<1>6. CASE Guarded(q, t, s)
    <2>1. PICK i \in 1..((j - Len(p)) - 1) : q[i] = s
        BY <1>3, <1>4, <1>6 DEF Guarded
    <2>2. Len(p) + i \in 1..(j - 1) /\ i \in 1..Len(q)
        BY <1>1, <1>3
    <2> QED
        BY <1>1, <2>1, <2>2
<1> QED
    BY <1>5, <1>6

\* A list stays sorted with looks before it, or nothing early after it.
LEMMA SortedJoined ==
    ASSUME NEW p, NEW q, IsSequence(p), IsSequence(q),
           \/ (\A s \in Range(p) : s.do \in {"dedup", "check"}) /\ Sorted(q)
           \/ Sorted(p) /\ \A s \in Range(q) : s.do \notin {"dedup", "check", "insert"}
    PROVE  Sorted(p \o q)
<1>1. /\ Len(p) \in Nat /\ Len(q) \in Nat /\ DOMAIN p = 1..Len(p) /\ DOMAIN q = 1..Len(q)
      /\ Len(p \o q) = Len(p) + Len(q)
      /\ \A i \in 1..Len(p) : (p \o q)[i] = p[i]
      /\ \A i \in 1..Len(q) : (p \o q)[Len(p) + i] = q[i]
    BY Joined DEF IsSequence
<1> SUFFICES ASSUME NEW i \in 1..Len(p \o q), NEW j \in 1..Len(p \o q), i < j,
                    (p \o q)[j].do \in {"dedup", "check", "insert"}
             PROVE  (p \o q)[i].do \in {"dedup", "check"}
    BY DEF Sorted
<1>2. \A k \in 1..Len(p \o q) :
        \/ k \in 1..Len(p) /\ (p \o q)[k] = p[k] /\ p[k] \in Range(p)
        \/ k > Len(p) /\ k - Len(p) \in 1..Len(q) /\ (p \o q)[k] = q[k - Len(p)]
           /\ q[k - Len(p)] \in Range(q)
    <2> TAKE k \in 1..Len(p \o q)
    <2>1. CASE k \in 1..Len(p)
        BY <1>1, <2>1 DEF Range
    <2>2. CASE k \notin 1..Len(p)
        <3>1. k > Len(p) /\ k - Len(p) \in 1..Len(q) /\ Len(p) + (k - Len(p)) = k
            BY <1>1, <2>2
        <3> QED
            BY <1>1, <3>1 DEF Range
    <2> QED
        BY <2>1, <2>2
<1>3. CASE (\A s \in Range(p) : s.do \in {"dedup", "check"}) /\ Sorted(q)
    <2>1. CASE i \in 1..Len(p)
        BY <1>1, <1>2, <1>3, <2>1
    <2>2. CASE i \notin 1..Len(p)
        <3>1. i - Len(p) \in 1..Len(q) /\ j - Len(p) \in 1..Len(q) /\ i - Len(p) < j - Len(p)
            BY <1>1, <2>2
        <3>2. (p \o q)[i] = q[i - Len(p)] /\ (p \o q)[j] = q[j - Len(p)]
            BY <1>1, <1>2, <2>2
        <3> QED
            BY <1>3, <3>1, <3>2 DEF Sorted
    <2> QED
        BY <2>1, <2>2
<1>4. CASE Sorted(p) /\ \A s \in Range(q) : s.do \notin {"dedup", "check", "insert"}
    <2>1. j \in 1..Len(p)
        BY <1>2, <1>4
    <2>2. i \in 1..Len(p)
        BY <1>1, <2>1
    <2> QED
        BY <1>1, <1>4, <2>1, <2>2 DEF Sorted
<1> QED
    BY <1>3, <1>4

\* Unless it was the first statement, a guard is still to come.
LEMMA GuardedRest ==
    ASSUME NEW q, NEW t, NEW s, IsSequence(q), q # <<>>, Guarded(q, t, s), Head(q) # s
    PROVE  Guarded(Tail(q), t, s)
<1> SUFFICES ASSUME NEW j \in 1..Len(Tail(q)), Tail(q)[j] = t
             PROVE  \E i \in 1..(j - 1) : Tail(q)[i] = s
    BY DEF Guarded
<1>1. /\ Len(q) \in Nat /\ Len(Tail(q)) = Len(q) - 1 /\ Head(q) = q[1]
      /\ \A i \in 1..(Len(q) - 1) : Tail(q)[i] = q[i + 1]
    BY Rest
<1>2. j + 1 \in 1..Len(q) /\ q[j + 1] = t
    BY <1>1
<1>3. PICK i \in 1..((j + 1) - 1) : q[i] = s
    BY <1>2 DEF Guarded
<1>4. i # 1
    BY <1>1, <1>3
<1>5. i - 1 \in 1..(j - 1) /\ i - 1 \in 1..(Len(q) - 1) /\ (i - 1) + 1 = i
    BY <1>1, <1>4
<1> QED
    BY <1>1, <1>3, <1>5

\* The first statement has nothing before it.
LEMMA GuardedFirst ==
    ASSUME NEW q, NEW t, NEW s, IsSequence(q), q # <<>>, Guarded(q, t, s)
    PROVE  Head(q) # t
BY Rest DEF Guarded

\* What is left of a sorted list is sorted, and early only after an early one.
LEMMA SortedRest ==
    ASSUME NEW q, IsSequence(q), q # <<>>, Sorted(q)
    PROVE  /\ Sorted(Tail(q))
           /\ Tail(q) # <<>> /\ Head(Tail(q)).do \in {"dedup", "check", "insert"}
                => Head(q).do \in {"dedup", "check"}
<1>1. /\ Len(q) \in Nat \ {0} /\ Len(Tail(q)) = Len(q) - 1 /\ Head(q) = q[1] /\ IsSequence(Tail(q))
      /\ \A i \in 1..(Len(q) - 1) : Tail(q)[i] = q[i + 1]
    BY Rest
<1>2. Sorted(Tail(q))
    <2> SUFFICES ASSUME NEW i \in 1..Len(Tail(q)), NEW j \in 1..Len(Tail(q)), i < j,
                        Tail(q)[j].do \in {"dedup", "check", "insert"}
                 PROVE  Tail(q)[i].do \in {"dedup", "check"}
        BY DEF Sorted
    <2>1. i + 1 \in 1..Len(q) /\ j + 1 \in 1..Len(q) /\ i + 1 < j + 1
        BY <1>1
    <2> QED
        BY <1>1, <2>1 DEF Sorted
<1>3. ASSUME Tail(q) # <<>> PROVE Head(Tail(q)) = q[2] /\ 2 \in 1..Len(q) /\ 1 \in 1..Len(q)
    <2>1. Len(Tail(q)) \in Nat \ {0} /\ Head(Tail(q)) = Tail(q)[1]
        BY <1>1, <1>3, Rest
    <2> QED
        BY <1>1, <2>1
<1> QED
    BY <1>1, <1>2, <1>3 DEF Sorted

-----------------------------------------------------------------------------
(* What a request is to run                                                 *)

ToLook(r)   == [do |-> "dedup", atom |-> Batch[r][1]]
ToInsert(x) == [do |-> "insert", atom |-> x]
ToCheck(p)  == [do |-> "check", atom |-> p[1], parent |-> p[2]]
ToCache     == [do |-> "link"]
ToRow(p)    == [do |-> "row", atom |-> p[1], parent |-> p[2]]
ToEdge(e)   == [do |-> "edge", edge |-> e]
ToAdd(e)    == [do |-> "add", edge |-> e]

\* The statement that puts a parent into the table.
ToDerive(r, p) == IF r \in Single THEN ToRow(p) ELSE ToEdge(Derivation(p))

\* The statements of r are about its atoms, its parents and its edges.
Meant(r, s) ==
    \/ r \in Single /\ s = ToLook(r)
    \/ \E x \in Range(Batch[r]) : s = ToInsert(x)
    \/ \E p \in Range(Provenance[r]) : s = ToCheck(p) \/ s = ToDerive(r, p)
    \/ r \in Single /\ s = ToCache
    \/ r \notin Single /\ \E e \in Range(Explicit[r]) : s = ToEdge(e)
    \/ r \notin Single /\ \E e \in Edge : s = ToAdd(e)

\* What guards the derivations of r: its atom is there, its parent was found,
\* and handle_publish has linked it in the cache.
WellPlanned(r, q) ==
    /\ IsSequence(q)
    /\ \A s \in Range(q) : Meant(r, s)
    /\ \A x \in Range(Batch[r]) : ToInsert(x) \in Range(q)
    /\ \A p \in Range(Provenance[r]) :
         /\ ToDerive(r, p) \in Range(q)
         /\ Guarded(q, ToDerive(r, p), ToInsert(p[1]))
         /\ Guarded(q, ToDerive(r, p), ToCheck(p))
         /\ r \in Single => Guarded(q, ToDerive(r, p), ToCache)
    /\ r \in Single => Sorted(q) /\ q # <<>> /\ Head(q) = ToLook(r)

Kinds == {"dedup", "insert", "check", "link", "row", "edge", "add"}

LEMMA Shapes ==
    /\ \A r : ToLook(r).do = "dedup" /\ ToLook(r).atom = Batch[r][1]
    /\ \A x : ToInsert(x).do = "insert" /\ ToInsert(x).atom = x
    /\ \A p : ToCheck(p).do = "check" /\ ToCheck(p).atom = p[1] /\ ToCheck(p).parent = p[2]
    /\ ToCache.do = "link"
    /\ \A p : ToRow(p).do = "row" /\ ToRow(p).atom = p[1] /\ ToRow(p).parent = p[2]
    /\ \A e : ToEdge(e).do = "edge" /\ ToEdge(e).edge = e
    /\ \A e : ToAdd(e).do = "add" /\ ToAdd(e).edge = e
BY DEF ToLook, ToInsert, ToCheck, ToCache, ToRow, ToEdge, ToAdd

\* What a request carries.
LEMMA Given ==
    ASSUME NEW r \in Request
    PROVE  /\ Batch[r] \in Seq(Atom) /\ Provenance[r] \in Seq(Atom \X Atom) /\ Explicit[r] \in Seq(Edge)
           /\ Len(Batch[r]) \in Nat /\ DOMAIN Batch[r] = 1..Len(Batch[r])
           /\ Len(Provenance[r]) \in Nat /\ DOMAIN Provenance[r] = 1..Len(Provenance[r])
           /\ Len(Explicit[r]) \in Nat /\ DOMAIN Explicit[r] = 1..Len(Explicit[r])
           /\ Range(Batch[r]) \subseteq Atom
           /\ \A p \in Range(Provenance[r]) : p \in Atom \X Atom /\ p = <<p[1], p[2]>>
           /\ Range(Explicit[r]) \subseteq Edge
<1>1. Batch[r] \in Seq(Atom) /\ Provenance[r] \in Seq(Atom \X Atom) /\ Explicit[r] \in Seq(Edge)
    BY BoardAssumption
<1>2. /\ Len(Batch[r]) \in Nat /\ DOMAIN Batch[r] = 1..Len(Batch[r])
      /\ Len(Provenance[r]) \in Nat /\ DOMAIN Provenance[r] = 1..Len(Provenance[r])
      /\ Len(Explicit[r]) \in Nat /\ DOMAIN Explicit[r] = 1..Len(Explicit[r])
    BY <1>1
<1>3. Range(Batch[r]) \subseteq Atom /\ Range(Explicit[r]) \subseteq Edge
    BY <1>1, <1>2 DEF Range
<1>4. \A p \in Range(Provenance[r]) : p \in Atom \X Atom
    BY <1>1, <1>2 DEF Range
<1> QED
    BY <1>1, <1>2, <1>3, <1>4

\* The lists of a plan.
LEMMA Lists ==
    ASSUME NEW r \in Request
    PROVE  /\ Len(Inserts(r)) = Len(Batch[r])
           /\ IsSequence(Inserts(r)) /\ Range(Inserts(r)) = {ToInsert(x) : x \in Range(Batch[r])}
           /\ IsSequence(ForParents(r, "check"))
           /\ Range(ForParents(r, "check")) = {ToCheck(p) : p \in Range(Provenance[r])}
           /\ IsSequence(ForParents(r, "row"))
           /\ Range(ForParents(r, "row")) = {ToRow(p) : p \in Range(Provenance[r])}
           /\ IsSequence([i \in DOMAIN Explicit[r] |-> ToEdge(Explicit[r][i])])
           /\ Range([i \in DOMAIN Explicit[r] |-> ToEdge(Explicit[r][i])])
                = {ToEdge(e) : e \in Range(Explicit[r])}
<1>2. /\ Len(Batch[r]) \in Nat /\ DOMAIN Batch[r] = 1..Len(Batch[r])
      /\ Len(Provenance[r]) \in Nat /\ DOMAIN Provenance[r] = 1..Len(Provenance[r])
      /\ Len(Explicit[r]) \in Nat /\ DOMAIN Explicit[r] = 1..Len(Explicit[r])
    BY Given
<1>3. Len(Inserts(r)) = Len(Batch[r])
      /\ IsSequence(Inserts(r)) /\ Range(Inserts(r)) = {ToInsert(x) : x \in Range(Batch[r])}
    <2>1. Inserts(r) = [i \in 1..Len(Batch[r]) |-> ToInsert(Batch[r][i])]
        BY <1>2 DEF Inserts, ToInsert
    <2>2. IsSequence(Inserts(r)) /\ Len(Inserts(r)) = Len(Batch[r])
        BY <1>2, <2>1, Listing
    <2> QED
        BY <1>2, <2>1, <2>2 DEF Range
<1>4. IsSequence(ForParents(r, "check"))
      /\ Range(ForParents(r, "check")) = {ToCheck(p) : p \in Range(Provenance[r])}
    <2>1. ForParents(r, "check") = [i \in 1..Len(Provenance[r]) |-> ToCheck(Provenance[r][i])]
        BY <1>2 DEF ForParents, Say, ToCheck
    <2>2. IsSequence(ForParents(r, "check"))
        BY <1>2, <2>1, Listing
    <2> QED
        BY <1>2, <2>1, <2>2 DEF Range
<1>5. IsSequence(ForParents(r, "row"))
      /\ Range(ForParents(r, "row")) = {ToRow(p) : p \in Range(Provenance[r])}
    <2>1. ForParents(r, "row") = [i \in 1..Len(Provenance[r]) |-> ToRow(Provenance[r][i])]
        BY <1>2 DEF ForParents, Say, ToRow
    <2>2. IsSequence(ForParents(r, "row"))
        BY <1>2, <2>1, Listing
    <2> QED
        BY <1>2, <2>1, <2>2 DEF Range
<1>6. IsSequence([i \in DOMAIN Explicit[r] |-> ToEdge(Explicit[r][i])])
      /\ Range([i \in DOMAIN Explicit[r] |-> ToEdge(Explicit[r][i])])
                = {ToEdge(e) : e \in Range(Explicit[r])}
    <2> DEFINE f == [i \in DOMAIN Explicit[r] |-> ToEdge(Explicit[r][i])]
    <2>1. f = [i \in 1..Len(Explicit[r]) |-> ToEdge(Explicit[r][i])]
        BY <1>2
    <2>2. IsSequence(f)
        BY <1>2, <2>1, Listing
    <2>3. Range(f) = {ToEdge(e) : e \in Range(Explicit[r])}
        BY <1>2, <2>1 DEF Range
    <2> QED
        BY <2>2, <2>3
<1> QED
    BY <1>3, <1>4, <1>5, <1>6

\* Parent after parent, checked and linked.
ByParent(r) == [i \in 1..(2 * Len(Provenance[r])) |->
                 IF i % 2 = 1 THEN Say(r, (i + 1) \div 2, "check") ELSE Derived(r)[i \div 2]]

LEMMA Halves ==
    ASSUME NEW m \in Nat
    PROVE  /\ \A i \in 1..m :
                /\ 2 * i - 1 \in 1..(2 * m) /\ 2 * i \in 1..(2 * m)
                /\ (2 * i - 1) % 2 = 1 /\ (2 * i) % 2 = 0
                /\ ((2 * i - 1) + 1) \div 2 = i /\ (2 * i) \div 2 = i
           /\ \A j \in 1..(2 * m) : \E i \in 1..m : j = 2 * i - 1 \/ j = 2 * i
<1>1. ASSUME NEW j \in 1..(2 * m) PROVE \E i \in 1..m : j = 2 * i - 1 \/ j = 2 * i
    <2> DEFINE i == (j + 1) \div 2
    <2>1. i \in Int /\ (j = 2 * i - 1 \/ j = 2 * i)
        OBVIOUS
    <2> HIDE DEF i
    <2>2. i \in 1..m
        BY <2>1
    <2> QED
        BY <2>1, <2>2
<1> QED
    BY <1>1

LEMMA InTurn ==
    ASSUME NEW r \in Request, r \notin Single
    PROVE  /\ IsSequence(ByParent(r))
           /\ Range(ByParent(r)) = {ToCheck(p) : p \in Range(Provenance[r])}
                                     \cup {ToDerive(r, p) : p \in Range(Provenance[r])}
           /\ \A p \in Range(Provenance[r]) : Guarded(ByParent(r), ToDerive(r, p), ToCheck(p))
<1> DEFINE m == Len(Provenance[r])
           P == Provenance[r]
           q == ByParent(r)
<1>1. m \in Nat /\ DOMAIN P = 1..m /\ \A p \in Range(P) : p = <<p[1], p[2]>>
    BY Given
<1>2. IsSequence(q) /\ Len(q) = 2 * m /\ DOMAIN q = 1..(2 * m)
    BY <1>1, Listing DEF ByParent
<1>3. ASSUME NEW i \in 1..m
      PROVE  /\ 2 * i - 1 \in 1..(2 * m) /\ q[2 * i - 1] = ToCheck(P[i])
             /\ 2 * i \in 1..(2 * m) /\ q[2 * i] = ToDerive(r, P[i])
    <2>1. /\ 2 * i - 1 \in 1..(2 * m) /\ 2 * i \in 1..(2 * m) /\ (2 * i - 1) % 2 = 1 /\ (2 * i) % 2 = 0
          /\ ((2 * i - 1) + 1) \div 2 = i /\ (2 * i) \div 2 = i
        BY <1>1, Halves
    <2>2. q[2 * i - 1] = Say(r, i, "check") /\ q[2 * i] = Derived(r)[i]
        BY <2>1 DEF ByParent
    <2> QED
        BY <1>1, <2>1, <2>2 DEF Say, ToCheck, Derived, ToDerive, ToEdge
<1>4. \A j \in 1..(2 * m) : \E i \in 1..m : j = 2 * i - 1 \/ j = 2 * i
    BY <1>1, Halves
<1> HIDE DEF m, q
<1>5. Range(q) \subseteq {ToCheck(p) : p \in Range(P)} \cup {ToDerive(r, p) : p \in Range(P)}
    <2>1. ASSUME NEW j \in 1..(2 * m) PROVE \E p \in Range(P) : q[j] = ToCheck(p) \/ q[j] = ToDerive(r, p)
        <3>1. PICK i \in 1..m : j = 2 * i - 1 \/ j = 2 * i
            BY <1>4
        <3>2. P[i] \in Range(P)
            BY <1>1 DEF Range
        <3> QED
            BY <1>3, <3>1, <3>2
    <2> QED
        BY <1>2, <2>1 DEF Range
<1>6. {ToCheck(p) : p \in Range(P)} \cup {ToDerive(r, p) : p \in Range(P)} \subseteq Range(q)
    <2>1. ASSUME NEW i \in 1..m PROVE ToCheck(P[i]) \in Range(q) /\ ToDerive(r, P[i]) \in Range(q)
        BY <1>2, <1>3 DEF Range
    <2>2. \A p \in Range(P) : \E i \in 1..m : p = P[i]
        BY <1>1 DEF Range
    <2> QED
        BY <2>1, <2>2
<1>7. ASSUME NEW p \in Range(P), NEW j \in 1..Len(q), q[j] = ToDerive(r, p)
      PROVE  \E i \in 1..(j - 1) : q[i] = ToCheck(p)
    <2>1. PICK i \in 1..m : j = 2 * i - 1 \/ j = 2 * i
        BY <1>2, <1>4
    <2>2. q[j].do = "edge"
        BY <1>7, Shapes DEF ToDerive
    <2>3. j = 2 * i /\ q[j] = ToDerive(r, P[i])
        <3>1. ToCheck(P[i]).do = "check"
            BY Shapes
        <3>2. j # 2 * i - 1
            BY <1>3, <2>2, <3>1
        <3> QED
            BY <1>3, <2>1, <3>2
    <2>4. P[i] = p
        <3>1. Derivation(P[i]) = Derivation(p)
            <4>1. ToEdge(Derivation(P[i])) = ToEdge(Derivation(p))
                BY <1>7, <2>3 DEF ToDerive
            <4>2. ToEdge(Derivation(P[i])).edge = Derivation(P[i]) /\ ToEdge(Derivation(p)).edge = Derivation(p)
                BY Shapes
            <4> QED
                BY <4>1, <4>2
        <3>2. P[i] = <<P[i][1], P[i][2]>> /\ p = <<p[1], p[2]>>
            BY <1>1 DEF Range
        <3>3. P[i][1] = p[1] /\ P[i][2] = p[2]
            BY <3>1 DEF Derivation
        <3> QED
            BY <3>2, <3>3
    <2>5. 2 * i - 1 \in 1..(j - 1)
        BY <2>3
    <2> QED
        BY <1>3, <2>4, <2>5
<1> QED
    BY <1>2, <1>5, <1>6, <1>7 DEF Guarded, q

LEMMA SinglePlanned == ASSUME NEW r \in Request, r \in Single PROVE WellPlanned(r, Plan(r))
<1> DEFINE x == Batch[r][1]
           P == Range(Provenance[r])
           look == <<ToLook(r)>>
           checks == ForParents(r, "check")
           inserts == Inserts(r)
           link == <<ToCache>>
           rows == ForParents(r, "row")
           p1 == look \o checks
           p2 == p1 \o inserts
           p3 == p2 \o link
           q == p3 \o rows
<1>1. Plan(r) = q
    BY DEF Plan, ToLook, ToCache
<1>2. Range(Batch[r]) = {x}
    <2>1. Len(Batch[r]) = 1 /\ DOMAIN Batch[r] = 1..1
        BY Given, BoardAssumption
    <2> QED
        BY <2>1 DEF Range
<1>3. /\ IsSequence(checks) /\ Range(checks) = {ToCheck(p) : p \in P}
      /\ IsSequence(inserts) /\ Range(inserts) = {ToInsert(x)}
      /\ IsSequence(rows) /\ Range(rows) = {ToRow(p) : p \in P}
    BY <1>2, Lists
<1>4. /\ IsSequence(look) /\ Range(look) = {ToLook(r)} /\ Len(look) = 1 /\ look[1] = ToLook(r)
      /\ IsSequence(link) /\ Range(link) = {ToCache}
    BY DEF IsSequence, Range
<1> HIDE DEF look, checks, inserts, link, rows
<1>5. IsSequence(p1) /\ Range(p1) = {ToLook(r)} \cup {ToCheck(p) : p \in P} /\ p1[1] = ToLook(r)
      /\ Len(p1) \in Nat \ {0}
    <2>1. Len(checks) \in Nat
        BY <1>3 DEF IsSequence
    <2> QED
        BY <1>3, <1>4, <2>1, Joined
<1> HIDE DEF p1
<1>6. IsSequence(p2) /\ Range(p2) = Range(p1) \cup {ToInsert(x)} /\ p2[1] = ToLook(r)
      /\ Len(p2) \in Nat \ {0}
    <2>1. Len(inserts) \in Nat
        BY <1>3 DEF IsSequence
    <2> QED
        BY <1>3, <1>5, <2>1, Joined
<1>7. Sorted(p2)
    <2>1. \A s \in Range(p1) : s.do \in {"dedup", "check"}
        <3>1. \A s \in Range(p1) : s = ToLook(r) \/ \E p \in P : s = ToCheck(p)
            BY <1>5
        <3>2. ToLook(r).do = "dedup" /\ \A p \in P : ToCheck(p).do = "check"
            BY Shapes
        <3> QED
            BY <3>1, <3>2
    <2>2. Len(inserts) = 1
        BY Lists, BoardAssumption DEF inserts
    <2>3. Sorted(inserts)
        BY <2>2 DEF Sorted
    <2> QED
        BY <1>3, <1>5, <2>1, <2>3, SortedJoined DEF p2
<1> HIDE DEF p2
<1>8. IsSequence(p3) /\ Range(p3) = Range(p2) \cup {ToCache} /\ p3[1] = ToLook(r) /\ Len(p3) \in Nat \ {0}
      /\ Sorted(p3)
    <2>1. \A s \in Range(link) : s.do \notin {"dedup", "check", "insert"}
        BY <1>4, Shapes
    <2>2. Sorted(p3)
        BY <1>4, <1>6, <1>7, <2>1, SortedJoined
    <2>3. Len(link) \in Nat
        BY <1>4 DEF IsSequence
    <2> QED
        BY <1>4, <1>6, <2>2, <2>3, Joined
<1> HIDE DEF p3
<1>9. IsSequence(q) /\ Range(q) = Range(p3) \cup {ToRow(p) : p \in P} /\ q[1] = ToLook(r) /\ q # <<>>
      /\ Sorted(q)
    <2>1. \A s \in Range(rows) : s.do \notin {"dedup", "check", "insert"}
        BY <1>3, Shapes
    <2>2. Sorted(q)
        BY <1>3, <1>8, <2>1, SortedJoined
    <2>3. Len(rows) \in Nat
        BY <1>3 DEF IsSequence
    <2>4. IsSequence(q) /\ Len(q) = Len(p3) + Len(rows) /\ q[1] = p3[1] /\ Range(q) = Range(p3) \cup Range(rows)
        BY <1>3, <1>8, Joined
    <2> QED
        BY <1>3, <1>8, <2>2, <2>3, <2>4
<1>10. ASSUME NEW p \in P
       PROVE  /\ ToDerive(r, p) = ToRow(p)
              /\ ToRow(p) \notin Range(p3)
              /\ {ToInsert(x), ToCheck(p), ToCache} \subseteq Range(p3)
              /\ p[1] = x
    <2>1. p[1] = x
        BY <1>2, BoardAssumption
    <2>2. ToRow(p) \notin Range(p3)
        <3>1. \A s \in Range(p3) :
                s = ToLook(r) \/ (\E o \in P : s = ToCheck(o)) \/ s = ToInsert(x) \/ s = ToCache
            BY <1>5, <1>6, <1>8
        <3>2. ToLook(r).do = "dedup" /\ ToInsert(x).do = "insert" /\ ToCache.do = "link"
              /\ \A o \in P : ToCheck(o).do = "check"
            BY Shapes
        <3>3. ToRow(p).do = "row"
            BY Shapes
        <3> QED
            BY <3>1, <3>2, <3>3
    <2> QED
        BY <1>5, <1>6, <1>8, <2>1, <2>2 DEF ToDerive
<1>11. ASSUME NEW p \in P
       PROVE  /\ Guarded(q, ToRow(p), ToInsert(x))
              /\ Guarded(q, ToRow(p), ToCheck(p))
              /\ Guarded(q, ToRow(p), ToCache)
    BY <1>3, <1>8, <1>10, GuardedJoined
<1> HIDE DEF q
<1>12. Head(q) = ToLook(r)
    BY <1>9, Rest
<1>13. \A s \in Range(q) : Meant(r, s)
    <2>1. Range(q) = {ToLook(r), ToInsert(x), ToCache} \cup {ToCheck(p) : p \in P} \cup {ToRow(p) : p \in P}
        BY <1>5, <1>6, <1>8, <1>9
    <2> QED
        BY <1>2, <2>1 DEF Meant, ToDerive
<1>14. \A y \in Range(Batch[r]) : ToInsert(y) \in Range(q)
    BY <1>2, <1>6, <1>8, <1>9
<1>15. \A p \in P : /\ ToDerive(r, p) \in Range(q)
                    /\ Guarded(q, ToDerive(r, p), ToInsert(p[1]))
                    /\ Guarded(q, ToDerive(r, p), ToCheck(p))
                    /\ Guarded(q, ToDerive(r, p), ToCache)
    BY <1>9, <1>10, <1>11
<1> QED
    BY <1>1, <1>9, <1>12, <1>13, <1>14, <1>15 DEF WellPlanned

LEMMA BatchPlanned == ASSUME NEW r \in Request, r \notin Single PROVE WellPlanned(r, Plan(r))
<1> DEFINE P == Range(Provenance[r])
           inserts == Inserts(r)
           named == [i \in DOMAIN Explicit[r] |-> ToEdge(Explicit[r][i])]
           p1 == inserts \o named
           q == p1 \o ByParent(r)
<1>1. Plan(r) = q
    BY DEF Plan, ByParent, ToEdge
<1>2. /\ IsSequence(inserts) /\ Range(inserts) = {ToInsert(x) : x \in Range(Batch[r])}
      /\ IsSequence(named) /\ Range(named) = {ToEdge(e) : e \in Range(Explicit[r])}
    BY Lists
<1> HIDE DEF inserts, named
<1>3. IsSequence(p1) /\ Range(p1) = Range(inserts) \cup Range(named)
    BY <1>2, Joined
<1> HIDE DEF p1
<1>4. /\ IsSequence(ByParent(r))
      /\ Range(ByParent(r)) = {ToCheck(p) : p \in P} \cup {ToDerive(r, p) : p \in P}
      /\ \A p \in P : Guarded(ByParent(r), ToDerive(r, p), ToCheck(p))
    BY InTurn
<1>5. IsSequence(q) /\ Range(q) = Range(p1) \cup Range(ByParent(r))
    BY <1>3, <1>4, Joined
<1>6. ASSUME NEW p \in P
      PROVE  /\ ToDerive(r, p) \notin Range(p1)
             /\ ToInsert(p[1]) \in Range(p1)
    <2>1. p[1] \in Range(Batch[r])
        BY BoardAssumption
    <2>2. ToDerive(r, p) = ToEdge(Derivation(p)) /\ Derivation(p)[1] = p[1]
        BY DEF ToDerive, Derivation
    <2>3. ASSUME NEW x \in Range(Batch[r]) PROVE ToInsert(x) # ToEdge(Derivation(p))
        <3>1. ToInsert(x).do = "insert" /\ ToEdge(Derivation(p)).do = "edge"
            BY Shapes
        <3> QED
            BY <3>1
    <2>4. ASSUME NEW e \in Range(Explicit[r]) PROVE ToEdge(e) # ToEdge(Derivation(p))
        <3>1. e[1] \notin Range(Batch[r])
            BY BoardAssumption
        <3>2. ToEdge(e).edge = e /\ ToEdge(Derivation(p)).edge = Derivation(p)
            BY Shapes
        <3> QED
            BY <2>1, <2>2, <3>1, <3>2
    <2> QED
        BY <1>2, <1>3, <2>1, <2>2, <2>3, <2>4
<1>7. \A p \in P : /\ ToDerive(r, p) \in Range(q)
                   /\ Guarded(q, ToDerive(r, p), ToInsert(p[1]))
                   /\ Guarded(q, ToDerive(r, p), ToCheck(p))
    BY <1>3, <1>4, <1>5, <1>6, GuardedJoined
<1> HIDE DEF q
<1>8. \A s \in Range(q) : Meant(r, s)
    <2>1. Range(q) = {ToInsert(x) : x \in Range(Batch[r])} \cup {ToEdge(e) : e \in Range(Explicit[r])}
                      \cup {ToCheck(p) : p \in P} \cup {ToDerive(r, p) : p \in P}
        BY <1>2, <1>3, <1>4, <1>5
    <2> QED
        BY <2>1 DEF Meant
<1>9. \A x \in Range(Batch[r]) : ToInsert(x) \in Range(q)
    BY <1>2, <1>3, <1>5
<1> QED
    BY <1>1, <1>5, <1>7, <1>8, <1>9 DEF WellPlanned

LEMMA Planned == ASSUME NEW r \in Request PROVE WellPlanned(r, Plan(r))
BY SinglePlanned, BatchPlanned

-----------------------------------------------------------------------------
(* A request and what it has done                                           *)

BoardTyped ==
    /\ Old \subseteq atoms /\ atoms \subseteq Atom /\ retracted \subseteq atoms /\ aged \subseteq atoms
    /\ edges \subseteq Edge /\ cache \subseteq Edge
    /\ projects \subseteq Project /\ files \subseteq Upload
    /\ project \in [Atom -> Project \cup {NoProject}]
    /\ at \in [Request \cup Deletion \cup Upload -> Status]
    /\ DOMAIN todo = Request /\ todo = [r \in Request |-> todo[r]]
    /\ \A r \in Request : at[r] = "busy" <=> todo[r] # <<>>
    /\ withdrawn \in [Request -> SUBSET Atom]
    /\ raced \in [Deletion -> SUBSET Atom]
    /\ faults \in Nat /\ faults <= MaxFaults

LinkedAll(r) == \A p \in Range(Provenance[r]) : Linked(cache, p[1], p[2])

\* What guards a derivation is still to come, or has held.
Guards(r, p) ==
    LET t == ToDerive(r, p) IN
    /\ p[1] \in atoms \/ Guarded(todo[r], t, ToInsert(p[1]))
    /\ p[2] \in atoms \ withdrawn[r] \/ Guarded(todo[r], t, ToCheck(p))
    /\ r \in Single => LinkedAll(r) \/ Guarded(todo[r], t, ToCache)

Undertaking(r) ==
    /\ IsSequence(todo[r])
    /\ \A s \in Range(todo[r]) : Meant(r, s)
    /\ r \in Single => Sorted(todo[r])
    /\ r \in Single /\ Head(todo[r]).do \in {"dedup", "check", "insert"} => Batch[r][1] \notin atoms
    /\ \A p \in Range(Provenance[r]) : Guards(r, p)

\* What is not still to do is done.
Kept(r) ==
    /\ \A x \in Range(Batch[r]) : x \in atoms \/ ToInsert(x) \in Range(todo[r])
    /\ \A p \in Range(Provenance[r]) :
         Derivation(p) \in edges \/ faults > 0 \/ ToDerive(r, p) \in Range(todo[r])

RequestInv(r) ==
    /\ at[r] = "busy" => Undertaking(r)
    /\ at[r] \in {"busy", "done"} => Kept(r)
    /\ at[r] \in {"unsent", "duplicate", "error"} /\ r \in Single => Batch[r][1] \notin atoms
    /\ at[r] = "duplicate" => r \in Single
    /\ at[r] = "error" /\ faults = 0 => ~Sound(r)
    /\ withdrawn[r] \subseteq retracted

\* Atoms, edges, links and failures only come, projects only go.
Grows ==
    /\ atoms \subseteq atoms' /\ retracted \subseteq retracted' /\ edges \subseteq edges'
    /\ cache \subseteq cache' /\ faults <= faults' /\ projects' \subseteq projects
    /\ faults \in Nat /\ faults' \in Nat

LEMMA LinksLast ==
    ASSUME cache \subseteq cache'
    PROVE  /\ \A x, y : Linked(cache, x, y) => Linked(cache', x, y)
           /\ \A r : LinkedAll(r) => LinkedAll(r)'
BY DEF Linked, LinkedAll

LEMMA SoundBefore == ASSUME Grows, NEW r \in Request, Sound(r)' PROVE Sound(r)
BY DEF Grows, Sound

\* What others do leaves a request as it was.
LEMMA OtherRequest ==
    ASSUME Grows, NEW r \in Request, RequestInv(r),
           todo'[r] = todo[r], at'[r] = at[r], withdrawn'[r] = withdrawn[r],
           (atoms' \ atoms) \cap Range(Batch[r]) = {}
    PROVE  RequestInv(r)'
<1>1. r \in Single => Batch[r][1] \in Range(Batch[r])
    <2>1. r \in Single => 1 \in DOMAIN Batch[r]
        BY Given, BoardAssumption
    <2> QED
        BY <2>1 DEF Range
<1>2. ASSUME NEW p \in Range(Provenance[r]), Guards(r, p) PROVE Guards(r, p)'
    BY <1>2, LinksLast DEF Grows, Guards
<1>3. Undertaking(r) => Undertaking(r)'
    BY <1>1, <1>2 DEF Undertaking
<1>4. Kept(r) => Kept(r)'
    BY DEF Kept, Grows
<1> QED
    BY <1>1, <1>3, <1>4, SoundBefore DEF RequestInv, Grows

\* A request goes on, having run its first statement.
LEMMA RunRequest ==
    ASSUME Grows, NEW r \in Request, RequestInv(r), at[r] = "busy", todo[r] # <<>>,
           todo'[r] = Tail(todo[r]), withdrawn'[r] = withdrawn[r],
           at'[r] = IF Len(todo[r]) = 1 THEN "done" ELSE "busy",
           \A x \in Range(Batch[r]) : Head(todo[r]) = ToInsert(x) => x \in atoms',
           \A x \in Range(Batch[r]) : x \in atoms' \ atoms => Head(todo[r]) = ToInsert(x),
           \A p \in Range(Provenance[r]) : Head(todo[r]) = ToCheck(p) => p[2] \in atoms' \ withdrawn[r],
           \A p \in Range(Provenance[r]) :
                Head(todo[r]) = ToDerive(r, p) => Derivation(p) \in edges' \/ faults' > 0,
           Head(todo[r]) = ToCache => LinkedAll(r)'
    PROVE  RequestInv(r)'
<1> DEFINE q == todo[r]
           h == Head(q)
<1>1. Undertaking(r) /\ Kept(r) /\ IsSequence(q)
    BY DEF RequestInv, Undertaking
<1>2. /\ IsSequence(Tail(q)) /\ Range(q) = {h} \cup Range(Tail(q))
      /\ (Tail(q) = <<>>) = (Len(q) = 1)
    BY <1>1, Rest
<1>3. r \in Single => Batch[r][1] \in Range(Batch[r])
    <2>1. r \in Single => 1 \in DOMAIN Batch[r]
        BY Given, BoardAssumption
    <2> QED
        BY <2>1 DEF Range
<1>4. Kept(r)'
    BY <1>1, <1>2 DEF Kept, Grows
<1>5. ASSUME NEW p \in Range(Provenance[r]) PROVE Guards(r, p)'
    <2>1. Guards(r, p)
        BY <1>1 DEF Undertaking
    <2>2. p[1] \in Range(Batch[r])
        BY BoardAssumption
    <2>3. p[1] \in atoms' \/ Guarded(Tail(q), ToDerive(r, p), ToInsert(p[1]))
        BY <1>1, <2>1, <2>2, GuardedRest DEF Guards, Grows
    <2>4. p[2] \in atoms' \ withdrawn[r] \/ Guarded(Tail(q), ToDerive(r, p), ToCheck(p))
        BY <1>1, <2>1, GuardedRest DEF Guards, Grows
    <2>5. r \in Single => LinkedAll(r)' \/ Guarded(Tail(q), ToDerive(r, p), ToCache)
        BY <1>1, <2>1, GuardedRest, LinksLast DEF Guards, Grows
    <2> QED
        BY <2>3, <2>4, <2>5 DEF Guards
<1>6. ASSUME at'[r] = "busy" PROVE Undertaking(r)'
    <2>1. Tail(q) # <<>>
        BY <1>2, <1>6
    <2>2. ASSUME r \in Single, Head(Tail(q)).do \in {"dedup", "check", "insert"}
          PROVE  Batch[r][1] \notin atoms'
        <3>1. h.do \in {"dedup", "check"}
            BY <1>1, <2>1, <2>2, SortedRest DEF Undertaking
        <3>2. ToInsert(Batch[r][1]).do = "insert"
            BY Shapes
        <3> QED
            BY <1>1, <1>3, <2>2, <3>1, <3>2 DEF Undertaking
    <2>3. r \in Single => Sorted(Tail(q))
        BY <1>1, SortedRest DEF Undertaking
    <2> QED
        BY <1>1, <1>2, <1>5, <2>2, <2>3 DEF Undertaking
<1>7. withdrawn'[r] \subseteq retracted'
    BY DEF RequestInv, Grows
<1> QED
    BY <1>4, <1>6, <1>7 DEF RequestInv

\* A request ends with what it has not done undone.
LEMMA StopRequest ==
    ASSUME Grows, NEW r \in Request, RequestInv(r), at[r] = "busy", todo[r] # <<>>,
           at'[r] \in {"duplicate", "error"}, withdrawn'[r] = withdrawn[r], UNCHANGED atoms,
           Head(todo[r]).do \in {"dedup", "check", "insert"},
           at'[r] = "duplicate" => r \in Single,
           at'[r] = "error" /\ faults' = 0 => ~Sound(r)
    PROVE  RequestInv(r)'
<1>1. r \in Single => Batch[r][1] \notin atoms'
    BY DEF RequestInv, Undertaking
<1>2. withdrawn'[r] \subseteq retracted'
    BY DEF RequestInv, Grows
<1> QED
    BY <1>1, <1>2, SoundBefore DEF RequestInv

\* A batch has put an edge into the table and is to tell the cache.
LEMMA AddRequest ==
    ASSUME Grows, NEW r \in Request, RequestInv(r), at[r] = "busy", todo[r] # <<>>, r \notin Single,
           NEW e \in Edge, Head(todo[r]) = ToEdge(e), e \in edges', atoms' = atoms,
           todo'[r] = <<ToAdd(e)>> \o Tail(todo[r]), withdrawn'[r] = withdrawn[r], at'[r] = at[r]
    PROVE  RequestInv(r)'
<1> DEFINE q == todo[r]
           h == Head(q)
           a == <<ToAdd(e)>>
<1>1. Undertaking(r) /\ Kept(r) /\ IsSequence(q)
    BY DEF RequestInv, Undertaking
<1>2. IsSequence(Tail(q)) /\ Range(q) = {h} \cup Range(Tail(q))
    BY <1>1, Rest
<1>3. IsSequence(a) /\ Range(a) = {ToAdd(e)}
    BY DEF IsSequence, Range
<1> HIDE DEF a
<1>4. IsSequence(a \o Tail(q)) /\ Range(a \o Tail(q)) = {ToAdd(e)} \cup Range(Tail(q))
    BY <1>2, <1>3, Joined
<1>5. ToAdd(e).do = "add" /\ h.do = "edge" /\ h.edge = e
    <2>1. ToAdd(e).do = "add" /\ ToEdge(e).do = "edge" /\ ToEdge(e).edge = e
        BY Shapes
    <2> QED
        BY <2>1
<1>6. ASSUME NEW p \in Range(Provenance[r])
      PROVE  /\ ToDerive(r, p) = ToEdge(Derivation(p)) /\ ToDerive(r, p).do = "edge"
             /\ ToDerive(r, p).edge = Derivation(p)
             /\ ToCheck(p).do = "check" /\ ToInsert(p[1]).do = "insert"
    BY Shapes DEF ToDerive
<1>7. \A x \in Range(Batch[r]) : ToInsert(x).do = "insert"
    BY Shapes
<1>8. Kept(r)'
    BY <1>1, <1>2, <1>4, <1>5, <1>6, <1>7 DEF Kept, Grows, a
<1>9. ASSUME NEW p \in Range(Provenance[r]) PROVE Guards(r, p)'
    <2>1. Guards(r, p)
        BY <1>1 DEF Undertaking
    <2>2. p[1] \in atoms' \/ Guarded(a \o Tail(q), ToDerive(r, p), ToInsert(p[1]))
        BY <1>1, <1>2, <1>3, <1>5, <1>6, <2>1, GuardedRest, GuardedJoined DEF Guards
    <2>3. p[2] \in atoms' \ withdrawn[r] \/ Guarded(a \o Tail(q), ToDerive(r, p), ToCheck(p))
        BY <1>1, <1>2, <1>3, <1>5, <1>6, <2>1, GuardedRest, GuardedJoined DEF Guards
    <2> QED
        BY <2>2, <2>3 DEF Guards, a
<1>10. \A s \in Range(a \o Tail(q)) : Meant(r, s)
    BY <1>1, <1>2, <1>4 DEF Undertaking, Meant
<1>11. Undertaking(r)'
    BY <1>4, <1>9, <1>10 DEF Undertaking, a
<1>12. withdrawn'[r] \subseteq retracted'
    BY DEF RequestInv, Grows
<1> QED
    BY <1>8, <1>11, <1>12 DEF RequestInv

\* A request comes.
LEMMA AcceptRequest ==
    ASSUME NEW r \in Request, BoardTyped, RequestInv(r), Accept(r)
    PROVE  RequestInv(r)'
<1>1. /\ at[r] = "unsent" /\ todo'[r] = Plan(r) /\ withdrawn'[r] = retracted
      /\ at'[r] = IF Plan(r) = <<>> THEN "done" ELSE "busy"
      /\ UNCHANGED <<atoms, edges, cache, faults, retracted, projects>>
    BY DEF Accept, Becomes, BoardTyped, content, graph, owned
<1>2. WellPlanned(r, Plan(r))
    BY Planned
<1>3. Kept(r)'
    BY <1>1, <1>2 DEF Kept, WellPlanned
<1>4. ASSUME NEW p \in Range(Provenance[r]) PROVE Guards(r, p)'
    BY <1>1, <1>2 DEF Guards, WellPlanned
<1>5. Undertaking(r)'
    BY <1>1, <1>2, <1>4 DEF Undertaking, WellPlanned, RequestInv
<1> QED
    BY <1>1, <1>3, <1>5 DEF RequestInv

-----------------------------------------------------------------------------
(* The board                                                                *)

\* Every row is in the cache or about to be.
RowsCached == \A e \in edges : Linked(cache, e[1], e[2]) \/ Adding(e)

\* A derivation is its request's, which found the parent there, or asserted.
OwnDerivations ==
    \A r \in Request : \A p \in Range(Provenance[r]) :
        Derivation(p) \in edges =>
            Asserted(Derivation(p)) \/ (at[r] # "unsent" /\ p[2] \notin withdrawn[r])

\* Requests under way together have met; a request past its look for a twin
\* has met every request whose atom would be one.
Twin(q, r) ==
    /\ Content[Batch[q][1]] = Content[Batch[r][1]]
    /\ Batch[q][1] \in atoms \ (retracted \cup aged)

Met ==
    /\ \A q, r \in Request : q # r /\ at[q] = "busy" /\ at[r] = "busy" => {q, r} \in met
    /\ \A q, r \in Single : q # r /\ at[r] = "busy" /\ Head(todo[r]).do # "dedup" /\ Twin(q, r)
          => {q, r} \in met
    /\ \A q, r \in Single : q # r /\ Twin(q, r) /\ Twin(r, q) => {q, r} \in met

\* An atom of a project being deleted came after its atoms were stripped.
Stripped ==
    \A d \in Deletion : at[d] = "busy" =>
        \A x \in Atom : project[x] = Target[d] => x \in raced[d]

Requests == \A r \in Request : RequestInv(r)

BoardInv == /\ BoardTyped /\ Requests /\ RowsCached /\ OwnDerivations
            /\ Met /\ Stripped /\ DeleteFailsOnlyForRace

\* What the first statement of a request is about.
LEMMA FirstMeant ==
    ASSUME NEW r \in Request, RequestInv(r), at[r] = "busy", todo[r] # <<>>
    PROVE  LET h == Head(todo[r]) IN
           /\ IsSequence(todo[r]) /\ h \in Range(todo[r])
           /\ h.do = "dedup" => r \in Single /\ h.atom = Batch[r][1]
           /\ h.do = "insert" => \E x \in Range(Batch[r]) : h = ToInsert(x) /\ h.atom = x
           /\ h.do = "check" => \E p \in Range(Provenance[r]) : h = ToCheck(p) /\ h.parent = p[2]
           /\ h.do = "link" => r \in Single /\ h = ToCache
           /\ h.do = "row" => r \in Single /\ \E p \in Range(Provenance[r]) :
                h = ToDerive(r, p) /\ h.atom = p[1] /\ h.parent = p[2]
           /\ h.do = "edge" => r \notin Single /\ h = ToEdge(h.edge) /\ h.edge \in Edge
                /\ \/ h.edge \in Range(Explicit[r])
                   \/ \E p \in Range(Provenance[r]) : h = ToDerive(r, p) /\ h.edge = Derivation(p)
           /\ h.do = "add" => r \notin Single /\ h.edge \in Edge /\ h = ToAdd(h.edge)
<1> DEFINE h == Head(todo[r])
<1>1. IsSequence(todo[r]) /\ h \in Range(todo[r]) /\ Meant(r, h)
    <2>1. Undertaking(r)
        BY DEF RequestInv
    <2> QED
        BY <2>1, Rest DEF Undertaking
<1>2. CASE r \in Single /\ h = ToLook(r)
    <2>1. ToLook(r).do = "dedup" /\ ToLook(r).atom = Batch[r][1]
        BY Shapes
    <2> QED
        BY <1>1, <1>2, <2>1
<1>3. ASSUME NEW x \in Range(Batch[r]), h = ToInsert(x) PROVE h.do = "insert" /\ h.atom = x
    <2>1. ToInsert(x).do = "insert" /\ ToInsert(x).atom = x
        BY Shapes
    <2> QED
        BY <1>3, <2>1
<1>4. ASSUME NEW p \in Range(Provenance[r]), h = ToCheck(p) PROVE h.do = "check" /\ h.parent = p[2]
    <2>1. ToCheck(p).do = "check" /\ ToCheck(p).parent = p[2]
        BY Shapes
    <2> QED
        BY <1>4, <2>1
<1>5. ASSUME NEW p \in Range(Provenance[r]), h = ToDerive(r, p), r \in Single
      PROVE  h.do = "row" /\ h.atom = p[1] /\ h.parent = p[2]
    <2>1. ToRow(p).do = "row" /\ ToRow(p).atom = p[1] /\ ToRow(p).parent = p[2]
        BY Shapes
    <2> QED
        BY <1>5, <2>1 DEF ToDerive
<1>6. ASSUME NEW e, h = ToEdge(e) PROVE h.do = "edge" /\ h.edge = e
    <2>1. ToEdge(e).do = "edge" /\ ToEdge(e).edge = e
        BY Shapes
    <2> QED
        BY <1>6, <2>1
<1>7. ASSUME NEW p \in Range(Provenance[r]), h = ToDerive(r, p), r \notin Single
      PROVE  h.do = "edge" /\ h.edge = Derivation(p) /\ h = ToEdge(h.edge) /\ Derivation(p) \in Edge
    <2>1. Derivation(p) \in Edge
        BY Given DEF Derivation, Edge, EdgeType
    <2> QED
        BY <1>6, <1>7, <2>1 DEF ToDerive
<1>8. CASE r \in Single /\ h = ToCache
    <2>1. ToCache.do = "link"
        BY Shapes
    <2> QED
        BY <1>1, <1>8, <2>1
<1>9. ASSUME NEW e \in Edge, h = ToAdd(e) PROVE h.do = "add" /\ h.edge = e
    <2>1. ToAdd(e).do = "add" /\ ToAdd(e).edge = e
        BY Shapes
    <2> QED
        BY <1>9, <2>1
<1>10. Range(Explicit[r]) \subseteq Edge
    BY Given
<1>11. CASE \E x \in Range(Batch[r]) : h = ToInsert(x)
    BY <1>1, <1>3, <1>11
<1>12. CASE \E p \in Range(Provenance[r]) : h = ToCheck(p)
    BY <1>1, <1>4, <1>12
<1>13. CASE \E p \in Range(Provenance[r]) : h = ToDerive(r, p)
    <2>1. CASE r \in Single
        BY <1>1, <1>5, <1>13, <2>1
    <2>2. CASE r \notin Single
        BY <1>1, <1>7, <1>13, <2>2
    <2> QED
        BY <2>1, <2>2
<1>14. CASE r \notin Single /\ \E e \in Range(Explicit[r]) : h = ToEdge(e)
    BY <1>1, <1>6, <1>10, <1>14
<1>15. CASE r \notin Single /\ \E e \in Edge : h = ToAdd(e)
    BY <1>1, <1>9, <1>15
<1> QED
    BY <1>1, <1>2, <1>8, <1>11, <1>12, <1>13, <1>14, <1>15 DEF Meant

\* What kind of statement the first is tells which of the others it is not.
LEMMA FirstIs ==
    ASSUME NEW r, NEW h
    PROVE  /\ \A x : h = ToInsert(x) => h.do = "insert"
           /\ \A p : h = ToCheck(p) => h.do = "check"
           /\ \A p : h = ToDerive(r, p) => h.do \in {"row", "edge"}
           /\ h = ToCache => h.do = "link"
<1>1. \A x : ToInsert(x).do = "insert"
    BY Shapes
<1>2. \A p : ToCheck(p).do = "check"
    BY Shapes
<1>3. \A p : ToRow(p).do = "row"
    BY Shapes
<1>4. \A e : ToEdge(e).do = "edge"
    BY Shapes
<1>5. ToCache.do = "link"
    BY Shapes
<1> QED
    BY <1>1, <1>2, <1>3, <1>4, <1>5 DEF ToDerive

LEMMA OnlyOne ==
    ASSUME BoardTyped, NEW r \in Request
    PROVE  /\ Continue(r) => /\ todo'[r] = Tail(todo[r])
                             /\ at'[r] = IF Len(todo[r]) = 1 THEN "done" ELSE "busy"
                             /\ \A q \in Request \ {r} : todo'[q] = todo[q] /\ at'[q] = at[q]
           /\ \A s : Stop(r, s) => /\ todo'[r] = <<>> /\ at'[r] = s
                                   /\ \A q \in Request \ {r} : todo'[q] = todo[q] /\ at'[q] = at[q]
BY DEF BoardTyped, Continue, Stop, Becomes

\* The statements of a publish request.
Running(r) == \/ Dedup(r) \/ CheckParent(r) \/ InsertAtom(r) \/ LinkCache(r) \/ InsertParentRow(r)
              \/ InsertEdge(r) \/ AddToCache(r) \/ Fail(r)

LEMMA RunningGrows ==
    ASSUME BoardTyped, NEW r \in Request, Running(r)
    PROVE  /\ Grows /\ UNCHANGED <<withdrawn, met, retracted, aged>>
           /\ at[r] = "busy" /\ todo[r] # <<>>
<1> USE DEF content, graph, owned, history, Grows, BoardTyped
<1>1. CASE Dedup(r) \/ CheckParent(r)
    BY <1>1 DEF Dedup, CheckParent, Doing
<1>2. CASE InsertAtom(r)
    BY <1>2 DEF InsertAtom, Doing
<1>3. CASE LinkCache(r) \/ InsertParentRow(r)
    BY <1>3 DEF LinkCache, InsertParentRow, InsertRow, Doing
<1>4. CASE InsertEdge(r) \/ AddToCache(r)
    BY <1>4 DEF InsertEdge, AddToCache, InsertRow, AddEdge, Doing
<1>5. CASE Fail(r)
    BY <1>5 DEF Fail
<1> QED
    BY <1>1, <1>2, <1>3, <1>4, <1>5 DEF Running

LEMMA DedupStep ==
    ASSUME BoardTyped, NEW r \in Request, RequestInv(r), Dedup(r) PROVE RequestInv(r)'
<1>1. Grows /\ withdrawn' = withdrawn /\ at[r] = "busy" /\ todo[r] # <<>>
    BY RunningGrows DEF Running
<1>2. Head(todo[r]).do = "dedup" /\ r \in Single /\ UNCHANGED <<atoms, edges, cache>>
    BY <1>1, FirstMeant DEF Dedup, Doing, content, graph
<1>3. CASE Continue(r)
    BY <1>1, <1>2, <1>3, OnlyOne, FirstIs, RunRequest
<1>4. CASE Stop(r, "duplicate")
    BY <1>1, <1>2, <1>4, OnlyOne, StopRequest
<1> QED
    BY <1>3, <1>4 DEF Dedup

LEMMA CheckStep ==
    ASSUME BoardTyped, NEW r \in Request, RequestInv(r), CheckParent(r) PROVE RequestInv(r)'
<1>1. Grows /\ withdrawn' = withdrawn /\ at[r] = "busy" /\ todo[r] # <<>>
    BY RunningGrows DEF Running
<1>2. PICK p \in Range(Provenance[r]) : Head(todo[r]) = ToCheck(p) /\ Head(todo[r]).parent = p[2]
    BY <1>1, FirstMeant DEF CheckParent, Doing
<1>3. Head(todo[r]).do = "check" /\ UNCHANGED <<atoms, edges, cache, retracted>>
    BY DEF CheckParent, Doing, content, graph
<1>4. CASE Alive(p[2]) /\ Continue(r)
    <2>1. p[2] \in atoms' \ withdrawn[r]
        BY <1>3, <1>4 DEF Alive, RequestInv
    <2>2. \A o \in Range(Provenance[r]) : Head(todo[r]) = ToCheck(o) => o[2] = p[2]
        BY <1>2, Shapes
    <2> QED
        BY <1>1, <1>3, <1>4, <2>1, <2>2, OnlyOne, FirstIs, RunRequest
<1>5. CASE ~Alive(p[2]) /\ Stop(r, "error")
    <2>1. ~Sound(r)
        BY <1>5 DEF Sound, Alive, BoardTyped
    <2> QED
        BY <1>1, <1>3, <1>5, <2>1, OnlyOne, StopRequest
<1> QED
    BY <1>2, <1>4, <1>5 DEF CheckParent

LEMMA InsertStep ==
    ASSUME BoardTyped, NEW r \in Request, RequestInv(r), InsertAtom(r)
    PROVE  RequestInv(r)' /\ \A q \in Request \ {r} : (atoms' \ atoms) \cap Range(Batch[q]) = {}
<1>1. Grows /\ withdrawn' = withdrawn /\ at[r] = "busy" /\ todo[r] # <<>>
    BY RunningGrows DEF Running
<1>2. PICK x \in Range(Batch[r]) : Head(todo[r]) = ToInsert(x) /\ Head(todo[r]).atom = x
    BY <1>1, FirstMeant DEF InsertAtom, Doing
<1>3. Head(todo[r]).do = "insert" /\ UNCHANGED <<edges, cache>>
    BY DEF InsertAtom, Doing, graph
<1>4. atoms' \subseteq atoms \cup {x}
    BY <1>2 DEF InsertAtom
<1>5. \A q \in Request \ {r} : (atoms' \ atoms) \cap Range(Batch[q]) = {}
    BY <1>4, BoardAssumption
<1>6. CASE atoms' = atoms \cup {x} /\ Continue(r)
    <2>1. \A y \in Range(Batch[r]) : (Head(todo[r]) = ToInsert(y) => y \in atoms')
            /\ (y \in atoms' \ atoms => Head(todo[r]) = ToInsert(y))
        BY <1>2, <1>6, Shapes
    <2> QED
        BY <1>1, <1>3, <1>5, <1>6, <2>1, OnlyOne, FirstIs, RunRequest
<1>7. CASE Wanted[x] \notin projects \cup {NoProject} /\ atoms' = atoms /\ Stop(r, "error")
    <2>1. ~Sound(r)
        BY <1>7 DEF Sound
    <2> QED
        BY <1>1, <1>3, <1>5, <1>7, <2>1, OnlyOne, StopRequest
<1> QED
    BY <1>2, <1>6, <1>7 DEF InsertAtom

LEMMA LinkStep ==
    ASSUME BoardTyped, NEW r \in Request, RequestInv(r), LinkCache(r) PROVE RequestInv(r)'
<1>1. Grows /\ withdrawn' = withdrawn /\ at[r] = "busy" /\ todo[r] # <<>>
    BY RunningGrows DEF Running
<1>2. Head(todo[r]).do = "link" /\ UNCHANGED <<atoms, edges>>
    BY DEF LinkCache, Doing, content
<1>3. LinkedAll(r)'
    <2> SUFFICES ASSUME NEW p \in Range(Provenance[r]) PROVE Linked(cache', p[1], p[2])
        BY DEF LinkedAll
    <2>1. CASE Linked(cache, p[1], p[2])
        BY <1>1, <2>1, LinksLast DEF Grows
    <2>2. CASE ~Linked(cache, p[1], p[2])
        <3>1. <<p[1], p[2], "derived_from">> \in cache'
            BY <2>2 DEF LinkCache, Derivation
        <3> QED
            BY <3>1 DEF Linked, EdgeType
    <2> QED
        BY <2>1, <2>2
<1> QED
    BY <1>1, <1>2, <1>3, OnlyOne, FirstIs, RunRequest DEF LinkCache

LEMMA RowStep ==
    ASSUME BoardTyped, NEW r \in Request, RequestInv(r), InsertParentRow(r)
    PROVE  /\ RequestInv(r)' /\ r \in Single
           /\ \E p \in Range(Provenance[r]) : Head(todo[r]) = ToDerive(r, p) /\ edges' = edges \cup {Derivation(p)}
<1>1. Grows /\ withdrawn' = withdrawn /\ at[r] = "busy" /\ todo[r] # <<>>
    BY RunningGrows DEF Running
<1>2. /\ Head(todo[r]).do = "row" /\ UNCHANGED <<atoms, cache>> /\ Continue(r)
      /\ edges' = InsertRow(edges, Head(todo[r]).atom, Head(todo[r]).parent, "derived_from")
    BY DEF InsertParentRow, Doing, content
<1>3. r \in Single
      /\ \E p \in Range(Provenance[r]) :
            Head(todo[r]) = ToDerive(r, p) /\ Head(todo[r]).atom = p[1] /\ Head(todo[r]).parent = p[2]
    BY <1>1, <1>2, FirstMeant
<1>4. PICK p \in Range(Provenance[r]) :
        Head(todo[r]) = ToDerive(r, p) /\ edges' = edges \cup {Derivation(p)}
    BY <1>2, <1>3 DEF InsertRow, Derivation
<1>5. \A o \in Range(Provenance[r]) : Head(todo[r]) = ToDerive(r, o) => Derivation(o) \in edges'
    <2> SUFFICES ASSUME NEW o \in Range(Provenance[r]), Head(todo[r]) = ToDerive(r, o)
                 PROVE  Derivation(o) \in edges'
        OBVIOUS
    <2>1. ToRow(o) = ToRow(p)
        BY <1>3, <1>4 DEF ToDerive
    <2>2. o[1] = p[1] /\ o[2] = p[2]
        BY <2>1 DEF ToRow
    <2> QED
        BY <1>4, <2>2 DEF Derivation
<1>6. RequestInv(r)'
    BY <1>1, <1>2, <1>5, OnlyOne, FirstIs, RunRequest
<1> QED
    BY <1>3, <1>4, <1>6

\* When a derivation is to be put into the table, its ends are there.
LEMMA DerivesAlive ==
    ASSUME NEW r \in Request, RequestInv(r), at[r] = "busy", todo[r] # <<>>,
           NEW p \in Range(Provenance[r]), Head(todo[r]) = ToDerive(r, p)
    PROVE  /\ p[1] \in atoms /\ p[2] \in atoms \ withdrawn[r]
           /\ r \in Single => LinkedAll(r)
<1>1. IsSequence(todo[r]) /\ Guards(r, p)
    BY DEF RequestInv, Undertaking
<1> QED
    BY <1>1, GuardedFirst DEF Guards

LEMMA EdgeStep ==
    ASSUME BoardTyped, NEW r \in Request, RequestInv(r), InsertEdge(r)
    PROVE  /\ RequestInv(r)' /\ r \notin Single /\ atoms' = atoms
           /\ \/ edges' = edges
              \/ \E e \in Edge :
                   /\ edges' = edges \cup {e} /\ Doing(r, "add")' /\ Head(todo'[r]).edge = e
                   /\ \/ e \in Range(Explicit[r])
                      \/ \E p \in Range(Provenance[r]) : Head(todo[r]) = ToDerive(r, p) /\ e = Derivation(p)
<1>1. Grows /\ withdrawn' = withdrawn /\ at[r] = "busy" /\ todo[r] # <<>>
    BY RunningGrows DEF Running
<1> DEFINE e == Head(todo[r]).edge
<1>2. Head(todo[r]).do = "edge" /\ UNCHANGED <<atoms, cache>>
    BY DEF InsertEdge, Doing, content
<1>3. /\ r \notin Single /\ Head(todo[r]) = ToEdge(e) /\ e \in Edge
      /\ \/ e \in Range(Explicit[r])
         \/ \E p \in Range(Provenance[r]) : Head(todo[r]) = ToDerive(r, p) /\ e = Derivation(p)
    BY <1>1, <1>2, FirstMeant
<1>4. CASE e[1] # e[2] /\ {e[1], e[2]} \subseteq atoms /\ e \notin edges
    <2>1. /\ edges' = InsertRow(edges, e[1], e[2], e[3]) /\ UNCHANGED at
          /\ todo' = [todo EXCEPT ![r] = <<ToAdd(e)>> \o Tail(@)]
        BY <1>4 DEF InsertEdge, ToAdd
    <2>2. edges' = edges \cup {e}
        BY <1>3, <2>1 DEF InsertRow, Edge
    <2>3. todo'[r] = <<ToAdd(e)>> \o Tail(todo[r])
        BY <2>1 DEF BoardTyped
    <2>4. RequestInv(r)'
        BY <1>1, <1>2, <1>3, <2>1, <2>2, <2>3, AddRequest
    <2>5. todo'[r] # <<>> /\ Head(todo'[r]) = ToAdd(e)
        <3>1. IsSequence(todo[r]) /\ IsSequence(Tail(todo[r]))
            BY <1>1, FirstMeant, Rest
        <3> QED
            BY <2>3, <3>1 DEF IsSequence
    <2>6. ToAdd(e).do = "add" /\ ToAdd(e).edge = e
        BY Shapes
    <2> QED
        BY <1>1, <1>2, <1>3, <2>1, <2>2, <2>4, <2>5, <2>6 DEF Doing
<1>5. CASE ~(e[1] # e[2] /\ {e[1], e[2]} \subseteq atoms /\ e \notin edges)
    <2>1. Continue(r) /\ edges' = edges
        BY <1>5 DEF InsertEdge
    <2>2. ASSUME NEW p \in Range(Provenance[r]), Head(todo[r]) = ToDerive(r, p)
          PROVE  Derivation(p) \in edges'
        <3>1. p[1] \in atoms /\ p[2] \in atoms
            BY <1>1, <2>2, DerivesAlive
        <3>2. p[1] # p[2]
            BY BoardAssumption
        <3>3. ToEdge(Derivation(p)).edge = Derivation(p)
            BY Shapes
        <3>4. e = Derivation(p)
            BY <1>3, <2>2, <3>3 DEF ToDerive
        <3> QED
            BY <1>5, <2>1, <3>1, <3>2, <3>4 DEF Derivation
    <2>3. RequestInv(r)'
        BY <1>1, <1>2, <2>1, <2>2, OnlyOne, FirstIs, RunRequest
    <2> QED
        BY <1>2, <1>3, <2>1, <2>3
<1> QED
    BY <1>4, <1>5

LEMMA AddStep ==
    ASSUME BoardTyped, NEW r \in Request, RequestInv(r), AddToCache(r)
    PROVE  /\ RequestInv(r)' /\ edges' = edges
           /\ LET e == Head(todo[r]).edge IN Linked(cache', e[1], e[2])
<1>1. Grows /\ withdrawn' = withdrawn /\ at[r] = "busy" /\ todo[r] # <<>>
    BY RunningGrows DEF Running
<1>2. /\ Head(todo[r]).do = "add" /\ UNCHANGED <<atoms, edges>> /\ Continue(r)
      /\ cache' = AddEdge(cache, Head(todo[r]).edge[1], Head(todo[r]).edge[2], Head(todo[r]).edge[3])
    BY DEF AddToCache, Doing, content
<1>3. RequestInv(r)'
    BY <1>1, <1>2, OnlyOne, FirstIs, RunRequest
<1>4. Head(todo[r]).edge \in Edge
    BY <1>1, <1>2, FirstMeant
<1>5. Linked(cache', Head(todo[r]).edge[1], Head(todo[r]).edge[2])
    <2> DEFINE e == Head(todo[r]).edge
    <2>1. e[3] \in EdgeType
        BY <1>4 DEF Edge
    <2> HIDE DEF e
    <2> QED
        BY <1>2, <2>1 DEF AddEdge, InsertRow, Linked, e
<1> QED
    BY <1>2, <1>3, <1>5

LEMMA FailStep ==
    ASSUME BoardTyped, NEW r \in Request, RequestInv(r), Fail(r)
    PROVE  /\ RequestInv(r)' /\ UNCHANGED <<atoms, edges, cache>>
           /\ Head(todo[r]).do \in {"dedup", "check", "insert", "row", "edge"}
           /\ Continue(r) => Head(todo[r]).do \in {"row", "edge"}
<1>1. Grows /\ withdrawn' = withdrawn /\ at[r] = "busy" /\ todo[r] # <<>>
    BY RunningGrows DEF Running
<1>2. UNCHANGED <<atoms, edges, cache>> /\ faults' > 0
    BY DEF Fail, content, graph, BoardTyped
<1>3. \/ Head(todo[r]).do \in {"dedup", "check", "insert"} /\ Stop(r, "error")
      \/ Head(todo[r]).do \in {"row", "edge"} /\ Continue(r)
    BY DEF Fail
<1>4. CASE Head(todo[r]).do \in {"dedup", "check", "insert"} /\ Stop(r, "error")
    <2>1. todo'[r] = <<>> /\ at'[r] = "error"
        BY <1>4, OnlyOne
    <2>2. RequestInv(r)'
        BY <1>1, <1>2, <1>4, <2>1, StopRequest
    <2>3. ~Continue(r)
        BY <2>1, OnlyOne
    <2> QED
        BY <1>2, <1>4, <2>2, <2>3
<1>5. CASE Head(todo[r]).do \in {"row", "edge"} /\ Continue(r)
    BY <1>1, <1>2, <1>5, OnlyOne, FirstIs, RunRequest
<1> QED
    BY <1>3, <1>4, <1>5

-----------------------------------------------------------------------------
(* Steps of the board                                                       *)

\* A request's statement changes no other request, no deletion, no upload.
LEMMA RunningAlone ==
    ASSUME BoardTyped, NEW r \in Request, Running(r)
    PROVE  /\ \A q \in (Request \cup Deletion \cup Upload) \ {r} : at'[q] = at[q]
           /\ \A q \in Request \ {r} : todo'[q] = todo[q]
           /\ UNCHANGED <<projects, files>>
<1> USE DEF BoardTyped, Continue, Stop, Becomes, owned
<1>1. CASE Dedup(r) \/ CheckParent(r)
    BY <1>1 DEF Dedup, CheckParent
<1>2. CASE InsertAtom(r)
    BY <1>2 DEF InsertAtom
<1>3. CASE LinkCache(r) \/ InsertParentRow(r)
    BY <1>3 DEF LinkCache, InsertParentRow
<1>4. CASE InsertEdge(r) \/ AddToCache(r)
    BY <1>4 DEF InsertEdge, AddToCache
<1>5. CASE Fail(r)
    BY <1>5 DEF Fail
<1> QED
    BY <1>1, <1>2, <1>3, <1>4, <1>5 DEF Running

\* What is no statement of a request.
Elsewhere ==
    \/ \E x \in Atom : Retract(x) \/ Age(x)
    \/ \E d \in Deletion : StripAtoms(d) \/ DeleteProject(d)
    \/ \E u \in Upload : FindProject(u) \/ UploadFile(u) \/ DeleteFile(u)

LEMMA ElsewhereGrows ==
    ASSUME BoardTyped, Elsewhere
    PROVE  /\ Grows /\ UNCHANGED <<atoms, edges, cache, todo, withdrawn, met, raced, faults>>
           /\ aged \subseteq aged' /\ \A q \in Request : at'[q] = at[q]
<1> DEFINE Goal == /\ Grows /\ UNCHANGED <<atoms, edges, cache, todo, withdrawn, met, raced, faults>>
                   /\ aged \subseteq aged' /\ \A q \in Request : at'[q] = at[q]
<1> USE BoardAssumption DEF content, graph, owned, history, Grows, BoardTyped, Becomes
<1>1. ASSUME NEW x \in Atom, Retract(x) \/ Age(x) PROVE Goal
    BY <1>1 DEF Retract, Age
<1>2. ASSUME NEW d \in Deletion, StripAtoms(d) \/ DeleteProject(d) PROVE Goal
    BY <1>2 DEF StripAtoms, DeleteProject
<1>3. ASSUME NEW u \in Upload, FindProject(u) \/ UploadFile(u) \/ DeleteFile(u) PROVE Goal
    BY <1>3 DEF FindProject, UploadFile, DeleteFile
<1> QED
    BY <1>1, <1>2, <1>3 DEF Elsewhere

LEMMA RequestComes ==
    ASSUME BoardTyped, NEW r \in Request, Accept(r)
    PROVE  /\ Grows /\ UNCHANGED <<atoms, edges, cache, retracted, aged, project, projects, files, raced, faults>>
           /\ at[r] = "unsent" /\ todo'[r] = Plan(r)
           /\ at'[r] = IF Plan(r) = <<>> THEN "done" ELSE "busy"
           /\ \A q \in (Request \cup Deletion \cup Upload) \ {r} : at'[q] = at[q]
           /\ \A q \in Request \ {r} : todo'[q] = todo[q] /\ withdrawn'[q] = withdrawn[q]
           /\ withdrawn'[r] = retracted
           /\ met' = met \cup {{r, q} : q \in {q \in Request : at[q] = "busy"}}
BY DEF Accept, Becomes, content, graph, owned, Grows, BoardTyped

\* A step is a request's coming, a request's statement, or something else.
LEMMA Steps ==
    ASSUME BoardNext
    PROVE  (\E r \in Request : Accept(r) \/ Running(r)) \/ Elsewhere
BY DEF BoardNext, Publishing, Running, Elsewhere

LEMMA StatementStep ==
    ASSUME BoardTyped, NEW r \in Request, RequestInv(r), Running(r)
    PROVE  /\ RequestInv(r)'
           /\ \A q \in Request \ {r} : (atoms' \ atoms) \cap Range(Batch[q]) = {}
<1>1. CASE Dedup(r) \/ CheckParent(r)
    BY <1>1, DedupStep, CheckStep DEF Dedup, CheckParent, content
<1>2. CASE InsertAtom(r)
    BY <1>2, InsertStep
<1>3. CASE LinkCache(r) \/ InsertParentRow(r)
    BY <1>3, LinkStep, RowStep DEF LinkCache, InsertParentRow, content
<1>4. CASE InsertEdge(r) \/ AddToCache(r)
    BY <1>4, EdgeStep, AddStep DEF InsertEdge, AddToCache, content
<1>5. CASE Fail(r)
    BY <1>5, FailStep
<1> QED
    BY <1>1, <1>2, <1>3, <1>4, <1>5 DEF Running

LEMMA RequestsStep == ASSUME BoardTyped, Requests, BoardNext PROVE Requests'
<1>1. ASSUME NEW r \in Request, Accept(r) PROVE Requests'
    <2>1. RequestInv(r)'
        BY <1>1, AcceptRequest DEF Requests
    <2>2. ASSUME NEW q \in Request \ {r} PROVE RequestInv(q)'
        BY <1>1, RequestComes, OtherRequest DEF Requests
    <2> QED
        BY <2>1, <2>2 DEF Requests
<1>2. ASSUME NEW r \in Request, Running(r) PROVE Requests'
    <2>1. RequestInv(r)' /\ \A q \in Request \ {r} : (atoms' \ atoms) \cap Range(Batch[q]) = {}
        BY <1>2, StatementStep DEF Requests
    <2>2. ASSUME NEW q \in Request \ {r} PROVE RequestInv(q)'
        <3>1. Grows /\ withdrawn' = withdrawn /\ todo'[q] = todo[q] /\ at'[q] = at[q]
            BY <1>2, RunningGrows, RunningAlone
        <3> QED
            BY <2>1, <3>1, OtherRequest DEF Requests
    <2> QED
        BY <2>1, <2>2 DEF Requests
<1>3. ASSUME Elsewhere PROVE Requests'
    <2>1. ASSUME NEW r \in Request PROVE RequestInv(r)'
        BY <1>3, ElsewhereGrows, OtherRequest DEF Requests
    <2> QED
        BY <2>1 DEF Requests
<1> QED
    BY <1>1, <1>2, <1>3, Steps

\* Where rows come from: a request that found the parent there, and had it in
\* the cache if it is single, or a batch that is to tell the cache.
LEMMA RowsComeFrom ==
    ASSUME BoardTyped, NEW r \in Request, RequestInv(r), Running(r), NEW e \in edges' \ edges
    PROVE  /\ e \in Edge
           /\ Linked(cache, e[1], e[2]) \/ (Doing(r, "add")' /\ Head(todo'[r]).edge = e)
           /\ Asserted(e) \/ \E p \in Range(Provenance[r]) : e = Derivation(p) /\ p[2] \notin withdrawn[r]
<1>1. at[r] = "busy" /\ todo[r] # <<>>
    BY RunningGrows
<1>2. InsertParentRow(r) \/ InsertEdge(r)
    BY DEF Running, Dedup, CheckParent, InsertAtom, LinkCache, AddToCache, Fail, graph
<1>3. CASE InsertParentRow(r)
    <2>1. r \in Single /\ \E p \in Range(Provenance[r]) :
            Head(todo[r]) = ToDerive(r, p) /\ edges' = edges \cup {Derivation(p)}
        BY <1>3, RowStep
    <2>2. PICK p \in Range(Provenance[r]) : Head(todo[r]) = ToDerive(r, p) /\ e = Derivation(p)
        BY <2>1
    <2>3. p[2] \notin withdrawn[r] /\ LinkedAll(r)
        BY <1>1, <2>1, <2>2, DerivesAlive
    <2>4. e[1] = p[1] /\ e[2] = p[2] /\ e \in Edge
        BY <2>2, Given DEF Derivation, Edge, EdgeType
    <2>5. Linked(cache, e[1], e[2])
        BY <2>3, <2>4 DEF LinkedAll
    <2> QED
        BY <2>2, <2>3, <2>4, <2>5
<1>4. CASE InsertEdge(r)
    <2>1. /\ e \in Edge /\ Doing(r, "add")' /\ Head(todo'[r]).edge = e
          /\ \/ e \in Range(Explicit[r])
             \/ \E p \in Range(Provenance[r]) : Head(todo[r]) = ToDerive(r, p) /\ e = Derivation(p)
        BY <1>4, EdgeStep
    <2> QED
        BY <1>1, <2>1, DerivesAlive DEF Asserted
<1> QED
    BY <1>2, <1>3, <1>4

LEMMA TypedStep == ASSUME BoardTyped, Requests, BoardNext PROVE BoardTyped'
<1>1. ASSUME NEW r \in Request, Accept(r) PROVE BoardTyped'
    <2>1. IsSequence(Plan(r)) /\ todo' = [todo EXCEPT ![r] = Plan(r)]
          /\ at' = [at EXCEPT ![r] = IF Plan(r) = <<>> THEN "done" ELSE "busy"]
          /\ withdrawn' = [withdrawn EXCEPT ![r] = retracted]
        BY <1>1, Planned DEF WellPlanned, Accept, Becomes
    <2>2. at' \in [Request \cup Deletion \cup Upload -> Status] /\ withdrawn' \in [Request -> SUBSET Atom]
        BY <2>1, BoardAssumption DEF BoardTyped, Status
    <2>3. /\ DOMAIN todo' = Request /\ todo' = [q \in Request |-> todo'[q]]
          /\ \A q \in Request : at'[q] = "busy" <=> todo'[q] # <<>>
        BY <2>1 DEF BoardTyped
    <2> QED
        BY <1>1, <2>2, <2>3, RequestComes DEF BoardTyped
<1>2. ASSUME NEW r \in Request, Running(r) PROVE BoardTyped'
    <2>1. RequestInv(r)
        BY DEF Requests
    <2>2. /\ Grows /\ UNCHANGED withdrawn /\ at[r] = "busy" /\ todo[r] # <<>>
          /\ \A q \in (Request \cup Deletion \cup Upload) \ {r} : at'[q] = at[q]
          /\ \A q \in Request \ {r} : todo'[q] = todo[q]
        BY <1>2, RunningGrows, RunningAlone
    <2>3. edges' \subseteq Edge
        BY <1>2, <2>1, RowsComeFrom DEF BoardTyped
    <2>4. IsSequence(todo[r]) /\ (Tail(todo[r]) = <<>>) = (Len(todo[r]) = 1)
        BY <2>1, <2>2, FirstMeant, Rest
    <2>5. /\ atoms' \subseteq Atom /\ project' \in [Atom -> Project \cup {NoProject}]
          /\ raced' \in [Deletion -> SUBSET Atom]
        <3>1. CASE InsertAtom(r)
            <4>1. Head(todo[r]).atom \in Atom
                BY <2>1, <2>2, <3>1, FirstMeant, Given DEF InsertAtom, Doing
            <4>2. atoms' \subseteq Atom
                BY <3>1, <4>1 DEF InsertAtom, BoardTyped
            <4>3. project' \in [Atom -> Project \cup {NoProject}]
                <5> DEFINE p == Wanted[Head(todo[r]).atom]
                <5>1. p \in Project \cup {NoProject}
                    BY <4>1, BoardAssumption
                <5>2. project' = project \/ project' = [project EXCEPT ![Head(todo[r]).atom] = p]
                    BY <3>1 DEF InsertAtom
                <5> QED
                    BY <5>1, <5>2 DEF BoardTyped
            <4>4. raced' \in [Deletion -> SUBSET Atom]
                BY <3>1, <4>1 DEF InsertAtom, BoardTyped
            <4> QED
                BY <4>2, <4>3, <4>4
        <3>2. CASE ~InsertAtom(r)
            BY <1>2, <3>2 DEF Running, Dedup, CheckParent, LinkCache, InsertParentRow, InsertEdge,
               AddToCache, Fail, content, history, BoardTyped
        <3> QED
            BY <3>1, <3>2
    <2>6. /\ at' \in [Request \cup Deletion \cup Upload -> Status] /\ todo' = [q \in Request |-> todo'[q]]
          /\ DOMAIN todo' = Request
          /\ at'[r] = "busy" <=> todo'[r] # <<>>
        <3>1. CASE Continue(r)
            BY <2>4, <3>1 DEF Continue, Becomes, BoardTyped, Status
        <3>2. CASE \E s \in {"duplicate", "error"} : Stop(r, s)
            BY <3>2 DEF Stop, Becomes, BoardTyped, Status
        <3>3. CASE InsertEdge(r) /\ ~Continue(r)
            <4>1. /\ todo' = [todo EXCEPT ![r] = <<[do |-> "add", edge |-> Head(todo[r]).edge]>> \o Tail(@)]
                  /\ UNCHANGED at
                BY <3>3 DEF InsertEdge
            <4>2. <<[do |-> "add", edge |-> Head(todo[r]).edge]>> \o Tail(todo[r]) # <<>>
                <5>1. IsSequence(Tail(todo[r]))
                    BY <2>2, <2>4, Rest
                <5> QED
                    BY <5>1 DEF IsSequence
            <4> QED
                BY <2>2, <4>1, <4>2 DEF BoardTyped
        <3> QED
            BY <1>2, <3>1, <3>2, <3>3 DEF Running, Dedup, CheckParent, InsertAtom, LinkCache,
               InsertParentRow, InsertEdge, AddToCache, Fail
    <2>7. \A q \in Request : at'[q] = "busy" <=> todo'[q] # <<>>
        BY <2>2, <2>6 DEF BoardTyped
    <2>8. cache' \subseteq Edge
        <3>1. CASE LinkCache(r)
            <4>1. \A p \in Range(Provenance[r]) : Derivation(p) \in Edge
                BY Given DEF Derivation, Edge, EdgeType
            <4> QED
                BY <3>1, <4>1 DEF LinkCache, BoardTyped
        <3>2. CASE AddToCache(r)
            <4>1. Head(todo[r]).edge \in Edge
                BY <2>1, <2>2, <3>2, FirstMeant DEF AddToCache, Doing
            <4>2. <<Head(todo[r]).edge[1], Head(todo[r]).edge[2], Head(todo[r]).edge[3]>> \in Edge
                BY <4>1 DEF Edge
            <4> QED
                BY <3>2, <4>2 DEF AddToCache, AddEdge, InsertRow, BoardTyped
        <3>3. CASE ~LinkCache(r) /\ ~AddToCache(r)
            BY <1>2, <3>3 DEF Running, Dedup, CheckParent, InsertAtom, InsertParentRow, InsertEdge,
               Fail, graph, BoardTyped
        <3> QED
            BY <3>1, <3>2, <3>3
    <2>9. faults' <= MaxFaults
        BY <1>2, BoardAssumption DEF Running, Dedup, CheckParent, InsertAtom, LinkCache, InsertParentRow,
           InsertEdge, AddToCache, Fail, BoardTyped
    <2>10. UNCHANGED <<projects, files, retracted, aged>>
        BY <1>2, RunningGrows, RunningAlone
    <2> QED
        BY <2>2, <2>3, <2>5, <2>6, <2>7, <2>8, <2>9, <2>10 DEF BoardTyped, Grows
<1>3. ASSUME Elsewhere PROVE BoardTyped'
    <2>1. project' \in [Atom -> Project \cup {NoProject}]
          /\ at' \in [Request \cup Deletion \cup Upload -> Status]
        BY <1>3 DEF Elsewhere, Retract, Age, StripAtoms, DeleteProject, FindProject, UploadFile,
           DeleteFile, Becomes, content, BoardTyped, Status
    <2>2. UNCHANGED <<atoms, edges, cache, todo, withdrawn, met, raced, faults>>
          /\ \A q \in Request : at'[q] = at[q]
        BY <1>3, ElsewhereGrows
    <2>3. /\ retracted' \subseteq atoms /\ aged' \subseteq atoms
          /\ projects' \subseteq Project /\ files' \subseteq Upload
        BY <1>3 DEF Elsewhere, Retract, Alive, Age, StripAtoms, DeleteProject, FindProject, UploadFile,
           DeleteFile, content, owned, BoardTyped
    <2> QED
        BY <2>1, <2>2, <2>3 DEF BoardTyped
<1> QED
    BY <1>1, <1>2, <1>3, Steps

LEMMA RowsCachedStep ==
    ASSUME BoardTyped, Requests, RowsCached, BoardNext PROVE RowsCached'
<1> SUFFICES ASSUME NEW e \in edges' PROVE Linked(cache', e[1], e[2]) \/ Adding(e)'
    BY DEF RowsCached
<1>1. Grows
    BY Steps, RequestComes, RunningGrows, ElsewhereGrows
<1>2. Linked(cache, e[1], e[2]) => Linked(cache', e[1], e[2])
    BY <1>1, LinksLast DEF Grows
<1>3. CASE e \in edges /\ Adding(e)
    <2>1. PICK q \in Request : Doing(q, "add") /\ Head(todo[q]).edge = e
        BY <1>3 DEF Adding
    <2>2. CASE Running(q)
        <3>1. AddToCache(q)
            BY <2>1, <2>2 DEF Running, Doing, Dedup, CheckParent, InsertAtom, LinkCache,
               InsertParentRow, InsertEdge, Fail
        <3> QED
            BY <2>1, <3>1, AddStep DEF Requests
    <2>3. CASE ~Running(q)
        <3>1. at'[q] = at[q] /\ todo'[q] = todo[q]
            BY <2>1, <2>3, Steps, RequestComes, RunningAlone, ElsewhereGrows DEF Doing
        <3> QED
            BY <2>1, <3>1 DEF Adding, Doing
    <2> QED
        BY <2>2, <2>3
<1>4. CASE e \notin edges
    <2>1. PICK r \in Request : Running(r)
        BY <1>4, Steps, RequestComes, ElsewhereGrows
    <2>2. Linked(cache, e[1], e[2]) \/ (Doing(r, "add")' /\ Head(todo'[r]).edge = e)
        BY <1>4, <2>1, RowsComeFrom DEF Requests
    <2> QED
        BY <1>2, <2>2 DEF Adding
<1> QED
    BY <1>2, <1>3, <1>4 DEF RowsCached

LEMMA OwnDerivationsStep ==
    ASSUME BoardTyped, Requests, OwnDerivations, BoardNext PROVE OwnDerivations'
<1> SUFFICES ASSUME NEW r \in Request, NEW p \in Range(Provenance[r]), Derivation(p) \in edges',
                    ~Asserted(Derivation(p))
             PROVE  at'[r] # "unsent" /\ p[2] \notin withdrawn'[r]
    <2>1. \A e : Asserted(e)' = Asserted(e)
        BY DEF Asserted
    <2>2. \A p : Derivation(p)' = Derivation(p)
        BY DEF Derivation
    <2> QED
        BY <2>1, <2>2 DEF OwnDerivations
<1>1. CASE Derivation(p) \in edges
    <2>1. at[r] # "unsent" /\ p[2] \notin withdrawn[r]
        BY <1>1 DEF OwnDerivations
    <2>2. ASSUME NEW q \in Request, Accept(q) PROVE at'[r] = at[r] /\ withdrawn'[r] = withdrawn[r]
        BY <2>1, <2>2, RequestComes
    <2>3. ASSUME NEW q \in Request, Running(q) PROVE at'[r] # "unsent" /\ withdrawn' = withdrawn
        <3>1. CASE q # r
            BY <2>1, <2>3, <3>1, RunningAlone, RunningGrows
        <3>2. CASE q = r
            <4>1. (at[r] = "busy" <=> todo[r] # <<>>) /\ withdrawn' = withdrawn /\ at[r] = "busy"
                BY <2>3, <3>2, RunningGrows DEF BoardTyped
            <4> QED
                BY <2>3, <3>2, <4>1, OnlyOne DEF Running, Dedup, CheckParent, InsertAtom, LinkCache,
                   InsertParentRow, InsertEdge, AddToCache, Fail
        <3> QED
            BY <3>1, <3>2
    <2>4. ASSUME Elsewhere PROVE at'[r] = at[r] /\ withdrawn' = withdrawn
        BY <2>4, ElsewhereGrows
    <2> QED
        BY <2>1, <2>2, <2>3, <2>4, Steps
<1>2. CASE Derivation(p) \notin edges
    <2>1. PICK q \in Request : Running(q)
        BY <1>2, Steps, RequestComes, ElsewhereGrows
    <2>2. PICK o \in Range(Provenance[q]) : Derivation(p) = Derivation(o) /\ o[2] \notin withdrawn[q]
        BY <1>2, <2>1, RowsComeFrom DEF Requests
    <2>3. p[1] = o[1] /\ p[2] = o[2]
        BY <2>2 DEF Derivation
    <2>4. q = r
        BY <2>3, BoardAssumption
    <2>5. withdrawn' = withdrawn /\ at[r] = "busy"
        BY <2>1, <2>4, RunningGrows
    <2>6. at'[r] # "unsent"
        BY <2>1, <2>4, <2>5, OnlyOne DEF Running, Dedup, CheckParent, InsertAtom, LinkCache,
           InsertParentRow, InsertEdge, AddToCache, Fail
    <2> QED
        BY <2>2, <2>3, <2>4, <2>5, <2>6
<1> QED
    BY <1>1, <1>2

\* A statement of a single request that leaves it busy: it had been busy, and
\* if that was the look for a twin there was none.
LEMMA PastLook ==
    ASSUME BoardTyped, NEW r \in Request, RequestInv(r), r \in Single, Running(r), at'[r] = "busy"
    PROVE  Head(todo[r]).do = "dedup" => Twins(Batch[r][1]) = {}
<1> SUFFICES ASSUME Head(todo[r]).do = "dedup" PROVE Twins(Batch[r][1]) = {}
    OBVIOUS
<1>1. at[r] = "busy" /\ todo[r] # <<>> /\ Head(todo[r]).atom = Batch[r][1]
    BY RunningGrows, FirstMeant
<1>2. CASE Dedup(r)
    BY <1>1, <1>2, OnlyOne DEF Dedup
<1>3. CASE Fail(r)
    BY <1>3, OnlyOne DEF Fail
<1> QED
    BY <1>2, <1>3 DEF Running, Doing, CheckParent, InsertAtom, LinkCache, InsertParentRow,
       InsertEdge, AddToCache

\* The atom of a request is new only by its own insertion.
LEMMA NewAtom ==
    ASSUME BoardTyped, Requests, BoardNext, NEW q \in Single, Batch[q][1] \in atoms' \ atoms
    PROVE  InsertAtom(q) /\ Head(todo[q]).do = "insert" /\ at[q] = "busy" /\ UNCHANGED <<retracted, aged, met>>
<1>1. PICK r \in Request : Running(r)
    BY Steps, RequestComes, ElsewhereGrows
<1>2. q \in Request /\ Batch[q][1] \in Range(Batch[q])
    <2>1. q \in Request /\ 1 \in DOMAIN Batch[q]
        BY Given, BoardAssumption
    <2> QED
        BY <2>1 DEF Range
<1>3. r = q
    BY <1>1, <1>2, StatementStep DEF Requests
<1>4. InsertAtom(q)
    BY <1>1, <1>3 DEF Running, Dedup, CheckParent, LinkCache, InsertParentRow, InsertEdge,
       AddToCache, Fail, content
<1> QED
    BY <1>1, <1>3, <1>4, RunningGrows DEF InsertAtom, Doing

\* Twins last no longer than their atoms are young and not withdrawn.
LEMMA TwinBefore ==
    ASSUME BoardTyped, BoardNext, NEW q, NEW r, Twin(q, r)', Batch[q][1] \in atoms
    PROVE  Twin(q, r)
<1>1. retracted \subseteq retracted' /\ aged \subseteq aged'
    BY Steps, RequestComes, RunningGrows, ElsewhereGrows DEF Grows
<1> QED
    BY <1>1 DEF Twin

LEMMA MetStep == ASSUME BoardTyped, Requests, Met, BoardNext PROVE Met'
<1>1. met \subseteq met'
    BY Steps, RequestComes, RunningGrows, ElsewhereGrows
<1>2. ASSUME NEW q \in Request, NEW r \in Request, q # r, at'[q] = "busy", at'[r] = "busy"
      PROVE  {q, r} \in met'
    <2>1. ASSUME NEW a \in Request, Accept(a) PROVE {q, r} \in met'
        <3>1. CASE a = q
            BY <1>2, <2>1, <3>1, RequestComes
        <3>2. CASE a = r
            <4>1. {q, r} = {r, q}
                OBVIOUS
            <4> QED
                BY <1>2, <2>1, <3>2, <4>1, RequestComes
        <3>3. CASE a # q /\ a # r
            BY <1>1, <1>2, <2>1, <3>3, RequestComes DEF Met
        <3> QED
            BY <3>1, <3>2, <3>3
    <2>2. ASSUME NEW a \in Request, Running(a) PROVE {q, r} \in met'
        <3>1. at[a] = "busy" /\ \A o \in Request \ {a} : at'[o] = at[o]
            BY <2>2, RunningGrows, RunningAlone
        <3> QED
            BY <1>1, <1>2, <3>1 DEF Met
    <2>3. ASSUME Elsewhere PROVE {q, r} \in met'
        BY <1>1, <1>2, <2>3, ElsewhereGrows DEF Met
    <2> QED
        BY <2>1, <2>2, <2>3, Steps
<1>3. ASSUME NEW q \in Single, NEW r \in Single, q # r, at'[r] = "busy", Head(todo'[r]).do # "dedup",
             Twin(q, r)'
      PROVE  {q, r} \in met'
    <2>1. q \in Request /\ r \in Request
        BY BoardAssumption
    <2>2. at[r] = "busy"
        <3>1. ASSUME NEW a \in Request, Accept(a) PROVE at[r] = "busy"
            <4>1. a # r
                <5> SUFFICES ASSUME a = r PROVE FALSE
                    OBVIOUS
                <5>1. todo'[r] = Plan(r) /\ Head(Plan(r)) = ToLook(r)
                    BY <2>1, <3>1, RequestComes, Planned DEF WellPlanned
                <5>2. ToLook(r).do = "dedup"
                    BY Shapes
                <5> QED
                    BY <1>3, <5>1, <5>2
            <4> QED
                BY <1>3, <2>1, <3>1, <4>1, RequestComes
        <3>2. ASSUME NEW a \in Request, Running(a) PROVE at[r] = "busy"
            BY <1>3, <2>1, <3>2, RunningGrows, RunningAlone
        <3> QED
            BY <1>3, <2>1, <3>1, <3>2, ElsewhereGrows, Steps
    <2>3. CASE Batch[q][1] \in atoms
        <3>1. Twin(q, r)
            BY <1>3, <2>3, TwinBefore
        <3>2. CASE Head(todo[r]).do # "dedup"
            BY <1>1, <1>3, <2>2, <3>1, <3>2 DEF Met
        <3>3. CASE Head(todo[r]).do = "dedup"
            <4>1. Running(r)
                <5>1. todo'[r] # todo[r]
                    BY <1>3, <3>3
                <5> QED
                    BY <2>1, <2>2, <5>1, Steps, RequestComes, RunningAlone, ElsewhereGrows
            <4>2. Twins(Batch[r][1]) = {}
                BY <1>3, <2>1, <3>3, <4>1, PastLook DEF Requests
            <4> QED
                BY <3>1, <4>2 DEF Twins, Twin
        <3> QED
            BY <3>2, <3>3
    <2>4. CASE Batch[q][1] \notin atoms
        <3>1. at[q] = "busy"
            BY <1>3, <2>4, NewAtom DEF Twin
        <3> QED
            BY <1>1, <1>3, <2>1, <2>2, <3>1 DEF Met
    <2> QED
        BY <2>3, <2>4
<1>4. ASSUME NEW q \in Single, NEW r \in Single, q # r, Twin(q, r)', Twin(r, q)'
      PROVE  {q, r} \in met'
    <2>1. CASE Batch[q][1] \in atoms /\ Batch[r][1] \in atoms
        BY <1>1, <1>4, <2>1, TwinBefore DEF Met
    <2>2. ASSUME NEW a \in Single, NEW b \in Single, {a, b} = {q, r}, a # b, Twin(b, a)', Twin(a, b)',
                 Batch[a][1] \notin atoms
          PROVE  {q, r} \in met'
        <3>1. InsertAtom(a) /\ at[a] = "busy" /\ Head(todo[a]).do = "insert"
            BY <2>2, NewAtom DEF Twin
        <3>2. Batch[b][1] \in atoms
            <4> SUFFICES ASSUME Batch[b][1] \notin atoms PROVE FALSE
                OBVIOUS
            <4>1. InsertAtom(b)
                BY <2>2, NewAtom DEF Twin
            <4>2. a \in Request /\ b \in Request
                BY BoardAssumption
            <4>3. at'[a] = at[a] /\ todo'[a] = todo[a]
                BY <2>2, <4>1, <4>2, RunningAlone DEF Running
            <4>4. todo'[a] # todo[a]
                <5>1. IsSequence(todo[a]) /\ todo[a] # <<>>
                    BY <3>1, <4>2, FirstMeant DEF InsertAtom, Doing, Requests
                <5>2. Len(Tail(todo[a])) # Len(todo[a])
                    <6>1. Len(todo[a]) \in Nat /\ Len(Tail(todo[a])) = Len(todo[a]) - 1
                        BY <5>1, Rest
                    <6> QED
                        BY <6>1
                <5>3. todo'[a] = Tail(todo[a]) \/ todo'[a] = <<>>
                    BY <3>1, <4>2, OnlyOne DEF InsertAtom
                <5>4. Tail(todo[a]) # todo[a]
                    BY <5>2
                <5> QED
                    BY <5>1, <5>3, <5>4
            <4> QED
                BY <4>3, <4>4
        <3>3. Twin(b, a)
            BY <2>2, <3>2, TwinBefore
        <3>4. {b, a} \in met
            BY <2>2, <3>1, <3>3 DEF Met
        <3> QED
            BY <1>1, <2>2, <3>4
    <2>3. {q, r} = {r, q}
        OBVIOUS
    <2> QED
        BY <1>4, <2>1, <2>2, <2>3
<1> QED
    BY <1>2, <1>3, <1>4 DEF Met

LEMMA StrippedStep ==
    ASSUME BoardTyped, Requests, Stripped, BoardNext PROVE Stripped'
<1> SUFFICES ASSUME NEW d \in Deletion, at'[d] = "busy", NEW x \in Atom, project'[x] = Target[d]
             PROVE  x \in raced'[d]
    BY DEF Stripped
<1>1. Target[d] # NoProject /\ d \notin Request /\ d \notin Upload
    BY BoardAssumption
<1>2. ASSUME NEW r \in Request, Accept(r) PROVE x \in raced'[d]
    BY <1>1, <1>2, RequestComes DEF Stripped
<1>3. ASSUME NEW r \in Request, Running(r) PROVE x \in raced'[d]
    <2>1. at'[d] = at[d]
        BY <1>1, <1>3, RunningAlone
    <2>2. CASE InsertAtom(r)
        <3> DEFINE y == Head(todo[r]).atom
                   p == Wanted[y]
        <3>1. \/ project' = project /\ raced' = raced
              \/ /\ project' = [project EXCEPT ![y] = p]
                 /\ raced' = [e \in Deletion |->
                        IF at[e] = "busy" /\ Target[e] = p THEN raced[e] \cup {y} ELSE raced[e]]
            BY <2>2 DEF InsertAtom
        <3> HIDE DEF y, p
        <3>2. CASE x = y
            BY <2>1, <3>1, <3>2 DEF Stripped, BoardTyped
        <3>3. CASE x # y
            BY <2>1, <3>1, <3>3 DEF Stripped, BoardTyped
        <3> QED
            BY <3>2, <3>3
    <2>3. CASE ~InsertAtom(r)
        <3>1. project' = project /\ raced' = raced
            BY <1>3, <2>3 DEF Running, Dedup, CheckParent, LinkCache, InsertParentRow, InsertEdge,
               AddToCache, Fail, content, history
        <3> QED
            BY <2>1, <3>1 DEF Stripped
    <2> QED
        BY <2>2, <2>3
<1>4. ASSUME Elsewhere PROVE x \in raced'[d]
    <2>1. raced' = raced
        BY <1>4, ElsewhereGrows
    <2>2. ASSUME NEW e \in Deletion, StripAtoms(e) PROVE x \in raced'[d]
        <3>1. project[x] = Target[d] /\ Target[d] # Target[e]
            BY <1>1, <2>2 DEF StripAtoms
        <3>2. at'[d] = at[d]
            BY <2>2, <3>1 DEF StripAtoms, Becomes, BoardTyped
        <3> QED
            BY <2>1, <3>1, <3>2 DEF Stripped
    <2>3. CASE ~\E e \in Deletion : StripAtoms(e)
        <3>1. project' = project
            BY <1>4, <2>3 DEF Elsewhere, Retract, Age, DeleteProject, FindProject, UploadFile,
               DeleteFile, content
        <3>2. at[d] = "busy"
            BY <1>1, <1>4, <2>3 DEF Elsewhere, Retract, Age, DeleteProject, FindProject, UploadFile,
               DeleteFile, content, Becomes, BoardTyped
        <3> QED
            BY <2>1, <3>1, <3>2 DEF Stripped
    <2> QED
        BY <2>2, <2>3
<1> QED
    BY <1>2, <1>3, <1>4, Steps

LEMMA DeletionStep ==
    ASSUME BoardTyped, Requests, Stripped, DeleteFailsOnlyForRace, BoardNext
    PROVE  DeleteFailsOnlyForRace'
<1>1. ASSUME NEW r \in Request, Accept(r) PROVE DeleteFailsOnlyForRace'
    <2>1. UNCHANGED <<project, projects, files, raced>> /\ \A d \in Deletion : at'[d] = at[d]
        BY <1>1, RequestComes, BoardAssumption
    <2> QED
        BY <2>1 DEF DeleteFailsOnlyForRace
<1>2. ASSUME NEW r \in Request, Running(r) PROVE DeleteFailsOnlyForRace'
    <2>1. /\ \A d \in Deletion : at'[d] = at[d]
          /\ UNCHANGED <<projects, files>>
        BY <1>2, RunningAlone, BoardAssumption
    <2>2. CASE InsertAtom(r)
        <3> DEFINE y == Head(todo[r]).atom
                   p == Wanted[y]
        <3>1. \/ project' = project /\ raced' = raced
              \/ /\ project' = [project EXCEPT ![y] = p] /\ p \in projects \cup {NoProject}
                 /\ raced' = [e \in Deletion |->
                        IF at[e] = "busy" /\ Target[e] = p THEN raced[e] \cup {y} ELSE raced[e]]
            BY <2>2 DEF InsertAtom
        <3> HIDE DEF y, p
        <3>2. \A d \in Deletion : raced[d] # {} => raced'[d] # {}
            BY <3>1
        <3>3. \A x \in Atom : project'[x] \in projects \cup {NoProject}
            BY <3>1 DEF BoardTyped, DeleteFailsOnlyForRace
        <3> QED
            BY <2>1, <3>2, <3>3 DEF DeleteFailsOnlyForRace
    <2>3. CASE ~InsertAtom(r)
        <3>1. project' = project /\ raced' = raced
            BY <1>2, <2>3 DEF Running, Dedup, CheckParent, LinkCache, InsertParentRow, InsertEdge,
               AddToCache, Fail, content, history
        <3> QED
            BY <2>1, <3>1 DEF DeleteFailsOnlyForRace
    <2> QED
        BY <2>2, <2>3
<1>3. ASSUME NEW x \in Atom, Retract(x) \/ Age(x) PROVE DeleteFailsOnlyForRace'
    BY <1>3 DEF Retract, Age, owned, history, DeleteFailsOnlyForRace
<1>4. ASSUME NEW d \in Deletion, StripAtoms(d) PROVE DeleteFailsOnlyForRace'
    <2>1. \A e \in Deletion : at'[e] = "error" => at[e] = "error"
        BY <1>4 DEF StripAtoms, Becomes, BoardTyped
    <2>2. \A x \in Atom : project'[x] \in {project[x], NoProject}
        BY <1>4 DEF StripAtoms
    <2> QED
        BY <1>4, <2>1, <2>2 DEF StripAtoms, owned, history, DeleteFailsOnlyForRace
<1>5. ASSUME NEW d \in Deletion, DeleteProject(d) PROVE DeleteFailsOnlyForRace'
    <2>1. UNCHANGED <<project, raced>> /\ at[d] = "busy"
          /\ \A e \in Deletion \ {d} : at'[e] = at[e]
        BY <1>5 DEF DeleteProject, Becomes, content, history, BoardTyped
    <2>2. CASE Target[d] \in projects /\ ~\E x \in Atom : project[x] = Target[d]
        <3>1. /\ projects' = projects \ {Target[d]} /\ files' = {u \in files : Into[u] # Target[d]}
              /\ at'[d] = "done"
            BY <1>5, <2>2 DEF DeleteProject, Becomes, BoardTyped
        <3> QED
            BY <2>1, <2>2, <3>1 DEF DeleteFailsOnlyForRace
    <2>3. CASE ~(Target[d] \in projects /\ ~\E x \in Atom : project[x] = Target[d])
        <3>1. UNCHANGED <<projects, files>>
            BY <1>5, <2>3 DEF DeleteProject, owned
        <3>2. Target[d] \in projects => raced[d] # {}
            BY <2>1, <2>3 DEF Stripped
        <3> QED
            BY <2>1, <3>1, <3>2 DEF DeleteFailsOnlyForRace
    <2> QED
        BY <2>2, <2>3
<1>6. ASSUME NEW u \in Upload, FindProject(u) \/ UploadFile(u) \/ DeleteFile(u)
      PROVE  DeleteFailsOnlyForRace'
    <2>1. /\ UNCHANGED <<project, projects, raced>>
          /\ \A d \in Deletion : at'[d] = at[d]
        BY <1>6, BoardAssumption DEF FindProject, UploadFile, DeleteFile, Becomes, content, owned,
           history, BoardTyped
    <2>2. \A v \in files' : Into[v] \in projects
        BY <1>6 DEF FindProject, UploadFile, DeleteFile, owned, DeleteFailsOnlyForRace
    <2> QED
        BY <2>1, <2>2 DEF DeleteFailsOnlyForRace
<1> QED
    BY <1>1, <1>2, <1>3, <1>4, <1>5, <1>6, Steps DEF Elsewhere

LEMMA BoardStart == ASSUME BoardInit PROVE BoardInv
<1>1. BoardTyped
    BY BoardAssumption DEF BoardInit, BoardTyped, Status
<1>2. Requests
    <2>1. ASSUME NEW r \in Request PROVE RequestInv(r)
        <3>1. r \in Single => Batch[r][1] \in Range(Batch[r])
            <4>1. r \in Single => 1 \in DOMAIN Batch[r]
                BY Given, BoardAssumption
            <4> QED
                BY <4>1 DEF Range
        <3>2. r \in Single => Batch[r][1] \notin Old
            BY <3>1, BoardAssumption
        <3> QED
            BY <3>2 DEF BoardInit, RequestInv
    <2> QED
        BY <2>1 DEF Requests
<1>3. RowsCached /\ OwnDerivations
    BY DEF BoardInit, RowsCached, OwnDerivations
<1>4. Met
    <2>1. \A q \in Request : at[q] # "busy"
        BY DEF BoardInit
    <2>2. \A q, r : ~Twin(q, r)
        BY DEF BoardInit, Twin
    <2>3. Single \subseteq Request
        BY BoardAssumption
    <2> QED
        BY <2>1, <2>2, <2>3 DEF Met
<1>5. Stripped /\ DeleteFailsOnlyForRace
    BY BoardAssumption DEF BoardInit, Stripped, DeleteFailsOnlyForRace
<1> QED
    BY <1>1, <1>2, <1>3, <1>4, <1>5 DEF BoardInv

\* A step that changes nothing.
LEMMA BoardStutters == ASSUME BoardInv, UNCHANGED boardVars PROVE BoardInv'
<1> USE DEF boardVars, content, graph, owned, history
<1>1. BoardTyped' /\ Stripped' /\ DeleteFailsOnlyForRace'
    BY DEF BoardInv, BoardTyped, Stripped, DeleteFailsOnlyForRace
<1>2. Requests'
    <2>1. Grows
        BY DEF BoardInv, BoardTyped, Grows
    <2>2. ASSUME NEW r \in Request PROVE RequestInv(r)'
        BY <2>1, OtherRequest DEF BoardInv, Requests
    <2> QED
        BY <2>2 DEF Requests
<1>3. RowsCached' /\ OwnDerivations' /\ Met'
    BY DEF BoardInv, RowsCached, Linked, Adding, Doing, OwnDerivations, Asserted, Met, Twin
<1> QED
    BY <1>1, <1>2, <1>3 DEF BoardInv

\* The inductive invariant: what is left of each request, rows and links, whose
\* derivation a row is, who has met whom, and what a deletion has stripped.
THEOREM BoardHolds == BoardSpec => []BoardInv
<1>1. BoardInit => BoardInv
    BY BoardStart
<1>2. BoardInv /\ [BoardNext]_boardVars => BoardInv'
    <2>1. ASSUME BoardInv, BoardNext PROVE BoardInv'
        BY <2>1, TypedStep, RequestsStep, RowsCachedStep, OwnDerivationsStep, MetStep, StrippedStep,
           DeletionStep DEF BoardInv
    <2> QED
        BY <2>1, BoardStutters
<1> QED
    BY <1>1, <1>2, PTL DEF BoardSpec

\* Every variable of the board keeps its type, and a request is under way
\* exactly while it has statements to run.
THEOREM BoardTypeCorrect == BoardSpec => []BoardTypeOK
<1>1. BoardInv => BoardTypeOK
    BY BoardAssumption DEF BoardInv, BoardTyped, BoardTypeOK
<1> QED
    BY <1>1, BoardHolds, PTL

\* The sixty-second deduplication lets a second equal atom in only if the two
\* requests were under way together (handle_publish).
THEOREM SameMet == BoardSpec => []SameOnlyInParallel
<1>1. BoardInv => SameOnlyInParallel
    <2> SUFFICES ASSUME Met, NEW q \in Single, NEW r \in Single, q # r,
                        {Batch[q][1], Batch[r][1]} \subseteq atoms,
                        Content[Batch[q][1]] = Content[Batch[r][1]],
                        {Batch[q][1], Batch[r][1]} \cap (retracted \cup aged \cup Old) = {}
                 PROVE  {q, r} \in met
        BY DEF BoardInv, SameOnlyInParallel
    <2>1. Twin(q, r) /\ Twin(r, q)
        BY DEF Twin
    <2> QED
        BY <2>1 DEF Met
<1> QED
    BY <1>1, BoardHolds, PTL

\* What an answer to a publish request says of the atoms, the rows and the
\* cache is so, however the statements of requests interleave and fail
\* (handle_publish, handle_publish_atoms).
THEOREM AnswersAreTrue == BoardSpec => []AnswersTrue
<1>1. BoardInv => AnswersTrue
    <2> SUFFICES ASSUME BoardInv, NEW r \in Request
                 PROVE  /\ at[r] = "done" =>
                             /\ Range(Batch[r]) \subseteq atoms
                             /\ faults = 0 => \A p \in Range(Provenance[r]) :
                                  /\ Derivation(p) \in edges
                                  /\ Linked(cache, p[1], p[2]) \/ Adding(Derivation(p))
                        /\ at[r] = "duplicate" => Batch[r][1] \notin atoms
                        /\ at[r] = "error" /\ r \in Single => Batch[r][1] \notin atoms
                        /\ at[r] = "error" /\ faults = 0 => ~Sound(r)
                        /\ \A p \in Range(Provenance[r]) :
                              p[2] \in withdrawn[r] => Derivation(p) \notin edges \/ Asserted(Derivation(p))
        BY DEF AnswersTrue
    <2>1. RequestInv(r)
        BY DEF BoardInv, Requests
    <2>2. ASSUME at[r] = "done"
          PROVE  /\ Range(Batch[r]) \subseteq atoms
                 /\ faults = 0 => \A p \in Range(Provenance[r]) : Derivation(p) \in edges
        <3>1. Kept(r) /\ todo[r] = <<>>
            BY <2>1, <2>2 DEF RequestInv, BoardInv, BoardTyped
        <3>2. \A s : s \notin Range(todo[r])
            BY <3>1 DEF Range
        <3> QED
            BY <3>1, <3>2 DEF Kept
    <2>3. \A p \in Range(Provenance[r]) :
            Derivation(p) \in edges => Linked(cache, p[1], p[2]) \/ Adding(Derivation(p))
        <3>1. \A p : Derivation(p)[1] = p[1] /\ Derivation(p)[2] = p[2]
            BY DEF Derivation
        <3> QED
            BY <3>1 DEF BoardInv, RowsCached
    <2>4. \A p \in Range(Provenance[r]) :
            p[2] \in withdrawn[r] => Derivation(p) \notin edges \/ Asserted(Derivation(p))
        BY DEF BoardInv, OwnDerivations
    <2>5. /\ at[r] = "duplicate" => Batch[r][1] \notin atoms
          /\ at[r] = "error" /\ r \in Single => Batch[r][1] \notin atoms
          /\ at[r] = "error" /\ faults = 0 => ~Sound(r)
        BY <2>1 DEF RequestInv
    <2> QED
        BY <2>2, <2>3, <2>4, <2>5
<1> QED
    BY <1>1, BoardHolds, PTL

\* The deletion of a project that is there fails only for an atom published
\* into it meanwhile, and nothing belongs to a project that is gone
\* (delete_project, upload_file).
THEOREM DeletionsFailForRace == BoardSpec => []DeleteFailsOnlyForRace
<1>1. BoardInv => DeleteFailsOnlyForRace
    BY DEF BoardInv
<1> QED
    BY <1>1, BoardHolds, PTL

---------------------------------------------------------------------------
(* Loops                                                                    *)

\* Among some subsets of a finite set, one has no other of them in it.
LEMMA LeastSubset ==
    ASSUME NEW D, IsFiniteSet(D), NEW B, B \subseteq SUBSET D, B # {}
    PROVE  \E I \in B : \A J \in B : J \subseteq I => J = I
<1>1. FiniteSubsetsOf(D) = SUBSET D
    BY FS_FiniteSubsetsOfFinite
<1>2. IsWellFoundedOn(StrictSubsetOrdering(D), SUBSET D)
    BY <1>1, FS_StrictSubsetOrderingWellFounded
<1>3. PICK I \in B : \A J \in B : <<J, I>> \notin StrictSubsetOrdering(D)
    BY <1>2, WFMin
<1> QED
    BY <1>3 DEF StrictSubsetOrdering

\* What holds of 0 and passes from each number to the next holds of every
\* number: the intervals up to one without it would have a least among them.
LEMMA Upward ==
    ASSUME NEW S, 0 \in S, \A n \in Nat : n \in S => n + 1 \in S
    PROVE  \A n \in Nat : n \in S
<1>1. ASSUME NEW m \in Nat, m \notin S,
             NEW B, B = {I \in SUBSET (0..m) : \E k \in 0..m : I = 0..k /\ k \notin S},
             NEW D, D = 0..m
      PROVE  FALSE
    <2>1. B \subseteq SUBSET D /\ D \in B
        BY <1>1
    <2>2. IsFiniteSet(D)
        BY <1>1, FS_Interval
    <2>3. PICK I \in B : \A J \in B : J \subseteq I => J = I
        BY <2>1, <2>2, LeastSubset
    <2>4. PICK k \in 0..m : I = 0..k /\ k \notin S
        BY <1>1, <2>3
    <2>5. k # 0 /\ k - 1 \in Nat /\ k - 1 \in 0..m /\ k = (k - 1) + 1
        BY <2>4
    <2>6. k - 1 \notin S
        BY <2>4, <2>5
    <2>7. 0..(k - 1) \in B /\ 0..(k - 1) \subseteq I /\ 0..(k - 1) # I
        BY <1>1, <2>4, <2>5, <2>6
    <2> QED
        BY <2>3, <2>7
<1> QED
    BY <1>1

\* The first n rounds of a loop.
AreRounds(f, round, init, n) ==
    f = [i \in 0..n |-> IF i = 0 THEN init ELSE round[f[i - 1]]]

\* There are as many rounds of a loop as one asks for.
LEMMA RoundsExist ==
    ASSUME NEW round, NEW init
    PROVE  \A n \in Nat : \E f : AreRounds(f, round, init, n)
<1> DEFINE S == {n \in Nat : \E f : AreRounds(f, round, init, n)}
<1>1. 0 \in S
    <2>1. AreRounds([i \in 0..0 |-> init], round, init, 0)
        BY DEF AreRounds
    <2> QED
        BY <2>1
<1>2. ASSUME NEW n \in Nat, n \in S PROVE n + 1 \in S
    <2>1. PICK f : AreRounds(f, round, init, n)
        BY <1>2
    <2> DEFINE g == [i \in 0..(n + 1) |-> IF i = n + 1 THEN round[f[n]] ELSE f[i]]
    <2>2. ASSUME NEW i \in 0..(n + 1)
          PROVE  g[i] = IF i = 0 THEN init ELSE round[g[i - 1]]
        <3>1. CASE i = n + 1
            BY <3>1
        <3>2. CASE i \in 0..n
            <4>1. f[i] = IF i = 0 THEN init ELSE round[f[i - 1]]
                BY <2>1, <3>2 DEF AreRounds
            <4>2. g[i] = f[i] /\ (i # 0 => g[i - 1] = f[i - 1])
                BY <3>2
            <4> QED
                BY <4>1, <4>2
        <3> QED
            BY <3>1, <3>2
    <2>3. g = [i \in 0..(n + 1) |-> IF i = 0 THEN init ELSE round[g[i - 1]]]
        BY <2>2
    <2>4. AreRounds(g, round, init, n + 1)
        BY <2>3 DEF AreRounds
    <2> HIDE DEF g
    <2> QED
        BY <2>4
<1> HIDE DEF S
<1>3. \A n \in Nat : n \in S
    BY <1>1, <1>2, Upward
<1> QED
    BY <1>3 DEF S

\* The first rounds of a loop are the same, however many follow.
LEMMA RoundsAgree ==
    ASSUME NEW round, NEW init, NEW m \in Nat, NEW n \in Nat, NEW f, NEW g,
           AreRounds(f, round, init, m), AreRounds(g, round, init, n)
    PROVE  \A i \in Nat : i <= m /\ i <= n => f[i] = g[i]
<1> DEFINE S == {i \in Nat : i <= m /\ i <= n => f[i] = g[i]}
<1>1. 0 \in S
    BY DEF AreRounds
<1>2. ASSUME NEW i \in Nat, i \in S PROVE i + 1 \in S
    <2> SUFFICES ASSUME i + 1 <= m, i + 1 <= n PROVE f[i + 1] = g[i + 1]
        OBVIOUS
    <2>1. f[i] = g[i]
        BY <1>2
    <2>2. f[i + 1] = round[f[i]] /\ g[i + 1] = round[g[i]]
        <3>1. i + 1 \in 0..m /\ i + 1 \in 0..n /\ i + 1 # 0 /\ (i + 1) - 1 = i
            OBVIOUS
        <3> QED
            BY <3>1 DEF AreRounds
    <2> QED
        BY <2>1, <2>2
<1> HIDE DEF S
<1>3. \A i \in Nat : i \in S
    BY <1>1, <1>2, Upward
<1> QED
    BY <1>3 DEF S

\* A loop starts at its start and goes on round by round.
LEMMA IterateUnfolds ==
    ASSUME NEW round, NEW init
    PROVE  /\ Iterate(round, init, 0) = init
           /\ \A n \in Nat : Iterate(round, init, n + 1) = round[Iterate(round, init, n)]
<1> DEFINE Is(f) == f = [i \in Nat |-> IF i = 0 THEN init ELSE round[f[i - 1]]]
           upto(n) == CHOOSE f : AreRounds(f, round, init, n)
           h == [n \in Nat |-> upto(n)[n]]
           it == CHOOSE f : Is(f)
<1>1. \A n \in Nat : AreRounds(upto(n), round, init, n)
    BY RoundsExist
<1> HIDE DEF upto
<1>2. ASSUME NEW i \in Nat PROVE h[i] = IF i = 0 THEN init ELSE round[h[i - 1]]
    <2>1. CASE i = 0
        <3>1. upto(0)[0] = init
            BY <1>1 DEF AreRounds
        <3> QED
            BY <2>1, <3>1
    <2>2. CASE i # 0
        <3>1. i - 1 \in Nat /\ i \in 0..i /\ i - 1 <= i
            BY <2>2
        <3>2. upto(i)[i] = round[upto(i)[i - 1]]
            BY <1>1, <2>2, <3>1 DEF AreRounds
        <3>3. upto(i)[i - 1] = upto(i - 1)[i - 1]
            BY <1>1, <3>1, RoundsAgree
        <3> QED
            BY <2>2, <3>1, <3>2, <3>3
    <2> QED
        BY <2>1, <2>2
<1>3. Is(h)
    <2>1. h = [i \in Nat |-> h[i]]
        OBVIOUS
    <2> HIDE DEF h
    <2> QED
        BY <1>2, <2>1
<1>4. Is(it)
    <2> HIDE DEF h, Is
    <2> QED
        BY <1>3
<1>5. \A n : Iterate(round, init, n) = it[n]
    BY DEF Iterate
<1>6. /\ it[0] = init
      /\ \A n \in Nat : it[n + 1] = round[it[n]]
    <2> HIDE DEF it
    <2>1. \A i \in Nat : it[i] = IF i = 0 THEN init ELSE round[it[i - 1]]
        BY <1>4
    <2> QED
        BY <2>1
<1> HIDE DEF it
<1> QED
    BY <1>5, <1>6

\* A set that the rounds do not leave.
LEMMA IterateStays ==
    ASSUME NEW round, NEW init, NEW S, init \in S, \A s \in S : round[s] \in S
    PROVE  \A n \in Nat : Iterate(round, init, n) \in S
<1> DEFINE N == {n \in Nat : Iterate(round, init, n) \in S}
<1>1. 0 \in N
    BY IterateUnfolds
<1>2. ASSUME NEW n \in Nat, n \in N PROVE n + 1 \in N
    <2>1. Iterate(round, init, n + 1) = round[Iterate(round, init, n)]
        BY IterateUnfolds
    <2> QED
        BY <1>2, <2>1
<1> HIDE DEF N
<1>3. \A n \in Nat : n \in N
    BY <1>1, <1>2, Upward
<1> QED
    BY <1>3 DEF N
---------------------------------------------------------------------------
(* A round of the search                                                    *)

\* SetToSeq lists every element of a finite set, once.
LEMMA Listed ==
    ASSUME NEW S, IsFiniteSet(S)
    PROVE  /\ Seqs!SetToSeq(S) \in Seq(S)
           /\ Len(Seqs!SetToSeq(S)) = Cardinality(S)
           /\ \A y \in S : \E i \in 1..Cardinality(S) : Seqs!SetToSeq(S)[i] = y
<1> DEFINE n == Cardinality(S)
           q == Seqs!SetToSeq(S)
<1>1. n \in Nat /\ ExistsBijection(1..n, S)
    BY FS_CardinalityType
<1>2. q \in [1..n -> S] /\ q \in Injection(1..n, S)
    <2>1. PICK f : f \in Bijection(1..n, S)
        BY <1>1 DEF ExistsBijection
    <2>2. f \in [1..n -> S] /\ \A a, b \in 1..n : f[a] = f[b] => a = b
        BY <2>1 DEF Bijection, Injection, IsInjective
    <2>3. q = CHOOSE g \in [1..n -> S] : \A a, b \in DOMAIN g : g[a] = g[b] => a = b
        <3>1. Seqs!Cardinality(S) = n
            BY DEF Seqs!Cardinality, Cardinality
        <3> HIDE DEF n
        <3> QED
            BY <3>1 DEF Seqs!SetToSeq, Seqs!IsInjective
    <2>4. q \in [1..n -> S] /\ \A a, b \in DOMAIN q : q[a] = q[b] => a = b
        <3> HIDE DEF q, n
        <3>1. \E g \in [1..n -> S] : \A a, b \in DOMAIN g : g[a] = g[b] => a = b
            BY <2>2
        <3> QED
            BY <2>3, <3>1
    <2> QED
        BY <2>4 DEF Injection, IsInjective
<1> HIDE DEF q
<1>3. q \in Surjection(1..n, S)
    <2>1. IsFiniteSet(1..n) /\ Cardinality(1..n) = n
        BY <1>1, FS_Interval
    <2> HIDE DEF n
    <2> QED
        BY <1>2, <2>1, FS_Injection DEF n
<1>4. q \in Seq(S) /\ Len(q) = n
    BY <1>1, <1>2
<1>5. \A y \in S : \E i \in 1..n : q[i] = y
    BY <1>3 DEF Surjection
<1> QED
    BY <1>4, <1>5 DEF q

\* An edge of an atom joins it to the atom at its far end.
LEMMA Ends ==
    ASSUME NEW G \in SUBSET Edge, NEW y \in Atom, NEW direction, NEW types
    PROVE  /\ Along(G, y, direction, types) \subseteq Edge
           /\ Near(G, y, direction, types) \subseteq Atom
           /\ \A e \in Along(G, y, direction, types) :
                  /\ {e[1], e[2]} = {y, Far(e, y)}
                  /\ Far(e, y) \in Near(G, y, direction, types)
<1>1. \A e \in Edge : e[1] \in Atom /\ e[2] \in Atom
    BY DEF Edge
<1>2. \A e \in Along(G, y, direction, types) : e \in G /\ (e[1] = y \/ e[2] = y)
    BY DEF Along
<1> QED
    BY <1>1, <1>2 DEF Near, Far

\* A queue without its head, and more at its end.
LEMMA Requeued ==
    ASSUME NEW E, NEW q \in Seq(E), q # <<>>, NEW S \in SUBSET E, NEW r \in Seq(S)
    PROVE  /\ Len(q) \in Nat \ {0} /\ Len(r) \in Nat /\ Head(q) = q[1] /\ q[1] \in E
           /\ Tail(q) \o r \in Seq(E)
           /\ Len(Tail(q) \o r) = Len(q) - 1 + Len(r)
           /\ \A i \in 1..(Len(q) - 1) : (Tail(q) \o r)[i] = q[i + 1]
           /\ \A i \in Len(q)..Len(Tail(q) \o r) :
                 /\ i - (Len(q) - 1) \in 1..Len(r)
                 /\ (Tail(q) \o r)[i] = r[i - (Len(q) - 1)]
<1>1. /\ Len(q) \in Nat \ {0} /\ Head(q) = q[1] /\ q[1] \in E
      /\ Tail(q) \in Seq(E) /\ Len(Tail(q)) = Len(q) - 1
      /\ \A i \in 1..(Len(q) - 1) : Tail(q)[i] = q[i + 1]
    BY EmptySeq, HeadTailProperties
<1>2. r \in Seq(E) /\ Len(r) \in Nat
    <2>1. r \in [1..Len(r) -> S] /\ Len(r) \in Nat
        BY LenProperties
    <2>2. r \in [1..Len(r) -> E]
        BY <2>1
    <2> QED
        BY <2>1, <2>2, SeqDef
<1>3. /\ Tail(q) \o r \in Seq(E) /\ Len(Tail(q) \o r) = Len(Tail(q)) + Len(r)
      /\ \A i \in 1..(Len(Tail(q)) + Len(r)) :
            (Tail(q) \o r)[i] = IF i <= Len(Tail(q)) THEN Tail(q)[i] ELSE r[i - Len(Tail(q))]
    BY <1>1, <1>2, ConcatProperties
<1> QED
    BY <1>1, <1>2, <1>3

\* The atoms of a queue, and how far they are.
Queued(s, y, d) == \E i \in 1..Len(s.queue) : s.queue[i] = [atom |-> y, depth |-> d]

\* A round takes the first atom of the queue and adds what is new.  A and N are
\* the edges along each atom and its neighbours.
IsRound(s, t, A, N, limit) ==
    LET x     == s.queue[1].atom
        depth == s.queue[1].depth
        here  == IF depth >= limit THEN {} ELSE A[x]
        fresh == (IF depth >= limit THEN {} ELSE N[x]) \ s.visited
    IN  /\ t.visited = s.visited \cup fresh
        /\ t.edges = s.edges \cup here
        /\ Len(t.queue) = Len(s.queue) - 1 + Cardinality(fresh)
        /\ \A i \in 1..(Len(s.queue) - 1) : t.queue[i] = s.queue[i + 1]
        /\ \A i \in Len(s.queue)..Len(t.queue) :
              t.queue[i].depth = depth + 1 /\ t.queue[i].atom \in fresh
        /\ \A y \in fresh : Queued(t, y, depth + 1)

\* What Visit does in a round.
LEMMA VisitIsRound ==
    ASSUME NEW G \in SUBSET Edge, NEW direction, NEW types, NEW limit \in Nat,
           NEW s \in Searching, s.queue # <<>>
    PROVE  LET A == [y \in Atom |-> Along(G, y, direction, types)]
               N == [y \in Atom |-> Near(G, y, direction, types)]
               t == Visit(G, direction, types, limit, s)
           IN  t \in Searching /\ IsRound(s, t, A, N, limit)
<1> DEFINE A == [y \in Atom |-> Along(G, y, direction, types)]
           N == [y \in Atom |-> Near(G, y, direction, types)]
           t == Visit(G, direction, types, limit, s)
           q == s.queue
           x == q[1].atom
           depth == q[1].depth
           here == IF depth >= limit THEN {} ELSE A[x]
           fresh == (IF depth >= limit THEN {} ELSE N[x]) \ s.visited
           Entry == [atom : Atom, depth : Nat]
           new == {[atom |-> y, depth |-> depth + 1] : y \in fresh}
           r == Seqs!SetToSeq(new)
<1>1. /\ q \in Seq(Entry) /\ q # <<>> /\ s.visited \in SUBSET Atom /\ s.edges \in SUBSET Edge
    BY DEF Searching
<1>2. x \in Atom /\ depth \in Nat /\ Head(q) = q[1] /\ Len(q) \in Nat \ {0}
    <2> HIDE DEF q, Entry
    <2>1. q[1] \in Entry /\ Head(q) = q[1] /\ Len(q) \in Nat \ {0}
        BY <1>1, EmptySeq, HeadTailProperties
    <2> QED
        BY <2>1 DEF Entry
<1>3. /\ here = IF depth >= limit THEN {} ELSE Along(G, x, direction, types)
      /\ fresh = {Far(e, x) : e \in here} \ s.visited
    BY <1>2 DEF Near
<1>4. t = [queue |-> Tail(q) \o r, visited |-> s.visited \cup fresh, edges |-> s.edges \cup here]
    <2> HIDE DEF here, fresh
    <2> QED
        BY <1>2, <1>3 DEF Visit
<1>5. fresh \subseteq Atom /\ here \subseteq Edge
    BY <1>2, Ends
<1> HIDE DEF t, here, fresh
<1>6. IsFiniteSet(fresh) /\ IsFiniteSet(new) /\ Cardinality(new) = Cardinality(fresh)
      /\ Cardinality(fresh) \in Nat
    <2>1. IsFiniteSet(fresh)
        BY <1>5, AtomFinite, FS_Subset
    <2> DEFINE f == [y \in fresh |-> [atom |-> y, depth |-> depth + 1]]
    <2>2. f \in Bijection(fresh, new)
        BY <1>2 DEF Bijection, Injection, Surjection, IsInjective
    <2> QED
        BY <2>1, <2>2, FS_Bijection, FS_CardinalityType DEF ExistsBijection
<1>7. /\ r \in Seq(new) /\ Len(r) = Cardinality(fresh)
      /\ \A z \in new : \E i \in 1..Len(r) : r[i] = z
    BY <1>6, Listed
<1>8. new \subseteq Entry
    BY <1>2, <1>5
<1> DEFINE p == Tail(q) \o r
<1>9. /\ p \in Seq(Entry) /\ Len(p) = Len(q) - 1 + Len(r) /\ Len(r) \in Nat
      /\ \A i \in 1..(Len(q) - 1) : p[i] = q[i + 1]
      /\ \A i \in Len(q)..Len(p) : /\ i - (Len(q) - 1) \in 1..Len(r)
                                   /\ p[i] = r[i - (Len(q) - 1)]
    <2> HIDE DEF q, Entry, r, new, fresh
    <2>1. q \in Seq(Entry) /\ q # <<>> /\ new \in SUBSET Entry /\ r \in Seq(new)
        BY <1>1, <1>7, <1>8
    <2> QED
        BY <2>1, Requeued
<1>10. t.queue = p /\ t.visited = s.visited \cup fresh /\ t.edges = s.edges \cup here
    BY <1>4
<1> HIDE DEF p, r
<1>11. r \in [1..Len(r) -> new]
    BY <1>7
<1>12. t \in Searching
    <2>1. t = [queue |-> p, visited |-> s.visited \cup fresh, edges |-> s.edges \cup here]
        BY <1>4 DEF p
    <2> QED
        BY <1>1, <1>5, <1>9, <2>1 DEF Searching
<1>13. ASSUME NEW i \in Len(q)..Len(p)
       PROVE  p[i].depth = depth + 1 /\ p[i].atom \in fresh
    <2>1. p[i] = r[i - (Len(q) - 1)] /\ i - (Len(q) - 1) \in 1..Len(r)
        BY <1>9
    <2>2. r[i - (Len(q) - 1)] \in new
        BY <1>11, <2>1
    <2>3. PICK y \in fresh : r[i - (Len(q) - 1)] = [atom |-> y, depth |-> depth + 1]
        BY <2>2
    <2> HIDE DEF depth, q, new
    <2> QED
        BY <2>1, <2>3
<1>14. ASSUME NEW y \in fresh PROVE Queued(t, y, depth + 1)
    <2>1. PICK i \in 1..Len(r) : r[i] = [atom |-> y, depth |-> depth + 1]
        BY <1>7
    <2>2. /\ i + (Len(q) - 1) \in 1..Len(p) /\ i + (Len(q) - 1) \in Len(q)..Len(p)
          /\ (i + (Len(q) - 1)) - (Len(q) - 1) = i
        <3> HIDE DEF q, new, Entry
        <3>1. Len(p) = Len(q) - 1 + Len(r) /\ Len(r) \in Nat /\ Len(q) \in Nat \ {0}
            BY <1>2, <1>9
        <3> QED
            BY <3>1
    <2>3. p[i + (Len(q) - 1)] = r[i]
        BY <1>9, <2>2
    <2> QED
        BY <1>10, <2>1, <2>2, <2>3 DEF Queued
<1> HIDE DEF A, N
<1>15. IsRound(s, t, A, N, limit)
    BY <1>7, <1>9, <1>10, <1>13, <1>14 DEF IsRound, here, fresh
<1> QED
    BY <1>12, <1>15 DEF t, A, N
---------------------------------------------------------------------------
(* The atoms hop by hop                                                     *)

\* W[n] are the atoms at most n hops from x, where N[y] are one hop from y.
Hops(W, x, N) ==
    /\ W \in [Nat -> SUBSET Atom] /\ N \in [Atom -> SUBSET Atom] /\ x \in Atom
    /\ W[0] = {x}
    /\ \A n \in Nat : W[n + 1] = W[n] \cup UNION {N[y] : y \in W[n]}

\* The atoms within so many hops are within more.
LEMMA HopsGrow ==
    ASSUME NEW W, NEW x, NEW N, Hops(W, x, N)
    PROVE  \A n \in Nat : \A m \in 0..n : x \in W[m] /\ W[m] \subseteq W[n]
<1> DEFINE S == {n \in Nat : \A m \in 0..n : x \in W[m] /\ W[m] \subseteq W[n]}
<1>1. 0 \in S
    BY DEF Hops
<1>2. ASSUME NEW n \in Nat, n \in S PROVE n + 1 \in S
    <2>1. W[n] \subseteq W[n + 1] /\ x \in W[n]
        BY <1>2 DEF Hops
    <2>2. ASSUME NEW m \in 0..(n + 1) PROVE x \in W[m] /\ W[m] \subseteq W[n + 1]
        <3>1. CASE m = n + 1
            BY <2>1, <3>1
        <3>2. CASE m \in 0..n
            BY <1>2, <2>1, <3>2
        <3> QED
            BY <3>1, <3>2
    <2> QED
        BY <2>2
<1> HIDE DEF S
<1>3. \A n \in Nat : n \in S
    BY <1>1, <1>2, Upward
<1> QED
    BY <1>3 DEF S

\* When a hop finds nothing new, no later one does.
LEMMA HopsEnd ==
    ASSUME NEW W, NEW x, NEW N, Hops(W, x, N), NEW d \in Nat, W[d + 1] \subseteq W[d]
    PROVE  \A n \in Nat : n >= d => W[n] = W[d]
<1> DEFINE S == {k \in Nat : W[d + k] = W[d]}
<1>1. 0 \in S
    OBVIOUS
<1>2. ASSUME NEW k \in Nat, k \in S PROVE k + 1 \in S
    <2>1. W[d + k] = W[d] /\ d + k \in Nat /\ d + (k + 1) = (d + k) + 1
        BY <1>2
    <2>2. W[(d + k) + 1] = W[d + k] \cup UNION {N[y] : y \in W[d + k]}
        BY <2>1 DEF Hops
    <2>3. W[d + 1] = W[d] \cup UNION {N[y] : y \in W[d]}
        BY DEF Hops
    <2>4. W[d + (k + 1)] = W[d]
        BY <2>1, <2>2, <2>3
    <2> QED
        BY <2>4
<1> HIDE DEF S
<1>3. \A k \in Nat : k \in S
    BY <1>1, <1>2, Upward
<1>4. ASSUME NEW n \in Nat, n >= d PROVE W[n] = W[d]
    <2>1. n - d \in Nat /\ d + (n - d) = n
        BY <1>4
    <2> QED
        BY <1>3, <2>1 DEF S
<1> QED
    BY <1>4

\* Each atom but x is one hop from one that is a hop less far.
LEMMA HopsBack ==
    ASSUME NEW W, NEW x, NEW N, Hops(W, x, N)
    PROVE  \A n \in Nat : \A y \in W[n] : y = x \/ (n > 0 /\ \E z \in W[n - 1] : y \in N[z])
<1> DEFINE S == {n \in Nat : \A y \in W[n] : y = x \/ (n > 0 /\ \E z \in W[n - 1] : y \in N[z])}
<1>1. 0 \in S
    BY DEF Hops
<1>2. ASSUME NEW n \in Nat, n \in S PROVE n + 1 \in S
    <2>1. W[n + 1] = W[n] \cup UNION {N[y] : y \in W[n]}
        BY DEF Hops
    <2>2. n > 0 => n - 1 \in Nat /\ W[n - 1] \subseteq W[n]
        BY HopsGrow
    <2>3. ASSUME NEW y \in W[n + 1] PROVE y = x \/ \E z \in W[n] : y \in N[z]
        <3>1. CASE y \in W[n]
            BY <1>2, <2>2, <3>1
        <3>2. CASE \E z \in W[n] : y \in N[z]
            BY <3>2
        <3> QED
            BY <2>1, <3>1, <3>2
    <2>4. (n + 1) - 1 = n /\ n + 1 > 0
        OBVIOUS
    <2> QED
        BY <2>3, <2>4
<1> HIDE DEF S
<1>3. \A n \in Nat : n \in S
    BY <1>1, <1>2, Upward
<1> QED
    BY <1>3 DEF S

---------------------------------------------------------------------------
(* What a search finds is there                                             *)

\* The queue has the atoms with a distance they are not beyond; the edges and
\* the atoms that were not visited before are those of atoms within the limit.
SearchSound(s, W, A, N, limit, before) ==
    /\ \A i \in 1..Len(s.queue) :
          /\ s.queue[i].depth <= limit
          /\ s.queue[i].atom \in W[s.queue[i].depth]
    /\ before \subseteq s.visited
    /\ \A e \in s.edges : limit > 0 /\ \E y \in W[limit - 1] : e \in A[y]
    /\ \A y \in s.visited \ before : limit > 0 /\ \E z \in W[limit - 1] : y \in N[z]

\* The queue of a search: its length and its entries.
LEMMA Entries ==
    ASSUME NEW s \in Searching
    PROVE  /\ Len(s.queue) \in Nat
           /\ \A i \in 1..Len(s.queue) : s.queue[i].atom \in Atom /\ s.queue[i].depth \in Nat
           /\ s.queue # <<>> => Len(s.queue) >= 1
           /\ Len(s.queue) = 0 => s.queue = <<>>
<1> DEFINE q == s.queue
<1>1. q \in Seq([atom : Atom, depth : Nat])
    BY DEF Searching
<1>2. \A i \in 1..Len(q) : q[i] \in [atom : Atom, depth : Nat]
    BY <1>1, ElementOfSeq
<1>3. Len(q) \in Nat /\ (q # <<>> => Len(q) >= 1) /\ (Len(q) = 0 => q = <<>>)
    <2> HIDE DEF q
    <2> QED
        BY <1>1, EmptySeq
<1> QED
    BY <1>2, <1>3

\* A round finds nothing that is not within the limit.
LEMMA SoundRound ==
    ASSUME NEW W, NEW x, NEW A, NEW N, Hops(W, x, N), NEW limit \in Nat, NEW before,
           NEW s \in Searching, s.queue # <<>>, NEW t \in Searching,
           IsRound(s, t, A, N, limit), SearchSound(s, W, A, N, limit, before)
    PROVE  SearchSound(t, W, A, N, limit, before)
<1> DEFINE z == s.queue[1].atom
           d == s.queue[1].depth
           here == IF d >= limit THEN {} ELSE A[z]
           fresh == (IF d >= limit THEN {} ELSE N[z]) \ s.visited
<1>1. /\ Len(s.queue) \in Nat /\ Len(s.queue) >= 1 /\ Len(t.queue) \in Nat
      /\ z \in Atom /\ d \in Nat
    BY Entries
<1>2. d <= limit /\ z \in W[d]
    BY <1>1 DEF SearchSound
<1>3. d < limit => limit > 0 /\ z \in W[limit - 1] /\ limit - 1 \in Nat
    BY <1>1, <1>2, HopsGrow
<1>4. d < limit => fresh \subseteq W[d + 1] /\ d + 1 <= limit
    BY <1>1, <1>2 DEF Hops
<1>5. d >= limit => here = {} /\ fresh = {}
    OBVIOUS
<1>6. d < limit => here = A[z] /\ fresh = N[z] \ s.visited
    BY <1>1
<1>7. /\ t.visited = s.visited \cup fresh /\ t.edges = s.edges \cup here
      /\ \A i \in 1..(Len(s.queue) - 1) : t.queue[i] = s.queue[i + 1]
      /\ \A i \in Len(s.queue)..Len(t.queue) : t.queue[i].depth = d + 1 /\ t.queue[i].atom \in fresh
    BY DEF IsRound
<1> HIDE DEF here, fresh, z, d
<1>8. ASSUME NEW i \in 1..Len(t.queue)
      PROVE  t.queue[i].depth <= limit /\ t.queue[i].atom \in W[t.queue[i].depth]
    <2>1. CASE i \in 1..(Len(s.queue) - 1)
        <3>1. i + 1 \in 1..Len(s.queue) /\ t.queue[i] = s.queue[i + 1]
            BY <1>1, <1>7, <2>1
        <3> QED
            BY <3>1 DEF SearchSound
    <2>2. CASE i \in Len(s.queue)..Len(t.queue)
        <3>1. t.queue[i].depth = d + 1 /\ t.queue[i].atom \in fresh
            BY <1>7, <2>2
        <3>2. d < limit
            BY <1>1, <1>5, <3>1
        <3> QED
            BY <1>4, <3>1, <3>2
    <2> QED
        BY <1>1, <2>1, <2>2
<1>9. ASSUME NEW e \in t.edges PROVE limit > 0 /\ \E y \in W[limit - 1] : e \in A[y]
    <2>1. CASE e \in s.edges
        BY <2>1 DEF SearchSound
    <2>2. CASE e \in here
        BY <1>1, <1>3, <1>5, <1>6, <2>2
    <2> QED
        BY <1>7, <2>1, <2>2
<1>10. ASSUME NEW y \in t.visited \ before
       PROVE  limit > 0 /\ \E v \in W[limit - 1] : y \in N[v]
    <2>1. CASE y \in s.visited
        BY <1>10, <2>1 DEF SearchSound
    <2>2. CASE y \in fresh
        BY <1>1, <1>3, <1>5, <1>6, <2>2
    <2> QED
        BY <1>7, <2>1, <2>2
<1>11. before \subseteq t.visited
    BY <1>7 DEF SearchSound
<1> QED
    BY <1>8, <1>9, <1>10, <1>11 DEF SearchSound
---------------------------------------------------------------------------
(* What is there is found                                                   *)

\* A search has looked along the edges of y.
Looked(s, A, N, y) == A[y] \subseteq s.edges /\ N[y] \subseteq s.visited

\* The search is at a distance d, that of the head of its queue: it has looked
\* along the edges of all nearer atoms, of those at d that are not in the queue,
\* and what it found further away is at the end of the queue.
Complete(s, W, x, A, N, limit) ==
    IF s.queue = <<>>
    THEN limit > 0 => \A y \in W[limit - 1] : Looked(s, A, N, y)
    ELSE LET d == s.queue[1].depth
         IN  /\ \A i \in 1..Len(s.queue) : s.queue[i].depth \in {d, d + 1}
             /\ \A i, j \in 1..Len(s.queue) : i <= j => s.queue[i].depth <= s.queue[j].depth
             /\ W[d] \subseteq s.visited \cup {x}
             /\ d > 0 => \A y \in W[d - 1] : Looked(s, A, N, y)
             /\ d < limit => \A y \in W[d] : Looked(s, A, N, y) \/ Queued(s, y, d)
             /\ \A y \in s.visited \ W[d] : Queued(s, y, d + 1)

\* A round keeps what was looked along, and looks along the head's edges.
LEMMA LookedRound ==
    ASSUME NEW A, NEW N, NEW limit \in Nat, NEW s \in Searching, s.queue # <<>>, NEW t \in Searching,
           IsRound(s, t, A, N, limit)
    PROVE  /\ s.visited \subseteq t.visited
           /\ \A y : Looked(s, A, N, y) => Looked(t, A, N, y)
           /\ s.queue[1].depth < limit => Looked(t, A, N, s.queue[1].atom)
<1> DEFINE z == s.queue[1].atom
           d == s.queue[1].depth
<1>1. d \in Nat
    BY Entries
<1>2. s.visited \subseteq t.visited /\ s.edges \subseteq t.edges
    BY DEF IsRound
<1>3. d < limit => A[z] \subseteq t.edges /\ N[z] \subseteq t.visited
    BY <1>1 DEF IsRound
<1> QED
    BY <1>2, <1>3 DEF Looked

\* A round moves the queue up by one.
LEMMA QueuedRound ==
    ASSUME NEW A, NEW N, NEW limit \in Nat, NEW s \in Searching, s.queue # <<>>, NEW t \in Searching,
           IsRound(s, t, A, N, limit), NEW y, NEW d, Queued(s, y, d)
    PROVE  (y = s.queue[1].atom /\ d = s.queue[1].depth) \/ (t.queue # <<>> /\ Queued(t, y, d))
<1>1. PICK i \in 1..Len(s.queue) : s.queue[i] = [atom |-> y, depth |-> d]
    BY DEF Queued
<1>2. Len(s.queue) \in Nat /\ Len(t.queue) \in Nat
    BY Entries
<1>3. CASE i = 1
    BY <1>1, <1>3
<1>4. CASE i # 1
    <2>1. i - 1 \in 1..(Len(s.queue) - 1) /\ (i - 1) + 1 = i
        BY <1>2, <1>4
    <2>2. t.queue[i - 1] = s.queue[i]
        BY <2>1 DEF IsRound
    <2>3. IsFiniteSet((IF s.queue[1].depth >= limit THEN {} ELSE N[s.queue[1].atom]) \ s.visited)
        <3>1. \A v \in (IF s.queue[1].depth >= limit THEN {} ELSE N[s.queue[1].atom]) \ s.visited :
                  v \in t.visited
            BY DEF IsRound
        <3>2. t.visited \subseteq Atom
            BY DEF Searching
        <3> QED
            BY <3>1, <3>2, AtomFinite, FS_Subset
    <2>4. Len(t.queue) >= Len(s.queue) - 1
        BY <1>2, <2>3, FS_CardinalityType DEF IsRound
    <2>5. i - 1 \in 1..Len(t.queue)
        BY <1>2, <2>1, <2>4
    <2>6. t.queue # <<>>
        BY <2>5
    <2> QED
        BY <1>1, <2>2, <2>5, <2>6 DEF Queued
<1> QED
    BY <1>3, <1>4

\* A round leaves nothing out: the distance stays, or grows by one when the
\* last atom at it leaves the queue.
LEMMA CompleteRound ==
    ASSUME NEW W, NEW x, NEW A, NEW N, Hops(W, x, N), NEW limit \in Nat, NEW before,
           NEW s \in Searching, s.queue # <<>>, NEW t \in Searching,
           IsRound(s, t, A, N, limit), SearchSound(s, W, A, N, limit, before),
           Complete(s, W, x, A, N, limit)
    PROVE  Complete(t, W, x, A, N, limit)
<1> DEFINE z == s.queue[1].atom
           d == s.queue[1].depth
<1>1. /\ Len(s.queue) \in Nat /\ Len(s.queue) >= 1 /\ Len(t.queue) \in Nat
      /\ z \in Atom /\ d \in Nat /\ d <= limit
    BY Entries DEF SearchSound
<1>2. SearchSound(t, W, A, N, limit, before)
    BY SoundRound
<1>3. /\ \A i \in 1..Len(s.queue) : s.queue[i].depth \in {d, d + 1}
      /\ \A i, j \in 1..Len(s.queue) : i <= j => s.queue[i].depth <= s.queue[j].depth
      /\ W[d] \subseteq s.visited \cup {x}
      /\ d > 0 => \A y \in W[d - 1] : Looked(s, A, N, y)
      /\ d < limit => \A y \in W[d] : Looked(s, A, N, y) \/ Queued(s, y, d)
      /\ \A y \in s.visited \ W[d] : Queued(s, y, d + 1)
    BY DEF Complete
<1>4. /\ \A i \in 1..(Len(s.queue) - 1) : t.queue[i] = s.queue[i + 1]
      /\ \A i \in Len(s.queue)..Len(t.queue) : t.queue[i].depth = d + 1
      /\ \A y \in t.visited \ s.visited : Queued(t, y, d + 1)
    BY DEF IsRound
<1> HIDE DEF z, d
<1>5. /\ \A i \in 1..Len(t.queue) : t.queue[i].depth \in {d, d + 1}
      /\ \A i, j \in 1..Len(t.queue) : i <= j => t.queue[i].depth <= t.queue[j].depth
    <2>1. ASSUME NEW i \in 1..Len(t.queue)
          PROVE  \/ i + 1 \in 1..Len(s.queue) /\ t.queue[i] = s.queue[i + 1]
                 \/ i >= Len(s.queue) /\ t.queue[i].depth = d + 1
        BY <1>1, <1>4
    <2>2. \A i \in 1..Len(t.queue) : t.queue[i].depth \in {d, d + 1}
        BY <1>3, <2>1
    <2>3. ASSUME NEW i \in 1..Len(t.queue), NEW j \in 1..Len(t.queue), i <= j
          PROVE  t.queue[i].depth <= t.queue[j].depth
        <3>1. CASE j >= Len(s.queue) /\ t.queue[j].depth = d + 1
            BY <1>1, <2>2, <3>1
        <3>2. CASE j + 1 \in 1..Len(s.queue) /\ t.queue[j] = s.queue[j + 1]
            <4>1. i + 1 \in 1..Len(s.queue) /\ i + 1 <= j + 1 /\ i < Len(s.queue)
                BY <1>1, <2>3, <3>2
            <4>2. t.queue[i] = s.queue[i + 1]
                BY <1>1, <2>1, <4>1
            <4> QED
                BY <1>3, <3>2, <4>1, <4>2
        <3> QED
            BY <2>1, <3>1, <3>2
    <2> QED
        BY <2>2, <2>3
<1>6. /\ W[d] \subseteq t.visited \cup {x}
      /\ d > 0 => \A y \in W[d - 1] : Looked(t, A, N, y)
    BY <1>3, LookedRound
<1>7. ASSUME d < limit, NEW y \in W[d]
      PROVE  Looked(t, A, N, y) \/ (t.queue # <<>> /\ Queued(t, y, d))
    <2>1. Looked(s, A, N, y) \/ Queued(s, y, d)
        BY <1>3, <1>7
    <2>2. y = z => Looked(t, A, N, y)
        BY <1>7, LookedRound DEF z, d
    <2> QED
        BY <2>1, <2>2, LookedRound, QueuedRound DEF z
<1>8. ASSUME NEW y \in t.visited \ W[d] PROVE t.queue # <<>> /\ Queued(t, y, d + 1)
    <2>1. CASE y \notin s.visited
        <3>1. Queued(t, y, d + 1)
            BY <1>4, <1>8, <2>1
        <3>2. Len(t.queue) # 0
            BY <1>1, <3>1 DEF Queued
        <3> QED
            BY <3>1, <3>2
    <2>2. CASE y \in s.visited
        <3>1. Queued(s, y, d + 1) /\ d + 1 # d
            BY <1>1, <1>3, <1>8, <2>2
        <3> QED
            BY <3>1, QueuedRound DEF d
    <2> QED
        BY <2>1, <2>2
<1>9. CASE t.queue = <<>>
    <2> SUFFICES ASSUME limit > 0, NEW y \in W[limit - 1] PROVE Looked(t, A, N, y)
        BY <1>9 DEF Complete
    <2>1. CASE d = limit
        BY <1>6, <2>1
    <2>2. CASE d < limit
        <3>1. t.visited \subseteq W[d] /\ \A v \in W[d] : Looked(t, A, N, v)
            BY <1>7, <1>8, <1>9, <2>2
        <3>2. W[d + 1] \subseteq W[d]
            BY <1>1, <3>1 DEF Hops, Looked
        <3>3. W[limit - 1] = W[d]
            BY <1>1, <2>2, <3>2, HopsEnd
        <3> QED
            BY <3>1, <3>3
    <2> QED
        BY <1>1, <2>1, <2>2
<1>10. CASE t.queue # <<>>
    <2> DEFINE e == t.queue[1].depth
    <2>1. e \in {d, d + 1} /\ 1 \in 1..Len(t.queue)
        BY <1>1, <1>5, <1>10, Entries
    <2>2. CASE e = d
        BY <1>5, <1>6, <1>7, <1>8, <1>10, <2>2 DEF Complete
    <2>3. CASE e = d + 1
        <3>1. \A i \in 1..Len(t.queue) : t.queue[i].depth = d + 1
            <4>1. \A i \in 1..Len(t.queue) : e <= t.queue[i].depth
                BY <1>5, <2>1
            <4> QED
                BY <1>1, <1>5, <2>3, <4>1
        <3>2. d < limit
            BY <1>1, <1>2, <2>1, <2>3 DEF SearchSound
        <3>3. \A y \in W[d] : Looked(t, A, N, y)
            <4>1. \A y : ~Queued(t, y, d)
                BY <1>1, <3>1 DEF Queued
            <4> QED
                BY <1>7, <3>2, <4>1
        <3>4. W[d + 1] \subseteq t.visited \cup {x}
            BY <1>1, <1>6, <3>3 DEF Hops, Looked
        <3>5. ASSUME NEW y \in t.visited \ W[d] PROVE Queued(t, y, d + 1) /\ y \in W[d + 1]
            <4>1. PICK i \in 1..Len(t.queue) : t.queue[i] = [atom |-> y, depth |-> d + 1]
                BY <1>8, <3>5 DEF Queued
            <4>2. t.queue[i].atom = y /\ t.queue[i].depth = d + 1
                BY <4>1
            <4> QED
                BY <1>2, <1>8, <3>5, <4>2 DEF SearchSound
        <3>6. ASSUME NEW y \in W[d + 1] PROVE Looked(t, A, N, y) \/ Queued(t, y, d + 1)
            <4>1. x \in W[d]
                BY <1>1, HopsGrow
            <4> QED
                BY <3>3, <3>4, <3>5, <3>6, <4>1
        <3>7. (d + 1) - 1 = d
            BY <1>1
        <3>8. \A i \in 1..Len(t.queue) : t.queue[i].depth \in {e, e + 1}
            BY <2>3, <3>1
        <3>9. \A y \in t.visited \ W[e] : Queued(t, y, e + 1)
            <4>1. W[d] \subseteq W[d + 1]
                BY <1>1 DEF Hops
            <4> QED
                BY <2>3, <3>5, <4>1
        <3>10. /\ W[e] \subseteq t.visited \cup {x}
               /\ e > 0 => \A y \in W[e - 1] : Looked(t, A, N, y)
               /\ e < limit => \A y \in W[e] : Looked(t, A, N, y) \/ Queued(t, y, e)
            BY <2>3, <3>3, <3>4, <3>6, <3>7
        <3> QED
            BY <1>5, <1>10, <3>8, <3>9, <3>10 DEF Complete
    <2> QED
        BY <2>1, <2>2, <2>3
<1> QED
    BY <1>9, <1>10
---------------------------------------------------------------------------
(* What a search returns                                                    *)

\* Within counts hops.
LEMMA WithinHops ==
    ASSUME NEW G \in SUBSET Edge, NEW x \in Atom, NEW direction, NEW types
    PROVE  Hops([n \in Nat |-> Within(G, x, direction, n, types)], x,
                [y \in Atom |-> Near(G, y, direction, types)])
<1> DEFINE N == [y \in Atom |-> Near(G, y, direction, types)]
           hop == [S \in SUBSET Atom |-> S \cup UNION {Near(G, y, direction, types) : y \in S}]
           W == [n \in Nat |-> Within(G, x, direction, n, types)]
<1>1. N \in [Atom -> SUBSET Atom]
    BY Ends
<1>2. ASSUME NEW S \in SUBSET Atom
      PROVE  hop[S] \in SUBSET Atom /\ hop[S] = S \cup UNION {N[y] : y \in S}
    <2>1. hop[S] = S \cup UNION {Near(G, y, direction, types) : y \in S}
        OBVIOUS
    <2>2. \A y \in S : N[y] = Near(G, y, direction, types) /\ N[y] \subseteq Atom
        BY Ends
    <2> HIDE DEF N, hop
    <2> QED
        BY <2>1, <2>2
<1>3. \A n \in Nat : W[n] = Iterate(hop, {x}, n)
    BY DEF Within
<1> HIDE DEF hop, W
<1>4. \A n \in Nat : W[n] \in SUBSET Atom
    <2>1. {x} \in SUBSET Atom /\ \A S \in SUBSET Atom : hop[S] \in SUBSET Atom
        BY <1>2
    <2>2. \A n \in Nat : Iterate(hop, {x}, n) \in SUBSET Atom
        BY <2>1, IterateStays
    <2> QED
        BY <1>3, <2>2
<1>5. W[0] = {x} /\ \A n \in Nat : W[n + 1] = hop[W[n]]
    BY <1>3, IterateUnfolds
<1>6. W \in [Nat -> SUBSET Atom]
    BY <1>4 DEF W
<1> HIDE DEF N
<1>7. Hops(W, x, N)
    BY <1>1, <1>2, <1>4, <1>5, <1>6 DEF Hops
<1> QED
    BY <1>7 DEF W, N

\* A round takes one atom from the queue; each that enters it is visited anew.
LEMMA CountRound ==
    ASSUME NEW A, NEW N, NEW limit \in Nat, NEW s \in Searching, NEW t \in Searching,
           IsRound(s, t, A, N, limit)
    PROVE  /\ Cardinality(s.visited) \in Nat /\ Cardinality(t.visited) \in Nat
           /\ Len(s.queue) \in Nat /\ Len(t.queue) \in Nat
           /\ Len(t.queue) + Cardinality(s.visited) + 1 = Len(s.queue) + Cardinality(t.visited)
<1> DEFINE fresh == (IF s.queue[1].depth >= limit THEN {} ELSE N[s.queue[1].atom]) \ s.visited
<1>1. /\ t.visited = s.visited \cup fresh
      /\ Len(t.queue) = Len(s.queue) - 1 + Cardinality(fresh)
    BY DEF IsRound
<1>2. s.visited \cap fresh = {}
    OBVIOUS
<1> HIDE DEF fresh
<1>3. s.visited \in SUBSET Atom /\ t.visited \in SUBSET Atom /\ fresh \in SUBSET Atom
    BY <1>1 DEF Searching
<1>4. IsFiniteSet(s.visited) /\ IsFiniteSet(t.visited) /\ IsFiniteSet(fresh)
    BY <1>3, AtomFinite, FS_Subset
<1>5. /\ Cardinality(s.visited) \in Nat /\ Cardinality(t.visited) \in Nat
      /\ Cardinality(fresh) \in Nat
    BY <1>4, FS_CardinalityType
<1>6. Cardinality(t.visited) = Cardinality(s.visited) + Cardinality(fresh)
    <2>1. Cardinality(s.visited \cup fresh)
            = Cardinality(s.visited) + Cardinality(fresh) - Cardinality(s.visited \cap fresh)
        BY <1>4, FS_Union
    <2>2. Cardinality(s.visited \cap fresh) = 0
        BY <1>2, FS_EmptySet
    <2> QED
        BY <1>1, <1>5, <2>1, <2>2
<1>7. Len(s.queue) \in Nat /\ Len(t.queue) \in Nat
    BY Entries
<1> QED
    BY <1>1, <1>5, <1>6, <1>7

\* The loop has ended after a round more than there are atoms.
LEMMA SearchEnds ==
    ASSUME NEW G \in SUBSET Edge, NEW x \in Atom, NEW direction, NEW types, NEW limit \in Nat,
           NEW before \in SUBSET Atom
    PROVE  Search(G, direction, types, limit, From(x, before)).queue = <<>>
<1> DEFINE A == [y \in Atom |-> Along(G, y, direction, types)]
           N == [y \in Atom |-> Near(G, y, direction, types)]
           round == [t \in Searching |-> IF t.queue = <<>> THEN t
                                         ELSE Visit(G, direction, types, limit, t)]
           init == From(x, before)
           run == [n \in Nat |-> Iterate(round, init, n)]
           last == Cardinality(Atom) + 1
           L == [n \in Nat |-> Len(run[n].queue)]
           C == [n \in Nat |-> Cardinality(run[n].visited)]
           S == {n \in Nat : run[n].queue = <<>> \/ L[n] + n <= 1 + C[n]}
<1>1. init \in Searching /\ Len(init.queue) = 1
    BY DEF From, Searching
<1>2. ASSUME NEW s \in Searching
      PROVE  /\ round[s] \in Searching
             /\ s.queue = <<>> => round[s] = s
             /\ s.queue # <<>> => IsRound(s, round[s], A, N, limit)
    BY VisitIsRound
<1>3. Search(G, direction, types, limit, From(x, before)) = Iterate(round, init, last)
    BY DEF Search
<1> HIDE DEF round, init, A, N
<1>4. \A n \in Nat : Iterate(round, init, n) \in Searching
    BY <1>1, <1>2, IterateStays
<1>5. \A n \in Nat : run[n] \in Searching
    BY <1>4
<1>6. run[0] = init /\ \A n \in Nat : run[n + 1] = round[run[n]]
    BY IterateUnfolds
<1>7. Cardinality(Atom) \in Nat /\ last \in Nat
    BY AtomFinite, FS_CardinalityType
<1>8. Search(G, direction, types, limit, From(x, before)) = run[last]
    BY <1>3, <1>7
<1> HIDE DEF run, last
<1>9. ASSUME NEW n \in Nat
      PROVE  /\ C[n] \in Nat /\ L[n] \in Nat /\ C[n] <= Cardinality(Atom)
             /\ run[n].queue # <<>> => L[n] >= 1
    <2>1. run[n].visited \in SUBSET Atom
        BY <1>5 DEF Searching
    <2>2. IsFiniteSet(run[n].visited) /\ Cardinality(run[n].visited) <= Cardinality(Atom)
        BY <2>1, AtomFinite, FS_Subset
    <2> QED
        BY <1>5, <2>2, Entries, FS_CardinalityType
<1>10. L[0] = 1
    BY <1>1, <1>6
<1>11. ASSUME NEW n \in Nat, run[n].queue # <<>> PROVE L[n + 1] + C[n] + 1 = L[n] + C[n + 1]
    <2>1. /\ run[n] \in Searching /\ run[n + 1] \in Searching
          /\ IsRound(run[n], run[n + 1], A, N, limit)
        BY <1>2, <1>5, <1>6, <1>11
    <2>2. Len(run[n + 1].queue) + Cardinality(run[n].visited) + 1
            = Len(run[n].queue) + Cardinality(run[n + 1].visited)
        BY <2>1, CountRound
    <2>3. n + 1 \in Nat
        OBVIOUS
    <2> QED
        BY <2>2, <2>3
<1> HIDE DEF L, C
<1>12. 0 \in S
    BY <1>9, <1>10
<1>13. ASSUME NEW n \in Nat, n \in S PROVE n + 1 \in S
    <2>1. CASE run[n].queue = <<>>
        <3>1. run[n + 1].queue = <<>>
            BY <1>2, <1>5, <1>6, <2>1
        <3> QED
            BY <3>1
    <2>2. CASE run[n].queue # <<>>
        <3>1. L[n] + n <= 1 + C[n] /\ L[n + 1] + C[n] + 1 = L[n] + C[n + 1] /\ n + 1 \in Nat
            BY <1>11, <1>13, <2>2
        <3>2. L[n] \in Nat /\ C[n] \in Nat /\ L[n + 1] \in Nat /\ C[n + 1] \in Nat
            BY <1>9, <3>1
        <3>3. L[n + 1] + (n + 1) <= 1 + C[n + 1]
            BY <3>1, <3>2
        <3> QED
            BY <3>1, <3>3
    <2> QED
        BY <2>1, <2>2
<1> HIDE DEF S
<1>14. \A n \in Nat : n \in S
    BY <1>12, <1>13, Upward
<1>15. run[last].queue = <<>>
    <2> SUFFICES ASSUME run[last].queue # <<>> PROVE FALSE
        OBVIOUS
    <2>1. L[last] \in Nat /\ L[last] >= 1 /\ C[last] \in Nat /\ C[last] <= Cardinality(Atom)
        BY <1>7, <1>9
    <2>2. L[last] + last <= 1 + C[last]
        BY <1>7, <1>14 DEF S
    <2>3. last = Cardinality(Atom) + 1
        BY DEF last
    <2> QED
        BY <1>7, <2>1, <2>2, <2>3
<1> QED
    BY <1>8, <1>15

\* The edges of the atoms less than limit hops from x.
Across(G, x, direction, limit, types) ==
    IF limit = 0 THEN {}
    ELSE UNION {Along(G, y, direction, types) : y \in Within(G, x, direction, limit - 1, types)}

\* What a search from x finds that begins with some atoms visited.
IsFound(found, before, x, there, across) ==
    /\ found \in Searching
    /\ before \subseteq found.visited
    /\ found.visited \subseteq before \cup there
    /\ before \subseteq {x} => found.visited = before \cup there /\ found.edges = across

\* A search visits nothing but what is reached; one that starts afresh visits
\* all of that, and has looked along the edges of all atoms nearer than its limit.
LEMMA SearchFinds ==
    ASSUME NEW G \in SUBSET Edge, NEW x \in Atom, NEW direction, NEW types, NEW limit \in Nat,
           NEW before \in SUBSET Atom
    PROVE  IsFound(Search(G, direction, types, limit, From(x, before)), before, x,
                   Reached(G, x, direction, limit, types), Across(G, x, direction, limit, types))
<1> DEFINE A == [y \in Atom |-> Along(G, y, direction, types)]
           N == [y \in Atom |-> Near(G, y, direction, types)]
           W == [n \in Nat |-> Within(G, x, direction, n, types)]
           round == [t \in Searching |-> IF t.queue = <<>> THEN t
                                         ELSE Visit(G, direction, types, limit, t)]
           init == From(x, before)
           found == Search(G, direction, types, limit, init)
           Good == {s \in Searching : /\ SearchSound(s, W, A, N, limit, before)
                                      /\ before \subseteq {x} => Complete(s, W, x, A, N, limit)}
<1>1. Hops(W, x, N)
    BY WithinHops
<1>2. init \in Searching /\ init.queue = <<[atom |-> x, depth |-> 0]>> /\ init.visited = before
      /\ init.edges = {}
    BY DEF From, Searching
<1>3. ASSUME NEW s \in Searching
      PROVE  /\ round[s] \in Searching
             /\ s.queue = <<>> => round[s] = s
             /\ s.queue # <<>> => IsRound(s, round[s], A, N, limit)
    BY VisitIsRound
<1>4. found = Iterate(round, init, Cardinality(Atom) + 1)
    BY DEF Search
<1> HIDE DEF A, N, W, round, init
<1>5. init \in Good
    <2>1. W[0] = {x}
        BY <1>1 DEF Hops
    <2>2. SearchSound(init, W, A, N, limit, before)
        BY <1>2, <2>1 DEF SearchSound
    <2>3. before \subseteq {x} => Complete(init, W, x, A, N, limit)
        <3> SUFFICES ASSUME before \subseteq {x} PROVE Complete(init, W, x, A, N, limit)
            OBVIOUS
        <3>1. /\ init.queue # <<>> /\ Len(init.queue) = 1 /\ init.queue[1].depth = 0
              /\ init.queue[1] = [atom |-> x, depth |-> 0]
            BY <1>2
        <3>2. Queued(init, x, 0)
            BY <3>1 DEF Queued
        <3> QED
            BY <1>2, <2>1, <3>1, <3>2 DEF Complete
    <2> QED
        BY <1>2, <2>2, <2>3
<1>6. ASSUME NEW s \in Good PROVE round[s] \in Good
    <2>1. CASE s.queue = <<>>
        BY <1>3, <2>1
    <2>2. CASE s.queue # <<>>
        <3>1. round[s] \in Searching /\ IsRound(s, round[s], A, N, limit)
            BY <1>3, <2>2
        <3>2. SearchSound(round[s], W, A, N, limit, before)
            BY <1>1, <2>2, <3>1, SoundRound
        <3>3. before \subseteq {x} => Complete(round[s], W, x, A, N, limit)
            BY <1>1, <2>2, <3>1, CompleteRound
        <3> QED
            BY <3>1, <3>2, <3>3
    <2> QED
        BY <2>1, <2>2
<1> HIDE DEF Good
<1>7. found \in Good
    <2>1. Cardinality(Atom) + 1 \in Nat
        BY AtomFinite, FS_CardinalityType
    <2> HIDE DEF found
    <2> QED
        BY <1>4, <1>5, <1>6, <2>1, IterateStays
<1>8. found.queue = <<>>
    BY SearchEnds DEF init
<1> HIDE DEF found
<1>9. /\ limit > 0 => limit - 1 \in Nat
      /\ \A n \in Nat : W[n] = Within(G, x, direction, n, types) /\ W[n] \subseteq Atom
    BY <1>1 DEF W, Hops
<1>10. Reached(G, x, direction, limit, types) = IF limit = 0 THEN {} ELSE UNION {N[y] : y \in W[limit - 1]}
    <2>1. CASE limit = 0
        BY <2>1 DEF Reached
    <2>2. CASE limit # 0
        <3>1. /\ W[limit - 1] = Within(G, x, direction, limit - 1, types)
              /\ \A y \in W[limit - 1] : N[y] = Near(G, y, direction, types)
            BY <1>9, <2>2 DEF N
        <3>2. {N[y] : y \in W[limit - 1]}
                = {Near(G, y, direction, types) : y \in Within(G, x, direction, limit - 1, types)}
            BY <3>1
        <3> QED
            BY <2>2, <3>2 DEF Reached
    <2> QED
        BY <2>1, <2>2
<1>11. limit # 0 =>
         UNION {Along(G, y, direction, types) : y \in Within(G, x, direction, limit - 1, types)}
           = UNION {A[y] : y \in W[limit - 1]}
    <2> SUFFICES ASSUME limit # 0
                 PROVE  {Along(G, y, direction, types) : y \in Within(G, x, direction, limit - 1, types)}
                          = {A[y] : y \in W[limit - 1]}
        BY Zenon
    <2>1. /\ W[limit - 1] = Within(G, x, direction, limit - 1, types)
          /\ \A y \in W[limit - 1] : A[y] = Along(G, y, direction, types)
        BY <1>9 DEF A
    <2> QED
        BY <2>1
<1>12. found \in Searching /\ SearchSound(found, W, A, N, limit, before)
    BY <1>7 DEF Good
<1>13. before \subseteq {x} => (limit > 0 => \A y \in W[limit - 1] : Looked(found, A, N, y))
    BY <1>7, <1>8 DEF Good, Complete
<1>14. /\ before \subseteq found.visited
       /\ found.visited \subseteq before \cup Reached(G, x, direction, limit, types)
    BY <1>10, <1>12 DEF SearchSound
<1>15. ASSUME before \subseteq {x}
       PROVE  /\ Reached(G, x, direction, limit, types) \subseteq found.visited
              /\ found.edges = IF limit = 0 THEN {}
                   ELSE UNION {Along(G, y, direction, types) :
                               y \in Within(G, x, direction, limit - 1, types)}
    <2>1. CASE limit = 0
        BY <1>10, <1>12, <2>1 DEF SearchSound
    <2>2. CASE limit > 0
        <3>1. \A y \in W[limit - 1] : Looked(found, A, N, y)
            BY <1>13, <1>15, <2>2
        <3>2. found.edges = UNION {A[y] : y \in W[limit - 1]}
            BY <1>12, <3>1 DEF SearchSound, Looked
        <3>3. Reached(G, x, direction, limit, types) \subseteq found.visited
            BY <1>10, <2>2, <3>1 DEF Looked
        <3> QED
            BY <1>11, <2>2, <3>2, <3>3
    <2> QED
        BY <2>1, <2>2
<1>16. before \subseteq {x} => found.visited = before \cup Reached(G, x, direction, limit, types)
    BY <1>14, <1>15
<1> QED
    BY <1>12, <1>14, <1>15, <1>16 DEF found, init, Across, IsFound

\* The answer of get_lineage: the atoms at most limit hops away and the edges
\* of those less than limit hops away, with both ends; traverse_bfs the same atoms.
IsAnswer(G, x, direction, limit, types) ==
    LET found == Traverse(G, x, direction, limit, types)
    IN  /\ found.queue = <<>>
        /\ found.visited = Within(G, x, direction, limit, types)
        /\ found.edges = IF limit = 0 THEN {}
              ELSE UNION {Along(G, y, direction, types) :
                          y \in Within(G, x, direction, limit - 1, types)}
        /\ \A e \in found.edges : {e[1], e[2]} \subseteq found.visited
        /\ TraverseBfs(G, x, direction, limit, types) = found.visited \ {x}

\* traverse and traverse_bfs find just that.
LEMMA TraverseFinds ==
    ASSUME NEW G \in SUBSET Edge, NEW x \in Atom, NEW direction, NEW types, NEW limit \in Nat
    PROVE  IsAnswer(G, x, direction, limit, types)
<1> DEFINE found == Traverse(G, x, direction, limit, types)
           N == [y \in Atom |-> Near(G, y, direction, types)]
           W == [n \in Nat |-> Within(G, x, direction, n, types)]
           there == Reached(G, x, direction, limit, types)
<1>1. Hops(W, x, N)
    BY WithinHops
<1>2. /\ found.queue = <<>>
      /\ found.visited = {x} \cup there
      /\ found.edges = IF limit = 0 THEN {}
            ELSE UNION {Along(G, y, direction, types) : y \in Within(G, x, direction, limit - 1, types)}
    <2>1. found = Search(G, direction, types, limit, From(x, {x}))
        BY DEF Traverse
    <2> HIDE DEF found, N, W, there
    <2>2. ASSUME NEW before \in SUBSET Atom, before \subseteq {x},
                 found = Search(G, direction, types, limit, From(x, before))
          PROVE  /\ found.queue = <<>>
                 /\ found.visited = before \cup there
                 /\ found.edges = Across(G, x, direction, limit, types)
        <3>1. found.queue = <<>>
            BY <2>2, SearchEnds
        <3>2. IsFound(found, before, x, there, Across(G, x, direction, limit, types))
            BY <2>2, SearchFinds DEF there
        <3> QED
            BY <2>2, <3>1, <3>2 DEF IsFound
    <2> QED
        BY <2>1, <2>2 DEF Across
<1>3. TraverseBfs(G, x, direction, limit, types) = found.visited \ {x}
    BY DEF TraverseBfs
<1> HIDE DEF found
<1>4. /\ W[limit] = Within(G, x, direction, limit, types)
      /\ limit # 0 => limit - 1 \in Nat /\ W[limit - 1] = Within(G, x, direction, limit - 1, types)
    OBVIOUS
<1>5. \A n \in Nat : \A y \in W[n] : y \in Atom /\ N[y] = Near(G, y, direction, types)
    <2> HIDE DEF W
    <2> QED
        BY <1>1 DEF Hops
<1> HIDE DEF W, N
<1>6. there = IF limit = 0 THEN {} ELSE UNION {Near(G, y, direction, types) : y \in W[limit - 1]}
    BY <1>4 DEF Reached
<1>7. /\ x \in W[limit]
      /\ limit # 0 => W[limit - 1] \subseteq W[limit]
    BY <1>1, <1>4, HopsGrow
<1>8. there \subseteq W[limit]
    <2> SUFFICES ASSUME limit # 0, NEW y \in W[limit - 1], NEW v \in Near(G, y, direction, types)
                 PROVE  v \in W[limit]
        BY <1>6
    <2>1. limit - 1 \in Nat /\ (limit - 1) + 1 = limit /\ v \in N[y]
        BY <1>4, <1>5
    <2> QED
        BY <1>1, <2>1 DEF Hops
<1>9. W[limit] \subseteq {x} \cup there
    <2> SUFFICES ASSUME NEW v \in W[limit], v # x PROVE v \in there
        OBVIOUS
    <2>1. limit > 0 /\ \E z \in W[limit - 1] : v \in N[z]
        BY <1>1, HopsBack
    <2> QED
        BY <1>4, <1>5, <1>6, <2>1
<1>10. found.visited = W[limit]
    BY <1>2, <1>7, <1>8, <1>9
<1>11. ASSUME NEW e \in found.edges PROVE {e[1], e[2]} \subseteq found.visited
    <2>1. limit # 0
        BY <1>2
    <2>2. PICK y \in W[limit - 1] : e \in Along(G, y, direction, types)
        BY <1>2, <1>4, <2>1
    <2>3. {e[1], e[2]} = {y, Far(e, y)} /\ Far(e, y) \in Near(G, y, direction, types)
        BY <1>4, <1>5, <2>1, <2>2, Ends
    <2>4. Far(e, y) \in there
        BY <1>6, <2>1, <2>3
    <2> QED
        BY <1>2, <1>7, <1>10, <2>1, <2>3, <2>4
<1> QED
    BY <1>2, <1>3, <1>4, <1>10, <1>11 DEF found, IsAnswer

\* get_subgraph finds nothing that no start reaches, and all that the first
\* start does.  What a search visited the next one passes over, with all that
\* lies beyond: of a later start something may be missing.
LEMMA SubgraphFinds ==
    ASSUME NEW G \in SUBSET Edge, NEW types, NEW limit \in Nat,
           NEW starts \in Seq(Atom), starts # <<>>
    PROVE  LET found == Subgraph(G, starts, limit, types)
           IN  /\ Reached(G, starts[1], "descendants", limit, types) \subseteq found
               /\ found \subseteq UNION {Reached(G, starts[i], "descendants", limit, types) :
                                        i \in 1..Len(starts)}
<1> DEFINE R == [x \in Atom |-> Reached(G, x, "descendants", limit, types)]
           U == UNION {R[starts[i]] : i \in 1..Len(starts)}
           round == [t \in Starting |->
                       IF t.starts = <<>> THEN t
                       ELSE [starts  |-> Tail(t.starts),
                             visited |-> Search(G, "descendants", types, limit,
                                                From(Head(t.starts), t.visited)).visited]]
           init == [starts |-> starts, visited |-> {}]
           run == [n \in Nat |-> Iterate(round, init, n)]
           Good == {t \in Starting : /\ t.visited \subseteq U
                                     /\ \A i \in 1..Len(t.starts) : R[t.starts[i]] \subseteq U}
           S == {n \in Nat : n >= 1 => R[starts[1]] \subseteq run[n].visited}
<1>1. ASSUME NEW x \in Atom, NEW before \in SUBSET Atom
      PROVE  LET found == Search(G, "descendants", types, limit, From(x, before))
             IN  /\ found.visited \in SUBSET Atom
                 /\ before \subseteq found.visited
                 /\ found.visited \subseteq before \cup R[x]
                 /\ before = {} => found.visited = R[x]
    <2> DEFINE found == Search(G, "descendants", types, limit, From(x, before))
    <2>1. IsFound(found, before, x, R[x], Across(G, x, "descendants", limit, types))
        BY SearchFinds
    <2> HIDE DEF R, found
    <2>2. /\ found.visited \in SUBSET Atom
          /\ before \subseteq found.visited
          /\ found.visited \subseteq before \cup R[x]
          /\ before = {} => found.visited = R[x]
        BY <2>1 DEF IsFound, Searching
    <2> QED
        BY <2>2 DEF found
<1>2. ASSUME NEW t \in Starting, t.starts # <<>>
      PROVE  /\ t.starts[1] \in Atom
             /\ round[t] \in Starting
             /\ round[t].starts = Tail(t.starts)
             /\ t.visited \subseteq round[t].visited
             /\ round[t].visited \subseteq t.visited \cup R[t.starts[1]]
             /\ t.visited = {} => round[t].visited = R[t.starts[1]]
    <2> DEFINE found == Search(G, "descendants", types, limit, From(Head(t.starts), t.visited))
    <2>1. /\ Head(t.starts) = t.starts[1] /\ t.starts[1] \in Atom
          /\ Tail(t.starts) \in Seq(Atom) /\ t.visited \in SUBSET Atom
        BY <1>2 DEF Starting
    <2>2. round[t] = [starts |-> Tail(t.starts), visited |-> found.visited]
        BY <1>2
    <2> HIDE DEF R, round, found
    <2>3. /\ found.visited \in SUBSET Atom
          /\ t.visited \subseteq found.visited
          /\ found.visited \subseteq t.visited \cup R[t.starts[1]]
          /\ t.visited = {} => found.visited = R[t.starts[1]]
        BY <1>1, <2>1 DEF found
    <2> QED
        BY <2>1, <2>2, <2>3 DEF Starting
<1>3. ASSUME NEW t \in Starting, t.starts = <<>> PROVE round[t] = t
    BY <1>3
<1>4. init \in Starting
    BY DEF Starting
<1>5. Subgraph(G, starts, limit, types) = Iterate(round, init, Len(starts)).visited
    BY DEF Subgraph
<1>6. /\ Len(starts) \in Nat /\ Len(starts) >= 1
      /\ \A i \in 1..Len(starts) : starts[i] \in Atom
    OBVIOUS
<1> HIDE DEF R, round
<1>7. init \in Good
    BY <1>4, <1>6
<1>8. ASSUME NEW t \in Good PROVE round[t] \in Good
    <2>1. CASE t.starts = <<>>
        BY <1>3, <2>1
    <2>2. CASE t.starts # <<>>
        <3>1. t \in Starting /\ t.starts \in Seq(Atom) /\ 1 \in 1..Len(t.starts)
            BY <2>2 DEF Starting
        <3>2. \A i \in 1..Len(Tail(t.starts)) :
                  i + 1 \in 1..Len(t.starts) /\ Tail(t.starts)[i] = t.starts[i + 1]
            BY <2>2, <3>1
        <3>3. \A i \in 1..Len(Tail(t.starts)) : R[Tail(t.starts)[i]] \subseteq U
            BY <3>2
        <3>4. t.visited \subseteq U /\ R[t.starts[1]] \subseteq U
            BY <3>1
        <3>5. /\ round[t] \in Starting /\ round[t].starts = Tail(t.starts)
              /\ round[t].visited \subseteq U
            <4> HIDE DEF U
            <4> QED
                BY <1>2, <2>2, <3>1, <3>4
        <3> HIDE DEF U
        <3> QED
            BY <3>3, <3>5
    <2> QED
        BY <2>1, <2>2
<1> HIDE DEF Good
<1>9. \A n \in Nat : Iterate(round, init, n) \in Good
    BY <1>7, <1>8, IterateStays
<1>10. \A n \in Nat : run[n] \in Good
    BY <1>9
<1>11. run[0] = init /\ \A n \in Nat : run[n + 1] = round[run[n]]
    <2> HIDE DEF init, S
    <2>1. /\ Iterate(round, init, 0) = init
          /\ \A n \in Nat : Iterate(round, init, n + 1) = round[Iterate(round, init, n)]
        BY IterateUnfolds
    <2> QED
        BY <2>1
<1>12. Subgraph(G, starts, limit, types) = run[Len(starts)].visited
    BY <1>5, <1>6
<1> HIDE DEF run
<1>13. run[1].visited = R[starts[1]]
    <2>1. run[1] = round[init]
        BY <1>11
    <2>2. init.starts # <<>> /\ init.starts[1] = starts[1] /\ init.visited = {}
        OBVIOUS
    <2> HIDE DEF init
    <2> QED
        BY <1>1, <1>2, <1>4, <2>1, <2>2
<1>14. 0 \in S
    OBVIOUS
<1>15. ASSUME NEW n \in Nat, n \in S PROVE n + 1 \in S
    <2>1. CASE n = 0
        BY <1>13, <2>1
    <2>2. CASE n >= 1
        <3>1. run[n] \in Starting /\ run[n + 1] = round[run[n]] /\ R[starts[1]] \subseteq run[n].visited
            BY <1>10, <1>11, <1>15, <2>2 DEF Good
        <3>2. run[n].visited \subseteq run[n + 1].visited
            <4>1. CASE run[n].starts = <<>>
                BY <1>3, <3>1, <4>1
            <4>2. CASE run[n].starts # <<>>
                BY <1>1, <1>2, <3>1, <4>2 DEF Starting
            <4> QED
                BY <4>1, <4>2
        <3> QED
            BY <3>1, <3>2
    <2> QED
        BY <2>1, <2>2
<1> HIDE DEF S
<1>16. \A n \in Nat : n \in S
    BY <1>14, <1>15, Upward
<1>17. R[starts[1]] \subseteq run[Len(starts)].visited
    BY <1>6, <1>16 DEF S
<1>18. run[Len(starts)].visited \subseteq U
    BY <1>6, <1>10 DEF Good
<1>19. U = UNION {Reached(G, starts[i], "descendants", limit, types) : i \in 1..Len(starts)}
    <2>1. \A i \in 1..Len(starts) : R[starts[i]] = Reached(G, starts[i], "descendants", limit, types)
        BY <1>6 DEF R
    <2>2. {R[starts[i]] : i \in 1..Len(starts)}
            = {Reached(G, starts[i], "descendants", limit, types) : i \in 1..Len(starts)}
        BY <2>1
    <2> QED
        BY <2>2
<1>20. R[starts[1]] = Reached(G, starts[1], "descendants", limit, types)
    BY <1>6 DEF R
<1> QED
    BY <1>12, <1>17, <1>18, <1>19, <1>20

\* The atoms that Within counts hop by hop are those at the end of a walk of
\* at most n hops: what a traversal of that depth is meant to find.
THEOREM WithinIsByWalks ==
    ASSUME NEW G \in SUBSET Edge, NEW x \in Atom, NEW direction, NEW types, NEW n \in Nat, NEW y
    PROVE  y \in Within(G, x, direction, n, types) <=>
           \E k \in 0..n : \E w : IsWalk(w, G, k, direction, types) /\ w[0] = x /\ w[k] = y
<1> DEFINE N == [v \in Atom |-> Near(G, v, direction, types)]
           W == [m \in Nat |-> Within(G, x, direction, m, types)]
           Walked(m, v) == \E k \in 0..m : \E w : IsWalk(w, G, k, direction, types) /\ w[0] = x /\ w[k] = v
<1>1. Hops(W, x, N)
    BY WithinHops
<1>2. W[n] = Within(G, x, direction, n, types)
    OBVIOUS
<1>3. \A v \in Atom : N[v] = Near(G, v, direction, types)
    OBVIOUS
<1> HIDE DEF W, N
<1>4. \A m \in Nat : W[m] \subseteq Atom
    BY <1>1 DEF Hops
<1>5. ASSUME y \in W[n] PROVE Walked(n, y)
    <2> DEFINE S == {m \in Nat : \A v \in W[m] : Walked(m, v)}
    <2>1. 0 \in S
        <3> DEFINE w == [i \in 0..0 |-> x]
        <3>1. IsWalk(w, G, 0, direction, types) /\ w[0] = x
            BY DEF IsWalk
        <3>2. Walked(0, x)
            BY <3>1
        <3>3. W[0] = {x}
            BY <1>1 DEF Hops
        <3> QED
            BY <3>2, <3>3
    <2>2. ASSUME NEW m \in Nat, m \in S PROVE m + 1 \in S
        <3>1. ASSUME NEW v \in W[m + 1] PROVE Walked(m + 1, v)
            <4>1. v \in W[m] \/ \E z \in W[m] : v \in N[z]
                BY <1>1 DEF Hops
            <4>2. CASE v \in W[m]
                BY <2>2, <4>2
            <4>3. CASE \E z \in W[m] : v \in N[z]
                <5>1. PICK z \in W[m] : v \in N[z]
                    BY <4>3
                <5>2a. PICK k \in 0..m : \E w : IsWalk(w, G, k, direction, types) /\ w[0] = x /\ w[k] = z
                    BY <2>2, <5>1
                <5>2. PICK w : IsWalk(w, G, k, direction, types) /\ w[0] = x /\ w[k] = z
                    BY <5>2a
                <5> DEFINE u == [i \in 0..(k + 1) |-> IF i = k + 1 THEN v ELSE w[i]]
                <5>3. v \in Atom /\ v \in Near(G, z, direction, types)
                    BY <1>3, <1>4, <5>1
                <5>4. /\ w \in [0..k -> Atom]
                      /\ \A i \in 1..k : w[i] \in Near(G, w[i - 1], direction, types)
                    BY <5>2 DEF IsWalk
                <5>5. u \in [0..(k + 1) -> Atom]
                    BY <5>3, <5>4
                <5>6. ASSUME NEW i \in 1..(k + 1) PROVE u[i] \in Near(G, u[i - 1], direction, types)
                    <6>1. CASE i = k + 1
                        <7>1. u[i] = v /\ u[i - 1] = w[k]
                            BY <6>1
                        <7> QED
                            BY <5>2, <5>3, <7>1
                    <6>2. CASE i \in 1..k
                        <7>1. u[i] = w[i] /\ u[i - 1] = w[i - 1]
                            BY <6>2
                        <7> QED
                            BY <5>4, <6>2, <7>1
                    <6> QED
                        BY <6>1, <6>2
                <5>7. u[0] = x /\ u[k + 1] = v /\ k + 1 \in 0..(m + 1)
                    BY <5>2
                <5> HIDE DEF u
                <5>8. IsWalk(u, G, k + 1, direction, types)
                    BY <5>5, <5>6 DEF IsWalk
                <5> QED
                    BY <5>7, <5>8
            <4> QED
                BY <4>1, <4>2, <4>3
        <3> HIDE DEF Walked
        <3> QED
            BY <3>1
    <2> HIDE DEF S, Walked
    <2>3. \A m \in Nat : m \in S
        BY <2>1, <2>2, Upward
    <2> QED
        BY <1>5, <2>3 DEF S
<1>6. ASSUME NEW k \in 0..n, NEW w, IsWalk(w, G, k, direction, types), w[0] = x, w[k] = y
      PROVE  y \in W[n]
    <2> DEFINE S == {i \in Nat : i <= k => w[i] \in W[i]}
    <2>1. 0 \in S
        BY <1>1, <1>6 DEF Hops
    <2>2. ASSUME NEW i \in Nat, i \in S PROVE i + 1 \in S
        <3> SUFFICES ASSUME i + 1 <= k PROVE w[i + 1] \in W[i + 1]
            OBVIOUS
        <3>1. w[i] \in W[i] /\ i + 1 \in 1..k /\ (i + 1) - 1 = i
            BY <2>2
        <3>2. w[i + 1] \in Near(G, w[i], direction, types)
            BY <1>6, <3>1 DEF IsWalk
        <3>3. w[i + 1] \in N[w[i]]
            BY <1>3, <1>4, <3>1, <3>2
        <3> QED
            BY <1>1, <3>1, <3>3 DEF Hops
    <2> HIDE DEF S
    <2>3. \A i \in Nat : i \in S
        BY <2>1, <2>2, Upward
    <2>4. w[k] \in W[k]
        BY <2>3 DEF S
    <2> QED
        BY <1>1, <1>6, <2>4, HopsGrow
<1> QED
    BY <1>2, <1>5, <1>6

-----------------------------------------------------------------------------
(* The graph cache and what is found in it                                  *)

\* The cache has at most one edge for an ordered pair of atoms.
OnePerPair == \A e, f \in cache : e[1] = f[1] /\ e[2] = f[2] => e = f

\* A step adds an edge only for a pair that had none.
LEMMA OnePerPairStep ==
    ASSUME BoardTyped, OnePerPair, BoardNext PROVE OnePerPair'
<1>1. CASE \E r \in Request : LinkCache(r)
    <2>1. PICK r \in Request : LinkCache(r)
        BY <1>1
    <2> SUFFICES ASSUME NEW e \in cache', NEW f \in cache', e[1] = f[1], e[2] = f[2] PROVE e = f
        BY DEF OnePerPair
    <2> DEFINE New(g) == \E p : g = Derivation(p) /\ ~Linked(cache, p[1], p[2])
    <2>2. (e \in cache \/ New(e)) /\ (f \in cache \/ New(f))
        BY <2>1 DEF LinkCache
    <2>3. ASSUME NEW g, New(g)
          PROVE  g = <<g[1], g[2], "derived_from">> /\ ~Linked(cache, g[1], g[2])
        BY <2>3 DEF Derivation
    <2>4. ASSUME NEW g \in cache PROVE Linked(cache, g[1], g[2])
        <3>1. g \in Edge
            BY DEF BoardTyped
        <3>2. g = <<g[1], g[2], g[3]>> /\ g[3] \in EdgeType
            BY <3>1 DEF Edge
        <3> QED
            BY <3>2 DEF Linked
    <2> HIDE DEF New
    <2>5. CASE New(e) \/ New(f)
        <3>1. New(e) /\ New(f)
            BY <2>2, <2>3, <2>4, <2>5
        <3> QED
            BY <2>3, <3>1
    <2>6. CASE e \in cache /\ f \in cache
        BY <2>6 DEF OnePerPair
    <2> QED
        BY <2>2, <2>5, <2>6
<1>2. CASE \E r \in Request : AddToCache(r)
    <2>1. PICK r \in Request : AddToCache(r)
        BY <1>2
    <2> DEFINE s == Head(todo[r]).edge[1]
               t == Head(todo[r]).edge[2]
               ty == Head(todo[r]).edge[3]
    <2>2. cache' = AddEdge(cache, s, t, ty)
        BY <2>1 DEF AddToCache
    <2> HIDE DEF s, t, ty
    <2>3. ASSUME NEW g \in cache PROVE Linked(cache, g[1], g[2])
        <3>1. g \in Edge
            BY DEF BoardTyped
        <3>2. g = <<g[1], g[2], g[3]>> /\ g[3] \in EdgeType
            BY <3>1 DEF Edge
        <3> QED
            BY <3>2 DEF Linked
    <2>4. CASE Linked(cache, s, t)
        BY <2>2, <2>4 DEF AddEdge, OnePerPair
    <2>5. CASE ~Linked(cache, s, t)
        <3>1. cache' = cache \cup {<<s, t, ty>>}
            BY <2>2, <2>5 DEF AddEdge, InsertRow
        <3> SUFFICES ASSUME NEW e \in cache', NEW f \in cache', e[1] = f[1], e[2] = f[2] PROVE e = f
            BY DEF OnePerPair
        <3>2. \A g \in cache : g[1] # s \/ g[2] # t
            BY <2>3, <2>5
        <3> QED
            BY <3>1, <3>2 DEF OnePerPair
    <2> QED
        BY <2>4, <2>5
<1>3. CASE ~(\E r \in Request : LinkCache(r) \/ AddToCache(r))
    <2>1. UNCHANGED cache
        <3>1. CASE \E r \in Request : Running(r)
            BY <1>3, <3>1 DEF Running, Dedup, CheckParent, InsertAtom, InsertParentRow, InsertEdge,
               Fail, graph
        <3>2. CASE ~(\E r \in Request : Running(r))
            BY <3>2, Steps, RequestComes, ElsewhereGrows
        <3> QED
            BY <3>1, <3>2
    <2> QED
        BY <2>1 DEF OnePerPair
<1> QED
    BY <1>1, <1>2, <1>3

\* However the requests interleave, the cache keeps one edge for an ordered
\* pair, so that the edge find_edge returns is the one there is: a traversal
\* misses none (add_edge, and the look before it in handle_publish).
THEOREM OneEdgePerPair ==
    BoardSpec => [](\A e, f \in cache : e[1] = f[1] /\ e[2] = f[2] => e = f)
<1>1. BoardInit => OnePerPair
    BY DEF BoardInit, OnePerPair
<1>2. BoardInv /\ OnePerPair /\ [BoardNext]_boardVars => OnePerPair'
    BY OnePerPairStep DEF BoardInv, OnePerPair, boardVars, graph
<1>3. OnePerPair => \A e, f \in cache : e[1] = f[1] /\ e[2] = f[2] => e = f
    BY DEF OnePerPair
<1> QED
    BY <1>1, <1>2, <1>3, BoardHolds, PTL DEF BoardSpec

\* Whatever graph of edges is kept, get_lineage and query_cluster find what
\* they are meant to find.
LEMMA FoundInFull == ASSUME cache \subseteq Edge PROVE LineageComplete
<1> SUFFICES ASSUME NEW x \in Atom, NEW n \in 0..MaxDepth, NEW types \in {EdgeType, {"derived_from"}}
             PROVE  /\ \A direction \in Direction : IsAnswer(cache, x, direction, n, types)
                    /\ Subgraph(cache, <<x>>, n, types) = Reached(cache, x, "descendants", n, types)
                    /\ \A y \in Atom :
                        LET found == Subgraph(cache, <<x, y>>, n, types)
                            first == Reached(cache, x, "descendants", n, types)
                        IN  /\ first \subseteq found
                            /\ found \subseteq first \cup Reached(cache, y, "descendants", n, types)
    BY Zenon DEF LineageComplete, IsAnswer
<1>1. n \in Nat /\ cache \in SUBSET Edge
    BY DepthAssumption
<1>2. ASSUME NEW direction \in Direction
      PROVE  IsAnswer(cache, x, direction, n, types)
    BY <1>1, TraverseFinds
<1>3. Subgraph(cache, <<x>>, n, types) = Reached(cache, x, "descendants", n, types)
    <2> DEFINE starts == <<x>>
               there == UNION {Reached(cache, starts[i], "descendants", n, types) : i \in 1..Len(starts)}
    <2>1. starts \in Seq(Atom) /\ starts # <<>> /\ starts[1] = x
        OBVIOUS
    <2>2. there = Reached(cache, x, "descendants", n, types)
        <3>1. 1..Len(starts) = {1}
            OBVIOUS
        <3> QED
            BY <2>1, <3>1
    <2> HIDE DEF starts
    <2>3. /\ Reached(cache, starts[1], "descendants", n, types) \subseteq Subgraph(cache, starts, n, types)
          /\ Subgraph(cache, starts, n, types) \subseteq there
        BY <1>1, <2>1, SubgraphFinds
    <2> HIDE DEF there
    <2>4. Subgraph(cache, starts, n, types) = Reached(cache, x, "descendants", n, types)
        BY <2>1, <2>2, <2>3
    <2> QED
        BY <2>4 DEF starts
<1>4. ASSUME NEW y \in Atom
      PROVE  /\ Reached(cache, x, "descendants", n, types) \subseteq Subgraph(cache, <<x, y>>, n, types)
             /\ Subgraph(cache, <<x, y>>, n, types) \subseteq
                  Reached(cache, x, "descendants", n, types) \cup Reached(cache, y, "descendants", n, types)
    <2> DEFINE starts == <<x, y>>
               there == UNION {Reached(cache, starts[i], "descendants", n, types) : i \in 1..Len(starts)}
    <2>1. starts \in Seq(Atom) /\ starts # <<>> /\ starts[1] = x /\ starts[2] = y
        OBVIOUS
    <2>2. there = Reached(cache, x, "descendants", n, types) \cup Reached(cache, y, "descendants", n, types)
        <3>1. 1..Len(starts) = {1, 2}
            OBVIOUS
        <3> HIDE DEF starts
        <3> QED
            BY <2>1, <3>1
    <2> HIDE DEF starts
    <2>3. /\ Reached(cache, starts[1], "descendants", n, types) \subseteq Subgraph(cache, starts, n, types)
          /\ Subgraph(cache, starts, n, types) \subseteq there
        BY <1>1, <2>1, SubgraphFinds
    <2> HIDE DEF there
    <2> QED
        BY <2>1, <2>2, <2>3 DEF starts
<1> QED
    BY <1>2, <1>3, <1>4

\* In every state of the board, traverse (get_lineage), traverse_bfs and
\* get_subgraph (query_cluster) find just the atoms and edges that they are
\* meant to find in the graph cache, with every type of edge or only the
\* derivations, to any depth.
THEOREM TraversalsAreComplete == BoardSpec => []LineageComplete
<1>1. BoardInv => LineageComplete
    BY FoundInFull DEF BoardInv, BoardTyped
<1> QED
    BY <1>1, BoardHolds, PTL

\* The parents that a publish request named are found from its atoms in one
\* hop, once it has been answered and if no call to the database failed: what
\* handle_publish promises and get_lineage gives agree, but for an edge that a
\* batch still has to add.
THEOREM ParentsAreFound ==
    BoardSpec => [](\A r \in Request : at[r] = "done" /\ faults = 0 =>
                      \A p \in Range(Provenance[r]) :
                          \/ Adding(Derivation(p))
                          \/ p[2] \in Traverse(cache, p[1], "descendants", 1, EdgeType).visited)
<1>1. ASSUME BoardInv, AnswersTrue, NEW r \in Request, at[r] = "done", faults = 0,
             NEW p \in Range(Provenance[r]), ~Adding(Derivation(p))
      PROVE  p[2] \in Traverse(cache, p[1], "descendants", 1, EdgeType).visited
    <2>1. PICK ty \in EdgeType : <<p[1], p[2], ty>> \in cache
        BY <1>1 DEF AnswersTrue, Linked
    <2>2. cache \in SUBSET Edge
        BY <1>1 DEF BoardInv, BoardTyped
    <2>3. p[1] \in Atom /\ p[2] \in Atom
        BY <2>1, <2>2 DEF Edge
    <2> DEFINE e == <<p[1], p[2], ty>>
    <2>4. e \in Along(cache, p[1], "descendants", EdgeType) /\ Far(e, p[1]) = p[2]
        BY <2>1 DEF Along, Far
    <2>5. p[2] \in Near(cache, p[1], "descendants", EdgeType)
        BY <2>4 DEF Near
    <2> DEFINE W == [n \in Nat |-> Within(cache, p[1], "descendants", n, EdgeType)]
               N == [y \in Atom |-> Near(cache, y, "descendants", EdgeType)]
    <2>6. Hops(W, p[1], N)
        BY <2>2, <2>3, WithinHops
    <2>7. W[1] = Within(cache, p[1], "descendants", 1, EdgeType) /\ p[2] \in N[p[1]]
        BY <2>3, <2>5
    <2> HIDE DEF W, N
    <2>8. p[2] \in W[0 + 1]
        BY <2>6, <2>7 DEF Hops
    <2>9. IsAnswer(cache, p[1], "descendants", 1, EdgeType)
        BY <2>2, <2>3, TraverseFinds
    <2> QED
        BY <2>7, <2>8, <2>9 DEF IsAnswer
<1>2. BoardInv /\ AnswersTrue =>
        \A r \in Request : at[r] = "done" /\ faults = 0 =>
            \A p \in Range(Provenance[r]) :
                \/ Adding(Derivation(p))
                \/ p[2] \in Traverse(cache, p[1], "descendants", 1, EdgeType).visited
    BY <1>1
<1> QED
    BY <1>2, BoardHolds, AnswersAreTrue, PTL
=============================================================================
