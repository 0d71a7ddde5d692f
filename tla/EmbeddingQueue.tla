--------------------------- MODULE EmbeddingQueue ---------------------------
(***************************************************************************)
(* Publication of an atom and the work of the EmbeddingWorker on it.       *)
(*                                                                         *)
(* A publish request commits the atom as pending, then, in separate steps, *)
(* sends its id down the worker's channel, adds it to the graph cache and  *)
(* inserts its derived_from rows.  One worker task takes ids from the      *)
(* channel and, on a timer, from a poll of the pending atoms; for each it  *)
(* marks the atom ready, reads its neighbourhood, writes the pheromone     *)
(* columns one UPDATE at a time, and inserts the contradicts and           *)
(* replicates edges it detects, in Postgres first and in the cache second. *)
(* Each database call is a step: requests run between any two of them, the *)
(* process may die between any two, and any of them may fail.              *)
(*                                                                         *)
(* The column ph_attraction, which no guard of this module reads, is the   *)
(* subject of module Signals.                                              *)
(***************************************************************************)
EXTENDS EdgeTable, Sequences

CONSTANTS
    None,          \* no atom
    Kind,          \* [Atom -> AtomKind]: the type column
    Near,          \* pairs of atoms within the radius, same domain and project
    Spread,        \* [Near -> 0..50]: warning a negative result sends, 1/100
    Comparable,    \* pairs whose shared condition keys are equal
    Metric,        \* [Atom -> set of at most one value of the shared metric]
    HigherBetter,  \* the direction the metric declares
    Parents,       \* [Atom -> SUBSET Atom]: provenance.parent_ids
    Unembeddable,  \* bound: the sets of atoms that the encoder may reject
    ChannelCap,    \* capacity of the mpsc channel (1000 in main.rs)
    PollLimit,     \* LIMIT of the fallback poll (100)
    MaxCrashes,    \* bound: process deaths
    MaxFaults      \* bound: database calls that fail

AtomKind == {"finding", "negative_result", "hypothesis", "delta"}

\* The types update_pheromone_neighbourhood goes on with; "hypothesis" stands
\* for bounty and synthesis too, "delta" for experiment_log.
Tracked == AtomKind \ {"delta"}

ASSUME QueueAssumption ==
    /\ None \notin Atom
    /\ Kind \in [Atom -> AtomKind]
    /\ Near \subseteq Atom \X Atom
    /\ Spread \in [Near -> 0..50]
    /\ Comparable \subseteq Atom \X Atom
    /\ Metric \in [Atom -> SUBSET Nat]
    /\ HigherBetter \in BOOLEAN
    /\ Parents \in [Atom -> SUBSET Atom]
    /\ Unembeddable \subseteq SUBSET Atom
    /\ ChannelCap \in Nat \ {0}
    /\ PollLimit \in Nat \ {0}
    /\ MaxCrashes \in Nat
    /\ MaxFaults \in Nat

\* Neighbourhood is symmetric and excludes the atom itself; a comparison of
\* conditions is symmetric; an atom reports the metric once or not at all.
ASSUME GeometryAssumption ==
    /\ \A a, b \in Atom : <<a, b>> \in Near => a # b /\ <<b, a>> \in Near
    /\ \A a, b \in Atom : <<a, b>> \in Comparable => <<b, a>> \in Comparable
    /\ \A a \in Atom : \A x, y \in Metric[a] : x = y
    /\ \A a \in Atom : a \notin Parents[a]

VARIABLES
    rejected, \* the atoms the encoder always fails on, in this behaviour
    born,     \* [Atom -> Nat]: created_at rank, 0 before the row exists
    ready,    \* the atoms with embedding_status = 'ready'
    ph,       \* [Atom -> [Field -> Nat]]: the ph_ columns but one
    repl,     \* [Atom -> Nat]: the repl_exact column
    edges,    \* the edges table
    channel,  \* embedding_tx / embedding_rx
    nodes,    \* nodes of the graph cache
    cache,    \* edges of the graph cache
    pub,      \* [Atom -> PubStep]: where the request publishing the atom is
    pc,       \* where the worker is
    cur,      \* the atom being processed, or None
    batch,    \* what is left of the poll's result
    nbrs,     \* neighbourhood read by find_neighbours
    updates,  \* pheromone updates computed and not yet written
    contra,   \* contradictions detected and not yet inserted
    repls,    \* replications detected and not yet recorded
    target,   \* the older end of the edge being recorded, or None
    crashes,
    faults

dbVars     == <<born, ready, ph, repl, edges>>
cacheVars  == <<nodes, cache>>
workerVars == <<pc, cur, batch, nbrs, updates, contra, repls, target>>
boundVars  == <<crashes, faults, rejected>>
vars == <<dbVars, channel, cacheVars, pub, workerVars, boundVars>>

Field == {"novelty", "repulsion", "disagreement"}
Update == [atom : Atom, field : Field, value : Nat]
PubStep == {"unborn", "send", "cache", "rows", "done"}
WorkerStep == {"idle", "embed", "neighbours", "detect", "apply",
               "contradict_cache", "replicate", "bump", "replicate_cache"}

Published == {a \in Atom : born[a] > 0}
Pending   == Published \ ready

Init ==
    /\ rejected \in Unembeddable
    /\ born = [a \in Atom |-> 0]
    /\ ready = {}
    /\ ph = [a \in Atom |-> [f \in Field |-> 0]]
    /\ repl = [a \in Atom |-> 0]
    /\ edges = {}
    /\ channel = <<>>
    /\ nodes = {}
    /\ cache = {}
    /\ pub = [a \in Atom |-> "unborn"]
    /\ pc = "idle"
    /\ cur = None
    /\ batch = {}
    /\ nbrs = {}
    /\ updates = {}
    /\ contra = {}
    /\ repls = {}
    /\ target = None
    /\ crashes = 0
    /\ faults = 0

---------------------------------------------------------------------------
(* Publishing: handle_publish, one step per statement it awaits.           *)

\* The INSERT of publish_atom commits; the parents were found just before.
PublishCommit(a) ==
    /\ pub[a] = "unborn"
    /\ Parents[a] \subseteq Published
    /\ born' = [born EXCEPT ![a] = Cardinality(Published) + 1]
    /\ pub' = [pub EXCEPT ![a] = "send"]
    /\ UNCHANGED <<ready, ph, repl, edges, channel, cacheVars, workerVars, boundVars>>

\* embedding_tx.send(id).await: waits while the channel is full.
PublishSend(a) ==
    /\ pub[a] = "send"
    /\ Len(channel) < ChannelCap
    /\ channel' = Append(channel, a)
    /\ pub' = [pub EXCEPT ![a] = "cache"]
    /\ UNCHANGED <<dbVars, cacheVars, workerVars, boundVars>>

\* Under the cache's write lock: the node and its derived_from edges, a
\* refusal of add_edge being ignored.
PublishCache(a) ==
    /\ pub[a] = "cache"
    /\ nodes' = nodes \cup {a} \cup Parents[a]
    /\ cache' = cache \cup
         {<<a, p, "derived_from">> : p \in {q \in Parents[a] : ~Linked(cache, a, q)}}
    /\ pub' = [pub EXCEPT ![a] = "rows"]
    /\ UNCHANGED <<dbVars, channel, workerVars, boundVars>>

\* One INSERT per parent, then the response.
PublishRow(a) ==
    /\ pub[a] = "rows"
    /\ \E p \in Parents[a] :
         /\ <<a, p, "derived_from">> \notin edges
         /\ edges' = InsertRow(edges, a, p, "derived_from")
    /\ UNCHANGED <<born, ready, ph, repl, channel, cacheVars, pub, workerVars, boundVars>>

\* The INSERTs that fail are passed over (`let _ ='), the response is the same.
PublishRowsFail(a) ==
    LET missing == {p \in Parents[a] : <<a, p, "derived_from">> \notin edges}
    IN  /\ pub[a] = "rows"
        /\ missing # {}
        /\ faults + Cardinality(missing) <= MaxFaults
        /\ faults' = faults + Cardinality(missing)
        /\ pub' = [pub EXCEPT ![a] = "done"]
        /\ UNCHANGED <<dbVars, channel, cacheVars, workerVars, crashes, rejected>>

\* Mutant: the rows of the parents are left to later.
PublishDoneEarly(a) ==
    /\ pub[a] = "rows"
    /\ pub' = [pub EXCEPT ![a] = "done"]
    /\ UNCHANGED <<dbVars, channel, cacheVars, workerVars, boundVars>>

PublishDone(a) ==
    /\ pub[a] = "rows"
    /\ \A p \in Parents[a] : <<a, p, "derived_from">> \in edges
    /\ pub' = [pub EXCEPT ![a] = "done"]
    /\ UNCHANGED <<dbVars, channel, cacheVars, workerVars, boundVars>>

---------------------------------------------------------------------------
(* The worker's loop: the branches of its select!.                         *)

\* Mutant: the LIMIT is off by one.
OldestButOne ==
    {a \in Pending : Cardinality({b \in Pending : born[b] < born[a]}) < PollLimit - 1}

\* SELECT ... WHERE pending ORDER BY created_at LIMIT n.
OldestPending ==
    {a \in Pending : Cardinality({b \in Pending : born[b] < born[a]}) < PollLimit}

\* The interval ticks.  The rows are read once; the loop below uses them.
Poll ==
    /\ pc = "idle"
    /\ batch = {}
    /\ Pending # {}
    /\ batch' = OldestPending
    /\ UNCHANGED <<dbVars, channel, cacheVars, pub, pc, cur, nbrs, updates,
                   contra, repls, target, boundVars>>

\* The next row of the poll, whatever became of the atom since.
PollNext ==
    /\ pc = "idle"
    /\ \E a \in batch :
         /\ \A b \in batch : born[a] <= born[b]
         /\ batch' = batch \ {a}
         /\ cur' = a
    /\ pc' = "embed"
    /\ UNCHANGED <<dbVars, channel, cacheVars, pub, nbrs, updates, contra,
                   repls, target, boundVars>>

\* Mutant: an id the poll has dealt with is left in the channel.
RecvPending ==
    /\ pc = "idle"
    /\ batch = {}
    /\ channel # <<>>
    /\ Head(channel) \in Pending
    /\ cur' = Head(channel)
    /\ channel' = Tail(channel)
    /\ pc' = "embed"
    /\ UNCHANGED <<dbVars, cacheVars, pub, batch, nbrs, updates, contra,
                   repls, target, boundVars>>

\* receiver.recv(): the id is processed whatever its embedding_status.
Recv ==
    /\ pc = "idle"
    /\ batch = {}
    /\ channel # <<>>
    /\ cur' = Head(channel)
    /\ channel' = Tail(channel)
    /\ pc' = "embed"
    /\ UNCHANGED <<dbVars, cacheVars, pub, batch, nbrs, updates, contra,
                   repls, target, boundVars>>

\* Mutant: the locals outlive the item.
EndItemKeepsAtom ==
    /\ pc' = "idle"
    /\ UNCHANGED <<cur, batch, nbrs, updates, contra, repls, target>>

\* The item ends, completely or on an error that the loop logs: what was
\* computed and not yet written is dropped, the rest of a poll goes on.
EndItem ==
    /\ pc' = "idle"
    /\ cur' = None
    /\ nbrs' = {}
    /\ updates' = {}
    /\ contra' = {}
    /\ repls' = {}
    /\ target' = None
    /\ UNCHANGED batch

---------------------------------------------------------------------------
(* process_atom.                                                           *)

\* generate_embedding, then UPDATE ... SET embedding_status = 'ready'.
Embed ==
    /\ pc = "embed"
    /\ cur \notin rejected
    /\ ready' = ready \cup {cur}
    /\ pc' = "neighbours"
    /\ UNCHANGED <<born, ph, repl, edges, channel, cacheVars, pub, cur, batch,
                   nbrs, updates, contra, repls, target, boundVars>>

EmbedFails ==
    /\ pc = "embed"
    /\ cur \in rejected
    /\ EndItem
    /\ UNCHANGED <<dbVars, channel, cacheVars, pub, boundVars>>

Neighbours(a) == {b \in ready : <<b, a>> \in Near}

Upd(a, f, v) == [atom |-> a, field |-> f, value |-> v]

\* Mutant: the neighbours are not told.
NoveltyOfSelfOnly(a, N) == {Upd(a, "novelty", Cardinality(N))}

\* The updates update_pheromone_neighbourhood computes from neighbours N.
NoveltyUpdates(a, N) ==
    {Upd(a, "novelty", Cardinality(N))} \cup
    {Upd(n, "novelty", NoveltyAfterOneMore(ph[n]["novelty"])) : n \in N}

RepulsionUpdates(a, N) ==
    {Upd(a, "repulsion", RepulsionIncrement)} \cup
    {Upd(n, "repulsion", Spread[<<n, a>>]) : n \in {m \in N : Spread[<<m, a>>] > 5}}

SignalUpdates(a, N) ==
    NoveltyUpdates(a, N) \cup
    (IF Kind[a] = "negative_result" THEN RepulsionUpdates(a, N) ELSE {})

\* find_neighbours and the updates derived from that snapshot.  Types that
\* leave no pheromone end here.
ReadNeighbours ==
    /\ pc = "neighbours"
    /\ IF Kind[cur] \in Tracked
         THEN /\ nbrs' = Neighbours(cur)
              /\ updates' = SignalUpdates(cur, Neighbours(cur))
              /\ pc' = "detect"
              /\ UNCHANGED <<cur, batch, contra, repls, target>>
         ELSE EndItem
    /\ UNCHANGED <<dbVars, channel, cacheVars, pub, boundVars>>

\* Do a new atom's metrics contradict, or agree with, an older atom's?
Opposes(new, old) ==
    \E v \in Metric[new], w \in Metric[old] : MetricsContradict(v, w, HigherBetter, 10)

Agrees(new, old) ==
    \E v \in Metric[new], w \in Metric[old] : ~MetricsContradict(v, w, HigherBetter, 15)

\* The disagreement an atom will show once the pair is inserted.
NewDisagreement(a) ==
    Disagreement(ContradictsCount(edges, a) + 2, TotalCount(edges, a) + 2)

Contradicted(a, N) ==
    {n \in N : /\ Kind[a] = "finding"
               /\ <<a, n>> \in Comparable
               /\ Opposes(a, n)
               /\ ~ContradictsExists(edges, a, n)}

\* detect_contradictions: adds the disagreement of the older atoms.
DetectContradictions ==
    /\ pc = "detect"
    /\ contra' = Contradicted(cur, nbrs)
    /\ updates' = updates \cup
         {Upd(c, "disagreement", NewDisagreement(c)) : c \in Contradicted(cur, nbrs)}
    /\ pc' = "apply"
    /\ UNCHANGED <<dbVars, channel, cacheVars, pub, cur, batch, nbrs, repls,
                   target, boundVars>>

\* One UPDATE of apply_pheromone_updates, in the order of a HashMap.
ApplyUpdate ==
    /\ pc = "apply"
    /\ \E u \in updates :
         /\ ph' = [ph EXCEPT ![u.atom][u.field] =
                      IF u.field = "repulsion" THEN Least(@ + u.value, RepulsionCeiling)
                                               ELSE u.value]
         /\ updates' = updates \ {u}
    /\ UNCHANGED <<born, ready, repl, edges, channel, cacheVars, pub, pc, cur,
                   batch, nbrs, contra, repls, target, boundVars>>

\* Mutant: the edges go in before the columns are written.
InsertContradictsFirst ==
    /\ pc = "apply"
    /\ \E c \in contra :
         /\ edges' = InsertPair(edges, c, cur)
         /\ contra' = contra \ {c}
         /\ target' = c
    /\ pc' = "contradict_cache"
    /\ UNCHANGED <<born, ready, ph, repl, channel, cacheVars, pub, cur, batch,
                   nbrs, updates, repls, boundVars>>

\* insert_contradicts_edge: both rows in one INSERT ...
InsertContradicts ==
    /\ pc = "apply"
    /\ updates = {}
    /\ \E c \in contra :
         /\ edges' = InsertPair(edges, c, cur)
         /\ contra' = contra \ {c}
         /\ target' = c
    /\ pc' = "contradict_cache"
    /\ UNCHANGED <<born, ready, ph, repl, channel, cacheVars, pub, cur, batch,
                   nbrs, updates, repls, boundVars>>

\* ... then both edges in the cache; a refusal is returned with `?'.
CacheContradicts ==
    /\ pc = "contradict_cache"
    /\ nodes' = nodes \cup {cur, target}
    /\ cache' = IF Linked(cache, target, cur) THEN cache
                ELSE AddEdge(AddEdge(cache, target, cur, "contradicts"),
                             cur, target, "contradicts")
    /\ IF Linked(cache, target, cur) \/ Linked(cache, cur, target)
         THEN EndItem
         ELSE /\ pc' = "apply"
              /\ target' = None
              /\ UNCHANGED <<cur, batch, nbrs, updates, contra, repls>>
    /\ UNCHANGED <<dbVars, channel, pub, boundVars>>

\* detect_replications, for a finding; any other type is finished.
DetectReplications ==
    /\ pc = "apply"
    /\ updates = {}
    /\ contra = {}
    /\ IF Kind[cur] = "finding"
         THEN /\ repls' = {n \in nbrs : /\ <<cur, n>> \in Comparable
                                        /\ Agrees(cur, n)
                                        /\ ~ReplicatesExists(edges, cur, n)}
              /\ pc' = "replicate"
              /\ UNCHANGED <<cur, batch, nbrs, updates, contra, target>>
         ELSE EndItem
    /\ UNCHANGED <<dbVars, channel, cacheVars, pub, boundVars>>

\* record_replication: the row ...
InsertReplicates ==
    /\ pc = "replicate"
    /\ \E r \in repls :
         /\ edges' = InsertRow(edges, cur, r, "replicates")
         /\ repls' = repls \ {r}
         /\ target' = r
    /\ pc' = "bump"
    /\ UNCHANGED <<born, ready, ph, repl, channel, cacheVars, pub, cur, batch,
                   nbrs, updates, contra, boundVars>>

\* ... the counter ...
BumpReplication ==
    /\ pc = "bump"
    /\ repl' = [repl EXCEPT ![target] = @ + 1]
    /\ pc' = "replicate_cache"
    /\ UNCHANGED <<born, ready, ph, edges, channel, cacheVars, pub, cur, batch,
                   nbrs, updates, contra, repls, target, boundVars>>

\* ... and the cache, whose refusal ends the item.
CacheReplicates ==
    /\ pc = "replicate_cache"
    /\ nodes' = nodes \cup {cur, target}
    /\ cache' = AddEdge(cache, cur, target, "replicates")
    /\ IF Linked(cache, cur, target)
         THEN EndItem
         ELSE /\ pc' = "replicate"
              /\ target' = None
              /\ UNCHANGED <<cur, batch, nbrs, updates, contra, repls>>
    /\ UNCHANGED <<dbVars, channel, pub, boundVars>>

\* generate_summary writes only the summary column; the item is done.
Finish ==
    /\ pc = "replicate"
    /\ repls = {}
    /\ EndItem
    /\ UNCHANGED <<dbVars, channel, cacheVars, pub, boundVars>>

---------------------------------------------------------------------------
(* Failures.                                                               *)

\* Mutant: an item that failed is sent again.
WorkerFaultRetries ==
    /\ faults < MaxFaults
    /\ pc # "idle"
    /\ faults' = faults + 1
    /\ channel' = Append(channel, cur)
    /\ EndItem
    /\ UNCHANGED <<dbVars, cacheVars, pub, crashes, rejected>>

\* A database call of process_atom returns an error, before it took effect or
\* after (the item ends where the next step would have started).
WorkerFault ==
    /\ faults < MaxFaults
    /\ pc # "idle"
    /\ faults' = faults + 1
    /\ EndItem
    /\ UNCHANGED <<dbVars, channel, cacheVars, pub, crashes, rejected>>

\* The process dies and is started again: requests in flight, the channel and
\* the worker's locals are gone, the cache is rebuilt from the tables.
Crash ==
    /\ crashes < MaxCrashes
    /\ crashes' = crashes + 1
    /\ channel' = <<>>
    /\ pub' = [a \in Atom |-> IF pub[a] = "unborn" THEN "unborn" ELSE "done"]
    /\ cache' \in Loads(edges)
    /\ nodes' = Published
    /\ pc' = "idle"
    /\ cur' = None
    /\ batch' = {}
    /\ nbrs' = {}
    /\ updates' = {}
    /\ contra' = {}
    /\ repls' = {}
    /\ target' = None
    /\ UNCHANGED <<dbVars, faults, rejected>>

---------------------------------------------------------------------------
Publishing ==
    \E a \in Atom : \/ PublishCommit(a)
                    \/ PublishSend(a)
                    \/ PublishCache(a)
                    \/ PublishRow(a)
                    \/ PublishRowsFail(a)
                    \/ PublishDone(a)

ProcessAtom ==
    \/ Embed
    \/ EmbedFails
    \/ ReadNeighbours
    \/ DetectContradictions
    \/ ApplyUpdate
    \/ InsertContradicts
    \/ CacheContradicts
    \/ DetectReplications
    \/ InsertReplicates
    \/ BumpReplication
    \/ CacheReplicates
    \/ Finish

Next ==
    \/ Publishing
    \/ Poll
    \/ PollNext
    \/ Recv
    \/ ProcessAtom
    \/ WorkerFault
    \/ Crash

\* The task keeps running between failures (tokio), and select! picks among
\* its ready branches at random, so neither the timer nor the channel is
\* passed over for ever; a request runs until it is answered, and the senders
\* waiting on a full channel are served in turn.
Fairness ==
    /\ \A a \in Atom :
         /\ SF_vars(PublishSend(a))
         /\ WF_vars(PublishCache(a) \/ PublishRow(a) \/ PublishDone(a))
    /\ WF_vars(ProcessAtom)
    /\ WF_vars(PollNext)
    /\ SF_vars(Poll)
    /\ SF_vars(Recv)

Spec     == Init /\ [][Next]_vars
FairSpec == Spec /\ Fairness

---------------------------------------------------------------------------
(* Typing.                                                                 *)

TablesOK ==
    /\ born \in [Atom -> Nat]
    /\ ready \subseteq Atom
    /\ ph \in [Atom -> [Field -> Nat]]
    /\ repl \in [Atom -> Nat]
    /\ edges \subseteq Edge

RequestsOK ==
    /\ channel \in Seq(Atom)
    /\ pub \in [Atom -> PubStep]

CacheOK == nodes \subseteq Atom /\ cache \subseteq Edge

WorkerOK ==
    /\ pc \in WorkerStep
    /\ cur \in Atom \cup {None}
    /\ (pc = "idle") = (cur = None)
    /\ batch \subseteq Atom
    /\ nbrs \subseteq Atom
    /\ updates \subseteq Update
    /\ contra \subseteq Atom
    /\ repls \subseteq Atom
    /\ target \in Atom \cup {None}
    /\ (target # None) = (pc \in {"contradict_cache", "bump", "replicate_cache"})

BoundsOK == crashes \in 0..MaxCrashes /\ faults \in 0..MaxFaults

TypeOK == TablesOK /\ RequestsOK /\ CacheOK /\ WorkerOK /\ BoundsOK

---------------------------------------------------------------------------
(* What holds.                                                             *)

Undisturbed == crashes = 0 /\ faults = 0
TrackedNeighbours(a) == {b \in Neighbours(a) : Kind[b] \in Tracked}

\* repl_exact never exceeds the replicates rows that point at the atom, and
\* falls behind them by at most one per crash or failed call: the insert of
\* the row and the UPDATE of the counter are separate statements, and an
\* edge that exists is never counted again (record_replication).
ReplicationLag ==
    \A a \in Atom :
        ReplicatesIn(edges, a) - repl[a] \in
            0 .. (crashes + faults + (IF pc = "bump" /\ target = a THEN 1 ELSE 0))

\* Every edge of the cache is a row of the table, or a derived_from edge
\* whose request is about to insert the row or failed to: handle_publish
\* updates the cache first and ignores an INSERT's error, the worker updates
\* the table first.
CacheBacked ==
    \A e \in cache :
        e \in edges \/ (e[3] = "derived_from" /\ (pub[e[1]] = "rows" \/ faults > 0))

\* With no crash and no failed call, between items a tracked atom counts at
\* least the tracked atoms embedded near it, in whatever order and however
\* often the channel and the poll had them processed.
NoveltyNotInflated ==
    pc = "idle" /\ Undisturbed =>
        \A a \in ready : Kind[a] \in Tracked =>
            ph[a]["novelty"] >= Cardinality(TrackedNeighbours(a))

\* A neighbour is counted at most twice, once from the poll and once from the
\* channel, neither of which looks at what the other did: however many deaths,
\* failed calls and further polls follow, an atom that is ready is taken only
\* from a channel it is in once.
CountedAtMostTwice ==
    \A a \in Atom : ph[a]["novelty"] <= 2 * Cardinality(Neighbours(a))

\* A contradiction never enters the graph unsignalled: at one end at least
\* ph_disagreement is set, because the columns are written before the rows,
\* at a point where a crash leaves a signal without an edge and never the
\* reverse.
ContradictionSignalled ==
    \A a, b \in Atom : <<a, b, "contradicts">> \in edges =>
        /\ <<b, a, "contradicts">> \in edges
        /\ ph[a]["disagreement"] > 0 \/ ph[b]["disagreement"] > 0

\* Under fairness every atom that can be embedded becomes ready: what a full
\* or lost channel or an aborted item leaves pending, the poll finds.
EventuallyReady ==
    \A a \in Atom : (born[a] > 0 /\ a \notin rejected) ~> (a \in ready)

\* Under fairness a publish request is answered, however small the channel:
\* the worker that empties it never waits for a request.
PublishAnswered ==
    \A a \in Atom : (pub[a] # "unborn") ~> (pub[a] = "done")

\* The rest of the hub sees the worker as Evidence describes it.
Ev == INSTANCE Evidence WITH
        replicatesIn    <- [a \in Atom |-> ReplicatesIn(edges, a)],
        contradictsRows <- [a \in Atom |-> ContradictsCount(edges, a)],
        dis             <- [a \in Atom |-> ph[a]["disagreement"]]

\* The worker implements Evidence under crashes and failed calls: a counter
\* never gets ahead of its rows, contradicts rows come in pairs after one end
\* shows a disagreement, and nothing gathered is lost.
ImplementsEvidence == Ev!EvidenceSpec

=============================================================================
