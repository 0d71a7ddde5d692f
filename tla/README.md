# A verified account of the Asenix hub

Asenix is a coordination hub for research agents. Agents publish *atoms*
(findings, negative results, hypotheses, ...) and read back a landscape of
*pheromones*; background workers connect the atoms by edges, compute the
pheromones and move atoms through a lifecycle. The hub is one Axum process
(`src/src/main.rs`) over Postgres, with an in-memory graph cache and a set of
tokio tasks. This directory models the parts of the hub in which several of these
actors meet, checks them with TLC and proves the central facts with TLAPS.

Paths below are relative to the repository root, so `src/` is the Rust crate's
source directory.

## 1. The system

| Component | State | Operations | Talks to |
|---|---|---|---|
| Publish requests (`src/api/rpc_handlers/rpc_impl.rs`) | rows of `atoms` and `edges`, the graph cache | `publish`, `publish_atoms` | the embedding channel (bounded mpsc), the cache (RwLock), SSE |
| Embedding worker (`src/workers/embedding_queue.rs`) | its channel, the poll's rows, local lists | receive, poll, embed, read neighbours, write pheromones, insert edges | `atoms`, `edges`, the cache |
| Edge table and graph cache (`src/db/graph_cache.rs`) | unique rows; a `DiGraph` with one edge per ordered pair | insert, `add_edge`, load at start, traverse | everyone |
| Lifecycle worker (`src/workers/lifecycle.rs`, `src/domain/lifecycle.rs`) | the rows of its sweep | sweep, evaluate, transition, audit | `atoms`, `lifecycle_transitions` |
| Withdrawals (`rpc_impl.rs`, `src/db/queries/atom_queries.rs`) | `lifecycle`, `retracted`, `ban_flag` | `retract`, `retract_atom`, ban, unban | the lifecycle worker, through the row |
| Decay worker (`src/workers/decay.rs`) | `ph_attraction`, the list of changes of its sweep | sweep | the embedding worker, through the row |
| Bounty worker (`src/workers/bounty.rs`) | none of its own | exploration tick (also on an owner's request), synthesis tick | `atoms`, `edges` |
| Claims (`src/db/queries/claim_queries.rs`, `src/workers/claims.rs`) | `claims` | claim, `claim_direction`, release, expire; the surveys that claims weigh on | `atoms` |
| Agents and reviews (`src/db/queries/agent_queries.rs`, `review_queries.rs`) | `agents`, `reviews`, `review_status` | register, confirm, review, automatic approval | `atoms` |
| Artifacts (`src/api/artifacts.rs`, `artifact_processor.rs`, `src/storage/local.rs`) | files, rows of `artifacts` | put, inline put, get (delete has no caller) | publish requests |
| Projects (`src/db/queries/project_queries.rs`) | `projects`, `project_files` | create, delete, protocol, files | `atoms`, the command-line client |
| Rate limiters and sessions (`src/state.rs`, `src/api/mcp_session.rs`) | maps behind a mutex | check; create, touch, delete, sweep | every request |
| MCP surface and event stream (`src/api/mcp_handlers/mcp_server_impl.rs`, `src/api/sse.rs`, `src/main.rs`) | the broadcast ring | dispatch, subscribe, deliver, shut down | sessions, limiters, the embedding channel |
| Command-line client (`src/bin/asenix/`) | credentials, configurations and pid files on the operator's machine; nothing locks them | `agent run`, `agent stop`, `reset`, `up`, `down`; project commands | the hub, over HTTP; other invocations, through the files |
| Encoders, metrics queries, acceptance rules, web UI, Python client | none the hub depends on | read, format | |

The hard behaviours, each listed with its line under `hazards` in `PROJECT.json`:

* **No transaction spans a handler.** Publication, the neighbourhood update, a
  lifecycle transition, a review, an artifact upload, a claimed direction, the deletion of a
  project are each a series of autocommitted statements with awaits between them. Requests
  interleave with the workers at every await, and a process death may fall between any two.
* **Two routes to the same work.** An atom's id reaches the embedding worker through
  the channel and through the fallback poll, possibly both; claims are expired by a worker and by
  whoever claims next; a bounty tick runs in the worker and on request.
* **Two copies of the graph**, with different keys: rows are unique per
  (source, target, type), the cache per (source, target).
* **Decisions on stale rows.** The lifecycle sweep decides on a `SELECT` and writes
  with an unguarded `UPDATE`; the decay and the embedding worker both write absolute
  attractions; the deduplication of a publication is a look before an `INSERT`; an editor of the
  client writes back a text it fetched when it was opened.
* **Bounded things**: the channel (1000), the poll (`LIMIT 100`), the ring of the event
  stream, the windows of the limiter, the depth of a traversal.
* **The end.** Shutdown joins the workers for ten seconds and then waits for every request and
  every stream, some of which wait for what the workers did.

## 2. Modules

```
Pheromone            arithmetic in hundredths (src/domain/pheromone.rs)
 ├ EdgeTable         rows and cache (src/db/graph_cache.rs, migrations/001)
 │  └ EmbeddingQueue     publication + embedding worker   ── implements ──┐
 │     ├ EmbeddingQueueProofs                                             │
 │     └ MCEmbeddingQueue                                                 │
 └ Evidence          what the worker promises about evidence  <───────────┘
    └ LifecyclePromise   what the lifecycle column promises  <── implements ──┐
       └ Lifecycle           the sweep, the requests                         ─┘
          ├ LifecycleFleetProofs   (with Fleet's)
          └ MCLifecycle

Agents               registration, trust, publication's transaction, reviews
 ├ AgentsProofs
 └ MCAgents

Artifacts            uploads, the local store, the table of artifacts
 ├ ArtifactsProofs
 └ MCArtifacts

Pheromone
 └ Signals           attraction: embedding worker, decay worker, bounty ticks
    ├ SignalsProofs
    └ MCSignals

EdgeTable
 ├ Lineage           traversals of the cache: loops as iterated functions, and what they are meant to find
 └ Board             publications, batches, projects
    └ BoardLineage      Board + Lineage: what a traversal finds in the graph the board keeps
       ├ GatewayBoardProofs   (with Gateway's)
       └ MCBoard

Claims, Projects                 each with its Proofs and MC module
Gateway                          with MCGateway; proofs in GatewayBoardProofs
Fleet                            with MCFleet; proofs in LifecycleFleetProofs
```

A theorem about a component needs its names unqualified, so a proof module that holds two components extends both, and
their names are disjoint: `Fleet` and `Board` prefix what every module has (`FleetInit`, `FleetSpec`, `fleetVars`, `BoardNext`,
`BoardTypeOK`) and call their null value `Nil` and `NoProject`. The two components of a pair share no state.

The chain is the composition: `EmbeddingQueue` implements `Evidence` (a refinement
mapping counts rows), `Evidence` is the environment of `Lifecycle`, and `Lifecycle`
implements `LifecyclePromise`.

### EmbeddingQueue

One worker task and, per atom, the request that publishes it.

| TLA+ | code |
|---|---|
| `born`, `ready`, `ph`, `repl`, `edges` | columns `created_at` (as a rank), `embedding_status`, `ph_*`, `repl_exact`; table `edges` |
| `channel`, `batch` | the mpsc channel; the rows the poll returned |
| `nodes`, `cache` | the petgraph |
| `rejected` | not in the code: the atoms the encoder fails on, chosen at the start |
| `pub[a]` | the await at which `handle_publish` of `a` stands |
| `pc`, `cur`, `nbrs`, `updates`, `contra`, `repls`, `target` | the await at which the worker stands, and its locals |
| `PublishCommit`, `PublishSend`, `PublishCache`, `PublishRow`, `PublishRowsFail`, `PublishDone` | the statements of `handle_publish` |
| `Poll`, `PollNext`, `Recv` | the branches of the `select!` in `start`, the loop of `process_pending` |
| `Embed`, `EmbedFails`, `ReadNeighbours`, `DetectContradictions`, `ApplyUpdate`, `InsertContradicts`, `CacheContradicts`, `DetectReplications`, `InsertReplicates`, `BumpReplication`, `CacheReplicates`, `Finish` | `process_atom` and `update_pheromone_neighbourhood`, one action per awaited call |
| `WorkerFault` | any of those calls returns an error: the loop logs it and drops the item |
| `Crash` | the process dies and starts again: locals, channel and requests are gone, the cache is loaded from the rows |

Data is abstracted: an atom is a model value; `Near`, `Comparable`, `Metric` and
`Spread` are constants for the geometry, the condition keys, the shared metric and
the warning a negative result sends to each neighbour. Pheromones are hundredths.
`ph["novelty"]` holds the *count* the code's `1/(1+count)` stands for, since the code
recovers the count from the stored value before it adds one. The attraction column is not in
this module (it is in `Signals`): no guard of the worker reads it. Summaries are a log of no consequence
to the state modelled.

### Lifecycle

| TLA+ | code |
|---|---|
| `replicatesIn`, `repl`, `contradictsRows`, `dis` | the evidence the sweep's `SELECT` reads |
| `lifecycle`, `retracted`, `banned`, `audit` | columns; table `lifecycle_transitions` |
| `rows`, `cur`, `old`, `pc` | the decided transitions of a sweep, the one in hand, the lifecycle read for its audit row, the await |
| `Sweep`, `ReadOld`, `UpdateLifecycle`, `RecordTransition` | `run_lifecycle_sweep`, the three statements of `apply_transition` |
| `Evaluate` | `LifecycleEvaluator::evaluate` |
| `Retract`, `RetractAtom`, `BanAtom`, `UnbanAtom` | the requests of those names |
| `WorkerFault`, `Crash` | a failed statement of `apply_transition`; a death |
| `Gather` | `Evidence`'s steps, and edges that an agent asserts through `publish_atoms` |

### Agents

| TLA+ | code |
|---|---|
| `agent`, `confirms` | `confirmed` and the existence of the row; confirmations between their `SELECT` and their `UPDATE` |
| `reliability`, `published` | columns of `agents`; `None` is `NULL` |
| `draft`, `status` | `review_status` of a row not yet committed, and of one that is |
| `decided` | table `reviews` by atom: its unique index is on (atom, reviewer), and `review_atom` makes the author the reviewer |
| `at`, `seen` | the await at which a review stands; the reliability it has read |
| `Register`, `RegisterSimple`, `ConfirmSelect`, `ConfirmUpdate` | `register_agent`, `register_agent_simple`, `confirm_agent` |
| `PublishInsert`, `PublishCommit` | the transaction of `publish_atom`; the `CASE` of its `INSERT` and the trigger of migration 005 ask the same question (`Trusted`) |
| `InsertReview`, `SetStatus`, `ReadReliability`, `WriteReliability` | `review_atom` and `create_review`, each statement committed by itself |
| `PublishFails`, `ReviewFails`, `Crash` | a failed statement; a death |

Hundredths stand for the doubles of the column, so the model does not see that a sum of steps may fall a
rounding error beside the threshold. `earned` remembers what the counted reviews make one after another,
and `parallel` the authors of whom two were counted at once: `EarnedUnlessParallel` compares the column with them.

### Artifacts

| TLA+ | code |
|---|---|
| `row` | table `artifacts`, as the upload that inserted each row |
| `tmp`, `file`, `bytes` | the names `<hash>.tmp` and `<hash>` in the store, each an inode; what an inode holds |
| `at`, `fd` | the await at which a request stands; the inode it has open |
| `Check`, `Vet` | the look-up; hash, size, quota and manifest (`Acceptable`) |
| `Create`, `Write`, `Rename` | `LocalStorage::put` |
| `Insert` | the `INSERT` under the primary key |
| `Fault`, `Crash` | a failed call, answered with an error; a death, which leaves the files |

`Upload` is the set of requests with their agent, URL, body and declared type; a request is by `PUT` or
`Inline`, which differ in quota and checks only. Two requests that have the same inode open write the
same bytes, but one may empty it under the other, so a write whose inode is open elsewhere may leave it
cut short. `parallel` remembers which agents have had two uploads under way at once.

### Board, Lineage and BoardLineage

| TLA+ | code |
|---|---|
| `atoms`, `retracted`, `project` | rows of `atoms` and their columns; `aged` are those older than the sixty seconds of the deduplication |
| `edges`, `cache` | table `edges`, the petgraph (both from `EdgeTable`) |
| `projects`, `files` | rows of `projects` and `project_files` |
| `todo[r]` | the statements that request `r` has still to run: `Plan` lays them out for `handle_publish` and for `handle_publish_atoms`, in the order of the code |
| `Dedup`, `CheckParent`, `InsertAtom`, `LinkCache`, `InsertParentRow` | `handle_publish`, one statement each; a batch inserts all its atoms before it looks at a parent |
| `InsertEdge`, `AddToCache` | the explicit edges of `publish_atoms`; `add_edge` may refuse |
| `StripAtoms`, `DeleteProject`, `FindProject`, `UploadFile`, `DeleteFile` | `delete_project`'s two statements; the look-up and the `INSERT` of an upload |
| `Visit`, `Search`, `Iterate` | one round of the `while let` of a search, with its queue of atoms and depths; the loop, as a function of the state iterated so often that the queue is empty |
| `Traverse`, `TraverseBfs`, `Subgraph` | the three searches of `graph_cache.rs`; `Subgraph` goes through its starts with one set of visited atoms |
| `Within`, `Reached`, `IsWalk` | not in the code: the atoms at most so many hops away, those a hop or more away, and walks. The searches are compared with the first two, and those with the third |

`met`, `raced` and `withdrawn` remember which requests were under way together, what was published
into a project between the two statements of its deletion, and what was retracted when a request came.
Atoms of equal `Content` have one author, domain and statement.

### Signals

| TLA+ | code |
|---|---|
| `born`, `active`, `attraction`, `ready`, `retracted` | `created_at`, `last_activity_at` (both ranks), `ph_attraction`, `embedding_status`, `retracted` |
| `channel`, `batch` | the ids sent to the embedding worker; what is left of the rows its poll read |
| `updates`, `embedding`; `erosion` | what the embedding worker, and the decay sweep, computed from their reads and have still to write |
| `Poll`, `PollNext`, `Recv`, `Embed` | `process_pending` and the other branch of the `select!`; `process_atom` up to `ready`, whatever the status was before |
| `ReadNeighbours`, `WriteUpdate` | the boost in `update_pheromone_neighbourhood`; updates of one atom overwrite one another |
| `SweepRead`, `SweepApply` | the `SELECT`, and the transaction that writes the absolute values |
| `StartTick`, `Explore`, `EndExplore` | `run_bounty_tick`, in the worker or for an owner |
| `Examine`, `LinkBounty`, `EndTick` | `run_synthesis_bounty_tick`: a synthesis at a time, its bounty and the edges of it |
| `Fail`, `Crash` | a failed statement; a death, after which what was in hand, and the channel, are gone |
| `Abandon` | the end of an item on either: nothing of what it had still to write is ever written |

The column is compared with `due`, a history variable: what the attraction would be had each atom been processed once and to its end, and had
every boost and decay been applied to the value it was meant for. A boost that a death or a failed statement drops after `ready` is credited to
`due` all the same (`Owed`), and one of a second processing is not. Three further histories name the atoms for which the two may differ: `raced`, which both
workers had in hand at once; `cut`, which an item that was cut short had still to write; `redone`, which a second processing wrote. `again` says that
the processing under way is such a second one. `charged` remembers how many atoms the last sweep to be written had seen.
Decay is rounded as the arithmetic module says; its floor is one unit. The channel is unordered and unbounded here and the poll has no `LIMIT`: both
are in `EmbeddingQueue`.

### Claims

| TLA+ | code |
|---|---|
| `row`, `until`, `born` | a request's row of `claims`: `active` flag, `expires_at`, `created_at` |
| `ExpireFirst`, `Sweep` | the two expiry `UPDATE`s |
| `Verify`, `InsertClaim`, `CountClaims` | `claim` |
| `PublishHypothesis`, `CheckConflicts`, `CreateClaim`, `ListClaims` | `claim_direction` |
| `Release` | `release_claim` |
| `Score`, `Draw`, `Slip`, `AnswerSurvey` | the survey: ranking, draws without replacement, and the draw that falls past the last candidate |
| `Fail`, `Crash` | a failed statement, a death |

`cutoff` and `counted` remember the expiry an answer rests on and what it counted.

### Gateway

| TLA+ | code |
|---|---|
| `status`, `initialized`, `lastActive` | the map of sessions |
| `job[c]` | the request of a connection and how far it is: each look at a session takes the lock anew |
| `Arrive`, `Lookup`, `Exists`, `MarkInitialized`, `UpdateActivity`, `RemoveSession`, `CleanupSessions` | the MCP handlers on a session; the idle sweep |
| `ArriveRpc`, `Authenticate`, `CheckRateLimit` | a request over JSON-RPC, the token, the limiter (`count`, `start`) |
| `Send`, `AnswerPublish`, `AnswerRetract`, `AnswerOther` | the embedding channel, the events and the answer |
| `Subscribe`, `Deliver`, `Leave` | an event stream over the ring buffer; events without a `type` do not parse and are dropped |
| `ShutdownSignal`, `WorkerEnds`, `JoinEnds`, `Exit` | `main.rs`: the token, the ten-second join, the graceful end |

`log` remembers when each request of an agent was let through.

### Fleet and Projects

These model the command-line client as processes that share a machine and a hub. In `Fleet` each invocation of
`agent run`, `agent stop`, `reset`, `up` or `down` is at some step `at[c]`; `creds`, `config` and `pidFile` are the
files of each agent number, `place` is how far an agent is. In `Projects` an invocation resolves a slug to a project and
then fetches, saves, uploads, removes, lists or downloads in calls of its own; a text is the set of
changes it contains, so that a lost edit is one that is in no text. `shared`, `unnamed`, `listed`; `read`, `shown`, `failed` are
histories: numbers picked twice or freed by a reset, pids never written, what a stop listed; what an invocation
was answered, what the hub had under a name since it was listed, and whose calls failed. An action is one call or one
file operation of the function it is named after (`next_agent_n_for_domain` is `NextNumber`, `save_agent_cred_for_domain`
`Save`, `collect_pid_paths` `Collect`, `delete_host_data` `DeleteCred` and `DeleteLogs`). A reset counts the files, asks, and lists the directory when it has its answer (`ResetAsk`,
`ResetAnswered`); a listing of a directory is one step, though the system may read it in several. A run of `Projects` starts with an empty working copy, though the directory of its number may hold what an earlier agent
left there: `GivenWhatWasThere` is about what the run downloads.

## 3. Runs

| Run | Instance | Checks |
|---|---|---|
| `queue_core` | two findings 12 % apart (inside the band where the code both contradicts and replicates), one derived from the other, and the encoder takes both or rejects the older; a channel of one; 2 deaths, 1 failed call | `TypeOK`, `ReplicationLag`, `ContradictionSignalled`, `CacheBacked`, `NoveltyNotInflated`, `CountedAtMostTwice`, `ImplementsEvidence`, `EventuallyReady`, `PublishAnswered` |
| `life_core` | one atom with up to 5 replications and 2 contradicts rows, and its rival; 2 requests, 1 death, 1 failed statement | `LifecycleBacked`, `AuditIsHonest`, `AuditIsPath`, `KeepsPromise`, `Crystallises` |
| `life_terminal` | the same, small | `RetractedTerminal`, which the code violates |
| `agents_core` | an author of four atoms, confirmed by two requests or registered without a key; three reviewed, one of them by two requests that disagree; reviews count from the second atom on, trust takes three and one approval; 1 death, 1 failed statement | `StatusFollowsReview`, `EarnedUnlessParallel`, `ReliabilityWithinReviews`, `TrustEarned` |
| `artifacts_core` | one body sent as a tree by one agent and inline as a blob by another, a blob that fits only without it, a body that is not what its URL says; 1 death, 1 failed call | `RowHasFile`, `RowWhole`, `OneCreated`, `OverQuotaOnlyInParallel`, `EventuallyReadable` |
| `board_core` | two equal atoms published singly under a third, a batch of two with three edges of its own, a project with a file that is deleted; 1 failed call | `SameOnlyInParallel`, `AnswersTrue`, `DeleteFailsOnlyForRace`, `LineageComplete` |
| `signals_core` | a synthesis, two findings near it and one another, a bounty of each kind, the bounty worker and one owner; 1 failure or death | `BoostsKept`, `StaleAnswered` |
| `signals_decay` | the same atoms and the sweep, without bounties or failures | `ChargedForNews`, which the code violates |
| `claims_core` | a claim, a direction and a survey of two, two agents, an atom that may be retracted; 1 failure or death | `CountsFresh`, `OrphansFromFailures`, `SurveyServes`, `EventuallyEnded` |
| `gateway_core` | two connections, a session, an agent, a subscriber, two workers | `LimitHolds`, `GoneForGood`, `ShutdownEnds` |
| `fleet_core` | three invocations: two runs and a stop or a reset; a run, a stop and a second stop, a reset, an up or a down; a run between a down and an up; 1 failure | `OwnNumber`, `StopStops` |
| `projects_core` | four invocations on one slug that may pass to a second project, two files; 1 failed call | `GivenWhatWasThere`, `EditsKept` |

**What the properties say.** Those of the form *only if* name the interleaving that the code leaves open and
show that nothing else breaks the promise: equal atoms of one minute come only of requests under way
together (`SameOnlyInParallel`); an attraction is off only for an atom that both workers held at once, that was still to be written when an item was
cut short after `ready`, or that a second processing wrote (`BoostsKept`); a hypothesis nobody holds comes only of a request cut short (`OrphansFromFailures`); a quota is
passed only by parallel uploads; a project's deletion fails only for an atom published between its two statements;
an agent loses its number only to a run that picked at the same time or to a reset; an edit of a protocol is
lost only to an editor that overlapped it, to a file, or to an editor opened while the hub did not answer.
Two bounds frame what a poll and a channel that both hold an atom do to a neighbour's count: nothing having failed, it is at least the number of tracked
neighbours (`NoveltyNotInflated`), and it is never more than twice that of all (`CountedAtMostTwice`), since an id is sent once and a poll takes no atom that is ready.
`LimitHolds` states what fixed windows give (fewer than twice the limit in any window, none refused before the
limit) and `StaleAnswered` that the bounty worker answers a stale synthesis although the newer atoms are read with a `LIMIT`.

**Bounds.** Two findings near one another exercise every branch of the embedding worker:
contradiction, replication, a pair already linked by `derived_from`, an edge found on a
second processing. Two deaths let the same atom be interrupted twice; a failed call lets
an item be cut short without the channel being lost. More failures multiply the states without a new kind of step; the theorems about
this module hold for any number of either, and only its two liveness properties rest on the instance. Five replications let an atom reach `core` and, from
`contested`, `resolved` (which takes more than four rows against a pair of
contradicts rows). Three uploads are the most
that matter to one hash: two that meet in the temporary file, and a third body to compete for the quota.
The thresholds of `agents_core` are lower than the code's (3, 5 and 0.8),
in the same order, so that four atoms reach the approval without a review; the theorems hold for any.

In the larger modules a constant says what may happen together in one behaviour, which keeps the product of
unrelated things out of the state space: `Crowds` (Board: the two equal publications; a publication and the batch; a
publication, or the batch and an upload, against the deletion), `Menus` (Gateway: sessions with their
sweeper, the limiter's windows, a shutdown under load; Signals: the sweep with links and retractions, the sweep with a failure or a death, the bounty worker with one
bounty and with a failure, an owner's tick; publication and embedding go on in all of them), `Scripts` (Fleet, Projects). Each element is a pair or triple that meets in one piece of state; a behaviour of the program
with more in it is outside the instance.

* `board_core`: a batch of two makes the second atom's parent one of the first request's; its edges, which name atoms it can know
  of (the hub makes up the ids of its own), include a loop, the derivation that the first request is about to make itself, and an edge against its direction. `MaxDepth = 3` is one more than the longest path of the graph; the theorem holds for any, and the run is what evaluates the searches as they are written.
* `signals_core`: `HalfLife = 1` and `Threshold = 1` are the least that make an atom fade and a synthesis stale with two findings;
  `Limit = 2` is more than the threshold, as in the code (50 against 20). One bounty for each cause means that a second bounty for the same synthesis, which the code publishes at
  its next tick, is outside the instance. Polls, the channel, second processings and items cut short all occur with the sweep.
* `signals_decay`: a unit of 1000, so that an attraction survives more than one halving above the floor.
* `claims_core`: claims of zero minutes on a clock with `Horizon = 1` are live in their first minute and past their time in the next.
* `gateway_core`: `Max = 2`, `Window = 2`, `Horizon = 3` let two windows follow one another and the second be full; `Ttl = 1` lets the
  sweeper meet a request; a channel of one slot and a ring of one event are full at once.
* `fleet_core`: two agents of one run and one of another, on three numbers, so that a second pick can meet a first that is not saved.
* `projects_core`: two identities for one slug, so that an editor may outlive its project.

Requests are finitely many, so most instances stop when all is
answered and processed: their configurations turn the deadlock check off. `Fleet` and `Projects` end in a step `Done` and keep it on.

**Fairness.** A worker is one tokio task whose loop always has an interval
to wake it, so its steps are weakly fair; a publish handler runs to its end unless the
process dies, so each of its steps is weakly fair; deaths and failures are never fair, and no agent, client or operator
has to ask for anything. Which branch of a `select!` is taken is random, so
the model is fair to the embedding loop's branches taken together and to the poll by itself. In `Signals` only the steps of the
bounty worker are fair, which is all its one liveness property needs (the tick an owner asks for is not); in `Claims` only the expiry of the
worker. In `Gateway` a request that was taken goes on, a stream that has an event is read, the embedding worker sees the
token after its item, and the join and the exit go on; the other workers may take as long as they like (the join gives them ten seconds), and
no client has to close its stream, which is why `ShutdownEnds` excepts open streams.

**What the violation runs show.** `life_terminal`: a retraction can be overwritten by a sweep that decided
before it, against the comment that calls `Retracted` terminal. `signals_decay`: a second sweep halves an attraction again with nothing published since the first,
because a sweep does not advance `last_activity_at` (`decay.rs:33`); `docs/src/concepts.md:84` has attraction halve every fifty atoms
published, "proportionally to how much new information has arrived".

**Other disagreements between code and documents.** These were met while modelling; they are facts about the lines
cited and have no run of their own.

* Evidence. The neighbourhood update is lost if the process dies after `ready` (`embedding_queue.rs:106` against
  `docs/src/concepts.md:73`). `add_edge` refuses a second edge of an ordered pair, so that the cache misses rows
  (`embedding_queue.rs:503` against `STATE.md:18`). Only the neighbour's `ph_disagreement` is written
  (`embedding_queue.rs:348` against `concepts.md:65`). Processing an atom twice counts its neighbours twice (`concepts.md:77`) and adds its
  repulsion twice. `replicates` and `repl_exact` may fall on the newer atom when atoms are embedded out of order
  (`concepts.md:67`). Metrics 10 to 15 % apart both contradict and replicate (`concepts.md:60`). A hundred atoms that cannot be
  embedded hide every newer one from the poll.
* Lifecycle. `resolved` takes four rows to one and not "2:1" (`domain/lifecycle.rs:85`, `concepts.md:149`). A contradiction found between a
  sweep's read and write does not stop a promotion to core (`STATE.md:29`); core atoms are never contested (`STATE.md:30`);
  `retract_atom` leaves `lifecycle` alone (`STATE.md:32`); a retraction has no audit row
  (`migrations/012_metrics_snapshots.sql:1`).
* Attraction and bounties. An atom that is processed a second time goes back to the average of its neighbourhood, and what it
  gained since is lost (`embedding_queue.rs:320`); `concepts.md:78` has it inherit the average when it is new. `attraction_boost` ignores the direction of a metric, where `concepts.md:78` speaks of better metrics; the boosts of several
  metrics overwrite one another. The query behind "Sample random vectors to find a sparse region within this domain" (`bounty.rs`)
  samples every domain.
* Claims and surveys. The `JOIN` of `conflict_queries.rs:31` asks for a claim's own atom and for another than it, so that "Check for potential
  claim conflicts before creating" never finds one. A draw may slip, so that sampling does not always select `limit` atoms
  (`architecture.md:70`).
* Graph. "ancestors" follows incoming edges, that is, from a parent to its children (`graph_cache.rs:355` against `concepts.md:114`,
  `mcp_tools.rs:181`, `STATE.md:46`); the searches of `get_subgraph` share one set of visited atoms.
* Artifacts. The temporary file of the local store is shared by all uploads of a hash, so one may empty what another is
  writing (`storage/local.rs:53` against the comment "Write file atomically" at line 50). A tree sent inline is stored in a form that `list_artifact_tree` rejects
  (`api/artifacts.rs:381`); the quota of an inline upload is a constant and not the one configured
  (`api/artifact_processor.rs:149`).
* Agents. An approval changes no reliability before the author's third publication (`docs/src/ui.md:90`).
* Gateway. The window of the limiter is fixed, where the comment in `state.rs` has it slide. `atom_retracted` and `lifecycle_transition` have
  no `type` that `parse_typed_event` knows and reach no subscriber (`api/sse.rs` against `concepts.md:151`). The comment on the session clean-up says one
  hour and the time to live is 24.
* Projects. Whether an upload overwrote a file is read before it is written, so two may both be told they created it. A protocol that could not be fetched opens an empty editor, where
  `main.rs:1336` has "Fetch current protocol as initial content for editor", and saving it erases the protocol; likewise the requirements and the seed bounty. A run on a project
  that is deleted meanwhile launches its agents without protocol or files (`client.rs:359`).
* Client. `rpc_call` takes `"error": null` for an error (`client.rs:283`), so the count of atoms is always 0 and a run posts the seed bounty
  again each time (`main.rs:697`). The bounty commands call tools the hub does not have. `load_all_agents` looks for `agent_`, which the files
  `<project>_agent_<n>` do not begin with.

## 4. Proofs

TLAPS proves, for every value of the constants the assumptions allow (any finite set of atoms, any geometry and
metrics, any numbers of requests, connections or invocations) and for every bound:

* `EmbeddingQueueProofs`: `TypeCorrect` (`TypeOK`), `ReplicationCounted`
  (`ReplicationLag`), `ContradictionsSignalled` (`ContradictionSignalled`) and
  `EvidenceImplemented` (`ImplementsEvidence`). None of the three is inductive. The strengthening,
  `EvidenceInv`, adds to the types three facts about the worker's locals:
  *Fresh* (what is in `repls` and `contra` is not yet in the table, which makes every
  insertion count), *Signalled* (the update that precedes a pair is either still in
  `updates` or in the column) and *Counted* (per atom, rows = counter + the one being recorded +
  those lost to failures). The refinement then shows each worker step to be a step of
  `Evidence` or a stutter; counting rows uses the cardinality theorems of finite sets.
* `EmbeddingQueueProofs` also has `CacheIsBacked` (`CacheBacked`): `CacheInv` adds that the row of every link the worker is about to make is in
  the table (`RowsFirst`), and whose parent a link without a row is; and `NoveltyCounts` (`NoveltyNotInflated`): `NoveltyInv` says of every step
  of an item that each atom in need of a new count has it in `updates`, with a value that covers its neighbours. `CountedTwiceAtMost` (`CountedAtMostTwice`) bounds the count from
  above: `TwiceInv` says that a count, written or in hand, and the turns that neighbours have still to come (`Coming`: those queued, and the one being taken) stay within two for each neighbour;
  `Passage`, that an id is in the channel once, that what a poll holds is pending, and that what is not published is nowhere.
* `LifecycleFleetProofs`, on `Lifecycle`: `TypeCorrect`, `Backing` (`LifecycleBacked`), `Implementation` (`KeepsPromise`),
  `AuditHonest` (`AuditIsHonest`) and `AuditComplete` (`AuditIsPath`). `LifecycleBacked` holds although rows are stale because
  evidence only accumulates: the invariant `BackedInv` says that each row in hand was decided
  on evidence that is still there, and `CurrentInv` that the lifecycle shown is one from which
  the row's step is in the diagram, or a withdrawal. `HonestInv` says the same of what was read for the audit row, and `PathInv` that
  between the `UPDATE` and the audit row the table is behind by exactly the row in hand.
* `LifecycleFleetProofs`, on `Fleet`: `NumbersAreOwn` (`OwnNumber`) and `StopsAreHeld` (`StopStops`), for any invocations and bounds. `FleetInv`
  says where an agent's number, credentials and pid stand at each step of the run that makes it, that a number picked and not yet saved has no credentials and
  no second picker outside `shared`, and that an invocation has its own agents in hand. `StopInv` adds that what a stop listed is over, or its number is still among what
  it has to do.
* `AgentsProofs`: `TypeCorrect`, `ReviewShown` (`StatusFollowsReview`), `ReliabilityBounded`
  (`ReliabilityWithinReviews`), `TrustIsEarned` (`TrustEarned`) and `EarnedAlone` (`EarnedUnlessParallel`), for any agents,
  atoms, reviews and thresholds above 50. The bound is not inductive, because a review's row is there before
  its change: `SettledBound` counts only reviews that are done, and holds also of what a review
  has read. That rows and answers are never taken back (`RowsKept`) makes both bounds monotone, and a
  lost update harmless to them. `EarnedInv` says that the only review of an author being counted has read what the others made.
* `ArtifactsProofs`: `TypeCorrect`, `FileBacked` (`RowHasFile`), `WholeUnlessInterrupted` (`RowWhole`)
  and `CreatedOnce` (`OneCreated`), for any uploads, sizes and bounds. `StoreInv` strengthens the first: an inode never
  leaves its hash, a request past `Vet` has the body of its URL, and one about to insert has its file in
  place. `NamedWhole` extends `RowWhole` to temporary files, since a rename carries one over. `QuotaHeld` (`OverQuotaOnlyInParallel`) needs sums over
  sets: `QuotaInv` says that what an agent stores and the body of its one upload past `Vet` fit the quota it was measured by. That a sum grows with its set, or by one
  element, is proved by the least counterexample in the well-founded order of strict subsets, which takes no induction operator.
* `ClaimsProofs`: `CountsAreFresh` (`CountsFresh`) and `SurveysServe` (`SurveyServes`). `FreshOK` relates what is active to the
  last expiry: each active claim runs beyond it or was inserted after it, no answer rests on a later one, and what is counted has
  a row, whose times no step changes any more. For the survey, `Drawn` is the lemma on sequences that a candidate moved from those left
  to those served keeps both free of repetition and apart. `OrphansExplained` (`OrphansFromFailures`) counts: `OrphanInv` says that the directions in error are no more than
  the failed calls, and that every other one past its insertion has its claim. It uses that the ids of new hypotheses are new, which the assumption states because the
  code hashes the time into them. `TypeCorrect` (`TypeOK`) adds `Ranges`: the times, the lists of a survey, the bound on failures, and that a request past its insertion has a row.
* `GatewayBoardProofs`, on `Gateway`: `LimitsHold` (`LimitHolds`) and `SessionsStayGone` (`GoneForGood`). `Fits` says of a log and the limiter's entry that
  the open window began with the request `count` from the end, and that the request `Max` before that one is a window older;
  `Opening` and `Counting` show that the two ways to be let through preserve it. From it follows that `2 Max` requests span a window.
  `GatewayTypeCorrect` (`TypeOK`) bounds what is bounded: the channel by its size, a subscriber's ring by its buffer (`Streamed`), a limiter's entry by the limit.
* `GatewayBoardProofs`, on `Board`: `SameMet` (`SameOnlyInParallel`), `AnswersAreTrue` (`AnswersTrue`), `DeletionsFailForRace`
  (`DeleteFailsOnlyForRace`) and `BoardTypeCorrect`, for requests, batches, parent lists and explicit edges of any number and length. A request is
  the list of its statements; `Guarded` says that a statement comes after another in it, and `Guards` that what must precede a derivation (the atom's
  insertion, the look at the parent, the cache) is still before it in the list or has run and holds, which nothing undoes. `Planned` shows it of the list that
  `handle_publish` or `handle_publish_atoms` starts with, `RunRequest`, `AddRequest` and `StopRequest` of what is left after a statement, and `OtherRequest` that the steps
  of others leave it. Across requests, `RowsCached` says that a row is in the cache or a batch has that very edge in hand,
  `OwnDerivations` that a derivation is its own request's or was asserted by a batch, `Met` that a request past its look for a twin has met every request whose atom would
  be one, `Stripped` that an atom found in a project being deleted came after its atoms were stripped. `OneEdgePerPair` is an invariant of its own: the searches ask
  `find_edge` for *the* edge of a pair, which `Lineage` takes to be every edge there is.
* `GatewayBoardProofs`, on `Lineage` and `BoardLineage`: `TraversalsAreComplete` (`LineageComplete`), for any finite graph, depth, direction and set of types. It rests on
  `TraverseFinds` and `SubgraphFinds`, which are about the searches alone and hold in any graph. A loop is a function iterated: `IterateUnfolds` gives its
  value at 0 and at n + 1, `IterateStays` that what a round keeps holds after any number. `IsRound` is what a round does to queue, visited atoms and edges, without the order
  in which neighbours are enqueued. The invariant of the rounds has two halves. `SearchSound`: each queued atom lies within its depth, each edge is one of an atom nearer than the
  limit, each visited atom a neighbour of one. `Complete`: with d the depth at the head of the queue, depths in the queue ascend and are d or d + 1, every atom nearer than d
  has been looked at, every atom at d has been or is queued, and what was found beyond d is queued at d + 1. Neither half alone is enough: an atom's depth says how near it is
  only because it is enqueued when first met. That the queue empties is a count (`SearchEnds`): the queue's length and the number of rounds stay within the atoms visited and one.
  `WithinIsByWalks` shows that `Within`, against which all this is stated, is what it should be: the ends of the walks of at most n edges.
  `ParentsAreFound` joins the two components: the parents of an answered publication are one hop away in what `get_lineage` returns.
* `SignalsProofs`: `BoostsAreKept` (`BoostsKept`), with its three exceptions. The strengthening `SignalsInv` says that what either worker has still to write was computed from a value
  that is still in the column, unless the atom is in `raced`, and that an atom in both lists is. `AbandonStep` is the case of a death or a failed statement: what the item owed is credited, and to atoms of `cut` only. `PlacesAreKnown` (`Placed`) is what `TypeOK` says but for the amounts of attraction: ranks, and that what is
  embedded, in hand or to be linked exists; `Ranked` counts the atoms, since a creation's rank is how many there were.
  Three theorems are about the arithmetic of `Pheromone`. `RatioCompares` justifies an abstraction: a ratio kept as a percentage rounded up compares with a whole threshold as the ratio does.
  `NoneUndecided`: what contradicts at fifteen percent contradicts at ten, so two comparable results that share a metric are found to contradict or to replicate, and between the two thresholds both.
  `BoostsAreBounded`: a boost lies between zero and the cap, or is the unit.
* `ProjectsProofs`: `TypeCorrect`, `RunsAreGiven` (`GivenWhatWasThere`) and `EditsAreKept` (`EditsKept`). What a run has under a name is always among what
  was `shown` under it; an open editor contains what was `read`, unless its fetch failed.

The assumptions are the named `ASSUME`s of the modules: finitely many atoms, a symmetric
neighbourhood that excludes the atom itself, at most one shared metric per atom, thresholds with
`0 < ReplicatedAt <= CoreAt`, a positive window, null values outside the sets they stand beside; and of atoms about to be published, that their ids are new and each is
of one request, that none is its own parent, and that explicit edges name no atom of their own batch: an id is a hash over the content and the time at which the hub makes it, so no
caller can know it. TLC evaluates them in every run.

Induction is over rounds, hops and sets, never by a theorem that takes an operator: `Upward` gets it from the least of the intervals
`0..k` whose end lacks the property, in the well-founded order of strict subsets.

Every safety and action property that a run expects to hold has its theorem. Only model-checked is liveness (`EventuallyReady`, `PublishAnswered`, `Crystallises`,
`EventuallyReadable`, `EventuallyEnded`, `ShutdownEnds`, `StaleAnswered`), which needs fairness and `ENABLED` and so is out of the prover's reach.
Nor is it proved that an attraction stays a natural number when it decays (the rest of `Signals`' `TypeOK`): `DecayAttraction` divides by a
power of two, and none of the provers knows `^`. `BoostsAreKept` does not depend on it.

## 5. Not modelled, and the plan

Left out for good: the encoders (floating point; nearness and failure are inputs), argument
decoding and dispatch by name, the queries behind metrics and listings, the acceptance
rules (no caller), the web interface and the Python client. Of the command-line client: `login`, `queue`, `status`, `logs`, the installation of domain
packs, the bounty commands, and the reuse of process identifiers. Of the hub: `find_path` and the listings of contradictions, the condition registry,
the fields of `update_project`, the filters on a region of the event stream.

To come, in this order:

1. The rows that `publish_atoms` asserts, seen from the embedding worker, which finds them present and skips its own: `Board`'s edges as an
   environment of `EmbeddingQueue`.
2. `Board` with reviews: what a survey and a deduplication see of atoms that await one.
