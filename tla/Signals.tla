------------------------------ MODULE Signals -------------------------------
(***************************************************************************)
(* Attraction and what two background workers make of a domain's activity: *)
(* the decay worker erodes it, the bounty worker asks for more of it.      *)
(*                                                                         *)
(* The embedding worker writes attractions computed from the neighbours it *)
(* read; the decay worker writes attractions computed from the rows it     *)
(* read.  Neither locks, and both write absolute values.  The embedding    *)
(* worker takes atoms from a poll of the pending ones and ids from its     *)
(* channel, and looks at no status: an atom of both is processed twice.    *)
(* Bounties come of run_bounty_tick, which the worker and an owner's       *)
(* request both run, and of run_synthesis_bounty_tick.  They are atoms     *)
(* like any other, only that nobody sends their ids: they are embedded,    *)
(* count as activity and can be what makes a synthesis stale.              *)
(***************************************************************************)
EXTENDS Pheromone, FiniteSetsExt

CONSTANTS
    None,
    Atom,
    Early,      \* atoms published and embedded before the start
    Finding,
    Synthesis,
    Bounty,     \* bound: the bounties that may be published
    Domain,
    DomainOf,   \* [Atom -> Domain]
    Cause,      \* [Bounty -> Domain \cup Synthesis]
    Near,       \* pairs of atoms of one neighbourhood, both ways
    Metric,     \* [Atom -> Int \cup {None}]: the metric whose boost is written last
    HigherBetter,
    Cap,        \* attraction_cap
    Unit,       \* an attraction of 1.0
    HalfLife,   \* decay_half_life_atoms
    Threshold,  \* STALENESS_THRESHOLD
    Limit,      \* the LIMIT of the newer atoms read
    Links,      \* edges agents may assert
    Doomed,     \* atoms that may be retracted
    Owner,      \* requests of trigger-bounty-tick
    Worker,     \* the bounty worker
    Menus,      \* bound: sets of what may happen together in one behaviour
    MaxFaults   \* bound: failed statements and process deaths

Ticker == Owner \cup {Worker}

ASSUME SignalsAssumption ==
    /\ None \notin Atom /\ None \notin Int /\ Worker \notin Owner
    /\ IsFiniteSet(Atom) /\ Early \subseteq Atom \ Bounty
    /\ Finding \subseteq Atom /\ Synthesis \subseteq Atom /\ Bounty \subseteq Atom
    /\ DomainOf \in [Atom -> Domain] /\ Cause \in [Bounty -> Domain \cup Synthesis]
    /\ Metric \in [Atom -> Int \cup {None}]
    /\ Unit \in Nat \ {0} /\ HalfLife \in Nat \ {0} /\ Cap \in Nat
    /\ Threshold \in Nat /\ Limit \in Nat
    /\ Links \subseteq Atom \X Atom /\ Doomed \subseteq Atom
    /\ Menus \subseteq SUBSET ({"sweep", "link", "retract", "fail"} \cup Ticker \cup Bounty)
    /\ MaxFaults \in Nat

VARIABLES
    menu,       \* what agents do, who ticks, which bounties may be published
                \* and whether something fails, in this behaviour
    born,       \* [Atom -> Nat]: created_at, 0 before publication
    active,     \* [Atom -> Nat]: last_activity_at
    retracted,
    ready,      \* embedded atoms
    attraction, \* [Atom -> Nat]: ph_attraction
    linked,     \* asserted edges
    channel,    \* published ids on their way to the embedding worker
    batch,      \* what is left of its poll's result
    updates,    \* [atom, value, boost]: what the embedding worker has to write
    embedding,  \* its atom, None when idle
    erosion,    \* [atom, value, elapsed, seen]: what the decay worker has to
                \* write, and of how many atoms it knew
    tick,       \* [Ticker -> where it is in its tick]
    due,        \* history: what the attraction would be, had each atom been
                \* processed once, to its end, and each boost and each decay
                \* been applied to the value it found
    raced,      \* history: atoms both workers had in hand at once
    cut,        \* history: atoms of updates that were never written
    redone,     \* history: atoms written by a second processing
    again,      \* history: whether the atom being processed was ready before
    charged,    \* history: [Atom -> Nat]: `seen' of the last sweep written
    faults

timing  == <<menu, born, active, retracted, linked>>
source  == <<channel, batch>>
worker  == <<updates, embedding>>
passes  == <<again, cut, redone>>
history == <<due, raced, passes, charged>>
vars == <<timing, ready, attraction, source, worker, erosion, tick, history, faults>>

Idle == [at |-> "idle", todo |-> {}, links |-> {}]

Init ==
    /\ menu \in Menus
    /\ born = [a \in Atom |-> IF a \in Early THEN 1 ELSE 0]
    /\ active = born
    /\ retracted = {} /\ linked = {}
    /\ ready = Early
    /\ attraction = [a \in Atom |-> 0]
    /\ channel = {} /\ batch = {}
    /\ updates = {} /\ embedding = None
    /\ erosion = {}
    /\ tick = [p \in Ticker |-> Idle]
    /\ due = attraction /\ raced = {} /\ charged = attraction
    /\ again = FALSE /\ cut = {} /\ redone = {}
    /\ faults = 0

atoms == {a \in Atom : born[a] > 0}

Now == 1 + Cardinality(atoms)

Newly(a) ==
    /\ born[a] = 0
    /\ born' = [born EXCEPT ![a] = Now]
    /\ active' = [active EXCEPT ![a] = Now]
    /\ UNCHANGED <<menu, retracted, linked>>

\* The id is sent when the row is there; the senders are in no order.
Publish(a) ==
    /\ a \notin Bounty
    /\ Newly(a)
    /\ channel' = channel \cup {a}
    /\ UNCHANGED <<batch, ready, attraction, worker, erosion, tick, history, faults>>

\* A new edge resets the decay clock of both its ends.
Link(e) ==
    /\ "link" \in menu /\ e \in Links \ linked /\ {e[1], e[2]} \subseteq atoms
    /\ linked' = linked \cup {e}
    /\ active' = [a \in Atom |-> IF a \in {e[1], e[2]} THEN Now ELSE active[a]]
    /\ UNCHANGED <<menu, born, retracted, ready, attraction, source, worker, erosion, tick, history, faults>>

Retract(a) ==
    /\ "retract" \in menu /\ a \in (Doomed \cap atoms) \ retracted
    /\ retracted' = retracted \cup {a}
    /\ UNCHANGED <<menu, born, active, linked, ready, attraction, source, worker, erosion, tick, history, faults>>

(* The embedding worker *)

\* The interval ticks: the pending atoms are read once, for the loop below.
Poll ==
    /\ embedding = None /\ batch = {} /\ atoms \ ready # {}
    /\ batch' = atoms \ ready
    /\ UNCHANGED <<timing, ready, attraction, channel, worker, erosion, tick, history, faults>>

Oldest(a) == \A b \in batch : born[a] <= born[b]

\* The atom is encoded and marked ready, whether or not it was before.
Embed(a) ==
    /\ embedding = None /\ embedding' = a
    /\ ready' = ready \cup {a} /\ again' = (a \in ready)
    /\ UNCHANGED <<timing, attraction, updates, erosion, tick, due, raced, cut, redone, charged, faults>>

PollNext(a) ==
    /\ a \in batch /\ Oldest(a)
    /\ batch' = batch \ {a}
    /\ Embed(a) /\ UNCHANGED channel

Recv(a) ==
    /\ batch = {} /\ a \in channel
    /\ channel' = channel \ {a}
    /\ Embed(a) /\ UNCHANGED batch

Neighbours(a) == {b \in ready \ {a} : <<a, b>> \in Near /\ DomainOf[b] = DomainOf[a]}

Best(values) ==
    CHOOSE v \in values : \A w \in values : IF HigherBetter THEN w <= v ELSE v <= w

BoostOf(a, near) ==
    LET bests == {Metric[b] : b \in near} \ {None} IN
    IF Metric[a] = None THEN 0
    ELSE AttractionBoost(Metric[a], bests, IF bests = {} THEN 0 ELSE Best(bests), Cap, Unit)

Average(S) ==
    IF S = {} THEN 0 ELSE MapThenSumSet(LAMBDA b : attraction[b], S) \div Cardinality(S)

\* A finding raises its neighbours by its boost and starts at their average.
UpdatesFor(a) ==
    LET near  == Neighbours(a)
        boost == BoostOf(a, near)
    IN  IF a \notin Finding THEN {}
        ELSE {[atom |-> b, value |-> attraction[b] + boost, boost |-> boost] :
                 b \in IF boost > 0 THEN near ELSE {}}
             \cup {[atom |-> a, boost |-> None, value |-> Average(near)]}

Subjects(S) == {u.atom : u \in S}

\* The item ends with its last update.
EndWhenWritten ==
    /\ embedding' = IF updates' = {} THEN None ELSE embedding
    /\ again' = (again /\ updates' # {})

ReadNeighbours ==
    /\ embedding # None /\ updates = {}
    /\ updates' = UpdatesFor(embedding)
    /\ raced' = raced \cup (Subjects(updates') \cap Subjects(erosion))
    /\ EndWhenWritten
    /\ UNCHANGED <<timing, ready, attraction, source, erosion, tick, due, cut, redone, charged, faults>>

\* What an update makes of the value that is due.
Credited(u) == IF u.boost = None THEN u.value ELSE due[u.atom] + u.boost

\* One UPDATE, in the order of a HashMap; of a second processing it is too many.
WriteUpdate(u) ==
    /\ u \in updates
    /\ attraction' = [attraction EXCEPT ![u.atom] = u.value]
    /\ updates' = updates \ {u}
    /\ IF again
       THEN redone' = redone \cup {u.atom} /\ UNCHANGED due
       ELSE due' = [due EXCEPT ![u.atom] = Credited(u)] /\ UNCHANGED redone
    /\ EndWhenWritten
    /\ UNCHANGED <<timing, ready, source, erosion, tick, raced, cut, charged, faults>>

\* What the atom being processed still had to give.
Owed ==
    IF embedding = None \/ again THEN {}
    ELSE IF updates = {} THEN UpdatesFor(embedding) ELSE updates

\* The item is dropped, and with it what it owed: the poll never returns to
\* an atom that is ready.
Abandon ==
    /\ updates' = {} /\ embedding' = None
    /\ due' = [a \in Atom |->
         IF a \in Subjects(Owed) THEN Credited(CHOOSE u \in Owed : u.atom = a) ELSE due[a]]
    /\ cut' = cut \cup Subjects(Owed)
    /\ again' = FALSE
    /\ UNCHANGED <<raced, redone, charged>>

(* The decay worker *)

NewerThan(a) ==
    Cardinality({b \in atoms \ retracted : DomainOf[b] = DomainOf[a] /\ born[b] > active[a]})

Eroded(a) == DecayAttraction(attraction[a], NewerThan(a), HalfLife)

\* What a change must exceed is the floor, of one.
SweepRead ==
    /\ "sweep" \in menu /\ erosion = {}
    /\ erosion' = {[atom |-> a, value |-> Eroded(a), elapsed |-> NewerThan(a), seen |-> Cardinality(atoms)] :
                      a \in {a \in atoms : attraction[a] > 1 /\ attraction[a] - Eroded(a) > 1}}
    /\ erosion' # {}
    /\ raced' = raced \cup (Subjects(updates) \cap Subjects(erosion'))
    /\ UNCHANGED <<timing, ready, attraction, source, worker, tick, due, passes, charged, faults>>

\* One transaction.
Entry(a) == CHOOSE u \in erosion : u.atom = a

\* Mutant: the list of a sweep is kept and written again by the next.
SweepApplyKeeps ==
    /\ erosion # {}
    /\ attraction' = [a \in Atom |-> IF a \in Subjects(erosion) THEN Entry(a).value ELSE attraction[a]]
    /\ due' = [a \in Atom |->
         IF a \in Subjects(erosion) THEN DecayAttraction(due[a], Entry(a).elapsed, HalfLife) ELSE due[a]]
    /\ UNCHANGED <<erosion, timing, ready, source, worker, tick, raced, passes, charged, faults>>

SweepApply ==
    /\ erosion # {}
    /\ attraction' = [a \in Atom |-> IF a \in Subjects(erosion) THEN Entry(a).value ELSE attraction[a]]
    /\ due' = [a \in Atom |->
         IF a \in Subjects(erosion) THEN DecayAttraction(due[a], Entry(a).elapsed, HalfLife) ELSE due[a]]
    /\ charged' = [a \in Atom |-> IF a \in Subjects(erosion) THEN Entry(a).seen ELSE charged[a]]
    /\ erosion' = {}
    /\ UNCHANGED <<timing, ready, source, worker, tick, raced, passes, faults>>

(* The bounty ticks *)

Move(p, at, todo, links) ==
    tick' = [tick EXCEPT ![p] = [at |-> at, todo |-> todo, links |-> links]]

\* The domains of high novelty; which those are is left open.
StartTick(p) ==
    /\ tick[p].at = "idle" /\ p \in menu
    /\ \E high \in SUBSET {DomainOf[a] : a \in atoms \ retracted} :
        Move(p, "explore", high, {})
    /\ UNCHANGED <<timing, ready, attraction, source, worker, erosion, history, faults>>

Ahead(p, x) == tick[p].todo \ {x}

Fresh(cause) == {b \in Bounty \cap menu : born[b] = 0 /\ Cause[b] = cause}

\* A sparse region is found or not; its nearest atom is the nearest of all
\* domains.  Past the bound on bounties none is found.
Explore(p, d) ==
    /\ tick[p].at = "explore" /\ d \in tick[p].todo /\ tick[p].links = {}
    /\ \/ /\ Move(p, "explore", Ahead(p, d), {})
          /\ UNCHANGED timing
       \/ \E nearest \in ready \ retracted, b \in Fresh(d) :
            /\ Newly(b)
            /\ Move(p, "explore", Ahead(p, d), {nearest})
    /\ UNCHANGED <<ready, attraction, source, worker, erosion, history, faults>>

\* Only the worker looks for stale syntheses too.
EndExplore(p) ==
    /\ tick[p].at = "explore" /\ tick[p].todo = {} /\ tick[p].links = {}
    /\ IF p = Worker THEN Move(p, "synthesis", (Synthesis \cap ready) \ retracted, {})
       ELSE Move(p, "idle", {}, {})
    /\ UNCHANGED <<timing, ready, attraction, source, worker, erosion, history, faults>>

NewerNear(s) ==
    {b \in ready \ retracted : born[b] > born[s] /\ <<s, b>> \in Near}

\* Mutant: the LIMIT is the threshold.
ReadToThreshold(s) ==
    {S \in SUBSET NewerNear(s) : Cardinality(S) = Least(Cardinality(NewerNear(s)), Threshold)}

\* As many as the LIMIT, in no order.
ReadNewer(s) ==
    {S \in SUBSET NewerNear(s) : Cardinality(S) = Least(Cardinality(NewerNear(s)), Limit)}

Examine(p, s) ==
    /\ tick[p].at = "synthesis" /\ s \in tick[p].todo /\ tick[p].links = {}
    /\ \E newer \in ReadNewer(s) :
        IF Cardinality(newer) <= Threshold \/ Fresh(s) = {}
        THEN Move(p, "synthesis", Ahead(p, s), {}) /\ UNCHANGED timing
        ELSE \E b \in Fresh(s) :
                /\ Newly(b)
                /\ Move(p, "synthesis", Ahead(p, s), newer)
    /\ UNCHANGED <<ready, attraction, source, worker, erosion, history, faults>>

\* An inspired_by row, which nothing here reads.
LinkBounty(p, x) ==
    /\ x \in tick[p].links
    /\ Move(p, tick[p].at, tick[p].todo, tick[p].links \ {x})
    /\ UNCHANGED <<timing, ready, attraction, source, worker, erosion, history, faults>>

EndTick(p) ==
    /\ tick[p].at = "synthesis" /\ tick[p].todo = {} /\ tick[p].links = {}
    /\ Move(p, "idle", {}, {})
    /\ UNCHANGED <<timing, ready, attraction, source, worker, erosion, history, faults>>

(* Failures: an encoding that fails leaves its atom pending, an update that  *)
(* fails ends the item, a sweep's transaction ends the sweep, a read ends    *)
(* the exploration or the synthesis tick it is of, a publication or an edge  *)
(* is passed over.                                                           *)

EncodingFails(a) ==
    /\ embedding = None
    /\ \/ a \in batch /\ Oldest(a) /\ batch' = batch \ {a} /\ UNCHANGED channel
       \/ batch = {} /\ a \in channel /\ channel' = channel \ {a} /\ UNCHANGED batch

TickFails(p) ==
    \/ tick[p].at = "explore" /\ tick[p].links = {} /\ tick[p].todo # {} /\ Move(p, "explore", {}, {})
    \/ /\ tick[p].links = {} /\ Move(p, "idle", {}, {})
       /\ tick[p].at = "synthesis" \/ (tick[p].at = "explore" /\ tick[p].todo = {})
    \/ tick[p].links = {} /\ \E x \in tick[p].todo : Move(p, tick[p].at, Ahead(p, x), {})
    \/ \E x \in tick[p].links : Move(p, tick[p].at, tick[p].todo, tick[p].links \ {x})

Fail ==
    /\ "fail" \in menu /\ faults < MaxFaults /\ faults' = faults + 1
    /\ \/ \E a \in Atom : EncodingFails(a) /\ UNCHANGED <<worker, erosion, tick, history>>
       \/ embedding # None /\ Abandon /\ UNCHANGED <<source, erosion, tick>>
       \/ erosion # {} /\ erosion' = {} /\ UNCHANGED <<source, worker, tick, history>>
       \/ \E p \in Ticker : TickFails(p) /\ UNCHANGED <<source, worker, erosion, history>>
    /\ UNCHANGED <<timing, ready, attraction>>

Crash ==
    /\ "fail" \in menu /\ faults < MaxFaults /\ faults' = faults + 1
    /\ Abandon
    /\ channel' = {} /\ batch' = {} /\ erosion' = {}
    /\ tick' = [p \in Ticker |-> Idle]
    /\ UNCHANGED <<timing, ready, attraction>>

EmbeddingStep ==
    \/ Poll \/ \E a \in Atom : PollNext(a) \/ Recv(a)
    \/ ReadNeighbours
    \/ \E u \in updates : WriteUpdate(u)

TickStep(p) ==
    \/ StartTick(p) \/ EndExplore(p) \/ EndTick(p)
    \/ \E d \in Domain : Explore(p, d)
    \/ \E s \in Synthesis : Examine(p, s)
    \/ \E x \in Atom : LinkBounty(p, x)

Next ==
    \/ \E a \in Atom : Publish(a) \/ Retract(a)
    \/ \E e \in Links : Link(e)
    \/ EmbeddingStep
    \/ SweepRead \/ SweepApply
    \/ \E p \in Ticker : TickStep(p)
    \/ Fail \/ Crash

\* The bounty worker's timer fires again and again, and its loop goes on; no
\* agent has to publish and no owner to ask, and nothing is asked of the others.
Fairness == WF_vars(TickStep(Worker))

Spec == Init /\ [][Next]_vars /\ Fairness
-----------------------------------------------------------------------------
(* What the workers owe each other and the domain.                          *)

\* Of the columns other than attraction, and of the workers.
Placed ==
    /\ born \in [Atom -> 0..Cardinality(Atom)] /\ active \in [Atom -> Nat]
    /\ \A a \in atoms : active[a] >= born[a]
    /\ retracted \subseteq atoms /\ ready \subseteq atoms
    /\ channel \subseteq atoms /\ batch \subseteq atoms
    /\ embedding \in ready \cup {None}
    /\ updates # {} => embedding # None
    /\ \A p \in Ticker : tick[p].links \subseteq atoms
    /\ faults \in 0..MaxFaults

TypeOK == Placed /\ attraction \in [Atom -> Nat] /\ due \in [Atom -> Nat]

\* Both workers write attractions computed from an earlier read.  An atom's is
\* what one whole processing of each atom and the sweeps make of it, but for
\* the three things that the code leaves open: both had the atom in hand at
\* once (the later write takes the other back); an item was cut short after
\* 'ready', so that what it had to give is lost; an atom that the poll had
\* taken came from the channel too, raised its neighbours again and went back
\* to their average.  Bounties, links, retractions and other failures cost none.
BoostsKept == \A a \in Atom \ (raced \cup cut \cup redone) : attraction[a] = due[a]

\* "ph_attraction halves every decay_half_life_atoms atoms published in the
\* same domain" (docs/src/concepts.md): a sweep takes something of an atom
\* only for news, published since the last sweep that did.  The code does not
\* keep this: a sweep leaves last_activity_at as it was, and the next charges
\* the same newer atoms again.
ChargedForNews == \A e \in erosion : e.seen > charged[e.atom]

\* A synthesis that stays stale, with more newer atoms about it than the
\* threshold, is answered by a bounty, whatever single statement fails: the
\* LIMIT of the read leaves room for more atoms than the threshold.
StaleAnswered ==
    \A s \in Synthesis : \A b \in Bounty : Cause[b] = s /\ {b, Worker} \subseteq menu =>
        (<>[](s \in ready \ retracted /\ Cardinality(NewerNear(s)) > Threshold)
            => <>(\E c \in Bounty : Cause[c] = s /\ born[c] > 0))
=============================================================================
