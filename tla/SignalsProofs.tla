--------------------------- MODULE SignalsProofs ----------------------------
(***************************************************************************)
(* Proofs about Signals: what becomes of a boost or a decay that two       *)
(* workers write without a lock, for any atoms, geometry and metrics, and  *)
(* whatever boosts and decays amount to; what their arithmetic yields; and *)
(* that nobody writes about an atom that does not exist.                   *)
(***************************************************************************)
EXTENDS Signals, FiniteSetTheorems, TLAPS

\* An update adds its boost to what the atom has, unless it starts the atom;
\* there is one for an atom, and it names an atom.
UpdatesFit ==
    /\ \A u \in updates : u.atom \in Atom
    /\ \A u, v \in updates : u.atom = v.atom => u = v
    /\ \A u \in updates : u.atom \in raced \/ u.boost = None
                          \/ u.value = attraction[u.atom] + u.boost

\* An erosion is what the atom has, decayed; there is one for an atom.
ErosionFits ==
    /\ \A e \in erosion : e.atom \in Atom
    /\ \A e, f \in erosion : e.atom = f.atom => e = f
    /\ \A e \in erosion : e.atom \in raced
                          \/ e.value = DecayAttraction(attraction[e.atom], e.elapsed, HalfLife)

\* What both workers have in hand is known to have raced.
Apart == \A u \in updates, e \in erosion : u.atom = e.atom => u.atom \in raced

Columns == DOMAIN attraction = Atom /\ DOMAIN due = Atom
           /\ attraction = [a \in Atom |-> attraction[a]] /\ due = [a \in Atom |-> due[a]]

Known == ready \subseteq Atom /\ embedding \in Atom \cup {None}

SignalsInv == Columns /\ UpdatesFit /\ ErosionFits /\ Apart /\ BoostsKept

\* A neighbourhood has one update for each atom.
LEMMA UpdatesForFit ==
    ASSUME ready \subseteq Atom, NEW a \in Atom
    PROVE  /\ \A u \in UpdatesFor(a) : u.atom \in Atom
           /\ \A u, v \in UpdatesFor(a) : u.atom = v.atom => u = v
           /\ \A u \in UpdatesFor(a) : u.boost = None \/ u.value = attraction[u.atom] + u.boost
<1> DEFINE near == Neighbours(a)
           boost == BoostOf(a, near)
           average == Average(near)
           raised == IF boost > 0 THEN near ELSE {}
<1>1. near \subseteq Atom \ {a}
    BY DEF Neighbours
<1> HIDE DEF near, boost, average
<1>2. UpdatesFor(a) = IF a \notin Finding THEN {}
        ELSE {[atom |-> b, value |-> attraction[b] + boost, boost |-> boost] : b \in raised}
             \cup {[atom |-> a, boost |-> None, value |-> average]}
    BY DEF UpdatesFor, near, boost, average
<1>3. \A u \in UpdatesFor(a) :
        \/ u = [atom |-> a, boost |-> None, value |-> average]
        \/ \E b \in raised : u = [atom |-> b, value |-> attraction[b] + boost, boost |-> boost]
    BY <1>2
<1>4. raised \subseteq Atom \ {a}
    BY <1>1
<1> HIDE DEF raised
<1>5. \A u \in UpdatesFor(a) :
        \/ u.atom = a /\ u = [atom |-> a, boost |-> None, value |-> average]
        \/ /\ u.atom \in raised
           /\ u = [atom |-> u.atom, value |-> attraction[u.atom] + boost, boost |-> boost]
    BY <1>3
<1>6. \A u \in UpdatesFor(a) : u.boost = None \/ u.value = attraction[u.atom] + u.boost
    BY <1>5
<1> QED
    BY <1>4, <1>5, <1>6

\* What the embedding worker has to write when it has read its neighbours.
LEMMA ReadNeighboursStep == Known /\ SignalsInv /\ ReadNeighbours => SignalsInv'
<1> SUFFICES ASSUME Known, SignalsInv, ReadNeighbours PROVE SignalsInv'
    OBVIOUS
<1>1. UNCHANGED <<attraction, due, erosion>> /\ raced \subseteq raced'
    BY DEF ReadNeighbours
<1>2. updates' = UpdatesFor(embedding) /\ embedding \in Atom
    BY DEF ReadNeighbours, Known
<1>3. Columns' /\ BoostsKept' /\ ErosionFits'
    BY <1>1 DEF ReadNeighbours, SignalsInv, Columns, BoostsKept, ErosionFits
<1>4. Apart'
    BY <1>1 DEF ReadNeighbours, Apart, Subjects
<1>5. UpdatesFit'
    BY <1>1, <1>2, UpdatesForFit DEF UpdatesFit, Known
<1> QED
    BY <1>3, <1>4, <1>5 DEF SignalsInv

\* An update is written: nothing else in hand is for its atom, unless it raced.
LEMMA WriteUpdateStep ==
    ASSUME SignalsInv, NEW u \in updates, WriteUpdate(u) PROVE SignalsInv'
<1>1. UNCHANGED <<erosion, raced, cut>> /\ updates' = updates \ {u} /\ u.atom \in Atom
    BY DEF WriteUpdate, SignalsInv, UpdatesFit
<1>2. \A a \in Atom : a # u.atom => attraction'[a] = attraction[a] /\ due'[a] = due[a]
    BY DEF WriteUpdate, SignalsInv, Columns
<1>3. /\ attraction'[u.atom] = u.value /\ redone \subseteq redone'
      /\ u.atom \in redone' \/ due'[u.atom] = IF u.boost = None THEN u.value ELSE due[u.atom] + u.boost
    BY <1>1 DEF WriteUpdate, Credited, SignalsInv, Columns
<1>4. Columns'
    BY DEF WriteUpdate, SignalsInv, Columns
<1>5. BoostsKept'
    <2> SUFFICES ASSUME NEW a \in Atom, a \notin raced \cup cut \cup redone' PROVE attraction'[a] = due'[a]
        BY <1>1 DEF BoostsKept
    <2>1. attraction[a] = due[a]
        BY <1>3 DEF SignalsInv, BoostsKept
    <2>2. a = u.atom => u.boost = None \/ u.value = attraction[a] + u.boost
        BY DEF SignalsInv, UpdatesFit
    <2> QED
        BY <1>2, <1>3, <2>1, <2>2
<1>6. UpdatesFit'
    BY <1>1, <1>2 DEF SignalsInv, UpdatesFit
<1>7. ErosionFits' /\ Apart'
    BY <1>1, <1>2 DEF SignalsInv, ErosionFits, Apart
<1> QED
    BY <1>4, <1>5, <1>6, <1>7 DEF SignalsInv

\* An item is dropped: what it owed is owed to atoms that were cut.
LEMMA AbandonStep ==
    ASSUME SignalsInv, Abandon, UNCHANGED attraction, erosion' \subseteq erosion
    PROVE  SignalsInv'
<1>1. updates' = {} /\ UNCHANGED <<raced, redone>> /\ cut' = cut \cup Subjects(Owed)
    BY DEF Abandon
<1>2. \A a \in Atom : a \notin cut' => due'[a] = due[a]
    BY <1>1 DEF Abandon
<1>3. Columns'
    BY DEF Abandon, SignalsInv, Columns
<1>4. BoostsKept'
    BY <1>1, <1>2 DEF SignalsInv, BoostsKept
<1>5. UpdatesFit' /\ ErosionFits' /\ Apart'
    BY <1>1 DEF SignalsInv, UpdatesFit, ErosionFits, Apart
<1> QED
    BY <1>3, <1>4, <1>5 DEF SignalsInv

\* What a sweep has to write when it has read the rows.
LEMMA SweepReadStep == SignalsInv /\ SweepRead => SignalsInv'
<1> SUFFICES ASSUME SignalsInv, SweepRead PROVE SignalsInv'
    OBVIOUS
<1>1. UNCHANGED <<attraction, due, updates, cut, redone>> /\ raced \subseteq raced'
    BY DEF SweepRead, worker, passes
<1>2. \A e \in erosion' :
        /\ e.atom \in Atom
        /\ e = [atom |-> e.atom, value |-> Eroded(e.atom), elapsed |-> NewerThan(e.atom), seen |-> Cardinality(atoms)]
    BY DEF SweepRead, atoms
<1>3. \A e \in erosion' : e.value = DecayAttraction(attraction[e.atom], e.elapsed, HalfLife)
    BY <1>2 DEF Eroded
<1>4. ErosionFits'
    BY <1>1, <1>2, <1>3 DEF ErosionFits
<1>5. Apart'
    BY <1>1 DEF SweepRead, Apart, Subjects
<1>6. Columns' /\ BoostsKept' /\ UpdatesFit'
    BY <1>1 DEF SignalsInv, Columns, BoostsKept, UpdatesFit
<1> QED
    BY <1>4, <1>5, <1>6 DEF SignalsInv

\* A sweep is written.
LEMMA SweepApplyStep == SignalsInv /\ SweepApply => SignalsInv'
<1> SUFFICES ASSUME SignalsInv, SweepApply PROVE SignalsInv'
    OBVIOUS
<1>1. UNCHANGED <<updates, raced, cut, redone>> /\ erosion' = {}
    BY DEF SweepApply, worker, passes
<1>2. \A a \in Atom : a \notin Subjects(erosion) => attraction'[a] = attraction[a] /\ due'[a] = due[a]
    BY DEF SweepApply
<1>3. ASSUME NEW a \in Atom, a \in Subjects(erosion), a \notin raced \cup cut \cup redone
      PROVE  attraction'[a] = due'[a]
    <2>1. Entry(a) \in erosion /\ Entry(a).atom = a
        BY <1>3 DEF Entry, Subjects
    <2>2. Entry(a).value = DecayAttraction(attraction[a], Entry(a).elapsed, HalfLife)
        BY <1>3, <2>1 DEF SignalsInv, ErosionFits
    <2> QED
        BY <1>3, <2>2 DEF SweepApply, SignalsInv, BoostsKept
<1>4. Columns'
    BY DEF SweepApply, Columns
<1>5. BoostsKept'
    BY <1>1, <1>2, <1>3 DEF SignalsInv, BoostsKept
<1>6. UpdatesFit'
    BY <1>1, <1>2 DEF SignalsInv, UpdatesFit, Apart, Subjects
<1>7. ErosionFits' /\ Apart'
    BY <1>1 DEF ErosionFits, Apart
<1> QED
    BY <1>4, <1>5, <1>6, <1>7 DEF SignalsInv

\* Steps that write no attraction, and at most drop what is in hand.
LEMMA OtherStep ==
    ASSUME SignalsInv, UNCHANGED <<attraction, due, raced, cut, redone>>,
           updates' \subseteq updates, erosion' \subseteq erosion
    PROVE  SignalsInv'
BY DEF SignalsInv, Columns, UpdatesFit, ErosionFits, Apart, BoostsKept

LEMMA KnownStep == Known /\ [Next]_vars => Known'
<1> SUFFICES ASSUME Known, [Next]_vars PROVE Known'
    OBVIOUS
<1>1. ASSUME NEW a \in Atom, Embed(a) PROVE Known'
    BY <1>1 DEF Embed, Known, atoms
<1>2. \/ ready' = ready /\ embedding' \in {embedding, None}
      \/ \E a \in Atom : Embed(a)
    BY DEF Next, EmbeddingStep, TickStep, Publish, Retract, Link, Poll, PollNext, Recv,
           ReadNeighbours, WriteUpdate, EndWhenWritten, SweepRead, SweepApply, StartTick, EndExplore,
           EndTick, Explore, Examine, LinkBounty, Fail, Crash, Abandon, vars, worker
<1> QED
    BY <1>1, <1>2 DEF Known

LEMMA SignalsStep == Known /\ SignalsInv /\ [Next]_vars => SignalsInv'
<1> SUFFICES ASSUME Known, SignalsInv, [Next]_vars PROVE SignalsInv'
    OBVIOUS
<1>1. CASE ReadNeighbours \/ SweepRead \/ SweepApply \/ \E u \in updates : WriteUpdate(u)
    BY <1>1, ReadNeighboursStep, WriteUpdateStep, SweepReadStep, SweepApplyStep
<1>2. CASE UNCHANGED <<attraction, due, raced, cut, redone>>
           /\ updates' \subseteq updates /\ erosion' \subseteq erosion
    BY <1>2, OtherStep
<1>3. ASSUME NEW p \in Ticker, TickStep(p)
      PROVE  UNCHANGED <<attraction, due, raced, cut, redone, updates, erosion>>
    BY <1>3 DEF TickStep, StartTick, EndExplore, EndTick, Explore, Examine, LinkBounty,
                worker, history, passes
<1>4. ASSUME NEW a \in Atom, Publish(a) \/ Retract(a) \/ PollNext(a) \/ Recv(a)
      PROVE  UNCHANGED <<attraction, due, raced, cut, redone, updates, erosion>>
    BY <1>4 DEF Publish, Retract, PollNext, Recv, Embed, worker, history, passes
<1>5. ASSUME Poll \/ \E e \in Links : Link(e)
      PROVE  UNCHANGED <<attraction, due, raced, cut, redone, updates, erosion>>
    BY <1>5 DEF Poll, Link, worker, history, passes
<1>6. CASE Fail
    <2>1. CASE Abandon /\ UNCHANGED erosion
        BY <1>6, <2>1, AbandonStep DEF Fail
    <2>2. CASE UNCHANGED <<worker, history>> /\ erosion' \subseteq erosion
        BY <1>2, <1>6, <2>2 DEF Fail, worker, history, passes
    <2> QED
        BY <1>6, <2>1, <2>2 DEF Fail
<1>7. CASE Crash
    BY <1>7, AbandonStep DEF Crash
<1>8. CASE UNCHANGED vars
    BY <1>2, <1>8 DEF vars, worker, history, passes
<1> QED
    BY <1>1, <1>2, <1>3, <1>4, <1>5, <1>6, <1>7, <1>8 DEF Next, EmbeddingStep

\* An atom's attraction is what one whole processing of each atom and the
\* sweeps make of it, unless both workers had it in hand at once, an item with
\* an update for it was cut short, or a second processing wrote it: no other
\* failure or death, and no bounty, link, retraction or further sweep, changes it.
THEOREM BoostsAreKept == Spec => []BoostsKept
<1>1. Init => SignalsInv
    BY DEF Init, SignalsInv, Columns, UpdatesFit, ErosionFits, Apart, BoostsKept
<1>2. SignalsInv => BoostsKept
    BY DEF SignalsInv
<1>3. Init => Known
    BY SignalsAssumption DEF Init, Known
<1> QED
    BY <1>1, <1>2, <1>3, KnownStep, SignalsStep, PTL DEF Spec
---------------------------------------------------------------------------
(* Arithmetic.                                                              *)

\* What integer division leaves.
LEMMA Division ==
    ASSUME NEW a \in Nat, NEW b \in Nat \ {0}
    PROVE  a \div b \in Nat /\ b * (a \div b) <= a /\ a < b * (a \div b) + b
OBVIOUS

LEMMA Monotone ==
    ASSUME NEW a \in Nat, NEW b \in Nat, NEW k \in Nat, a <= b PROVE k * a <= k * b
OBVIOUS

(* A disagreement is kept as a percentage rounded up, capped at a hundred.  *)
(* Compared with a whole percentage, as the lifecycle does, it says what    *)
(* the capped ratio itself says, for all counts of edges (disagreement of   *)
(* pheromone.rs).                                                           *)
THEOREM RatioCompares ==
    ASSUME NEW c \in Nat, NEW t \in Nat \ {0}, NEW p \in 0..Hundred
    PROVE  Disagreement(c, t) > p <=> p < Hundred /\ Hundred * c > p * t
<1> DEFINE n == Hundred * c + t - 1
           q == n \div t
<1>1. n \in Nat /\ Hundred * c \in Nat /\ n = Hundred * c + t - 1
    BY DEF Hundred
<1>2. Disagreement(c, t) = Least(Hundred, q)
    BY DEF Disagreement
<1> HIDE DEF n
<1>3. q \in Nat /\ t * q <= n /\ n < t * q + t
    BY <1>1, Division
<1> HIDE DEF q
<1>4. Least(Hundred, q) > p <=> p < Hundred /\ q > p
    BY <1>3 DEF Least, Hundred
<1>5. p \in Nat /\ t * p = p * t /\ t * p \in Nat /\ t * q \in Nat
    BY <1>3 DEF Hundred
<1>6. ASSUME q > p PROVE Hundred * c > p * t
    <2>1. t * (p + 1) <= t * q
        BY <1>3, <1>5, <1>6, Monotone
    <2>2. t * (p + 1) = t * p + t
        BY <1>5
    <2> QED
        BY <1>1, <1>3, <1>5, <2>1, <2>2
<1>7. ASSUME ~(q > p) PROVE ~(Hundred * c > p * t)
    <2>1. t * q <= t * p
        BY <1>3, <1>5, <1>7, Monotone
    <2> QED
        BY <1>1, <1>3, <1>5, <2>1
<1> QED
    BY <1>2, <1>4, <1>6, <1>7

(* What contradicts at a threshold contradicts at any lower one: two values *)
(* of a metric are found to contradict (at ten percent), to replicate (at   *)
(* fifteen) or both, and never neither (metrics_contradict of pheromone.rs, *)
(* with the thresholds of embedding_queue.rs).                              *)
THEOREM NoneUndecided ==
    ASSUME NEW a \in Nat, NEW b \in Nat, NEW higher \in BOOLEAN
    PROVE  /\ \A p \in Nat, q \in Nat : p <= q /\ MetricsContradict(a, b, higher, q)
                => MetricsContradict(a, b, higher, p)
           /\ MetricsContradict(a, b, higher, 10) \/ ~MetricsContradict(a, b, higher, 15)
<1>1. ASSUME NEW p \in Nat, NEW q \in Nat, p <= q, MetricsContradict(a, b, higher, q)
      PROVE  MetricsContradict(a, b, higher, p)
    <2>1. a * p <= a * q /\ a * p \in Nat /\ a * q \in Nat /\ p * a = a * p /\ q * a = a * q
        BY <1>1, Monotone
    <2>2. /\ a * (Hundred - q) = a * Hundred - a * q /\ a * (Hundred - p) = a * Hundred - a * p
          /\ a * (Hundred + q) = a * Hundred + a * q /\ a * (Hundred + p) = a * Hundred + a * p
          /\ a * Hundred \in Nat /\ Hundred * b \in Nat
        BY DEF Hundred
    <2>3. AbsDiff(a, b) \in Nat /\ Hundred * AbsDiff(a, b) \in Nat
        BY DEF AbsDiff, Hundred
    <2>4. a # 0 /\ Hundred * AbsDiff(a, b) >= p * a
        BY <1>1, <2>1, <2>3 DEF MetricsContradict
    <2>5. CASE higher
        <3>1. Hundred * b < a * (Hundred - q)
            BY <1>1, <2>5 DEF MetricsContradict
        <3>2. Hundred * b < a * (Hundred - p)
            BY <2>1, <2>2, <3>1
        <3> QED
            BY <2>4, <2>5, <3>2 DEF MetricsContradict
    <2>6. CASE ~higher
        <3>1. Hundred * b > a * (Hundred + q)
            BY <1>1, <2>6 DEF MetricsContradict
        <3>2. Hundred * b > a * (Hundred + p)
            BY <2>1, <2>2, <3>1
        <3> QED
            BY <2>4, <2>6, <3>2 DEF MetricsContradict
    <2> QED
        BY <2>5, <2>6
<1> QED
    BY <1>1

(* A boost is at most the cap, or the unit where a metric has nothing to be *)
(* compared with; and a metric that does not pass the best raises nothing   *)
(* (attraction_boost of pheromone.rs).                                      *)
THEOREM BoostsAreBounded ==
    ASSUME NEW new \in Int, NEW bests, NEW best \in Int, NEW cap \in Nat, NEW unit \in Nat
    PROVE  /\ AttractionBoost(new, bests, best, cap, unit) \in Nat
           /\ AttractionBoost(new, bests, best, cap, unit) <= unit
              \/ AttractionBoost(new, bests, best, cap, unit) <= cap
           /\ bests # {} /\ best > 0 /\ new <= best =>
                AttractionBoost(new, bests, best, cap, unit) = 0
           /\ bests # {} /\ best < 0 /\ best <= new =>
                AttractionBoost(new, bests, best, cap, unit) = 0
<1>1. CASE bests = {} \/ best = 0
    BY <1>1 DEF AttractionBoost
<1>2. CASE bests # {} /\ best # 0
    <2> DEFINE gain == IF best < 0 THEN best - new ELSE new - best
               share == (unit * gain) \div AbsDiff(best, 0)
    <2>1. AttractionBoost(new, bests, best, cap, unit) = IF gain <= 0 THEN 0 ELSE Least(share, cap)
        BY <1>2 DEF AttractionBoost
    <2>2. gain \in Int /\ (best > 0 /\ new <= best => gain <= 0)
          /\ (best < 0 /\ best <= new => gain <= 0)
        BY <1>2
    <2>3. AbsDiff(best, 0) \in Nat \ {0}
        BY <1>2 DEF AbsDiff
    <2> HIDE DEF gain
    <2>4. gain > 0 => unit * gain \in Nat
        BY <2>2
    <2>5. gain > 0 => share \in Nat
        BY <2>3, <2>4, Division
    <2> HIDE DEF share
    <2> QED
        BY <1>2, <2>1, <2>2, <2>5 DEF Least
<1> QED
    BY <1>1, <1>2

---------------------------------------------------------------------------
(* Places: what is written is about atoms that exist, embedded first.       *)

\* A rank is that of one of the atoms.
Ranked ==
    /\ born \in [Atom -> Nat] /\ active \in [Atom -> Nat]
    /\ \A a \in Atom : born[a] <= Cardinality(atoms)
    /\ \A a \in atoms : active[a] >= born[a]

Standing ==
    /\ retracted \subseteq atoms /\ ready \subseteq atoms
    /\ channel \subseteq atoms /\ batch \subseteq atoms
    /\ embedding \in ready \cup {None}
    /\ updates # {} => embedding # None
    /\ DOMAIN tick = Ticker /\ \A p \in Ticker : tick[p].links \subseteq atoms
    /\ faults \in 0..MaxFaults

LEMMA Counts == IsFiniteSet(atoms) /\ Cardinality(atoms) \in 0..Cardinality(Atom)
<1>1. atoms \subseteq Atom /\ IsFiniteSet(Atom)
    BY SignalsAssumption DEF atoms
<1> QED
    BY <1>1, FS_Subset, FS_CardinalityType

LEMMA NewlyStep ==
    ASSUME Ranked, NEW a \in Atom, Newly(a)
    PROVE  Ranked' /\ atoms' = atoms \cup {a}
<1>1. Now \in Nat \ {0} /\ Now = 1 + Cardinality(atoms)
    BY Counts DEF Now
<1>2. /\ born' \in [Atom -> Nat] /\ active' \in [Atom -> Nat]
      /\ born'[a] = Now /\ active'[a] = Now
      /\ \A b \in Atom \ {a} : born'[b] = born[b] /\ active'[b] = active[b]
    BY <1>1 DEF Newly, Ranked
<1>3. atoms' = atoms \cup {a} /\ a \notin atoms
    BY <1>1, <1>2 DEF Newly, atoms
<1>4. Cardinality(atoms') = Cardinality(atoms) + 1
    BY <1>3, Counts, FS_AddElement
<1>5. \A b \in Atom : born'[b] <= Cardinality(atoms')
    BY <1>1, <1>2, <1>4, Counts DEF Ranked
<1>6. \A b \in atoms' : active'[b] >= born'[b]
    <2>1. active'[a] >= born'[a]
        BY <1>1, <1>2
    <2>2. ASSUME NEW b \in atoms' \ {a} PROVE active'[b] >= born'[b]
        <3>1. b \in atoms /\ b \in Atom \ {a}
            BY <1>3, <2>2 DEF atoms
        <3> QED
            BY <1>2, <3>1 DEF Ranked
    <2> QED
        BY <2>1, <2>2
<1>7. Ranked'
    BY <1>2, <1>5, <1>6 DEF Ranked
<1> QED
    BY <1>3, <1>7

LEMMA RankedStep == Ranked /\ [Next]_vars => Ranked' /\ atoms \subseteq atoms'
<1> SUFFICES ASSUME Ranked, [Next]_vars PROVE Ranked' /\ atoms \subseteq atoms'
    OBVIOUS
<1>1. ASSUME NEW a \in Atom, Newly(a) PROVE Ranked' /\ atoms \subseteq atoms'
    BY <1>1, NewlyStep
<1>2. ASSUME NEW e \in Links, Link(e) PROVE Ranked' /\ atoms \subseteq atoms'
    <2>1. Now \in Nat /\ Now = 1 + Cardinality(atoms)
        BY Counts DEF Now
    <2>2. atoms' = atoms /\ UNCHANGED born /\ active' \in [Atom -> Nat]
        BY <1>2, <2>1 DEF Link, atoms, Ranked
    <2>3. \A a \in Atom : active'[a] = Now \/ active'[a] = active[a]
        BY <1>2 DEF Link
    <2>4. \A a \in Atom : born[a] \in Nat /\ born[a] <= Now
        BY <2>1, Counts DEF Ranked
    <2>5. \A a \in atoms : a \in Atom
        BY DEF atoms
    <2> QED
        BY <2>1, <2>2, <2>3, <2>4, <2>5 DEF Ranked
<1>3. CASE UNCHANGED <<born, active>>
    BY <1>3 DEF Ranked, atoms
<1>4. ASSUME NEW p \in Ticker, TickStep(p)
      PROVE  UNCHANGED <<born, active>> \/ \E b \in Atom : Newly(b)
    BY <1>4, SignalsAssumption DEF TickStep, StartTick, EndExplore, EndTick, Explore, Examine, Fresh, LinkBounty, timing
<1>5. ASSUME NEW a \in Atom, Publish(a) \/ Retract(a) \/ PollNext(a) \/ Recv(a)
      PROVE  UNCHANGED <<born, active>> \/ Newly(a)
    BY <1>5 DEF Publish, Retract, PollNext, Recv, Embed, timing
<1>6. ASSUME \/ Poll \/ ReadNeighbours \/ SweepRead \/ SweepApply \/ Fail \/ Crash \/ UNCHANGED vars
             \/ \E u \in updates : WriteUpdate(u)
      PROVE  UNCHANGED <<born, active>>
    BY <1>6 DEF Poll, ReadNeighbours, SweepRead, SweepApply, Fail, Crash, WriteUpdate, vars, timing
<1> QED
    BY <1>1, <1>2, <1>3, <1>4, <1>5, <1>6 DEF Next, EmbeddingStep

\* A tick goes to another place with other atoms to link.
LEMMA Moved ==
    ASSUME Standing, NEW p \in Ticker, NEW there, NEW todo, NEW links, Move(p, there, todo, links),
           links \subseteq atoms', atoms \subseteq atoms'
    PROVE  DOMAIN tick' = Ticker /\ \A q \in Ticker : tick'[q].links \subseteq atoms'
<1>1. DOMAIN tick' = Ticker /\ tick'[p] = [at |-> there, todo |-> todo, links |-> links]
      /\ \A q \in Ticker \ {p} : tick'[q] = tick[q]
    BY DEF Standing, Move
<1> QED
    BY <1>1 DEF Standing

LEMMA TickStanding ==
    ASSUME Standing, NEW p \in Ticker, TickStep(p), atoms \subseteq atoms' PROVE Standing'
<1>1. UNCHANGED <<ready, updates, embedding, channel, batch, faults>> /\ retracted' = retracted
    BY DEF TickStep, StartTick, EndExplore, EndTick, Explore, Examine, LinkBounty, source, worker, timing, Newly
<1>2. \E there, todo, links : Move(p, there, todo, links) /\ links \subseteq atoms
    <2>1. ASSUME NEW s \in Synthesis, NEW newer \in ReadNewer(s) PROVE newer \subseteq atoms
        BY <2>1 DEF ReadNewer, NewerNear, Standing
    <2>2. ASSUME NEW s \in Synthesis, Examine(p, s)
          PROVE  \E there, todo, links : Move(p, there, todo, links) /\ links \subseteq atoms
        <3>1. PICK newer \in ReadNewer(s) :
                \/ Move(p, "synthesis", Ahead(p, s), {})
                \/ Move(p, "synthesis", Ahead(p, s), newer)
            BY <2>2 DEF Examine
        <3> QED
            BY <2>1, <3>1
    <2>3. ASSUME NEW d \in Domain, Explore(p, d)
          PROVE  \E there, todo, links : Move(p, there, todo, links) /\ links \subseteq atoms
        <3>1. CASE Move(p, "explore", Ahead(p, d), {})
            BY <3>1
        <3>2. CASE \E nearest \in ready : Move(p, "explore", Ahead(p, d), {nearest})
            BY <3>2 DEF Standing
        <3> QED
            BY <2>3, <3>1, <3>2 DEF Explore
    <2>4. ASSUME NEW x \in Atom, LinkBounty(p, x)
          PROVE  \E there, todo, links : Move(p, there, todo, links) /\ links \subseteq atoms
        <3>1. Move(p, tick[p].at, tick[p].todo, tick[p].links \ {x})
            BY <2>4 DEF LinkBounty
        <3> QED
            BY <3>1 DEF Standing
    <2>5. ASSUME StartTick(p)
          PROVE  \E there, todo, links : Move(p, there, todo, links) /\ links \subseteq atoms
        <3>1. \E high : Move(p, "explore", high, {})
            BY <2>5 DEF StartTick
        <3> QED
            BY <3>1
    <2>6. ASSUME EndExplore(p) \/ EndTick(p)
          PROVE  \E there, todo, links : Move(p, there, todo, links) /\ links \subseteq atoms
        <3>1. \E there, todo : Move(p, there, todo, {})
            BY <2>6 DEF EndExplore, EndTick
        <3> QED
            BY <3>1
    <2> QED
        BY <2>2, <2>3, <2>4, <2>5, <2>6 DEF TickStep
<1>3. DOMAIN tick' = Ticker /\ \A q \in Ticker : tick'[q].links \subseteq atoms'
    BY <1>2, Moved
<1> QED
    BY <1>1, <1>3 DEF Standing

LEMMA FaultStanding ==
    ASSUME Standing, Fail \/ Crash, atoms' = atoms PROVE Standing'
<1>1. faults' \in 0..MaxFaults
    BY SignalsAssumption DEF Fail, Crash, Standing
<1>2. /\ UNCHANGED <<ready, retracted>>
      /\ \/ embedding' = None /\ updates' = {}
         \/ UNCHANGED <<embedding, updates>>
      /\ channel' \subseteq channel /\ batch' \subseteq batch
    BY DEF Fail, EncodingFails, Crash, Abandon, source, worker, timing
<1>3. \/ UNCHANGED tick
      \/ tick' = [p \in Ticker |-> Idle]
      \/ \E p \in Ticker : \E there, todo, links :
            Move(p, there, todo, links) /\ links \subseteq atoms
    <2>1. CASE Fail
        <3>1. CASE UNCHANGED tick
            BY <3>1
        <3>2. ASSUME NEW p \in Ticker,
                     \/ Move(p, "idle", {}, {})
                     \/ \E x \in tick[p].todo : Move(p, tick[p].at, Ahead(p, x), {})
                     \/ \E x \in tick[p].links :
                            Move(p, tick[p].at, tick[p].todo, tick[p].links \ {x})
              PROVE  \E there, todo, links : Move(p, there, todo, links) /\ links \subseteq atoms
            <4>1. CASE Move(p, "idle", {}, {})
                BY <4>1
            <4>2. CASE \E x \in tick[p].todo : Move(p, tick[p].at, Ahead(p, x), {})
                BY <4>2
            <4>3. ASSUME NEW x, Move(p, tick[p].at, tick[p].todo, tick[p].links \ {x})
                  PROVE  \E there, todo, links : Move(p, there, todo, links) /\ links \subseteq atoms
                <5>1. tick[p].links \ {x} \subseteq atoms
                    BY DEF Standing
                <5> QED
                    BY <4>3, <5>1
            <4> QED
                BY <3>2, <4>1, <4>2, <4>3
        <3> QED
            BY <2>1, <3>1, <3>2 DEF Fail, TickFails
    <2>2. CASE Crash
        BY <2>2 DEF Crash
    <2> QED
        BY <2>1, <2>2
<1>4. DOMAIN tick' = Ticker /\ \A q \in Ticker : tick'[q].links \subseteq atoms'
    BY <1>3, Moved DEF Standing, Idle
<1> QED
    BY <1>1, <1>2, <1>4 DEF Standing

LEMMA StandingStep == Ranked /\ Standing /\ [Next]_vars => Standing'
<1> SUFFICES ASSUME Ranked, Standing, [Next]_vars PROVE Standing'
    OBVIOUS
<1>1. atoms \subseteq atoms'
    BY RankedStep
<1>2. ASSUME NEW p \in Ticker, TickStep(p) PROVE Standing'
    BY <1>1, <1>2, TickStanding
<1>3. ASSUME Fail \/ Crash PROVE Standing'
    <2>1. atoms' = atoms
        BY <1>3 DEF Fail, Crash, timing, atoms
    <2> QED
        BY <1>3, <2>1, FaultStanding
<1>4. ASSUME NEW a \in Atom, PollNext(a) \/ Recv(a) PROVE Standing'
    <2>1. /\ ready' = ready \cup {a} /\ embedding' = a /\ a \in atoms
          /\ UNCHANGED <<retracted, updates, tick, faults>>
          /\ channel' \subseteq channel /\ batch' \subseteq batch
        BY <1>4 DEF PollNext, Recv, Embed, timing, Standing
    <2>2. None # a
        BY SignalsAssumption
    <2> QED
        BY <1>1, <2>1, <2>2 DEF Standing
<1>5. ASSUME NEW a \in Atom, Publish(a) \/ Retract(a) PROVE Standing'
    <2>1. CASE Publish(a)
        <3>1. a \in atoms'
            BY <2>1, RankedStep, NewlyStep DEF Publish
        <3> QED
            BY <1>1, <2>1, <3>1 DEF Publish, Newly, worker, timing, Standing
    <2>2. CASE Retract(a)
        BY <1>1, <2>2 DEF Retract, source, worker, Standing
    <2> QED
        BY <1>5, <2>1, <2>2
<1>6. ASSUME Poll \/ \E e \in Links : Link(e) PROVE Standing'
    BY <1>1, <1>6 DEF Poll, Link, source, worker, timing, Standing
<1>7. ASSUME ReadNeighbours \/ \E u \in updates : WriteUpdate(u) PROVE Standing'
    <2>1. /\ UNCHANGED <<retracted, ready, channel, batch, tick, faults>>
          /\ embedding' = IF updates' = {} THEN None ELSE embedding
          /\ embedding # None
        BY <1>7 DEF ReadNeighbours, WriteUpdate, EndWhenWritten, source, timing, Standing
    <2> QED
        BY <1>1, <2>1 DEF Standing
<1>8. ASSUME SweepRead \/ SweepApply \/ UNCHANGED vars PROVE Standing'
    BY <1>1, <1>8 DEF SweepRead, SweepApply, vars, timing, source, worker, Standing
<1> QED
    BY <1>2, <1>3, <1>4, <1>5, <1>6, <1>7, <1>8 DEF Next, EmbeddingStep

\* Ranks are of atoms that exist, activity never precedes creation, what is
\* embedded, in hand or to be linked by a tick exists, and updates are in hand
\* only of an atom being embedded, after failures and deaths too.
THEOREM PlacesAreKnown == Spec => []Placed
<1>1. Init => Ranked /\ Standing
    <2> SUFFICES ASSUME Init PROVE Ranked /\ Standing
        OBVIOUS
    <2>1. atoms = Early
        BY SignalsAssumption DEF Init, atoms
    <2>2. ASSUME NEW a \in Early PROVE Cardinality(Early) >= 1
        <3>1. Early # {} /\ IsFiniteSet(Early)
            BY <2>1, <2>2, Counts
        <3> QED
            BY <3>1, FS_EmptySet, FS_CardinalityType
    <2>3. Cardinality(Early) \in Nat
        BY <2>1, Counts
    <2>4. Ranked
        BY <2>1, <2>2, <2>3, SignalsAssumption DEF Init, Ranked
    <2>5. Standing
        BY <2>1, SignalsAssumption DEF Init, Standing, Idle
    <2> QED
        BY <2>4, <2>5
<1>2. Ranked /\ Standing /\ [Next]_vars => (Ranked /\ Standing)'
    BY RankedStep, StandingStep
<1>3. Ranked /\ Standing => Placed
    <2> SUFFICES ASSUME Ranked, Standing PROVE Placed
        OBVIOUS
    <2>1. born \in [Atom -> 0..Cardinality(Atom)]
        BY Counts, SignalsAssumption, FS_CardinalityType DEF Ranked
    <2> QED
        BY <2>1 DEF Ranked, Standing, Placed
<1> QED
    BY <1>1, <1>2, <1>3, PTL DEF Spec
=============================================================================
