------------------------ MODULE EmbeddingQueueProofs ------------------------
(***************************************************************************)
(* Theorems about EmbeddingQueue, for any finite set of atoms, any kinds,  *)
(* metrics, neighbourhoods, channel capacity and bounds on failures.       *)
(***************************************************************************)
EXTENDS EmbeddingQueue, FiniteSetTheorems, TLAPS

\* The parts of QueueAssumption the proofs use.
LEMMA Constants ==
    /\ None \notin Atom
    /\ Parents \in [Atom -> SUBSET Atom]
    /\ Spread \in [Near -> 0..50]
    /\ MaxCrashes \in Nat /\ MaxFaults \in Nat
  BY QueueAssumption DEF QueueAssumption

\* The groups of variables that actions leave alone, spelled out.
LEMMA Groups ==
    /\ UNCHANGED dbVars => UNCHANGED <<born, ready, ph, repl, edges>>
    /\ UNCHANGED cacheVars => UNCHANGED <<nodes, cache>>
    /\ UNCHANGED boundVars => UNCHANGED <<crashes, faults>>
    /\ UNCHANGED workerVars =>
         UNCHANGED <<pc, cur, batch, nbrs, updates, contra, repls, target>>
  BY DEF dbVars, cacheVars, boundVars, workerVars

\* The item in hand is an atom.
LEMMA CurIsAtom == WorkerOK /\ pc # "idle" => cur \in Atom
  BY DEF WorkerOK

LEMMA TargetIsAtom ==
    WorkerOK /\ pc \in {"contradict_cache", "bump", "replicate_cache"} => target \in Atom
  BY DEF WorkerOK

\* Ending an item, or dying, leaves the worker well typed.
LEMMA EndItemType == WorkerOK /\ EndItem => WorkerOK'
  BY DEF WorkerOK, EndItem, WorkerStep

\* The rows that fail are finitely many: the count of faults grows, in bounds.
LEMMA RowsFailCount ==
    ASSUME BoundsOK, NEW a \in Atom, PublishRowsFail(a)
    PROVE  faults' \in faults..MaxFaults
<1> DEFINE missing == {p \in Parents[a] : <<a, p, "derived_from">> \notin edges}
<1>1. missing \subseteq Atom
  BY Constants
<1>2. faults + Cardinality(missing) <= MaxFaults /\ faults' = faults + Cardinality(missing)
  BY DEF PublishRowsFail
<1> HIDE DEF missing
<1>3. Cardinality(missing) \in Nat
  BY <1>1, AtomFinite, FS_Subset, FS_CardinalityType
<1> QED
  BY <1>2, <1>3, Constants DEF BoundsOK

LEMMA AddEdgeType ==
    ASSUME NEW C \in SUBSET Edge, NEW s \in Atom, NEW t \in Atom, NEW ty \in EdgeType
    PROVE  AddEdge(C, s, t, ty) \in SUBSET Edge
  BY DEF AddEdge, InsertRow, Edge

---------------------------------------------------------------------------
(* The edges table is finite, so its counts are numbers.                   *)

LEMMA PairFinite == \A x, y : IsFiniteSet({x, y})
<1> TAKE x, y
<1> DEFINE S == {x}
           T == {y}
<1>1. IsFiniteSet(S) /\ IsFiniteSet(T) /\ {x, y} = S \cup T
  BY FS_Singleton
<1> HIDE DEF S, T
<1>2. IsFiniteSet(S \cup T)
  BY <1>1, FS_Union
<1> QED
  BY <1>1, <1>2, Zenon

LEMMA EdgeTypeFinite == IsFiniteSet(EdgeType)
<1>1. EdgeType = ({"derived_from", "inspired_by"} \cup {"contradicts", "replicates"})
             \cup ({"summarizes", "supersedes"} \cup {"retracts", "retracts"})
  BY DEF EdgeType
<1>2. IsFiniteSet({"derived_from", "inspired_by"} \cup {"contradicts", "replicates"})
  BY PairFinite, FS_Union
<1>3. IsFiniteSet({"summarizes", "supersedes"} \cup {"retracts", "retracts"})
  BY PairFinite, FS_Union
<1> QED
  BY <1>1, <1>2, <1>3, FS_Union

LEMMA EdgesFinite == ASSUME NEW E \in SUBSET Edge PROVE IsFiniteSet(E)
<1>1. IsFiniteSet(Atom \X Atom)
  BY AtomFinite, FS_Product
<1>2. IsFiniteSet(Edge)
  <2> DEFINE f == [p \in (Atom \X Atom) \X EdgeType |-> <<p[1][1], p[1][2], p[2]>>]
  <2>1. IsFiniteSet((Atom \X Atom) \X EdgeType)
    BY <1>1, EdgeTypeFinite, FS_Product
  <2>2. f \in [(Atom \X Atom) \X EdgeType -> Edge]
    BY DEF Edge
  <2>3. ASSUME NEW e \in Edge
        PROVE  \E p \in (Atom \X Atom) \X EdgeType : f[p] = e
    <3>1. PICK x \in Atom, y \in Atom, t \in EdgeType : e = <<x, y, t>>
      BY <2>3 DEF Edge
    <3>2. <<<<x, y>>, t>> \in (Atom \X Atom) \X EdgeType
      OBVIOUS
    <3>3. f[<<<<x, y>>, t>>] = e
      BY <3>1, <3>2
    <3> HIDE DEF f
    <3> QED
      BY <3>2, <3>3
  <2> HIDE DEF f
  <2>4. f \in Surjection((Atom \X Atom) \X EdgeType, Edge)
    BY <2>2, <2>3 DEF Surjection
  <2> QED
    BY <2>1, <2>4, FS_Surjection
<1> QED
  BY <1>2, FS_Subset

LEMMA TouchingType ==
    ASSUME NEW E \in SUBSET Edge, NEW a \in Atom, NEW types
    PROVE  Touching(E, a, types) \in Nat
<1> DEFINE T == {e \in E : (e[1] = a \/ e[2] = a) /\ e[3] \in types}
<1>1. T \in SUBSET E
  OBVIOUS
<1> HIDE DEF T
<1>2. Cardinality(T) \in Nat
  BY <1>1, EdgesFinite, FS_Subset, FS_CardinalityType
<1> QED
  BY <1>2 DEF Touching, T

\* A disagreement is a percentage, and not zero once a pair is to come.
LEMMA NewDisagreementType ==
    ASSUME TablesOK, NEW a \in Atom
    PROVE  NewDisagreement(a) \in 1..Hundred
<1> DEFINE k == ContradictsCount(edges, a) + 2
           t == TotalCount(edges, a) + 2
<1>1. k \in Nat /\ t \in Nat /\ k >= 2 /\ t >= 2
  BY TouchingType DEF TablesOK, ContradictsCount, TotalCount
<1> HIDE DEF k, t
<1>2. 100 * k + t - 1 \in Nat /\ 100 * k + t - 1 >= t
  BY <1>1
<1>3. (100 * k + t - 1) \div t \in Nat /\ (100 * k + t - 1) \div t >= 1
  <2> DEFINE n == 100 * k + t - 1
  <2> HIDE DEF n
  <2>1. n \in Nat /\ n >= t
    BY <1>2 DEF n
  <2>2. n \div t \in Nat /\ n \div t >= 1
    BY <1>1, <2>1
  <2> QED
    BY <2>2 DEF n
<1>4. Disagreement(k, t) \in 1..Hundred
  BY <1>1, <1>3 DEF Disagreement, Least, Hundred
<1> QED
  BY <1>4 DEF NewDisagreement, k, t

---------------------------------------------------------------------------
(* The signals of an item are updates.                                     *)

LEMMA NoveltyUpdatesType ==
    ASSUME TablesOK, NEW a \in Atom, NEW N \in SUBSET Atom
    PROVE  NoveltyUpdates(a, N) \subseteq Update
<1>1. Cardinality(N) \in Nat
  BY AtomFinite, FS_Subset, FS_CardinalityType
<1>2. \A n \in N : ph[n]["novelty"] + 1 \in Nat
  BY DEF TablesOK, Field
<1> QED
  BY <1>1, <1>2 DEF NoveltyUpdates, Upd, Update, Field, NoveltyAfterOneMore

LEMMA RepulsionUpdatesType ==
    ASSUME NEW a \in Atom, NEW N \in SUBSET Atom,
           \A n \in N : Spread[<<n, a>>] \in Nat
    PROVE  RepulsionUpdates(a, N) \subseteq Update
<1> DEFINE M == {m \in N : Spread[<<m, a>>] > 5}
<1>1. M \subseteq N
  OBVIOUS
<1>2. Upd(a, "repulsion", RepulsionIncrement) \in Update
  BY DEF Upd, Update, Field, RepulsionIncrement, Hundred
<1>3. \A n \in N : Upd(n, "repulsion", Spread[<<n, a>>]) \in Update
  BY DEF Upd, Update, Field
<1>4. RepulsionUpdates(a, N) = {Upd(a, "repulsion", RepulsionIncrement)} \cup
         {Upd(n, "repulsion", Spread[<<n, a>>]) : n \in M}
  BY Zenon DEF RepulsionUpdates, M
<1> HIDE DEF M
<1>5. {Upd(n, "repulsion", Spread[<<n, a>>]) : n \in M} \subseteq Update
  BY <1>1, <1>3
<1> QED
  BY <1>2, <1>4, <1>5

LEMMA SignalUpdatesType ==
    ASSUME TablesOK, NEW a \in Atom
    PROVE  SignalUpdates(a, Neighbours(a)) \subseteq Update
<1> DEFINE N == Neighbours(a)
<1>1. N \subseteq Atom /\ \A n \in N : <<n, a>> \in Near
  BY DEF Neighbours, TablesOK
<1>2. 0..50 \subseteq Nat
  OBVIOUS
<1>3. \A n \in N : Spread[<<n, a>>] \in Nat
  BY <1>1, <1>2, Constants
<1> HIDE DEF N
<1>4. NoveltyUpdates(a, N) \subseteq Update /\ RepulsionUpdates(a, N) \subseteq Update
  BY <1>1, <1>3, NoveltyUpdatesType, RepulsionUpdatesType
<1> QED
  BY <1>4 DEF SignalUpdates, N

---------------------------------------------------------------------------
\* Every variable keeps its type; the worker holds an atom exactly while it
\* works, and the end of an edge exactly while it records one.
THEOREM TypeCorrect == Spec => []TypeOK
<1>1. Init => TypeOK
  <2> SUFFICES ASSUME Init PROVE TypeOK
    OBVIOUS
  <2>1. TablesOK /\ RequestsOK
    BY DEF Init, TablesOK, RequestsOK, PubStep
  <2>2. CacheOK /\ WorkerOK /\ BoundsOK
    BY Constants DEF Init, CacheOK, WorkerOK, WorkerStep, BoundsOK
  <2> QED
    BY <2>1, <2>2 DEF TypeOK
<1>2. TypeOK /\ [Next]_vars => TypeOK'
  <2> SUFFICES ASSUME TypeOK, [Next]_vars PROVE TypeOK'
    OBVIOUS
  <2>1. TablesOK /\ RequestsOK /\ CacheOK /\ WorkerOK /\ BoundsOK
    BY DEF TypeOK
  <2>2. UNCHANGED dbVars => TablesOK'
    BY <2>1, Groups DEF TablesOK
  <2>3. UNCHANGED <<channel, pub>> => RequestsOK'
    BY <2>1 DEF RequestsOK
  <2>4. UNCHANGED cacheVars => CacheOK'
    BY <2>1, Groups DEF CacheOK
  <2>5. UNCHANGED workerVars => WorkerOK'
    BY <2>1, Groups DEF WorkerOK
  <2>6. UNCHANGED boundVars => BoundsOK'
    BY <2>1, Groups DEF BoundsOK
  <2>7. EndItem => WorkerOK'
    BY <2>1, EndItemType
  <2>10. ASSUME NEW a \in Atom, PublishCommit(a) PROVE TypeOK'
    <3>1. Cardinality(Published) \in Nat
      BY AtomFinite, FS_Subset, FS_CardinalityType DEF Published
    <3>2. TablesOK'
      BY <2>1, <2>10, <3>1 DEF PublishCommit, TablesOK
    <3>3. RequestsOK'
      BY <2>1, <2>10 DEF PublishCommit, RequestsOK, PubStep
    <3> QED
      BY <2>4, <2>5, <2>6, <2>10, <3>2, <3>3 DEF PublishCommit, TypeOK
  <2>11. ASSUME NEW a \in Atom, PublishSend(a) PROVE TypeOK'
    <3>1. RequestsOK'
      BY <2>1, <2>11 DEF PublishSend, RequestsOK, PubStep
    <3> QED
      BY <2>2, <2>4, <2>5, <2>6, <2>11, <3>1 DEF PublishSend, TypeOK
  <2>12. ASSUME NEW a \in Atom, PublishCache(a) PROVE TypeOK'
    <3>1. Parents[a] \subseteq Atom
      BY Constants
    <3>2. CacheOK'
      BY <2>1, <2>12, <3>1 DEF PublishCache, CacheOK, Edge, EdgeType
    <3>3. RequestsOK'
      BY <2>1, <2>12 DEF PublishCache, RequestsOK, PubStep
    <3> QED
      BY <2>2, <2>5, <2>6, <2>12, <3>2, <3>3 DEF PublishCache, TypeOK
  <2>13. ASSUME NEW a \in Atom, PublishRow(a) PROVE TypeOK'
    <3>1. TablesOK'
      BY <2>1, <2>13, Constants DEF PublishRow, TablesOK, InsertRow, Edge, EdgeType
    <3> QED
      BY <2>3, <2>4, <2>5, <2>6, <2>13, <3>1 DEF PublishRow, TypeOK
  <2>14. ASSUME NEW a \in Atom, PublishDone(a) PROVE TypeOK'
    <3>1. RequestsOK'
      BY <2>1, <2>14 DEF PublishDone, RequestsOK, PubStep
    <3> QED
      BY <2>2, <2>4, <2>5, <2>6, <2>14, <3>1 DEF PublishDone, TypeOK
  <2>14a. ASSUME NEW a \in Atom, PublishRowsFail(a) PROVE TypeOK'
    <3>1. RequestsOK'
      BY <2>1, <2>14a DEF PublishRowsFail, RequestsOK, PubStep
    <3>2. faults' \in faults..MaxFaults /\ crashes' = crashes
      BY <2>1, <2>14a, RowsFailCount DEF PublishRowsFail
    <3>3. BoundsOK'
      BY <2>1, <3>2 DEF BoundsOK
    <3> QED
      BY <2>2, <2>4, <2>5, <2>14a, <3>1, <3>3 DEF PublishRowsFail, TypeOK
  <2>15. CASE Poll
    <3>1. WorkerOK'
      BY <2>1, <2>15 DEF Poll, WorkerOK, OldestPending, Pending, Published
    <3> QED
      BY <2>2, <2>3, <2>4, <2>6, <2>15, <3>1 DEF Poll, TypeOK
  <2>16. CASE PollNext
    <3>1. WorkerOK'
      BY <2>1, <2>16, Constants DEF PollNext, WorkerOK, WorkerStep
    <3> QED
      BY <2>2, <2>3, <2>4, <2>6, <2>16, <3>1 DEF PollNext, TypeOK
  <2>17. CASE Recv
    <3>1. channel \in Seq(Atom) /\ channel # <<>>
      BY <2>1, <2>17 DEF Recv, RequestsOK
    <3>2. Head(channel) \in Atom /\ Tail(channel) \in Seq(Atom)
      BY <3>1
    <3>3. WorkerOK' /\ RequestsOK'
      BY <2>1, <2>17, <3>2, Constants DEF Recv, WorkerOK, WorkerStep, RequestsOK
    <3> QED
      BY <2>2, <2>4, <2>6, <2>17, <3>3 DEF Recv, TypeOK
  <2>18. CASE Embed
    <3>1. cur \in Atom
      BY <2>1, <2>18, CurIsAtom DEF Embed
    <3>2. TablesOK' /\ WorkerOK'
      BY <2>1, <2>18, <3>1 DEF Embed, TablesOK, WorkerOK, WorkerStep
    <3> QED
      BY <2>3, <2>4, <2>6, <2>18, <3>2 DEF Embed, TypeOK
  <2>19. CASE EmbedFails \/ Finish
    BY <2>2, <2>3, <2>4, <2>6, <2>7, <2>19 DEF EmbedFails, Finish, TypeOK
  <2>20. CASE ReadNeighbours
    <3>1. cur \in Atom
      BY <2>1, <2>20, CurIsAtom DEF ReadNeighbours
    <3>2. Neighbours(cur) \subseteq Atom /\ SignalUpdates(cur, Neighbours(cur)) \subseteq Update
      BY <2>1, <3>1, SignalUpdatesType DEF Neighbours, TablesOK
    <3>3. WorkerOK'
      BY <2>1, <2>7, <2>20, <3>2 DEF ReadNeighbours, WorkerOK, WorkerStep
    <3> QED
      BY <2>2, <2>3, <2>4, <2>6, <2>20, <3>3 DEF ReadNeighbours, TypeOK
  <2>21. CASE DetectContradictions
    <3>1. Contradicted(cur, nbrs) \subseteq Atom
      BY <2>1 DEF Contradicted, WorkerOK
    <3>2. \A c \in Atom : Upd(c, "disagreement", NewDisagreement(c)) \in Update
      BY <2>1, NewDisagreementType DEF Upd, Update, Field, Hundred
    <3>3. WorkerOK'
      BY <2>1, <2>21, <3>1, <3>2 DEF DetectContradictions, WorkerOK, WorkerStep
    <3> QED
      BY <2>2, <2>3, <2>4, <2>6, <2>21, <3>3 DEF DetectContradictions, TypeOK
  <2>22. CASE ApplyUpdate
    <3>1. PICK u \in updates :
            /\ ph' = [ph EXCEPT ![u.atom][u.field] =
                         IF u.field = "repulsion" THEN Least(@ + u.value, RepulsionCeiling)
                                                  ELSE u.value]
            /\ updates' = updates \ {u}
      BY <2>22 DEF ApplyUpdate
    <3>2. u.atom \in Atom /\ u.field \in Field /\ u.value \in Nat
      BY <2>1 DEF WorkerOK, Update
    <3>3. ph' \in [Atom -> [Field -> Nat]]
      BY <2>1, <3>1, <3>2 DEF TablesOK, Least, RepulsionCeiling, Hundred
    <3>4. TablesOK' /\ WorkerOK'
      BY <2>1, <2>22, <3>1, <3>3 DEF ApplyUpdate, TablesOK, WorkerOK
    <3> QED
      BY <2>3, <2>4, <2>6, <2>22, <3>4 DEF ApplyUpdate, TypeOK
  <2>23. CASE InsertContradicts
    <3>1. cur \in Atom
      BY <2>1, <2>23, CurIsAtom DEF InsertContradicts
    <3>2. PICK c \in contra : /\ edges' = InsertPair(edges, c, cur)
                              /\ contra' = contra \ {c}
                              /\ target' = c
      BY <2>23 DEF InsertContradicts
    <3>3. c \in Atom /\ c # None
      BY <2>1, Constants DEF WorkerOK
    <3>4. TablesOK'
      BY <2>1, <2>23, <3>1, <3>2, <3>3
      DEF InsertContradicts, TablesOK, InsertPair, Edge, EdgeType
    <3>5. WorkerOK'
      BY <2>1, <2>23, <3>2, <3>3 DEF InsertContradicts, WorkerOK, WorkerStep
    <3> QED
      BY <2>3, <2>4, <2>6, <2>23, <3>4, <3>5 DEF InsertContradicts, TypeOK
  <2>24. CASE CacheContradicts
    <3>1. cur \in Atom /\ target \in Atom
      BY <2>1, <2>24, CurIsAtom, TargetIsAtom DEF CacheContradicts
    <3>2. "contradicts" \in EdgeType
      BY DEF EdgeType
    <3>3. CacheOK'
      BY <2>1, <2>24, <3>1, <3>2, AddEdgeType DEF CacheContradicts, CacheOK
    <3>4. WorkerOK'
      BY <2>1, <2>7, <2>24 DEF CacheContradicts, WorkerOK, WorkerStep
    <3> QED
      BY <2>2, <2>3, <2>6, <2>24, <3>3, <3>4 DEF CacheContradicts, TypeOK
  <2>25. CASE DetectReplications
    <3>1. CASE Kind[cur] = "finding"
      <4>1. /\ pc = "apply" /\ pc' = "replicate" /\ repls' \subseteq nbrs
            /\ UNCHANGED <<cur, batch, nbrs, updates, contra, target>>
        BY <2>25, <3>1 DEF DetectReplications
      <4>2. WorkerOK'
        BY <2>1, <4>1 DEF WorkerOK, WorkerStep
      <4> QED
        BY <2>2, <2>3, <2>4, <2>6, <2>25, <4>2 DEF DetectReplications, TypeOK
    <3>2. CASE Kind[cur] # "finding"
      <4>1. WorkerOK'
        BY <2>7, <2>25, <3>2 DEF DetectReplications
      <4> QED
        BY <2>2, <2>3, <2>4, <2>6, <2>25, <4>1 DEF DetectReplications, TypeOK
    <3> QED
      BY <3>1, <3>2
  <2>26. CASE InsertReplicates
    <3>1. cur \in Atom
      BY <2>1, <2>26, CurIsAtom DEF InsertReplicates
    <3>2. PICK r \in repls : /\ edges' = InsertRow(edges, cur, r, "replicates")
                             /\ repls' = repls \ {r}
                             /\ target' = r
      BY <2>26 DEF InsertReplicates
    <3>3. r \in Atom /\ r # None
      BY <2>1, Constants DEF WorkerOK
    <3>4. TablesOK'
      BY <2>1, <2>26, <3>1, <3>2, <3>3 DEF InsertReplicates, TablesOK, InsertRow, Edge, EdgeType
    <3>5. WorkerOK'
      BY <2>1, <2>26, <3>2, <3>3 DEF InsertReplicates, WorkerOK, WorkerStep
    <3> QED
      BY <2>3, <2>4, <2>6, <2>26, <3>4, <3>5 DEF InsertReplicates, TypeOK
  <2>27. CASE BumpReplication
    <3>1. target \in Atom
      BY <2>1, <2>27, TargetIsAtom DEF BumpReplication
    <3>2. TablesOK' /\ WorkerOK'
      BY <2>1, <2>27, <3>1 DEF BumpReplication, TablesOK, WorkerOK, WorkerStep
    <3> QED
      BY <2>3, <2>4, <2>6, <2>27, <3>2 DEF BumpReplication, TypeOK
  <2>28. CASE CacheReplicates
    <3>1. cur \in Atom /\ target \in Atom /\ "replicates" \in EdgeType
      BY <2>1, <2>28, CurIsAtom, TargetIsAtom DEF CacheReplicates, EdgeType
    <3>2. CacheOK'
      BY <2>1, <2>28, <3>1, AddEdgeType DEF CacheReplicates, CacheOK
    <3>3. WorkerOK'
      BY <2>1, <2>7, <2>28 DEF CacheReplicates, WorkerOK, WorkerStep
    <3> QED
      BY <2>2, <2>3, <2>6, <2>28, <3>2, <3>3 DEF CacheReplicates, TypeOK
  <2>29. CASE WorkerFault
    <3>1. BoundsOK'
      BY <2>1, <2>29, Constants DEF WorkerFault, BoundsOK
    <3> QED
      BY <2>2, <2>3, <2>4, <2>7, <2>29, <3>1 DEF WorkerFault, TypeOK
  <2>30. CASE Crash
    <3>1. CacheOK'
      <4>1. cache' \subseteq edges /\ nodes' \subseteq Atom
        BY <2>30 DEF Crash, Loads, Published
      <4> QED
        BY <2>1, <4>1 DEF CacheOK, TablesOK
    <3>2. RequestsOK'
      BY <2>1, <2>30 DEF Crash, RequestsOK, PubStep
    <3>3. WorkerOK'
      BY <2>1, <2>30 DEF Crash, WorkerOK, WorkerStep
    <3>4. BoundsOK'
      BY <2>1, <2>30, Constants DEF Crash, BoundsOK
    <3> QED
      BY <2>2, <2>30, <3>1, <3>2, <3>3, <3>4 DEF Crash, TypeOK
  <2>31. CASE UNCHANGED vars
    BY <2>2, <2>3, <2>4, <2>5, <2>6, <2>31 DEF vars, TypeOK
  <2> QED
    BY <2>10, <2>11, <2>12, <2>13, <2>14, <2>14a, <2>15, <2>16, <2>17, <2>18, <2>19,
       <2>20, <2>21, <2>22, <2>23, <2>24, <2>25, <2>26, <2>27, <2>28, <2>29,
       <2>30, <2>31
    DEF Next, Publishing, ProcessAtom
<1> QED
  BY <1>1, <1>2, PTL DEF Spec

---------------------------------------------------------------------------
(* How an insert changes the counts Evidence speaks of.                    *)

LEMMA ReplicatesInType ==
    ASSUME NEW E, NEW a PROVE ReplicatesIn(E, a) \in Nat
<1> DEFINE S == {b \in Atom : <<b, a, "replicates">> \in E}
<1>1. S \in SUBSET Atom
  OBVIOUS
<1> HIDE DEF S
<1>2. Cardinality(S) \in Nat
  BY <1>1, AtomFinite, FS_Subset, FS_CardinalityType
<1> QED
  BY <1>2 DEF ReplicatesIn, S

\* A derived_from row is no evidence.
LEMMA AddDerivedFrom ==
    ASSUME NEW E, NEW x, NEW y, NEW a
    PROVE  /\ ReplicatesIn(InsertRow(E, x, y, "derived_from"), a) = ReplicatesIn(E, a)
           /\ ContradictsCount(InsertRow(E, x, y, "derived_from"), a) = ContradictsCount(E, a)
<1> DEFINE F == InsertRow(E, x, y, "derived_from")
<1>1. {b \in Atom : <<b, a, "replicates">> \in F} = {b \in Atom : <<b, a, "replicates">> \in E}
  BY DEF InsertRow
<1>2. {e \in F : (e[1] = a \/ e[2] = a) /\ e[3] \in {"contradicts"}} =
      {e \in E : (e[1] = a \/ e[2] = a) /\ e[3] \in {"contradicts"}}
  BY DEF InsertRow
<1> QED
  BY <1>1, <1>2, Zenon DEF ReplicatesIn, ContradictsCount, Touching

\* A new replicates row counts once, for the atom it points at.
LEMMA AddReplicates ==
    ASSUME NEW E \in SUBSET Edge, NEW x \in Atom, NEW y \in Atom,
           <<x, y, "replicates">> \notin E
    PROVE  /\ ReplicatesIn(InsertRow(E, x, y, "replicates"), y) = ReplicatesIn(E, y) + 1
           /\ \A a \in Atom : a # y => ReplicatesIn(InsertRow(E, x, y, "replicates"), a) = ReplicatesIn(E, a)
           /\ \A a \in Atom : ContradictsCount(InsertRow(E, x, y, "replicates"), a) = ContradictsCount(E, a)
<1> DEFINE F == InsertRow(E, x, y, "replicates")
           S(a) == {b \in Atom : <<b, a, "replicates">> \in E}
           T(a) == {b \in Atom : <<b, a, "replicates">> \in F}
<1>1. T(y) = S(y) \cup {x} /\ x \notin S(y) /\ S(y) \in SUBSET Atom
  BY DEF InsertRow
<1>2. \A a \in Atom : a # y => T(a) = S(a)
  BY DEF InsertRow
<1>3. \A a \in Atom : {e \in F : (e[1] = a \/ e[2] = a) /\ e[3] \in {"contradicts"}} =
                      {e \in E : (e[1] = a \/ e[2] = a) /\ e[3] \in {"contradicts"}}
  BY DEF InsertRow
<1>4. \A a \in Atom : ContradictsCount(F, a) = ContradictsCount(E, a)
  BY <1>3, Zenon DEF ContradictsCount, Touching
<1>5. \A a \in Atom : ReplicatesIn(F, a) = Cardinality(T(a)) /\ ReplicatesIn(E, a) = Cardinality(S(a))
  BY Zenon DEF ReplicatesIn
<1> HIDE DEF F, S, T
<1>6. Cardinality(T(y)) = Cardinality(S(y)) + 1
  <2>1. IsFiniteSet(S(y))
    BY <1>1, AtomFinite, FS_Subset
  <2> QED
    BY <1>1, <2>1, FS_AddElement
<1> QED
  BY <1>2, <1>4, <1>5, <1>6 DEF F

\* A new pair of contradicts rows counts twice, for each of its ends.
LEMMA AddContradicts ==
    ASSUME NEW E \in SUBSET Edge, NEW x \in Atom, NEW y \in Atom, x # y,
           ~ContradictsExists(E, y, x)
    PROVE  /\ \A a \in {x, y} : ContradictsCount(InsertPair(E, x, y), a) = ContradictsCount(E, a) + 2
           /\ \A a \in Atom \ {x, y} : ContradictsCount(InsertPair(E, x, y), a) = ContradictsCount(E, a)
           /\ \A a \in Atom : ReplicatesIn(InsertPair(E, x, y), a) = ReplicatesIn(E, a)
<1> DEFINE F == InsertPair(E, x, y)
           p == <<x, y, "contradicts">>
           q == <<y, x, "contradicts">>
           S(a) == {e \in E : (e[1] = a \/ e[2] = a) /\ e[3] \in {"contradicts"}}
           T(a) == {e \in F : (e[1] = a \/ e[2] = a) /\ e[3] \in {"contradicts"}}
<1>1. \A a \in {x, y} : T(a) = (S(a) \cup {p}) \cup {q}
  BY DEF InsertPair
<1>2. \A a \in Atom \ {x, y} : T(a) = S(a)
  BY DEF InsertPair
<1>3. p # q /\ \A a \in Atom : p \notin S(a) /\ q \notin S(a)
  BY DEF ContradictsExists
<1>4. \A a \in Atom : {b \in Atom : <<b, a, "replicates">> \in F} =
                      {b \in Atom : <<b, a, "replicates">> \in E}
  BY DEF InsertPair
<1>5. \A a \in Atom : ReplicatesIn(F, a) = ReplicatesIn(E, a)
  BY <1>4, Zenon DEF ReplicatesIn
<1>6. \A a \in Atom : /\ ContradictsCount(F, a) = Cardinality(T(a))
                      /\ ContradictsCount(E, a) = Cardinality(S(a))
  BY Zenon DEF ContradictsCount, Touching
<1>7. \A a \in Atom : S(a) \in SUBSET E
  OBVIOUS
<1> HIDE DEF F, S, T, p, q
<1>8. ASSUME NEW a \in {x, y} PROVE Cardinality(T(a)) = Cardinality(S(a)) + 2
  <2>1. IsFiniteSet(S(a)) /\ Cardinality(S(a)) \in Nat
    <3>1. IsFiniteSet(E) /\ S(a) \in SUBSET E
      BY <1>7, EdgesFinite
    <3> QED
      BY <3>1, FS_Subset, FS_CardinalityType
  <2>2. IsFiniteSet(S(a) \cup {p}) /\ Cardinality(S(a) \cup {p}) = Cardinality(S(a)) + 1
    BY <1>3, <2>1, FS_AddElement
  <2>3. q \notin S(a) \cup {p}
    BY <1>3
  <2>4. Cardinality((S(a) \cup {p}) \cup {q}) = Cardinality(S(a) \cup {p}) + 1
    BY <2>2, <2>3, FS_AddElement
  <2>5. T(a) = (S(a) \cup {p}) \cup {q}
    BY <1>1
  <2>6. Cardinality(T(a)) = Cardinality(S(a) \cup {p}) + 1
    BY <2>4, <2>5, Zenon
  <2> QED
    BY <2>1, <2>2, <2>6
<1> QED
  BY <1>2, <1>5, <1>6, <1>8 DEF F

---------------------------------------------------------------------------
(* The inductive invariant behind the evidence.                            *)

\* What the worker holds is about other atoms, and not in the table yet.
Fresh ==
    /\ pc \in {"idle", "embed", "neighbours"} =>
         nbrs = {} /\ updates = {} /\ contra = {} /\ repls = {}
    /\ cur \notin nbrs
    /\ contra \subseteq nbrs
    /\ \A c \in contra : ~ContradictsExists(edges, cur, c)
    /\ \A r \in repls : ~ReplicatesExists(edges, cur, r)

\* A contradiction to be inserted has its disagreement written or at hand.
Signalled ==
    /\ \A a \in Atom : ph[a]["disagreement"] \in 0..Hundred
    /\ \A u \in updates : u.field = "disagreement" => u.value \in 1..Hundred
    /\ \A c \in contra :
         \/ ph[c]["disagreement"] > 0
         \/ \E u \in updates : u.atom = c /\ u.field = "disagreement"

\* The counters are behind the rows by the failures and by the row in hand.
InHand(a) == IF pc = "bump" /\ target = a THEN 1 ELSE 0
Counted ==
    \A a \in Atom :
        ReplicatesIn(edges, a) - repl[a] - InHand(a) \in 0 .. (crashes + faults)

EvidenceInv == Fresh /\ Signalled /\ Counted

\* The conjuncts look at these variables only.
LEMMA UndisturbedStep ==
    EvidenceInv /\ UNCHANGED <<edges, ph, repl, workerVars, boundVars>> => EvidenceInv'
  BY Groups DEF EvidenceInv, Fresh, Signalled, Counted, InHand

LEMMA EndItemFresh == EndItem => Fresh'
  BY DEF EndItem, Fresh

LEMMA EndItemSignalled == Signalled /\ EndItem /\ UNCHANGED ph => Signalled'
  BY DEF EndItem, Signalled

LEMMA SameCount ==
    ASSUME Counted, UNCHANGED <<edges, repl, boundVars>>,
           pc # "bump", pc' # "bump"
    PROVE  Counted'
  BY Groups DEF Counted, InHand

\* Signals other than disagreement.
LEMMA SignalFields ==
    ASSUME NEW a, NEW N, NEW u \in SignalUpdates(a, N)
    PROVE  u.field # "disagreement"
<1>1. CASE u \in NoveltyUpdates(a, N)
  BY <1>1 DEF NoveltyUpdates, Upd
<1>2. CASE u \in RepulsionUpdates(a, N)
  <2>1. PICK x, v : u = Upd(x, "repulsion", v)
    BY <1>2, Zenon DEF RepulsionUpdates
  <2> QED
    BY <2>1 DEF Upd
<1> QED
  BY <1>1, <1>2 DEF SignalUpdates

LEMMA EvidenceInvStep == TypeOK /\ EvidenceInv /\ [Next]_vars => EvidenceInv'
<1> SUFFICES ASSUME TypeOK, EvidenceInv, [Next]_vars PROVE EvidenceInv'
  OBVIOUS
<1>1. TablesOK /\ WorkerOK /\ BoundsOK /\ Fresh /\ Signalled /\ Counted
  BY DEF TypeOK, EvidenceInv
<1>2. ASSUME NEW a \in Atom,
             PublishCommit(a) \/ PublishSend(a) \/ PublishCache(a) \/ PublishDone(a)
      PROVE  EvidenceInv'
  BY <1>2, UndisturbedStep, Groups
  DEF PublishCommit, PublishSend, PublishCache, PublishDone
<1>2a. ASSUME NEW a \in Atom, PublishRowsFail(a) PROVE EvidenceInv'
  <2>1. UNCHANGED <<edges, ph, repl, pc, cur, batch, nbrs, updates, contra, repls, target, crashes>>
    BY <1>2a, Groups DEF PublishRowsFail
  <2>2. Counted'
    BY <1>1, <1>2a, <2>1, RowsFailCount, ReplicatesInType DEF Counted, InHand, TablesOK, BoundsOK
  <2> QED
    BY <1>1, <2>1, <2>2 DEF EvidenceInv, Fresh, Signalled
<1>3. ASSUME NEW a \in Atom, PublishRow(a) PROVE EvidenceInv'
  <2>1. PICK p \in Parents[a] : edges' = InsertRow(edges, a, p, "derived_from")
    BY <1>3 DEF PublishRow
  <2>2. UNCHANGED <<ph, repl, pc, cur, batch, nbrs, updates, contra, repls, target, crashes, faults>>
    BY <1>3, Groups DEF PublishRow
  <2>3. Fresh'
    BY <1>1, <2>1, <2>2 DEF Fresh, ContradictsExists, ReplicatesExists, InsertRow
  <2>4. Signalled'
    BY <1>1, <2>2 DEF Signalled
  <2>5. Counted'
    <3>1. \A x \in Atom : ReplicatesIn(edges', x) = ReplicatesIn(edges, x)
      BY <2>1, AddDerivedFrom, Zenon
    <3> QED
      BY <1>1, <2>2, <3>1 DEF Counted, InHand
  <2> QED
    BY <2>3, <2>4, <2>5 DEF EvidenceInv
<1>4. CASE Poll \/ PollNext \/ Recv \/ Embed
  <2>1. Fresh'
    BY <1>1, <1>4, Groups DEF Poll, PollNext, Recv, Embed, Fresh
  <2>2. Signalled'
    BY <1>1, <1>4, Groups DEF Poll, PollNext, Recv, Embed, Signalled
  <2>3. Counted'
    BY <1>1, <1>4, SameCount, Groups DEF Poll, PollNext, Recv, Embed
  <2> QED
    BY <2>1, <2>2, <2>3 DEF EvidenceInv
<1>5. CASE EmbedFails \/ Finish
  <2>1. EndItem /\ UNCHANGED <<edges, ph, repl, boundVars>> /\ pc # "bump" /\ pc' # "bump"
    BY <1>5, Groups DEF EmbedFails, Finish, EndItem
  <2> QED
    BY <1>1, <2>1, EndItemFresh, EndItemSignalled, SameCount DEF EvidenceInv
<1>6. CASE ReadNeighbours
  <2>1. UNCHANGED <<edges, ph, repl, boundVars>> /\ pc # "bump" /\ pc' # "bump"
    BY <1>6, Groups DEF ReadNeighbours, EndItem
  <2>2. CASE Kind[cur] \in Tracked
    <3>1. cur \in Atom
      BY <1>1, <1>6, CurIsAtom DEF ReadNeighbours
    <3>2. cur \notin Neighbours(cur)
      BY <3>1, GeometryAssumption DEF Neighbours, GeometryAssumption
    <3>3. /\ nbrs' = Neighbours(cur) /\ updates' = SignalUpdates(cur, Neighbours(cur))
          /\ pc = "neighbours" /\ pc' = "detect" /\ UNCHANGED <<cur, contra, repls>>
      BY <1>6, <2>2 DEF ReadNeighbours
    <3>4. Fresh'
      BY <1>1, <3>2, <3>3 DEF Fresh
    <3>5. Signalled'
      BY <1>1, <2>1, <3>3, SignalFields DEF Signalled, Fresh
    <3> QED
      BY <1>1, <2>1, <3>4, <3>5, SameCount DEF EvidenceInv
  <2>3. CASE Kind[cur] \notin Tracked
    <3>1. EndItem
      BY <1>6, <2>3 DEF ReadNeighbours
    <3> QED
      BY <1>1, <2>1, <3>1, EndItemFresh, EndItemSignalled, SameCount DEF EvidenceInv
  <2> QED
    BY <2>2, <2>3
<1>7. CASE DetectContradictions
  <2>1. /\ UNCHANGED <<edges, ph, repl, boundVars, cur, nbrs, repls>>
        /\ pc = "detect" /\ pc' = "apply"
        /\ contra' = Contradicted(cur, nbrs)
        /\ updates' = updates \cup
             {Upd(c, "disagreement", NewDisagreement(c)) : c \in Contradicted(cur, nbrs)}
    BY <1>7, Groups DEF DetectContradictions
  <2>2. Contradicted(cur, nbrs) \subseteq nbrs /\ nbrs \subseteq Atom
    BY <1>1 DEF Contradicted, WorkerOK
  <2>3. Fresh'
    BY <1>1, <2>1, <2>2 DEF Fresh, Contradicted, ContradictsExists, ReplicatesExists
  <2>4. \A c \in Contradicted(cur, nbrs) : NewDisagreement(c) \in 1..Hundred
    BY <1>1, <2>2, NewDisagreementType
  <2>5. Signalled'
    <3> DEFINE D == {Upd(c, "disagreement", NewDisagreement(c)) : c \in Contradicted(cur, nbrs)}
    <3>1. \A u \in D : u.value \in 1..Hundred
      BY <2>4 DEF Upd
    <3>2. \A c \in Contradicted(cur, nbrs) : \E u \in D : u.atom = c /\ u.field = "disagreement"
      <4> TAKE c \in Contradicted(cur, nbrs)
      <4> WITNESS Upd(c, "disagreement", NewDisagreement(c)) \in D
      <4> QED
        BY DEF Upd
    <3>3. updates' = updates \cup D
      BY <2>1
    <3> HIDE DEF D
    <3> QED
      BY <1>1, <2>1, <3>1, <3>2, <3>3 DEF Signalled
  <2> QED
    BY <1>1, <2>1, <2>3, <2>5, SameCount DEF EvidenceInv
<1>8. CASE ApplyUpdate
  <2>1. PICK u \in updates :
          /\ ph' = [ph EXCEPT ![u.atom][u.field] =
                       IF u.field = "repulsion" THEN Least(@ + u.value, RepulsionCeiling)
                                                ELSE u.value]
          /\ updates' = updates \ {u}
    BY <1>8 DEF ApplyUpdate
  <2>2. /\ UNCHANGED <<edges, repl, boundVars, pc, cur, nbrs, contra, repls>>
        /\ pc = "apply"
    BY <1>8 DEF ApplyUpdate
  <2>3. u.atom \in Atom /\ u.field \in Field
    BY <1>1 DEF WorkerOK, Update
  <2>4. Fresh'
    BY <1>1, <2>1, <2>2 DEF Fresh, ContradictsExists, ReplicatesExists, InsertRow
  <2>5. \A a \in Atom : ph'[a]["disagreement"] =
           IF u.atom = a /\ u.field = "disagreement" THEN u.value ELSE ph[a]["disagreement"]
    BY <1>1, <2>1, <2>3 DEF TablesOK, Field
  <2>6. contra \subseteq Atom
    BY <1>1 DEF WorkerOK
  <2>7. Signalled'
    <3>1. \A a \in Atom : ph'[a]["disagreement"] \in 0..Hundred
      BY <1>1, <2>5 DEF Signalled, Hundred
    <3>2. \A c \in contra :
             \/ ph'[c]["disagreement"] > 0
             \/ \E v \in updates' : v.atom = c /\ v.field = "disagreement"
      <4> TAKE c \in contra
      <4>1. CASE u.atom = c /\ u.field = "disagreement"
        BY <1>1, <2>5, <2>6, <4>1 DEF Signalled, Hundred
      <4>2. CASE ~(u.atom = c /\ u.field = "disagreement")
        <5>1. ph'[c]["disagreement"] = ph[c]["disagreement"]
          BY <2>5, <2>6, <4>2
        <5>2. \A v \in updates : v.atom = c /\ v.field = "disagreement" => v \in updates'
          BY <2>1, <4>2
        <5> QED
          BY <1>1, <5>1, <5>2 DEF Signalled
      <4> QED
        BY <4>1, <4>2
    <3> QED
      BY <1>1, <2>1, <2>2, <3>1, <3>2 DEF Signalled
  <2> QED
    BY <1>1, <2>2, <2>4, <2>7, SameCount DEF EvidenceInv
<1>9. CASE InsertContradicts
  <2>1. PICK c \in contra : /\ edges' = InsertPair(edges, c, cur)
                            /\ contra' = contra \ {c}
                            /\ target' = c
    BY <1>9 DEF InsertContradicts
  <2>2. /\ UNCHANGED <<ph, repl, boundVars, cur, nbrs, updates, repls>>
        /\ pc = "apply" /\ pc' = "contradict_cache"
    BY <1>9 DEF InsertContradicts
  <2>3. cur \in Atom /\ c \in Atom /\ c # cur /\ ~ContradictsExists(edges, cur, c)
    BY <1>1, <2>2, CurIsAtom DEF WorkerOK, Fresh
  <2>4. Fresh'
    BY <1>1, <2>1, <2>2, <2>3
    DEF Fresh, ContradictsExists, ReplicatesExists, InsertPair
  <2>5. Signalled'
    BY <1>1, <2>1, <2>2 DEF Signalled
  <2>6. \A a \in Atom : ReplicatesIn(edges', a) = ReplicatesIn(edges, a)
    <3>1. edges \in SUBSET Edge
      BY <1>1 DEF TablesOK
    <3> QED
      BY <2>1, <2>3, <3>1, AddContradicts, Zenon
  <2>7. Counted'
    BY <1>1, <2>2, <2>6, Groups DEF Counted, InHand
  <2> QED
    BY <2>4, <2>5, <2>7 DEF EvidenceInv
<1>10. CASE CacheContradicts
  <2>1. UNCHANGED <<edges, ph, repl, boundVars>> /\ pc # "bump" /\ pc' # "bump"
    BY <1>10, Groups DEF CacheContradicts, EndItem
  <2>2. EndItem \/ UNCHANGED <<cur, nbrs, updates, contra, repls>>
    BY <1>10 DEF CacheContradicts
  <2>3. CASE EndItem
    BY <1>1, <2>1, <2>3, EndItemFresh, EndItemSignalled, SameCount DEF EvidenceInv
  <2>4. CASE pc' = "apply" /\ UNCHANGED <<cur, nbrs, updates, contra, repls>>
    BY <1>1, <2>1, <2>4, SameCount
    DEF EvidenceInv, Fresh, Signalled, ContradictsExists, ReplicatesExists
  <2> QED
    BY <1>10, <2>3, <2>4 DEF CacheContradicts
<1>11. CASE DetectReplications
  <2>1. UNCHANGED <<edges, ph, repl, boundVars>> /\ pc = "apply" /\ pc' # "bump"
    BY <1>11, Groups DEF DetectReplications, EndItem
  <2>2. CASE Kind[cur] # "finding"
    <3>1. EndItem
      BY <1>11, <2>2 DEF DetectReplications
    <3> QED
      BY <1>1, <2>1, <3>1, EndItemFresh, EndItemSignalled, SameCount DEF EvidenceInv
  <2>3. CASE Kind[cur] = "finding"
    <3>1. /\ UNCHANGED <<cur, nbrs, updates, contra>> /\ pc' = "replicate"
          /\ \A r \in repls' : ~ReplicatesExists(edges, cur, r)
      BY <1>11, <2>3 DEF DetectReplications
    <3>2. Fresh'
      BY <1>1, <2>1, <3>1 DEF Fresh, ContradictsExists, ReplicatesExists
    <3>3. Signalled'
      BY <1>1, <2>1, <3>1 DEF Signalled
    <3> QED
      BY <1>1, <2>1, <3>2, <3>3, SameCount DEF EvidenceInv
  <2> QED
    BY <2>2, <2>3
<1>12. CASE InsertReplicates
  <2>1. PICK r \in repls : /\ edges' = InsertRow(edges, cur, r, "replicates")
                           /\ repls' = repls \ {r}
                           /\ target' = r
    BY <1>12 DEF InsertReplicates
  <2>2. /\ UNCHANGED <<ph, repl, crashes, faults, cur, nbrs, updates, contra>>
        /\ pc = "replicate" /\ pc' = "bump"
    BY <1>12, Groups DEF InsertReplicates
  <2>3. cur \in Atom /\ r \in Atom /\ <<cur, r, "replicates">> \notin edges
    BY <1>1, <2>2, CurIsAtom DEF WorkerOK, Fresh, ReplicatesExists
  <2>4. Fresh'
    BY <1>1, <2>1, <2>2 DEF Fresh, ContradictsExists, ReplicatesExists, InsertRow
  <2>5. Signalled'
    BY <1>1, <2>2 DEF Signalled
  <2>6. /\ ReplicatesIn(edges', r) = ReplicatesIn(edges, r) + 1
        /\ \A a \in Atom : a # r => ReplicatesIn(edges', a) = ReplicatesIn(edges, a)
    <3>1. edges \in SUBSET Edge
      BY <1>1 DEF TablesOK
    <3>2. InsertRow(edges, cur, r, "replicates") = edges'
      BY <2>1
    <3> QED
      BY <2>3, <3>1, <3>2, AddReplicates, ZenonT(30)
  <2>7. Counted'
    <3>1. \A a \in Atom : InHand(a) = 0 /\ InHand(a)' = IF a = r THEN 1 ELSE 0
      BY <2>1, <2>2 DEF InHand
    <3>2. \A a \in Atom : ReplicatesIn(edges', a) - repl'[a] - InHand(a)' =
                          ReplicatesIn(edges, a) - repl[a] - InHand(a)
      BY <1>1, <2>2, <2>6, <3>1, ReplicatesInType DEF TablesOK
    <3> QED
      BY <1>1, <2>2, <3>2 DEF Counted
  <2> QED
    BY <2>4, <2>5, <2>7 DEF EvidenceInv
<1>13. CASE BumpReplication
  <2>1. /\ UNCHANGED <<edges, ph, crashes, faults, cur, nbrs, updates, contra, repls, target>>
        /\ pc = "bump" /\ pc' = "replicate_cache"
        /\ repl' = [repl EXCEPT ![target] = @ + 1]
    BY <1>13, Groups DEF BumpReplication
  <2>2. target \in Atom
    BY <1>1, <2>1, TargetIsAtom
  <2>3. Fresh' /\ Signalled'
    BY <1>1, <2>1 DEF Fresh, Signalled, ContradictsExists, ReplicatesExists
  <2>4. Counted'
    BY <1>1, <2>1, <2>2, ReplicatesInType DEF Counted, InHand, TablesOK
  <2> QED
    BY <2>3, <2>4 DEF EvidenceInv
<1>14. CASE CacheReplicates
  <2>1. UNCHANGED <<edges, ph, repl, boundVars>> /\ pc # "bump" /\ pc' # "bump"
    BY <1>14, Groups DEF CacheReplicates, EndItem
  <2>2. CASE EndItem
    BY <1>1, <2>1, <2>2, EndItemFresh, EndItemSignalled, SameCount DEF EvidenceInv
  <2>3. CASE pc' = "replicate" /\ UNCHANGED <<cur, nbrs, updates, contra, repls>>
    BY <1>1, <2>1, <2>3, SameCount
    DEF EvidenceInv, Fresh, Signalled, ContradictsExists, ReplicatesExists
  <2> QED
    BY <1>14, <2>2, <2>3 DEF CacheReplicates
<1>15. CASE WorkerFault
  <2>1. EndItem /\ UNCHANGED <<edges, ph, repl, crashes>> /\ faults' = faults + 1
    BY <1>15, Groups DEF WorkerFault
  <2>2. Counted'
    BY <1>1, <2>1, ReplicatesInType DEF Counted, InHand, TablesOK, BoundsOK, EndItem
  <2> QED
    BY <1>1, <2>1, <2>2, EndItemFresh, EndItemSignalled DEF EvidenceInv
<1>16. CASE Crash
  <2>1. /\ UNCHANGED <<edges, ph, repl, faults>> /\ crashes' = crashes + 1
        /\ pc' = "idle" /\ nbrs' = {} /\ updates' = {} /\ contra' = {} /\ repls' = {}
    BY <1>16, Groups DEF Crash
  <2>2. Fresh' /\ Signalled'
    BY <1>1, <2>1 DEF Fresh, Signalled
  <2>3. Counted'
    BY <1>1, <2>1, ReplicatesInType DEF Counted, InHand, TablesOK, BoundsOK
  <2> QED
    BY <2>2, <2>3 DEF EvidenceInv
<1>17. CASE UNCHANGED vars
  BY <1>17, UndisturbedStep, Groups DEF vars
<1> QED
  BY <1>2, <1>2a, <1>3, <1>4, <1>5, <1>6, <1>7, <1>8, <1>9, <1>10, <1>11, <1>12, <1>13,
     <1>14, <1>15, <1>16, <1>17
  DEF Next, Publishing, ProcessAtom

LEMMA EvidenceInvInit == Init => EvidenceInv
<1> SUFFICES ASSUME Init PROVE EvidenceInv
  OBVIOUS
<1>1. \A a \in Atom : ReplicatesIn(edges, a) = 0
  <2>1. \A a \in Atom : {b \in Atom : <<b, a, "replicates">> \in edges} = {}
    BY DEF Init
  <2> QED
    BY <2>1, FS_EmptySet DEF ReplicatesIn
<1>2. Fresh /\ Signalled
  BY DEF Init, Fresh, Signalled, Field, Hundred
<1>3. Counted
  BY <1>1 DEF Init, Counted, InHand
<1> QED
  BY <1>2, <1>3 DEF EvidenceInv

\* repl_exact is never ahead of the replicates rows, and behind them by one
\* per crash or failed call at most.
THEOREM ReplicationCounted == Spec => []ReplicationLag
<1>1. TypeOK /\ EvidenceInv => ReplicationLag
  BY ReplicatesInType DEF TypeOK, TablesOK, BoundsOK, EvidenceInv, Counted, InHand, ReplicationLag
<1> QED
  BY <1>1, EvidenceInvInit, EvidenceInvStep, TypeCorrect, PTL DEF Spec

---------------------------------------------------------------------------
(* Implementation of Evidence.                                             *)

LEMMA UndisturbedEvidence ==
    UNCHANGED <<edges, repl, ph>> => UNCHANGED Ev!evidence
  BY DEF Ev!evidence

\* Which steps of the worker are steps of Evidence.
LEMMA InsertContradictsLinks ==
    ASSUME TypeOK, EvidenceInv, InsertContradicts PROVE Ev!EvidenceNext
<1>1. PICK c \in contra : edges' = InsertPair(edges, c, cur)
  BY DEF InsertContradicts
<1>2. pc = "apply" /\ updates = {} /\ UNCHANGED <<ph, repl>>
  BY DEF InsertContradicts
<1>3. cur \in Atom /\ c \in Atom /\ c # cur /\ ~ContradictsExists(edges, cur, c)
  BY <1>2, CurIsAtom DEF TypeOK, WorkerOK, EvidenceInv, Fresh
<1>4. ph[c]["disagreement"] > 0
  BY <1>2 DEF EvidenceInv, Signalled
<1>5. edges \in SUBSET Edge
  BY DEF TypeOK, TablesOK
<1>6. /\ \A a \in {c, cur} : ContradictsCount(edges', a) = ContradictsCount(edges, a) + 2
      /\ \A a \in Atom \ {c, cur} : ContradictsCount(edges', a) = ContradictsCount(edges, a)
      /\ \A a \in Atom : ReplicatesIn(edges', a) = ReplicatesIn(edges, a)
  <2> DEFINE F == InsertPair(edges, c, cur)
  <2>1. /\ \A a \in {c, cur} : ContradictsCount(F, a) = ContradictsCount(edges, a) + 2
        /\ \A a \in Atom \ {c, cur} : ContradictsCount(F, a) = ContradictsCount(edges, a)
        /\ \A a \in Atom : ReplicatesIn(F, a) = ReplicatesIn(edges, a)
    BY <1>3, <1>5, AddContradicts
  <2> HIDE DEF F
  <2>2. edges' = F
    BY <1>1 DEF F
  <2> QED
    BY <2>1, <2>2
<1>7. [a \in Atom |-> ReplicatesIn(edges', a)] = [a \in Atom |-> ReplicatesIn(edges, a)]
  BY <1>6
<1>8. [a \in Atom |-> ContradictsCount(edges', a)] =
      [[a \in Atom |-> ContradictsCount(edges, a)] EXCEPT ![c] = @ + 2, ![cur] = @ + 2]
  BY <1>3, <1>6
<1>9. Ev!LinkContradiction(c, cur)
  BY <1>2, <1>3, <1>4, <1>7, <1>8 DEF Ev!LinkContradiction
<1> QED
  BY <1>3, <1>9 DEF Ev!EvidenceNext

LEMMA InsertReplicatesLinks ==
    ASSUME TypeOK, EvidenceInv, InsertReplicates PROVE Ev!EvidenceNext
<1>1. PICK r \in repls : edges' = InsertRow(edges, cur, r, "replicates")
  BY DEF InsertReplicates
<1>2. pc = "replicate" /\ UNCHANGED <<ph, repl>>
  BY DEF InsertReplicates
<1>3. cur \in Atom /\ r \in Atom /\ <<cur, r, "replicates">> \notin edges
  BY <1>2, CurIsAtom DEF TypeOK, WorkerOK, EvidenceInv, Fresh, ReplicatesExists
<1>4. edges \in SUBSET Edge
  BY DEF TypeOK, TablesOK
<1>5. /\ ReplicatesIn(edges', r) = ReplicatesIn(edges, r) + 1
      /\ \A a \in Atom : a # r => ReplicatesIn(edges', a) = ReplicatesIn(edges, a)
      /\ \A a \in Atom : ContradictsCount(edges', a) = ContradictsCount(edges, a)
  <2>1. InsertRow(edges, cur, r, "replicates") = edges'
    BY <1>1
  <2> QED
    BY <1>3, <1>4, <2>1, AddReplicates, ZenonT(30)
<1>6. [a \in Atom |-> ReplicatesIn(edges', a)] =
      [[a \in Atom |-> ReplicatesIn(edges, a)] EXCEPT ![r] = @ + 1]
  BY <1>3, <1>5
<1>7. [a \in Atom |-> ContradictsCount(edges', a)] = [a \in Atom |-> ContradictsCount(edges, a)]
  BY <1>5
<1>8. Ev!LinkReplication(r)
  BY <1>2, <1>6, <1>7 DEF Ev!LinkReplication
<1> QED
  BY <1>3, <1>8 DEF Ev!EvidenceNext

LEMMA BumpReplicationCounts ==
    ASSUME TypeOK, EvidenceInv, BumpReplication PROVE Ev!EvidenceNext
<1>1. target \in Atom
  BY TargetIsAtom DEF BumpReplication, TypeOK
<1>2. pc = "bump" /\ UNCHANGED <<edges, ph>> /\ repl' = [repl EXCEPT ![target] = @ + 1]
  BY DEF BumpReplication
<1>3. repl[target] < ReplicatesIn(edges, target)
  BY <1>1, <1>2, ReplicatesInType DEF EvidenceInv, Counted, InHand, TypeOK, TablesOK, BoundsOK
<1>4. Ev!CountReplication(target)
  BY <1>1, <1>2, <1>3 DEF Ev!CountReplication
<1> QED
  BY <1>1, <1>4 DEF Ev!EvidenceNext

\* The disagreement column after one UPDATE.
LEMMA DisagreementAfter ==
    ASSUME TypeOK, NEW u \in Update,
           ph' = [ph EXCEPT ![u.atom][u.field] =
                     IF u.field = "repulsion" THEN Least(@ + u.value, RepulsionCeiling)
                                              ELSE u.value]
    PROVE  \A a \in Atom : ph'[a]["disagreement"] =
             IF u.atom = a /\ u.field = "disagreement" THEN u.value
                                                       ELSE ph[a]["disagreement"]
  BY DEF TypeOK, TablesOK, Update, Field

LEMMA ApplyUpdateDisagrees ==
    ASSUME TypeOK, EvidenceInv, ApplyUpdate PROVE Ev!EvidenceNext \/ UNCHANGED Ev!evidence
<1>1. PICK u \in updates :
        ph' = [ph EXCEPT ![u.atom][u.field] =
                  IF u.field = "repulsion" THEN Least(@ + u.value, RepulsionCeiling)
                                           ELSE u.value]
  BY DEF ApplyUpdate
<1>2. UNCHANGED <<edges, repl>>
  BY DEF ApplyUpdate
<1>3. u \in Update /\ u.atom \in Atom
  BY DEF TypeOK, WorkerOK, Update
<1>4. \A a \in Atom : ph'[a]["disagreement"] =
         IF u.atom = a /\ u.field = "disagreement" THEN u.value ELSE ph[a]["disagreement"]
  BY <1>1, <1>3, DisagreementAfter
<1>5. CASE u.field = "disagreement"
  <2>1. u.value \in 1..Hundred
    BY <1>5 DEF EvidenceInv, Signalled
  <2>2. [a \in Atom |-> ph'[a]["disagreement"]] =
        [[a \in Atom |-> ph[a]["disagreement"]] EXCEPT ![u.atom] = u.value]
    BY <1>3, <1>4, <1>5
  <2>3. Ev!Disagree(u.atom, u.value)
    BY <1>2, <2>2 DEF Ev!Disagree
  <2>4. u.value \in 1..Ev!Hundred
    BY <2>1 DEF Ev!Hundred, Hundred
  <2>5. \E a \in Atom, d \in 1..Ev!Hundred : Ev!Disagree(a, d)
    BY <1>3, <2>3, <2>4, Zenon
  <2> QED
    BY <2>5 DEF Ev!EvidenceNext
<1>6. CASE u.field # "disagreement"
  <2>1. [a \in Atom |-> ph'[a]["disagreement"]] = [a \in Atom |-> ph[a]["disagreement"]]
    BY <1>4, <1>6
  <2> QED
    BY <1>2, <2>1 DEF Ev!evidence
<1> QED
  BY <1>5, <1>6

LEMMA EvidenceStep ==
    TypeOK /\ EvidenceInv /\ [Next]_vars => [Ev!EvidenceNext]_(Ev!evidence)
<1> SUFFICES ASSUME TypeOK, EvidenceInv, [Next]_vars
             PROVE  Ev!EvidenceNext \/ UNCHANGED Ev!evidence
  OBVIOUS
<1>1. ASSUME NEW a \in Atom, PublishRow(a) PROVE UNCHANGED Ev!evidence
  <2>1. PICK p \in Parents[a] : edges' = InsertRow(edges, a, p, "derived_from")
    BY <1>1 DEF PublishRow
  <2>2. UNCHANGED <<ph, repl>>
    BY <1>1 DEF PublishRow
  <2>3. \A x \in Atom : /\ ReplicatesIn(edges', x) = ReplicatesIn(edges, x)
                        /\ ContradictsCount(edges', x) = ContradictsCount(edges, x)
    BY <2>1, AddDerivedFrom, Zenon
  <2> QED
    BY <2>2, <2>3 DEF Ev!evidence
<1>2. ASSUME NEW a \in Atom,
             PublishCommit(a) \/ PublishSend(a) \/ PublishCache(a)
               \/ PublishDone(a) \/ PublishRowsFail(a)
      PROVE  UNCHANGED Ev!evidence
  BY <1>2, UndisturbedEvidence, Groups
  DEF PublishCommit, PublishSend, PublishCache, PublishDone, PublishRowsFail
<1>3. CASE Poll \/ PollNext \/ Recv \/ Embed \/ EmbedFails \/ ReadNeighbours
  BY <1>3, UndisturbedEvidence, Groups
  DEF Poll, PollNext, Recv, Embed, EmbedFails, ReadNeighbours
<1>4. CASE DetectContradictions \/ CacheContradicts \/ DetectReplications
           \/ CacheReplicates \/ Finish
  BY <1>4, UndisturbedEvidence, Groups
  DEF DetectContradictions, CacheContradicts, DetectReplications, CacheReplicates, Finish
<1>5. CASE WorkerFault \/ Crash \/ UNCHANGED vars
  BY <1>5, UndisturbedEvidence, Groups DEF WorkerFault, Crash, vars
<1> QED
  BY <1>1, <1>2, <1>3, <1>4, <1>5, InsertContradictsLinks, InsertReplicatesLinks,
     BumpReplicationCounts, ApplyUpdateDisagrees
  DEF Next, Publishing, ProcessAtom

\* The worker implements Evidence, whatever crashes, fails or is processed
\* twice.
THEOREM EvidenceImplemented == Spec => ImplementsEvidence
<1>1. Init => Ev!EvidenceInit
  <2> SUFFICES ASSUME Init PROVE Ev!EvidenceInit
    OBVIOUS
  <2>1. \A a \in Atom : ReplicatesIn(edges, a) = 0 /\ ContradictsCount(edges, a) = 0
    <3>1. \A a \in Atom : {b \in Atom : <<b, a, "replicates">> \in edges} = {}
      BY DEF Init
    <3>2. \A a \in Atom : {e \in edges : (e[1] = a \/ e[2] = a) /\ e[3] \in {"contradicts"}} = {}
      BY DEF Init
    <3> QED
      BY <3>1, <3>2, FS_EmptySet DEF ReplicatesIn, ContradictsCount, Touching
  <2> QED
    BY <2>1 DEF Init, Ev!EvidenceInit, Ev!NoEvidence, Field
<1> QED
  BY <1>1, EvidenceStep, EvidenceInvInit, EvidenceInvStep, TypeCorrect, PTL
  DEF Spec, ImplementsEvidence, Ev!EvidenceSpec

---------------------------------------------------------------------------
\* A contradiction never enters the graph unsignalled.
THEOREM ContradictionsSignalled == Spec => []ContradictionSignalled
<1>1. Init => ContradictionSignalled
  BY DEF Init, ContradictionSignalled
<1>2. TypeOK /\ EvidenceInv /\ ContradictionSignalled /\ [Next]_vars => ContradictionSignalled'
  <2> SUFFICES ASSUME TypeOK, EvidenceInv, ContradictionSignalled, [Next]_vars
               PROVE  ContradictionSignalled'
    OBVIOUS
  <2>1. CASE UNCHANGED <<edges, ph>>
    BY <2>1 DEF ContradictionSignalled
  <2>2. ASSUME NEW a \in Atom, PublishRow(a) PROVE ContradictionSignalled'
    BY <2>2 DEF PublishRow, InsertRow, ContradictionSignalled
  <2>3. CASE InsertReplicates
    BY <2>3 DEF InsertReplicates, InsertRow, ContradictionSignalled
  <2>4. CASE ApplyUpdate
    <3>1. PICK u \in updates :
            ph' = [ph EXCEPT ![u.atom][u.field] =
                      IF u.field = "repulsion" THEN Least(@ + u.value, RepulsionCeiling)
                                               ELSE u.value]
      BY <2>4 DEF ApplyUpdate
    <3>2. u \in Update /\ (u.field = "disagreement" => u.value > 0)
      BY DEF TypeOK, WorkerOK, EvidenceInv, Signalled, Hundred
    <3>3. \A a \in Atom : ph[a]["disagreement"] > 0 => ph'[a]["disagreement"] > 0
      BY <3>1, <3>2, DisagreementAfter
    <3> QED
      BY <2>4, <3>3 DEF ApplyUpdate, ContradictionSignalled
  <2>5. CASE InsertContradicts
    <3>1. PICK c \in contra : edges' = InsertPair(edges, c, cur)
      BY <2>5 DEF InsertContradicts
    <3>2. ph' = ph /\ ph[c]["disagreement"] > 0
      BY <2>5 DEF InsertContradicts, EvidenceInv, Signalled
    <3> QED
      BY <3>1, <3>2 DEF InsertPair, ContradictionSignalled
  <2>6. ASSUME NEW a \in Atom,
               PublishCommit(a) \/ PublishSend(a) \/ PublishCache(a)
                 \/ PublishDone(a) \/ PublishRowsFail(a)
        PROVE  UNCHANGED <<edges, ph>>
    BY <2>6, Groups
    DEF PublishCommit, PublishSend, PublishCache, PublishDone, PublishRowsFail
  <2>7. CASE Poll \/ PollNext \/ Recv \/ Embed \/ EmbedFails \/ ReadNeighbours
    BY <2>1, <2>7, Groups DEF Poll, PollNext, Recv, Embed, EmbedFails, ReadNeighbours
  <2>8. CASE DetectContradictions \/ CacheContradicts \/ DetectReplications
             \/ BumpReplication \/ CacheReplicates \/ Finish
    BY <2>1, <2>8, Groups
    DEF DetectContradictions, CacheContradicts, DetectReplications, BumpReplication,
        CacheReplicates, Finish
  <2>9. CASE WorkerFault \/ Crash \/ UNCHANGED vars
    BY <2>1, <2>9, Groups DEF WorkerFault, Crash, vars
  <2> QED
    BY <2>1, <2>2, <2>3, <2>4, <2>5, <2>6, <2>7, <2>8, <2>9
    DEF Next, Publishing, ProcessAtom
<1> QED
  BY <1>1, <1>2, EvidenceInvInit, EvidenceInvStep, TypeCorrect, PTL DEF Spec

---------------------------------------------------------------------------
(* The cache.  A derived_from edge goes in before its row, by the request  *)
(* of its child; the worker's edges go in after their rows.                *)

RowOrRequest(a, b, t) ==
    \/ <<a, b, t>> \in edges
    \/ /\ t = "derived_from"
       /\ b \in Parents[a]
       /\ pub[a] = "rows" \/ faults > 0

RowsFirst ==
    /\ pc = "contradict_cache" => {<<cur, target, "contradicts">>,
                                   <<target, cur, "contradicts">>} \subseteq edges
    /\ pc \in {"bump", "replicate_cache"} => <<cur, target, "replicates">> \in edges

CacheInv ==
    /\ \A a, b \in Atom, t \in EdgeType : <<a, b, t>> \in cache => RowOrRequest(a, b, t)
    /\ RowsFirst

\* What the worker's steps leave of the cache invariant to show.
LEMMA CacheKept ==
    ASSUME CacheInv, BoundsOK, BoundsOK', edges \subseteq edges', faults' >= faults,
           cache' \subseteq cache \cup edges', UNCHANGED pub, RowsFirst'
    PROVE  CacheInv'
  BY DEF CacheInv, RowOrRequest, BoundsOK

LEMMA EndItemRows == EndItem => RowsFirst'
  BY DEF EndItem, RowsFirst

LEMMA FailedRowsCount ==
    ASSUME BoundsOK, NEW a \in Atom, PublishRowsFail(a)
    PROVE  faults' > 0 /\ faults' >= faults
<1> DEFINE missing == {p \in Parents[a] : <<a, p, "derived_from">> \notin edges}
<1>1. missing \subseteq Atom
  BY Constants
<1>2. missing # {} /\ faults' = faults + Cardinality(missing)
  BY DEF PublishRowsFail
<1> HIDE DEF missing
<1>3. Cardinality(missing) \in Nat /\ Cardinality(missing) # 0
  BY <1>1, <1>2, AtomFinite, FS_Subset, FS_CardinalityType, FS_EmptySet
<1> QED
  BY <1>2, <1>3 DEF BoundsOK

LEMMA CacheStep ==
    TypeOK /\ TypeOK' /\ CacheInv /\ [Next]_vars => CacheInv'
<1> SUFFICES ASSUME TypeOK, TypeOK', CacheInv, [Next]_vars PROVE CacheInv'
  OBVIOUS
<1>1. TablesOK /\ CacheOK /\ RequestsOK /\ WorkerOK /\ BoundsOK /\ BoundsOK' /\ RowsFirst
  BY DEF TypeOK, CacheInv
<1>2. ASSUME UNCHANGED <<edges, cache, pub, faults>>, RowsFirst' PROVE CacheInv'
  BY <1>1, <1>2, CacheKept DEF BoundsOK
<1>3. ASSUME UNCHANGED <<edges, pc, cur, target>> PROVE RowsFirst'
  BY <1>1, <1>3 DEF RowsFirst
<1>4. ASSUME NEW a \in Atom, PublishCommit(a) \/ PublishSend(a) PROVE CacheInv'
  <2>1. UNCHANGED <<edges, cache, faults, pc, cur, target>>
    BY <1>4, Groups DEF PublishCommit, PublishSend
  <2>2. \A x \in Atom : pub[x] = "rows" => pub'[x] = "rows"
    BY <1>1, <1>4 DEF PublishCommit, PublishSend, RequestsOK
  <2> QED
    BY <1>1, <1>3, <2>1, <2>2 DEF CacheInv, RowOrRequest
<1>5. ASSUME NEW a \in Atom, PublishCache(a) PROVE CacheInv'
  <2>1. UNCHANGED <<edges, faults, pc, cur, target>>
    BY <1>5, Groups DEF PublishCache
  <2>2. pub'[a] = "rows" /\ \A x \in Atom : pub[x] = "rows" => pub'[x] = "rows"
    BY <1>1, <1>5 DEF PublishCache, RequestsOK
  <2>3. \A x, y \in Atom, t \in EdgeType :
           <<x, y, t>> \in cache' => \/ <<x, y, t>> \in cache
                                     \/ x = a /\ t = "derived_from" /\ y \in Parents[a]
    BY <1>5 DEF PublishCache
  <2> QED
    BY <1>1, <1>3, <2>1, <2>2, <2>3 DEF CacheInv, RowOrRequest
<1>6. ASSUME NEW a \in Atom, PublishRow(a) PROVE CacheInv'
  <2>1. UNCHANGED <<cache, pub, faults, pc, cur, target>> /\ edges \subseteq edges'
    BY <1>6, Groups DEF PublishRow, InsertRow
  <2>2. RowsFirst'
    BY <1>1, <2>1 DEF RowsFirst
  <2> QED
    BY <1>1, <2>1, <2>2, CacheKept DEF BoundsOK
<1>7. ASSUME NEW a \in Atom, PublishRowsFail(a) PROVE CacheInv'
  <2>1. UNCHANGED <<edges, cache, pc, cur, target>> /\ faults' > 0
    BY <1>1, <1>7, Groups, FailedRowsCount DEF PublishRowsFail
  <2> QED
    BY <1>1, <1>3, <2>1 DEF CacheInv, RowOrRequest
<1>8. ASSUME NEW a \in Atom, PublishDone(a) PROVE CacheInv'
  <2>1. /\ UNCHANGED <<edges, cache, faults, pc, cur, target>>
        /\ \A p \in Parents[a] : <<a, p, "derived_from">> \in edges
        /\ \A x \in Atom \ {a} : pub'[x] = pub[x]
    BY <1>1, <1>8, Groups DEF PublishDone, RequestsOK
  <2> QED
    BY <1>1, <1>3, <2>1 DEF CacheInv, RowOrRequest
<1>9. CASE Poll \/ PollNext \/ Recv
  <2>1. UNCHANGED <<edges, cache, pub, faults>> /\ pc' \in {"idle", "embed"}
    BY <1>9, Groups DEF Poll, PollNext, Recv
  <2> QED
    BY <1>2, <2>1 DEF RowsFirst
<1>10. CASE Embed \/ DetectContradictions \/ ApplyUpdate
  <2>1. UNCHANGED <<edges, cache, pub, faults>> /\ pc' \in {"neighbours", "apply"}
    BY <1>10, Groups DEF Embed, DetectContradictions, ApplyUpdate
  <2> QED
    BY <1>2, <2>1 DEF RowsFirst
<1>11. CASE EmbedFails \/ Finish
  BY <1>2, <1>11, EndItemRows, Groups DEF EmbedFails, Finish
<1>12. CASE ReadNeighbours \/ DetectReplications
  <2>1. /\ UNCHANGED <<edges, cache, pub, faults>>
        /\ EndItem \/ pc' \in {"detect", "replicate"}
    BY <1>12, Groups DEF ReadNeighbours, DetectReplications
  <2> QED
    BY <1>2, <2>1, EndItemRows DEF RowsFirst
<1>13. CASE InsertContradicts
  <2>1. PICK c \in contra : edges' = InsertPair(edges, c, cur) /\ target' = c
    BY <1>13 DEF InsertContradicts
  <2>2. UNCHANGED <<cache, pub, faults, cur>> /\ pc' = "contradict_cache"
    BY <1>13, Groups DEF InsertContradicts
  <2>3. edges \subseteq edges' /\ RowsFirst'
    BY <2>1, <2>2 DEF InsertPair, RowsFirst
  <2> QED
    BY <1>1, <2>2, <2>3, CacheKept DEF BoundsOK
<1>14. CASE InsertReplicates
  <2>1. PICK r \in repls : edges' = InsertRow(edges, cur, r, "replicates") /\ target' = r
    BY <1>14 DEF InsertReplicates
  <2>2. UNCHANGED <<cache, pub, faults, cur>> /\ pc' = "bump"
    BY <1>14, Groups DEF InsertReplicates
  <2>3. edges \subseteq edges' /\ RowsFirst'
    BY <2>1, <2>2 DEF InsertRow, RowsFirst
  <2> QED
    BY <1>1, <2>2, <2>3, CacheKept DEF BoundsOK
<1>15. CASE BumpReplication
  <2>1. UNCHANGED <<edges, cache, pub, faults, cur, target>> /\ pc = "bump" /\ pc' = "replicate_cache"
    BY <1>15, Groups DEF BumpReplication
  <2> QED
    BY <1>1, <1>2, <2>1 DEF RowsFirst
<1>16. CASE CacheContradicts
  <2>1. UNCHANGED <<edges, pub, faults>> /\ (EndItem \/ pc' = "apply")
    BY <1>16, Groups DEF CacheContradicts
  <2>2. RowsFirst'
    BY <2>1, EndItemRows DEF RowsFirst
  <2>3. cache' \subseteq cache \cup {<<cur, target, "contradicts">>, <<target, cur, "contradicts">>}
    BY <1>16 DEF CacheContradicts, AddEdge, InsertRow
  <2>4. {<<cur, target, "contradicts">>, <<target, cur, "contradicts">>} \subseteq edges
    BY <1>1, <1>16 DEF CacheContradicts, RowsFirst
  <2> QED
    BY <1>1, <2>1, <2>2, <2>3, <2>4, CacheKept DEF BoundsOK
<1>17. CASE CacheReplicates
  <2>1. UNCHANGED <<edges, pub, faults>> /\ (EndItem \/ pc' = "replicate")
    BY <1>17, Groups DEF CacheReplicates
  <2>2. RowsFirst'
    BY <2>1, EndItemRows DEF RowsFirst
  <2>3. cache' \subseteq cache \cup {<<cur, target, "replicates">>}
    BY <1>17 DEF CacheReplicates, AddEdge, InsertRow
  <2>4. <<cur, target, "replicates">> \in edges
    BY <1>1, <1>17 DEF CacheReplicates, RowsFirst
  <2> QED
    BY <1>1, <2>1, <2>2, <2>3, <2>4, CacheKept DEF BoundsOK
<1>18. CASE WorkerFault
  <2>1. UNCHANGED <<edges, cache, pub>> /\ EndItem /\ faults' = faults + 1
    BY <1>18, Groups DEF WorkerFault
  <2> QED
    BY <1>1, <2>1, EndItemRows, CacheKept DEF BoundsOK
<1>19. CASE Crash
  <2>1. UNCHANGED <<edges, faults>> /\ cache' \subseteq edges /\ pc' = "idle"
    BY <1>19, Groups DEF Crash, Loads
  <2> QED
    BY <2>1 DEF CacheInv, RowOrRequest, RowsFirst
<1>20. CASE UNCHANGED vars
  BY <1>2, <1>3, <1>20, Groups DEF vars
<1> QED
  BY <1>4, <1>5, <1>6, <1>7, <1>8, <1>9, <1>10, <1>11, <1>12, <1>13, <1>14, <1>15, <1>16,
     <1>17, <1>18, <1>19, <1>20
  DEF Next, Publishing, ProcessAtom

\* An edge of the cache is a row of the table, but for a derived_from edge
\* whose request has its row still to insert or failed to.
THEOREM CacheIsBacked == Spec => []CacheBacked
<1>1. Init => CacheInv
  BY DEF Init, CacheInv, RowsFirst
<1>2. TypeOK /\ CacheInv => CacheBacked
  <2> SUFFICES ASSUME TypeOK, CacheInv, NEW e \in cache
               PROVE  e \in edges \/ (e[3] = "derived_from" /\ (pub[e[1]] = "rows" \/ faults > 0))
    BY DEF CacheBacked
  <2>1. PICK a \in Atom, b \in Atom, t \in EdgeType : e = <<a, b, t>>
    BY DEF TypeOK, CacheOK, Edge
  <2> QED
    BY <2>1 DEF CacheInv, RowOrRequest
<1> QED
  BY <1>1, <1>2, CacheStep, TypeCorrect, PTL DEF Spec

---------------------------------------------------------------------------
(* Novelty.  What a tracked atom must count at least: the tracked atoms    *)
(* embedded near it, less the one whose neighbourhood is still to be read. *)

Due(a, S) == Cardinality({b \in Neighbours(a) : Kind[b] \in Tracked} \ S)

Covered(a, S) == ph[a]["novelty"] >= Due(a, S)

\* The novelty updates in hand for an atom, of which any may come last.
NoveltyOf(a) == {u \in updates : u.atom = a /\ u.field = "novelty"}

ReadyTracked == {a \in ready : Kind[a] \in Tracked}

NoveltyInv ==
    Undisturbed =>
        /\ pc = "neighbours" => \A a \in ReadyTracked \ {cur} : Covered(a, {cur})
        /\ pc # "neighbours" => \A a \in ReadyTracked : Covered(a, {}) \/ NoveltyOf(a) # {}
        /\ pc # "neighbours" =>
             \A a \in ReadyTracked : \A u \in NoveltyOf(a) : u.value >= Due(a, {})
        /\ pc \notin {"detect", "apply"} => updates = {}

LEMMA NeighboursFinite ==
    ASSUME TablesOK, NEW a \in Atom, NEW S
    PROVE  /\ IsFiniteSet({b \in Neighbours(a) : Kind[b] \in Tracked} \ S)
           /\ Due(a, S) \in Nat
<1> DEFINE T == {b \in Neighbours(a) : Kind[b] \in Tracked} \ S
<1>1. T \subseteq Atom
  BY DEF TablesOK, Neighbours
<1> HIDE DEF T
<1>2. IsFiniteSet(T) /\ Cardinality(T) \in Nat
  BY <1>1, AtomFinite, FS_Subset, FS_CardinalityType
<1> QED
  BY <1>2 DEF T, Due

\* Nothing that the invariant looks at changes.
LEMMA NoveltyKept ==
    ASSUME NoveltyInv, BoundsOK, crashes' >= crashes, faults' >= faults, BoundsOK',
           UNCHANGED <<ready, ph, updates>>,
           pc # "neighbours", pc' # "neighbours",
           pc \in {"detect", "apply"} => updates = {} \/ pc' = "apply"
    PROVE  NoveltyInv'
<1>1. Undisturbed' => Undisturbed
  BY DEF Undisturbed, BoundsOK
<1>2. \A a, S : Due(a, S)' = Due(a, S)
  BY DEF Due, Neighbours
<1>3. \A a : NoveltyOf(a)' = NoveltyOf(a)
  BY DEF NoveltyOf
<1> QED
  BY <1>1, <1>2, <1>3 DEF NoveltyInv, ReadyTracked, Covered

\* An item ends when all it computed is written.
LEMMA NoveltyEnds ==
    ASSUME NoveltyInv, EndItem, UNCHANGED <<ready, ph, boundVars>>,
           pc # "neighbours", updates = {}
    PROVE  NoveltyInv'
<1>1. Undisturbed' = Undisturbed
  BY Groups DEF Undisturbed
<1>2. \A a, S : Due(a, S)' = Due(a, S)
  BY DEF Due, Neighbours
<1>3. \A a : NoveltyOf(a) = {} /\ NoveltyOf(a)' = {}
  BY DEF EndItem, NoveltyOf
<1> QED
  BY <1>1, <1>2, <1>3 DEF NoveltyInv, ReadyTracked, Covered, EndItem

\* The neighbourhood is read: an atom that gained a neighbour is told.
LEMMA NoveltyRead ==
    ASSUME TypeOK, NoveltyInv, ReadNeighbours, Undisturbed
    PROVE  NoveltyInv'
<1>1. /\ pc = "neighbours" /\ cur \in Atom /\ TablesOK
      /\ UNCHANGED <<ready, ph, crashes, faults>>
  BY CurIsAtom, Groups DEF ReadNeighbours, TypeOK
<1>2. \A a \in ReadyTracked \ {cur} : Covered(a, {cur})
  BY <1>1 DEF NoveltyInv
<1>3. \A a, S : Due(a, S)' = Due(a, S)
  BY <1>1 DEF Due, Neighbours
<1>4. ReadyTracked \subseteq Atom
  BY <1>1 DEF ReadyTracked, TablesOK
<1>5. CASE Kind[cur] \notin Tracked
  <2>1. pc' = "idle" /\ updates' = {}
    BY <1>5 DEF ReadNeighbours, EndItem
  <2>2. \A a : {b \in Neighbours(a) : Kind[b] \in Tracked} \ {cur} =
               {b \in Neighbours(a) : Kind[b] \in Tracked} \ {}
    BY <1>5
  <2>3. \A a : Due(a, {cur}) = Due(a, {})
    BY <2>2 DEF Due
  <2>4. cur \notin ReadyTracked
    BY <1>5 DEF ReadyTracked
  <2> QED
    BY <1>1, <1>2, <1>3, <2>1, <2>3, <2>4
    DEF NoveltyInv, ReadyTracked, Covered, NoveltyOf
<1>6. CASE Kind[cur] \in Tracked
  <2> DEFINE N == Neighbours(cur)
  <2>1. pc' = "detect" /\ updates' = SignalUpdates(cur, N)
    BY <1>6 DEF ReadNeighbours
  <2>2. N \subseteq Atom /\ cur \notin N
    BY <1>1, GeometryAssumption DEF Neighbours, TablesOK, GeometryAssumption
  <2>3. \A u \in updates' : u.field = "novelty" => u \in NoveltyUpdates(cur, N)
    <3>1. ASSUME NEW u \in RepulsionUpdates(cur, N) PROVE u.field = "repulsion"
      <4>1. PICK x, v : u = Upd(x, "repulsion", v)
        BY <3>1, Zenon DEF RepulsionUpdates
      <4> QED
        BY <4>1 DEF Upd
    <3>2. updates' \subseteq NoveltyUpdates(cur, N) \cup RepulsionUpdates(cur, N)
      BY <2>1 DEF SignalUpdates
    <3> QED
      BY <3>1, <3>2
  <2>4. \A a \in ReadyTracked : a \notin N /\ a # cur => Due(a, {}) = Due(a, {cur})
    <3> SUFFICES ASSUME NEW a \in ReadyTracked, a \notin N, a # cur
                 PROVE  Due(a, {}) = Due(a, {cur})
      OBVIOUS
    <3>1. cur \notin Neighbours(a)
      BY <1>1, <1>4, GeometryAssumption DEF Neighbours, ReadyTracked, GeometryAssumption
    <3>2. {b \in Neighbours(a) : Kind[b] \in Tracked} \ {cur} =
          {b \in Neighbours(a) : Kind[b] \in Tracked} \ {}
      BY <3>1
    <3> QED
      BY <3>2 DEF Due
  <2>5. \A a \in ReadyTracked : Due(a, {}) <= Due(a, {cur}) + 1
    <3> TAKE a \in ReadyTracked
    <3> DEFINE T == {b \in Neighbours(a) : Kind[b] \in Tracked} \ {}
    <3>1. IsFiniteSet(T) /\ T \ {cur} = {b \in Neighbours(a) : Kind[b] \in Tracked} \ {cur}
      BY <1>1, <1>4, NeighboursFinite
    <3>2. Due(a, {}) = Cardinality(T) /\ Due(a, {cur}) = Cardinality(T \ {cur})
      BY <3>1 DEF Due
    <3>3. Cardinality(T) \in Nat
      BY <1>1, <1>4, <3>2, NeighboursFinite
    <3> HIDE DEF T
    <3>4. Cardinality(T \ {cur}) = IF cur \in T THEN Cardinality(T) - 1 ELSE Cardinality(T)
      BY <3>1, FS_RemoveElement
    <3> QED
      BY <3>2, <3>3, <3>4
  <2>6. Due(cur, {}) <= Cardinality(N)
    <3> DEFINE T == {b \in N : Kind[b] \in Tracked} \ {}
    <3>1. T \in SUBSET N /\ IsFiniteSet(N)
      BY <2>2, AtomFinite, FS_Subset
    <3>2. Due(cur, {}) = Cardinality(T)
      BY DEF Due
    <3> HIDE DEF T, N
    <3> QED
      BY <3>1, <3>2, FS_Subset
  <2>7. /\ Upd(cur, "novelty", Cardinality(N)) \in updates'
        /\ \A n \in N : Upd(n, "novelty", ph[n]["novelty"] + 1) \in updates'
    BY <2>1 DEF SignalUpdates, NoveltyUpdates, NoveltyAfterOneMore
  <2>8. \A u \in NoveltyUpdates(cur, N) :
           \/ u.atom = cur /\ u.value = Cardinality(N)
           \/ u.atom \in N /\ u.value = ph[u.atom]["novelty"] + 1
    BY DEF NoveltyUpdates, Upd, NoveltyAfterOneMore
  <2> HIDE DEF N
  <2>9. ASSUME NEW a \in ReadyTracked
        PROVE  Covered(a, {})' \/ NoveltyOf(a)' # {}
    <3>1. CASE a = cur
      <4>1. Upd(cur, "novelty", Cardinality(N)) \in NoveltyOf(a)'
        BY <2>7, <3>1 DEF NoveltyOf, Upd
      <4> QED
        BY <4>1
    <3>2. CASE a \in N
      <4>1. Upd(a, "novelty", ph[a]["novelty"] + 1) \in NoveltyOf(a)'
        BY <2>7, <3>2 DEF NoveltyOf, Upd
      <4> QED
        BY <4>1
    <3>3. CASE a \notin N /\ a # cur
      BY <1>1, <1>2, <1>3, <2>4, <3>3 DEF Covered
    <3> QED
      BY <3>1, <3>2, <3>3
  <2>10. ASSUME NEW a \in ReadyTracked, NEW u \in NoveltyOf(a)'
         PROVE  u.value >= Due(a, {})
    <3>1. u.atom = a /\ u \in NoveltyUpdates(cur, N)
      BY <2>3 DEF NoveltyOf
    <3>2. ph[a]["novelty"] \in Nat /\ Due(a, {}) \in Nat /\ Due(a, {cur}) \in Nat
      BY <1>1, <1>4, NeighboursFinite DEF TablesOK, Field
    <3>3. CASE a = cur
      BY <2>2, <2>6, <2>8, <3>1, <3>3
    <3>4. CASE a \in N /\ a # cur
      <4>1. u.value = ph[a]["novelty"] + 1 /\ ph[a]["novelty"] >= Due(a, {cur})
        BY <1>2, <2>8, <3>1, <3>4 DEF Covered
      <4> QED
        BY <2>5, <3>2, <4>1
    <3> QED
      BY <2>8, <3>1, <3>3, <3>4
  <2>11. ReadyTracked' = ReadyTracked
    BY <1>1 DEF ReadyTracked
  <2> QED
    BY <1>3, <2>1, <2>9, <2>10, <2>11 DEF NoveltyInv
<1> QED
  BY <1>5, <1>6

\* A column is written: what was in hand for it is what it must count.
LEMMA NoveltyApplied ==
    ASSUME TypeOK, NoveltyInv, ApplyUpdate, Undisturbed
    PROVE  NoveltyInv'
<1>1. PICK u \in updates :
        /\ ph' = [ph EXCEPT ![u.atom][u.field] =
                     IF u.field = "repulsion" THEN Least(@ + u.value, RepulsionCeiling)
                                              ELSE u.value]
        /\ updates' = updates \ {u}
  BY DEF ApplyUpdate
<1>2. UNCHANGED <<ready, pc, crashes, faults>> /\ pc = "apply"
  BY Groups DEF ApplyUpdate
<1>3. TablesOK /\ u.atom \in Atom /\ u.field \in Field
  BY DEF TypeOK, WorkerOK, Update
<1>4. \A a \in Atom : ph'[a]["novelty"] =
         IF u.atom = a /\ u.field = "novelty" THEN u.value ELSE ph[a]["novelty"]
  BY <1>1, <1>3 DEF TablesOK, Field
<1>5. \A a, S : Due(a, S)' = Due(a, S)
  BY <1>2 DEF Due, Neighbours
<1>6. ReadyTracked' = ReadyTracked /\ ReadyTracked \subseteq Atom
  BY <1>2, <1>3 DEF ReadyTracked, TablesOK
<1>7. \A a : NoveltyOf(a)' = NoveltyOf(a) \ {u}
  BY <1>1 DEF NoveltyOf
<1>8. ASSUME NEW a \in ReadyTracked PROVE Covered(a, {})' \/ NoveltyOf(a)' # {}
  <2>1. CASE u \in NoveltyOf(a)
    <3>1. ph'[a]["novelty"] = u.value
      BY <1>4, <1>6, <2>1 DEF NoveltyOf
    <3>2. u.value >= Due(a, {})
      BY <1>2, <2>1 DEF NoveltyInv
    <3> QED
      BY <1>5, <3>1, <3>2 DEF Covered
  <2>2. CASE u \notin NoveltyOf(a)
    <3>1. ph'[a]["novelty"] = ph[a]["novelty"] /\ NoveltyOf(a)' = NoveltyOf(a)
      BY <1>4, <1>6, <1>7, <2>2 DEF NoveltyOf
    <3> QED
      BY <1>2, <1>5, <3>1 DEF NoveltyInv, Covered
  <2> QED
    BY <2>1, <2>2
<1> QED
  BY <1>2, <1>5, <1>6, <1>7, <1>8 DEF NoveltyInv

LEMMA NoveltyStep ==
    TypeOK /\ TypeOK' /\ EvidenceInv /\ NoveltyInv /\ [Next]_vars => NoveltyInv'
<1> SUFFICES ASSUME TypeOK, TypeOK', EvidenceInv, NoveltyInv, [Next]_vars, Undisturbed'
             PROVE  NoveltyInv'
  BY DEF NoveltyInv
<1>1. TablesOK /\ WorkerOK /\ BoundsOK /\ BoundsOK' /\ Fresh
  BY DEF TypeOK, EvidenceInv
<1>2. CASE WorkerFault \/ Crash
  BY <1>1, <1>2 DEF WorkerFault, Crash, BoundsOK, Undisturbed
<1>3. ASSUME NEW a \in Atom, PublishRowsFail(a) PROVE FALSE
  BY <1>1, <1>3, FailedRowsCount DEF Undisturbed
<1>4. ASSUME UNCHANGED <<ready, ph, pc, cur, updates, boundVars>> PROVE NoveltyInv'
  <2>1. \A a, S : Due(a, S)' = Due(a, S)
    BY <1>4 DEF Due, Neighbours
  <2>2. \A a : NoveltyOf(a)' = NoveltyOf(a)
    BY <1>4 DEF NoveltyOf
  <2>3. Undisturbed' = Undisturbed
    BY <1>4, Groups DEF Undisturbed
  <2> QED
    BY <1>4, <2>1, <2>2, <2>3 DEF NoveltyInv, ReadyTracked, Covered
<1>5. ASSUME NEW a \in Atom,
             PublishCommit(a) \/ PublishSend(a) \/ PublishCache(a) \/ PublishRow(a)
               \/ PublishDone(a)
      PROVE  NoveltyInv'
  BY <1>4, <1>5, Groups
  DEF PublishCommit, PublishSend, PublishCache, PublishRow, PublishDone
<1>6. CASE Poll \/ PollNext \/ Recv
  <2>1. /\ UNCHANGED <<ready, ph, updates, crashes, faults>>
        /\ pc = "idle" /\ pc' \in {"idle", "embed"}
    BY <1>6, Groups DEF Poll, PollNext, Recv
  <2> QED
    BY <1>1, <2>1, NoveltyKept DEF BoundsOK
<1>7. CASE Embed
  <2>1. /\ pc = "embed" /\ pc' = "neighbours" /\ ready' = ready \cup {cur}
        /\ UNCHANGED <<ph, cur, updates, crashes, faults>> /\ updates = {}
    BY <1>1, <1>7, Groups DEF Embed, Fresh
  <2>2. ASSUME NEW a \in ReadyTracked' \ {cur} PROVE Covered(a, {cur})'
    <3>1. a \in ReadyTracked /\ a \in Atom
      BY <1>1, <2>1, <2>2 DEF ReadyTracked, TablesOK
    <3>2. NoveltyOf(a) = {}
      BY <2>1 DEF NoveltyOf
    <3>3. ph[a]["novelty"] >= Due(a, {})
      BY <2>1, <3>1, <3>2 DEF NoveltyInv, Undisturbed, Covered
    <3> DEFINE T == {b \in Neighbours(a) : Kind[b] \in Tracked} \ {}
               U == ({b \in Neighbours(a) : Kind[b] \in Tracked} \ {cur})'
    <3>4. U \in SUBSET T
      BY <2>1 DEF Neighbours
    <3>5. IsFiniteSet(T) /\ Due(a, {}) = Cardinality(T) /\ Due(a, {}) \in Nat
      BY <1>1, <3>1, NeighboursFinite DEF Due
    <3>6. Due(a, {cur})' = Cardinality(U)
      BY DEF Due
    <3>7. ph[a]["novelty"] \in Nat
      BY <1>1, <3>1 DEF TablesOK, Field
    <3> HIDE DEF T, U
    <3>8. Cardinality(U) <= Cardinality(T) /\ Cardinality(U) \in Nat
      BY <3>4, <3>5, FS_Subset, FS_CardinalityType
    <3> QED
      BY <2>1, <3>3, <3>5, <3>6, <3>7, <3>8 DEF Covered
  <2> QED
    BY <2>1, <2>2 DEF NoveltyInv
<1>8. CASE EmbedFails \/ Finish
  <2>1. /\ EndItem /\ UNCHANGED <<ready, ph, boundVars>>
        /\ pc \in {"embed", "replicate"}
    BY <1>8, Groups DEF EmbedFails, Finish
  <2>2. updates = {}
    BY <2>1, Groups DEF NoveltyInv, Undisturbed
  <2> QED
    BY <2>1, <2>2, NoveltyEnds
<1>9. CASE ReadNeighbours
  <2>1. Undisturbed
    BY <1>9, Groups DEF ReadNeighbours, Undisturbed
  <2> QED
    BY <1>9, <2>1, NoveltyRead
<1>10. CASE DetectContradictions
  <2>1. /\ pc = "detect" /\ pc' = "apply" /\ UNCHANGED <<ready, ph, crashes, faults>>
        /\ updates' = updates \cup
             {Upd(c, "disagreement", NewDisagreement(c)) : c \in Contradicted(cur, nbrs)}
    BY <1>10, Groups DEF DetectContradictions
  <2>2. \A a : NoveltyOf(a)' = NoveltyOf(a)
    BY <2>1 DEF NoveltyOf, Upd
  <2>3. \A a, S : Due(a, S)' = Due(a, S)
    BY <2>1 DEF Due, Neighbours
  <2> QED
    BY <2>1, <2>2, <2>3 DEF NoveltyInv, Undisturbed, ReadyTracked, Covered
<1>11. CASE ApplyUpdate
  <2>1. Undisturbed
    BY <1>11, Groups DEF ApplyUpdate, Undisturbed
  <2> QED
    BY <1>11, <2>1, NoveltyApplied
<1>12. CASE InsertContradicts \/ InsertReplicates \/ BumpReplication
  <2>1. /\ UNCHANGED <<ready, ph, updates, crashes, faults>>
        /\ pc # "neighbours" /\ pc' # "neighbours"
        /\ pc \in {"detect", "apply"} => updates = {}
    BY <1>12, Groups DEF InsertContradicts, InsertReplicates, BumpReplication
  <2> QED
    BY <1>1, <2>1, NoveltyKept DEF BoundsOK
<1>13. CASE CacheContradicts \/ CacheReplicates
  <2>1. /\ UNCHANGED <<ready, ph, boundVars>>
        /\ pc \in {"contradict_cache", "replicate_cache"}
        /\ EndItem \/ (pc' \in {"apply", "replicate"} /\ UNCHANGED updates)
    BY <1>13, Groups DEF CacheContradicts, CacheReplicates
  <2>2. updates = {}
    BY <2>1, Groups DEF NoveltyInv, Undisturbed
  <2>3. CASE EndItem
    BY <2>1, <2>2, <2>3, NoveltyEnds
  <2>4. CASE pc' \in {"apply", "replicate"} /\ UNCHANGED updates
    BY <1>1, <2>1, <2>4, NoveltyKept, Groups DEF BoundsOK
  <2> QED
    BY <2>1, <2>3, <2>4
<1>14. CASE DetectReplications
  <2>1. /\ UNCHANGED <<ready, ph, boundVars>> /\ pc = "apply" /\ updates = {}
        /\ EndItem \/ (pc' = "replicate" /\ UNCHANGED updates)
    BY <1>14, Groups DEF DetectReplications
  <2>2. CASE EndItem
    BY <2>1, <2>2, NoveltyEnds
  <2>3. CASE pc' = "replicate" /\ UNCHANGED updates
    BY <1>1, <2>1, <2>3, NoveltyKept, Groups DEF BoundsOK
  <2> QED
    BY <2>1, <2>2, <2>3
<1>15. CASE UNCHANGED vars
  BY <1>4, <1>15, Groups DEF vars
<1> QED
  BY <1>2, <1>3, <1>5, <1>6, <1>7, <1>8, <1>9, <1>10, <1>11, <1>12, <1>13, <1>14, <1>15
  DEF Next, Publishing, ProcessAtom

\* With no crash and no failed call, between items a tracked atom counts at
\* least the tracked atoms embedded near it.
THEOREM NoveltyCounts == Spec => []NoveltyNotInflated
<1>1. Init => NoveltyInv
  BY DEF Init, NoveltyInv, ReadyTracked
<1>2. NoveltyInv => NoveltyNotInflated
  <2> SUFFICES ASSUME NoveltyInv, pc = "idle", Undisturbed,
                      NEW a \in ready, Kind[a] \in Tracked
               PROVE  ph[a]["novelty"] >= Cardinality(TrackedNeighbours(a))
    BY DEF NoveltyNotInflated
  <2>1. a \in ReadyTracked /\ NoveltyOf(a) = {}
    BY DEF ReadyTracked, NoveltyInv, NoveltyOf
  <2>2. {b \in Neighbours(a) : Kind[b] \in Tracked} \ {} = TrackedNeighbours(a)
    BY DEF TrackedNeighbours
  <2> QED
    BY <2>1, <2>2 DEF NoveltyInv, Covered, Due
<1> QED
  BY <1>1, <1>2, NoveltyStep, EvidenceInvInit, EvidenceInvStep, TypeCorrect, PTL DEF Spec
---------------------------------------------------------------------------
(* How often.  An atom that is ready is taken once more only from the      *)
(* channel, where it comes once; what a neighbour may still add to an      *)
(* atom's novelty, together with what is written or in hand, stays within  *)
(* two for each neighbour.                                                 *)

\* An id is sent once, and after its row.
SentOnce ==
    \A i \in 1..Len(channel) :
        /\ pub[channel[i]] \notin {"unborn", "send"}
        /\ \A j \in 1..Len(channel) : channel[i] = channel[j] => i = j

\* What is not published is nowhere.
Begun ==
    \A a \in Atom : pub[a] = "unborn" => born[a] = 0 /\ a \notin ready \cup batch /\ a # cur

\* The rest of a poll is pending but for nothing: only the worker embeds.
TakenPending ==
    /\ batch \cap ready = {}
    /\ pc = "embed" => cur \notin batch
    /\ pc \notin {"idle", "embed"} => cur \in ready

Passage == SentOnce /\ Begun /\ TakenPending

LEMMA SendStep ==
    ASSUME RequestsOK, SentOnce, NEW a \in Atom, PublishSend(a)
    PROVE  SentOnce'
<1>1. /\ channel' = Append(channel, a) /\ pub[a] = "send"
      /\ pub' = [pub EXCEPT ![a] = "cache"]
  BY DEF PublishSend
<1>2. channel \in Seq(Atom) /\ pub \in [Atom -> PubStep]
  BY DEF RequestsOK
<1>3. \A i \in 1..Len(channel) : channel[i] \in Atom /\ channel[i] # a
  BY <1>1, <1>2 DEF SentOnce
<1>4. Len(channel') = Len(channel) + 1 /\ Len(channel) \in Nat
  BY <1>1, <1>2
<1>5. \A i \in 1..Len(channel') :
         channel'[i] = IF i = Len(channel) + 1 THEN a ELSE channel[i]
  BY <1>1, <1>2
<1>6. ASSUME NEW i \in 1..Len(channel') PROVE pub'[channel'[i]] \notin {"unborn", "send"}
  <2>1. CASE i = Len(channel) + 1
    BY <1>1, <1>2, <1>5, <2>1
  <2>2. CASE i # Len(channel) + 1
    <3>1. i \in 1..Len(channel) /\ channel'[i] = channel[i]
      BY <1>4, <1>5, <2>2
    <3> QED
      BY <1>1, <1>2, <1>3, <3>1 DEF SentOnce
  <2> QED
    BY <2>1, <2>2
<1>7. ASSUME NEW i \in 1..Len(channel'), NEW j \in 1..Len(channel'), channel'[i] = channel'[j]
      PROVE  i = j
  BY <1>3, <1>4, <1>5, <1>7 DEF SentOnce
<1> QED
  BY <1>6, <1>7 DEF SentOnce

LEMMA RecvStep ==
    ASSUME RequestsOK, SentOnce, Recv
    PROVE  /\ SentOnce'
           /\ pub[cur'] \notin {"unborn", "send"}
           /\ \A n : (\E i \in 1..Len(channel') : channel'[i] = n) <=>
                        (\E i \in 1..Len(channel) : channel[i] = n) /\ n # cur'
           /\ \E i \in 1..Len(channel) : channel[i] = cur'
<1>1. channel # <<>> /\ channel' = Tail(channel) /\ cur' = Head(channel) /\ pub' = pub
  BY DEF Recv
<1>2. channel \in Seq(Atom)
  BY DEF RequestsOK
<1>3. /\ Len(channel) \in Nat \ {0} /\ Len(channel') = Len(channel) - 1
      /\ cur' = channel[1]
      /\ \A i \in 1..Len(channel') : channel'[i] = channel[i + 1]
  BY <1>1, <1>2
<1>4. SentOnce'
  BY <1>1, <1>3 DEF SentOnce
<1>5. ASSUME NEW n, NEW i \in 1..Len(channel), channel[i] = n, n # cur'
      PROVE  \E k \in 1..Len(channel') : channel'[k] = n
  <2>1. i - 1 \in 1..Len(channel') /\ channel'[i - 1] = n
    BY <1>3, <1>5
  <2> QED
    BY <2>1
<1>6. ASSUME NEW n, NEW i \in 1..Len(channel'), channel'[i] = n
      PROVE  (\E k \in 1..Len(channel) : channel[k] = n) /\ n # cur'
  <2>1. i + 1 \in 1..Len(channel) /\ channel[i + 1] = n /\ 1 \in 1..Len(channel) /\ i + 1 # 1
    BY <1>3, <1>6
  <2> QED
    BY <1>3, <2>1 DEF SentOnce
<1> QED
  BY <1>3, <1>4, <1>5, <1>6 DEF SentOnce, Recv

LEMMA PassageStep == TypeOK /\ Passage /\ [Next]_vars => Passage'
<1> SUFFICES ASSUME TypeOK, Passage, [Next]_vars PROVE Passage'
  OBVIOUS
<1>1. /\ TablesOK /\ RequestsOK /\ WorkerOK
      /\ SentOnce /\ Begun /\ TakenPending
  BY DEF TypeOK, Passage
<1>2. channel \in Seq(Atom) /\ pub \in [Atom -> PubStep] /\ born \in [Atom -> Nat]
  BY <1>1 DEF RequestsOK, TablesOK
<1>3. \A i \in 1..Len(channel) : channel[i] \in Atom
  BY <1>2
<1>4. ASSUME UNCHANGED <<born, ready, channel, pub>>, batch' \subseteq batch,
             \/ pc' = "idle" /\ cur' = None
             \/ pc \notin {"idle", "embed"} /\ cur' = cur /\ pc' \notin {"idle", "embed"}
      PROVE  Passage'
  BY <1>1, <1>4, Constants DEF SentOnce, Begun, TakenPending, Passage
<1>5. ASSUME NEW a \in Atom, PublishCommit(a) PROVE Passage'
  <2>1. /\ pub[a] = "unborn" /\ pub' = [pub EXCEPT ![a] = "send"]
        /\ born' = [born EXCEPT ![a] = Cardinality(Published) + 1]
        /\ UNCHANGED <<ready, channel, pc, cur, batch>>
    BY <1>5, Groups DEF PublishCommit
  <2> QED
    BY <1>1, <1>2, <1>3, <2>1 DEF SentOnce, Begun, TakenPending, Passage
<1>6. ASSUME NEW a \in Atom, PublishSend(a) PROVE Passage'
  <2>1. /\ pub[a] = "send" /\ pub' = [pub EXCEPT ![a] = "cache"]
        /\ UNCHANGED <<born, ready, pc, cur, batch>>
    BY <1>6, Groups DEF PublishSend
  <2>2. SentOnce'
    BY <1>1, <1>6, SendStep
  <2> QED
    BY <1>1, <1>2, <2>1, <2>2 DEF Begun, TakenPending, Passage
<1>7. ASSUME NEW a \in Atom,
             PublishCache(a) \/ PublishRow(a) \/ PublishRowsFail(a) \/ PublishDone(a)
      PROVE  Passage'
  <2>1. UNCHANGED <<born, ready, channel, pc, cur, batch>>
    BY <1>7, Groups DEF PublishCache, PublishRow, PublishRowsFail, PublishDone
  <2>2. \/ UNCHANGED pub
        \/ pub[a] \in {"cache", "rows"} /\ pub' = [pub EXCEPT ![a] = "rows"]
        \/ pub[a] \in {"cache", "rows"} /\ pub' = [pub EXCEPT ![a] = "done"]
    BY <1>7 DEF PublishCache, PublishRow, PublishRowsFail, PublishDone
  <2> QED
    BY <1>1, <1>2, <1>3, <2>1, <2>2 DEF SentOnce, Begun, TakenPending, Passage
<1>8. CASE Poll
  <2>1. /\ batch' \subseteq Published \ ready /\ pc = "idle" /\ pc' = "idle" /\ cur' = cur
        /\ UNCHANGED <<born, ready, channel, pub>>
    BY <1>8, Groups DEF Poll, OldestPending, Pending
  <2> QED
    BY <1>1, <2>1 DEF SentOnce, Begun, TakenPending, Passage, Published
<1>9. CASE PollNext
  <2>1. PICK a \in batch : batch' = batch \ {a} /\ cur' = a
    BY <1>9 DEF PollNext
  <2>2. pc' = "embed" /\ UNCHANGED <<born, ready, channel, pub>>
    BY <1>9, Groups DEF PollNext
  <2> QED
    BY <1>1, <2>1, <2>2 DEF SentOnce, Begun, TakenPending, Passage
<1>10. CASE Recv
  <2>1. /\ SentOnce' /\ pub[cur'] # "unborn"
    BY <1>1, <1>10, RecvStep
  <2>2. pc' = "embed" /\ batch = {} /\ batch' = {} /\ UNCHANGED <<born, ready, pub>>
    BY <1>10, Groups DEF Recv
  <2> QED
    BY <1>1, <2>1, <2>2 DEF Begun, TakenPending, Passage
<1>11. CASE Embed
  <2>1. /\ pc = "embed" /\ pc' = "neighbours" /\ ready' = ready \cup {cur}
        /\ UNCHANGED <<born, channel, pub, cur, batch>>
    BY <1>11, Groups DEF Embed
  <2> QED
    BY <1>1, <2>1 DEF SentOnce, Begun, TakenPending, Passage
<1>12. CASE EmbedFails \/ Finish \/ WorkerFault
  BY <1>4, <1>12, Groups DEF EmbedFails, Finish, WorkerFault, EndItem
<1>13. CASE ReadNeighbours
  <2>1. UNCHANGED <<born, ready, channel, pub, batch>> /\ pc = "neighbours"
    BY <1>13, Groups DEF ReadNeighbours, EndItem
  <2>2. (pc' = "idle" /\ cur' = None) \/ (cur' = cur /\ pc' = "detect")
    BY <1>13 DEF ReadNeighbours, EndItem
  <2> QED
    BY <1>4, <2>1, <2>2
<1>14. CASE DetectContradictions \/ ApplyUpdate \/ InsertContradicts \/ InsertReplicates
            \/ BumpReplication
  BY <1>4, <1>14, Groups
  DEF DetectContradictions, ApplyUpdate, InsertContradicts, InsertReplicates, BumpReplication
<1>15. CASE CacheContradicts \/ DetectReplications \/ CacheReplicates
  <2>1. UNCHANGED <<born, ready, channel, pub, batch>> /\ pc \notin {"idle", "embed"}
    BY <1>15, Groups DEF CacheContradicts, DetectReplications, CacheReplicates, EndItem
  <2>2. \/ pc' = "idle" /\ cur' = None
        \/ cur' = cur /\ pc' \in {"apply", "replicate"}
    BY <1>15 DEF CacheContradicts, DetectReplications, CacheReplicates, EndItem
  <2> QED
    BY <1>4, <2>1, <2>2
<1>16. CASE Crash
  <2>1. /\ channel' = <<>> /\ batch' = {} /\ pc' = "idle" /\ cur' = None
        /\ pub' = [a \in Atom |-> IF pub[a] = "unborn" THEN "unborn" ELSE "done"]
        /\ UNCHANGED <<born, ready>>
    BY <1>16, Groups DEF Crash
  <2> QED
    BY <1>1, <2>1, Constants DEF SentOnce, Begun, TakenPending, Passage
<1>17. CASE UNCHANGED vars
  BY <1>1, <1>17, Groups DEF vars, SentOnce, Begun, TakenPending, Passage
<1> QED
  BY <1>5, <1>6, <1>7, <1>8, <1>9, <1>10, <1>11, <1>12, <1>13, <1>14, <1>15, <1>16, <1>17
  DEF Next, Publishing, ProcessAtom
\* The ids on their way to the worker, and what it has taken and not counted.
Queued == {n \in Atom : pub[n] = "send" \/ \E i \in 1..Len(channel) : channel[i] = n}
Counting == IF pc \in {"embed", "neighbours"} THEN {cur} ELSE {}

\* How often neighbours may still add to a.
Coming(a) == Cardinality(Neighbours(a) \cap Queued) + Cardinality(Neighbours(a) \cap Counting)

Room(a, v) == v + Coming(a) <= 2 * Cardinality(Neighbours(a))

TwiceInv ==
    \A a \in Atom :
        /\ Room(a, ph[a]["novelty"])
        /\ \A u \in NoveltyOf(a) : Room(a, u.value)

LEMMA SomeOf ==
    ASSUME NEW N \in SUBSET Atom, NEW Q
    PROVE  /\ IsFiniteSet(N) /\ IsFiniteSet(N \cap Q)
           /\ Cardinality(N) \in Nat /\ Cardinality(N \cap Q) \in 0..Cardinality(N)
<1>1. IsFiniteSet(N) /\ Cardinality(N) \in Nat
  BY AtomFinite, FS_Subset, FS_CardinalityType
<1>2. N \cap Q \in SUBSET N
  OBVIOUS
<1>3. IsFiniteSet(N \cap Q) /\ Cardinality(N \cap Q) <= Cardinality(N)
  BY <1>1, <1>2, FS_Subset
<1>4. Cardinality(N \cap Q) \in Nat
  BY <1>3, FS_CardinalityType
<1> QED
  BY <1>1, <1>3, <1>4

\* A set of atoms, one more or one fewer.
LEMMA OneMore ==
    ASSUME NEW N \in SUBSET Atom, NEW Q, NEW c \in Atom
    PROVE  /\ Cardinality(N) \in Nat /\ Cardinality(N \cap Q) \in 0..Cardinality(N)
           /\ Cardinality(N \cap {c}) = (IF c \in N THEN 1 ELSE 0)
           /\ c \notin N => Cardinality(N \cup {c}) = Cardinality(N) + 1
           /\ c \notin N => /\ Cardinality((N \cup {c}) \cap Q) \in Nat
                            /\ Cardinality((N \cup {c}) \cap Q) <= Cardinality(N \cap Q) + 1
           /\ Cardinality(N \cap (Q \ {c})) + (IF c \in N \cap Q THEN 1 ELSE 0) = Cardinality(N \cap Q)
<1>1. IsFiniteSet(N) /\ Cardinality(N) \in Nat
  BY SomeOf
<1>2. IsFiniteSet(N \cap Q) /\ Cardinality(N \cap Q) \in 0..Cardinality(N)
  BY SomeOf
<1>3. Cardinality(N \cap {c}) = (IF c \in N THEN 1 ELSE 0)
  <2>1. N \cap {c} = IF c \in N THEN {c} ELSE {}
    OBVIOUS
  <2> QED
    BY <2>1, FS_Singleton, FS_EmptySet
<1>4. c \notin N => Cardinality(N \cup {c}) = Cardinality(N) + 1
  BY <1>1, FS_AddElement
<1>5. ASSUME c \notin N
      PROVE  /\ Cardinality((N \cup {c}) \cap Q) \in Nat
             /\ Cardinality((N \cup {c}) \cap Q) <= Cardinality(N \cap Q) + 1
  <2>1. (N \cup {c}) \cap Q = IF c \in Q THEN (N \cap Q) \cup {c} ELSE N \cap Q
    OBVIOUS
  <2>2. Cardinality((N \cap Q) \cup {c}) = Cardinality(N \cap Q) + 1
    BY <1>2, <1>5, FS_AddElement
  <2> QED
    BY <1>1, <1>2, <2>1, <2>2
<1>6. Cardinality(N \cap (Q \ {c})) + (IF c \in N \cap Q THEN 1 ELSE 0) = Cardinality(N \cap Q)
  <2>1. N \cap (Q \ {c}) = (N \cap Q) \ {c}
    OBVIOUS
  <2> DEFINE M == N \cap Q
  <2>2. Cardinality(M \ {c}) = IF c \in M THEN Cardinality(M) - 1 ELSE Cardinality(M)
    BY <1>2, FS_RemoveElement
  <2>3. Cardinality(M) \in Nat
    BY <1>1, <1>2
  <2> QED
    BY <2>1, <2>2, <2>3
<1> QED
  BY <1>1, <1>2, <1>3, <1>4, <1>5, <1>6

\* The counts of neighbours are numbers.
LEMMA ComingType ==
    ASSUME TablesOK, WorkerOK, NEW a \in Atom
    PROVE  /\ Neighbours(a) \in SUBSET Atom /\ Cardinality(Neighbours(a)) \in Nat
           /\ Coming(a) \in Nat /\ ph[a]["novelty"] \in Nat
<1>1. Neighbours(a) \in SUBSET Atom
  BY DEF TablesOK, Neighbours
<1>2. /\ Cardinality(Neighbours(a) \cap Queued) \in Nat
      /\ Cardinality(Neighbours(a) \cap Counting) \in Nat /\ Cardinality(Neighbours(a)) \in Nat
  BY <1>1, SomeOf
<1> QED
  BY <1>1, <1>2 DEF Coming, TablesOK, Field

\* Nothing is counted, and nobody gets another turn.
LEMMA TwiceKept ==
    ASSUME TablesOK, WorkerOK, TwiceInv, UNCHANGED <<ready, ph>>,
           \A a : NoveltyOf(a)' \subseteq NoveltyOf(a),
           ready \cap Queued' \subseteq Queued, ready \cap Counting' \subseteq Counting
    PROVE  TwiceInv'
<1> SUFFICES ASSUME NEW a \in Atom
             PROVE  Neighbours(a)' = Neighbours(a) /\ Coming(a)' \in Nat /\ Coming(a)' <= Coming(a)
  <2>1. \A b \in Atom : ph[b]["novelty"] \in Nat /\ Cardinality(Neighbours(b)) \in Nat /\ Coming(b) \in Nat
    BY ComingType
  <2>2. \A b \in Atom : \A u \in NoveltyOf(b) : u.value \in Nat
    BY DEF NoveltyOf, WorkerOK, Update
  <2> QED
    BY <2>1, <2>2 DEF TwiceInv, Room
<1> DEFINE N == Neighbours(a)
<1>1. Neighbours(a)' = N /\ N \in SUBSET Atom /\ N \subseteq ready
  BY DEF Neighbours, TablesOK
<1>2. /\ N \cap Queued' \in SUBSET (N \cap Queued)
      /\ N \cap Counting' \in SUBSET (N \cap Counting)
  BY <1>1
<1>3. Coming(a)' = Cardinality(N \cap Queued') + Cardinality(N \cap Counting')
  BY <1>1 DEF Coming
<1> HIDE DEF N
<1>4. IsFiniteSet(N \cap Queued) /\ IsFiniteSet(N \cap Counting)
  BY <1>1, AtomFinite, FS_Subset
<1>5. /\ Cardinality(N \cap Queued') <= Cardinality(N \cap Queued)
      /\ Cardinality(N \cap Counting') <= Cardinality(N \cap Counting)
  BY <1>2, <1>4, FS_Subset
<1>6. /\ Cardinality(N \cap Queued') \in Nat /\ Cardinality(N \cap Counting') \in Nat
      /\ Cardinality(N \cap Queued) \in Nat /\ Cardinality(N \cap Counting) \in Nat
  BY <1>1, SomeOf
<1>7. Coming(a) = Cardinality(N \cap Queued) + Cardinality(N \cap Counting)
  BY DEF Coming, N
<1>8. Coming(a)' \in Nat /\ Coming(a)' <= Coming(a)
  BY <1>3, <1>5, <1>6, <1>7
<1>9. Neighbours(a)' = Neighbours(a)
  BY <1>1 DEF N
<1> QED
  BY <1>8, <1>9

\* The worker takes an id from the channel: the turn is the same.
LEMMA TwiceRecv == TypeOK /\ Passage /\ TwiceInv /\ Recv => TwiceInv'
<1> SUFFICES ASSUME TypeOK, Passage, TwiceInv, Recv PROVE TwiceInv'
  OBVIOUS
<1>1. TablesOK /\ RequestsOK /\ WorkerOK /\ SentOnce
  BY DEF TypeOK, Passage
<1>2. pc = "idle" /\ pc' = "embed" /\ UNCHANGED <<ready, ph, pub, updates>>
  BY Groups DEF Recv
<1>3. /\ pub[cur'] # "send"
      /\ \A n : (\E i \in 1..Len(channel') : channel'[i] = n) <=>
                   (\E i \in 1..Len(channel) : channel[i] = n) /\ n # cur'
      /\ \E i \in 1..Len(channel) : channel[i] = cur'
  BY <1>1, RecvStep
<1>4. cur' \in Atom
  BY <1>1, <1>3 DEF RequestsOK
<1>5. Queued' = Queued \ {cur'} /\ cur' \in Queued
  BY <1>2, <1>3, <1>4 DEF Queued
<1>6. Counting = {} /\ Counting' = {cur'}
  BY <1>2 DEF Counting
<1>7. ASSUME NEW a \in Atom PROVE Neighbours(a)' = Neighbours(a) /\ Coming(a)' = Coming(a)
  <2> DEFINE N == Neighbours(a)
             Q == Queued
             c == cur'
  <2>1. Neighbours(a)' = N /\ N \in SUBSET Atom
    BY <1>1, <1>2 DEF Neighbours, TablesOK
  <2>2. /\ Coming(a)' = Cardinality(N \cap (Q \ {c})) + Cardinality(N \cap {c})
        /\ Coming(a) = Cardinality(N \cap Q) + Cardinality(N \cap {})
    BY <1>5, <1>6, <2>1 DEF Coming
  <2>3. c \in Q /\ c \in Atom
    BY <1>4, <1>5
  <2> HIDE DEF N, Q, c
  <2>4. /\ Cardinality(N \cap (Q \ {c})) + (IF c \in N \cap Q THEN 1 ELSE 0) = Cardinality(N \cap Q)
        /\ Cardinality(N \cap {c}) = IF c \in N THEN 1 ELSE 0
        /\ Cardinality(N \cap Q) \in Nat
    BY <2>1, <2>3, OneMore
  <2>5. Cardinality(N \cap {}) = 0
    BY FS_EmptySet
  <2>6. c \in N \cap Q <=> c \in N
    BY <2>3
  <2> QED
    BY <2>1, <2>2, <2>4, <2>5, <2>6 DEF N
<1>8. \A a : NoveltyOf(a)' = NoveltyOf(a)
  BY <1>2 DEF NoveltyOf
<1> QED
  BY <1>2, <1>7, <1>8 DEF TwiceInv, Room

\* An atom becomes ready: two turns at most are to come, and room for two.
LEMMA TwiceEmbed == TypeOK /\ TwiceInv /\ Embed => TwiceInv'
<1> SUFFICES ASSUME TypeOK, TwiceInv, Embed PROVE TwiceInv'
  OBVIOUS
<1>1. /\ TablesOK /\ WorkerOK
      /\ pc = "embed" /\ pc' = "neighbours" /\ ready' = ready \cup {cur}
      /\ UNCHANGED <<ph, updates, cur, pub, channel>> /\ cur \in Atom
  BY CurIsAtom, Groups DEF Embed, TypeOK
<1>2. Queued' = Queued /\ Counting' = {cur} /\ Counting = {cur}
  BY <1>1 DEF Queued, Counting
<1>3. \A a : NoveltyOf(a)' = NoveltyOf(a)
  BY <1>1 DEF NoveltyOf
<1>4. ASSUME NEW a \in Atom, NEW v \in Nat, Room(a, v) PROVE Room(a, v)'
  <2> DEFINE N == Neighbours(a)
             Q == Queued
             c == cur
  <2>1. N \in SUBSET Atom /\ c \in Atom
    BY <1>1 DEF Neighbours, TablesOK
  <2>2. Neighbours(a)' = N \/ (c \notin N /\ Neighbours(a)' = N \cup {c})
    BY <1>1 DEF Neighbours
  <2>3. Coming(a)' = Cardinality(Neighbours(a)' \cap Q) + Cardinality(Neighbours(a)' \cap {c})
    BY <1>2 DEF Coming
  <2>4. /\ Coming(a) = Cardinality(N \cap Q) + Cardinality(N \cap {c})
        /\ v + Coming(a) <= 2 * Cardinality(N)
    BY <1>2, <1>4 DEF Coming, Room
  <2>5. CASE Neighbours(a)' = N
    BY <2>3, <2>4, <2>5 DEF Room
  <2>6. CASE c \notin N /\ Neighbours(a)' = N \cup {c}
    <3> HIDE DEF N, Q, c
    <3>1. /\ Cardinality(N) \in Nat /\ Cardinality(N \cap Q) \in Nat
          /\ Cardinality(N \cap {c}) = 0
          /\ Cardinality(N \cup {c}) = Cardinality(N) + 1
          /\ Cardinality((N \cup {c}) \cap Q) \in Nat
          /\ Cardinality((N \cup {c}) \cap Q) <= Cardinality(N \cap Q) + 1
      BY <2>1, <2>6, OneMore
    <3>2. (N \cup {c}) \cap {c} = {c}
      OBVIOUS
    <3>3. Cardinality((N \cup {c}) \cap {c}) = 1
      BY <3>2, FS_Singleton
    <3> QED
      BY <2>3, <2>4, <2>6, <3>1, <3>3 DEF Room
  <2> QED
    BY <2>2, <2>5, <2>6
<1>5. \A a \in Atom : ph[a]["novelty"] \in Nat /\ \A u \in NoveltyOf(a) : u.value \in Nat
  BY <1>1 DEF TablesOK, WorkerOK, Update, Field, NoveltyOf
<1> QED
  BY <1>1, <1>3, <1>4, <1>5 DEF TwiceInv
\* The neighbourhood is read: whoever is told has the atom for a neighbour,
\* whose turn it was.
LEMMA TwiceRead == TypeOK /\ EvidenceInv /\ Passage /\ TwiceInv /\ ReadNeighbours => TwiceInv'
<1> SUFFICES ASSUME TypeOK, EvidenceInv, Passage, TwiceInv, ReadNeighbours PROVE TwiceInv'
  OBVIOUS
<1>1. /\ TablesOK /\ WorkerOK /\ pc = "neighbours" /\ pc' \in {"idle", "detect"}
      /\ UNCHANGED <<ready, ph, pub, channel>> /\ cur \in Atom /\ cur \in ready /\ updates = {}
  BY CurIsAtom, Groups
  DEF ReadNeighbours, EndItem, TypeOK, Passage, TakenPending, EvidenceInv, Fresh
<1>2. Queued' = Queued /\ Counting' = {} /\ Counting = {cur}
  BY <1>1 DEF Queued, Counting
<1>3. CASE Kind[cur] \notin Tracked
  <2>1. updates' = {}
    BY <1>3 DEF ReadNeighbours, EndItem
  <2>2. \A a : NoveltyOf(a)' \subseteq NoveltyOf(a)
    BY <2>1 DEF NoveltyOf
  <2> QED
    BY <1>1, <1>2, <2>2, TwiceKept
<1>4. CASE Kind[cur] \in Tracked
  <2>1. updates' = SignalUpdates(cur, Neighbours(cur))
    BY <1>4 DEF ReadNeighbours
  <2>2. ASSUME NEW a \in Atom, NEW u \in NoveltyOf(a)'
        PROVE  \/ a = cur /\ u.value = Cardinality(Neighbours(a))
               \/ cur \in Neighbours(a) /\ u.value = ph[a]["novelty"] + 1
    <3>1. u \in SignalUpdates(cur, Neighbours(cur)) /\ u.atom = a /\ u.field = "novelty"
      BY <2>1, <2>2 DEF NoveltyOf
    <3>2. u \in NoveltyUpdates(cur, Neighbours(cur))
      <4>1. ASSUME u \in RepulsionUpdates(cur, Neighbours(cur)) PROVE FALSE
        <5>1. PICK x, v : u = Upd(x, "repulsion", v)
          BY <4>1, Zenon DEF RepulsionUpdates
        <5> QED
          BY <3>1, <5>1 DEF Upd
      <4> QED
        BY <3>1, <4>1 DEF SignalUpdates
    <3>3. \/ a = cur /\ u.value = Cardinality(Neighbours(cur))
          \/ a \in Neighbours(cur) /\ u.value = ph[a]["novelty"] + 1
      BY <3>1, <3>2 DEF NoveltyUpdates, Upd, NoveltyAfterOneMore
    <3>4. a \in Neighbours(cur) => cur \in Neighbours(a)
      BY <1>1, GeometryAssumption DEF Neighbours, GeometryAssumption
    <3> QED
      BY <3>3, <3>4
  <2>3. ASSUME NEW a \in Atom
        PROVE  /\ ph[a]["novelty"] + Coming(a)' <= 2 * Cardinality(Neighbours(a))
               /\ Cardinality(Neighbours(a)) + Coming(a)' <= 2 * Cardinality(Neighbours(a))
               /\ cur \in Neighbours(a) =>
                    ph[a]["novelty"] + 1 + Coming(a)' <= 2 * Cardinality(Neighbours(a))
    <3> DEFINE N == Neighbours(a)
               v == ph[a]["novelty"]
    <3>1. N \in SUBSET Atom /\ Neighbours(a)' = N /\ v \in Nat
      BY <1>1 DEF Neighbours, TablesOK, Field
    <3>2. v + (Cardinality(N \cap Queued) + Cardinality(N \cap {cur})) <= 2 * Cardinality(N)
      BY <1>2 DEF TwiceInv, Room, Coming
    <3>3. Coming(a)' = Cardinality(N \cap Queued) + Cardinality(N \cap {})
      BY <1>2, <3>1 DEF Coming
    <3> HIDE DEF N, v
    <3>4. /\ Cardinality(N) \in Nat /\ Cardinality(N \cap Queued) \in 0..Cardinality(N)
          /\ Cardinality(N \cap {cur}) = (IF cur \in N THEN 1 ELSE 0)
          /\ Cardinality(N \cap {}) = 0
      BY <1>1, <3>1, OneMore, FS_EmptySet
    <3>5. /\ v + Coming(a)' <= 2 * Cardinality(N)
          /\ Cardinality(N) + Coming(a)' <= 2 * Cardinality(N)
          /\ cur \in N => v + 1 + Coming(a)' <= 2 * Cardinality(N)
      BY <3>1, <3>2, <3>3, <3>4
    <3> QED
      BY <3>5 DEF N, v
  <2>4. \A a : Neighbours(a)' = Neighbours(a)
    BY <1>1 DEF Neighbours
  <2> QED
    BY <1>1, <2>2, <2>3, <2>4 DEF TwiceInv, Room
<1> QED
  BY <1>3, <1>4

\* A column is written: what was in hand had room.
LEMMA TwiceApplied == TypeOK /\ TwiceInv /\ ApplyUpdate => TwiceInv'
<1> SUFFICES ASSUME TypeOK, TwiceInv, ApplyUpdate PROVE TwiceInv'
  OBVIOUS
<1>1. PICK u \in updates :
        /\ ph' = [ph EXCEPT ![u.atom][u.field] =
                     IF u.field = "repulsion" THEN Least(@ + u.value, RepulsionCeiling)
                                              ELSE u.value]
        /\ updates' = updates \ {u}
  BY DEF ApplyUpdate
<1>2. TablesOK /\ u.atom \in Atom /\ u.field \in Field
  BY DEF TypeOK, WorkerOK, Update
<1>3. \A a \in Atom : ph'[a]["novelty"] =
         IF u.atom = a /\ u.field = "novelty" THEN u.value ELSE ph[a]["novelty"]
  BY <1>1, <1>2 DEF TablesOK, Field
<1>4. UNCHANGED <<ready, pc, cur, pub, channel>>
  BY Groups DEF ApplyUpdate
<1>5. \A a : Neighbours(a)' = Neighbours(a)
  BY <1>4 DEF Neighbours
<1>6. \A a : Coming(a)' = Coming(a)
  BY <1>4, <1>5 DEF Coming, Queued, Counting
<1>7. \A a : NoveltyOf(a)' \subseteq NoveltyOf(a)
  BY <1>1 DEF NoveltyOf
<1>8. ASSUME NEW a \in Atom
      PROVE  ph'[a]["novelty"] = ph[a]["novelty"] \/ \E w \in NoveltyOf(a) : ph'[a]["novelty"] = w.value
  BY <1>3 DEF NoveltyOf
<1> QED
  BY <1>5, <1>6, <1>7, <1>8 DEF TwiceInv, Room

LEMMA TwiceStep ==
    TypeOK /\ EvidenceInv /\ Passage /\ TwiceInv /\ [Next]_vars => TwiceInv'
<1> SUFFICES ASSUME TypeOK, EvidenceInv, Passage, TwiceInv, [Next]_vars PROVE TwiceInv'
  OBVIOUS
<1>1. TablesOK /\ RequestsOK /\ WorkerOK /\ SentOnce /\ Begun /\ TakenPending
  BY DEF TypeOK, Passage
<1>2. channel \in Seq(Atom) /\ pub \in [Atom -> PubStep]
  BY <1>1 DEF RequestsOK
<1>3. ASSUME UNCHANGED <<ready, ph, pub, channel>>, \A a : NoveltyOf(a)' \subseteq NoveltyOf(a),
             pc' \in {"embed", "neighbours"} => cur' \notin ready \/ (UNCHANGED <<pc, cur>>)
      PROVE  TwiceInv'
  <2>1. Queued' = Queued /\ ready \cap Counting' \subseteq Counting
    BY <1>3 DEF Queued, Counting
  <2> QED
    BY <1>1, <1>3, <2>1, TwiceKept
<1>4. ASSUME EndItem, UNCHANGED <<ready, ph, pub, channel>> PROVE TwiceInv'
  <2>1. \A a : NoveltyOf(a)' \subseteq NoveltyOf(a)
    BY <1>4 DEF EndItem, NoveltyOf
  <2>2. pc' = "idle"
    BY <1>4 DEF EndItem
  <2> QED
    BY <1>3, <1>4, <2>1, <2>2
<1>5. ASSUME UNCHANGED <<ready, ph, updates, pc, cur>>, ready \cap Queued' \subseteq Queued
      PROVE  TwiceInv'
  <2>1. \A a : NoveltyOf(a)' \subseteq NoveltyOf(a)
    BY <1>5 DEF NoveltyOf
  <2>2. ready \cap Counting' \subseteq Counting
    BY <1>5 DEF Counting
  <2> QED
    BY <1>1, <1>5, <2>1, <2>2, TwiceKept
<1>6. ASSUME NEW a \in Atom, PublishCommit(a) PROVE TwiceInv'
  <2>1. /\ pub[a] = "unborn" /\ pub' = [pub EXCEPT ![a] = "send"]
        /\ UNCHANGED <<ready, ph, updates, channel, pc, cur>>
    BY <1>6, Groups DEF PublishCommit
  <2>2. a \notin ready
    BY <1>1, <2>1 DEF Begun
  <2>3. ready \cap Queued' \subseteq Queued
    BY <1>2, <2>1, <2>2 DEF Queued
  <2> QED
    BY <1>5, <2>1, <2>3
<1>7. ASSUME NEW a \in Atom, PublishSend(a) PROVE TwiceInv'
  <2>1. /\ pub[a] = "send" /\ pub' = [pub EXCEPT ![a] = "cache"]
        /\ channel' = Append(channel, a)
        /\ UNCHANGED <<ready, ph, updates, pc, cur>>
    BY <1>7, Groups DEF PublishSend
  <2>2. Len(channel) \in Nat /\ Len(channel') = Len(channel) + 1
    BY <1>2, <2>1
  <2>3. \A i \in 1..Len(channel') :
           channel'[i] = IF i = Len(channel) + 1 THEN a ELSE channel[i]
    BY <1>2, <2>1
  <2>4. \A n \in Queued' : n \in Queued
    <3> SUFFICES ASSUME NEW n \in Queued' PROVE n \in Queued
      OBVIOUS
    <3>1. CASE n = a
      BY <2>1, <3>1 DEF Queued
    <3>2. CASE n # a
      <4>1. pub'[n] = pub[n]
        BY <1>2, <2>1, <3>2 DEF Queued
      <4>2. ASSUME NEW i \in 1..Len(channel'), channel'[i] = n
            PROVE  i \in 1..Len(channel) /\ channel[i] = n
        BY <2>2, <2>3, <3>2, <4>2
      <4> QED
        BY <4>1, <4>2 DEF Queued
    <3> QED
      BY <3>1, <3>2
  <2> QED
    BY <1>5, <2>1, <2>4
<1>8. ASSUME NEW a \in Atom,
             PublishCache(a) \/ PublishRow(a) \/ PublishRowsFail(a) \/ PublishDone(a)
      PROVE  TwiceInv'
  <2>1. UNCHANGED <<ready, ph, updates, channel, pc, cur>>
    BY <1>8, Groups DEF PublishCache, PublishRow, PublishRowsFail, PublishDone
  <2>2. \/ UNCHANGED pub
        \/ pub' = [pub EXCEPT ![a] = "rows"]
        \/ pub' = [pub EXCEPT ![a] = "done"]
    BY <1>8 DEF PublishCache, PublishRow, PublishRowsFail, PublishDone
  <2>3. ready \cap Queued' \subseteq Queued
    BY <1>2, <2>1, <2>2 DEF Queued
  <2> QED
    BY <1>5, <2>1, <2>3
<1>9. CASE Poll
  BY <1>5, <1>9, Groups DEF Poll, Queued
<1>10. CASE PollNext
  <2>1. /\ cur' \in batch /\ UNCHANGED <<ready, ph, pub, channel, updates>>
    BY <1>10, Groups DEF PollNext
  <2>2. cur' \notin ready /\ \A a : NoveltyOf(a)' = NoveltyOf(a)
    BY <1>1, <2>1 DEF TakenPending, NoveltyOf
  <2> QED
    BY <1>3, <2>1, <2>2
<1>11. CASE Recv
  BY <1>11, TwiceRecv
<1>12. CASE Embed
  BY <1>12, TwiceEmbed
<1>13. CASE EmbedFails \/ Finish \/ WorkerFault
  BY <1>4, <1>13, Groups DEF EmbedFails, Finish, WorkerFault
<1>14. CASE ReadNeighbours
  BY <1>14, TwiceRead
<1>15. CASE DetectContradictions
  <2>1. /\ pc' = "apply" /\ UNCHANGED <<ready, ph, pub, channel>>
        /\ updates' = updates \cup
             {Upd(c, "disagreement", NewDisagreement(c)) : c \in Contradicted(cur, nbrs)}
    BY <1>15, Groups DEF DetectContradictions
  <2>2. \A a : NoveltyOf(a)' = NoveltyOf(a)
    BY <2>1 DEF NoveltyOf, Upd
  <2> QED
    BY <1>3, <2>1, <2>2
<1>16. CASE ApplyUpdate
  BY <1>16, TwiceApplied
<1>17. CASE InsertContradicts \/ InsertReplicates \/ BumpReplication
  <2>1. pc' \notin {"embed", "neighbours"} /\ UNCHANGED <<ready, ph, pub, channel, updates>>
    BY <1>17, Groups DEF InsertContradicts, InsertReplicates, BumpReplication
  <2> QED
    BY <1>3, <2>1 DEF NoveltyOf
<1>18. CASE CacheContradicts \/ DetectReplications \/ CacheReplicates
  <2>1. /\ UNCHANGED <<ready, ph, pub, channel>>
        /\ EndItem \/ (pc' \in {"apply", "replicate"} /\ UNCHANGED updates)
    BY <1>18, Groups DEF CacheContradicts, DetectReplications, CacheReplicates
  <2>2. CASE EndItem
    BY <1>4, <2>1, <2>2
  <2>3. CASE pc' \in {"apply", "replicate"} /\ UNCHANGED updates
    BY <1>3, <2>1, <2>3 DEF NoveltyOf
  <2> QED
    BY <2>1, <2>2, <2>3
<1>19. CASE Crash
  <2>1. /\ channel' = <<>> /\ pc' = "idle" /\ updates' = {}
        /\ pub' = [a \in Atom |-> IF pub[a] = "unborn" THEN "unborn" ELSE "done"]
        /\ UNCHANGED <<ready, ph>>
    BY <1>19, Groups DEF Crash
  <2>2. Queued' = {} /\ Counting' = {} /\ \A a : NoveltyOf(a)' = {}
    BY <2>1 DEF Queued, Counting, NoveltyOf
  <2> QED
    BY <1>1, <2>1, <2>2, TwiceKept
<1>20. CASE UNCHANGED vars
  BY <1>5, <1>20, Groups DEF vars, Queued
<1> QED
  BY <1>6, <1>7, <1>8, <1>9, <1>10, <1>11, <1>12, <1>13, <1>14, <1>15, <1>16, <1>17, <1>18,
     <1>19, <1>20
  DEF Next, Publishing, ProcessAtom

\* A neighbour is counted at most twice, however many deaths, failed calls and
\* polls there are.
THEOREM CountedTwiceAtMost == Spec => []CountedAtMostTwice
<1>1. Init => Passage /\ TwiceInv
  <2> SUFFICES ASSUME Init PROVE Passage /\ TwiceInv
    OBVIOUS
  <2>1. Passage
    BY Constants DEF Init, Passage, SentOnce, Begun, TakenPending
  <2>2. \A a \in Atom : ph[a]["novelty"] = 0 /\ Neighbours(a) = {} /\ NoveltyOf(a) = {}
    BY DEF Init, Field, Neighbours, NoveltyOf
  <2>3. \A a \in Atom : {} \cap Queued = {} /\ {} \cap Counting = {}
    OBVIOUS
  <2>4. \A a \in Atom : Coming(a) = 0 /\ Cardinality(Neighbours(a)) = 0
    BY <2>2, <2>3, FS_EmptySet DEF Coming
  <2> QED
    BY <2>1, <2>2, <2>4 DEF TwiceInv, Room
<1>2. TypeOK /\ TwiceInv => CountedAtMostTwice
  <2> SUFFICES ASSUME TypeOK, TwiceInv, NEW a \in Atom
               PROVE  ph[a]["novelty"] <= 2 * Cardinality(Neighbours(a))
    BY DEF CountedAtMostTwice
  <2>1. /\ Cardinality(Neighbours(a)) \in Nat /\ Coming(a) \in Nat /\ ph[a]["novelty"] \in Nat
    BY ComingType DEF TypeOK
  <2>2. ph[a]["novelty"] + Coming(a) <= 2 * Cardinality(Neighbours(a))
    BY DEF TwiceInv, Room
  <2> QED
    BY <2>1, <2>2
<1> QED
  BY <1>1, <1>2, PassageStep, TwiceStep, EvidenceInvInit, EvidenceInvStep, TypeCorrect, PTL DEF Spec
=============================================================================
