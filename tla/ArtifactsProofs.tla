-------------------------- MODULE ArtifactsProofs --------------------------
(***************************************************************************)
(* Proofs about Artifacts, for any uploads, hashes, sizes and bounds.      *)
(***************************************************************************)
EXTENDS Artifacts, FiniteSetTheorems, TLAPS

\* Every step keeps the types.
LEMMA TypeStep == TypeOK /\ [Next]_vars => TypeOK'
<1> SUFFICES ASSUME TypeOK, [Next]_vars PROVE TypeOK'
    OBVIOUS
<1> USE ArtifactAssumption
<1> USE DEF TypeOK, Step, Running, Answered, diskVars, Goto
<1>1. ASSUME NEW u \in Upload, Check(u) PROVE TypeOK'
    BY <1>1 DEF Check, UnderWay
<1>2. ASSUME NEW u \in Upload, Vet(u) PROVE TypeOK'
    BY <1>2 DEF Vet
<1>3. ASSUME NEW u \in Upload, Create(u) PROVE TypeOK'
    BY <1>3 DEF Create
<1>4. ASSUME NEW u \in Upload, Write(u) PROVE TypeOK'
    BY <1>4 DEF Write, Wrote
<1>5. ASSUME NEW u \in Upload, Rename(u) PROVE TypeOK'
    BY <1>5 DEF Rename
<1>6. ASSUME NEW u \in Upload, Insert(u) PROVE TypeOK'
    BY <1>6 DEF Insert
<1>7. ASSUME NEW u \in Upload, Fault(u) PROVE TypeOK'
    BY <1>7 DEF Fault
<1>8. ASSUME Crash PROVE TypeOK'
    BY <1>8 DEF Crash, UnderWay
<1>9. CASE UNCHANGED vars
    BY <1>9 DEF vars
<1> QED
    BY <1>1, <1>2, <1>3, <1>4, <1>5, <1>6, <1>7, <1>8, <1>9 DEF Next, Proceed

\* Type correctness: a request has a file open exactly while it writes.
THEOREM TypeCorrect == Spec => []TypeOK
<1>1. Init => TypeOK
    BY ArtifactAssumption DEF Init, TypeOK, Step
<1> QED
    BY <1>1, TypeStep, PTL DEF Spec

---------------------------------------------------------------------------
\* An inode never leaves its hash: it is created, named, written and renamed
\* for one hash only, by requests whose body has that hash.
InodesKeepHash ==
    /\ \A h \in Hash : tmp[h] # None => Named[tmp[h]] = h
    /\ \A h \in Hash : file[h] # None => Named[file[h]] = h
    /\ \A u \in Upload : fd[u] # None => Named[fd[u]] = Named[u]
    /\ \A i \in Upload : bytes[i] \in {Named[i], None}

Vetted ==
    \A u \in Upload :
        at[u] \in {"create", "write", "rename", "insert"} => Body[u] = Named[u]

FileBeforeRow ==
    /\ \A u \in Upload : at[u] = "insert" => file[Named[u]] # None
    /\ \A h \in Hash : row[h] # None => file[h] # None

StoreInv == InodesKeepHash /\ Vetted /\ FileBeforeRow

LEMMA StoreStep == TypeOK /\ StoreInv /\ [Next]_vars => StoreInv'
<1> SUFFICES ASSUME TypeOK, StoreInv, [Next]_vars PROVE StoreInv'
    OBVIOUS
<1> USE ArtifactAssumption
<1> USE DEF TypeOK, StoreInv, InodesKeepHash, Vetted, FileBeforeRow, diskVars, Goto
<1>1. ASSUME NEW u \in Upload, Check(u) PROVE StoreInv'
    BY <1>1 DEF Check
<1>2. ASSUME NEW u \in Upload, Vet(u) PROVE StoreInv'
    BY <1>2 DEF Vet, Acceptable
<1>3. ASSUME NEW u \in Upload, Create(u) PROVE StoreInv'
    BY <1>3 DEF Create
<1>4. ASSUME NEW u \in Upload, Write(u) PROVE StoreInv'
    <2>1. fd[u] \in Upload /\ Named[fd[u]] = Named[u] /\ Body[u] = Named[u]
        BY <1>4 DEF Write
    <2>2. \A i \in Upload : bytes'[i] \in {Named[i], None}
        BY <1>4, <2>1 DEF Write
    <2> QED
        BY <1>4, <2>2 DEF Write, Wrote
<1>5. ASSUME NEW u \in Upload, Rename(u) PROVE StoreInv'
    BY <1>5 DEF Rename
<1>6. ASSUME NEW u \in Upload, Insert(u) PROVE StoreInv'
    BY <1>6 DEF Insert
<1>7. ASSUME NEW u \in Upload, Fault(u) PROVE StoreInv'
    BY <1>7 DEF Fault
<1>8. ASSUME Crash PROVE StoreInv'
    BY <1>8 DEF Crash
<1>9. CASE UNCHANGED vars
    BY <1>9 DEF vars
<1> QED
    BY <1>1, <1>2, <1>3, <1>4, <1>5, <1>6, <1>7, <1>8, <1>9 DEF Next, Proceed

LEMMA StoreHolds == Spec => []StoreInv
<1>1. Init => StoreInv
    BY ArtifactAssumption
    DEF Init, StoreInv, InodesKeepHash, Vetted, FileBeforeRow
<1> QED
    BY <1>1, TypeCorrect, StoreStep, PTL DEF Spec

\* A row has its file, holding the bytes of its hash or cut short.
THEOREM FileBacked == Spec => []RowHasFile
<1>1. TypeOK /\ StoreInv => RowHasFile
    BY DEF TypeOK, StoreInv, InodesKeepHash, FileBeforeRow, RowHasFile
<1> QED
    BY <1>1, TypeCorrect, StoreHolds, PTL

---------------------------------------------------------------------------
LEMMA CreatedStep == TypeOK /\ OneCreated /\ [Next]_vars => OneCreated'
<1> SUFFICES ASSUME TypeOK, OneCreated, [Next]_vars PROVE OneCreated'
    OBVIOUS
<1> USE ArtifactAssumption
<1> USE DEF TypeOK, OneCreated, Goto
<1>1. ASSUME NEW u \in Upload, Insert(u) PROVE OneCreated'
    BY <1>1 DEF Insert
<1>2. ASSUME NEW u \in Upload, Check(u) \/ Vet(u) \/ Create(u) \/ Write(u) \/ Rename(u)
      PROVE OneCreated'
    BY <1>2 DEF Check, Vet, Create, Write, Wrote, Rename
<1>3. ASSUME NEW u \in Upload, Fault(u) PROVE OneCreated'
    BY <1>3 DEF Fault
<1>4. ASSUME Crash PROVE OneCreated'
    BY <1>4 DEF Crash
<1>5. CASE UNCHANGED vars
    BY <1>5 DEF vars
<1> QED
    BY <1>1, <1>2, <1>3, <1>4, <1>5 DEF Next, Proceed

\* At most one upload of a hash is answered "created", and its agent owns the row.
THEOREM CreatedOnce == Spec => []OneCreated
<1>1. Init => OneCreated
    BY DEF Init, OneCreated
<1> QED
    BY <1>1, TypeCorrect, CreatedStep, PTL DEF Spec

---------------------------------------------------------------------------
\* An inode that bears a name is whole, or open in a request that will write
\* it, or something died or failed.
WholeOrOpen(i) ==
    \/ bytes[i] = Named[i]
    \/ \E u \in Upload : fd[u] = i
    \/ crashes + faults > 0

NamedWhole ==
    \A h \in Hash :
        /\ tmp[h] # None => WholeOrOpen(tmp[h])
        /\ file[h] # None => WholeOrOpen(file[h])

LEMMA WholeStep ==
    TypeOK /\ StoreInv /\ NamedWhole /\ [Next]_vars => NamedWhole'
<1> SUFFICES ASSUME TypeOK, StoreInv, NamedWhole, [Next]_vars PROVE NamedWhole'
    OBVIOUS
<1> USE ArtifactAssumption
<1> USE DEF TypeOK, NamedWhole, WholeOrOpen, diskVars, Goto
<1>1. ASSUME NEW u \in Upload, Check(u) \/ Vet(u) \/ Insert(u) PROVE NamedWhole'
    BY <1>1 DEF Check, Vet, Insert
<1>2. ASSUME NEW u \in Upload, Create(u) PROVE NamedWhole'
    <2>1. fd[u] = None
        BY <1>2 DEF Create
    <2>2. PICK i \in Upload :
              /\ tmp' = [tmp EXCEPT ![Named[u]] = i]
              /\ fd' = [fd EXCEPT ![u] = i]
              /\ bytes' = [bytes EXCEPT ![i] = None]
        BY <1>2 DEF Create
    <2>3. file' = file /\ crashes' = crashes /\ faults' = faults
        BY <1>2 DEF Create
    <2>4. WholeOrOpen(i)'
        BY <2>2
    <2>5. ASSUME NEW j \in Upload, WholeOrOpen(j) PROVE WholeOrOpen(j)'
        <3>1. CASE j = i
            BY <2>4, <3>1
        <3>2. CASE j # i
            BY <2>1, <2>2, <2>3, <2>5, <3>2
        <3> QED
            BY <3>1, <3>2
    <2> QED
        BY <2>2, <2>3, <2>4, <2>5
<1>3. ASSUME NEW u \in Upload, Write(u) PROVE NamedWhole'
    <2>1. fd[u] \in Upload /\ Named[fd[u]] = Body[u]
        BY <1>3 DEF Write, StoreInv, InodesKeepHash, Vetted
    <2>2. ASSUME NEW i \in Upload, WholeOrOpen(i) PROVE WholeOrOpen(i)'
        <3>1. CASE fd[u] = i
            BY <1>3, <2>1, <3>1 DEF Write, Wrote, OpenElsewhere
        <3>2. CASE fd[u] # i
            BY <1>3, <2>1, <2>2, <3>2 DEF Write, Wrote
        <3> QED
            BY <3>1, <3>2
    <2> QED
        BY <1>3, <2>2 DEF Write, Wrote
<1>4. ASSUME NEW u \in Upload, Rename(u) PROVE NamedWhole'
    BY <1>4 DEF Rename
<1>5. ASSUME (\E u \in Upload : Fault(u)) \/ Crash PROVE NamedWhole'
    <2>1. crashes' + faults' > 0
        BY <1>5 DEF Fault, Crash
    <2> QED
        BY <2>1
<1>6. CASE UNCHANGED vars
    BY <1>6 DEF vars
<1> QED
    BY <1>1, <1>2, <1>3, <1>4, <1>5, <1>6 DEF Next, Proceed

\* The file of a row is cut short only while a request that will write it
\* again is under way, or after a death or failure.
THEOREM WholeUnlessInterrupted == Spec => []RowWhole
<1>1. Init => NamedWhole
    BY DEF Init, NamedWhole
<1>2. TypeOK /\ StoreInv /\ NamedWhole => RowWhole
    BY ArtifactAssumption
    DEF TypeOK, StoreInv, InodesKeepHash, FileBeforeRow, NamedWhole, WholeOrOpen,
        RowWhole, Readable
<1> QED
    BY <1>1, <1>2, TypeCorrect, StoreHolds, WholeStep, PTL DEF Spec
---------------------------------------------------------------------------
(* Sums of sizes.  The fold is a recursive function on the subsets of a    *)
(* set; that there is one, and only one, is shown by induction, which here *)
(* is the absence of a least bad subset.                                   *)

\* Induction over the subsets of Hash, on a set of those that are good.
LEMMA SubsetInduction ==
    ASSUME NEW Q,
           \A T \in SUBSET Hash : (\A U \in SUBSET T : U # T => U \in Q) => T \in Q
    PROVE  \A T \in SUBSET Hash : T \in Q
<1> SUFFICES ASSUME (SUBSET Hash) \ Q # {} PROVE FALSE
  OBVIOUS
<1>1. IsWellFoundedOn(StrictSubsetOrdering(Hash), SUBSET Hash)
  <2>1. FiniteSubsetsOf(Hash) = SUBSET Hash
    BY ArtifactAssumption, FS_FiniteSubsetsOfFinite
  <2>2. IsWellFoundedOn(StrictSubsetOrdering(Hash), FiniteSubsetsOf(Hash))
    BY FS_StrictSubsetOrderingWellFounded
  <2> QED
    BY <2>1, <2>2
<1> DEFINE B == (SUBSET Hash) \ Q
<1>2. PICK T \in B : \A U \in B : <<U, T>> \notin StrictSubsetOrdering(Hash)
  <2>1. B \subseteq SUBSET Hash /\ B # {}
    OBVIOUS
  <2> HIDE DEF B
  <2> QED
    BY <1>1, <2>1, WFMin
<1>3. \A U \in SUBSET T : U # T => U \in Q
  BY <1>2 DEF StrictSubsetOrdering
<1> QED
  BY <1>2, <1>3

Weigh(S) == MapThenSumSet(LAMBDA h : Size[h], S)

Pick(S) == CHOOSE h \in S : TRUE

LEMMA PickIn == ASSUME NEW S, S # {} PROVE Pick(S) \in S
  BY DEF Pick

\* What the fold computes, on all subsets of T at once.
IsSum(g, T) ==
    g = [S \in SUBSET T |-> IF S = {} THEN 0 ELSE Size[Pick(S)] + g[S \ {Pick(S)}]]

LEMMA WeighUnfolds == ASSUME NEW T PROVE Weigh(T) = (CHOOSE g : IsSum(g, T))[T]
  BY DEF Weigh, MapThenSumSet, MapThenFoldSet, IsSum, Pick

LEMMA SumAt ==
    ASSUME NEW g, NEW T, IsSum(g, T), NEW S \in SUBSET T
    PROVE  g[S] = IF S = {} THEN 0 ELSE Size[Pick(S)] + g[S \ {Pick(S)}]
  BY DEF IsSum

LEMMA SumUnique ==
    ASSUME NEW g, NEW T \in SUBSET Hash, IsSum(g, T),
           NEW k, NEW V \in SUBSET Hash, IsSum(k, V)
    PROVE  \A S \in SUBSET (T \cap V) : g[S] = k[S]
<1> DEFINE Q == {S \in SUBSET Hash : S \subseteq T \cap V => g[S] = k[S]}
<1>1. ASSUME NEW S \in SUBSET Hash, \A U \in SUBSET S : U # S => U \in Q, S \subseteq T \cap V
      PROVE  g[S] = k[S]
  <2>1. CASE S = {}
    BY <1>1, <2>1, SumAt
  <2>2. CASE S # {}
    <3>1. Pick(S) \in S
      BY <2>2, PickIn
    <3>2. g[S \ {Pick(S)}] = k[S \ {Pick(S)}]
      BY <1>1, <3>1
    <3>3. g[S] = Size[Pick(S)] + g[S \ {Pick(S)}]
      BY <1>1, <2>2, SumAt
    <3>4. k[S] = Size[Pick(S)] + k[S \ {Pick(S)}]
      BY <1>1, <2>2, SumAt
    <3> QED
      BY <3>2, <3>3, <3>4
  <2> QED
    BY <2>1, <2>2
<1>2. \A S \in SUBSET Hash : (\A U \in SUBSET S : U # S => U \in Q) => S \in Q
  BY <1>1
<1> HIDE DEF Q
<1>3. \A S \in SUBSET Hash : S \in Q
  BY <1>2, SubsetInduction
<1> QED
  BY <1>3 DEF Q

LEMMA SumExists == \A T \in SUBSET Hash : \E g : IsSum(g, T)
<1> DEFINE Q == {T \in SUBSET Hash : \E g : IsSum(g, T)}
<1>1. ASSUME NEW T \in SUBSET Hash, \A U \in SUBSET T : U # T => U \in Q
      PROVE  \E g : IsSum(g, T)
  <2> DEFINE G(U) == CHOOSE g : IsSum(g, U)
             W(U) == IF U = T THEN IF T = {} THEN 0 ELSE Size[Pick(T)] + G(T \ {Pick(T)})[T \ {Pick(T)}]
                              ELSE G(U)[U]
             f == [U \in SUBSET T |-> W(U)]
  <2>1. \A U \in SUBSET T : U # T => IsSum(G(U), U)
    BY <1>1
  <2> HIDE DEF G
  <2>2. ASSUME NEW U \in SUBSET T
        PROVE  f[U] = IF U = {} THEN 0 ELSE Size[Pick(U)] + f[U \ {Pick(U)}]
    <3>1. CASE U = {}
      <4>1. CASE U = T
        BY <3>1, <4>1
      <4>2. CASE U # T
        <5>1. G(U)[U] = 0
          BY <2>1, <3>1, <4>2, SumAt
        <5> QED
          BY <3>1, <4>2, <5>1
      <4> QED
        BY <4>1, <4>2
    <3>2. CASE U # {}
      <4> DEFINE V == U \ {Pick(U)}
      <4>1. V \in SUBSET T /\ V # T /\ V # U /\ V \subseteq U
        BY <3>2, PickIn
      <4>2. f[V] = G(V)[V]
        BY <4>1
      <4>3. CASE U = T
        BY <3>2, <4>2, <4>3
      <4>4. CASE U # T
        <5>1. IsSum(G(U), U) /\ IsSum(G(V), V)
          BY <2>1, <4>1, <4>4
        <5>2. G(U)[V] = G(V)[V]
          BY <4>1, <5>1, SumUnique
        <5>3. G(U)[U] = Size[Pick(U)] + G(U)[V]
          BY <3>2, <5>1, SumAt
        <5> QED
          BY <3>2, <4>2, <4>4, <5>2, <5>3
      <4> QED
        BY <4>3, <4>4
    <3> QED
      BY <3>1, <3>2
  <2> DEFINE k == [U \in SUBSET T |-> IF U = {} THEN 0 ELSE Size[Pick(U)] + f[U \ {Pick(U)}]]
  <2>3. f = k
    <3>1. \A U \in SUBSET T : f[U] = k[U]
      BY <2>2
    <3>2. DOMAIN f = SUBSET T /\ DOMAIN k = SUBSET T
      OBVIOUS
    <3>3. f = [U \in SUBSET T |-> f[U]] /\ k = [U \in SUBSET T |-> k[U]]
      BY Zenon
    <3> HIDE DEF f, k
    <3> QED
      BY <3>1, <3>3
  <2>4. IsSum(f, T)
    BY <2>3 DEF IsSum
  <2> QED
    BY <2>4
<1>2. \A T \in SUBSET Hash : (\A U \in SUBSET T : U # T => U \in Q) => T \in Q
  BY <1>1
<1> HIDE DEF Q
<1>3. \A T \in SUBSET Hash : T \in Q
  BY <1>2, SubsetInduction
<1> QED
  BY <1>3 DEF Q
\* The sum of the sizes of a set of hashes, without its recursive function.
LEMMA WeighSteps ==
    /\ Weigh({}) = 0
    /\ \A T \in SUBSET Hash : T # {} => Weigh(T) = Size[Pick(T)] + Weigh(T \ {Pick(T)})
<1> DEFINE G(T) == CHOOSE g : IsSum(g, T)
<1>1. \A T \in SUBSET Hash : IsSum(G(T), T) /\ Weigh(T) = G(T)[T]
  BY SumExists, WeighUnfolds
<1> HIDE DEF G
<1>2. Weigh({}) = 0
  <2>1. IsSum(G({}), {}) /\ Weigh({}) = G({})[{}]
    BY <1>1
  <2> QED
    BY <2>1, SumAt
<1>3. ASSUME NEW T \in SUBSET Hash, T # {}
      PROVE  Weigh(T) = Size[Pick(T)] + Weigh(T \ {Pick(T)})
  <2> DEFINE U == T \ {Pick(T)}
  <2>1. U \in SUBSET Hash /\ U \in SUBSET T
    OBVIOUS
  <2>2. Weigh(T) = Size[Pick(T)] + G(T)[U]
    BY <1>1, <1>3, SumAt
  <2>3. G(T)[U] = G(U)[U] /\ Weigh(U) = G(U)[U]
    BY <1>1, <2>1, SumUnique
  <2> QED
    BY <2>2, <2>3
<1> QED
  BY <1>2, <1>3

LEMMA WeighType == \A T \in SUBSET Hash : Weigh(T) \in Nat
<1> DEFINE Q == {T \in SUBSET Hash : Weigh(T) \in Nat}
<1>1. ASSUME NEW T \in SUBSET Hash, \A U \in SUBSET T : U # T => U \in Q
      PROVE  Weigh(T) \in Nat
  <2>1. CASE T = {}
    BY <2>1, WeighSteps
  <2>2. CASE T # {}
    <3>1. Pick(T) \in T /\ Size[Pick(T)] \in Nat
      BY <2>2, PickIn, ArtifactAssumption
    <3>2. Weigh(T \ {Pick(T)}) \in Nat
      BY <1>1, <3>1
    <3> QED
      BY <2>2, <3>1, <3>2, WeighSteps
  <2> QED
    BY <2>1, <2>2
<1>2. \A T \in SUBSET Hash : (\A U \in SUBSET T : U # T => U \in Q) => T \in Q
  BY <1>1
<1> HIDE DEF Q
<1>3. \A T \in SUBSET Hash : T \in Q
  BY <1>2, SubsetInduction
<1> QED
  BY <1>3 DEF Q

\* The order in which the fold takes the elements does not matter.
LEMMA WeighRemove ==
    \A T \in SUBSET Hash : \A h \in T : Weigh(T) = Size[h] + Weigh(T \ {h})
<1> DEFINE Q == {T \in SUBSET Hash : \A h \in T : Weigh(T) = Size[h] + Weigh(T \ {h})}
<1>1. ASSUME NEW T \in SUBSET Hash, \A U \in SUBSET T : U # T => U \in Q, NEW h \in T
      PROVE  Weigh(T) = Size[h] + Weigh(T \ {h})
  <2> DEFINE p == Pick(T)
             V == T \ {p}
             X == T \ {h}
             R == (T \ {p}) \ {h}
  <2>1. p \in T /\ Weigh(T) = Size[p] + Weigh(V)
    BY PickIn, WeighSteps
  <2>2. CASE h = p
    BY <2>1, <2>2
  <2>3. CASE h # p
    <3>1. V \in SUBSET T /\ V # T /\ h \in V
      BY <2>1, <2>3
    <3>2. X \in SUBSET T /\ X # T /\ p \in X /\ X \ {p} = R
      BY <2>1, <2>3
    <3>3. Weigh(V) = Size[h] + Weigh(R)
      BY <1>1, <3>1
    <3>4. Weigh(X) = Size[p] + Weigh(R)
      BY <1>1, <3>2
    <3>5. Size[h] \in Nat /\ Size[p] \in Nat /\ Weigh(R) \in Nat
      BY <2>1, WeighType, ArtifactAssumption
    <3> HIDE DEF p, V, X, R
    <3>6. Weigh(T) = Size[h] + Weigh(X)
      BY <2>1, <3>3, <3>4, <3>5
    <3> QED
      BY <3>6 DEF X
  <2> QED
    BY <2>2, <2>3
<1>2. \A T \in SUBSET Hash : (\A U \in SUBSET T : U # T => U \in Q) => T \in Q
  BY <1>1
<1> HIDE DEF Q
<1>3. \A T \in SUBSET Hash : T \in Q
  BY <1>2, SubsetInduction
<1> QED
  BY <1>3 DEF Q

LEMMA WeighAdd ==
    ASSUME NEW T \in SUBSET Hash, NEW h \in Hash, h \notin T
    PROVE  Weigh(T \cup {h}) = Weigh(T) + Size[h]
<1>1. (T \cup {h}) \ {h} = T /\ T \cup {h} \in SUBSET Hash
  OBVIOUS
<1>2. Weigh(T \cup {h}) = Size[h] + Weigh(T)
  BY <1>1, WeighRemove
<1> QED
  BY <1>2, WeighType, ArtifactAssumption

LEMMA WeighMonotone ==
    \A T \in SUBSET Hash : \A U \in SUBSET T : Weigh(U) <= Weigh(T)
<1> DEFINE Q == {T \in SUBSET Hash : \A U \in SUBSET T : Weigh(U) <= Weigh(T)}
<1>1. ASSUME NEW T \in SUBSET Hash, \A V \in SUBSET T : V # T => V \in Q, NEW U \in SUBSET T
      PROVE  Weigh(U) <= Weigh(T)
  <2>1. CASE U = T
    BY <2>1, WeighType
  <2>2. CASE U # T
    <3>1. PICK h \in T : h \notin U
      BY <2>2
    <3>2. Weigh(U) <= Weigh(T \ {h})
      BY <1>1, <3>1
    <3>3. Weigh(T) = Size[h] + Weigh(T \ {h})
      BY <3>1, WeighRemove
    <3>4. Size[h] \in Nat /\ Weigh(T \ {h}) \in Nat /\ Weigh(U) \in Nat
      BY WeighType, ArtifactAssumption
    <3> QED
      BY <3>2, <3>3, <3>4
  <2> QED
    BY <2>1, <2>2
<1>2. \A T \in SUBSET Hash : (\A U \in SUBSET T : U # T => U \in Q) => T \in Q
  BY <1>1
<1> HIDE DEF Q
<1>3. \A T \in SUBSET Hash : T \in Q
  BY <1>2, SubsetInduction
<1> QED
  BY <1>3 DEF Q

---------------------------------------------------------------------------
(* The quota.  The sum that an upload is checked against stays what it was *)
(* until the upload inserts its row, unless its agent has another under    *)
(* way.                                                                    *)

StoredBy(g) == {h \in Hash : row[h] # None /\ By[row[h]] = g}

BlobsBy(g) == {h \in Hash : row[h] \in Upload \ AsTree /\ By[row[h]] = g}

Admitted == {u \in Upload \ AsTree : at[u] \in {"create", "write", "rename", "insert"}}

QuotaInv ==
    /\ \A u, v \in UnderWay : u # v /\ By[u] = By[v] => By[u] \in parallel
    /\ \A u \in Admitted :
         By[u] \in parallel \/ Weigh(BlobsBy(By[u])) + Size[Body[u]] <= Quota(u)
    /\ OverQuotaOnlyInParallel

LEMMA StoredIsWeight ==
    ASSUME TypeOK, NEW g \in Agent
    PROVE  /\ Stored(g) = Weigh(StoredBy(g)) /\ BlobsStored(g) = Weigh(BlobsBy(g))
           /\ Stored(g) \in Nat /\ BlobsStored(g) \in Nat /\ BlobsStored(g) <= Stored(g)
<1>1. Stored(g) = Weigh(StoredBy(g))
    BY DEF Stored, StoredBy, Weigh
<1>2. BlobsStored(g) = Weigh(BlobsBy(g))
    BY DEF BlobsStored, BlobsBy, Weigh, MapThenSumSet, MapThenFoldSet
<1>3. StoredBy(g) \in SUBSET Hash /\ BlobsBy(g) \in SUBSET StoredBy(g)
    BY ArtifactAssumption DEF StoredBy, BlobsBy
<1> QED
    BY <1>1, <1>2, <1>3, WeighType, WeighMonotone

\* Steps that insert no row leave the sums alone.
LEMMA QuotaKept ==
    ASSUME QuotaInv, UNCHANGED row, parallel \subseteq parallel',
           Admitted' \subseteq Admitted, UnderWay' \subseteq UnderWay
    PROVE  QuotaInv'
<1>1. \A g : BlobsBy(g)' = BlobsBy(g) /\ BlobsStored(g)' = BlobsStored(g)
    BY DEF BlobsBy, BlobsStored, MapThenSumSet, MapThenFoldSet
<1>2. \A u : Quota(u)' = Quota(u)
    BY DEF Quota
<1> QED
    BY <1>1, <1>2 DEF QuotaInv, OverQuotaOnlyInParallel

LEMMA QuotaStep == TypeOK /\ StoreInv /\ QuotaInv /\ [Next]_vars => QuotaInv'
<1> SUFFICES ASSUME TypeOK, StoreInv, QuotaInv, [Next]_vars PROVE QuotaInv'
    OBVIOUS
<1> USE ArtifactAssumption
<1>1. ASSUME NEW u \in Upload, Check(u) PROVE QuotaInv'
    <2>1. CASE row[Named[u]] # None
        <3>1. UNCHANGED <<row, parallel>> /\ at' = [at EXCEPT ![u] = "exists"]
            BY <1>1, <2>1 DEF Check, Goto
        <3> QED
            BY <3>1, QuotaKept DEF TypeOK, Admitted, UnderWay, Running
    <2>2. CASE row[Named[u]] = None
        <3>1. /\ UNCHANGED row /\ at' = [at EXCEPT ![u] = "vet"] /\ at[u] = "unsent"
              /\ parallel' = parallel \cup ({By[u]} \cap {By[v] : v \in UnderWay})
            BY <1>1, <2>2 DEF Check, Goto
        <3>2. UnderWay' = UnderWay \cup {u} /\ Admitted' = Admitted /\ u \notin UnderWay
            BY <3>1 DEF TypeOK, UnderWay, Admitted, Running
        <3>3. \A v \in UnderWay : By[v] = By[u] => By[u] \in parallel'
            BY <3>1
        <3>4. \A g : BlobsBy(g)' = BlobsBy(g) /\ BlobsStored(g)' = BlobsStored(g)
            BY <3>1 DEF BlobsBy, BlobsStored, MapThenSumSet, MapThenFoldSet
        <3>5. \A v : Quota(v)' = Quota(v)
            BY DEF Quota
        <3>6. \A v, w \in UnderWay' : v # w /\ By[v] = By[w] => By[v] \in parallel'
            BY <3>1, <3>2, <3>3 DEF QuotaInv
        <3>7. \A v \in Admitted' : \/ By[v] \in parallel'
                                   \/ Weigh(BlobsBy(By[v])') + Size[Body[v]] <= Quota(v)
            BY <3>1, <3>2, <3>4 DEF QuotaInv
        <3>8. OverQuotaOnlyInParallel'
            BY <3>1, <3>4 DEF QuotaInv, OverQuotaOnlyInParallel
        <3> QED
            BY <3>4, <3>5, <3>6, <3>7, <3>8 DEF QuotaInv
    <2> QED
        BY <2>1, <2>2
<1>2. ASSUME NEW u \in Upload, Vet(u) PROVE QuotaInv'
    <2>1. /\ UNCHANGED <<row, parallel>> /\ at[u] = "vet"
          /\ at' = [at EXCEPT ![u] = IF Acceptable(u) THEN "create" ELSE "refused"]
        BY <1>2 DEF Vet, Goto
    <2>2. UnderWay' \subseteq UnderWay
        BY <2>1 DEF TypeOK, UnderWay, Running
    <2>3. Admitted' \subseteq Admitted \cup {u}
        BY <2>1 DEF TypeOK, Admitted
    <2>4. u \in Admitted' => Weigh(BlobsBy(By[u])) + Size[Body[u]] <= Quota(u)
        <3> SUFFICES ASSUME u \in Admitted'
                     PROVE  Weigh(BlobsBy(By[u])) + Size[Body[u]] <= Quota(u)
            OBVIOUS
        <3>1. WithinQuota(u)
            BY <2>1 DEF TypeOK, Admitted, Acceptable
        <3>2. By[u] \in Agent /\ Size[Body[u]] \in Nat /\ Quota(u) \in Nat
            BY DEF Quota
        <3> QED
            BY <3>1, <3>2, StoredIsWeight DEF WithinQuota
    <2>5. \A g : BlobsBy(g)' = BlobsBy(g) /\ BlobsStored(g)' = BlobsStored(g)
        BY <2>1 DEF BlobsBy, BlobsStored, MapThenSumSet, MapThenFoldSet
    <2>6. \A v : Quota(v)' = Quota(v)
        BY DEF Quota
    <2>7. \A v, w \in UnderWay' : v # w /\ By[v] = By[w] => By[v] \in parallel'
        BY <2>1, <2>2 DEF QuotaInv
    <2>8. \A v \in Admitted' : \/ By[v] \in parallel'
                               \/ Weigh(BlobsBy(By[v])') + Size[Body[v]] <= Quota(v)
        BY <2>1, <2>3, <2>4, <2>5 DEF QuotaInv
    <2>9. OverQuotaOnlyInParallel'
        BY <2>1, <2>5 DEF QuotaInv, OverQuotaOnlyInParallel
    <2> QED
        BY <2>5, <2>6, <2>7, <2>8, <2>9 DEF QuotaInv
<1>3. ASSUME NEW u \in Upload, Create(u) \/ Write(u) \/ Rename(u) \/ Fault(u) PROVE QuotaInv'
    <2>1. UNCHANGED <<row, parallel>> /\ u \in UnderWay
        BY <1>3 DEF Create, Write, Wrote, Rename, Fault, UnderWay, Running
    <2>2. UnderWay' \subseteq UnderWay
        BY <1>3, <2>1 DEF TypeOK, UnderWay, Create, Write, Wrote, Rename, Fault, Goto
    <2>3. Admitted' \subseteq Admitted
        BY <1>3 DEF TypeOK, Admitted, Create, Write, Wrote, Rename, Fault, Goto
    <2> QED
        BY <2>1, <2>2, <2>3, QuotaKept
<1>4. ASSUME NEW u \in Upload, Insert(u) PROVE QuotaInv'
    <2>1. at[u] = "insert" /\ UNCHANGED parallel
        BY <1>4 DEF Insert
    <2>2. UnderWay' = UnderWay \ {u} /\ Admitted' = Admitted \ {u} /\ u \in UnderWay
        BY <1>4, <2>1 DEF Insert, Goto, TypeOK, UnderWay, Admitted, Running
    <2>3. CASE row[Named[u]] # None
        <3>1. UNCHANGED row
            BY <1>4, <2>3 DEF Insert
        <3> QED
            BY <2>1, <2>2, <3>1, QuotaKept
    <2>4. CASE row[Named[u]] = None
        <3> DEFINE g == By[u]
                   n == Named[u]
        <3>1. row' = [row EXCEPT ![n] = u] /\ n \in Hash /\ g \in Agent /\ u # None
            BY <1>4, <2>4 DEF Insert
        <3>2. \A x : x # g => BlobsBy(x)' = BlobsBy(x)
            BY <2>4, <3>1 DEF BlobsBy, TypeOK
        <3>3. BlobsBy(g)' = IF u \in AsTree THEN BlobsBy(g) ELSE BlobsBy(g) \cup {n}
            BY <2>4, <3>1 DEF BlobsBy, TypeOK
        <3>4. n \notin BlobsBy(g) /\ BlobsBy(g) \in SUBSET Hash
            BY <2>4 DEF BlobsBy
        <3>5. \A x \in Agent : /\ BlobsStored(x) = Weigh(BlobsBy(x))
                               /\ BlobsStored(x)' = Weigh(BlobsBy(x)')
            BY DEF BlobsStored, BlobsBy, Weigh, MapThenSumSet, MapThenFoldSet
        <3>6. \A v : Quota(v)' = Quota(v)
            BY DEF Quota
        <3>7. \A v \in Admitted' : By[v] = g => g \in parallel
            BY <2>2 DEF QuotaInv, Admitted, UnderWay, Running
        <3>8. g \in parallel \/ Weigh(BlobsBy(g)') <= PutQuota \/ Weigh(BlobsBy(g)') <= InlineQuota
            <4>1. CASE u \in AsTree
                BY <3>1, <3>3, <3>5, <4>1 DEF QuotaInv, OverQuotaOnlyInParallel
            <4>2. CASE u \notin AsTree
                <5>1. u \in Admitted /\ Body[u] = n
                    BY <2>1, <4>2 DEF Admitted, StoreInv, Vetted
                <5>2. Weigh(BlobsBy(g)') = Weigh(BlobsBy(g)) + Size[n]
                    BY <3>1, <3>3, <3>4, <4>2, WeighAdd
                <5>3. g \in parallel \/ Weigh(BlobsBy(g)) + Size[n] <= Quota(u)
                    BY <5>1 DEF QuotaInv
                <5> QED
                    BY <5>2, <5>3 DEF Quota
            <4> QED
                BY <4>1, <4>2
        <3> HIDE DEF g, n
        <3>9. OverQuotaOnlyInParallel'
            BY <2>1, <3>2, <3>5, <3>8 DEF QuotaInv, OverQuotaOnlyInParallel
        <3>10. \A v \in Admitted' :
                  By[v] \in parallel \/ Weigh(BlobsBy(By[v])') + Size[Body[v]] <= Quota(v)
            BY <2>2, <3>2, <3>7 DEF QuotaInv
        <3> QED
            BY <2>1, <2>2, <3>6, <3>9, <3>10 DEF QuotaInv
    <2> QED
        BY <2>3, <2>4
<1>5. CASE Crash
    <2>1. UNCHANGED <<row, parallel>>
        BY <1>5 DEF Crash
    <2>2. UnderWay' \subseteq UnderWay /\ Admitted' \subseteq Admitted
        BY <1>5 DEF Crash, TypeOK, UnderWay, Admitted, Running
    <2> QED
        BY <2>1, <2>2, QuotaKept
<1>6. CASE UNCHANGED vars
    <2>1. UNCHANGED <<row, parallel, at>>
        BY <1>6 DEF vars
    <2> QED
        BY <2>1, QuotaKept DEF UnderWay, Admitted
<1> QED
    BY <1>1, <1>2, <1>3, <1>4, <1>5, <1>6 DEF Next, Proceed

\* Blobs pass an agent's quotas only if it had two uploads under way at once.
THEOREM QuotaHeld == Spec => []OverQuotaOnlyInParallel
<1>1. Init => QuotaInv
    <2> SUFFICES ASSUME Init PROVE QuotaInv
        OBVIOUS
    <2>1. \A g : BlobsBy(g) = {}
        BY ArtifactAssumption DEF Init, BlobsBy
    <2>2. \A g : BlobsStored(g) = 0
        <3>1. \A g : BlobsStored(g) = Weigh(BlobsBy(g))
            BY DEF BlobsStored, BlobsBy, Weigh, MapThenSumSet, MapThenFoldSet
        <3> QED
            BY <2>1, <3>1, WeighSteps
    <2>3. UnderWay = {} /\ Admitted = {}
        BY DEF Init, UnderWay, Admitted, Running
    <2> QED
        BY <2>2, <2>3, ArtifactAssumption DEF QuotaInv, OverQuotaOnlyInParallel
<1>2. QuotaInv => OverQuotaOnlyInParallel
    BY DEF QuotaInv
<1> QED
    BY <1>1, <1>2, TypeCorrect, StoreHolds, QuotaStep, PTL DEF Spec
=============================================================================
