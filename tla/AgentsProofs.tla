---------------------------- MODULE AgentsProofs ----------------------------
(***************************************************************************)
(* Theorems about Agents, for any agents, atoms, reviews and thresholds.   *)
(***************************************************************************)
EXTENDS Agents, FiniteSetTheorems, TLAPS

\* What clamp returns.
LEMMA ClampedRange ==
    ASSUME NEW n \in Int
    PROVE  Clamped(n) \in 0..100
BY DEF Clamped

LEMMA ChangeRange == \A r \in Review : Change(r) \in {5, -10}
BY DEF Change

\* Every step keeps the types.
LEMMA TypeStep == TypeOK /\ [Next]_vars => TypeOK'
<1> SUFFICES ASSUME TypeOK, [Next]_vars PROVE TypeOK'
    OBVIOUS
<1> USE AgentAssumption
<1> USE DEF TypeOK, Step, Running, Status, Goto, registry, atoms, history
<1>1. ASSUME NEW a \in Agent, Registering(a) PROVE TypeOK'
    BY <1>1 DEF Registering, Register, RegisterSimple, ConfirmSelect, ConfirmUpdate, Initial
<1>2. ASSUME NEW x \in Atom, PublishInsert(x) PROVE TypeOK'
    BY <1>2 DEF PublishInsert
<1>3. ASSUME NEW x \in Atom, PublishCommit(x) PROVE TypeOK'
    BY <1>3 DEF PublishCommit
<1>4. ASSUME NEW x \in Atom, PublishFails(x) PROVE TypeOK'
    BY <1>4 DEF PublishFails
<1>5. ASSUME NEW r \in Review, InsertReview(r) PROVE TypeOK'
    BY <1>5 DEF InsertReview
<1>6. ASSUME NEW r \in Review, SetStatus(r) PROVE TypeOK'
    <2>1. Outcome(r) \in Status
        BY DEF Outcome
    <2>2. status' \in [Atom -> Status \cup {None}]
        BY <1>6, <2>1 DEF SetStatus
    <2> QED
        BY <1>6, <2>2 DEF SetStatus
<1>7. ASSUME NEW r \in Review, ReadReliability(r) PROVE TypeOK'
    <2>1. Author(r) \in Agent
        BY DEF Author
    <2> QED
        BY <1>7, <2>1 DEF ReadReliability, Initial
<1>8. ASSUME NEW r \in Review, WriteReliability(r) PROVE TypeOK'
    <2>1. Author(r) \in Agent
        BY DEF Author
    <2>2. seen[r] \in 0..100 /\ earned[Author(r)] \in 0..100
        BY <1>8, <2>1 DEF WriteReliability
    <2>3. seen[r] + Change(r) \in Int /\ earned[Author(r)] + Change(r) \in Int
        <3> HIDE DEF TypeOK
        <3>1. Change(r) \in Int
            BY ChangeRange
        <3> QED
            BY <2>2, <3>1
    <2>4. Clamped(seen[r] + Change(r)) \in 0..100
          /\ Clamped(earned[Author(r)] + Change(r)) \in 0..100
        BY <2>3, ClampedRange
    <2> QED
        BY <1>8, <2>1, <2>4 DEF WriteReliability
<1>9. ASSUME NEW r \in Review, ReviewFails(r) PROVE TypeOK'
    BY <1>9 DEF ReviewFails
<1>10. CASE Crash
    BY <1>10 DEF Crash
<1>11. CASE UNCHANGED vars
    BY <1>11 DEF vars
<1> QED
    BY <1>1, <1>2, <1>3, <1>4, <1>5, <1>6, <1>7, <1>8, <1>9, <1>10, <1>11
    DEF Next, Reviewing

\* Type correctness: a review holds a reliability exactly between its SELECT
\* and its UPDATE.
THEOREM TypeCorrect == Spec => []TypeOK
<1>1. Init => TypeOK
    BY AgentAssumption DEF Init, TypeOK, Step, Initial
<1> QED
    BY <1>1, TypeStep, PTL DEF Spec

---------------------------------------------------------------------------
(* The rows of reviews.                                                    *)

\* A review past its INSERT has its row, a row is of a review that was sent,
\* and no transaction publishes an atom that is there already.
RowsInv ==
    /\ \A r \in Review : at[r] \in Running => decided[Of[r]] = r
    /\ \A x \in Atom : decided[x] # None =>
           Of[decided[x]] = x /\ at[decided[x]] # "unsent" /\ status[x] # None
    /\ \A x \in Atom : draft[x] # None => status[x] = None

ReviewInv == RowsInv /\ StatusFollowsReview

LEMMA ReviewStep == TypeOK /\ ReviewInv /\ [Next]_vars => ReviewInv'
<1> SUFFICES ASSUME TypeOK, ReviewInv, [Next]_vars PROVE ReviewInv'
    OBVIOUS
<1> USE AgentAssumption
<1> USE DEF TypeOK, ReviewInv, RowsInv, StatusFollowsReview, Running, Step, Status,
            Outcome, Goto, registry, atoms, history
<1>1. ASSUME NEW a \in Agent, Registering(a) PROVE ReviewInv'
    BY <1>1 DEF Registering, Register, RegisterSimple, ConfirmSelect, ConfirmUpdate
<1>2. ASSUME NEW x \in Atom, PublishInsert(x) PROVE ReviewInv'
    BY <1>2 DEF PublishInsert
<1>3. ASSUME NEW x \in Atom, PublishCommit(x) PROVE ReviewInv'
    BY <1>3 DEF PublishCommit
<1>4. ASSUME NEW x \in Atom, PublishFails(x) PROVE ReviewInv'
    BY <1>4 DEF PublishFails
<1>5. ASSUME NEW r \in Review, InsertReview(r) PROVE ReviewInv'
    <2>1. CASE decided[Of[r]] # None
        BY <1>5, <2>1 DEF InsertReview
    <2>2. CASE decided[Of[r]] = None
        <3>1. /\ decided' = [decided EXCEPT ![Of[r]] = r]
              /\ at' = [at EXCEPT ![r] = "status"]
              /\ UNCHANGED <<status, draft, crashes, faults>>
            BY <1>5, <2>2 DEF InsertReview
        <3>2. \A x \in Atom : decided[x] # r
            BY <1>5 DEF InsertReview
        <3>3. RowsInv'
            BY <1>5, <3>1, <3>2, <2>2 DEF InsertReview
        <3>4. StatusFollowsReview'
            BY <3>1, <3>2, <2>2
        <3> QED
            BY <3>3, <3>4
    <2> QED
        BY <2>1, <2>2
<1>6. ASSUME NEW r \in Review, SetStatus(r) PROVE ReviewInv'
    <2>1. /\ decided[Of[r]] = r
          /\ at' = [at EXCEPT ![r] = "read"]
          /\ status' = [status EXCEPT ![Of[r]] = Outcome(r)]
          /\ UNCHANGED <<decided, draft, crashes, faults>>
        BY <1>6 DEF SetStatus
    <2>2. RowsInv'
        BY <1>6, <2>1 DEF SetStatus
    <2>3. ASSUME NEW x \in Atom
          PROVE  /\ status'[x] \in {"approved", "rejected"} =>
                        decided'[x] # None /\ status'[x] = Outcome(decided'[x])
                 /\ decided'[x] # None =>
                        \/ status'[x] = Outcome(decided'[x])
                        \/ at'[decided'[x]] = "status"
                        \/ at'[decided'[x]] \in {"error", "gone"} /\ crashes' + faults' > 0
        <3>1. CASE x = Of[r]
            BY <2>1, <3>1
        <3>2. CASE x # Of[r]
            BY <2>1, <3>2
        <3> QED
            BY <3>1, <3>2
    <2>4. StatusFollowsReview'
        BY <2>3
    <2> QED
        BY <2>2, <2>4
<1>7. ASSUME NEW r \in Review, ReadReliability(r) PROVE ReviewInv'
    BY <1>7 DEF ReadReliability
<1>8. ASSUME NEW r \in Review, WriteReliability(r) PROVE ReviewInv'
    BY <1>8 DEF WriteReliability
<1>9. ASSUME NEW r \in Review, ReviewFails(r) PROVE ReviewInv'
    BY <1>9 DEF ReviewFails
<1>10. CASE Crash
    BY <1>10 DEF Crash
<1>11. CASE UNCHANGED vars
    BY <1>11 DEF vars
<1> QED
    BY <1>1, <1>2, <1>3, <1>4, <1>5, <1>6, <1>7, <1>8, <1>9, <1>10, <1>11
    DEF Next, Reviewing

LEMMA ReviewHolds == Spec => []ReviewInv
<1>1. Init => ReviewInv
    BY AgentAssumption DEF Init, ReviewInv, RowsInv, StatusFollowsReview, Running
<1> QED
    BY <1>1, TypeCorrect, ReviewStep, PTL DEF Spec

\* An atom shows the outcome of its one review, and no other.
THEOREM ReviewShown == Spec => []StatusFollowsReview
<1>1. ReviewInv => StatusFollowsReview
    BY DEF ReviewInv
<1> QED
    BY <1>1, ReviewHolds, PTL

---------------------------------------------------------------------------
(* Reliability.                                                            *)

\* The atoms whose one review is over and done.
Settled(a, decision) == {x \in ReviewsOf(a, decision) : at[decided[x]] = "done"}

\* n is within what the settled reviews of a can have made.
Within(n, a) ==
    /\ n <= Initial + 5 * Cardinality(Settled(a, "approve"))
    /\ n >= Initial - 10 * Cardinality(Settled(a, "reject"))

\* What the column shows and what a review has read, before its own change.
SettledBound ==
    /\ \A a \in Agent : reliability[a] # None => Within(reliability[a], a)
    /\ \A r \in Review : at[r] = "write" => Within(seen[r], Author(r))

\* Rows and answers are never taken back.
RowsKept ==
    /\ \A x \in Atom : decided[x] # None => decided'[x] = decided[x]
    /\ \A r \in Review : at[r] = "done" => at'[r] = "done"

LEMMA KeepsRows == TypeOK /\ [Next]_vars => RowsKept
<1> SUFFICES ASSUME TypeOK, [Next]_vars PROVE RowsKept
    OBVIOUS
<1> USE DEF TypeOK, RowsKept, Goto, Running
<1>1. ASSUME NEW a \in Agent, Registering(a) PROVE RowsKept
    BY <1>1 DEF Registering, Register, RegisterSimple, ConfirmSelect, ConfirmUpdate
<1>2. ASSUME NEW x \in Atom, PublishInsert(x) \/ PublishCommit(x) \/ PublishFails(x)
      PROVE RowsKept
    BY <1>2 DEF PublishInsert, PublishCommit, PublishFails
<1>3. ASSUME NEW r \in Review, InsertReview(r) PROVE RowsKept
    BY <1>3 DEF InsertReview
<1>4. ASSUME NEW r \in Review, SetStatus(r) \/ ReadReliability(r) \/ WriteReliability(r)
      PROVE RowsKept
    BY <1>4 DEF SetStatus, ReadReliability, WriteReliability
<1>5. ASSUME NEW r \in Review, ReviewFails(r) PROVE RowsKept
    BY <1>5 DEF ReviewFails
<1>6. CASE Crash
    BY <1>6 DEF Crash
<1>7. CASE UNCHANGED vars
    BY <1>7 DEF vars
<1> QED
    BY <1>1, <1>2, <1>3, <1>4, <1>5, <1>6, <1>7 DEF Next, Reviewing

LEMMA SettledFinite ==
    ASSUME NEW a, NEW d
    PROVE  /\ IsFiniteSet(Settled(a, d)) /\ Cardinality(Settled(a, d)) \in Nat
           /\ IsFiniteSet(ReviewsOf(a, d)) /\ Cardinality(ReviewsOf(a, d)) \in Nat
           /\ Cardinality(Settled(a, d)) <= Cardinality(ReviewsOf(a, d))
<1>1. ReviewsOf(a, d) \subseteq Atom /\ Settled(a, d) \subseteq ReviewsOf(a, d)
    BY DEF ReviewsOf, Settled
<1>2. IsFiniteSet(ReviewsOf(a, d))
    BY <1>1, AgentAssumption, FS_Subset
<1> QED
    BY <1>1, <1>2, FS_Subset, FS_CardinalityType

LEMMA SettledFinitePrime ==
    ASSUME NEW a, NEW d
    PROVE  /\ IsFiniteSet(Settled(a, d)') /\ Cardinality(Settled(a, d)') \in Nat
           /\ IsFiniteSet(ReviewsOf(a, d)') /\ Cardinality(ReviewsOf(a, d)') \in Nat
<1>1. ReviewsOf(a, d)' \subseteq Atom /\ Settled(a, d)' \subseteq ReviewsOf(a, d)'
    BY DEF ReviewsOf, Settled
<1>2. IsFiniteSet(ReviewsOf(a, d)')
    BY <1>1, AgentAssumption, FS_Subset
<1> QED
    BY <1>1, <1>2, FS_Subset, FS_CardinalityType

LEMMA SettledGrows ==
    ASSUME TypeOK, RowsKept, NEW a, NEW d
    PROVE  /\ Settled(a, d) \subseteq Settled(a, d)'
           /\ Cardinality(Settled(a, d)) <= Cardinality(Settled(a, d)')
           /\ Cardinality(ReviewsOf(a, d)) <= Cardinality(ReviewsOf(a, d)')
<1>1. Settled(a, d) \subseteq Settled(a, d)' /\ ReviewsOf(a, d) \subseteq ReviewsOf(a, d)'
    BY AgentAssumption DEF TypeOK, RowsKept, Settled, ReviewsOf
<1> QED
    BY <1>1, SettledFinitePrime, FS_Subset

\* What was within the settled reviews stays so.
LEMMA WithinKept ==
    ASSUME TypeOK, RowsKept, NEW a, NEW n \in 0..100, Within(n, a)
    PROVE  /\ n <= Initial + 5 * Cardinality(Settled(a, "approve")')
           /\ n >= Initial - 10 * Cardinality(Settled(a, "reject")')
<1>1. /\ Cardinality(Settled(a, "approve")) <= Cardinality(Settled(a, "approve")')
      /\ Cardinality(Settled(a, "reject")) <= Cardinality(Settled(a, "reject")')
    BY SettledGrows
<1> QED
    BY <1>1, SettledFinite, SettledFinitePrime DEF Within, Initial

LEMMA InitialWithin == \A a \in Agent : Within(Initial, a) /\ Within(Initial, a)'
    BY SettledFinite, SettledFinitePrime DEF Within, Initial

\* The review that is written joins the settled ones.
LEMMA WriteSettles ==
    ASSUME TypeOK, ReviewInv, RowsKept, NEW r \in Review, WriteReliability(r)
    PROVE  Cardinality(Settled(Author(r), Decision[r])') >=
               Cardinality(Settled(Author(r), Decision[r])) + 1
<1> DEFINE S == Settled(Author(r), Decision[r])
<1> DEFINE T == Settled(Author(r), Decision[r])'
<1>1. Of[r] \in Atom /\ decided[Of[r]] = r
    BY AgentAssumption DEF WriteReliability, ReviewInv, RowsInv, Running
<1>2. Of[r] \notin S
    BY <1>1 DEF Settled, WriteReliability
<1>3. Of[r] \in T
    BY <1>1, AgentAssumption
    DEF Settled, ReviewsOf, Author, WriteReliability, Goto, TypeOK
<1>4. S \subseteq T
    BY SettledGrows
<1>5. IsFiniteSet(S) /\ IsFiniteSet(T) /\ Cardinality(T) \in Nat /\ Cardinality(S) \in Nat
    BY SettledFinite, SettledFinitePrime
<1> HIDE DEF S, T
<1>6. Cardinality(S \cup {Of[r]}) = Cardinality(S) + 1
    BY <1>2, <1>5, FS_AddElement
<1>7. Cardinality(S \cup {Of[r]}) <= Cardinality(T)
    BY <1>3, <1>4, <1>5, FS_Subset
<1> QED
    BY <1>5, <1>6, <1>7 DEF S, T

\* The value written is within the reviews settled after the write.
LEMMA WriteWithin ==
    ASSUME TypeOK, ReviewInv, RowsKept, NEW r \in Review, WriteReliability(r),
           Within(seen[r], Author(r))
    PROVE  LET n == Clamped(seen[r] + Change(r))
           IN  /\ n \in 0..100
               /\ n <= Initial + 5 * Cardinality(Settled(Author(r), "approve")')
               /\ n >= Initial - 10 * Cardinality(Settled(Author(r), "reject")')
<1> DEFINE U == Cardinality(Settled(Author(r), "approve"))
<1> DEFINE V == Cardinality(Settled(Author(r), "approve")')
<1> DEFINE K == Cardinality(Settled(Author(r), "reject"))
<1> DEFINE L == Cardinality(Settled(Author(r), "reject")')
<1>1. U \in Nat /\ V \in Nat /\ K \in Nat /\ L \in Nat /\ U <= V /\ K <= L
    BY SettledFinite, SettledFinitePrime, SettledGrows
<1>2. seen[r] \in 0..100
    BY AgentAssumption DEF TypeOK, WriteReliability
<1>3. seen[r] <= 50 + 5 * U /\ seen[r] >= 50 - 10 * K
    BY DEF Within, Initial
<1>4. CASE Decision[r] = "approve"
    <2>1. V >= U + 1 /\ Change(r) = 5
        BY <1>4, WriteSettles DEF Change
    <2> QED
        BY <1>1, <1>2, <1>3, <2>1 DEF Clamped, Initial
<1>5. CASE Decision[r] = "reject"
    <2>1. L >= K + 1 /\ Change(r) = -10
        BY <1>5, WriteSettles DEF Change
    <2> QED
        BY <1>1, <1>2, <1>3, <2>1 DEF Clamped, Initial
<1> QED
    BY <1>4, <1>5, AgentAssumption

LEMMA BoundStep ==
    TypeOK /\ ReviewInv /\ SettledBound /\ [Next]_vars => SettledBound'
<1> SUFFICES ASSUME TypeOK, ReviewInv, SettledBound, [Next]_vars PROVE SettledBound'
    OBVIOUS
<1>1. RowsKept
    BY KeepsRows
<1>2. ASSUME NEW a \in Agent, reliability[a] # None, reliability'[a] = reliability[a]
      PROVE  Within(reliability[a], a)'
    <2>1. reliability[a] \in 0..100 /\ Within(reliability[a], a)
        BY <1>2 DEF TypeOK, SettledBound
    <2> QED
        BY <1>1, <1>2, <2>1, WithinKept DEF Within, Initial
<1>3. ASSUME NEW r \in Review, at[r] = "write", seen'[r] = seen[r]
      PROVE  Within(seen[r], Author(r))'
    <2>1. seen[r] \in 0..100 /\ Within(seen[r], Author(r))
        BY <1>3 DEF TypeOK, SettledBound
    <2> QED
        BY <1>1, <1>3, <2>1, WithinKept DEF Within, Initial, Author
<1>4. ASSUME UNCHANGED reliability,
             \A r \in Review : at'[r] = "write" => at[r] = "write" /\ seen'[r] = seen[r]
      PROVE  SettledBound'
    BY <1>2, <1>3, <1>4 DEF SettledBound
<1>5. ASSUME NEW a \in Agent, ConfirmUpdate(a) PROVE SettledBound'
    <2>1. \A b \in Agent : reliability'[b] = reliability[b]
                           \/ reliability'[b] = Initial
        BY <1>5 DEF ConfirmUpdate, TypeOK
    <2>2. UNCHANGED <<at, seen>>
        BY <1>5 DEF ConfirmUpdate
    <2>3. \A b \in Agent : reliability'[b] # None => Within(reliability[b], b)'
        BY <2>1, <1>2, InitialWithin
    <2> QED
        BY <2>2, <2>3, <1>3 DEF SettledBound
<1>6. ASSUME NEW r \in Review, ReadReliability(r) PROVE SettledBound'
    <2>1. UNCHANGED reliability
        BY <1>6 DEF ReadReliability
    <2>2. Author(r) \in Agent
        BY AgentAssumption DEF Author
    <2>3. at'[r] = "write" => seen'[r] \in {Initial, reliability[Author(r)]} \ {None}
        BY <1>6, <2>2, AgentAssumption DEF ReadReliability, Goto, TypeOK, Initial
    <2>4. at'[r] = "write" => Within(seen[r], Author(r))'
        BY <2>1, <2>2, <2>3, <1>2, InitialWithin DEF Author
    <2>5. \A q \in Review \ {r} : at'[q] = at[q] /\ seen'[q] = seen[q]
        BY <1>6 DEF ReadReliability, Goto, TypeOK
    <2> QED
        BY <2>1, <2>4, <2>5, <1>2, <1>3 DEF SettledBound
<1>7. ASSUME NEW r \in Review, WriteReliability(r) PROVE SettledBound'
    <2>1. Author(r) \in Agent
        BY AgentAssumption DEF Author
    <2>2. Within(seen[r], Author(r))
        BY <1>7 DEF WriteReliability, SettledBound
    <2>3. reliability'[Author(r)] = Clamped(seen[r] + Change(r))
        BY <1>7, <2>1 DEF WriteReliability, TypeOK
    <2>4. Within(reliability[Author(r)], Author(r))'
        BY <1>1, <1>7, <2>2, <2>3, WriteWithin DEF Within, Initial, Author
    <2>5. \A b \in Agent \ {Author(r)} : reliability'[b] = reliability[b]
        BY <1>7 DEF WriteReliability, TypeOK
    <2>6. \A q \in Review : at'[q] = "write" => at[q] = "write" /\ seen'[q] = seen[q]
        BY <1>7 DEF WriteReliability, Goto, TypeOK
    <2>7. \A b \in Agent : reliability'[b] # None => Within(reliability[b], b)'
        BY <2>4, <2>5, <1>2
    <2> QED
        BY <2>6, <2>7, <1>3 DEF SettledBound
<1>8. ASSUME NEW a \in Agent, Register(a) \/ RegisterSimple(a) \/ ConfirmSelect(a)
      PROVE SettledBound'
    BY <1>4, <1>8 DEF Register, RegisterSimple, ConfirmSelect
<1>9. ASSUME NEW x \in Atom, PublishInsert(x) \/ PublishCommit(x) \/ PublishFails(x)
      PROVE SettledBound'
    BY <1>4, <1>9 DEF PublishInsert, PublishCommit, PublishFails
<1>10. ASSUME NEW r \in Review, InsertReview(r) \/ SetStatus(r) \/ ReviewFails(r)
       PROVE SettledBound'
    BY <1>4, <1>10 DEF InsertReview, SetStatus, ReviewFails, Goto, TypeOK
<1>11. CASE Crash
    BY <1>4, <1>11 DEF Crash, Running
<1>12. CASE UNCHANGED vars
    BY <1>4, <1>12 DEF vars
<1> QED
    BY <1>5, <1>6, <1>7, <1>8, <1>9, <1>10, <1>11, <1>12
    DEF Next, Registering, Reviewing

LEMMA BoundHolds == Spec => []SettledBound
<1>1. Init => SettledBound
    BY DEF Init, SettledBound
<1> QED
    BY <1>1, TypeCorrect, ReviewHolds, BoundStep, PTL DEF Spec

LEMMA SettledAreReviews ==
    TypeOK /\ SettledBound => ReliabilityWithinReviews
<1> SUFFICES ASSUME TypeOK, SettledBound, NEW a \in Agent, reliability[a] # None
             PROVE  /\ reliability[a] <= Initial + 5 * Cardinality(ReviewsOf(a, "approve"))
                    /\ reliability[a] >= Initial - 10 * Cardinality(ReviewsOf(a, "reject"))
    BY DEF ReliabilityWithinReviews
<1>1. reliability[a] \in 0..100 /\ Within(reliability[a], a)
    BY DEF TypeOK, SettledBound
<1> QED
    BY <1>1, SettledFinite DEF Within, Initial

\* Whatever is lost, a reliability stays between what the author's rejections
\* and its approvals alone would have made of it.
THEOREM ReliabilityBounded == Spec => []ReliabilityWithinReviews
BY TypeCorrect, BoundHolds, SettledAreReviews, PTL

---------------------------------------------------------------------------
(* Trust.                                                                  *)

\* What trust asks for, which is never taken back.
Deserves(a) ==
    /\ published[a] >= TrustAfter
    /\ Initial + 5 * Cardinality(ReviewsOf(a, "approve")) >= TrustAt

LEMMA TrustStep ==
    TypeOK /\ ReliabilityWithinReviews /\ TrustEarned /\ [Next]_vars => TrustEarned'
<1> SUFFICES ASSUME TypeOK, ReliabilityWithinReviews, TrustEarned, [Next]_vars
             PROVE  TrustEarned'
    OBVIOUS
<1>1. ASSUME NEW a \in Agent, Deserves(a), published'[a] >= published[a]
      PROVE  Deserves(a)'
    <2>1. Cardinality(ReviewsOf(a, "approve")) <= Cardinality(ReviewsOf(a, "approve")')
        BY KeepsRows, SettledGrows
    <2>2. TrustAfter \in Nat /\ TrustAt \in Nat /\ published[a] \in Nat
        BY AgentAssumption DEF TypeOK
    <2>3. published' \in [Agent -> Nat]
        BY TypeStep DEF TypeOK
    <2> QED
        BY <1>1, <2>1, <2>2, <2>3, SettledFinite, SettledFinitePrime DEF Deserves, Initial
<1>2. \A x \in Atom : By[x] \in Agent
    BY AgentAssumption
<1>3. \A x \in Atom : "auto_approved" \in {status[x], draft[x]} => Deserves(By[x])
    BY DEF TrustEarned, Deserves
<1>4. ASSUME UNCHANGED published,
             \A x \in Atom : "auto_approved" \in {status'[x], draft'[x]} =>
                 "auto_approved" \in {status[x], draft[x]} \/ Deserves(By[x])
      PROVE  TrustEarned'
    <2> SUFFICES ASSUME NEW x \in Atom, "auto_approved" \in {status'[x], draft'[x]}
                 PROVE  Deserves(By[x])'
        BY DEF TrustEarned, Deserves
    <2>1. Deserves(By[x])
        BY <1>3, <1>4
    <2>2. published'[By[x]] >= published[By[x]]
        BY <1>2, <1>4 DEF TypeOK
    <2> QED
        BY <1>1, <1>2, <2>1, <2>2
<1>5. ASSUME NEW x \in Atom, PublishInsert(x) PROVE TrustEarned'
    <2>1. ASSUME Trusted(By[x]) PROVE Deserves(By[x])
        <3>1. /\ reliability[By[x]] \in 0..100
              /\ reliability[By[x]] <= Initial + 5 * Cardinality(ReviewsOf(By[x], "approve"))
            BY <1>2, <2>1 DEF Trusted, TypeOK, ReliabilityWithinReviews
        <3>2. TrustAt \in Nat
            BY AgentAssumption
        <3> QED
            BY <2>1, <3>1, <3>2, SettledFinite DEF Trusted, Deserves, Initial
    <2>2. \A y \in Atom : "auto_approved" \in {status'[y], draft'[y]} =>
              "auto_approved" \in {status[y], draft[y]} \/ Deserves(By[y])
        BY <1>5, <2>1 DEF PublishInsert, TypeOK
    <2> QED
        BY <1>4, <1>5, <2>2 DEF PublishInsert
<1>6. ASSUME NEW x \in Atom, PublishCommit(x) PROVE TrustEarned'
    <2> SUFFICES ASSUME NEW y \in Atom, "auto_approved" \in {status'[y], draft'[y]}
                 PROVE  Deserves(By[y])'
        BY DEF TrustEarned, Deserves
    <2>1. "auto_approved" \in {status[y], draft[y]}
        BY <1>6, AgentAssumption DEF PublishCommit, TypeOK
    <2>2. published'[By[y]] >= published[By[y]]
        BY <1>2, <1>6 DEF PublishCommit, TypeOK
    <2> QED
        BY <1>1, <1>2, <1>3, <2>1, <2>2
<1>7. ASSUME NEW x \in Atom, PublishFails(x) PROVE TrustEarned'
    <2>1. \A y \in Atom : "auto_approved" \in {status'[y], draft'[y]} =>
              "auto_approved" \in {status[y], draft[y]}
        BY <1>7, AgentAssumption DEF PublishFails, TypeOK
    <2> QED
        BY <1>4, <1>7, <2>1 DEF PublishFails
<1>8. ASSUME NEW r \in Review, SetStatus(r) PROVE TrustEarned'
    <2>1. \A y \in Atom : "auto_approved" \in {status'[y], draft'[y]} =>
              "auto_approved" \in {status[y], draft[y]}
        BY <1>8 DEF SetStatus, Outcome, TypeOK
    <2> QED
        BY <1>4, <1>8, <2>1 DEF SetStatus
<1>9. ASSUME NEW r \in Review,
             InsertReview(r) \/ ReadReliability(r) \/ WriteReliability(r) \/ ReviewFails(r)
      PROVE TrustEarned'
    BY <1>4, <1>9 DEF InsertReview, ReadReliability, WriteReliability, ReviewFails, atoms
<1>10. ASSUME NEW a \in Agent, Registering(a) PROVE TrustEarned'
    BY <1>4, <1>10
    DEF Registering, Register, RegisterSimple, ConfirmSelect, ConfirmUpdate, atoms
<1>11. CASE Crash
    <2>1. \A y \in Atom : "auto_approved" \in {status'[y], draft'[y]} =>
              "auto_approved" \in {status[y], draft[y]}
        BY <1>11, AgentAssumption DEF Crash, TypeOK
    <2> QED
        BY <1>4, <1>11, <2>1 DEF Crash
<1>12. CASE UNCHANGED vars
    BY <1>4, <1>12 DEF vars, atoms
<1> QED
    BY <1>5, <1>6, <1>7, <1>8, <1>9, <1>10, <1>11, <1>12 DEF Next, Reviewing

\* An atom approved without a review has an author who published enough and
\* whose approvals suffice.
THEOREM TrustIsEarned == Spec => []TrustEarned
<1>1. Init => TrustEarned
    BY AgentAssumption DEF Init, TrustEarned
<1> QED
    BY <1>1, TypeCorrect, ReliabilityBounded, TrustStep, PTL DEF Spec

---------------------------------------------------------------------------
(* Lost updates.                                                           *)

\* The only review of an author being counted has read what its reviews have
\* made so far.
SeenEarned ==
    \A r \in Review : at[r] = "write" /\ Author(r) \notin parallel =>
        /\ seen[r] = earned[Author(r)]
        /\ \A q \in Review : at[q] = "write" /\ Author(q) = Author(r) => q = r

EarnedInv == EarnedUnlessParallel /\ SeenEarned

LEMMA EarnedStep == TypeOK /\ EarnedInv /\ [Next]_vars => EarnedInv'
<1> SUFFICES ASSUME TypeOK, EarnedInv, [Next]_vars PROVE EarnedInv'
    OBVIOUS
<1> USE AgentAssumption
<1> USE DEF TypeOK, EarnedInv, EarnedUnlessParallel, SeenEarned
<1>1. \A r \in Review : Author(r) \in Agent /\ Author(r)' = Author(r)
    BY DEF Author
<1>2. ASSUME NEW a \in Agent, ConfirmUpdate(a) PROVE EarnedInv'
    BY <1>2 DEF ConfirmUpdate, history, Author
<1>3. ASSUME NEW r \in Review, ReadReliability(r) PROVE EarnedInv'
    <2>1. CASE published[Author(r)] < CountAfter
        BY <1>1, <1>3, <2>1 DEF ReadReliability, Goto
    <2>2. CASE ~ (published[Author(r)] < CountAfter)
        <3> DEFINE a == Author(r)
        <3>1. /\ seen' = [seen EXCEPT
                    ![r] = IF reliability[a] = None THEN Initial ELSE reliability[a]]
              /\ at' = [at EXCEPT ![r] = "write"]
              /\ at[r] = "read"
              /\ UNCHANGED <<reliability, earned>>
            BY <1>3, <2>2 DEF ReadReliability, Goto
        <3>2. /\ parallel \subseteq parallel' /\ parallel' \subseteq parallel \cup {a}
              /\ a \notin parallel' =>
                     \A q \in Review : at[q] = "write" => Author(q) # a
            BY <1>3, <2>2 DEF ReadReliability
        <3>3. EarnedUnlessParallel'
            BY <3>1, <3>2
        <3>4. ASSUME NEW q \in Review, at'[q] = "write", Author(q) \notin parallel'
              PROVE  /\ seen'[q] = earned'[Author(q)]
                     /\ \A p \in Review : at'[p] = "write" /\ Author(p) = Author(q) => p = q
            <4>1. CASE q = r
                BY <1>1, <3>1, <3>2, <3>4, <4>1
            <4>2. CASE q # r
                BY <1>1, <3>1, <3>2, <3>4, <4>2
            <4> QED
                BY <4>1, <4>2
        <3> HIDE DEF a
        <3> QED
            BY <1>1, <3>3, <3>4
    <2> QED
        BY <2>1, <2>2
<1>4. ASSUME NEW r \in Review, WriteReliability(r) PROVE EarnedInv'
    <2>1. /\ at[r] = "write"
          /\ reliability' = [reliability EXCEPT ![Author(r)] = Clamped(seen[r] + Change(r))]
          /\ earned' = [earned EXCEPT ![Author(r)] = Clamped(earned[Author(r)] + Change(r))]
          /\ seen' = [seen EXCEPT ![r] = None]
          /\ at' = [at EXCEPT ![r] = "done"]
          /\ parallel' = parallel
        BY <1>4 DEF WriteReliability, Goto
    <2>2. Author(r) \notin parallel => seen[r] = earned[Author(r)]
        BY <2>1
    <2>3. EarnedUnlessParallel'
        BY <1>1, <2>1, <2>2
    <2>4. SeenEarned'
        BY <1>1, <2>1
    <2> QED
        BY <2>3, <2>4
<1>5. ASSUME UNCHANGED <<reliability, earned, parallel>>,
             \A r \in Review : at'[r] = "write" => at[r] = "write" /\ seen'[r] = seen[r]
      PROVE  EarnedInv'
    BY <1>1, <1>5
<1> HIDE DEF EarnedInv, EarnedUnlessParallel, SeenEarned
<1>6. ASSUME NEW a \in Agent, Register(a) \/ RegisterSimple(a) \/ ConfirmSelect(a)
      PROVE EarnedInv'
    BY <1>5, <1>6 DEF Register, RegisterSimple, ConfirmSelect, history
<1>7. ASSUME NEW x \in Atom, PublishInsert(x) \/ PublishCommit(x) \/ PublishFails(x)
      PROVE EarnedInv'
    BY <1>5, <1>7 DEF PublishInsert, PublishCommit, PublishFails, history
<1>8. ASSUME NEW r \in Review, InsertReview(r) \/ SetStatus(r) \/ ReviewFails(r)
      PROVE EarnedInv'
    BY <1>5, <1>8 DEF InsertReview, SetStatus, ReviewFails, Goto, history
<1>9. CASE Crash
    BY <1>5, <1>9 DEF Crash, Running, history
<1>10. CASE UNCHANGED vars
    BY <1>5, <1>10 DEF vars, history
<1> QED
    BY <1>2, <1>3, <1>4, <1>6, <1>7, <1>8, <1>9, <1>10 DEF Next, Registering, Reviewing

\* Only reviews counted at once lose their change.
THEOREM EarnedAlone == Spec => []EarnedUnlessParallel
<1>1. Init => EarnedInv
    BY DEF Init, EarnedInv, EarnedUnlessParallel, SeenEarned
<1>2. EarnedInv => EarnedUnlessParallel
    BY DEF EarnedInv
<1> QED
    BY <1>1, <1>2, TypeCorrect, EarnedStep, PTL DEF Spec
=============================================================================
