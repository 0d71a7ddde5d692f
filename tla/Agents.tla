------------------------------- MODULE Agents -------------------------------
(***************************************************************************)
(* Agents, the reviews of their atoms and the trust these earn.  Reviews   *)
(* move an author's reliability; an author reliable enough has new atoms   *)
(* approved without a review.  Confirmation, publication and review are    *)
(* requests of several statements each, and only publication runs in a     *)
(* transaction.                                                            *)
(*                                                                         *)
(* Reliabilities are in hundredths.  An atom is named by the request that  *)
(* publishes it, and the reviewer is the author (review_atom), so that the *)
(* unique index on (atom, reviewer) leaves one review per atom.            *)
(***************************************************************************)
EXTENDS Integers, FiniteSets

CONSTANTS
    None,
    Agent,
    Atom,
    By,           \* [Atom -> Agent]: the author
    Review,       \* review requests, each issued once
    Of,           \* [Review -> Atom]
    Decision,     \* [Review -> {"approve", "reject"}]
    CountAfter,   \* publications before reviews count (3)
    TrustAfter,   \* publications before trust (5)
    TrustAt,      \* reliability of a trusted author (80)
    MaxConfirms,  \* bound: confirmations of an agent under way at once
    MaxCrashes,   \* bound: process deaths
    MaxFaults     \* bound: statements that fail

ASSUME AgentAssumption ==
    /\ None \notin Review \cup 0..100
    /\ None \notin {"pending", "auto_approved", "approved", "rejected"}
    /\ IsFiniteSet(Atom)
    /\ By \in [Atom -> Agent]
    /\ Of \in [Review -> Atom]
    /\ Decision \in [Review -> {"approve", "reject"}]
    /\ CountAfter \in Nat /\ TrustAfter \in Nat /\ TrustAt \in 51..100
    /\ MaxConfirms \in Nat /\ MaxCrashes \in Nat /\ MaxFaults \in Nat

VARIABLES
    agent,       \* [Agent -> {"unknown", "registered", "confirmed"}]
    confirms,    \* [Agent -> Nat]: confirmations past their SELECT
    reliability, \* [Agent -> 0..100 or None]: None is NULL
    published,   \* [Agent -> Nat]: atoms_published
    draft,       \* [Atom -> Status or None]: inserted, not committed
    status,      \* [Atom -> Status or None]: review_status of a committed atom
    decided,     \* [Atom -> Review or None]: the row of reviews
    at,          \* [Review -> Step]
    seen,        \* [Review -> 0..100 or None]: the reliability it read
    earned,      \* history: what the counted reviews make, one after another
    parallel,    \* history: authors of whom two reviews were counted at once
    crashes,
    faults

registry == <<agent, confirms>>
atoms    == <<published, draft, status>>
history  == <<earned, parallel>>
vars == <<registry, reliability, atoms, decided, at, seen, history, crashes, faults>>

Status  == {"pending", "auto_approved", "approved", "rejected"}
Running == {"status", "read", "write"}
Step    == {"unsent", "done", "error", "gone"} \cup Running

Author(r) == By[Of[r]]

Initial == 50

Clamped(n) == IF n < 0 THEN 0 ELSE IF n > 100 THEN 100 ELSE n

Change(r) == IF Decision[r] = "approve" THEN 5 ELSE -10

Outcome(r) == IF Decision[r] = "approve" THEN "approved" ELSE "rejected"

Init ==
    /\ agent = [a \in Agent |-> "unknown"]
    /\ confirms = [a \in Agent |-> 0]
    /\ reliability = [a \in Agent |-> None]
    /\ published = [a \in Agent |-> 0]
    /\ draft = [x \in Atom |-> None]
    /\ status = [x \in Atom |-> None]
    /\ decided = [x \in Atom |-> None]
    /\ at = [r \in Review |-> "unsent"]
    /\ seen = [r \in Review |-> None]
    /\ earned = [a \in Agent |-> Initial]
    /\ parallel = {}
    /\ crashes = 0
    /\ faults = 0

---------------------------------------------------------------------------
(* Registration.                                                           *)

\* With a public key, which is to be confirmed.  agent_id is the primary key.
Register(a) ==
    /\ agent[a] = "unknown"
    /\ agent' = [agent EXCEPT ![a] = "registered"]
    /\ UNCHANGED <<confirms, reliability, atoms, decided, at, seen, history, crashes, faults>>

\* With a key and a token of the hub's making: the reliability stays NULL.
RegisterSimple(a) ==
    /\ agent[a] = "unknown"
    /\ agent' = [agent EXCEPT ![a] = "confirmed"]
    /\ UNCHANGED <<confirms, reliability, atoms, decided, at, seen, history, crashes, faults>>

ConfirmSelect(a) ==
    /\ agent[a] = "registered"
    /\ confirms[a] < MaxConfirms
    /\ confirms' = [confirms EXCEPT ![a] = @ + 1]
    /\ UNCHANGED <<agent, reliability, atoms, decided, at, seen, history, crashes, faults>>

\* Mutant: the reliability is set anew.
ConfirmResets(a) ==
    /\ confirms[a] > 0
    /\ confirms' = [confirms EXCEPT ![a] = @ - 1]
    /\ agent' = [agent EXCEPT ![a] = "confirmed"]
    /\ reliability' = [reliability EXCEPT ![a] = Initial]
    /\ UNCHANGED <<atoms, decided, at, seen, history, crashes, faults>>

\* The UPDATE, which another confirmation may have preceded.
ConfirmUpdate(a) ==
    /\ confirms[a] > 0
    /\ confirms' = [confirms EXCEPT ![a] = @ - 1]
    /\ agent' = [agent EXCEPT ![a] = "confirmed"]
    /\ reliability' = [reliability EXCEPT ![a] = IF @ = None THEN Initial ELSE @]
    /\ UNCHANGED <<atoms, decided, at, seen, history, crashes, faults>>

---------------------------------------------------------------------------
(* Publication: one transaction, read committed.                           *)

\* Mutant: publications are not asked for.
TrustedEarly(a) == reliability[a] # None /\ reliability[a] >= TrustAt

Trusted(a) ==
    /\ reliability[a] # None
    /\ reliability[a] >= TrustAt
    /\ published[a] >= TrustAfter

\* INSERT INTO atoms, its CASE and its trigger.
PublishInsert(x) ==
    /\ agent[By[x]] = "confirmed"
    /\ draft[x] = None
    /\ status[x] = None
    /\ draft' = [draft EXCEPT ![x] = IF Trusted(By[x]) THEN "auto_approved" ELSE "pending"]
    /\ UNCHANGED <<registry, reliability, published, status, decided, at, seen, history,
                   crashes, faults>>

\* UPDATE agents, which holds the author's row until the commit.
PublishCommit(x) ==
    /\ draft[x] # None
    /\ published' = [published EXCEPT ![By[x]] = @ + 1]
    /\ status' = [status EXCEPT ![x] = draft[x]]
    /\ draft' = [draft EXCEPT ![x] = None]
    /\ UNCHANGED <<registry, reliability, decided, at, seen, history, crashes, faults>>

\* A statement fails and the transaction is rolled back.
PublishFails(x) ==
    /\ draft[x] # None
    /\ faults < MaxFaults
    /\ faults' = faults + 1
    /\ draft' = [draft EXCEPT ![x] = None]
    /\ UNCHANGED <<registry, reliability, published, status, decided, at, seen, history,
                   crashes>>

---------------------------------------------------------------------------
(* Reviews: four statements, each committed by itself.                     *)

Goto(r, s) == at' = [at EXCEPT ![r] = s]

\* Mutant: an atom may be reviewed again.
InsertReviewAgain(r) ==
    /\ at[r] = "unsent"
    /\ status[Of[r]] # None
    /\ decided' = [decided EXCEPT ![Of[r]] = r]
    /\ Goto(r, "status")
    /\ UNCHANGED <<registry, reliability, atoms, seen, history, crashes, faults>>

\* INSERT INTO reviews, once the atom is found.
InsertReview(r) ==
    /\ at[r] = "unsent"
    /\ status[Of[r]] # None
    /\ IF decided[Of[r]] # None
         THEN Goto(r, "error") /\ UNCHANGED decided
         ELSE /\ decided' = [decided EXCEPT ![Of[r]] = r]
              /\ Goto(r, "status")
    /\ UNCHANGED <<registry, reliability, atoms, seen, history, crashes, faults>>

SetStatus(r) ==
    /\ at[r] = "status"
    /\ status' = [status EXCEPT ![Of[r]] = Outcome(r)]
    /\ Goto(r, "read")
    /\ UNCHANGED <<registry, reliability, published, draft, decided, seen, history,
                   crashes, faults>>

\* SELECT reliability, atoms_published: the review counts from the third
\* publication on.
ReadReliability(r) ==
    LET a == Author(r)
    IN  /\ at[r] = "read"
        /\ IF published[a] < CountAfter
             THEN Goto(r, "done") /\ UNCHANGED <<seen, parallel>>
             ELSE /\ seen' = [seen EXCEPT
                        ![r] = IF reliability[a] = None THEN Initial ELSE reliability[a]]
                  /\ Goto(r, "write")
                  /\ parallel' =
                        IF \E q \in Review : at[q] = "write" /\ Author(q) = a
                          THEN parallel \cup {a} ELSE parallel
        /\ UNCHANGED <<registry, reliability, atoms, decided, earned, crashes, faults>>

\* UPDATE agents SET reliability: the value read, changed.
WriteReliability(r) ==
    LET a == Author(r)
    IN  /\ at[r] = "write"
        /\ reliability' = [reliability EXCEPT ![a] = Clamped(seen[r] + Change(r))]
        /\ earned' = [earned EXCEPT ![a] = Clamped(@ + Change(r))]
        /\ seen' = [seen EXCEPT ![r] = None]
        /\ Goto(r, "done")
        /\ UNCHANGED <<registry, atoms, decided, parallel, crashes, faults>>

\* A statement fails: what went before it stays.
ReviewFails(r) ==
    /\ at[r] \in Running
    /\ faults < MaxFaults
    /\ faults' = faults + 1
    /\ seen' = [seen EXCEPT ![r] = None]
    /\ Goto(r, "error")
    /\ UNCHANGED <<registry, reliability, atoms, decided, history, crashes>>

\* The process dies: transactions are rolled back, reviews stop where they are.
Crash ==
    /\ crashes < MaxCrashes
    /\ crashes' = crashes + 1
    /\ confirms' = [a \in Agent |-> 0]
    /\ draft' = [x \in Atom |-> None]
    /\ at' = [r \in Review |-> IF at[r] \in Running THEN "gone" ELSE at[r]]
    /\ seen' = [r \in Review |-> None]
    /\ UNCHANGED <<agent, reliability, published, status, decided, history, faults>>

---------------------------------------------------------------------------
Registering(a) ==
    Register(a) \/ RegisterSimple(a) \/ ConfirmSelect(a) \/ ConfirmUpdate(a)

Reviewing(r) ==
    InsertReview(r) \/ SetStatus(r) \/ ReadReliability(r) \/ WriteReliability(r)

Next ==
    \/ \E a \in Agent : Registering(a)
    \/ \E x \in Atom : PublishInsert(x) \/ PublishCommit(x) \/ PublishFails(x)
    \/ \E r \in Review : Reviewing(r) \/ ReviewFails(r)
    \/ Crash

Spec == Init /\ [][Next]_vars

---------------------------------------------------------------------------
TypeOK ==
    /\ agent \in [Agent -> {"unknown", "registered", "confirmed"}]
    /\ confirms \in [Agent -> 0..MaxConfirms]
    /\ reliability \in [Agent -> 0..100 \cup {None}]
    /\ published \in [Agent -> Nat]
    /\ draft \in [Atom -> {"pending", "auto_approved", None}]
    /\ status \in [Atom -> Status \cup {None}]
    /\ decided \in [Atom -> Review \cup {None}]
    /\ at \in [Review -> Step]
    /\ seen \in [Review -> 0..100 \cup {None}]
    /\ \A r \in Review : (seen[r] # None) = (at[r] = "write")
    /\ earned \in [Agent -> 0..100]
    /\ parallel \subseteq Agent
    /\ crashes \in 0..MaxCrashes
    /\ faults \in 0..MaxFaults

\* An atom shows the outcome of its one review, and no other, unless the
\* review is under way or stopped before the status (create_review).
StatusFollowsReview ==
    \A x \in Atom :
        /\ status[x] \in {"approved", "rejected"} =>
               decided[x] # None /\ status[x] = Outcome(decided[x])
        /\ decided[x] # None =>
               \/ status[x] = Outcome(decided[x])
               \/ at[decided[x]] = "status"
               \/ at[decided[x]] \in {"error", "gone"} /\ crashes + faults > 0

\* Only reviews counted at once lose their change: otherwise an author has
\* the reliability its counted reviews make one after another, through late
\* confirmations, deaths and failures.
EarnedUnlessParallel ==
    \A a \in Agent \ parallel :
        reliability[a] = earned[a] \/ (reliability[a] = None /\ earned[a] = Initial)

ReviewsOf(a, decision) ==
    {x \in Atom : By[x] = a /\ decided[x] # None /\ Decision[decided[x]] = decision}

\* Whatever is lost, a reliability stays between what the author's rejections
\* and its approvals alone would have made of it.
ReliabilityWithinReviews ==
    \A a \in Agent : reliability[a] # None =>
        /\ reliability[a] <= Initial + 5 * Cardinality(ReviewsOf(a, "approve"))
        /\ reliability[a] >= Initial - 10 * Cardinality(ReviewsOf(a, "reject"))

\* An atom approved without a review has an author who published enough and
\* whose approvals suffice (publish_atom, migration 005: "Auto-approve atoms
\* from high-reliability agents").
TrustEarned ==
    \A x \in Atom : "auto_approved" \in {status[x], draft[x]} =>
        /\ published[By[x]] >= TrustAfter
        /\ Initial + 5 * Cardinality(ReviewsOf(By[x], "approve")) >= TrustAt
=============================================================================
