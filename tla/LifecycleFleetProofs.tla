------------------------ MODULE LifecycleFleetProofs -------------------------
(***************************************************************************)
(* Theorems about Lifecycle, for any set of atoms, any thresholds that     *)
(* meet PromiseAssumption and any bounds: its types, the evidence behind   *)
(* every lifecycle, what the audit trail says, and that it implements      *)
(* LifecyclePromise.  Then about Fleet, which shares nothing with it: whose*)
(* a number is and what a stop stops, for any invocations and any bounds.  *)
(***************************************************************************)
EXTENDS Lifecycle, Fleet, FiniteSetTheorems, TLAPS

\* What the environment may do to the evidence keeps its types.
LEMMA EvidenceTypes == EvidenceTypeOK /\ [Environment]_evidence => EvidenceTypeOK'
<1> SUFFICES ASSUME EvidenceTypeOK, [Environment]_evidence PROVE EvidenceTypeOK'
  OBVIOUS
<1> USE DEF EvidenceTypeOK
<1>1. CASE \E a \in Atom : LinkReplication(a)
  BY <1>1 DEF LinkReplication
<1>2. CASE \E a \in Atom : CountReplication(a)
  BY <1>2 DEF CountReplication
<1>3. CASE \E a \in Atom, d \in 1..Hundred : Disagree(a, d)
  BY <1>3 DEF Disagree, Hundred
<1>4. CASE \E a, b \in Atom : LinkContradiction(a, b)
  BY <1>4 DEF LinkContradiction
<1>5. CASE Asserted
  BY <1>5 DEF Asserted, AssertContradiction
<1>6. CASE UNCHANGED evidence
  BY <1>6 DEF evidence
<1> QED
  BY <1>1, <1>2, <1>3, <1>4, <1>5, <1>6 DEF Environment, EvidenceNext

\* Evidence only accumulates, whatever the step.
EvidenceGrows ==
    \A a \in Atom : repl'[a] >= repl[a] /\ contradictsRows'[a] >= contradictsRows[a]

\* The environment of an instance is that of the promise.
LEMMA GatherIsEnvironment == Gather => Environment
  BY LifecycleAssumption DEF Gather, Environment, EvidenceNext, LifecycleAssumption

\* Every step leaves the evidence alone or is a step of the environment.
LEMMA EvidenceSteps == [Next]_vars => [Environment]_evidence
<1> SUFFICES ASSUME [Next]_vars PROVE [Environment]_evidence
  OBVIOUS
<1>1. CASE Gather
  BY <1>1, GatherIsEnvironment
<1>2. CASE Worker
  BY <1>2 DEF Worker, Sweep, ReadOld, UpdateLifecycle, RecordTransition, evidence
<1>3. CASE Request \/ WorkerFault \/ Crash
  BY <1>3 DEF Request, WorkerFault, Crash, evidence
<1>4. CASE UNCHANGED vars
  BY <1>4 DEF vars, evidence
<1> QED
  BY <1>1, <1>2, <1>3, <1>4 DEF Next

\* Monotonicity, which the staleness of a sweep's rows rests on.
LEMMA Monotone == EvidenceTypeOK /\ [Environment]_evidence => EvidenceGrows
<1> SUFFICES ASSUME EvidenceTypeOK, [Environment]_evidence PROVE EvidenceGrows
  OBVIOUS
<1> USE DEF EvidenceTypeOK, EvidenceGrows
<1>1. CASE UNCHANGED evidence
  BY <1>1 DEF evidence
<1>2. CASE \E a \in Atom : LinkReplication(a)
  BY <1>2 DEF LinkReplication
<1>3. CASE \E a \in Atom : CountReplication(a)
  BY <1>3 DEF CountReplication
<1>4. CASE \E a \in Atom, d \in 1..Hundred : Disagree(a, d)
  BY <1>4 DEF Disagree
<1>5. CASE \E a, b \in Atom : LinkContradiction(a, b)
  BY <1>5 DEF LinkContradiction
<1>6. CASE Asserted
  BY <1>6 DEF Asserted, AssertContradiction
<1> QED
  BY <1>1, <1>2, <1>3, <1>4, <1>5, <1>6 DEF Environment, EvidenceNext

---------------------------------------------------------------------------
\* Every variable keeps its type.
THEOREM TypeCorrect == Spec => []TypeOK
<1>1. Init => TypeOK
  <2> SUFFICES ASSUME Init PROVE TypeOK
    OBVIOUS
  <2>1. EvidenceTypeOK
    BY DEF Init, PromiseInit, EvidenceInit, NoEvidence, EvidenceTypeOK, Hundred
  <2>2. lifecycle \in [Atom -> State]
    BY DEF Init, PromiseInit, State
  <2>3. audit \in [Atom -> Seq(State \X State)]
    BY DEF Init
  <2> QED
    BY <2>1, <2>2, <2>3, LifecycleAssumption DEF Init, TypeOK, LifecycleAssumption
<1>2. TypeOK /\ [Next]_vars => TypeOK'
  <2> SUFFICES ASSUME TypeOK, [Next]_vars PROVE TypeOK'
    OBVIOUS
  <2> USE LifecycleAssumption DEF LifecycleAssumption
  <2>0. EvidenceTypeOK'
    BY EvidenceSteps, EvidenceTypes DEF TypeOK
  <2>1. CASE Gather
    BY <2>0, <2>1 DEF Gather, TypeOK, workerVars, boundVars
  <2>2. CASE Sweep
    BY <2>0, <2>2 DEF Sweep, TypeOK, boundVars
  <2>3. CASE ReadOld
    <3>1. PICK r \in rows : cur' = r /\ rows' = rows \ {r} /\ old' = lifecycle[r[1]]
      BY <2>3 DEF ReadOld
    <3>2. r \in Atom \X State /\ r # <<>> /\ lifecycle[r[1]] \in State
      BY <3>1 DEF TypeOK
    <3> QED
      BY <2>0, <2>3, <3>1, <3>2 DEF ReadOld, TypeOK, boundVars
  <2>4. CASE UpdateLifecycle
    <3>1. cur \in Atom \X State
      BY <2>4 DEF UpdateLifecycle, TypeOK
    <3> QED
      BY <2>0, <2>4, <3>1 DEF UpdateLifecycle, NextRow, TypeOK, boundVars
  <2>5. CASE RecordTransition
    <3>1. cur \in Atom \X State /\ old \in State
      BY <2>5 DEF RecordTransition, TypeOK
    <3>2. audit' \in [Atom -> Seq(State \X State)]
      BY <2>5, <3>1 DEF RecordTransition, TypeOK
    <3> QED
      BY <2>0, <2>5, <3>2 DEF RecordTransition, NextRow, TypeOK, boundVars
  <2>6. CASE Request
    <3>1. requests' \in 0..MaxRequests
      BY <2>6 DEF Request, TypeOK
    <3>2. /\ lifecycle' \in [Atom -> State]
          /\ retracted' \subseteq Atom
          /\ banned' \subseteq retracted'
          /\ audit' = audit
      BY <2>6 DEF Request, Retract, RetractAtom, BanAtom, UnbanAtom, TypeOK, State
    <3> QED
      BY <2>0, <2>6, <3>1, <3>2 DEF Request, TypeOK, workerVars
  <2>7. CASE WorkerFault
    BY <2>0, <2>7 DEF WorkerFault, NextRow, TypeOK
  <2>8. CASE Crash
    BY <2>0, <2>8 DEF Crash, TypeOK
  <2>9. CASE UNCHANGED vars
    BY <2>0, <2>9 DEF vars, TypeOK, workerVars, boundVars
  <2> QED
    BY <2>1, <2>2, <2>3, <2>4, <2>5, <2>6, <2>7, <2>8, <2>9 DEF Next, Worker
<1> QED
  BY <1>1, <1>2, PTL DEF Spec

---------------------------------------------------------------------------
(* Evidence behind the lifecycle.  The rows of a sweep are stale as soon as *)
(* they are read; what they were decided on still holds, because evidence   *)
(* only accumulates.  That is the strengthening LifecycleBacked needs.      *)

\* A row a sweep can produce, on evidence the atom has.
RowBacked(r) == r[2] \notin {"provisional", "retracted"} /\ Backed(r[1], r[2])

BackedInv ==
    /\ LifecycleBacked
    /\ \A r \in rows : RowBacked(r)
    /\ cur # <<>> => RowBacked(cur)

\* What a state rests on is not taken away.
LEMMA BackedStable ==
    ASSUME EvidenceTypeOK, EvidenceTypeOK', EvidenceGrows, PromiseAssumption,
           NEW a \in Atom, NEW s, Backed(a, s)
    PROVE  Backed(a, s)'
  BY DEF EvidenceTypeOK, EvidenceGrows, PromiseAssumption, Backed

\* evaluate answers with a state the evidence supports, one step away.
LEMMA EvaluateBacked ==
    ASSUME TypeOK, NEW a \in Atom, NEW s \in Evaluate(a)
    PROVE  /\ Backed(a, s)
           /\ s \notin {"provisional", "retracted"}
           /\ <<lifecycle[a], s>> \in Diagram
  BY DEF TypeOK, Evaluate, ActiveContradiction, Backed, Diagram

LEMMA BackedStep == TypeOK /\ BackedInv /\ [Next]_vars => BackedInv'
<1> SUFFICES ASSUME TypeOK, BackedInv, [Next]_vars PROVE BackedInv'
  OBVIOUS
<1>1. EvidenceTypeOK /\ EvidenceTypeOK' /\ EvidenceGrows
  BY EvidenceSteps, EvidenceTypes, Monotone DEF TypeOK
<1>2. \A a \in Atom, s \in State : Backed(a, s) => Backed(a, s)'
  BY <1>1, BackedStable, PromiseAssumption
<1>3. \A r \in Atom \X State : RowBacked(r) => RowBacked(r)'
  BY <1>2 DEF RowBacked
<1>4. \A a \in Atom : lifecycle'[a] = lifecycle[a] => Backed(a, lifecycle[a])'
  BY <1>2 DEF BackedInv, LifecycleBacked, TypeOK
<1>5. ASSUME lifecycle' = lifecycle PROVE LifecycleBacked'
  BY <1>4, <1>5 DEF LifecycleBacked
<1>6. ASSUME rows' \subseteq rows PROVE \A r \in rows' : RowBacked(r)'
  BY <1>3, <1>6 DEF BackedInv, TypeOK
<1>7. ASSUME cur' = cur PROVE cur' # <<>> => RowBacked(cur)'
  BY <1>3, <1>7 DEF BackedInv, TypeOK
<1>8. CASE Gather \/ UNCHANGED vars
  BY <1>5, <1>6, <1>7, <1>8 DEF Gather, vars, workerVars, BackedInv
<1>9. CASE Sweep
  <2>1. \A r \in rows' : r \in Atom \X State /\ RowBacked(r)
    BY <1>9, EvaluateBacked DEF Sweep, RowBacked
  <2> QED
    BY <1>3, <1>5, <1>7, <1>9, <2>1 DEF Sweep, BackedInv
<1>10. CASE ReadOld
  <2>1. cur' \in rows
    BY <1>10 DEF ReadOld
  <2>2. RowBacked(cur)'
    BY <1>3, <2>1 DEF BackedInv, TypeOK
  <2> QED
    BY <1>5, <1>6, <1>10, <2>2 DEF ReadOld, BackedInv
<1>11. CASE UpdateLifecycle
  <2>1. cur \in Atom \X State /\ RowBacked(cur)
    BY <1>11 DEF UpdateLifecycle, TypeOK, BackedInv
  <2>2. LifecycleBacked'
    BY <1>2, <1>4, <1>11, <2>1 DEF UpdateLifecycle, LifecycleBacked, RowBacked, TypeOK
  <2> QED
    BY <1>6, <1>7, <1>11, <2>2 DEF UpdateLifecycle, NextRow, BackedInv
<1>12. CASE RecordTransition \/ WorkerFault \/ Crash
  BY <1>5, <1>6, <1>7, <1>12 DEF RecordTransition, WorkerFault, Crash, NextRow, BackedInv
<1>13. CASE Request
  <2>1. \A a \in Atom : Backed(a, "retracted")'
    BY DEF Backed
  <2>2. LifecycleBacked'
    BY <1>4, <1>13, <2>1 DEF Request, Retract, RetractAtom, BanAtom, UnbanAtom,
                             LifecycleBacked, TypeOK
  <2> QED
    BY <1>6, <1>7, <1>13, <2>2 DEF Request, workerVars, BackedInv
<1> QED
  BY <1>8, <1>9, <1>10, <1>11, <1>12, <1>13 DEF Next, Worker

\* A lifecycle rests on evidence, however late the worker writes it.
THEOREM Backing == Spec => []LifecycleBacked
<1>1. Init => BackedInv
  BY DEF Init, PromiseInit, BackedInv, LifecycleBacked, Backed
<1>2. BackedInv => LifecycleBacked
  BY DEF BackedInv
<1> QED
  BY <1>1, <1>2, BackedStep, TypeCorrect, PTL DEF Spec

---------------------------------------------------------------------------
(* Implementation of LifecyclePromise.  A row still starts from where its  *)
(* atom is, or the atom has been withdrawn; and no two rows in hand are of *)
(* one atom, so writing one does not invalidate another.                   *)

RowCurrent(r) == lifecycle[r[1]] = "retracted" \/ <<lifecycle[r[1]], r[2]>> \in Diagram

CurrentInv ==
    /\ \A r \in rows : RowCurrent(r)
    /\ pc = "update" => RowCurrent(cur)
    /\ \A r, s \in rows : r[1] = s[1] => r = s
    /\ pc # "loop" => \A r \in rows : r[1] # cur[1]

\* evaluate answers once.
LEMMA EvaluateOnce ==
    ASSUME NEW a, NEW s \in Evaluate(a), NEW t \in Evaluate(a)
    PROVE  s = t
  BY DEF Evaluate

LEMMA CurrentStep == TypeOK /\ CurrentInv /\ [Next]_vars => CurrentInv'
<1> SUFFICES ASSUME TypeOK, CurrentInv, [Next]_vars PROVE CurrentInv'
  OBVIOUS
<1>1. CASE Gather \/ UNCHANGED vars
  BY <1>1 DEF Gather, vars, workerVars, CurrentInv, RowCurrent
<1>2. CASE Sweep
  <2>1. \A r \in rows' : /\ r \in Atom \X State
                         /\ r[2] \in Evaluate(r[1])
    BY <1>2 DEF Sweep
  <2>2. \A r \in rows' : RowCurrent(r)
    BY <2>1, EvaluateBacked DEF RowCurrent
  <2>3. \A r, s \in rows' : r[1] = s[1] => r = s
    BY <2>1, EvaluateOnce
  <2> QED
    BY <1>2, <2>2, <2>3 DEF Sweep, CurrentInv, RowCurrent
<1>3. CASE ReadOld
  <2>1. PICK r \in rows : cur' = r /\ rows' = rows \ {r}
    BY <1>3 DEF ReadOld
  <2>2. \A s \in rows' : s \in rows /\ s[1] # r[1]
    BY <2>1 DEF CurrentInv
  <2> QED
    BY <1>3, <2>1, <2>2 DEF ReadOld, CurrentInv, RowCurrent
<1>4. CASE UpdateLifecycle
  <2>1. pc = "update" /\ rows' = rows /\ pc' \in {"loop", "audit"}
    BY <1>4 DEF UpdateLifecycle, NextRow
  <2>2. \A r \in rows : r \in Atom \X State /\ r[1] # cur[1]
    BY <2>1 DEF CurrentInv, TypeOK
  <2>3. \A r \in rows : lifecycle'[r[1]] = lifecycle[r[1]]
    BY <1>4, <2>2 DEF UpdateLifecycle, TypeOK
  <2>4. \A r \in rows' : RowCurrent(r)'
    BY <2>1, <2>3 DEF CurrentInv, RowCurrent
  <2>5. pc' # "loop" => cur' = cur
    BY <1>4 DEF UpdateLifecycle, NextRow
  <2> QED
    BY <2>1, <2>2, <2>4, <2>5 DEF CurrentInv
<1>5. CASE RecordTransition \/ Crash
  BY <1>5 DEF RecordTransition, Crash, NextRow, CurrentInv, RowCurrent
<1>6. CASE WorkerFault
  BY <1>6 DEF WorkerFault, NextRow, CurrentInv, RowCurrent
<1>7. CASE Request
  <2>1. \A a \in Atom : lifecycle'[a] \in {lifecycle[a], "retracted"}
    BY <1>7 DEF Request, Retract, RetractAtom, BanAtom, UnbanAtom, TypeOK
  <2>2. \A r \in Atom \X State : RowCurrent(r) => RowCurrent(r)'
    BY <2>1 DEF RowCurrent
  <2>3. pc = "update" => cur \in Atom \X State
    BY DEF TypeOK
  <2> QED
    BY <1>7, <2>2, <2>3 DEF Request, workerVars, CurrentInv, TypeOK
<1> QED
  BY <1>1, <1>2, <1>3, <1>4, <1>5, <1>6, <1>7 DEF Next, Worker

LEMMA PromiseStep ==
    TypeOK /\ BackedInv /\ CurrentInv /\ [Next]_vars => [PromiseNext]_<<evidence, lifecycle>>
<1> SUFFICES ASSUME TypeOK, BackedInv, CurrentInv, [Next]_vars
             PROVE  [PromiseNext]_<<evidence, lifecycle>>
  OBVIOUS
<1>1. CASE Gather
  BY <1>1, GatherIsEnvironment DEF Gather, PromiseNext
<1>2. CASE UpdateLifecycle
  <2>1. cur \in Atom \X State /\ RowBacked(cur) /\ RowCurrent(cur)
    BY <1>2 DEF UpdateLifecycle, TypeOK, BackedInv, CurrentInv
  <2>2. Progress(cur[1], cur[2]) \/ Revive(cur[1], cur[2])
    BY <2>1 DEF RowBacked, RowCurrent, Progress, Revive
  <2> QED
    BY <1>2, <2>1, <2>2 DEF UpdateLifecycle, PromiseNext, Change
<1>3. CASE Request
  <2>1. ASSUME NEW a \in Atom, Retract(a) PROVE Change
    <3>1. Withdraw(a, "retracted") /\ "retracted" \in State
      BY DEF Withdraw, State
    <3> QED
      BY <1>3, <2>1, <3>1 DEF Request, Retract, Change
  <2>2. ASSUME NEW a \in Atom, RetractAtom(a) \/ BanAtom(a) \/ UnbanAtom(a)
        PROVE  UNCHANGED <<evidence, lifecycle>>
    BY <1>3, <2>2 DEF Request, RetractAtom, BanAtom, UnbanAtom
  <2> QED
    BY <1>3, <2>1, <2>2 DEF Request, PromiseNext
<1>4. CASE Sweep \/ ReadOld \/ RecordTransition
  BY <1>4 DEF Sweep, ReadOld, RecordTransition
<1>5. CASE WorkerFault \/ Crash
  BY <1>5 DEF WorkerFault, Crash
<1>6. CASE UNCHANGED vars
  BY <1>6 DEF vars
<1> QED
  BY <1>1, <1>2, <1>3, <1>4, <1>5, <1>6 DEF Next, Worker

\* The worker and the requests make only the changes LifecyclePromise allows.
THEOREM Implementation == Spec => KeepsPromise
<1>1. Init => PromiseInit /\ BackedInv /\ CurrentInv
  BY DEF Init, PromiseInit, BackedInv, LifecycleBacked, Backed, CurrentInv
<1> QED
  BY <1>1, BackedStep, CurrentStep, PromiseStep, TypeCorrect, PTL
  DEF Spec, KeepsPromise, PromiseSpec

---------------------------------------------------------------------------
(* The audit table.  The lifecycle that was read for the audit row is the  *)
(* one the row in hand starts from, although by now it may be another.     *)

\* What an audit row may be, whatever was lost.
Honest(t) == t \in Diagram \/ t[1] = "retracted"

HonestInv ==
    /\ \A a \in Atom : \A i \in DOMAIN audit[a] : Honest(audit[a][i])
    /\ pc # "loop" /\ old # None => Honest(<<old, cur[2]>>)

LEMMA HonestStep == TypeOK /\ CurrentInv /\ HonestInv /\ [Next]_vars => HonestInv'
<1> SUFFICES ASSUME TypeOK, CurrentInv, HonestInv, [Next]_vars PROVE HonestInv'
  OBVIOUS
<1>1. CASE Gather \/ Sweep \/ UNCHANGED vars
  BY <1>1 DEF Gather, Sweep, vars, workerVars, HonestInv
<1>2. CASE ReadOld
  <2>1. PICK r \in rows : cur' = r /\ old' = lifecycle[r[1]]
    BY <1>2 DEF ReadOld
  <2>2. Honest(<<lifecycle[r[1]], r[2]>>)
    BY <2>1 DEF CurrentInv, RowCurrent, Honest
  <2> QED
    BY <1>2, <2>1, <2>2 DEF ReadOld, HonestInv
<1>3. CASE UpdateLifecycle
  BY <1>3 DEF UpdateLifecycle, NextRow, HonestInv
<1>4. CASE RecordTransition
  <2>1. cur[1] \in Atom /\ Honest(<<old, cur[2]>>)
    BY <1>4 DEF RecordTransition, TypeOK, HonestInv
  <2>2. \A i \in DOMAIN audit'[cur[1]] : Honest(audit'[cur[1]][i])
    BY <1>4, <2>1 DEF RecordTransition, TypeOK, HonestInv
  <2>3. \A a \in Atom \ {cur[1]} : audit'[a] = audit[a]
    BY <1>4 DEF RecordTransition, TypeOK
  <2> QED
    BY <1>4, <2>2, <2>3 DEF RecordTransition, NextRow, HonestInv
<1>5. CASE Request
  BY <1>5 DEF Request, Retract, RetractAtom, BanAtom, UnbanAtom, workerVars, HonestInv
<1>6. CASE WorkerFault \/ Crash
  BY <1>6 DEF WorkerFault, Crash, NextRow, HonestInv
<1> QED
  BY <1>1, <1>2, <1>3, <1>4, <1>5, <1>6 DEF Next, Worker

\* No audit row is invented: each is a step of the diagram or leaves "retracted".
THEOREM AuditHonest == Spec => []AuditIsHonest
<1>1. Init => CurrentInv /\ HonestInv
  BY DEF Init, CurrentInv, HonestInv
<1>2. HonestInv => AuditIsHonest
  BY DEF HonestInv, Honest, AuditIsHonest
<1> QED
  BY <1>1, <1>2, CurrentStep, HonestStep, TypeCorrect, PTL DEF Spec

\* Where the audit table has an atom after its first i rows.
Shown(a, i) == IF i = 0 THEN "provisional" ELSE audit[a][i][2]

Linked(a) == \A i \in DOMAIN audit[a] : audit[a][i][1] \in {Shown(a, i - 1), "retracted"}

Latest(a) == Shown(a, Len(audit[a]))

\* Between the UPDATE and the audit row the table is behind by the row in hand.
Unrecorded(a) == pc = "audit" /\ cur[1] = a

PathInv ==
    crashes + faults = 0 =>
        /\ \A a \in Atom : Linked(a)
        /\ \A a \in Atom : ~Unrecorded(a) => lifecycle[a] \in {Latest(a), "retracted"}
        /\ pc # "loop" => old \in {Latest(cur[1]), "retracted"}
        /\ pc = "audit" => lifecycle[cur[1]] \in {cur[2], "retracted"}

\* A row that starts where its atom is shown to be keeps the rows linked.
LEMMA RowLinks ==
    ASSUME NEW a \in Atom, NEW s \in State, NEW t \in State,
           audit[a] \in Seq(State \X State), Linked(a), s \in {Latest(a), "retracted"},
           audit'[a] = Append(audit[a], <<s, t>>)
    PROVE  Linked(a)' /\ Latest(a)' = t
<1> DEFINE p == audit[a]
<1>1. p \in Seq(State \X State) /\ Len(p) \in Nat
  OBVIOUS
<1>2. /\ DOMAIN p = 1 .. Len(p)
      /\ DOMAIN audit'[a] = 1 .. Len(p) + 1
      /\ \A i \in 1 .. Len(p) : audit'[a][i] = p[i]
      /\ audit'[a][Len(p) + 1] = <<s, t>>
      /\ Len(audit'[a]) = Len(p) + 1
  BY <1>1
<1>3. \A i \in 0 .. Len(p) : Shown(a, i)' = Shown(a, i)
  BY <1>2 DEF Shown
<1>4. ASSUME NEW i \in 1 .. Len(p) + 1
      PROVE  audit'[a][i][1] \in {Shown(a, i - 1)', "retracted"}
  <2>1. CASE i = Len(p) + 1
    BY <1>1, <1>2, <1>3, <2>1 DEF Latest
  <2>2. CASE i \in 1 .. Len(p)
    <3>1. i \in DOMAIN audit[a] /\ i - 1 \in 0 .. Len(p)
      BY <1>1, <1>2, <2>2
    <3>2. audit[a][i][1] \in {Shown(a, i - 1), "retracted"}
      BY <3>1 DEF Linked
    <3>3. Shown(a, i - 1)' = Shown(a, i - 1) /\ audit'[a][i] = audit[a][i]
      BY <1>2, <1>3, <2>2, <3>1
    <3> QED
      BY <3>2, <3>3
  <2> QED
    BY <1>1, <1>4, <2>1, <2>2
<1> QED
  BY <1>1, <1>2, <1>4 DEF Linked, Latest, Shown

LEMMA LatestTyped == TypeOK => \A a \in Atom : Latest(a) \in State
<1> SUFFICES ASSUME TypeOK, NEW a \in Atom PROVE Latest(a) \in State
  OBVIOUS
<1>1. audit[a] \in Seq(State \X State)
  BY DEF TypeOK
<1>2. Len(audit[a]) # 0 => audit[a][Len(audit[a])] \in State \X State
  BY <1>1
<1> QED
  BY <1>2 DEF Latest, Shown, State

LEMMA PathStep == TypeOK /\ PathInv /\ [Next]_vars => PathInv'
<1> SUFFICES ASSUME TypeOK, PathInv, [Next]_vars, crashes' + faults' = 0 PROVE PathInv'
  BY DEF PathInv
<1>1. CASE WorkerFault \/ Crash
  BY <1>1 DEF WorkerFault, Crash, TypeOK
<1> SUFFICES ASSUME crashes' = crashes, faults' = faults PROVE PathInv'
  BY <1>1 DEF Next, Worker, Gather, Sweep, ReadOld, UpdateLifecycle, RecordTransition, Request,
              vars, boundVars
<1>2. crashes + faults = 0
  OBVIOUS
<1>3. ASSUME audit' = audit
      PROVE  \A a : Linked(a)' = Linked(a) /\ Latest(a)' = Latest(a)
  BY <1>3 DEF Linked, Latest, Shown
<1>4. CASE Gather \/ Sweep \/ UNCHANGED vars
  BY <1>2, <1>3, <1>4 DEF Gather, Sweep, vars, workerVars, PathInv, Unrecorded
<1>5. CASE ReadOld
  <2>1. PICK r \in rows : cur' = r /\ old' = lifecycle[r[1]]
    BY <1>5 DEF ReadOld
  <2>2. r[1] \in Atom
    BY DEF TypeOK
  <2> QED
    BY <1>2, <1>3, <1>5, <2>1, <2>2 DEF ReadOld, PathInv, Unrecorded
<1>6. CASE UpdateLifecycle
  <2>1. cur \in Atom \X State /\ pc = "update"
    BY <1>6 DEF UpdateLifecycle, TypeOK
  <2>2. old \in {Latest(cur[1]), "retracted"}
    BY <1>2, <2>1 DEF PathInv
  <2>3. old # None
    BY <2>1, <2>2, LatestTyped, LifecycleAssumption DEF LifecycleAssumption, State
  <2>4. lifecycle'[cur[1]] = cur[2]
    BY <1>6, <2>1 DEF UpdateLifecycle, TypeOK
  <2>5. \A a \in Atom \ {cur[1]} : lifecycle'[a] = lifecycle[a]
    BY <1>6 DEF UpdateLifecycle, TypeOK
  <2> QED
    BY <1>2, <1>3, <1>6, <2>1, <2>2, <2>3, <2>4, <2>5 DEF UpdateLifecycle, PathInv, Unrecorded
<1>7. CASE RecordTransition
  <2>1. PICK c \in Atom, s \in State : cur = <<c, s>>
    BY <1>7 DEF RecordTransition, TypeOK
  <2>2. pc = "audit" /\ pc' = "loop" /\ lifecycle' = lifecycle /\ old \in State
    BY <1>7 DEF RecordTransition, NextRow, TypeOK
  <2>3. /\ audit[c] \in Seq(State \X State)
        /\ audit'[c] = Append(audit[c], <<old, s>>)
        /\ \A a \in Atom \ {c} : audit'[a] = audit[a]
    BY <1>7, <2>1 DEF RecordTransition, TypeOK
  <2>4. Linked(c)' /\ Latest(c)' = s
    <3>1. Linked(c) /\ old \in {Latest(c), "retracted"}
      BY <1>2, <2>1, <2>2 DEF PathInv
    <3> QED
      BY <2>2, <2>3, <3>1, RowLinks
  <2>5. \A a \in Atom \ {c} : Linked(a)' = Linked(a) /\ Latest(a)' = Latest(a)
    BY <2>3 DEF Linked, Latest, Shown
  <2>6. \A a \in Atom : Linked(a)'
    BY <1>2, <2>4, <2>5 DEF PathInv
  <2>7. ASSUME NEW a \in Atom PROVE lifecycle'[a] \in {Latest(a)', "retracted"}
    <3>1. CASE a = c
      BY <1>2, <2>1, <2>2, <2>4, <3>1 DEF PathInv
    <3>2. CASE a # c
      BY <1>2, <2>1, <2>2, <2>5, <3>2 DEF PathInv, Unrecorded
    <3> QED
      BY <3>1, <3>2
  <2> QED
    BY <2>2, <2>6, <2>7 DEF PathInv
<1>8. CASE Request
  <2>1. audit' = audit /\ UNCHANGED workerVars
    BY <1>8 DEF Request, Retract, RetractAtom, BanAtom, UnbanAtom
  <2>2. \A a \in Atom : lifecycle'[a] \in {lifecycle[a], "retracted"}
    BY <1>8 DEF Request, Retract, RetractAtom, BanAtom, UnbanAtom, TypeOK
  <2>3. pc = "audit" => cur[1] \in Atom
    BY DEF TypeOK
  <2> QED
    BY <1>2, <1>3, <2>1, <2>2, <2>3 DEF workerVars, PathInv, Unrecorded
<1> QED
  BY <1>1, <1>4, <1>5, <1>6, <1>7, <1>8 DEF Next, Worker

\* With no crash and no failed statement the audit rows of an atom lead from
\* provisional to the lifecycle it shows.
THEOREM AuditComplete == Spec => []AuditIsPath
<1>1. Init => PathInv
  BY DEF Init, PromiseInit, PathInv, Linked, Latest, Shown, Unrecorded
<1>2. PathInv => AuditIsPath
  BY DEF PathInv, AuditIsPath, Linked, Latest, Shown, Unrecorded
<1> QED
  BY <1>1, <1>2, PathStep, TypeCorrect, PTL DEF Spec

-----------------------------------------------------------------------------
(* Fleet                                                                    *)

Stage == {"idle", "number", "register", "save", "seed", "more", "launch", "spawn", "pid",
          "summary", "wait", "read", "kill", "remove", "answer", "delete", "poll", "ended"}

Place == {"unknown", "registered", "saved", "foreground", "running", "over"}

\* Which invocation does what, and what the files and agents may hold.
Invoked ==
    /\ script \in [Cmd -> Command] /\ at \in [Cmd -> Stage]
    /\ todo \in [Cmd -> SUBSET Number] /\ hand \in [Cmd -> Number \cup Agent \cup {Nil}]
    /\ mine \in [Cmd -> SUBSET Agent] /\ listed \in [Cmd -> SUBSET Agent]
    /\ \A c \in Cmd : script[c].kind = "stop" => at[c] \in {"idle", "read", "kill", "remove", "ended"}

Held ==
    /\ creds \in [Number -> Agent \cup {Nil}] /\ config \in [Number -> Agent \cup {Nil}]
    /\ pidFile \in [Number -> Agent \cup {Nil}]
    /\ number \in [Agent -> Number \cup {Nil}] /\ place \in [Agent -> Place]
    /\ shared \subseteq Number /\ unnamed \subseteq Agent

Typed == Invoked /\ Held

\* Agents are numbered as they come; each has a number and belongs to the run
\* that registered it.
Registered ==
    /\ Known = 1..Cardinality(Known)
    /\ \A a \in Known : number[a] \in Number
    /\ \A c \in Cmd : mine[c] \subseteq Known
    /\ \A c, d \in Cmd : c # d => mine[c] \cap mine[d] = {}

Started(a) == place[a] \in {"running", "over"}

\* Pid files and the record of what was never written name background agents,
\* under their own number.
PidsNamed ==
    /\ \A n \in Number : pidFile[n] # Nil =>
         number[pidFile[n]] = n /\ Started(pidFile[n]) /\ Settled(pidFile[n])
    /\ \A a \in unnamed : Started(a)

\* What the invocation has in hand is what its step is about.
InHand ==
    \A c \in Cmd :
        /\ at[c] = "register" => hand[c] \in Number
        /\ at[c] = "save" => hand[c] \in mine[c] /\ place[hand[c]] = "registered"
        /\ at[c] = "spawn" =>
             /\ hand[c] \in mine[c] /\ place[hand[c]] = "saved"
             /\ number[hand[c]] \in shared \/ config[number[hand[c]]] = hand[c]
        /\ at[c] = "pid" => hand[c] \in mine[c] \ unnamed /\ Started(hand[c])
        /\ at[c] = "wait" => hand[c] \in mine[c] /\ place[hand[c]] \in {"foreground", "over"}
        /\ at[c] \in {"kill", "remove"} =>
             hand[c] \in Known /\ number[hand[c]] \in todo[c] /\ Started(hand[c])
        /\ at[c] = "remove" => place[hand[c]] = "over"

Picking(c) == at[c] \in {"register", "save"}
Picked(c) == IF at[c] = "save" THEN number[hand[c]] ELSE hand[c]

\* A number that one run has picked and not yet saved is no other's.
Alone ==
    \A c \in Cmd : Picking(c) /\ Picked(c) \notin shared =>
        /\ creds[Picked(c)] = Nil
        /\ \A d \in Cmd \ {c} : Picking(d) => Picked(d) # Picked(c)

FleetInv == Typed /\ Registered /\ PidsNamed /\ InHand /\ Alone /\ OwnNumber

\* No number and no agent is Nil.
LEMMA Numbers == 0 \notin Number /\ 0 \notin Agent /\ Number \subseteq Nat /\ Agent \subseteq Nat
BY DEF Number, Agent

\* An agent past its registration is the one of its number.
LEMMA Unique ==
    ASSUME OwnNumber, NEW a \in Known, NEW b \in Known, number[a] = number[b],
           number[a] \notin shared, place[a] # "registered", place[b] # "registered"
    PROVE  a = b
BY DEF OwnNumber

\* Steps that write no file and register or launch nobody: agents may end, a
\* stop go from its signal to the file, and an invocation end, giving up on the
\* pid it had to write.
LEMMA Quiet ==
    ASSUME FleetInv, Typed',
           UNCHANGED <<mine, creds, config, pidFile, number, shared>>,
           \A a \in Agent : \/ place'[a] = place[a]
                            \/ place[a] \in {"running", "foreground"} /\ place'[a] = "over",
           \A c \in Cmd :
             \/ at'[c] = at[c] /\ hand'[c] = hand[c] /\ todo'[c] = todo[c]
             \/ /\ at'[c] \notin {"register", "save", "spawn", "pid", "wait", "kill", "remove"}
                /\ at[c] = "pid" => hand[c] \in unnamed'
             \/ /\ at[c] = "kill" /\ at'[c] = "remove" /\ hand'[c] = hand[c] /\ todo'[c] = todo[c]
                /\ place'[hand[c]] = "over",
           unnamed \subseteq unnamed',
           \A a \in unnamed' \ unnamed : \E c \in Cmd : at[c] = "pid" /\ hand[c] = a /\ at'[c] # "pid"
    PROVE  FleetInv'
<1>1. Known' = Known
    BY DEF Known
<1>2. Registered'
    BY <1>1 DEF FleetInv, Registered
<1>3. ASSUME NEW a \in Agent, Started(a) PROVE Started(a)'
    BY <1>3 DEF Started
<1>4. ASSUME NEW a \in Agent, Settled(a)' PROVE Settled(a)
    BY <1>4 DEF Settled
<1>5. ASSUME NEW c \in Cmd, at[c] = "pid" PROVE \A d \in Cmd \ {c} : at[d] = "pid" => hand[d] # hand[c]
    BY <1>5 DEF FleetInv, InHand, Registered
<1>6. ASSUME NEW a \in Agent, Settled(a), Started(a) PROVE Settled(a)'
    BY <1>6 DEF Settled
<1>7. PidsNamed'
    <2>1. ASSUME NEW n \in Number, NEW a \in Agent, a = pidFile[n]
          PROVE  number[a] = n /\ Started(a)' /\ Settled(a)'
        <3>1. number[a] = n /\ Started(a) /\ Settled(a)
            BY <2>1, Numbers DEF FleetInv, PidsNamed, Nil
        <3> QED
            BY <1>3, <1>6, <3>1
    <2>2. \A n \in Number : pidFile'[n] # Nil => \E a \in Agent : a = pidFile'[n] /\ a = pidFile[n]
        BY DEF FleetInv, Typed, Held
    <2>3. ASSUME NEW a \in unnamed' PROVE Started(a)'
        <3>1. a \in Agent
            BY DEF Typed, Held
        <3>2. Started(a)
            BY DEF FleetInv, PidsNamed, InHand
        <3> QED
            BY <1>3, <3>1, <3>2
    <2> QED
        BY <2>1, <2>2, <2>3 DEF PidsNamed, Settled, Started
<1>8. InHand'
    <2>1. \A c \in Cmd : at[c] = "pid" /\ at'[c] = "pid" => hand[c] \notin unnamed'
        BY <1>5 DEF FleetInv, InHand
    <2>2. \A c \in Cmd : mine[c] \subseteq Agent
        BY DEF FleetInv, Typed, Invoked
    <2> QED
        BY <1>1, <2>1, <2>2 DEF FleetInv, InHand, Started, Known
<1>9. Alone'
    BY DEF FleetInv, Alone, Picking, Picked
<1>10. OwnNumber'
    <2>1. ASSUME NEW a \in Known, number[a] \notin shared
          PROVE  /\ place'[a] # "registered" => creds[number[a]] = a
                 /\ place'[a] = "running" => config[number[a]] = a
                 /\ place'[a] = "running" /\ Settled(a)' => pidFile[number[a]] = a
        <3>1. a \in Agent
            BY DEF Known
        <3> QED
            BY <1>4, <2>1, <3>1 DEF FleetInv, OwnNumber
    <2> QED
        BY <1>1, <2>1 DEF OwnNumber, Settled
<1> QED
    BY <1>2, <1>7, <1>8, <1>9, <1>10 DEF FleetInv

LEMMA TypedStep == ASSUME Typed, Registered, InHand, [FleetNext]_fleetVars PROVE Typed'
<1> USE Numbers DEF Typed, Invoked, Held, Step, Begins, Stage, Place
<1> USE DEF files, agents, history, Fails
<1>1. ASSUME NEW c \in Cmd, Preflight(c) PROVE Typed'
    BY <1>1 DEF Preflight
<1>2. ASSUME NEW c \in Cmd, PickNumber(c) PROVE Typed'
    BY <1>2 DEF PickNumber
<1>3. ASSUME NEW c \in Cmd, Register(c) PROVE Typed'
    <2>1. hand[c] \in Number
        BY <1>3 DEF Register, InHand
    <2>2. PICK a \in Agent :
            /\ number' = [number EXCEPT ![a] = hand[c]]
            /\ place' = [place EXCEPT ![a] = "registered"]
            /\ hand' = [hand EXCEPT ![c] = a]
            /\ mine' = [mine EXCEPT ![c] = @ \cup {a}]
        BY <1>3 DEF Register
    <2>3. Held'
        BY <1>3, <2>1, <2>2 DEF Register
    <2>4. Invoked'
        BY <1>3, <2>2 DEF Register
    <2> QED
        BY <2>3, <2>4
<1>4. ASSUME NEW c \in Cmd, Save(c) PROVE Typed'
    <2>1. hand[c] \in Agent /\ number[hand[c]] \in Number
        BY <1>4 DEF Save, InHand, Registered
    <2> QED
        BY <1>4, <2>1 DEF Save
<1>5. ASSUME NEW c \in Cmd, Seed(c) \/ More(c) \/ Summary(c) \/ Waited(c) \/ NoHub(c) PROVE Typed'
    BY <1>5 DEF Seed, More, Summary, Waited, NoHub
<1>6. ASSUME NEW c \in Cmd, Prepare(c) PROVE Typed'
    <2>1. PICK a \in Waiting(c) : /\ hand' = [hand EXCEPT ![c] = a]
                                  /\ config' = [config EXCEPT ![number[a]] = a]
        BY <1>6 DEF Prepare
    <2>2. a \in Agent /\ number[a] \in Number
        BY <2>1 DEF Waiting, Registered
    <2>3. Held'
        BY <1>6, <2>1, <2>2 DEF Prepare
    <2>4. Invoked'
        BY <1>6, <2>1, <2>2 DEF Prepare
    <2> QED
        BY <2>3, <2>4
<1>7. ASSUME NEW c \in Cmd, SpawnForeground(c) PROVE Typed'
    BY <1>7 DEF SpawnForeground
<1>8. ASSUME NEW c \in Cmd, SpawnBackground(c) PROVE Typed'
    BY <1>8 DEF SpawnBackground
<1>9. ASSUME NEW c \in Cmd, SpawnFails(c) PROVE Typed'
    BY <1>9 DEF SpawnFails, Onward
<1>10. ASSUME NEW c \in Cmd, WritePid(c) PROVE Typed'
    <2>1. hand[c] \in Agent /\ number[hand[c]] \in Number
        BY <1>10 DEF WritePid, InHand, Registered
    <2>2. Held'
        BY <1>10, <2>1 DEF WritePid
    <2>3. Invoked'
        BY <1>10 DEF WritePid, Onward
    <2> QED
        BY <2>2, <2>3
<1>11. ASSUME NEW c \in Cmd, RunFails(c) PROVE Typed'
    BY <1>11 DEF RunFails, GivesUp
<1>12. ASSUME NEW c \in Cmd, Collect(c) PROVE Typed'
    BY <1>12 DEF Collect, Named
<1>13. ASSUME NEW c \in Cmd, ReadPid(c) PROVE Typed'
    BY <1>13 DEF ReadPid, Rest
<1>14. ASSUME NEW c \in Cmd, Kill(c) PROVE Typed'
    BY <1>14 DEF Kill
<1>15. ASSUME NEW c \in Cmd, RemovePid(c) PROVE Typed'
    BY <1>15 DEF RemovePid, Rest
<1>16. ASSUME NEW c \in Cmd, ResetAsk(c) \/ ResetAnswered(c) PROVE Typed'
    <2>1. UNCHANGED <<script, hand, mine, listed>> /\ script[c].kind # "stop"
        BY <1>16 DEF ResetAsk, ResetAnswered, history
    <2>2. PICK t \in {"answer", "ended", "delete"} : at' = [at EXCEPT ![c] = t]
        BY <1>16 DEF ResetAsk, ResetAnswered
    <2>3. Saved \subseteq Number
        BY DEF Saved
    <2>4. todo' \in [Cmd -> SUBSET Number]
        BY <1>16, <2>3 DEF ResetAsk, ResetAnswered
    <2>5. Invoked'
        BY <2>1, <2>2, <2>4
    <2>6. Held'
        BY <1>16 DEF ResetAsk, ResetAnswered, files, agents, history
    <2> QED
        BY <2>5, <2>6
<1>17. ASSUME NEW c \in Cmd, DeleteCred(c) PROVE Typed'
    <2>1. PICK n \in todo[c] :
            IF creds[n] = Nil
            THEN at' = [at EXCEPT ![c] = "ended"] /\ UNCHANGED <<todo, creds, shared>>
            ELSE /\ creds' = [creds EXCEPT ![n] = Nil] /\ shared' = shared \cup {n}
                 /\ todo' = [todo EXCEPT ![c] = @ \ {n}] /\ UNCHANGED at
        BY <1>17 DEF DeleteCred
    <2>2. n \in Number
        BY <2>1
    <2>3. Held'
        <3>1. UNCHANGED <<config, pidFile, number, place, unnamed>>
            BY <1>17 DEF DeleteCred
        <3>2. \/ UNCHANGED <<creds, shared>>
              \/ creds' = [creds EXCEPT ![n] = Nil] /\ shared' = shared \cup {n}
            BY <2>1
        <3>3. creds' \in [Number -> Agent \cup {Nil}]
            BY <3>2
        <3>4. shared' \subseteq Number
            BY <2>2, <3>2
        <3> QED
            BY <3>1, <3>3, <3>4
    <2>4. Invoked'
        BY <1>17, <2>1, <2>2 DEF DeleteCred
    <2> QED
        BY <2>3, <2>4
<1>18. ASSUME NEW c \in Cmd, DeleteLogs(c) \/ Up(c) \/ Poll(c) \/ Down(c) PROVE Typed'
    BY <1>18 DEF DeleteLogs, Up, Poll, Down
<1>19. ASSUME NEW c \in Cmd, Interrupt(c) PROVE Typed'
    <2>1. at[c] = "pid" => hand[c] \in Agent
        BY DEF InHand
    <2>2. Held'
        BY <1>19, <2>1 DEF Interrupt
    <2>3. Invoked'
        BY <1>19 DEF Interrupt
    <2> QED
        BY <2>2, <2>3
<1>20. ASSUME NEW a \in Agent, AgentEnds(a) PROVE Typed'
    BY <1>20 DEF AgentEnds
<1>21. ASSUME HubReady \/ Done \/ UNCHANGED fleetVars PROVE Typed'
    BY <1>21 DEF HubReady, Done, fleetVars
<1> QED
    BY <1>1, <1>2, <1>3, <1>4, <1>5, <1>6, <1>7, <1>8, <1>9, <1>10, <1>11, <1>12, <1>13,
       <1>14, <1>15, <1>16, <1>17, <1>18, <1>19, <1>20, <1>21 DEF FleetNext, Run, Stop, Reset

LEMMA PickStep ==
    ASSUME FleetInv, Typed', NEW c \in Cmd, PickNumber(c) PROVE FleetInv'
<1>1. PICK n \in Number :
        /\ NextNumber(n)
        /\ hand' = [hand EXCEPT ![c] = n]
        /\ shared' = IF \E d \in Cmd \ {c} : Picking(d) /\ Picked(d) = n
                     THEN shared \cup {n} ELSE shared
    BY DEF PickNumber, Picking, Picked
<1>2. /\ at[c] = "number" /\ at' = [at EXCEPT ![c] = "register"]
      /\ UNCHANGED <<todo, mine, creds, config, pidFile, number, place, unnamed>>
    BY DEF PickNumber, Step, files, agents
<1>3. creds[n] = Nil /\ n \in Number
    BY <1>1 DEF NextNumber, Missing
<1>4. /\ at'[c] = "register" /\ hand'[c] = n
      /\ \A d \in Cmd \ {c} : at'[d] = at[d] /\ hand'[d] = hand[d]
    BY <1>1, <1>2 DEF FleetInv, Typed, Invoked
<1>5. Known' = Known /\ Registered'
    BY <1>2 DEF FleetInv, Registered, Known
<1>6. \A a : Settled(a)' <=> Settled(a)
    BY <1>2, <1>4 DEF Settled
<1>7. PidsNamed'
    BY <1>2, <1>6 DEF FleetInv, PidsNamed, Started
<1>8. shared \subseteq shared'
    BY <1>1
<1>9. InHand'
    BY <1>2, <1>3, <1>4, <1>5, <1>8 DEF FleetInv, InHand, Started
<1>10. OwnNumber'
    BY <1>2, <1>5, <1>6, <1>8 DEF FleetInv, OwnNumber
<1>11. Picking(c)' /\ Picked(c)' = n
       /\ \A d \in Cmd \ {c} : (Picking(d)' <=> Picking(d)) /\ Picked(d)' = Picked(d)
    BY <1>2, <1>4 DEF Picking, Picked
<1>12. n \notin shared' => \A d \in Cmd \ {c} : Picking(d) => Picked(d) # n
    BY <1>1
<1>13. Alone'
    BY <1>2, <1>3, <1>8, <1>11, <1>12 DEF FleetInv, Alone
<1> QED
    BY <1>5, <1>7, <1>9, <1>10, <1>13 DEF FleetInv

LEMMA RegisterStep ==
    ASSUME FleetInv, Typed', NEW c \in Cmd, Register(c) PROVE FleetInv'
<1> DEFINE a == Cardinality(Known) + 1
<1>1. /\ at[c] = "register" /\ at' = [at EXCEPT ![c] = "save"] /\ a \in Agent
      /\ number' = [number EXCEPT ![a] = hand[c]]
      /\ place' = [place EXCEPT ![a] = "registered"]
      /\ hand' = [hand EXCEPT ![c] = a]
      /\ mine' = [mine EXCEPT ![c] = @ \cup {a}]
      /\ UNCHANGED <<todo, creds, config, pidFile, shared, unnamed>>
    BY DEF Register, Step, files, history
<1>2. Cardinality(Known) \in Nat /\ Known = 1..Cardinality(Known)
    <2>1. Known \subseteq Agent /\ IsFiniteSet(Agent)
        BY FleetAssumption, FS_Interval DEF Known, Agent
    <2> QED
        BY <2>1, FS_Subset, FS_CardinalityType DEF FleetInv, Registered
<1>3. a \notin Known /\ Known \cup {a} = 1..a /\ Cardinality(1..a) = a
    <2>1. \A k \in Nat : k + 1 \notin 1..k /\ (1..k) \cup {k + 1} = 1..(k + 1)
        OBVIOUS
    <2>2. \A k \in Nat : Cardinality(1..(k + 1)) = k + 1
        BY FS_Interval
    <2> QED
        BY <1>2, <2>1, <2>2
<1> HIDE DEF a
<1>4. /\ at'[c] = "save" /\ hand'[c] = a /\ mine'[c] = mine[c] \cup {a}
      /\ \A d \in Cmd \ {c} : at'[d] = at[d] /\ hand'[d] = hand[d] /\ mine'[d] = mine[d]
      /\ number'[a] = hand[c] /\ place'[a] = "registered"
      /\ \A b \in Agent \ {a} : number'[b] = number[b] /\ place'[b] = place[b]
    BY <1>1 DEF FleetInv, Typed, Invoked, Held
<1>5. place[a] = "unknown" /\ \A b \in Known : b # a /\ b \in Agent
    BY <1>1, <1>3 DEF Known
<1>6. Known' = Known \cup {a}
    BY <1>1, <1>4 DEF Known
<1>7. hand[c] \in Number
    BY <1>1 DEF FleetInv, InHand
<1>8. Registered'
    <2>1. Known' = 1..Cardinality(Known')
        BY <1>3, <1>6
    <2>2. \A b \in Known' : number'[b] \in Number
        BY <1>4, <1>5, <1>6, <1>7 DEF FleetInv, Registered
    <2>3. \A d \in Cmd : mine'[d] \subseteq Known'
        BY <1>4, <1>6 DEF FleetInv, Registered
    <2>4. \A d \in Cmd : a \notin mine[d]
        BY <1>3 DEF FleetInv, Registered
    <2>5. \A d, e \in Cmd : d # e => mine'[d] \cap mine'[e] = {}
        BY <1>4, <2>4 DEF FleetInv, Registered
    <2> QED
        BY <2>1, <2>2, <2>3, <2>5 DEF Registered
<1>9. \A b : Settled(b)' <=> Settled(b)
    BY <1>1, <1>4 DEF Settled
<1>10. \A b \in Agent : Started(b) => b # a /\ Started(b)'
    BY <1>4, <1>5 DEF Started
<1>11. PidsNamed'
    <2>1. ASSUME NEW n \in Number, NEW b \in Agent, b = pidFile[n]
          PROVE  number'[b] = n /\ Started(b)' /\ Settled(b)'
        <3>1. number[b] = n /\ Started(b) /\ Settled(b)
            BY <2>1, Numbers DEF FleetInv, PidsNamed, Nil
        <3>2. b # a /\ Started(b)'
            BY <1>10, <3>1
        <3> QED
            BY <1>4, <1>9, <3>1, <3>2
    <2>2. \A b \in unnamed : Started(b)'
        BY <1>10 DEF FleetInv, PidsNamed, Typed, Held
    <2>3. \A n \in Number : pidFile'[n] # Nil => \E b \in Agent : b = pidFile'[n] /\ b = pidFile[n]
        BY <1>1 DEF FleetInv, Typed, Held
    <2> QED
        BY <1>1, <2>1, <2>2, <2>3 DEF PidsNamed, Settled, Started
<1>12. InHand'
    <2>1. ASSUME NEW d \in Cmd \ {c}
          PROVE /\ at[d] = "register" => hand[d] \in Number
                /\ at[d] = "save" => hand[d] \in mine[d] /\ place'[hand[d]] = "registered"
                /\ at[d] = "spawn" =>
                     /\ hand[d] \in mine[d] /\ place'[hand[d]] = "saved"
                     /\ number'[hand[d]] \in shared \/ config[number'[hand[d]]] = hand[d]
                /\ at[d] = "pid" => hand[d] \in mine[d] \ unnamed /\ Started(hand[d])'
                /\ at[d] = "wait" => hand[d] \in mine[d] /\ place'[hand[d]] \in {"foreground", "over"}
                /\ at[d] \in {"kill", "remove"} =>
                     hand[d] \in Known' /\ number'[hand[d]] \in todo[d] /\ Started(hand[d])'
                /\ at[d] = "remove" => place'[hand[d]] = "over"
        <3>1. mine[d] \subseteq Known
            BY DEF FleetInv, Registered
        <3> QED
            BY <1>4, <1>5, <1>6, <1>10, <3>1 DEF FleetInv, InHand
    <2> QED
        BY <1>1, <1>4, <2>1 DEF InHand
<1>13. OwnNumber'
    BY <1>1, <1>4, <1>5, <1>6, <1>9 DEF FleetInv, OwnNumber
<1>14. \A d \in Cmd : at[d] = "save" => hand[d] \in Known
    BY DEF FleetInv, InHand, Registered
<1>15. \A d \in Cmd : /\ Picking(d)' <=> Picking(d)
                      /\ Picking(d) => Picked(d)' = Picked(d)
    BY <1>1, <1>4, <1>5, <1>14 DEF Picking, Picked
<1>16. Alone'
    BY <1>1, <1>15 DEF FleetInv, Alone
<1> QED
    BY <1>8, <1>11, <1>12, <1>13, <1>16 DEF FleetInv

\* Whose the number in hand is, before its credentials are saved.
LEMMA SaveStep ==
    ASSUME FleetInv, Typed', NEW c \in Cmd, Save(c) PROVE FleetInv'
<1> DEFINE a == hand[c]
           n == number[hand[c]]
<1>1. /\ at[c] = "save" /\ UNCHANGED <<todo, hand, mine, config, pidFile, number, shared, unnamed>>
      /\ creds' = [creds EXCEPT ![n] = a] /\ place' = [place EXCEPT ![a] = "saved"]
    BY DEF Save, Step, history
<1>2. PICK t \in {"seed", "more"} : at' = [at EXCEPT ![c] = t]
    BY DEF Save, Step
<1>3. a \in mine[c] /\ a \in Known /\ a \in Agent /\ n \in Number /\ place[a] = "registered"
    BY <1>1 DEF FleetInv, InHand, Registered, Known
<1>4. Picking(c) /\ Picked(c) = n
    BY <1>1 DEF Picking, Picked
<1>5. n \notin shared => creds[n] = Nil /\ \A d \in Cmd \ {c} : Picking(d) => Picked(d) # n
    BY <1>4 DEF FleetInv, Alone
<1>6. \A b \in Known : number[b] = n /\ n \notin shared => place[b] = "registered"
    BY <1>5, Numbers DEF FleetInv, OwnNumber, Known, Nil
<1> HIDE DEF a, n
<1>7. /\ at'[c] = t /\ \A d \in Cmd \ {c} : at'[d] = at[d]
      /\ creds'[n] = a /\ \A m \in Number \ {n} : creds'[m] = creds[m]
      /\ place'[a] = "saved" /\ \A b \in Agent \ {a} : place'[b] = place[b]
    BY <1>1, <1>2, <1>3 DEF FleetInv, Typed, Invoked, Held
<1>8. Known' = Known
    BY <1>3, <1>7 DEF Known
<1>9. Registered'
    BY <1>1, <1>8 DEF FleetInv, Registered
<1>10. \A b : Settled(b)' <=> Settled(b)
    BY <1>1, <1>7 DEF Settled
<1>11. \A b \in Agent : Started(b) => b # a /\ Started(b)'
    BY <1>3, <1>7 DEF Started
<1>12. PidsNamed'
    <2>1. \A m \in Number : pidFile'[m] # Nil =>
            /\ pidFile'[m] = pidFile[m] /\ pidFile[m] \in Agent /\ number'[pidFile'[m]] = m
            /\ Started(pidFile[m]) /\ Settled(pidFile[m])
        BY <1>1 DEF FleetInv, PidsNamed, Typed, Held
    <2>2. \A b \in unnamed' : b \in Agent /\ Started(b)
        BY <1>1 DEF FleetInv, PidsNamed, Typed, Held
    <2> QED
        BY <1>1, <1>3, <1>7, <1>10, <1>11, <2>1, <2>2 DEF PidsNamed, Settled, Started
<1>13. \A d \in Cmd \ {c} : a \notin mine[d]
    BY <1>3 DEF FleetInv, Registered
<1>14. InHand'
    <2>1. \A d \in Cmd \ {c} : at[d] \in {"kill", "remove"} => hand[d] \in Agent \ {a}
        BY <1>3 DEF FleetInv, InHand, Started, Known
    <2>2. \A d \in Cmd : mine[d] \subseteq Agent
        BY DEF FleetInv, Typed, Invoked
    <2>3. \A d \in Cmd \ {c} : at[d] \in {"save", "spawn", "pid", "wait"} => hand[d] \in Agent \ {a}
        BY <1>13, <2>2 DEF FleetInv, InHand
    <2> QED
        BY <1>1, <1>7, <1>8, <2>1, <2>3 DEF FleetInv, InHand, Started
<1>15. OwnNumber'
    <2>1. ASSUME NEW b \in Known, b # a, number[b] = n, n \notin shared PROVE place'[b] = "registered"
        BY <1>6, <1>7, <2>1 DEF Known
    <2>2. ASSUME NEW b \in Known, b # a, number[b] # n
          PROVE  creds'[number[b]] = creds[number[b]] /\ place'[b] = place[b]
        BY <1>7, <2>2 DEF Known, FleetInv, Registered
    <2>3. ASSUME NEW b \in Known, number[b] \notin shared
          PROVE  /\ place'[b] # "registered" => creds'[number[b]] = b
                 /\ place'[b] = "running" => config[number[b]] = b
                 /\ place'[b] = "running" /\ Settled(b) => pidFile[number[b]] = b
        <3>1. CASE b = a
            BY <1>7, <3>1 DEF n, a
        <3>2. CASE b # a /\ number[b] = n
            BY <2>1, <2>3, <3>2
        <3>3. CASE b # a /\ number[b] # n
            BY <2>2, <2>3, <3>3 DEF FleetInv, OwnNumber
        <3> QED
            BY <3>1, <3>2, <3>3
    <2> QED
        BY <1>1, <1>8, <1>10, <2>3 DEF OwnNumber
<1>16. Alone'
    <2>1. \A d \in Cmd : Picking(d)' => d # c /\ Picking(d) /\ Picked(d)' = Picked(d)
        BY <1>1, <1>7 DEF Picking, Picked
    <2>2. \A d \in Cmd \ {c} : Picking(d) => Picked(d) \in Number
        BY DEF FleetInv, InHand, Registered, Picking, Picked
    <2> QED
        BY <1>1, <1>5, <1>7, <2>1, <2>2 DEF FleetInv, Alone
<1> QED
    BY <1>9, <1>12, <1>14, <1>15, <1>16 DEF FleetInv

LEMMA PrepareStep ==
    ASSUME FleetInv, Typed', NEW c \in Cmd, Prepare(c) PROVE FleetInv'
<1>1. PICK a \in Waiting(c) : /\ hand' = [hand EXCEPT ![c] = a]
                              /\ config' = [config EXCEPT ![number[a]] = a]
    BY DEF Prepare
<1>2. /\ at[c] = "launch" /\ at' = [at EXCEPT ![c] = "spawn"]
      /\ UNCHANGED <<todo, mine, creds, pidFile, number, place, shared, unnamed>>
    BY DEF Prepare, Step, agents, history
<1>3. a \in mine[c] /\ a \in Known /\ place[a] = "saved" /\ number[a] \in Number
    BY <1>1 DEF Waiting, FleetInv, Registered
<1>4. /\ at'[c] = "spawn" /\ hand'[c] = a
      /\ \A d \in Cmd \ {c} : at'[d] = at[d] /\ hand'[d] = hand[d]
      /\ config'[number[a]] = a
      /\ \A m \in Number \ {number[a]} : config'[m] = config[m]
    BY <1>1, <1>2, <1>3 DEF FleetInv, Typed, Invoked, Held
<1>5. Known' = Known
    BY <1>2 DEF Known
<1>6. Registered'
    BY <1>2, <1>5 DEF FleetInv, Registered
<1>7. \A b : Settled(b)' <=> Settled(b)
    BY <1>2, <1>4 DEF Settled
<1>8. PidsNamed'
    BY <1>2, <1>7 DEF FleetInv, PidsNamed, Started
<1>9. ASSUME NEW b \in Known, place[b] # "registered", number[b] \notin shared,
             config[number[b]] = b
      PROVE  config'[number[b]] = b
    <2>1. CASE number[b] = number[a]
        BY <1>3, <1>4, <1>9, <2>1, Unique DEF FleetInv
    <2>2. CASE number[b] # number[a]
        BY <1>4, <1>9, <2>2 DEF FleetInv, Registered
    <2> QED
        BY <2>1, <2>2
<1>10. InHand'
    <2>1. \A d \in Cmd : mine[d] \subseteq Known
        BY DEF FleetInv, Registered
    <2> QED
        BY <1>2, <1>3, <1>4, <1>5, <1>9, <2>1 DEF FleetInv, InHand, Started
<1>11. OwnNumber'
    <2>1. ASSUME NEW b \in Known, number[b] \notin shared, place[b] = "running"
          PROVE  config'[number[b]] = b
        BY <1>9, <2>1 DEF FleetInv, OwnNumber
    <2> QED
        BY <1>2, <1>5, <1>7, <2>1 DEF FleetInv, OwnNumber
<1>12. \A d \in Cmd : Picking(d)' => Picking(d) /\ Picked(d)' = Picked(d)
    BY <1>2, <1>4 DEF Picking, Picked
<1>13. Alone'
    BY <1>2, <1>12 DEF FleetInv, Alone
<1> QED
    BY <1>6, <1>8, <1>10, <1>11, <1>13 DEF FleetInv

\* The process of the agent in hand has been launched, or could not be.
LEMMA SpawnStep ==
    ASSUME FleetInv, Typed', NEW c \in Cmd, at[c] = "spawn",
           NEW p \in {"foreground", "running", "over"},
           NEW t \in Stage \ {"register", "save", "spawn", "kill", "remove"},
           (t = "pid") <=> (p = "running"), t = "wait" => p = "foreground",
           at' = [at EXCEPT ![c] = t], place' = [place EXCEPT ![hand[c]] = p],
           UNCHANGED <<todo, hand, mine, creds, config, pidFile, number, shared, unnamed>>
    PROVE  FleetInv'
<1>1. PICK a \in Agent :
        /\ a = hand[c] /\ a \in mine[c] /\ a \in Known /\ place[a] = "saved"
        /\ number[a] \in shared \/ config[number[a]] = a
    BY DEF FleetInv, InHand, Registered, Known
<1>2. /\ at'[c] = t /\ \A d \in Cmd \ {c} : at'[d] = at[d]
      /\ place'[a] = p /\ \A b \in Agent \ {a} : place'[b] = place[b]
    BY <1>1 DEF FleetInv, Typed, Invoked, Held
<1>3. Known' = Known
    BY <1>1, <1>2 DEF Known
<1>4. Registered'
    BY <1>3 DEF FleetInv, Registered
<1>5. \A b \in Agent : Started(b) => b # a /\ Started(b)'
    BY <1>1, <1>2 DEF Started
<1>6. \A b \in Agent \ {a} : Settled(b)' <=> Settled(b)
    BY <1>1, <1>2 DEF Settled
<1>7. p = "running" => ~Settled(a)'
    BY <1>1, <1>2 DEF Settled
<1>8. PidsNamed'
    <2>1. ASSUME NEW n \in Number, NEW b \in Agent, b = pidFile[n]
          PROVE  number[b] = n /\ Started(b)' /\ Settled(b)'
        <3>1. number[b] = n /\ Started(b) /\ Settled(b)
            BY <2>1, Numbers DEF FleetInv, PidsNamed, Nil
        <3> QED
            BY <1>5, <1>6, <3>1
    <2>2. \A n \in Number : pidFile'[n] # Nil => \E b \in Agent : b = pidFile'[n] /\ b = pidFile[n]
        BY DEF FleetInv, Typed, Held
    <2>3. \A b \in unnamed : Started(b)'
        BY <1>5 DEF FleetInv, PidsNamed, Typed, Held
    <2> QED
        BY <2>1, <2>2, <2>3 DEF PidsNamed, Settled, Started
<1>9. InHand'
    <2>1. \A d \in Cmd \ {c} : /\ mine[d] \subseteq Agent \ {a}
                               /\ at[d] \in {"kill", "remove"} => hand[d] \in Agent /\ hand[d] # a
        BY <1>1 DEF FleetInv, Typed, Invoked, Registered, InHand, Known, Started
    <2>2. ASSUME NEW d \in Cmd \ {c}, at[d] \in {"save", "spawn", "pid", "wait", "kill", "remove"}
          PROVE  hand[d] \in Agent \ {a}
        BY <2>1, <2>2 DEF FleetInv, InHand
    <2>3. t = "pid" => a \notin unnamed /\ Started(a)'
        BY <1>1, <1>2 DEF FleetInv, PidsNamed, Started
    <2> QED
        BY <1>1, <1>2, <1>3, <1>5, <2>2, <2>3 DEF FleetInv, InHand, Started
<1>10. Alone'
    <2>1. \A d \in Cmd : Picking(d)' => Picking(d) /\ Picked(d)' = Picked(d)
        BY <1>2 DEF Picking, Picked
    <2> QED
        BY <2>1 DEF FleetInv, Alone
<1>11. OwnNumber'
    <2>1. ASSUME NEW b \in Known, number[b] \notin shared
          PROVE  /\ place'[b] # "registered" => creds[number[b]] = b
                 /\ place'[b] = "running" => config[number[b]] = b
                 /\ place'[b] = "running" /\ Settled(b)' => pidFile[number[b]] = b
        <3>1. CASE b = a
            BY <1>1, <1>2, <1>7, <2>1, <3>1 DEF FleetInv, OwnNumber, Settled
        <3>2. CASE b # a
            BY <1>2, <1>6, <2>1, <3>2 DEF FleetInv, OwnNumber, Known, Settled
        <3> QED
            BY <3>1, <3>2
    <2> QED
        BY <1>3, <2>1 DEF OwnNumber, Settled
<1> QED
    BY <1>4, <1>8, <1>9, <1>10, <1>11 DEF FleetInv

\* The pid of the agent in hand is written, or is known not to be.
LEMMA WritePidStep ==
    ASSUME FleetInv, Typed', NEW c \in Cmd, WritePid(c) PROVE FleetInv'
<1>1. /\ at[c] = "pid"
      /\ UNCHANGED <<todo, hand, mine, creds, config, number, place, shared>>
    BY DEF WritePid, Step, agents
<1>2. PICK t \in {"summary", "launch"} : at' = [at EXCEPT ![c] = t]
    BY DEF WritePid, Step, Onward
<1>3. at'[c] = t /\ \A d \in Cmd \ {c} : at'[d] = at[d]
    BY <1>2 DEF FleetInv, Typed, Invoked
<1>4. PICK a \in Agent, n \in Number :
        a = hand[c] /\ n = number[a] /\ a \in mine[c] /\ a \in Known /\ a \notin unnamed /\ Started(a)
    BY <1>1 DEF FleetInv, InHand, Registered, Known
<1>5. \A d \in Cmd \ {c} : at[d] = "pid" => hand[d] # a
    BY <1>4 DEF FleetInv, InHand, Registered
<1>6. CASE pidFile' = [pidFile EXCEPT ![n] = a] /\ UNCHANGED unnamed
    <2>1. pidFile'[n] = a /\ \A m \in Number \ {n} : pidFile'[m] = pidFile[m]
        BY <1>4, <1>6 DEF FleetInv, Typed, Held
    <2>2. Known' = Known
        BY <1>1 DEF Known
    <2>3. Settled(a)' /\ \A b \in Agent \ {a} : Settled(b)' <=> Settled(b)
        BY <1>1, <1>3, <1>4, <1>5, <1>6 DEF Settled
    <2>4. PidsNamed'
        <3>1. ASSUME NEW m \in Number, NEW b \in Agent, b = pidFile'[m]
              PROVE  number[b] = m /\ Started(b) /\ Settled(b)'
            <4>1. CASE b = a /\ m = n
                BY <1>4, <2>3, <4>1
            <4>2. CASE m # n
                <5>1. number[b] = m /\ Started(b) /\ Settled(b)
                    BY <2>1, <3>1, <4>2, Numbers DEF FleetInv, PidsNamed, Nil
                <5> QED
                    BY <2>3, <5>1
            <4> QED
                BY <2>1, <3>1, <4>1, <4>2
        <3>2. \A m \in Number : pidFile'[m] # Nil => pidFile'[m] \in Agent
            BY DEF Typed, Held
        <3>3. \A b \in unnamed : Started(b)
            BY DEF FleetInv, PidsNamed
        <3> QED
            BY <1>1, <1>6, <3>1, <3>2, <3>3 DEF PidsNamed, Settled, Started
    <2>5. OwnNumber'
        <3>1. ASSUME NEW b \in Known, number[b] \notin shared, place[b] = "running", Settled(b)'
              PROVE  pidFile'[number[b]] = b
            <4>1. CASE number[b] = n
                <5>1. b = a
                    BY <1>4, <3>1, <4>1, Unique DEF FleetInv, Started
                <5> QED
                    BY <2>1, <4>1, <5>1
            <4>2. CASE number[b] # n
                <5>1. number[b] \in Number /\ b # a
                    BY <1>4, <4>2 DEF FleetInv, Registered
                <5> QED
                    BY <2>1, <2>3, <3>1, <4>2, <5>1 DEF FleetInv, OwnNumber, Known
            <4> QED
                BY <4>1, <4>2
        <3> QED
            BY <1>1, <2>2, <3>1 DEF FleetInv, OwnNumber, Settled
    <2>6. InHand'
        BY <1>1, <1>2, <1>3, <1>6, <2>2 DEF FleetInv, InHand, Started
    <2>7. Registered' /\ Alone'
        BY <1>1, <1>2, <1>3, <2>2 DEF FleetInv, Registered, Alone, Picking, Picked
    <2> QED
        BY <2>4, <2>5, <2>6, <2>7 DEF FleetInv
<1>7. CASE unnamed' = unnamed \cup {a} /\ UNCHANGED pidFile
    BY <1>1, <1>2, <1>3, <1>4, <1>7, Quiet
<1> QED
    BY <1>4, <1>6, <1>7 DEF WritePid

LEMMA ReadPidStep ==
    ASSUME FleetInv, Typed', NEW c \in Cmd, ReadPid(c) PROVE FleetInv'
<1>1. /\ at[c] = "read"
      /\ UNCHANGED <<mine, creds, config, pidFile, number, place, shared, unnamed>>
    BY DEF ReadPid, files, agents, history
<1>2. PICK n \in todo[c] :
        IF pidFile[n] = Nil
        THEN /\ at' = [at EXCEPT ![c] = Rest(c, n)]
             /\ todo' = [todo EXCEPT ![c] = @ \ {n}]
             /\ UNCHANGED hand
        ELSE /\ at' = [at EXCEPT ![c] = "kill"]
             /\ hand' = [hand EXCEPT ![c] = pidFile[n]]
             /\ UNCHANGED todo
    BY DEF ReadPid
<1>3. CASE pidFile[n] = Nil
    <2>1. at'[c] \in {"read", "ended"} /\ \A d \in Cmd \ {c} : at'[d] = at[d] /\ todo'[d] = todo[d]
        BY <1>2, <1>3 DEF Rest, FleetInv, Typed, Invoked
    <2> QED
        BY <1>1, <1>2, <1>3, <2>1, Quiet
<1>4. CASE pidFile[n] # Nil
    <2>1. PICK a \in Agent : a = pidFile[n] /\ number[a] = n /\ Started(a)
        BY <1>2, <1>4 DEF FleetInv, Typed, Invoked, Held, PidsNamed
    <2>2. /\ at'[c] = "kill" /\ hand'[c] = a /\ todo'[c] = todo[c]
          /\ \A d \in Cmd \ {c} : at'[d] = at[d] /\ hand'[d] = hand[d] /\ todo'[d] = todo[d]
        BY <1>2, <1>4, <2>1 DEF FleetInv, Typed, Invoked
    <2>3. Known' = Known /\ \A b : Settled(b)' <=> Settled(b)
        BY <1>1, <2>2 DEF Known, Settled
    <2>4. Registered' /\ PidsNamed' /\ OwnNumber'
        BY <1>1, <2>3 DEF FleetInv, Registered, PidsNamed, Started, OwnNumber
    <2>5. InHand'
        BY <1>1, <1>2, <2>1, <2>2, <2>3 DEF FleetInv, InHand, Started, Known
    <2>6. Alone'
        BY <1>1, <2>2 DEF FleetInv, Alone, Picking, Picked
    <2> QED
        BY <2>4, <2>5, <2>6 DEF FleetInv
<1> QED
    BY <1>3, <1>4

LEMMA RemovePidStep ==
    ASSUME FleetInv, Typed', NEW c \in Cmd, RemovePid(c) PROVE FleetInv'
<1>1. /\ at[c] = "remove"
      /\ UNCHANGED <<hand, mine, creds, config, number, place, shared, unnamed>>
    BY DEF RemovePid, Step, agents, history
<1>2. PICK a \in Agent, n \in Number :
        a = hand[c] /\ n = number[a] /\ a \in Known /\ place[a] = "over"
    BY <1>1 DEF FleetInv, InHand, Registered, Known
<1>3. PICK t \in {"read", "ended"} : at' = [at EXCEPT ![c] = t]
    BY DEF RemovePid, Step, Rest
<1>4. /\ pidFile' = [pidFile EXCEPT ![n] = Nil] /\ todo' = [todo EXCEPT ![c] = @ \ {n}]
    BY <1>2 DEF RemovePid
<1>5. /\ at'[c] = t /\ \A d \in Cmd \ {c} : at'[d] = at[d] /\ todo'[d] = todo[d]
      /\ pidFile'[n] = Nil /\ \A m \in Number \ {n} : pidFile'[m] = pidFile[m]
    BY <1>3, <1>4 DEF FleetInv, Typed, Invoked, Held
<1>6. Known' = Known /\ \A b : Settled(b)' <=> Settled(b)
    BY <1>1, <1>3, <1>5 DEF Known, Settled
<1>7. Registered'
    BY <1>1, <1>6 DEF FleetInv, Registered
<1>8. PidsNamed'
    BY <1>1, <1>5, <1>6 DEF FleetInv, PidsNamed, Started
<1>9. InHand' /\ Alone'
    BY <1>1, <1>3, <1>5, <1>6 DEF FleetInv, InHand, Started, Alone, Picking, Picked
<1>10. OwnNumber'
    <2>1. ASSUME NEW b \in Known, number[b] \notin shared, place[b] = "running"
          PROVE  number[b] # n /\ number[b] \in Number
        BY <1>2, <2>1, Unique DEF FleetInv, Registered
    <2> QED
        BY <1>1, <1>5, <1>6, <2>1 DEF FleetInv, OwnNumber
<1> QED
    BY <1>7, <1>8, <1>9, <1>10 DEF FleetInv

LEMMA DeleteCredStep ==
    ASSUME FleetInv, Typed', NEW c \in Cmd, DeleteCred(c) PROVE FleetInv'
<1>1. /\ at[c] = "delete"
      /\ UNCHANGED <<hand, mine, config, pidFile, number, place, unnamed>>
    BY DEF DeleteCred, agents
<1>2. PICK n \in todo[c] :
        IF creds[n] = Nil
        THEN at' = [at EXCEPT ![c] = "ended"] /\ UNCHANGED <<todo, creds, shared>>
        ELSE /\ creds' = [creds EXCEPT ![n] = Nil] /\ shared' = shared \cup {n}
             /\ todo' = [todo EXCEPT ![c] = @ \ {n}] /\ UNCHANGED at
    BY DEF DeleteCred
<1>3. CASE creds[n] = Nil
    <2>1. at'[c] = "ended" /\ \A d \in Cmd \ {c} : at'[d] = at[d]
        BY <1>2, <1>3 DEF FleetInv, Typed, Invoked
    <2> QED
        BY <1>1, <1>2, <1>3, <2>1, Quiet
<1>4. CASE creds[n] # Nil
    <2>1. /\ n \in Number /\ n \in shared' /\ shared \subseteq shared' /\ at' = at
          /\ creds'[n] = Nil /\ \A m \in Number \ {n} : creds'[m] = creds[m]
          /\ \A d \in Cmd \ {c} : todo'[d] = todo[d]
        BY <1>2, <1>4 DEF FleetInv, Typed, Invoked, Held
    <2>2. Known' = Known /\ \A b : Settled(b)' <=> Settled(b)
        BY <1>1, <2>1 DEF Known, Settled
    <2>3. Registered' /\ PidsNamed'
        BY <1>1, <2>2 DEF FleetInv, Registered, PidsNamed, Started
    <2>4. InHand'
        BY <1>1, <2>1, <2>2 DEF FleetInv, InHand, Started
    <2>5. Alone'
        <3>1. \A d \in Cmd : Picking(d) => Picked(d) \in Number
            BY DEF FleetInv, InHand, Registered, Picking, Picked
        <3>2. \A d \in Cmd : /\ Picking(d)' <=> Picking(d)
                             /\ Picked(d)' = Picked(d)
            BY <1>1, <2>1 DEF Picking, Picked
        <3> QED
            BY <2>1, <3>1, <3>2 DEF FleetInv, Alone
    <2>6. OwnNumber'
        BY <1>1, <2>1, <2>2 DEF FleetInv, OwnNumber, Registered
    <2> QED
        BY <2>3, <2>4, <2>5, <2>6 DEF FleetInv
<1> QED
    BY <1>3, <1>4

LEMMA FleetStep == FleetInv /\ [FleetNext]_fleetVars => FleetInv'
<1> SUFFICES ASSUME FleetInv, [FleetNext]_fleetVars PROVE FleetInv'
    OBVIOUS
<1>0. Typed'
    BY TypedStep DEF FleetInv
<1> USE <1>0 DEF Step, Begins, files, agents, history
<1>1. ASSUME NEW c \in Cmd,
             \/ Preflight(c) \/ Seed(c) \/ More(c) \/ Summary(c) \/ Waited(c) \/ NoHub(c)
             \/ RunFails(c) \/ ResetAsk(c) \/ ResetAnswered(c) \/ DeleteLogs(c) \/ Up(c) \/ Poll(c) \/ Down(c)
             \/ Collect(c)
      PROVE  FleetInv'
    <2>1. UNCHANGED <<mine, creds, config, pidFile, number, place, shared, unnamed>>
        BY <1>1 DEF Preflight, Seed, More, Summary, Waited, NoHub, RunFails, GivesUp, ResetAsk,
           ResetAnswered, DeleteLogs, Up, Poll, Down, Collect
    <2>2. at[c] # "pid"
        BY <1>1 DEF Preflight, Seed, More, Summary, Waited, NoHub, RunFails, GivesUp, ResetAsk,
           ResetAnswered, DeleteLogs, Up, Poll, Down, Collect
    <2>3. PICK t \in {"number", "launch", "ended", "more", "answer", "delete", "poll", "read"} :
            at' = [at EXCEPT ![c] = t]
        BY <1>1 DEF Preflight, Seed, More, Summary, Waited, NoHub, RunFails, GivesUp, ResetAsk,
           ResetAnswered, DeleteLogs, Up, Poll, Down, Collect
    <2>4. \A d \in Cmd \ {c} : hand'[d] = hand[d] /\ todo'[d] = todo[d]
        BY <1>1 DEF Preflight, Seed, More, Summary, Waited, NoHub, RunFails, GivesUp, ResetAsk,
           ResetAnswered, DeleteLogs, Up, Poll, Down, Collect, FleetInv, Typed, Invoked
    <2>5. at'[c] = t /\ \A d \in Cmd \ {c} : at'[d] = at[d]
        BY <2>3 DEF FleetInv, Typed, Invoked
    <2> QED
        BY <2>1, <2>2, <2>3, <2>4, <2>5, Quiet
<1>2. ASSUME NEW c \in Cmd, PickNumber(c) PROVE FleetInv'
    BY <1>2, PickStep
<1>3. ASSUME NEW c \in Cmd, Register(c) PROVE FleetInv'
    BY <1>3, RegisterStep
<1>4. ASSUME NEW c \in Cmd, Save(c) PROVE FleetInv'
    BY <1>4, SaveStep
<1>5. ASSUME NEW c \in Cmd, Prepare(c) PROVE FleetInv'
    BY <1>5, PrepareStep
<1>6. ASSUME NEW c \in Cmd, SpawnForeground(c) PROVE FleetInv'
    BY <1>6, SpawnStep DEF SpawnForeground, Stage
<1>7. ASSUME NEW c \in Cmd, SpawnBackground(c) PROVE FleetInv'
    BY <1>7, SpawnStep DEF SpawnBackground, Stage
<1>8. ASSUME NEW c \in Cmd, SpawnFails(c) PROVE FleetInv'
    <2>1. PICK t \in {"ended", "summary", "launch"} : at' = [at EXCEPT ![c] = t]
        BY <1>8 DEF SpawnFails, Onward
    <2>2. /\ at[c] = "spawn" /\ place' = [place EXCEPT ![hand[c]] = "over"]
          /\ UNCHANGED <<todo, hand, mine, creds, config, pidFile, number, shared, unnamed>>
        BY <1>8 DEF SpawnFails
    <2> QED
        BY <2>1, <2>2, SpawnStep DEF Stage
<1>9. ASSUME NEW c \in Cmd, WritePid(c) PROVE FleetInv'
    BY <1>9, WritePidStep
<1>10. ASSUME NEW c \in Cmd, ReadPid(c) PROVE FleetInv'
    BY <1>10, ReadPidStep
<1>11. ASSUME NEW c \in Cmd, Kill(c) PROVE FleetInv'
    <2>1. /\ at[c] = "kill" /\ at' = [at EXCEPT ![c] = "remove"]
          /\ UNCHANGED <<todo, hand, mine, creds, config, pidFile, number, shared, unnamed>>
        BY <1>11 DEF Kill
    <2>2. hand[c] \in Agent /\ place[hand[c]] \in {"running", "over"}
        BY <2>1 DEF FleetInv, InHand, Known, Started
    <2>3. place'[hand[c]] = "over" /\ \A a \in Agent \ {hand[c]} : place'[a] = place[a]
        BY <1>11, <2>2 DEF Kill, FleetInv, Typed, Held
    <2>4. at'[c] = "remove" /\ \A d \in Cmd \ {c} : at'[d] = at[d]
        BY <2>1 DEF FleetInv, Typed, Invoked
    <2> QED
        BY <2>1, <2>2, <2>3, <2>4, Quiet
<1>12. ASSUME NEW c \in Cmd, RemovePid(c) PROVE FleetInv'
    BY <1>12, RemovePidStep
<1>13. ASSUME NEW c \in Cmd, DeleteCred(c) PROVE FleetInv'
    BY <1>13, DeleteCredStep
<1>14. ASSUME NEW c \in Cmd, Interrupt(c) PROVE FleetInv'
    <2>1. UNCHANGED <<todo, hand, mine, creds, config, pidFile, number, shared>>
        BY <1>14 DEF Interrupt
    <2>2. at'[c] = "ended" /\ \A d \in Cmd \ {c} : at'[d] = at[d]
        BY <1>14 DEF Interrupt, FleetInv, Typed, Invoked
    <2>3. \A a \in Agent : \/ place'[a] = place[a]
                           \/ place[a] \in {"running", "foreground"} /\ place'[a] = "over"
        <3>1. CASE at[c] = "wait"
            <4>1. /\ hand[c] \in Agent /\ place[hand[c]] \in {"foreground", "over"}
                  /\ place' = [place EXCEPT ![hand[c]] = "over"]
                BY <1>14, <3>1 DEF Interrupt, FleetInv, Typed, Invoked, InHand
            <4> QED
                BY <4>1 DEF FleetInv, Typed, Held
        <3>2. CASE at[c] # "wait"
            BY <1>14, <3>2 DEF Interrupt
        <3> QED
            BY <3>1, <3>2
    <2>4. unnamed' = IF at[c] = "pid" THEN unnamed \cup {hand[c]} ELSE unnamed
        BY <1>14 DEF Interrupt
    <2> QED
        BY <2>1, <2>2, <2>3, <2>4, Quiet
<1>15. ASSUME NEW a \in Agent, AgentEnds(a) PROVE FleetInv'
    <2>1. \A b \in Agent : \/ place'[b] = place[b]
                           \/ place[b] \in {"running", "foreground"} /\ place'[b] = "over"
        BY <1>15 DEF AgentEnds, FleetInv, Typed, Held
    <2>2. UNCHANGED <<at, todo, hand, mine, creds, config, pidFile, number, shared, unnamed>>
        BY <1>15 DEF AgentEnds
    <2> QED
        BY <2>1, <2>2, Quiet
<1>16. ASSUME HubReady \/ Done \/ UNCHANGED fleetVars PROVE FleetInv'
    <2>1. UNCHANGED <<at, todo, hand, mine, creds, config, pidFile, number, place, shared, unnamed>>
        BY <1>16 DEF HubReady, Done, fleetVars
    <2> QED
        BY <2>1, Quiet
<1> QED
    BY <1>1, <1>2, <1>3, <1>4, <1>5, <1>6, <1>7, <1>8, <1>9, <1>10, <1>11, <1>12, <1>13,
       <1>14, <1>15, <1>16 DEF FleetNext, Run, Stop, Reset

\* The invariant holds before the first invocation.
LEMMA FleetStarts == FleetInit => FleetInv
<1> SUFFICES ASSUME FleetInit PROVE FleetInv
    OBVIOUS
<1>1. Typed
    BY FleetAssumption DEF FleetInit, Typed, Invoked, Held, Stage, Place
<1>2. Known = {} /\ 1..0 = {} /\ Cardinality({}) = 0
    BY FS_EmptySet DEF FleetInit, Known
<1> QED
    BY <1>1, <1>2 DEF FleetInit, FleetInv, Registered, PidsNamed, InHand, Alone, Picking, OwnNumber

\* However the invocations of the client interleave, an agent whose number no
\* two runs picked at once and no reset freed has its credentials, its working
\* directory and its pid file to itself.
THEOREM NumbersAreOwn == FleetSpec => []OwnNumber
<1>1. FleetInv => OwnNumber
    BY DEF FleetInv
<1> QED
    BY <1>1, FleetStarts, FleetStep, PTL DEF FleetSpec

\* What a stop was to stop is over, or it has still to get to its number.
StopInv ==
    \A c \in Cmd : script[c].kind = "stop" =>
        \A a \in listed[c] :
            /\ a \in Known /\ Started(a) /\ Settled(a)
            /\ number[a] \in shared \/ place[a] = "over" \/ number[a] \in todo[c]

\* The agents that were listed stay what they are, and what is over stays so.
LEMMA ListedKept ==
    ASSUME FleetInv, FleetInv', UNCHANGED <<script, listed>>, StopInv,
           \A a \in Known : Started(a) => place'[a] = place[a] \/ place'[a] = "over",
           \A a \in Known : number'[a] = number[a],
           \A a \in Known : Started(a) /\ Settled(a) => Settled(a)',
           shared \subseteq shared',
           \A c \in Cmd : script[c].kind = "stop" => \A n \in todo[c] :
                \/ n \in todo'[c] \/ n \in shared
                \/ \A a \in Known : Started(a) /\ Settled(a) /\ number[a] = n => place'[a] = "over"
    PROVE  StopInv'
<1> SUFFICES ASSUME NEW c \in Cmd, script[c].kind = "stop", NEW a \in listed[c]
             PROVE  /\ a \in Known' /\ Started(a)' /\ Settled(a)'
                    /\ number'[a] \in shared' \/ place'[a] = "over" \/ number'[a] \in todo'[c]
    BY DEF StopInv, Started, Settled
<1>1. a \in Known /\ Started(a) /\ Settled(a) /\ a \in Agent
    BY DEF StopInv, Known
<1>2. number[a] \in shared \/ place[a] = "over" \/ number[a] \in todo[c]
    BY DEF StopInv
<1>3. place'[a] = place[a] \/ place'[a] = "over"
    BY <1>1
<1>4. a \in Known' /\ Started(a)'
    BY <1>1, <1>3 DEF Known, Started
<1> QED
    BY <1>1, <1>2, <1>3, <1>4

\* What no step undoes.
Lasting ==
    /\ UNCHANGED script /\ shared \subseteq shared'
    /\ \A a \in Known :
         /\ number'[a] = number[a]
         /\ Started(a) => place'[a] = place[a] \/ place'[a] = "over"
         /\ Started(a) /\ Settled(a) => Settled(a)'

\* An agent once started keeps its number and its pid file's history.
LEMMA StartedLast == ASSUME FleetInv, [FleetNext]_fleetVars PROVE Lasting
<1> USE DEF Step, Begins, files, agents, history
<1>0. /\ at \in [Cmd -> Stage] /\ hand \in [Cmd -> Number \cup Agent \cup {Nil}]
      /\ place \in [Agent -> Place] /\ number \in [Agent -> Number \cup {Nil}] /\ Known \subseteq Agent
    BY DEF FleetInv, Typed, Invoked, Held, Known
<1>1. ASSUME UNCHANGED <<script, number, unnamed, shared>>, NEW c \in Cmd, NEW t \in Stage,
             at' = [at EXCEPT ![c] = t], t # "pid",
             \A d \in Cmd \ {c} : hand'[d] = hand[d],
             \A a \in Known : Started(a) => place'[a] = place[a]
      PROVE  Lasting
    <2>1. \A d \in Cmd : at'[d] = "pid" => at[d] = "pid" /\ hand'[d] = hand[d]
        BY <1>0, <1>1
    <2> QED
        BY <1>1, <2>1 DEF Lasting, Settled
<1>2. ASSUME UNCHANGED <<script, at, hand, number, unnamed>>, shared \subseteq shared',
             \A a \in Known : Started(a) => place'[a] = place[a] \/ place'[a] = "over"
      PROVE  Lasting
    BY <1>2 DEF Lasting, Settled
<1>3. ASSUME NEW c \in Cmd,
             \/ Preflight(c) \/ Seed(c) \/ More(c) \/ Summary(c) \/ Waited(c) \/ NoHub(c)
             \/ RunFails(c) \/ ResetAsk(c) \/ ResetAnswered(c) \/ DeleteLogs(c) \/ Up(c) \/ Poll(c) \/ Down(c)
             \/ Collect(c) \/ Prepare(c)
      PROVE  Lasting
    <2>1. /\ UNCHANGED <<script, number, place, unnamed, shared>>
          /\ \A d \in Cmd \ {c} : hand'[d] = hand[d]
        BY <1>0, <1>3 DEF Preflight, Seed, More, Summary, Waited, NoHub, RunFails, GivesUp, ResetAsk,
           ResetAnswered, DeleteLogs, Up, Poll, Down, Collect, Prepare
    <2>2. PICK t \in Stage : at' = [at EXCEPT ![c] = t] /\ t # "pid"
        BY <1>3 DEF Preflight, Seed, More, Summary, Waited, NoHub, RunFails, GivesUp, ResetAsk,
           ResetAnswered, DeleteLogs, Up, Poll, Down, Collect, Prepare, Stage
    <2> QED
        BY <1>1, <2>1, <2>2
<1>4. ASSUME NEW c \in Cmd, PickNumber(c) PROVE Lasting
    <2>1. /\ UNCHANGED <<script, number, place, unnamed>> /\ shared \subseteq shared'
          /\ at' = [at EXCEPT ![c] = "register"] /\ \A d \in Cmd \ {c} : hand'[d] = hand[d]
        BY <1>0, <1>4 DEF PickNumber
    <2>2. \A d \in Cmd : at'[d] = "pid" => at[d] = "pid" /\ hand'[d] = hand[d]
        BY <1>0, <2>1
    <2> QED
        BY <2>1, <2>2 DEF Lasting, Settled
<1>5. ASSUME NEW c \in Cmd, Register(c) PROVE Lasting
    <2> DEFINE a == Cardinality(Known) + 1
    <2>1. Cardinality(Known) \in Nat /\ a \notin Known
        <3>1. IsFiniteSet(Agent)
            BY FleetAssumption, FS_Interval DEF Agent
        <3>2. Cardinality(Known) \in Nat
            BY <1>0, <3>1, FS_Subset, FS_CardinalityType
        <3>3. Known = 1..Cardinality(Known)
            BY DEF FleetInv, Registered
        <3> QED
            BY <3>2, <3>3
    <2> HIDE DEF a
    <2>2. /\ UNCHANGED <<script, unnamed, shared>> /\ at' = [at EXCEPT ![c] = "save"]
          /\ number' = [number EXCEPT ![a] = hand[c]]
          /\ place' = [place EXCEPT ![a] = "registered"] /\ hand' = [hand EXCEPT ![c] = a]
        BY <1>5 DEF Register, a
    <2>3. \A b \in Known : number'[b] = number[b] /\ place'[b] = place[b]
        BY <1>0, <2>1, <2>2
    <2>4. \A d \in Cmd : at'[d] = "pid" => at[d] = "pid" /\ hand'[d] = hand[d]
        BY <1>0, <2>2
    <2> QED
        BY <2>2, <2>3, <2>4 DEF Lasting, Settled
<1>6. ASSUME NEW c \in Cmd, Save(c) PROVE Lasting
    <2>1. place[hand[c]] = "registered"
        BY <1>6 DEF Save, FleetInv, InHand
    <2>2. \A a \in Known : Started(a) => place'[a] = place[a]
        BY <1>0, <1>6, <2>1 DEF Save, Started
    <2>3. PICK t \in {"seed", "more"} : at' = [at EXCEPT ![c] = t]
        BY <1>6 DEF Save
    <2>4. UNCHANGED <<script, hand, number, unnamed, shared>>
        BY <1>6 DEF Save
    <2> QED
        BY <1>1, <2>2, <2>3, <2>4 DEF Stage
<1>7. ASSUME NEW c \in Cmd, SpawnForeground(c) \/ SpawnBackground(c) \/ SpawnFails(c) PROVE Lasting
    <2>1. at[c] = "spawn" /\ place[hand[c]] = "saved"
        BY <1>7 DEF SpawnForeground, SpawnBackground, SpawnFails, FleetInv, InHand
    <2>2. \A a \in Known : Started(a) => a # hand[c] /\ place'[a] = place[a]
        BY <1>0, <1>7, <2>1 DEF SpawnForeground, SpawnBackground, SpawnFails, Started
    <2>3. UNCHANGED <<script, hand, number, unnamed, shared>>
        BY <1>7 DEF SpawnForeground, SpawnBackground, SpawnFails
    <2>4. \A d \in Cmd \ {c} : at'[d] = at[d]
        BY <1>0, <1>7 DEF SpawnForeground, SpawnBackground, SpawnFails
    <2> QED
        BY <2>2, <2>3, <2>4 DEF Lasting, Settled
<1>8. ASSUME NEW c \in Cmd, WritePid(c) \/ Interrupt(c) PROVE Lasting
    <2>1. /\ UNCHANGED <<script, hand, number, shared>>
          /\ unnamed' = unnamed \/ (at[c] = "pid" /\ unnamed' = unnamed \cup {hand[c]})
        BY <1>8 DEF WritePid, Interrupt
    <2>2. at'[c] # "pid" /\ \A d \in Cmd \ {c} : at'[d] = at[d]
        BY <1>0, <1>8 DEF WritePid, Interrupt, Onward
    <2>3. \A a \in Known : place'[a] = place[a] \/ place'[a] = "over"
        BY <1>0, <1>8 DEF WritePid, Interrupt
    <2> QED
        BY <2>1, <2>2, <2>3 DEF Lasting, Settled
<1>9. ASSUME NEW c \in Cmd, Kill(c) PROVE Lasting
    <2>1. \A a \in Known : place'[a] = place[a] \/ place'[a] = "over"
        BY <1>0, <1>9 DEF Kill
    <2>2. /\ UNCHANGED <<script, hand, number, unnamed, shared>>
          /\ \A d \in Cmd : at'[d] = "pid" => at[d] = "pid"
        BY <1>0, <1>9 DEF Kill
    <2> QED
        BY <2>1, <2>2 DEF Lasting, Settled
<1>10. ASSUME NEW c \in Cmd, ReadPid(c) PROVE Lasting
    <2>1. /\ UNCHANGED <<script, number, place, unnamed, shared>>
          /\ \A d \in Cmd \ {c} : hand'[d] = hand[d]
        BY <1>0, <1>10 DEF ReadPid
    <2>2. PICK t \in {"read", "ended", "kill"} : at' = [at EXCEPT ![c] = t]
        BY <1>10 DEF ReadPid, Rest
    <2> QED
        BY <1>1, <2>1, <2>2 DEF Stage
<1>11. ASSUME NEW c \in Cmd, RemovePid(c) PROVE Lasting
    <2>1. UNCHANGED <<script, hand, number, place, unnamed, shared>>
        BY <1>11 DEF RemovePid
    <2>2. PICK t \in {"read", "ended"} : at' = [at EXCEPT ![c] = t]
        BY <1>11 DEF RemovePid, Rest
    <2> QED
        BY <1>1, <2>1, <2>2 DEF Stage
<1>12. ASSUME NEW c \in Cmd, DeleteCred(c) PROVE Lasting
    <2>1. UNCHANGED <<script, hand, number, place, unnamed>> /\ shared \subseteq shared'
          /\ (at' = at \/ at' = [at EXCEPT ![c] = "ended"])
        BY <1>12 DEF DeleteCred
    <2>2. \A d \in Cmd : at'[d] = "pid" => at[d] = "pid"
        BY <1>0, <2>1
    <2> QED
        BY <2>1, <2>2 DEF Lasting, Settled
<1>13. ASSUME NEW a \in Agent, AgentEnds(a) PROVE Lasting
    <2>1. \A b \in Agent : place'[b] = place[b] \/ place'[b] = "over"
        BY <1>0, <1>13 DEF AgentEnds
    <2> QED
        BY <1>0, <1>2, <1>13, <2>1 DEF AgentEnds
<1>14. ASSUME HubReady \/ Done \/ UNCHANGED fleetVars PROVE Lasting
    BY <1>2, <1>14 DEF HubReady, Done, fleetVars
<1> QED
    BY <1>3, <1>4, <1>5, <1>6, <1>7, <1>8, <1>9, <1>10, <1>11, <1>12, <1>13, <1>14
    DEF FleetNext, Run, Stop, Reset

\* A stop loses sight of no agent it has not ended.
LEMMA StopStep == FleetInv /\ FleetInv' /\ StopInv /\ [FleetNext]_fleetVars => StopInv'
<1> SUFFICES ASSUME FleetInv, FleetInv', StopInv, [FleetNext]_fleetVars PROVE StopInv'
    OBVIOUS
<1>0. Lasting
    BY StartedLast
<1>1. ASSUME UNCHANGED listed,
             \A c \in Cmd : script[c].kind = "stop" => \A n \in todo[c] :
                \/ n \in todo'[c] \/ n \in shared
                \/ \A a \in Known : Started(a) /\ Settled(a) /\ number[a] = n => place'[a] = "over"
      PROVE  StopInv'
    BY <1>0, <1>1, ListedKept DEF Lasting
<1>2. ASSUME NEW c \in Cmd, Collect(c) PROVE StopInv'
    <2>1. /\ UNCHANGED <<script, number, place, unnamed, shared, hand, pidFile>>
          /\ todo' = [todo EXCEPT ![c] = Named(c)]
          /\ listed' = [listed EXCEPT ![c] = {pidFile[n] : n \in Named(c)}]
        BY <1>2 DEF Collect, files, agents
    <2>2. todo'[c] = Named(c) /\ listed'[c] = {pidFile[n] : n \in Named(c)}
          /\ \A d \in Cmd \ {c} : todo'[d] = todo[d] /\ listed'[d] = listed[d]
        BY <2>1 DEF FleetInv, Typed, Invoked
    <2>3. ASSUME NEW a \in Agent, Started(a), Settled(a)
          PROVE  a \in Known /\ a \in Known' /\ Started(a)' /\ Settled(a)'
        BY <1>0, <2>1, <2>3 DEF Lasting, Known, Started
    <2>4. ASSUME NEW a \in listed'[c] PROVE a \in Agent /\ Started(a) /\ Settled(a) /\ number[a] \in todo'[c]
        <3>1. PICK n \in Number : n \in Named(c) /\ a = pidFile[n] /\ pidFile[n] # Nil
            BY <2>2 DEF Named
        <3>2. a \in Agent
            BY <3>1 DEF FleetInv, Typed, Held
        <3> QED
            BY <2>2, <3>1, <3>2 DEF FleetInv, PidsNamed
    <2>5. ASSUME NEW d \in Cmd, script[d].kind = "stop", NEW a \in listed'[d]
          PROVE  /\ a \in Agent /\ Started(a) /\ Settled(a)
                 /\ number[a] \in shared \/ place[a] = "over" \/ number[a] \in todo'[d]
        <3>1. CASE d = c
            BY <2>4, <2>5, <3>1
        <3>2. CASE d # c
            BY <2>2, <2>5, <3>2 DEF StopInv, Known
        <3> QED
            BY <3>1, <3>2
    <2>6. ASSUME NEW d \in Cmd, script[d].kind = "stop", NEW a \in listed'[d]
          PROVE  /\ a \in Known' /\ Started(a)' /\ Settled(a)'
                 /\ number'[a] \in shared' \/ place'[a] = "over" \/ number'[a] \in todo'[d]
        BY <2>1, <2>3, <2>5, <2>6
    <2> QED
        BY <2>1, <2>6 DEF StopInv, Started, Settled
<1>3. ASSUME NEW c \in Cmd, ReadPid(c) PROVE StopInv'
    <2>1. UNCHANGED <<place, listed>>
        BY <1>3 DEF ReadPid, agents, history
    <2>2. PICK n \in todo[c] :
            \/ pidFile[n] = Nil /\ todo' = [todo EXCEPT ![c] = @ \ {n}]
            \/ UNCHANGED todo
        BY <1>3 DEF ReadPid
    <2>3. n \in Number /\ \A d \in Cmd : \A m \in todo[d] : m \in todo'[d] \/ (m = n /\ pidFile[n] = Nil)
        BY <2>2 DEF FleetInv, Typed, Invoked
    <2>4. ASSUME pidFile[n] = Nil, n \notin shared, NEW a \in Known, Started(a), Settled(a), number[a] = n
          PROVE  place[a] = "over"
        BY <2>4, Numbers DEF FleetInv, OwnNumber, Started, Nil, Known
    <2> QED
        BY <1>1, <2>1, <2>3, <2>4
<1>4. ASSUME NEW c \in Cmd, RemovePid(c) PROVE StopInv'
    <2>1. UNCHANGED <<place, listed>> /\ todo' = [todo EXCEPT ![c] = @ \ {number[hand[c]]}]
          /\ at[c] = "remove"
        BY <1>4 DEF RemovePid, Step, agents, history
    <2>2. hand[c] \in Known /\ place[hand[c]] = "over"
        BY <2>1 DEF FleetInv, InHand
    <2>3. \A d \in Cmd : \A m \in todo[d] : m \in todo'[d] \/ m = number[hand[c]]
        BY <2>1 DEF FleetInv, Typed, Invoked
    <2>4. ASSUME number[hand[c]] \notin shared, NEW a \in Known, Started(a), number[a] = number[hand[c]]
          PROVE  place[a] = "over"
        BY <2>2, <2>4, Unique DEF FleetInv, Started
    <2> QED
        BY <1>1, <2>1, <2>3, <2>4
<1>5. ASSUME NEW c \in Cmd, ResetAsk(c) \/ ResetAnswered(c) \/ DeleteCred(c) PROVE StopInv'
    <2>1. script[c].kind # "stop"
        <3>1. script[c].kind = "reset" \/ at[c] \in {"answer", "delete"}
            BY <1>5 DEF ResetAsk, ResetAnswered, DeleteCred, Begins, Step
        <3> QED
            BY <3>1 DEF FleetInv, Typed, Invoked
    <2>2. UNCHANGED listed /\ \A d \in Cmd \ {c} : todo'[d] = todo[d]
        BY <1>5 DEF ResetAsk, ResetAnswered, DeleteCred, history, FleetInv, Typed, Invoked
    <2> QED
        BY <1>1, <2>1, <2>2
<1>6. ASSUME UNCHANGED <<todo, listed>> PROVE StopInv'
    BY <1>1, <1>6
<1>7. ASSUME NEW c \in Cmd, Run(c) PROVE UNCHANGED <<todo, listed>>
    BY <1>7 DEF Run, Preflight, PickNumber, Register, Save, Seed, More, Prepare, SpawnForeground,
       SpawnBackground, SpawnFails, WritePid, Summary, Waited, RunFails, GivesUp, NoHub, history
<1>8. ASSUME NEW c \in Cmd, Kill(c) \/ DeleteLogs(c) \/ Up(c) \/ Poll(c) \/ Down(c) \/ Interrupt(c)
      PROVE UNCHANGED <<todo, listed>>
    BY <1>8 DEF Kill, DeleteLogs, Up, Poll, Down, Interrupt, history
<1>9. ASSUME (\E a \in Agent : AgentEnds(a)) \/ HubReady \/ Done \/ UNCHANGED fleetVars
      PROVE UNCHANGED <<todo, listed>>
    BY <1>9 DEF AgentEnds, HubReady, Done, fleetVars, history
<1> QED
    BY <1>2, <1>3, <1>4, <1>5, <1>6, <1>7, <1>8, <1>9 DEF FleetNext, Stop, Reset

\* A stop that went through its list has ended every agent the pid files named
\* when it began, whatever was launched, stopped or reset meanwhile.
THEOREM StopsAreHeld == FleetSpec => []StopStops
<1>1. FleetInit => StopInv
    BY DEF FleetInit, StopInv
<1>2. StopInv => StopStops
    BY DEF StopInv, StopStops
<1> QED
    BY <1>1, <1>2, FleetStarts, FleetStep, StopStep, PTL DEF FleetSpec
=============================================================================
