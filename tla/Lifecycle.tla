----------------------------- MODULE Lifecycle -----------------------------
(***************************************************************************)
(* The LifecycleWorker, and the requests that retract, ban and unban.      *)
(*                                                                         *)
(* A sweep reads all candidate atoms with their evidence in one SELECT;    *)
(* then, atom by atom, it reads the current lifecycle for the audit row,   *)
(* writes the new lifecycle, and inserts the audit row: three statements.  *)
(* Evidence accumulates (module Evidence) and requests run in between; the *)
(* process may die and any statement may fail.                             *)
(***************************************************************************)
EXTENDS LifecyclePromise, Sequences

CONSTANTS
    None,
    DisagreementThreshold,  \* percent (config: disagreement_threshold)
    MaxReplications,        \* [Atom -> Nat], bound on replicatesIn
    MaxContradictions,      \* [Atom -> Nat], bound on contradictsRows
    DisagreementLevels,     \* [Atom -> SUBSET 1..100], bound on dis
    MaxRequests,            \* bound: retract, ban and unban requests
    MaxCrashes,             \* bound: process deaths
    MaxFaults               \* bound: statements of the worker that fail

ASSUME LifecycleAssumption ==
    /\ None \notin State
    /\ DisagreementThreshold \in 0..Hundred
    /\ MaxReplications \in [Atom -> Nat]
    /\ MaxContradictions \in [Atom -> Nat]
    /\ DisagreementLevels \in [Atom -> SUBSET (1..Hundred)]
    /\ MaxRequests \in Nat
    /\ MaxCrashes \in Nat
    /\ MaxFaults \in Nat

VARIABLES
    retracted,    \* the atoms whose retracted flag is set
    banned,       \* the atoms whose ban_flag is set
    audit,        \* [Atom -> Seq(State \X State)]: lifecycle_transitions
    pc,           \* where the worker is
    rows,         \* what is left of a sweep: <<atom, new lifecycle>>
    cur,          \* the row apply_transition works on, or <<>>
    old,          \* the lifecycle it read for the audit row, or None
    requests, crashes, faults

workerVars == <<pc, rows, cur, old>>
boundVars  == <<requests, crashes, faults>>
vars == <<evidence, lifecycle, retracted, banned, audit, workerVars, boundVars>>

Swept == {"provisional", "replicated", "contested"}

Init ==
    /\ PromiseInit
    /\ retracted = {}
    /\ banned = {}
    /\ audit = [a \in Atom |-> <<>>]
    /\ pc = "loop"
    /\ rows = {}
    /\ cur = <<>>
    /\ old = None
    /\ requests = 0
    /\ crashes = 0
    /\ faults = 0

---------------------------------------------------------------------------
(* The environment: evidence, within the bounds of the instance.           *)

WithinBounds ==
    \A a \in Atom : /\ replicatesIn[a] <= MaxReplications[a]
                    /\ contradictsRows[a] <= MaxContradictions[a]

Gather ==
    /\ \/ \E a \in Atom : LinkReplication(a) \/ CountReplication(a)
       \/ \E a \in Atom : \E d \in DisagreementLevels[a] : Disagree(a, d)
       \/ \E a, b \in Atom : a # b /\ LinkContradiction(a, b)
       \/ Asserted
    /\ WithinBounds'
    /\ UNCHANGED <<lifecycle, retracted, banned, audit, workerVars, boundVars>>

---------------------------------------------------------------------------
(* The worker.                                                             *)

ActiveContradiction(a) == contradictsRows[a] > 0 /\ dis[a] > DisagreementThreshold

\* Mutants: an atom replicated often enough is promoted to core from wherever
\* it is; a replicated atom must wait until nothing contradicts it.
EvaluateSkips(a) ==
    {s \in State : \/ lifecycle[a] = "provisional" /\ s = "replicated" /\ repl[a] < CoreAt
                   \/ s = "core" /\ repl[a] >= CoreAt}
EvaluateAnyContradiction(a) ==
    {s \in State : \/ /\ lifecycle[a] = "provisional"
                      /\ s = "replicated"
                      /\ repl[a] >= ReplicatedAt
                   \/ /\ lifecycle[a] = "replicated"
                      /\ s = "core"
                      /\ contradictsRows[a] = 0
                      /\ repl[a] >= CoreAt}

\* LifecycleEvaluator::evaluate: the transitions an atom is due, at most one.
Evaluate(a) ==
    {s \in State :
        \/ /\ lifecycle[a] \in {"provisional", "replicated"}
           /\ s = "contested"
           /\ ActiveContradiction(a)
        \/ /\ lifecycle[a] = "provisional"
           /\ s = "replicated"
           /\ ~ActiveContradiction(a)
           /\ repl[a] >= ReplicatedAt
        \/ /\ lifecycle[a] = "replicated"
           /\ s = "core"
           /\ ~ActiveContradiction(a)
           /\ repl[a] >= CoreAt
        \/ /\ lifecycle[a] = "contested"
           /\ s = "resolved"
           /\ repl[a] >= CoreAt
           /\ replicatesIn[a] > 2 * contradictsRows[a]}

\* Mutant: the sweep looks at replicates rows, counted or not.
SweepUncounted ==
    /\ pc = "loop"
    /\ rows = {}
    /\ rows' = {r \in (Atom \ retracted) \X {"replicated"} :
                   /\ lifecycle[r[1]] = "provisional"
                   /\ replicatesIn[r[1]] >= ReplicatedAt}
    /\ UNCHANGED <<evidence, lifecycle, retracted, banned, audit, pc, cur, old, boundVars>>

\* run_lifecycle_sweep: one SELECT, evaluated row by row later on; rows that
\* are due nothing are of no consequence.
Sweep ==
    /\ pc = "loop"
    /\ rows = {}
    /\ rows' = {r \in (Atom \ retracted) \X State :
                   lifecycle[r[1]] \in Swept /\ r[2] \in Evaluate(r[1])}
    /\ UNCHANGED <<evidence, lifecycle, retracted, banned, audit, pc, cur, old, boundVars>>

\* apply_transition: the lifecycle the atom has now, for the audit row only.
ReadOld ==
    /\ pc = "loop"
    /\ \E r \in rows :
         /\ cur' = r
         /\ rows' = rows \ {r}
         /\ old' = lifecycle[r[1]]
    /\ pc' = "update"
    /\ UNCHANGED <<evidence, lifecycle, retracted, banned, audit, boundVars>>

NextRow ==
    /\ pc' = "loop"
    /\ cur' = <<>>
    /\ old' = None
    /\ UNCHANGED rows

\* UPDATE atoms SET lifecycle = $1 WHERE atom_id = $2, with no other guard.
UpdateLifecycle ==
    /\ pc = "update"
    /\ lifecycle' = [lifecycle EXCEPT ![cur[1]] = cur[2]]
    /\ IF old = None THEN NextRow
                     ELSE pc' = "audit" /\ UNCHANGED <<rows, cur, old>>
    /\ UNCHANGED <<evidence, retracted, banned, audit, boundVars>>

\* Mutant: the audit row is written with what the atom has become.
RecordWithNew ==
    /\ pc = "audit"
    /\ audit' = [audit EXCEPT ![cur[1]] = Append(@, <<lifecycle[cur[1]], cur[2]>>)]
    /\ NextRow
    /\ UNCHANGED <<evidence, lifecycle, retracted, banned, boundVars>>

\* record_transition.
RecordTransition ==
    /\ pc = "audit"
    /\ audit' = [audit EXCEPT ![cur[1]] = Append(@, <<old, cur[2]>>)]
    /\ NextRow
    /\ UNCHANGED <<evidence, lifecycle, retracted, banned, boundVars>>

---------------------------------------------------------------------------
(* Requests.                                                               *)

\* handle_retract, by the author, whatever state the atom is in.
Retract(a) ==
    /\ lifecycle' = [lifecycle EXCEPT ![a] = "retracted"]
    /\ retracted' = retracted \cup {a}
    /\ UNCHANGED <<banned, audit>>

\* retract_atom, the older interface's: the flag alone.
RetractAtom(a) ==
    /\ retracted' = retracted \cup {a}
    /\ UNCHANGED <<lifecycle, banned, audit>>

BanAtom(a) ==
    /\ retracted' = retracted \cup {a}
    /\ banned' = banned \cup {a}
    /\ UNCHANGED <<lifecycle, audit>>

\* unban_atom clears both flags, whoever set them.
UnbanAtom(a) ==
    /\ retracted' = retracted \ {a}
    /\ banned' = banned \ {a}
    /\ UNCHANGED <<lifecycle, audit>>

Request ==
    /\ requests < MaxRequests
    /\ requests' = requests + 1
    /\ \E a \in Atom : Retract(a) \/ RetractAtom(a) \/ BanAtom(a) \/ UnbanAtom(a)
    /\ UNCHANGED <<evidence, workerVars, crashes, faults>>

---------------------------------------------------------------------------
(* Failures.                                                               *)

\* A failed read leaves no `from' (and the UPDATE goes ahead without an audit
\* row); a failed UPDATE ends the row; a failed audit INSERT is logged.
WorkerFault ==
    /\ faults < MaxFaults
    /\ faults' = faults + 1
    /\ \/ pc = "update" /\ old # None /\ old' = None /\ UNCHANGED <<pc, rows, cur>>
       \/ pc \in {"update", "audit"} /\ NextRow
    /\ UNCHANGED <<evidence, lifecycle, retracted, banned, audit, requests, crashes>>

Crash ==
    /\ crashes < MaxCrashes
    /\ crashes' = crashes + 1
    /\ pc' = "loop"
    /\ rows' = {}
    /\ cur' = <<>>
    /\ old' = None
    /\ UNCHANGED <<evidence, lifecycle, retracted, banned, audit, requests, faults>>

---------------------------------------------------------------------------
Worker == Sweep \/ ReadOld \/ UpdateLifecycle \/ RecordTransition

Next ==
    \/ Gather
    \/ Worker
    \/ Request
    \/ WorkerFault
    \/ Crash

Spec == Init /\ [][Next]_vars

\* The task runs for as long as the process does, its interval always ticks.
FairSpec == Spec /\ WF_vars(Worker)

---------------------------------------------------------------------------
TypeOK ==
    /\ EvidenceTypeOK
    /\ lifecycle \in [Atom -> State]
    /\ retracted \subseteq Atom
    /\ banned \subseteq retracted
    /\ audit \in [Atom -> Seq(State \X State)]
    /\ pc \in {"loop", "update", "audit"}
    /\ rows \subseteq Atom \X State
    /\ cur \in (Atom \X State) \cup {<<>>}
    /\ (cur = <<>>) = (pc = "loop")
    /\ old \in State \cup {None}
    /\ pc = "audit" => old # None
    /\ requests \in 0..MaxRequests
    /\ crashes \in 0..MaxCrashes
    /\ faults \in 0..MaxFaults

---------------------------------------------------------------------------
(* What holds.                                                             *)

\* However stale the row it was decided on, the lifecycle an atom shows rests
\* on evidence it has: evidence only accumulates between the SELECT and the
\* UPDATE (run_lifecycle_sweep, apply_transition).
LifecycleBacked == \A a \in Atom : Backed(a, lifecycle[a])

\* The worker and the requests make no change but those LifecyclePromise
\* allows: the diagram's, a withdrawal, or a revival.
KeepsPromise == PromiseSpec

\* With no crash or failed statement the audit table of an atom is a path
\* from provisional to the lifecycle it shows, once the row in hand is
\* recorded, however requests and sweeps interleave; only a withdrawal is a
\* step it does not show (apply_transition, record_transition).
AuditIsPath ==
    crashes + faults = 0 =>
        \A a \in Atom :
            ~(pc = "audit" /\ cur[1] = a) =>
                LET path == audit[a]
                    at(i) == IF i = 0 THEN "provisional" ELSE path[i][2]
                IN  /\ \A i \in DOMAIN path : path[i][1] \in {at(i - 1), "retracted"}
                    /\ lifecycle[a] \in {at(Len(path)), "retracted"}

\* Crashes and failed statements cost audit rows, but no row is invented: each
\* is a step of the diagram or leaves "retracted".
AuditIsHonest ==
    \A a \in Atom : \A i \in DOMAIN audit[a] :
        audit[a][i] \in Diagram \/ audit[a][i][1] = "retracted"

\* An atom replicated CoreAt times gets past "replicated", in two sweeps if
\* need be, unless it is withdrawn or banned.
Crystallises ==
    \A a \in Atom : (repl[a] >= CoreAt) ~>
        (lifecycle[a] \notin {"provisional", "replicated"} \/ a \in retracted)

---------------------------------------------------------------------------
(* What the documentation says and the code does not do.                   *)

\* src/domain/lifecycle.rs:92: Core, Resolved and Retracted are terminal.
RetractedTerminal ==
    [][\A a \in Atom : lifecycle[a] = "retracted" => lifecycle'[a] = "retracted"]_vars

=============================================================================
