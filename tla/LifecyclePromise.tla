-------------------------- MODULE LifecyclePromise --------------------------
(***************************************************************************)
(* What the lifecycle column promises its readers (survey, the metrics,    *)
(* the web UI) while evidence accumulates: which changes it may make, and  *)
(* on what evidence, as it stands at the moment of the change.  Lifecycle  *)
(* implements it.                                                          *)
(***************************************************************************)
EXTENDS Evidence

CONSTANTS
    ReplicatedAt,  \* replications that make an atom replicated (1)
    CoreAt         \* replications that make it core (3)

ASSUME PromiseAssumption ==
    /\ ReplicatedAt \in Nat \ {0}
    /\ CoreAt \in Nat
    /\ ReplicatedAt <= CoreAt

VARIABLE lifecycle     \* [Atom -> State]

State == {"provisional", "replicated", "core", "contested", "resolved", "retracted"}

\* The evidence a state rests on.  Disagreement is not part of it: the column
\* may have fallen since it was read.
Backed(a, s) ==
    /\ s = "replicated" => repl[a] >= ReplicatedAt
    /\ s \in {"core", "resolved"} => repl[a] >= CoreAt
    /\ s = "contested" => contradictsRows[a] > 0

Diagram == {<<"provisional", "replicated">>, <<"replicated", "core">>,
            <<"provisional", "contested">>, <<"replicated", "contested">>,
            <<"contested", "resolved">>}

\* A step of the diagram.
Progress(a, s) ==
    /\ <<lifecycle[a], s>> \in Diagram
    /\ Backed(a, s)

\* The author withdraws the atom.
Withdraw(a, s) == s = "retracted"

\* A transition decided before a withdrawal and written after it.
Revive(a, s) ==
    /\ lifecycle[a] = "retracted"
    /\ s \notin {"provisional", "retracted"}
    /\ Backed(a, s)

Change ==
    \E a \in Atom, s \in State :
        /\ Progress(a, s) \/ Withdraw(a, s) \/ Revive(a, s)
        /\ lifecycle' = [lifecycle EXCEPT ![a] = s]
        /\ UNCHANGED evidence

PromiseInit ==
    /\ EvidenceInit
    /\ lifecycle = [a \in Atom |-> "provisional"]

\* An agent asserts an edge of its own (handle_publish_atoms): a row, with no
\* disagreement.  A replicates edge so asserted is a LinkReplication.
AssertContradiction(a, b) ==
    /\ contradictsRows' = [contradictsRows EXCEPT ![a] = @ + 1, ![b] = @ + 1]
    /\ UNCHANGED <<replicatesIn, repl, dis>>

Asserted == \E a, b \in Atom : a # b /\ AssertContradiction(a, b)

Environment == EvidenceNext \/ Asserted

PromiseNext ==
    \/ Environment /\ UNCHANGED lifecycle
    \/ Change

PromiseSpec == PromiseInit /\ [][PromiseNext]_<<evidence, lifecycle>>
=============================================================================
