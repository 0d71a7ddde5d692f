------------------------------ MODULE Evidence ------------------------------
(***************************************************************************)
(* What the rest of the hub may rely on about the evidence the embedding   *)
(* worker gathers on each atom: the replicates rows that point at it, its  *)
(* repl_exact counter, the contradicts rows it is an end of, and its       *)
(* ph_disagreement column.  Evidence only accumulates, the counter never   *)
(* runs ahead of the rows, and contradicts rows come in pairs, after a     *)
(* disagreement.                                                           *)
(* EmbeddingQueue implements this module; Lifecycle has it as environment. *)
(***************************************************************************)
EXTENDS Pheromone

CONSTANT Atom

VARIABLES
    replicatesIn,    \* [Atom -> Nat]: replicates rows that point at the atom
    repl,            \* [Atom -> Nat]: the repl_exact column
    contradictsRows, \* [Atom -> Nat]: contradicts rows with the atom at an end
    dis              \* [Atom -> 0..100]: the ph_disagreement column

evidence == <<replicatesIn, repl, contradictsRows, dis>>

NoEvidence == [a \in Atom |-> 0]

EvidenceInit ==
    /\ replicatesIn = NoEvidence
    /\ repl = NoEvidence
    /\ contradictsRows = NoEvidence
    /\ dis = NoEvidence

\* A replication becomes visible as a row ...
LinkReplication(a) ==
    /\ replicatesIn' = [replicatesIn EXCEPT ![a] = @ + 1]
    /\ UNCHANGED <<repl, contradictsRows, dis>>

\* ... and is counted afterwards, once at most.
CountReplication(a) ==
    /\ repl[a] < replicatesIn[a]
    /\ repl' = [repl EXCEPT ![a] = @ + 1]
    /\ UNCHANGED <<replicatesIn, contradictsRows, dis>>

\* The older atom of a contradiction shows a disagreement ...
Disagree(a, d) ==
    /\ dis' = [dis EXCEPT ![a] = d]
    /\ UNCHANGED <<replicatesIn, repl, contradictsRows>>

\* ... before both rows of the pair appear.
LinkContradiction(a, b) ==
    /\ dis[a] > 0
    /\ contradictsRows' = [contradictsRows EXCEPT ![a] = @ + 2, ![b] = @ + 2]
    /\ UNCHANGED <<replicatesIn, repl, dis>>

EvidenceNext ==
    \/ \E a \in Atom : LinkReplication(a) \/ CountReplication(a)
    \/ \E a \in Atom, d \in 1..Hundred : Disagree(a, d)
    \/ \E a, b \in Atom : a # b /\ LinkContradiction(a, b)

EvidenceTypeOK ==
    /\ replicatesIn \in [Atom -> Nat]
    /\ repl \in [Atom -> Nat]
    /\ contradictsRows \in [Atom -> Nat]
    /\ dis \in [Atom -> 0..Hundred]

EvidenceSpec == EvidenceInit /\ [][EvidenceNext]_evidence
=============================================================================
