---------------------------- MODULE MCLifecycle ----------------------------
(***************************************************************************)
(* Instances of Lifecycle: atom a gathers as much evidence as its bounds   *)
(* allow, atom b is its rival in a contradiction.                          *)
(***************************************************************************)
EXTENDS Lifecycle

CONSTANTS a, b, MaxRows

\* b gathers no replication.
OnlyA(n) == [x \in Atom |-> IF x = a THEN n ELSE 0]

Three == OnlyA(3)
Five  == OnlyA(5)

Rows == [x \in Atom |-> MaxRows]

\* a's disagreement on either side of the threshold.
LevelsOfA == [x \in Atom |-> IF x = a THEN {40, 60} ELSE {}]
=============================================================================
