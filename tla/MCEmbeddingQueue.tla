-------------------------- MODULE MCEmbeddingQueue --------------------------
(***************************************************************************)
(* The instance of EmbeddingQueue: two findings near one another, of       *)
(* comparable conditions, which is where the worker has most to do.        *)
(***************************************************************************)
EXTENDS EmbeddingQueue

CONSTANTS a, b

AllPairs == {p \in Atom \X Atom : p[1] # p[2]}

Findings == [x \in Atom |-> "finding"]

\* Inside the band where both tests fire: 88 against 100.
Band     == [x \in Atom |-> IF x = a THEN {88} ELSE {100}]

Warn40   == [p \in Near |-> 40]

BFromA   == [x \in Atom |-> IF x = b THEN {a} ELSE {}]

\* The encoder takes every atom, or rejects the older one.
NoneOrA  == {{}, {a}}
=============================================================================
