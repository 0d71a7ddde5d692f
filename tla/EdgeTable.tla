----------------------------- MODULE EdgeTable -----------------------------
(***************************************************************************)
(* The edges table of Postgres and its in-memory copy, the petgraph of     *)
(* GraphCache.  Both are sets of triples <<source, target, type>>; the     *)
(* table is UNIQUE(source_id, target_id, type), the graph is a DiGraph     *)
(* that the code keeps to one edge per ordered pair, whatever its type.    *)
(***************************************************************************)
EXTENDS Pheromone

CONSTANT Atom

ASSUME AtomFinite == IsFiniteSet(Atom)

EdgeType == {"derived_from", "inspired_by", "contradicts", "replicates",
             "summarizes", "supersedes", "retracts"}

Edge == Atom \X Atom \X EdgeType

---------------------------------------------------------------------------
(* Queries on the table.                                                   *)

\* COUNT(*) of the replicates edges that point at a.
ReplicatesIn(E, a) == Cardinality({b \in Atom : <<b, a, "replicates">> \in E})

\* COUNT(*) of the rows that have a at either end, of the given types.
Touching(E, a, types) ==
    Cardinality({e \in E : (e[1] = a \/ e[2] = a) /\ e[3] \in types})

ContradictsCount(E, a) == Touching(E, a, {"contradicts"})
TotalCount(E, a)       == Touching(E, a, EdgeType)

ContradictsExists(E, a, b) ==
    <<a, b, "contradicts">> \in E \/ <<b, a, "contradicts">> \in E

\* Mutant: every replication looks new.
ReplicatesNeverFound(E, a, b) == FALSE

ReplicatesExists(E, a, b) == <<a, b, "replicates">> \in E

---------------------------------------------------------------------------
(* INSERT ... ON CONFLICT DO NOTHING.                                      *)

InsertRow(E, s, t, ty) == E \cup {<<s, t, ty>>}

\* Mutant: one direction only.
InsertOneWay(E, a, b) == E \cup {<<a, b, "contradicts">>}

\* Both directions of a contradiction, in one statement.
InsertPair(E, a, b) == E \cup {<<a, b, "contradicts">>, <<b, a, "contradicts">>}

---------------------------------------------------------------------------
(* The graph.                                                              *)

\* graph.find_edge(source, target).is_some()
Linked(C, s, t) == \E ty \in EdgeType : <<s, t, ty>> \in C

\* add_edge: refused when the pair already has an edge of any type.
AddEdge(C, s, t, ty) == IF Linked(C, s, t) THEN C ELSE InsertRow(C, s, t, ty)

\* load_from_database: rows come in no particular order and the first row of
\* a pair is the one kept.
Loads(E) ==
    {C \in SUBSET E : \A e \in E : \E f \in C : f[1] = e[1] /\ f[2] = e[2]}
      \cap {C \in SUBSET E :
              \A e, f \in C : e[1] = f[1] /\ e[2] = f[2] => e = f}
=============================================================================
