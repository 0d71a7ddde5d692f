---------------------------- MODULE BoardLineage ----------------------------
(***************************************************************************)
(* What get_lineage and query_cluster find in the graph the board keeps.   *)
(***************************************************************************)
EXTENDS Board, Lineage

CONSTANT MaxDepth   \* bound: the deepest traversal asked for

ASSUME DepthAssumption == MaxDepth \in Nat

\* The answer of get_lineage is complete and exact: its atoms are those at
\* most max_depth hops away along edges of the wanted types, and its edges are
\* all those of the atoms less than max_depth hops away, so that both ends of
\* each are among the atoms.  traverse_bfs finds the same atoms, get_subgraph
\* what its first start reaches, and of two starts nothing that neither reaches.
\* It is judged between requests: each adds to the graph what it was to add.
LineageComplete ==
    (\A q \in crowd : at[q] # "busy") =>
    \A x \in Atom, n \in 0..MaxDepth, types \in {EdgeType, {"derived_from"}} :
        /\ \A direction \in Direction :
            LET found == Traverse(cache, x, direction, n, types)
            IN  /\ found.queue = <<>>
                /\ found.visited = Within(cache, x, direction, n, types)
                /\ found.edges = IF n = 0 THEN {}
                      ELSE UNION {Along(cache, y, direction, types) :
                                  y \in Within(cache, x, direction, n - 1, types)}
                /\ \A e \in found.edges : {e[1], e[2]} \subseteq found.visited
                /\ TraverseBfs(cache, x, direction, n, types) = found.visited \ {x}
        /\ Subgraph(cache, <<x>>, n, types) = Reached(cache, x, "descendants", n, types)
        /\ \A y \in Atom :
            LET found == Subgraph(cache, <<x, y>>, n, types)
                first == Reached(cache, x, "descendants", n, types)
            IN  first \subseteq found /\ found \subseteq first \cup Reached(cache, y, "descendants", n, types)

=============================================================================
