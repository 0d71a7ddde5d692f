------------------------------ MODULE Lineage -------------------------------
(***************************************************************************)
(* The traversals of the graph cache: traverse (get_lineage), get_subgraph *)
(* (query_cluster) and traverse_bfs.  All three take an atom off a queue,  *)
(* look along its edges in a direction and enqueue the atoms they had not  *)
(* visited, one hop further.  A graph is a set of triples, as in EdgeTable.*)
(* A loop is a function from the state of a round to that of the next.     *)
(***************************************************************************)
EXTENDS EdgeTable, Sequences

Seqs == INSTANCE SequencesExt

\* n rounds of a loop.
Iterate(round, start, n) ==
    LET after[i \in Nat] == IF i = 0 THEN start ELSE round[after[i - 1]]
    IN  after[n]

Direction == {"ancestors", "descendants", "both"}

\* "ancestors" are followed against the edges, "descendants" along them.
Along(G, x, direction, types) ==
    {e \in G : /\ e[3] \in types
               /\ \/ e[1] = x /\ direction \in {"descendants", "both"}
                  \/ e[2] = x /\ direction \in {"ancestors", "both"}}

Far(e, x) == IF e[1] = x THEN e[2] ELSE e[1]

\* The atoms one hop from x.
Near(G, x, direction, types) == {Far(e, x) : e \in Along(G, x, direction, types)}

Searching ==
    [queue : Seq([atom : Atom, depth : Nat]), visited : SUBSET Atom, edges : SUBSET Edge]

\* Mutant: the limit is tested a hop late.
VisitLate(G, direction, types, limit, s) ==
    LET x     == Head(s.queue).atom
        depth == Head(s.queue).depth
        here  == IF depth > limit THEN {} ELSE Along(G, x, direction, types)
        fresh == {Far(e, x) : e \in here} \ s.visited
    IN  [queue   |-> Tail(s.queue) \o Seqs!SetToSeq({[atom |-> y, depth |-> depth + 1] : y \in fresh}),
         visited |-> s.visited \cup fresh,
         edges   |-> s.edges \cup here]

\* The neighbours of an atom are enqueued in some order, which changes only
\* the order of the answer.
Visit(G, direction, types, limit, s) ==
    LET x     == Head(s.queue).atom
        depth == Head(s.queue).depth
        here  == IF depth >= limit THEN {} ELSE Along(G, x, direction, types)
        fresh == {Far(e, x) : e \in here} \ s.visited
    IN  [queue   |-> Tail(s.queue) \o Seqs!SetToSeq({[atom |-> y, depth |-> depth + 1] : y \in fresh}),
         visited |-> s.visited \cup fresh,
         edges   |-> s.edges \cup here]

\* The loop runs until the queue is empty.  No atom is enqueued twice, but for
\* the start, so that is after at most one round more than there are atoms.
Search(G, direction, types, limit, s) ==
    Iterate([t \in Searching |-> IF t.queue = <<>> THEN t
                                 ELSE Visit(G, direction, types, limit, t)],
            s, Cardinality(Atom) + 1)

From(x, visited) == [queue |-> <<[atom |-> x, depth |-> 0]>>, visited |-> visited, edges |-> {}]

\* traverse: its nodes are the visited atoms, its edges those looked along.
Traverse(G, x, direction, limit, types) ==
    Search(G, direction, types, limit, From(x, {x}))

\* traverse_bfs returns what it visits but the start.
TraverseBfs(G, x, direction, limit, types) ==
    Traverse(G, x, direction, limit, types).visited \ {x}

Starting == [starts : Seq(Atom), visited : SUBSET Atom]

\* get_subgraph: one search after another; what one visited the next does not.
Subgraph(G, starts, limit, types) ==
    Iterate([t \in Starting |->
                IF t.starts = <<>> THEN t
                ELSE [starts  |-> Tail(t.starts),
                      visited |-> Search(G, "descendants", types, limit,
                                         From(Head(t.starts), t.visited)).visited]],
            [starts |-> starts, visited |-> {}], Len(starts)).visited
-----------------------------------------------------------------------------
(* What they are meant to find.                                             *)

\* A walk of n hops.
IsWalk(w, G, n, direction, types) ==
    /\ w \in [0..n -> Atom]
    /\ \A i \in 1..n : w[i] \in Near(G, w[i - 1], direction, types)

\* The atoms at most n hops from x, hop by hop.
Within(G, x, direction, n, types) ==
    Iterate([S \in SUBSET Atom |-> S \cup UNION {Near(G, y, direction, types) : y \in S}], {x}, n)

\* The atoms reached from x by a hop or more, at most n.
Reached(G, x, direction, n, types) ==
    IF n = 0 THEN {}
    ELSE UNION {Near(G, y, direction, types) : y \in Within(G, x, direction, n - 1, types)}
=============================================================================
