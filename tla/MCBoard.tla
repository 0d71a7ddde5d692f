------------------------------ MODULE MCBoard -------------------------------
(* One atom from the start, two equal atoms published singly under it, a    *)
(* batch of two with an edge of its own, a project with a file.             *)
EXTENDS BoardLineage, TLC

CONSTANTS o, x1, x2, b1, b2, r1, r2, r3, p1, d1, u1

mcAtom == {o, x1, x2, b1, b2}
mcOld == {o}
mcDoomed == {o, x1}
mcContent == (o :> 0) @@ (x1 :> 1) @@ (x2 :> 1) @@ (b1 :> 2) @@ (b2 :> 3)
mcProject == {p1}
mcWanted == (o :> p1) @@ (x1 :> p1) @@ (x2 :> NoProject) @@ (b1 :> p1) @@ (b2 :> NoProject)
mcRequest == {r1, r2, r3}
mcBatch == (r1 :> <<x1>>) @@ (r2 :> <<x2>>) @@ (r3 :> <<b1, b2>>)
mcSingle == {r1, r2}
mcProvenance == (r1 :> <<<<x1, o>>>>) @@ (r2 :> <<<<x2, o>>>>) @@ (r3 :> <<<<b1, o>>, <<b2, x1>>>>)
mcExplicit == (r1 :> <<>>) @@ (r2 :> <<>>)
                @@ (r3 :> <<<<o, o, "replicates">>, <<x1, o, "derived_from">>,
                           <<o, x1, "contradicts">>>>)
mcDeletion == {d1}
mcTarget == d1 :> p1
mcUpload == {u1}
mcInto == u1 :> p1
mcCrowds == {{r1, r2}, {r1, r3}, {r1, d1}, {r3, d1, u1}}
=============================================================================
