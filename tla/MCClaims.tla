------------------------------ MODULE MCClaims ------------------------------
(* A claim that runs out within the minute, a direction with its hypothesis  *)
(* and a sampled survey, by two agents, with an atom that may be retracted.  *)
EXTENDS Claims, TLC

CONSTANTS a1, a2, x1, h, c1, d1, s1

mcAgent == {a1, a2}
mcAtom == {x1, h}
mcOld == {x1}
mcDoomed == {x1}
mcWeight == (x1 :> 2) @@ (h :> 1)
mcFresh == {h}
mcRequest == {c1, d1, s1}
mcKind == (c1 :> "claim") @@ (d1 :> "direction") @@ (s1 :> "survey")
mcBy == (c1 :> a1) @@ (d1 :> a2) @@ (s1 :> a1)
mcOn == (c1 :> x1) @@ (d1 :> h) @@ (s1 :> x1)
mcTtl == (c1 :> 0) @@ (d1 :> 0) @@ (s1 :> 0)
=============================================================================
