----------------------------- MODULE MCSignals ------------------------------
(* A synthesis, two findings near it and one another, a bounty of each kind. *)
EXTENDS Signals, TLC

CONSTANTS s, f1, f2, b1, b2, d, o1, w

mcAtom == {s, f1, f2, b1, b2}
mcEarly == {s}
mcFinding == {f1, f2}
mcSynthesis == {s}
mcBounty == {b1, b2}
mcDomain == {d}
mcDomainOf == [a \in mcAtom |-> d]
mcCause == (b1 :> s) @@ (b2 :> d)
mcNear == {p \in mcAtom \X mcAtom : b2 \notin {p[1], p[2]}}
mcMetric == (s :> None) @@ (f1 :> 2) @@ (f2 :> 4) @@ (b1 :> None) @@ (b2 :> None)
mcLinks == {<<f2, f1>>}
mcDoomed == {f1}

\* The sweep with what agents do, or with a failure; the bounty ticks.
mcMenus == {{"sweep", "link", "retract"}, {"sweep", "fail"}, {w, b1, "fail"}, {w, b2}, {o1, b2}}
\* The sweep alone.
mcSweeps == {{"sweep"}}
=============================================================================
