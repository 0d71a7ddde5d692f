---------------------------- MODULE MCArtifacts ----------------------------
(***************************************************************************)
(* Instance of Artifacts: one body x put as a tree by b and sent inline as *)
(* a blob by a, a blob y that fits a's quota only without x, and a body    *)
(* that is not what its URL says.                                          *)
(***************************************************************************)
EXTENDS Artifacts, TLC

CONSTANTS
    a, b,        \* agents
    x, y,        \* hashes
    p, q, r, s   \* uploads

Agents == p :> b @@ q :> a @@ r :> a @@ s :> b
Names  == p :> x @@ q :> x @@ r :> y @@ s :> x
Bodies == p :> x @@ q :> x @@ r :> y @@ s :> y
Sizes  == x :> 1 @@ y :> 2
=============================================================================
