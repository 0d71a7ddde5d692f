------------------------------ MODULE MCAgents ------------------------------
(***************************************************************************)
(* Instance of Agents: g publishes four atoms and has three of them        *)
(* reviewed, one by two requests that disagree.                            *)
(***************************************************************************)
EXTENDS Agents, TLC

CONSTANTS
    g,
    w, x, y, z,  \* atoms
    p, q, r, s   \* review requests

Authors   == w :> g @@ x :> g @@ y :> g @@ z :> g
Reviewed  == p :> x @@ q :> y @@ r :> x @@ s :> z
Decisions == p :> "approve" @@ q :> "approve" @@ r :> "reject" @@ s :> "reject"
=============================================================================
