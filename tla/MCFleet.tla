------------------------------ MODULE MCFleet -------------------------------
(* Three invocations at any time: two runs and a stop or a reset; a run, a  *)
(* stop and a second stop, a reset, an up or a down; a run while the hub    *)
(* goes down and up.                                                       *)
EXTENDS Fleet, TLC
CONSTANTS c1, c2, c3

Invoke(kind, size) == [kind |-> kind, size |-> size]
Three(x, y, z) == c1 :> x @@ c2 :> y @@ c3 :> z
mcScripts ==
    {Three(Invoke("run", 2), Invoke("run", 1), z) :
        z \in {Invoke("stop", 0), Invoke("reset", 0)}}
    \cup {Three(Invoke("run", 2), Invoke("stop", 0), z) :
        z \in {Invoke("stop", 1), Invoke("reset", 0), Invoke("up", 0), Invoke("down", 0)}}
    \cup {Three(Invoke("run", 1), Invoke("down", 0), Invoke("up", 0))}
=============================================================================
