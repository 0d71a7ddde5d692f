----------------------------- MODULE MCGateway ------------------------------
(* Two connections, one session, one agent and one subscriber; what may      *)
(* happen together is cut into three menus.                                 *)
EXTENDS Gateway

CONSTANTS s1, c1, c2, a1, u1, embed, decay

mcSession == {s1}
mcConn == {c1, c2}
mcAgent == {a1}
mcSubscriber == {u1}
mcWorker == {embed, decay}

\* Sessions with their sweeper, the limiter's windows, a shutdown under load.
mcMenus == {{"clock", "initialize", "initialized", "ping", "call", "delete"},
            {"clock", "rpc"},
            {"rpc", "subscribe", "stop"}}
=============================================================================
