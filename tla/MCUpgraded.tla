----------------------------- MODULE MCUpgraded -----------------------------
(***************************************************************************)
(* Instances of Upgraded for TLC.                                          *)
(***************************************************************************)
EXTENDS Upgraded, TLC

CONSTANTS u1, u2, l1, l2

\* Each connection in a loop of its own, both in one loop.
OwnLoops == u1 :> l1 @@ u2 :> l2
OneLoop == [u \in Ups |-> l1]

\* A WebSocket and an SSE connection, and one kind only.
BothProtos == u1 :> "ws" @@ u2 :> "sse"
AllWs == [u \in Ups |-> "ws"]
AllSse == [u \in Ups |-> "sse"]
=============================================================================
