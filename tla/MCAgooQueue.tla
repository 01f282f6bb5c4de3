----------------------------- MODULE MCAgooQueue -----------------------------
(***************************************************************************)
(* Instances of AgooQueue for TLC.  The server makes three kinds of queue  *)
(* (server.c:44-45, con.c:1404):                                           *)
(*   MCEvalQueue  several pushers and several eval threads,                *)
(*   MCConQueue   the listen thread and several connection loops,          *)
(*   MCPubQueue   several eval threads and one connection loop.            *)
(* Four slots are the least agoo_queue_multi_init allows.                  *)
(***************************************************************************)
EXTENDS AgooQueue
=============================================================================
