-------------------------------- MODULE MCLog --------------------------------
(***************************************************************************)
(* Instances of Log for TLC: two threads that log while Ruby flushes or    *)
(* shuts the logger down, with rotations.                                  *)
(***************************************************************************)
EXTENDS Log
=============================================================================
