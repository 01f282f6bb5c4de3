------------------------------ MODULE MCHttpCon ------------------------------
(***************************************************************************)
(* Instances of HttpCon for TLC: connections that stay open under faults,  *)
(* connections a client asks to close, requests with early hints, and the  *)
(* faults the connections do not cope with.                                *)
(***************************************************************************)
EXTENDS HttpCon
=============================================================================
