----------------------------- MODULE MCGateway -----------------------------
(***************************************************************************)
(* Model checking of Gateway alone: two clients of the menu, two sockets.  *)
(***************************************************************************)
EXTENDS Gateway
=============================================================================
