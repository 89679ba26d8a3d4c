----------------------------- MODULE MCPrewarm -----------------------------
(***************************************************************************)
(* Model checking of Prewarm: one background caller, a user who speaks     *)
(* twice, one reduction that rewrites, one change of the settings or fork. *)
(***************************************************************************)
EXTENDS Prewarm

MCAuto == {TRUE, FALSE}
=============================================================================
