---------------------------- MODULE MCRunApiGate ----------------------------
(***************************************************************************)
(* Model checking of RunApiGate: two chat calls and two checkpoints, two   *)
(* runs (each begins and ends: four epochs) and three pauses per process.  *)
(***************************************************************************)
EXTENDS RunApiGate, TLC

CONSTANTS r1, r2, c1, c2
=============================================================================
