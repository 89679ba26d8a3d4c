-------------------------- MODULE MCForegroundRun --------------------------
(***************************************************************************)
(* Model checking of ForegroundRun.  Two ids for main calls: an aborted    *)
(* call may still be closing while the next run makes its own.             *)
(***************************************************************************)
EXTENDS ForegroundRun

CONSTANTS m1, m2
=============================================================================
