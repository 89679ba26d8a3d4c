------------------------------ MODULE MCRooms ------------------------------
(***************************************************************************)
(* Model checking of Rooms: the two rooms of a REPL with Discord listening *)
(* (A and B of room-types.ts), bound and resuming as by default.           *)
(***************************************************************************)
EXTENDS Rooms

CONSTANTS A, B

DefaultBindings == [s \in Surfaces |-> IF s = "repl" THEN A ELSE B]
=============================================================================
