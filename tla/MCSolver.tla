------------------------------ MODULE MCSolver ------------------------------
(***************************************************************************)
(* A turn of 14 units and a range of 10, of which candidates are 3 apart:  *)
(* they cross the back from some directions, and the range is no multiple  *)
(* of a step.  Errors: two below the limit, and one at it.                 *)
(***************************************************************************)
EXTENDS Solver
=============================================================================
