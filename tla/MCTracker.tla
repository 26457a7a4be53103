------------------------------ MODULE MCTracker ------------------------------
(***************************************************************************)
(* Small instances of Tracker: one four-armor and one two-armor robot, two *)
(* armors a frame, a window of five tests (so two failures are the limit), *)
(* three sightings to confirm and two frames of patience.                  *)
(***************************************************************************)
EXTENDS Tracker

CONSTANTS hero, balance

MCKinds == {hero, balance}
MCBalanceKinds == {balance}
=============================================================================
