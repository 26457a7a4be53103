-------------------------- MODULE TrackingContract --------------------------
(***************************************************************************)
(* What the tracker promises its callers, frame by frame.  A target is     *)
(* followed from its first sighting; the tracker is engaged with it only   *)
(* after Confirm sightings in consecutive frames, stays engaged through at *)
(* most Patience consecutive frames without one, and may give the target   *)
(* up at any time.  It never passes from one target to another without     *)
(* starting over, and it answers with the target it follows or nothing.    *)
(***************************************************************************)
EXTENDS Naturals

CONSTANTS Robots, Nobody, Confirm, Patience

VARIABLES phase,    \* "lost", "acquiring" or "engaged"
          who,      \* the robot followed, Nobody when lost
          hits,     \* consecutive sightings while acquiring
          misses,   \* consecutive frames without a sighting while engaged
          answer    \* what the last finished frame returned

cvars == <<phase, who, hits, misses, answer>>

Init ==
  /\ phase = "lost" /\ who = Nobody
  /\ hits = 0 /\ misses = 0 /\ answer = {}

Acquire ==
  /\ phase = "lost"
  /\ \E robot \in Robots : who' = robot /\ answer' = {robot}
  /\ phase' = "acquiring" /\ hits' = 1
  /\ UNCHANGED misses

Confirmed ==
  /\ phase = "acquiring"
  /\ IF hits + 1 < Confirm
     THEN phase' = phase /\ hits' = hits + 1
     ELSE phase' = "engaged" /\ hits' = 0
  /\ answer' = {who}
  /\ UNCHANGED <<who, misses>>

Seen ==
  /\ phase = "engaged"
  /\ misses' = 0 /\ answer' = {who}
  /\ UNCHANGED <<phase, who, hits>>

Missed ==
  /\ phase = "engaged" /\ misses < Patience
  /\ misses' = misses + 1 /\ answer' = {who}
  /\ UNCHANGED <<phase, who, hits>>

GiveUp ==
  /\ phase' = "lost" /\ who' = Nobody
  /\ hits' = 0 /\ misses' = 0
  /\ answer' \in {answer, {}}

Next == Acquire \/ Confirmed \/ Seen \/ Missed \/ GiveUp

Spec == Init /\ [][Next]_cvars
=============================================================================
