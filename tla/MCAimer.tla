------------------------------ MODULE MCAimer ------------------------------
(***************************************************************************)
(* Angles in steps of 18 degrees: the plates of a robot are five or ten    *)
(* steps apart, and with four plates two of them may be within 60 degrees. *)
(* The outpost's angles are those of config/auto_aim.toml (comming_angle   *)
(* 180, leaving_angle 0).                                                  *)
(***************************************************************************)
EXTENDS Aimer

SpinValues == {-2, 0, 2}
AgeValues == {0}
FlyValues == {1, 2}

\* A robot with four plates, one with two, the outpost, and a robot of which
\* one plate has been seen so far.
TargetValues ==
  {t \in [outpost : BOOLEAN, plates : {2, 4}, jumped : BOOLEAN,
          angle : 0 .. Turn - 1, spin : SpinValues] :
     /\ t.outpost => t.plates = 4
     /\ ~t.jumped => t.angle = 0 /\ t.plates = 4 /\ ~t.outpost}
=============================================================================
