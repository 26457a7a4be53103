----------------------------- MODULE MCAimShoot -----------------------------
(***************************************************************************)
(* The two sides of AimContract, the aimer that implements it and the      *)
(* shooter that relies on it, checked in one run.  A behaviour is one of   *)
(* either: while one moves, the other stays as it is at the start.  Yaws   *)
(* are far enough apart to be out of each tolerance.                       *)
(***************************************************************************)
EXTENDS MCAimer, Shooter

YawValues == -2 .. 3
OffsetValues == {0, 1}
ToleranceValues == {1, 2}

VARIABLE moving   \* "aimer" or "shooter"

both == <<vars, shootervars, moving>>

AimerMoves(step) == moving = "aimer" /\ step /\ UNCHANGED <<shootervars, moving>>
ShooterMoves(step) == moving = "shooter" /\ step /\ UNCHANGED <<vars, moving>>

\* The gimbal of a shooter at rest is away from its command.
BothInit ==
  /\ Init /\ ShooterInit
  /\ \/ moving = "aimer" /\ gimbal = -2 /\ tolerance = 1 /\ ~valid
     \/ moving = "shooter" /\ ~point.valid /\ base.spin = 0

BothNext == AimerMoves(Next) \/ ShooterMoves(ShooterNext)

\* The fairness of FairSpec and ShooterFairSpec, each for the one that moves.
BothSpec ==
  /\ BothInit /\ [][BothNext]_both
  /\ WF_both(AimerMoves(Iterate))
  /\ WF_both(ShooterMoves(Command)) /\ WF_both(ShooterMoves(Shoot))
=============================================================================
