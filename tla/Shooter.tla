------------------------------ MODULE Shooter ------------------------------
(***************************************************************************)
(* Shooter::shoot, called in every frame after Aimer::aim with the command *)
(* that aim returned, the same list of targets and the yaw of the gimbal.  *)
(* Of the aimer it sees what AimContract says.  Yaws are integers, not     *)
(* wrapped around, as the code does not wrap their differences.            *)
(***************************************************************************)
EXTENDS Integers

CONSTANTS Yaws,         \* yaws a command or the gimbal can have
          Offsets,      \* left_yaw_offset_, right_yaw_offset_ less yaw_offset_, and 0
          Tolerances,   \* first_tolerance_ and second_tolerance_
          AutoFire      \* auto_fire_

ASSUME ShooterAssumption ==
  /\ Yaws \subseteq Int /\ 0 \in Yaws /\ Offsets \subseteq Int
  /\ Tolerances \subseteq Int /\ AutoFire \in BOOLEAN

VARIABLES stage, commanded, valid,   \* the aimer: phase, control and valid of AimContract
          turn,       \* "aim" or "shoot", the call the frame comes to next
          listed,     \* whether the frame has targets
          yaw,        \* yaw of the frame's command
          last,       \* yaw of last_command_
          gimbal,     \* the gimbal's yaw in the last call of shoot
          tolerance,  \* and the tolerance for the target's distance
          fired       \* what that call returned

aimer == <<stage, commanded, valid>>
shootervars == <<aimer, turn, listed, yaw, last, gimbal, tolerance, fired>>

A == INSTANCE AimContract WITH phase <- stage, control <- commanded

ShooterInit ==
  /\ A!Init
  /\ turn = "aim"
  /\ listed = FALSE
  /\ yaw = 0
  /\ last = 0
  /\ gimbal \in Yaws
  /\ tolerance \in Tolerances
  /\ fired = FALSE

\* aim() works on a list that is not empty.
Compute ==
  /\ turn = "aim"
  /\ A!Work
  /\ UNCHANGED <<turn, listed, yaw, last, gimbal, tolerance, fired>>

\* aim() returns; with a shoot mode the yaw is shifted even without control.
Command ==
  /\ turn = "aim"
  /\ turn' = "shoot"
  /\ \/ A!Refuse /\ listed' = FALSE
     \/ A!Answer /\ listed' = TRUE
  /\ \E y \in (IF commanded' THEN Yaws ELSE {0}), offset \in Offsets : yaw' = y + offset
  /\ UNCHANGED <<last, gimbal, tolerance, fired>>

Apart(x, y) == IF x < y THEN y - x ELSE x - y

\* Faulty variant: the gimbal may be anywhere on the other side.
OnTargetNoAbs(y, tol) ==
  Apart(last, yaw) < 2 * tol /\ y - last < tol /\ valid

OnTarget(y, tol) ==
  Apart(last, yaw) < 2 * tol /\ Apart(y, last) < tol /\ valid

Considered == commanded /\ listed /\ AutoFire

\* Faulty variant: the command is remembered only when a shot is fired.
ShootRemembering ==
  /\ turn = "shoot"
  /\ turn' = "aim"
  /\ gimbal' \in Yaws
  /\ tolerance' \in Tolerances
  /\ fired' = (Considered /\ OnTarget(gimbal', tolerance'))
  /\ last' = IF fired' THEN yaw ELSE last
  /\ UNCHANGED <<aimer, listed, yaw>>

Shoot ==
  /\ turn = "shoot"
  /\ turn' = "aim"
  /\ gimbal' \in Yaws
  /\ tolerance' \in Tolerances
  /\ fired' = (Considered /\ OnTarget(gimbal', tolerance'))
  /\ last' = IF Considered THEN yaw ELSE last
  /\ UNCHANGED <<aimer, listed, yaw>>

ShooterNext == Compute \/ Command \/ Shoot

ShooterSpec == ShooterInit /\ [][ShooterNext]_shootervars

(***************************************************************************)
(* Frames keep coming and every call returns (Aimer, EveryAimReturns).     *)
(***************************************************************************)
ShooterFairSpec == ShooterSpec /\ WF_shootervars(Command) /\ WF_shootervars(Shoot)

-----------------------------------------------------------------------------

ShooterTypeOK ==
  /\ stage \in {"idle", "aiming"} /\ commanded \in BOOLEAN /\ valid \in BOOLEAN
  /\ turn \in {"aim", "shoot"}
  /\ listed \in BOOLEAN /\ fired \in BOOLEAN
  /\ yaw \in Int /\ last \in Int
  /\ gimbal \in Yaws /\ tolerance \in Tolerances

\* shoot compares the gimbal with the command remembered from an earlier call
\* only, however old, and finds the last aim point valid also when the aim of its
\* frame found no target.  Still a shot is fired only with the control and the valid
\* aim point of a frame that has targets, and with the gimbal near its command.
FiresOnTarget ==
  [][Shoot /\ fired' => /\ commanded /\ listed /\ valid
                       /\ Apart(gimbal', yaw) < 3 * tolerance']_shootervars

\* With the gimbal resting on a command that does not change, every frame fires.
Steady ==
  /\ turn = "shoot" => commanded /\ listed /\ yaw = 1
  /\ gimbal = 1

SteadyAimFires == AutoFire => (<>[]Steady => <>[]fired)
=============================================================================
