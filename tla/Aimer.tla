------------------------------- MODULE Aimer -------------------------------
(***************************************************************************)
(* Aimer::aim: predict the target to the time of fire, choose a plate, and *)
(* repeat with the predicted time of impact until the time of flight       *)
(* settles.  Angles are integers on a circle of Turn units; time is        *)
(* counted in units in which a spin is a number of angle units.            *)
(***************************************************************************)
EXTENDS Integers, FiniteSets

CONSTANTS Turn,          \* units of a full circle
          Window,        \* the largest angle not above 60 / 57.3 rad
          Coming,        \* comming_angle_
          Leaving,       \* leaving_angle_
          SpeedLimit,    \* decision_speed_
          HighDelay,     \* high_speed_delay_time_
          LowDelay,      \* low_speed_delay_time_
          Ages,          \* times between the frame and now
          FlyTimes,      \* times of flight a solvable trajectory can have
          Targets,       \* the targets that can be handed over
          MaxIter        \* 10 in the code

\* The front target: of its state only what choose_aim_point looks at; angle
\* is x[6] seen from the line to the centre, the yaw of plate 0.
TargetType ==
  [outpost : BOOLEAN,
   plates  : {2, 4},
   jumped  : BOOLEAN,
   angle   : 0 .. Turn - 1,
   spin    : Int]

ASSUME AimerAssumption ==
  /\ Turn \in Nat \ {0} /\ Window \in Nat /\ Coming \in Nat /\ Leaving \in Int
  /\ SpeedLimit \in Int /\ HighDelay \in Int /\ LowDelay \in Int
  /\ Ages \subseteq Int /\ FlyTimes \subseteq Nat
  /\ MaxIter \in Nat \ {0}
  /\ Turn % 4 = 0 /\ 4 * Window < Turn
  /\ Targets \subseteq TargetType

VARIABLES lock,      \* lock_id_
          point,     \* debug_aim_point: valid, and the plate it is of
          control,   \* control of the command returned last
          phase,     \* "idle", or "aiming" between two iterations
          base,      \* target, as predicted for the time of fire
          fly,       \* prev_fly_time
          iter,
          view       \* the prediction the last plate was chosen from

vars == <<lock, point, control, phase, base, fly, iter, view>>

Abs(n) == IF n < 0 THEN -n ELSE n

\* tools::limit_rad: into the half-open circle (-Turn/2, Turn/2].
limit_rad(a) ==
  LET turned == a % Turn IN IF 2 * turned > Turn THEN turned - Turn ELSE turned

Plates(t) == 0 .. t.plates - 1

\* delta_angle_list[i]
Delta(t, i) == limit_rad(t.angle + i * (Turn \div t.plates))

predict(t, dt) == [t EXCEPT !.angle = (@ + t.spin * dt) % Turn]

\* Only turning one way counts as fast.
delay_time(t) == IF t.spin > SpeedLimit THEN HighDelay ELSE LowDelay

InWindow(t) == {i \in Plates(t) : Abs(Delta(t, i)) <= Window}

First(S) == CHOOSE i \in S : \A j \in S : i <= j

Nearer(t, i, j) == IF Abs(Delta(t, i)) < Abs(Delta(t, j)) THEN i ELSE j

Chosen(id)  == [valid |-> TRUE, id |-> id]
NoPlate     == [valid |-> FALSE, id |-> 0]

\* Lock mode is for every robot but the outpost: the other condition tests
\* |x[8]| <= 2, and x[8] is a radius, below half a metre for every target
\* that the tracker returns (Target::diverged).
UsesLock(t) == ~t.outpost

\* Faulty variant: the lock is kept although its plate has turned away.
LockWithoutCheck(l, t) ==
  LET ids == InWindow(t)
      id0 == First(ids)
      id1 == First(ids \ {id0})
  IN  IF ids = {} THEN [lock |-> l, point |-> NoPlate]
      ELSE IF Cardinality(ids) = 1 THEN [lock |-> l, point |-> Chosen(id0)]
      ELSE LET kept == IF l \in Plates(t) THEN l ELSE Nearer(t, id0, id1)
           IN  [lock |-> kept, point |-> Chosen(kept)]

\* Faulty variant: of two plates in the window the nearer is taken every time.
LockOnNearer(l, t) ==
  LET ids == InWindow(t)
      id0 == First(ids)
      id1 == First(ids \ {id0})
  IN  IF ids = {} THEN [lock |-> l, point |-> NoPlate]
      ELSE IF ids = {id0} THEN [lock |-> -1, point |-> Chosen(id0)]
      ELSE LET near == Nearer(t, id0, id1)
           IN  [lock |-> near, point |-> Chosen(near)]

LockMode(l, t) ==
  LET ids == InWindow(t)
      id0 == First(ids)
      id1 == First(ids \ {id0})
  IN  IF ids = {} THEN [lock |-> l, point |-> NoPlate]
      ELSE IF ids = {id0} THEN [lock |-> -1, point |-> Chosen(id0)]
      ELSE LET kept == IF l \in {id0, id1} THEN l ELSE Nearer(t, id0, id1)
           IN  [lock |-> kept, point |-> Chosen(kept)]

\* Plates that come towards the shooter, by the configured angles.
Led(t) ==
  {i \in Plates(t) :
     /\ Abs(Delta(t, i)) <= Coming
     /\ \/ t.spin > 0 /\ Delta(t, i) < Leaving
        \/ t.spin < 0 /\ Delta(t, i) > -Leaving}

GyroMode(l, t) ==
  [lock |-> l, point |-> IF Led(t) = {} THEN NoPlate ELSE Chosen(First(Led(t)))]

choose_aim_point(l, t) ==
  IF ~t.jumped THEN [lock |-> l, point |-> Chosen(0)]
  ELSE IF UsesLock(t) THEN LockMode(l, t) ELSE GyroMode(l, t)

-----------------------------------------------------------------------------

\* debug_aim_point has no initialiser.
Init ==
  /\ lock = -1
  /\ point \in [valid : BOOLEAN, id : {0}]
  /\ control = FALSE
  /\ phase = "idle"
  /\ base \in {t \in Targets : ~t.jumped}
  /\ view = base
  /\ fly = 0
  /\ iter = 0

\* How a call ends.
Return(p, c) == phase' = "idle" /\ point' = p /\ control' = c

\* Faulty variant: an unsolvable trajectory leaves the point valid.
GiveUpKeepingPoint(choice) == Return(choice.point, FALSE)

\* No plate to aim at, or no trajectory to it.
GiveUp(choice) ==
  \/ ~choice.point.valid /\ Return(choice.point, FALSE)
  \/ choice.point.valid /\ Return([valid |-> FALSE, id |-> choice.point.id], FALSE)

Choose(t) ==
  /\ view' = t
  /\ lock' = choose_aim_point(lock, t).lock

\* aim() with an empty list.
AimAtNothing ==
  /\ phase = "idle"
  /\ control' = FALSE
  /\ UNCHANGED <<lock, point, phase, base, fly, iter, view>>

\* aim() up to its loop.
Aim(target, age) ==
  LET t      == predict(target, age + delay_time(target))
      choice == choose_aim_point(lock, t)
  IN  /\ phase = "idle"
      /\ Choose(t)
      /\ base' = t
      /\ iter' = 0
      /\ \/ GiveUp(choice) /\ UNCHANGED fly
         \/ /\ choice.point.valid
            /\ phase' = "aiming"
            /\ point' = choice.point
            /\ fly' \in FlyTimes
            /\ UNCHANGED control

\* One turn of the loop, which runs until the time of flight settles or the
\* iterations are used up; control is given in both cases.
LoopTurn(count, limit) ==
  LET t      == predict(base, fly)
      choice == choose_aim_point(lock, t)
  IN  /\ phase = "aiming"
      /\ Choose(t)
      /\ iter' = count
      /\ UNCHANGED base
      /\ \/ GiveUp(choice) /\ UNCHANGED fly
         \/ /\ choice.point.valid
            /\ fly' \in FlyTimes
            /\ IF fly' = fly \/ count = limit
               THEN Return(choice.point, TRUE)
               ELSE phase' = phase /\ point' = choice.point /\ UNCHANGED control

\* Faulty variant: iterations are not counted.
IterateUncounted == LoopTurn(iter, MaxIter)

Iterate == LoopTurn(iter + 1, MaxIter)

Next ==
  \/ AimAtNothing
  \/ \E target \in Targets, age \in Ages : Aim(target, age)
  \/ Iterate

Spec == Init /\ [][Next]_vars

(***************************************************************************)
(* A call that has begun runs to its end: there is one thread.             *)
(***************************************************************************)
FairSpec == Spec /\ WF_vars(Iterate)

-----------------------------------------------------------------------------

TypeOK ==
  /\ lock \in -1 .. 3
  /\ point \in [valid : BOOLEAN, id : 0 .. 3]
  /\ control \in BOOLEAN
  /\ phase \in {"idle", "aiming"}
  /\ base \in TargetType /\ view \in TargetType
  /\ fly \in FlyTimes \union {0}
  /\ iter \in 0 .. MaxIter

\* A command with control aims at a plate the robot has, and in lock mode at
\* one that faces the shooter at the predicted time of impact, also when the
\* lock is left over from another prediction or another robot.
AimsAtFacingPlate ==
  control /\ phase = "idle" =>
    /\ point.id \in Plates(view)
    /\ view.jumped /\ UsesLock(view) => Abs(Delta(view, point.id)) <= Window

\* In lock mode a plate is chosen, though a trajectory to it need not exist.
LockModeChoice == view.jumped /\ UsesLock(view) /\ InWindow(view) # {}

\* .planning/phases/06-aim_shoot/06-02-PLAN.md:27: lock mode is "stable armor
\* selection when two armor plates at ~45 degrees".  A plate chosen from two is
\* kept as long as it stays in the window, however near the other one comes, over
\* iterations and calls, and over calls that fail.  One that was alone in the window
\* is kept too, unless the plate that comes into the window is not farther from
\* facing the shooter.
KeepsItsPlate ==
  [][LockModeChoice /\ LockModeChoice' /\ point'.id # point.id
       => \/ point.id \notin InWindow(view')
          \/ /\ InWindow(view) = {point.id}
             /\ Abs(Delta(view', point'.id)) <= Abs(Delta(view', point.id))]_vars

\* What the callers see follows AimContract.
Contract == INSTANCE AimContract WITH valid <- point.valid
ImplementsContract == Contract!Spec

\* The loop always ends.
EveryAimReturns == phase = "aiming" ~> phase = "idle"

\* .planning/phases/06-aim_shoot/06-02-PLAN.md:27: a spinning robot is aimed at
\* by "leading-edge selection based on velocity direction".
SpinningIsLed ==
  control /\ phase = "idle" /\ view.jumped /\ Abs(view.spin) > SpeedLimit
    => point.id \in Led(view)
=============================================================================
