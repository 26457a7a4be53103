------------------------------- MODULE Tracker -------------------------------
(***************************************************************************)
(* app::auto_aim::Tracker: one call of track() after another, each with    *)
(* the armors the detector found in one camera frame.                      *)
(*                                                                         *)
(* track() has a loop in it (update_target updates the filter once for     *)
(* every matching armor), so a call is a sequence of steps: Track is its   *)
(* head up to the branch on the state, SetTarget and UpdateTarget are the  *)
(* two branches, UpdateArmor is one iteration of the loop, and Finish runs *)
(* state_machine, the divergence tests and the return.  pc says which of   *)
(* them is next.  Nothing else runs between the steps: the pipeline is     *)
(* one thread.                                                             *)
(*                                                                         *)
(* Armor::priority is not initialised by any constructor of Armor and not  *)
(* written by the detector or the solver, so its value is arbitrary.       *)
(***************************************************************************)
EXTENDS Target

CONSTANTS MinDetectCount,     \* tracker.min_detect_count
          MaxTempLostCount,   \* tracker.max_temp_lost_count
          Priorities,         \* values the uninitialised priority can have
          Distances,          \* distances of center_norm from (0.5, 0.5)
          MaxArmors           \* bound of the model: armors in one frame

ASSUME TrackerAssumption ==
  /\ MinDetectCount \in Int
  /\ MaxTempLostCount \in Int
  /\ Priorities \subseteq Int
  /\ Distances \subseteq Nat
  /\ MaxArmors \in Nat

VARIABLES state,             \* state_
          detect_count,      \* detect_count_
          temp_lost_count,   \* temp_lost_count_
          target,            \* target_
          armors,            \* kinds of the armors of this call, filtered and sorted
          at,                \* position of the loop in armors
          found,             \* local variable of track()
          pc,                \* the part of track() that is next, "idle" between calls
          answer             \* what the last finished call returned

vars == <<state, detect_count, temp_lost_count, target, armors, at, found, pc,
          answer>>

States == {"lost", "detecting", "tracking", "temp_lost"}

Armor == [enemy    : BOOLEAN,
          kind     : Kinds,
          priority : Priorities,
          distance : Distances]

Frames == UNION {[1 .. n -> Armor] : n \in 0 .. MaxArmors}

Init ==
  /\ state = "lost"
  /\ detect_count = 0
  /\ temp_lost_count = 0
  /\ target = DefaultTarget
  /\ armors = <<>>
  /\ at = 1
  /\ found = FALSE
  /\ pc = "idle"
  /\ answer = {}

-----------------------------------------------------------------------------

\* remove_if of the armors that are not the enemy's
Kept(frame, use_enemy_color) ==
  {i \in DOMAIN frame : use_enemy_color => frame[i].enemy}

\* The two list sorts are stable: priority decides, then the distance from
\* the image centre, then the order of the detector.
Before(frame, i, j) ==
  \/ frame[i].priority < frame[j].priority
  \/ /\ frame[i].priority = frame[j].priority
     /\ \/ frame[i].distance < frame[j].distance
        \/ frame[i].distance = frame[j].distance /\ i < j

Orders(frame, kept) ==
  LET n == Cardinality(kept)
  IN  {order \in [1 .. n -> kept] :
         \A a, b \in 1 .. n : a < b => Before(frame, order[a], order[b])}

\* gap: more than 0.1 s since the last call
Track(frame, gap, use_enemy_color) ==
  /\ pc = "idle"
  /\ state' = IF gap THEN "lost" ELSE state
  /\ \E order \in Orders(frame, Kept(frame, use_enemy_color)) :
       armors' = [a \in DOMAIN order |-> frame[order[a]].kind]
  /\ pc' = "dispatch"
  /\ UNCHANGED <<detect_count, temp_lost_count, target, at, found, answer>>

\* Faulty variant: set_target renames the old target and keeps its filter.
SetTargetKeepingFilter ==
  /\ pc = "dispatch" /\ state = "lost"
  /\ IF armors = <<>>
     THEN found' = FALSE /\ UNCHANGED target
     ELSE found' = TRUE /\ target' = [target EXCEPT !.kind = Head(armors), !.r = "ok"]
  /\ pc' = "finish"
  /\ UNCHANGED <<state, detect_count, temp_lost_count, armors, at, answer>>

SetTarget ==
  /\ pc = "dispatch" /\ state = "lost"
  /\ IF armors = <<>>
     THEN found' = FALSE /\ UNCHANGED target
     ELSE found' = TRUE /\ target' = NewTarget(Head(armors))
  /\ pc' = "finish"
  /\ UNCHANGED <<state, detect_count, temp_lost_count, armors, at, answer>>

\* Faulty variant: any armor in the frame counts as a sighting.
UpdateTargetAnyArmor ==
  /\ pc = "dispatch" /\ state # "lost"
  /\ found' = (armors # <<>>)
  /\ pc' = "update"
  /\ UNCHANGED <<state, detect_count, temp_lost_count, target, armors, at, answer>>

\* target_.predict(t) moves nothing this model keeps; then the matching armors
\* are counted.
UpdateTarget ==
  /\ pc = "dispatch" /\ state # "lost"
  /\ found' = (\E a \in DOMAIN armors : armors[a] = target.kind)
  /\ pc' = "update"
  /\ UNCHANGED <<state, detect_count, temp_lost_count, target, armors, at, answer>>

Absorb(tgt) ==
  \E obs \in Observations :
    \E id \in MatchedIds(tgt, obs), r \in RadiiAfter(tgt, obs) :
      target' = Update(tgt, obs, id, r)

\* One iteration of the second loop: every armor with the target's name and
\* type is solved and updates the target.
UpdateArmor ==
  /\ pc = "update" /\ at <= Len(armors)
  /\ IF armors[at] = target.kind THEN Absorb(target) ELSE UNCHANGED target
  /\ at' = at + 1
  /\ UNCHANGED <<state, detect_count, temp_lost_count, armors, found, pc, answer>>

UpdateTargetReturns ==
  /\ pc = "update" /\ at > Len(armors)
  /\ pc' = "finish"
  /\ UNCHANGED <<state, detect_count, temp_lost_count, target, armors, at, found,
                 answer>>

-----------------------------------------------------------------------------

\* Faulty variants: the lost count is tested before it is incremented, and a
\* target seen again after a miss stays in "temp_lost".
StateAfterLateTest ==
  CASE state = "lost"      -> IF found THEN "detecting" ELSE "lost"
    [] state = "detecting" -> IF ~found THEN "lost"
                              ELSE IF detect_count + 1 >= MinDetectCount
                              THEN "tracking" ELSE "detecting"
    [] state = "tracking"  -> IF found THEN "tracking" ELSE "temp_lost"
    [] state = "temp_lost" -> IF found THEN "tracking"
                              ELSE IF temp_lost_count > MaxTempLostCount
                              THEN "lost" ELSE "temp_lost"

StateAfterNoRecovery ==
  CASE state = "lost"      -> IF found THEN "detecting" ELSE "lost"
    [] state = "detecting" -> IF ~found THEN "lost"
                              ELSE IF detect_count + 1 >= MinDetectCount
                              THEN "tracking" ELSE "detecting"
    [] state = "tracking"  -> IF found THEN "tracking" ELSE "temp_lost"
    [] state = "temp_lost" -> IF ~found /\ temp_lost_count + 1 > MaxTempLostCount
                              THEN "lost" ELSE "temp_lost"

\* The state state_machine(found) moves to, and the two counters it keeps.
StateAfter ==
  CASE state = "lost"      -> IF found THEN "detecting" ELSE "lost"
    [] state = "detecting" -> IF ~found THEN "lost"
                              ELSE IF detect_count + 1 >= MinDetectCount
                              THEN "tracking" ELSE "detecting"
    [] state = "tracking"  -> IF found THEN "tracking" ELSE "temp_lost"
    [] state = "temp_lost" -> IF found THEN "tracking"
                              ELSE IF temp_lost_count + 1 > MaxTempLostCount
                              THEN "lost" ELSE "temp_lost"

DetectCountAfter ==
  CASE state = "lost" /\ found       -> 1
    [] state = "detecting" /\ found  -> detect_count + 1
    [] state = "detecting" /\ ~found -> 0
    [] OTHER                         -> detect_count

\* Faulty variant: every miss starts the count again.
TempLostCountRestarted ==
  IF state \in {"tracking", "temp_lost"} /\ ~found THEN 1 ELSE temp_lost_count

TempLostCountAfter ==
  CASE state = "tracking" /\ ~found  -> 1
    [] state = "temp_lost" /\ ~found -> temp_lost_count + 1
    [] OTHER                         -> temp_lost_count

state_machine(next) ==
  /\ next = StateAfter
  /\ detect_count' = DetectCountAfter
  /\ temp_lost_count' = TempLostCountAfter

\* Faulty variant: the divergence test is missing.
GivenUpOnNisOnly(next) == BadConverge(target)

\* The two tests after state_machine; the second one is made in every state.
GivenUp(next) == (next # "lost" /\ diverged(target)) \/ BadConverge(target)

Finish ==
  /\ pc = "finish"
  /\ \E next \in States :
       /\ state_machine(next)
       /\ IF GivenUp(next) \/ next = "lost"
          THEN state' = "lost" /\ answer' = {}
          ELSE state' = next /\ answer' = {target.kind}
  /\ pc' = "idle"
  /\ armors' = <<>> /\ at' = 1 /\ found' = FALSE
  /\ UNCHANGED target

Call ==
  \E frame \in Frames, gap, use_enemy_color \in BOOLEAN :
    Track(frame, gap, use_enemy_color)

Next ==
  \/ Call
  \/ SetTarget \/ UpdateTarget
  \/ UpdateArmor \/ UpdateTargetReturns
  \/ Finish

Spec == Init /\ [][Next]_vars

(***************************************************************************)
(* A call that was entered runs to its return, and the loop of the caller  *)
(* hands over one frame after another (task/test/*.cpp).                   *)
(***************************************************************************)
FairSpec == Spec /\ WF_vars(Next)

-----------------------------------------------------------------------------
(***************************************************************************)
(* Properties                                                              *)
(***************************************************************************)

TypeOK ==
  /\ state \in States
  /\ detect_count \in Nat
  /\ temp_lost_count \in Nat
  /\ target \in TargetType
  /\ armors \in Seq(Kinds)
  /\ at \in 1 .. Len(armors) + 1
  /\ found \in BOOLEAN
  /\ pc \in {"idle", "dispatch", "update", "finish"}
  /\ answer \in SUBSET Kinds

Larger(a, b) == IF a >= b THEN a ELSE b
Smaller(a, b) == IF a <= b THEN a ELSE b

\* Sightings in consecutive frames before the target counts as tracked: the
\* first sighting only ever starts the detection, so two at the least.
Confirm == Larger(2, MinDetectCount)

\* Frames in a row a tracked target may be missing: the first miss only ever
\* starts the count, so one at the least.
Patience == Larger(1, MaxTempLostCount)

\* nis_count_, kept incrementally, is the number of failed tests in the
\* window, and the window never holds more than window_size of them
\* (ExtendedKalmanFilter::update keeps two copies of one fact).
NisCountExact ==
  /\ Len(target.nis) \in 1 .. Window
  /\ target.nis_count = Failures(target.nis)

\* A target that track() returned has radii in range and is below the limit of
\* failed tests: no path through the call returns a target without both tests.
AnswerIsSound ==
  pc = "idle" /\ answer # {} =>
    /\ state # "lost"
    /\ answer = {target.kind}
    /\ target.kind # NoKind
    /\ ~diverged(target) /\ ~BadConverge(target)

\* The filter of a tracked target has absorbed an armor in each of the frames
\* after the first that confirmed it: tracking is never reached on sightings
\* the filter did not use, nor on those of an earlier target.
EvidenceBehindTracking ==
  pc = "idle" =>
    /\ state = "detecting" =>
         target.update_count >= Smaller(UpdateCap, detect_count - 1)
    /\ state \in {"tracking", "temp_lost"} =>
         target.update_count >= Smaller(UpdateCap, Confirm - 1)

\* A target that was just acquired starts with a clean filter: nothing of the
\* window or of the jump flag of its predecessor survives set_target.
FreshWhenAcquired ==
  pc = "idle" /\ state = "detecting" /\ detect_count = 1 =>
    ~target.jumped /\ Failures(target.nis) = 0

\* The tracker is an implementation of the contract.
Contract ==
  INSTANCE TrackingContract WITH
    Robots   <- Kinds,
    Nobody   <- NoKind,
    phase    <- CASE state = "lost"      -> "lost"
                  [] state = "detecting" -> "acquiring"
                  [] OTHER               -> "engaged",
    who      <- IF state = "lost" THEN NoKind ELSE target.kind,
    hits     <- IF state = "detecting" THEN detect_count ELSE 0,
    misses   <- IF state = "temp_lost" THEN temp_lost_count ELSE 0

ImplementsContract == Contract!Spec

\* When from some frame on every frame shows the target followed and no call
\* gives it up, the tracker settles in "tracking".
SteadyViewIsTracked ==
  (<>[](pc = "finish" => found) /\ <>[](pc = "dispatch" => state # "lost"))
    => <>[](state = "tracking")

\* When from some frame on no frame shows an armor of the target followed, the
\* tracker lets go of it.
AbsentTargetIsDropped ==
  <>[](pc = "finish" => ~found) => <>[](state = "lost")

\* .planning/phases/05-tracking/05-02-PLAN.md:24: the update "selects
\* best-match armor by angle error" among the predicted armors.  The code does
\* not: a run of its own refutes this.
MatchIsAnArmor ==
  target.r # "nan" => target.last_id # "wild"
=============================================================================
