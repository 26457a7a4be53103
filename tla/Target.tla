------------------------------- MODULE Target -------------------------------
(***************************************************************************)
(* app::auto_aim::Target and the part of tools::ExtendedKalmanFilter it    *)
(* keeps: operators on a target record, one per method.                    *)
(*                                                                         *)
(* The 11-dimensional state vector is abstracted to what the control flow  *)
(* reads of it: whether the radii r and r + l are inside (0.05, 0.5), or   *)
(* the vector is not a number any more.  predict() leaves both radii as    *)
(* they are (rows 8 and 9 of F are the identity's and of Q are zero), so   *)
(* it is the identity here; only an update moves them.                     *)
(***************************************************************************)
EXTENDS Integers, Sequences, FiniteSets

CONSTANTS Kinds,          \* the pairs <<name, type>> an armor can carry
          BalanceKinds,   \* those of a two-armor robot: big, and three, four or five
          NoKind,         \* the indeterminate name of a default-constructed target
          Window,         \* ExtendedKalmanFilter::window_size
          UpdateCap       \* bound of the model: update_count_ saturates here

ASSUME TargetAssumption ==
  /\ BalanceKinds \subseteq Kinds
  /\ NoKind \notin Kinds
  /\ Window \in Nat \ {0}
  /\ UpdateCap \in Nat

\* What solving and filtering one armor can come to: the residual passes the
\* chi-square gate (last_nis <= 11.34), fails it, or is not a number.
Observations == {"ok", "outlier", "nan"}

\* The armor index update() settles on: armor 0, another armor of the robot,
\* or an integer that is no armor of the robot.
Ids == {"front", "side", "wild"}

Radii == {"ok", "bad", "nan"}

TargetType ==
  [kind         : Kinds \union {NoKind},
   jumped       : BOOLEAN,
   last_id      : Ids,
   update_count : 0 .. UpdateCap,
   r            : Radii,
   nis          : Seq({0, 1}),
   nis_count    : Nat]

armor_num(kind) == IF kind \in BalanceKinds THEN 2 ELSE 4

(***************************************************************************)
(* Target(armor, t, 0.2, armor_num, P0_dig).  The filter starts with one   *)
(* passed test already in its window.                                      *)
(***************************************************************************)
NewTarget(kind) ==
  [kind |-> kind, jumped |-> FALSE, last_id |-> "front", update_count |-> 0,
   r |-> "ok", nis |-> <<0>>, nis_count |-> 0]

DefaultTarget == NewTarget(NoKind)

Failures(window) == Cardinality({i \in DOMAIN window : window[i] = 1})

\* The indices the matching loop can leave in id.  It looks at the three
\* nearest armors whatever their number: on a two-armor robot the third read
\* is past the end of the vector, and id may be whatever lies there.  When no
\* angle error is a number, id is never assigned.
MatchedIds(tgt, obs) ==
  IF armor_num(tgt.kind) < 3 \/ "nan" \in {obs, tgt.r}
  THEN Ids
  ELSE {"front", "side"}

\* Where an update can leave the radii: not-a-number spreads to the whole
\* state vector through K * y and stays.
RadiiAfter(tgt, obs) ==
  IF "nan" \in {obs, tgt.r} THEN {"nan"} ELSE {"ok", "bad"}

\* last_nis > 11.34 is false when last_nis is not a number.
NisBit(tgt, obs) == IF obs = "outlier" /\ tgt.r # "nan" THEN 1 ELSE 0

Slide(window, bit) ==
  LET longer == Append(window, bit)
  IN  IF Len(longer) > Window THEN Tail(longer) ELSE longer

\* Faulty variant: an eviction takes nothing off.
NisCountNeverEvicting(tgt, bit) == tgt.nis_count + bit

\* nis_count_ is kept incrementally until the window first overflows, and is
\* recounted from then on.
NisCountAfter(tgt, bit) ==
  IF Len(tgt.nis) + 1 > Window
  THEN Failures(Slide(tgt.nis, bit))
  ELSE tgt.nis_count + bit

Update(tgt, obs, id, r) ==
  LET bit == NisBit(tgt, obs)
  IN  [tgt EXCEPT !.jumped       = @ \/ id # "front",
                  !.last_id      = id,
                  !.update_count = IF @ < UpdateCap THEN @ + 1 ELSE @,
                  !.r            = r,
                  !.nis          = Slide(tgt.nis, bit),
                  !.nis_count    = NisCountAfter(tgt, bit)]

diverged(tgt) == tgt.r # "ok"

\* sum(recent_nis_failures) >= 0.4 * window_size, in integers
BadConverge(tgt) == 5 * Failures(tgt.nis) >= 2 * Window
=============================================================================
