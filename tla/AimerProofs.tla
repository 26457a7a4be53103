----------------------------- MODULE AimerProofs -----------------------------
(***************************************************************************)
(* What choose_aim_point chooses, and what follows for every sequence of   *)
(* calls of aim, for circles of any resolution and any angles and delays;  *)
(* at the end, what follows for the shots of Shooter.                      *)
(***************************************************************************)
EXTENDS Aimer, Shooter, TLAPS

\* tools::limit_rad on the sums of an angle and a plate's offset: the angle or
\* the angle less one or two turns, not more than half a turn from 0.
LEMMA LimitRad ==
  ASSUME NEW a \in 0 .. Turn - 1, NEW b \in 0 .. Turn - 1
  PROVE  LET s == a + b
             r == IF s < Turn THEN s ELSE s - Turn
         IN  /\ limit_rad(s) = IF 2 * r > Turn THEN r - Turn ELSE r
             /\ limit_rad(s) \in Int
<1> DEFINE s == a + b
           r == IF s < Turn THEN s ELSE s - Turn
<1>1. Turn \in Nat \ {0}
  BY AimerAssumption
<1>2. s % Turn = r
  BY <1>1
<1>3. limit_rad(s) = IF 2 * r > Turn THEN r - Turn ELSE r
  BY <1>2 DEF limit_rad
<1> QED
  BY <1>1, <1>3

\* A quarter of the circle.
Quarter == Turn \div 4

LEMMA QuarterFacts ==
  /\ Quarter \in Nat /\ Turn = 4 * Quarter /\ Turn \in Nat /\ Turn > 0
  /\ Turn \div 4 = Quarter /\ Turn \div 2 = 2 * Quarter
  /\ Window \in Nat /\ Window < Quarter
<1>1. Turn \in Nat \ {0} /\ Turn % 4 = 0 /\ Window \in Nat /\ 4 * Window < Turn
  BY AimerAssumption
<1> QED
  BY <1>1 DEF Quarter

\* Angles half a turn apart are not both in the window.
LEMMA Opposite ==
  ASSUME NEW a \in 0 .. Turn - 1, NEW b \in 0 .. Turn - 1, NEW c \in 0 .. Turn - 1,
         c = b + 2 * Quarter
  PROVE  ~(Abs(limit_rad(a + b)) <= Window /\ Abs(limit_rad(a + c)) <= Window)
<1> DEFINE r(s) == IF s < Turn THEN s ELSE s - Turn
<1>1. /\ limit_rad(a + b) = IF 2 * r(a + b) > Turn THEN r(a + b) - Turn ELSE r(a + b)
      /\ limit_rad(a + c) = IF 2 * r(a + c) > Turn THEN r(a + c) - Turn ELSE r(a + c)
  BY LimitRad
<1>2. \/ r(a + c) = r(a + b) + 2 * Quarter
      \/ r(a + c) = r(a + b) - 2 * Quarter
  BY QuarterFacts
<1>3. r(a + b) \in 0 .. Turn - 1 /\ r(a + c) \in 0 .. Turn - 1
  BY QuarterFacts
<1> DEFINE p == r(a + b)
           q == r(a + c)
           lp == limit_rad(a + b)
           lq == limit_rad(a + c)
<1>4. /\ p \in Nat /\ p < 4 * Quarter /\ q \in Nat /\ q < 4 * Quarter
      /\ lp = IF p > 2 * Quarter THEN p - 4 * Quarter ELSE p
      /\ lq = IF q > 2 * Quarter THEN q - 4 * Quarter ELSE q
      /\ q = p + 2 * Quarter \/ q = p - 2 * Quarter
  BY <1>1, <1>2, <1>3, QuarterFacts
<1> HIDE DEF p, q, lp, lq
<1>5. Quarter \in Nat /\ Window \in Nat /\ Window < Quarter
  BY QuarterFacts
<1>6. CASE q = p + 2 * Quarter
  <2>1. lp = p /\ (lq = p - 2 * Quarter \/ (p = 0 /\ lq = 2 * Quarter))
    <3>1. p < 2 * Quarter /\ ~(p > 2 * Quarter) /\ p \in Int /\ q \in Int
      BY <1>4, <1>5, <1>6
    <3>2. lp = p
      BY <1>4, <3>1
    <3>3. CASE p = 0
      <4>1. q = 2 * Quarter /\ ~(q > 2 * Quarter)
        BY <1>5, <1>6, <3>3
      <4> QED
        BY <1>4, <3>2, <3>3, <4>1
    <3>4. CASE p # 0
      <4>1. q > 2 * Quarter /\ q - 4 * Quarter = p - 2 * Quarter
        BY <1>4, <1>5, <1>6, <3>4
      <4>2. lq = q - 4 * Quarter
        BY <1>4, <4>1, Zenon
      <4> QED
        BY <3>2, <4>1, <4>2, Zenon
    <3> QED
      BY <3>3, <3>4
  <2>2. ~(Abs(lp) <= Window /\ Abs(lq) <= Window)
    BY <1>4, <1>5, <2>1 DEF Abs
  <2> QED
    BY <2>2 DEF lp, lq
<1>7. CASE q = p - 2 * Quarter
  <2>1. lq = q /\ (lp = q - 2 * Quarter \/ (q = 0 /\ lp = 2 * Quarter))
    <3>1. q < 2 * Quarter /\ ~(q > 2 * Quarter) /\ p \in Int /\ q \in Int
      BY <1>4, <1>5, <1>7
    <3>2. lq = q
      BY <1>4, <3>1
    <3>3. CASE q = 0
      <4>1. p = 2 * Quarter /\ ~(p > 2 * Quarter)
        BY <1>4, <1>5, <1>7, <3>3
      <4> QED
        BY <1>4, <3>2, <3>3, <4>1
    <3>4. CASE q # 0
      <4>1. p > 2 * Quarter /\ p - 4 * Quarter = q - 2 * Quarter
        BY <1>4, <1>5, <1>7, <3>4
      <4>2. lp = p - 4 * Quarter
        BY <1>4, <4>1, Zenon
      <4> QED
        BY <3>2, <4>1, <4>2, Zenon
    <3> QED
      BY <3>3, <3>4
  <2>2. ~(Abs(lp) <= Window /\ Abs(lq) <= Window)
    BY <1>4, <1>5, <2>1 DEF Abs
  <2> QED
    BY <2>2 DEF lp, lq
<1> QED
  BY <1>4, <1>6, <1>7

LEMMA FirstOf ==
  ASSUME NEW S \in SUBSET (0 .. 3), S # {}
  PROVE  First(S) \in S
<1>1. \E i \in S : \A j \in S : i <= j
  <2>1. CASE 0 \in S
    BY <2>1
  <2>2. CASE 0 \notin S /\ 1 \in S
    BY <2>2
  <2>3. CASE 0 \notin S /\ 1 \notin S /\ 2 \in S
    BY <2>3
  <2>4. CASE 0 \notin S /\ 1 \notin S /\ 2 \notin S
    <3>1. \A i \in S : i = 3
      BY <2>4
    <3>2. 3 \in S
      BY <3>1
    <3> QED
      BY <3>1, <3>2
  <2> QED
    BY <2>1, <2>2, <2>3, <2>4
<1> QED
  BY <1>1 DEF First

LEMMA PlatesOf ==
  ASSUME NEW t \in TargetType
  PROVE  /\ t.plates \in {2, 4} /\ t.angle \in 0 .. Turn - 1
         /\ t.jumped \in BOOLEAN /\ t.outpost \in BOOLEAN /\ t.spin \in Int
         /\ Plates(t) \in SUBSET (0 .. 3) /\ 0 \in Plates(t)
         /\ InWindow(t) \subseteq Plates(t)
         /\ Led(t) \subseteq Plates(t)
<1>1. /\ t.plates \in {2, 4} /\ t.angle \in 0 .. Turn - 1
      /\ t.jumped \in BOOLEAN /\ t.outpost \in BOOLEAN /\ t.spin \in Int
  BY DEF TargetType
<1> QED
  BY <1>1 DEF Plates, InWindow, Led

LEMMA DeltaType ==
  ASSUME NEW t \in TargetType, NEW i \in Plates(t)
  PROVE  Delta(t, i) \in Int /\ Abs(Delta(t, i)) \in Int
<1>1. i * (Turn \div t.plates) \in 0 .. Turn - 1
  BY PlatesOf, QuarterFacts DEF Plates
<1> QED
  BY <1>1, PlatesOf, LimitRad DEF Delta, Abs

\* Of three plates two are opposite each other, so two are in view at most.
LEMMA AtMostTwo ==
  ASSUME NEW t \in TargetType, NEW i \in InWindow(t), NEW j \in InWindow(t),
         NEW k \in InWindow(t)
  PROVE  i = j \/ j = k \/ i = k
<1>1. t.plates \in {2, 4} /\ t.angle \in 0 .. Turn - 1
  BY PlatesOf
<1>2. CASE t.plates = 2
  BY <1>2 DEF InWindow, Plates
<1>3. CASE t.plates = 4
  <2>1. \A p \in 0 .. 3 : Delta(t, p) = limit_rad(t.angle + p * Quarter)
    BY <1>3, QuarterFacts DEF Delta
  <2>2. /\ 0 * Quarter \in 0 .. Turn - 1 /\ 1 * Quarter \in 0 .. Turn - 1
        /\ 2 * Quarter \in 0 .. Turn - 1 /\ 3 * Quarter \in 0 .. Turn - 1
        /\ 2 * Quarter = 0 * Quarter + 2 * Quarter
        /\ 3 * Quarter = 1 * Quarter + 2 * Quarter
    BY QuarterFacts
  <2>3. /\ ~(Abs(limit_rad(t.angle + 0 * Quarter)) <= Window
             /\ Abs(limit_rad(t.angle + 2 * Quarter)) <= Window)
        /\ ~(Abs(limit_rad(t.angle + 1 * Quarter)) <= Window
             /\ Abs(limit_rad(t.angle + 3 * Quarter)) <= Window)
    BY <1>1, <2>2, Opposite
  <2>4. ~(0 \in InWindow(t) /\ 2 \in InWindow(t)) /\ ~(1 \in InWindow(t) /\ 3 \in InWindow(t))
    BY <2>1, <2>3 DEF InWindow
  <2>5. i \in 0 .. 3 /\ j \in 0 .. 3 /\ k \in 0 .. 3
    BY PlatesOf
  <2> QED
    BY <2>4, <2>5
<1> QED
  BY <1>1, <1>2, <1>3

-----------------------------------------------------------------------------
\* What a choice is: never a plate the robot lacks, and in lock mode a plate in
\* the window, which is locked unless it is alone there.
Locked(t, l, id) ==
  /\ id \in InWindow(t)
  /\ \/ l = id
     \/ l = -1 /\ InWindow(t) = {id}

LockedOn(t, choice) ==
  t.jumped /\ UsesLock(t) =>
    /\ choice.point.valid => InWindow(t) # {}
    /\ InWindow(t) # {} => Locked(t, choice.lock, choice.point.id)

\* And what becomes of a plate in the window: it stays the choice if it was
\* locked, and without a lock none in the window is nearer than the choice.
Stable(t, l, id) ==
  \A old \in InWindow(t) :
    /\ l = old => id = old
    /\ l = -1 => Abs(Delta(t, id)) <= Abs(Delta(t, old))

GoodChoice(t, choice) ==
  /\ choice.lock \in -1 .. 3
  /\ choice.point.valid \in BOOLEAN
  /\ choice.point.id \in 0 .. 3
  /\ choice.point = [valid |-> choice.point.valid, id |-> choice.point.id]
  /\ choice.point.valid => choice.point.id \in Plates(t)
  /\ LockedOn(t, choice)

LEMMA LockModeChooses ==
  ASSUME NEW t \in TargetType, NEW l \in -1 .. 3, t.jumped, UsesLock(t)
  PROVE  LET choice == LockMode(l, t) IN
         GoodChoice(t, choice) /\ Stable(t, l, choice.point.id)
<1> DEFINE choice == LockMode(l, t)
           ids == InWindow(t)
           id0 == First(ids)
           id1 == First(ids \ {id0})
           kept == IF l \in {id0, id1} THEN l ELSE Nearer(t, id0, id1)
<1>1. ids \in SUBSET (0 .. 3) /\ ids \subseteq Plates(t)
  BY PlatesOf
<1>2. choice = IF ids = {} THEN [lock |-> l, point |-> NoPlate]
               ELSE IF ids = {id0} THEN [lock |-> -1, point |-> Chosen(id0)]
               ELSE [lock |-> kept, point |-> Chosen(kept)]
  BY DEF LockMode
<1>3. \A i \in Plates(t) : Abs(Delta(t, i)) \in Int
  BY DeltaType
<1>4. \A i \in Plates(t) : i \in ids <=> Abs(Delta(t, i)) <= Window
  BY DEF InWindow
<1>5. ids # {} => id0 \in ids
  BY <1>1, FirstOf
<1>6. ids # {} /\ ids # {id0} => id1 \in ids /\ id1 # id0
  <2> SUFFICES ASSUME ids # {}, ids # {id0} PROVE id1 \in ids /\ id1 # id0
    OBVIOUS
  <2>1. ids \ {id0} # {} /\ ids \ {id0} \in SUBSET (0 .. 3)
    BY <1>1, <1>5
  <2> HIDE DEF id0, ids
  <2>2. id1 \in ids \ {id0}
    BY <2>1, FirstOf
  <2> QED
    BY <2>2
<1>7. ids # {} /\ ids # {id0} => ids = {id0, id1}
  BY <1>1, <1>5, <1>6, AtMostTwo
<1>8. Window \in Int
  BY QuarterFacts
<1>9. /\ Nearer(t, id0, id1) \in {id0, id1}
      /\ id0 \in Plates(t) /\ id1 \in Plates(t)
           => /\ Abs(Delta(t, Nearer(t, id0, id1))) <= Abs(Delta(t, id0))
              /\ Abs(Delta(t, Nearer(t, id0, id1))) <= Abs(Delta(t, id1))
  BY <1>3 DEF Nearer
<1> HIDE DEF choice, ids, id0, id1
<1>10. CASE ids = {}
  <2>1. choice.lock = l /\ choice.point = [valid |-> FALSE, id |-> 0]
    BY <1>2, <1>10 DEF NoPlate
  <2> QED
    BY <1>10, <2>1 DEF GoodChoice, LockedOn, Stable, choice, ids
<1>11. CASE ids = {id0}
  <2>1. choice.lock = -1 /\ choice.point = [valid |-> TRUE, id |-> id0]
    BY <1>2, <1>11 DEF Chosen
  <2>2. id0 \in ids /\ id0 \in Plates(t) /\ id0 \in 0 .. 3
    BY <1>1, <1>5, <1>11
  <2>3. Stable(t, l, id0)
    <3>1. \A old \in ids : old = id0
      BY <1>11
    <3> QED
      BY <1>3, <2>2, <3>1 DEF Stable, ids
  <2>4. GoodChoice(t, choice)
    BY <1>11, <2>1, <2>2 DEF GoodChoice, LockedOn, Locked, ids
  <2> QED
    BY <2>1, <2>3, <2>4 DEF choice
<1>12. CASE ids # {} /\ ids # {id0}
  <2>1. choice.lock = kept /\ choice.point = [valid |-> TRUE, id |-> kept]
    BY <1>2, <1>12 DEF Chosen
  <2>2. kept \in {id0, id1} /\ ids = {id0, id1} /\ kept \in ids
        /\ kept \in Plates(t) /\ kept \in 0 .. 3
        /\ id0 \in Plates(t) /\ id1 \in Plates(t) /\ id0 # -1 /\ id1 # -1
    <3>1. /\ id0 \in ids /\ id1 \in ids /\ ids = {id0, id1}
      BY <1>5, <1>6, <1>7, <1>12
    <3>2. kept \in {id0, id1}
      BY <1>9
    <3>3. /\ kept \in ids /\ \A i \in ids : i \in Plates(t) /\ i \in 0 .. 3 /\ i # -1
      BY <1>1, <3>1, <3>2
    <3> HIDE DEF kept
    <3> QED
      BY <3>1, <3>2, <3>3
  <2>3. Stable(t, l, kept)
    <3> SUFFICES ASSUME NEW old \in ids
                 PROVE  /\ l = old => kept = old
                        /\ l = -1 => Abs(Delta(t, kept)) <= Abs(Delta(t, old))
      BY DEF Stable, ids
    <3>1. old = id0 \/ old = id1
      BY <2>2
    <3>2. CASE l = old
      BY <2>2, <3>1, <3>2
    <3>3. CASE l = -1
      <4>1. kept = Nearer(t, id0, id1) /\ l # old
        BY <2>2, <3>1, <3>3
      <4> QED
        BY <1>9, <2>2, <3>1, <4>1
    <3> QED
      BY <3>2, <3>3
  <2> HIDE DEF kept
  <2>4. GoodChoice(t, choice)
    BY <1>12, <2>1, <2>2 DEF GoodChoice, LockedOn, Locked, ids
  <2> QED
    BY <2>1, <2>3, <2>4 DEF choice
<1> QED
  BY <1>10, <1>11, <1>12

LEMMA ChoiceIsGood ==
  ASSUME NEW t \in TargetType, NEW l \in -1 .. 3
  PROVE  LET choice == choose_aim_point(l, t) IN
         /\ GoodChoice(t, choice)
         /\ t.jumped /\ UsesLock(t) => Stable(t, l, choice.point.id)
<1> DEFINE choice == choose_aim_point(l, t)
<1>1. CASE ~t.jumped
  <2>1. choice.lock = l /\ choice.point = [valid |-> TRUE, id |-> 0]
    BY <1>1 DEF choose_aim_point, Chosen
  <2> HIDE DEF choice
  <2>2. GoodChoice(t, choice)
    BY <1>1, <2>1, PlatesOf DEF GoodChoice, LockedOn
  <2> QED
    BY <1>1, <2>2 DEF choice
<1>2. CASE t.jumped /\ UsesLock(t)
  <2>1. choice = LockMode(l, t)
    BY <1>2 DEF choose_aim_point
  <2> QED
    BY <1>2, <2>1, LockModeChooses
<1>3. CASE t.jumped /\ ~UsesLock(t)
  <2>1. choice.lock = l
    BY <1>3 DEF choose_aim_point, GyroMode
  <2>2. choice.point = IF Led(t) = {} THEN [valid |-> FALSE, id |-> 0]
                       ELSE [valid |-> TRUE, id |-> First(Led(t))]
    BY <1>3 DEF choose_aim_point, GyroMode, Chosen, NoPlate
  <2>3. Led(t) # {} => First(Led(t)) \in Plates(t) /\ First(Led(t)) \in 0 .. 3
    <3>1. Led(t) \subseteq Plates(t) /\ Plates(t) \in SUBSET (0 .. 3)
      BY PlatesOf
    <3> QED
      BY <3>1, FirstOf
  <2> HIDE DEF choice
  <2>4. CASE Led(t) = {}
    <3>1. GoodChoice(t, choice)
      BY <1>3, <2>1, <2>2, <2>4 DEF GoodChoice, LockedOn
    <3> QED
      BY <1>3, <3>1 DEF choice
  <2>5. CASE Led(t) # {}
    <3> DEFINE x == First(Led(t))
    <3>2. choice.point = [valid |-> TRUE, id |-> x] /\ x \in Plates(t) /\ x \in 0 .. 3
      BY <2>2, <2>3, <2>5
    <3> HIDE DEF x
    <3>1. GoodChoice(t, choice)
      BY <1>3, <2>1, <3>2 DEF GoodChoice, LockedOn
    <3> QED
      BY <1>3, <3>1 DEF choice
  <2> QED
    BY <2>4, <2>5
<1> QED
  BY <1>1, <1>2, <1>3, PlatesOf

LEMMA PredictType ==
  ASSUME NEW t \in TargetType, NEW dt \in Int
  PROVE  predict(t, dt) \in TargetType
<1>1. t.spin * dt \in Int /\ t.angle \in Int /\ Turn \in Nat \ {0}
  BY PlatesOf, AimerAssumption
<1>2. (t.angle + t.spin * dt) % Turn \in 0 .. Turn - 1
  BY <1>1
<1> QED
  BY <1>2 DEF predict, TargetType

-----------------------------------------------------------------------------
\* The invariant: the last choice was good, a call that goes on has a point and
\* iterations left, and control is never returned without a point.
IInv ==
  /\ TypeOK
  /\ point.valid => point.id \in Plates(view)
  /\ point.valid /\ view.jumped /\ UsesLock(view) => LockModeChoice
  /\ LockModeChoice => Locked(view, lock, point.id)
  /\ phase = "aiming" => point.valid /\ iter < MaxIter
  /\ control /\ phase = "idle" => point.valid

LEMMA PointFields ==
  ASSUME NEW p, p \in [valid : BOOLEAN, id : 0 .. 3]
  PROVE  p = [valid |-> p.valid, id |-> p.id] /\ p.valid \in BOOLEAN /\ p.id \in 0 .. 3
<1> QED
  OBVIOUS

LEMMA InitInv == Init => IInv
<1> SUFFICES ASSUME Init PROVE IInv
  OBVIOUS
<1>1. base \in TargetType /\ ~base.jumped /\ view = base
  BY AimerAssumption DEF Init
<1>2. /\ lock = -1 /\ control = FALSE /\ phase = "idle" /\ fly = 0 /\ iter = 0
      /\ point \in [valid : BOOLEAN, id : {0}]
  BY DEF Init
<1>3. point \in [valid : BOOLEAN, id : 0 .. 3] /\ point.id = 0
  BY <1>2
<1>4. iter \in 0 .. MaxIter
  BY <1>2, AimerAssumption
<1>5. TypeOK
  <2>1. -1 \in -1 .. 3 /\ FALSE \in BOOLEAN /\ fly \in FlyTimes \union {0}
    BY <1>2
  <2> QED
    BY <1>1, <1>2, <1>3, <1>4, <2>1 DEF TypeOK
<1>6. 0 \in Plates(view)
  BY <1>1, PlatesOf
<1> QED
  BY <1>1, <1>2, <1>3, <1>5, <1>6 DEF IInv, LockModeChoice

\* What KeepsItsPlate says of a step that comes to another plate.
PlateKept ==
  point'.id # point.id
    => \/ point.id \notin InWindow(view')
       \/ /\ InWindow(view) = {point.id}
          /\ Abs(Delta(view', point'.id)) <= Abs(Delta(view', point.id))

\* A step that chooses for t: what both its ends, return and iteration, share.
LEMMA ChooseStep ==
  ASSUME IInv, NEW t \in TargetType, Choose(t)
  PROVE  LET choice == choose_aim_point(lock, t) IN
         /\ GoodChoice(t, choice)
         /\ lock' = choice.lock /\ view' = t
         /\ point'.id = choice.point.id /\ (point'.valid => choice.point.valid)
              => /\ point'.valid => point'.id \in Plates(view')
                 /\ point'.valid /\ view'.jumped /\ UsesLock(view') => LockModeChoice'
                 /\ LockModeChoice' => Locked(view', lock', point'.id)
                 /\ LockModeChoice /\ LockModeChoice' => PlateKept
<1> DEFINE choice == choose_aim_point(lock, t)
<1>1. lock \in -1 .. 3
  BY DEF IInv, TypeOK
<1>2. /\ GoodChoice(t, choice)
      /\ t.jumped /\ UsesLock(t) => Stable(t, lock, choice.point.id)
  BY <1>1, ChoiceIsGood
<1>3. lock' = choice.lock /\ view' = t
  BY DEF Choose
<1> HIDE DEF choice
<1>4. ASSUME point'.id = choice.point.id, point'.valid => choice.point.valid
      PROVE  /\ point'.valid => point'.id \in Plates(view')
             /\ point'.valid /\ view'.jumped /\ UsesLock(view') => LockModeChoice'
             /\ LockModeChoice' => Locked(view', lock', point'.id)
  BY <1>2, <1>3, <1>4 DEF GoodChoice, LockedOn, LockModeChoice
<1>5. ASSUME point'.id = choice.point.id, LockModeChoice, LockModeChoice'
      PROVE  PlateKept
  <2>1. Stable(view', lock, point'.id)
    BY <1>2, <1>3, <1>5 DEF LockModeChoice
  <2>2. Locked(view, lock, point.id)
    BY <1>5 DEF IInv
  <2> QED
    BY <2>1, <2>2 DEF Stable, Locked, PlateKept
<1> QED
  BY <1>2, <1>3, <1>4, <1>5 DEF choice

\* The step that goes on or returns with a chosen plate, and the two ways to
\* give up, all leave the invariant.
LEMMA GoOnKeeps ==
  ASSUME IInv, NEW t \in TargetType, Choose(t),
         choose_aim_point(lock, t).point.valid,
         point' = choose_aim_point(lock, t).point,
         base' \in TargetType, fly' \in FlyTimes \union {0}, iter' \in 0 .. MaxIter,
         \/ phase' = "idle" /\ control' = TRUE
         \/ phase' = "aiming" /\ control' = control /\ iter' < MaxIter
  PROVE  IInv'
<1> DEFINE choice == choose_aim_point(lock, t)
<1>1. /\ GoodChoice(t, choice) /\ lock' = choice.lock /\ view' = t
      /\ point'.valid => point'.id \in Plates(view')
      /\ point'.valid /\ view'.jumped /\ UsesLock(view') => LockModeChoice'
      /\ LockModeChoice' => Locked(view', lock', point'.id)
  BY ChooseStep
<1> HIDE DEF choice
<1>2. point' \in [valid : BOOLEAN, id : 0 .. 3] /\ point'.valid
  BY <1>1 DEF GoodChoice, choice
<1>3. lock' \in -1 .. 3 /\ view' \in TargetType
  BY <1>1 DEF GoodChoice
<1>4. control' \in BOOLEAN /\ phase' \in {"idle", "aiming"}
  BY DEF IInv, TypeOK
<1>5. TypeOK'
  BY <1>2, <1>3, <1>4 DEF TypeOK
<1>6. phase' = "aiming" => iter' < MaxIter
  OBVIOUS
<1> QED
  BY <1>1, <1>2, <1>5, <1>6 DEF IInv

LEMMA GiveUpKeeps ==
  ASSUME IInv, NEW t \in TargetType, Choose(t),
         GiveUp(choose_aim_point(lock, t)),
         base' \in TargetType, fly' = fly, iter' \in 0 .. MaxIter
  PROVE  /\ IInv' /\ ~point'.valid /\ phase' = "idle" /\ control' = FALSE
         /\ point'.id = choose_aim_point(lock, t).point.id
<1> DEFINE choice == choose_aim_point(lock, t)
<1>1. GoodChoice(t, choice) /\ lock' = choice.lock /\ view' = t
  BY ChooseStep
<1>2. /\ choice.point.id \in 0 .. 3 /\ choice.point.valid \in BOOLEAN
      /\ choice.point = [valid |-> choice.point.valid, id |-> choice.point.id]
      /\ lock' \in -1 .. 3
  BY <1>1 DEF GoodChoice
<1>3. GiveUp(choice)
  OBVIOUS
<1> HIDE DEF choice
<1>4. point' = [valid |-> FALSE, id |-> choice.point.id] /\ phase' = "idle" /\ control' = FALSE
  <2>1. CASE ~choice.point.valid /\ Return(choice.point, FALSE)
    <3>1. choice.point.valid = FALSE
      BY <1>2, <2>1
    <3> QED
      BY <1>2, <2>1, <3>1 DEF Return
  <2>2. CASE choice.point.valid /\ Return([valid |-> FALSE, id |-> choice.point.id], FALSE)
    BY <2>2 DEF Return
  <2> QED
    BY <1>3, <2>1, <2>2 DEF GiveUp
<1>5. point' \in [valid : BOOLEAN, id : 0 .. 3] /\ ~point'.valid
  BY <1>2, <1>4
<1>6. TypeOK'
  <2>1. fly' \in FlyTimes \union {0}
    BY DEF IInv, TypeOK
  <2> QED
    BY <1>1, <1>2, <1>4, <1>5, <2>1 DEF TypeOK
<1>7. point'.id = choice.point.id
  BY <1>4
<1>8. LockModeChoice' => Locked(view', lock', point'.id)
  BY <1>5, <1>7, ChooseStep DEF choice
<1> QED
  BY <1>4, <1>5, <1>6, <1>7, <1>8 DEF IInv, choice

\* Where the targets of the choices come from.
LEMMA AimTarget ==
  ASSUME NEW target \in Targets, NEW age \in Ages
  PROVE  predict(target, age + delay_time(target)) \in TargetType
<1>1. target \in TargetType /\ age + delay_time(target) \in Int
  BY AimerAssumption DEF delay_time
<1> QED
  BY <1>1, PredictType

LEMMA IterateTarget ==
  ASSUME IInv
  PROVE  predict(base, fly) \in TargetType
<1>1. base \in TargetType /\ fly \in Int
  BY AimerAssumption DEF IInv, TypeOK
<1> QED
  BY <1>1, PredictType

LEMMA StepInv == IInv /\ [Next]_vars => IInv'
<1> SUFFICES ASSUME IInv, [Next]_vars PROVE IInv'
  OBVIOUS
<1>0. TypeOK /\ MaxIter \in Nat \ {0}
  BY AimerAssumption DEF IInv
<1>1. CASE AimAtNothing
  BY <1>1 DEF AimAtNothing, IInv, TypeOK, LockModeChoice
<1>2. ASSUME NEW target \in Targets, NEW age \in Ages, Aim(target, age) PROVE IInv'
  <2> DEFINE t == predict(target, age + delay_time(target))
             choice == choose_aim_point(lock, t)
  <2>1. t \in TargetType
    BY AimTarget
  <2>2. /\ Choose(t) /\ base' = t /\ iter' = 0
        /\ \/ GiveUp(choice) /\ UNCHANGED fly
           \/ /\ choice.point.valid
              /\ phase' = "aiming"
              /\ point' = choice.point
              /\ fly' \in FlyTimes
              /\ UNCHANGED control
    BY <1>2 DEF Aim
  <2> HIDE DEF t
  <2>3. iter' \in 0 .. MaxIter /\ iter' < MaxIter
    BY <1>0, <2>2
  <2>4. CASE GiveUp(choice) /\ UNCHANGED fly
    BY <2>1, <2>2, <2>3, <2>4, GiveUpKeeps
  <2>5. CASE /\ choice.point.valid /\ phase' = "aiming" /\ point' = choice.point
             /\ fly' \in FlyTimes /\ UNCHANGED control
    BY <2>1, <2>2, <2>3, <2>5, GoOnKeeps
  <2> QED
    BY <2>2, <2>4, <2>5
<1>3. CASE Iterate
  <2> DEFINE t == predict(base, fly)
             choice == choose_aim_point(lock, t)
  <2>1. t \in TargetType
    BY IterateTarget
  <2>2. /\ Choose(t) /\ base' = base /\ iter' = iter + 1 /\ phase = "aiming"
        /\ \/ GiveUp(choice) /\ UNCHANGED fly
           \/ /\ choice.point.valid
              /\ fly' \in FlyTimes
              /\ IF fly' = fly \/ iter + 1 = MaxIter
                 THEN Return(choice.point, TRUE)
                 ELSE phase' = phase /\ point' = choice.point /\ UNCHANGED control
    BY <1>3 DEF Iterate, LoopTurn
  <2> HIDE DEF t
  <2>3. iter' \in 0 .. MaxIter /\ (iter + 1 # MaxIter => iter' < MaxIter)
        /\ base' \in TargetType
    BY <1>0, <2>2 DEF IInv, TypeOK
  <2>4. CASE GiveUp(choice) /\ UNCHANGED fly
    BY <2>1, <2>2, <2>3, <2>4, GiveUpKeeps
  <2>5. CASE /\ choice.point.valid
             /\ fly' \in FlyTimes
             /\ IF fly' = fly \/ iter + 1 = MaxIter
                THEN Return(choice.point, TRUE)
                ELSE phase' = phase /\ point' = choice.point /\ UNCHANGED control
    <3>1. /\ point' = choice.point
          /\ \/ phase' = "idle" /\ control' = TRUE
             \/ phase' = "aiming" /\ control' = control /\ iter' < MaxIter
      BY <2>2, <2>3, <2>5 DEF Return
    <3> QED
      BY <2>1, <2>2, <2>3, <2>5, <3>1, GoOnKeeps
  <2> QED
    BY <2>2, <2>4, <2>5
<1>4. CASE UNCHANGED vars
  BY <1>4 DEF vars, IInv, TypeOK, LockModeChoice
<1> QED
  BY <1>1, <1>2, <1>3, <1>4 DEF Next

LEMMA InvIsInvariant == Spec => []IInv
<1> QED
  BY InitInv, StepInv, PTL DEF Spec

\* The lock is one of the plates a robot can have, the iteration within its limit.
THEOREM AimerTypeCorrect == Spec => []TypeOK
<1>1. IInv => TypeOK
  BY DEF IInv
<1> QED
  BY <1>1, InvIsInvariant, PTL

\* A command with control aims at a plate of the robot, in lock mode at one that
\* faces the shooter, whatever the lock was before the call.
THEOREM PlatesAreFacing == Spec => []AimsAtFacingPlate
<1>1. ASSUME IInv PROVE AimsAtFacingPlate
  BY <1>1 DEF IInv, AimsAtFacingPlate, Locked, InWindow
<1> QED
  BY <1>1, InvIsInvariant, PTL

\* A plate chosen from two is kept while it is in the window, also over calls
\* that fail, and one that was alone is left only for one not farther turned.
THEOREM LockIsStable == Spec => KeepsItsPlate
<1>1. ASSUME IInv, [Next]_vars
      PROVE  [LockModeChoice /\ LockModeChoice' => PlateKept]_vars
  <2> SUFFICES ASSUME Next, LockModeChoice, LockModeChoice' PROVE PlateKept
    BY <1>1
  <2>1. CASE AimAtNothing
    BY <2>1 DEF AimAtNothing, PlateKept
  <2>2. ASSUME NEW target \in Targets, NEW age \in Ages, Aim(target, age)
        PROVE  PlateKept
    <3> DEFINE t == predict(target, age + delay_time(target))
               choice == choose_aim_point(lock, t)
    <3>1. t \in TargetType
      BY AimTarget
    <3>2. /\ Choose(t) /\ base' = t /\ iter' = 0
          /\ \/ GiveUp(choice) /\ UNCHANGED fly
             \/ choice.point.valid /\ point' = choice.point
      BY <2>2 DEF Aim
    <3> HIDE DEF t
    <3>3. iter' \in 0 .. MaxIter
      BY <3>2, AimerAssumption
    <3>4. point'.id = choice.point.id /\ (point'.valid => choice.point.valid)
      BY <1>1, <3>1, <3>2, <3>3, GiveUpKeeps
    <3> QED
      BY <1>1, <3>1, <3>2, <3>4, ChooseStep
  <2>3. CASE Iterate
    <3> DEFINE t == predict(base, fly)
               choice == choose_aim_point(lock, t)
    <3>1. t \in TargetType /\ base \in TargetType /\ iter < MaxIter /\ iter \in 0 .. MaxIter
      BY <1>1, <2>3, IterateTarget DEF IInv, TypeOK, Iterate, LoopTurn
    <3>2. /\ Choose(t) /\ base' = base /\ iter' = iter + 1
          /\ \/ GiveUp(choice) /\ UNCHANGED fly
             \/ choice.point.valid /\ point' = choice.point
      BY <2>3 DEF Iterate, LoopTurn, Return
    <3> HIDE DEF t
    <3>3. iter' \in 0 .. MaxIter
      BY <3>1, <3>2, AimerAssumption
    <3>4. point'.id = choice.point.id /\ (point'.valid => choice.point.valid)
      BY <1>1, <3>1, <3>2, <3>3, GiveUpKeeps
    <3> QED
      BY <1>1, <3>1, <3>2, <3>4, ChooseStep
  <2> QED
    BY <2>1, <2>2, <2>3 DEF Next
<1> QED
  BY <1>1, InvIsInvariant, PTL DEF Spec, KeepsItsPlate, PlateKept

\* aim implements AimContract: a call returns control exactly when it leaves a
\* valid aim point for shoot.
THEOREM AimImplementsContract == Spec => ImplementsContract
<1>1. Init => Contract!Init
  BY DEF Init, Contract!Init
<1>2. ASSUME IInv, IInv', [Next]_vars PROVE [Contract!Next]_(Contract!vars)
  <2>1. CASE AimAtNothing
    BY <2>1 DEF AimAtNothing, Contract!Next, Contract!Refuse
  <2>2. ASSUME NEW target \in Targets, NEW age \in Ages, Aim(target, age)
        PROVE  Contract!Next
    <3> DEFINE t == predict(target, age + delay_time(target))
               choice == choose_aim_point(lock, t)
    <3>1. t \in TargetType
      BY AimTarget
    <3>2. /\ Choose(t) /\ base' = t /\ iter' = 0
          /\ \/ GiveUp(choice) /\ UNCHANGED fly
             \/ phase' = "aiming" /\ UNCHANGED control
      BY <2>2 DEF Aim
    <3> HIDE DEF t
    <3>3. iter' \in 0 .. MaxIter
      BY <3>2, AimerAssumption
    <3>4. point'.valid \in BOOLEAN
      BY <1>2 DEF IInv, TypeOK
    <3>5. CASE GiveUp(choice) /\ UNCHANGED fly
      <4>1. point'.valid = FALSE /\ phase' = "idle" /\ control' = FALSE
        BY <1>2, <3>1, <3>2, <3>3, <3>4, <3>5, GiveUpKeeps
      <4> QED
        BY <4>1 DEF Contract!Next, Contract!Answer
    <3>6. CASE phase' = "aiming" /\ UNCHANGED control
      BY <3>4, <3>6 DEF Contract!Next, Contract!Work
    <3> QED
      BY <3>2, <3>5, <3>6
  <2>3. CASE Iterate
    <3> DEFINE t == predict(base, fly)
               choice == choose_aim_point(lock, t)
    <3>1. t \in TargetType /\ base \in TargetType /\ iter < MaxIter /\ iter \in 0 .. MaxIter
      BY <1>2, <2>3, IterateTarget DEF IInv, TypeOK, Iterate, LoopTurn
    <3>2. /\ Choose(t) /\ base' = base /\ iter' = iter + 1
          /\ \/ GiveUp(choice) /\ UNCHANGED fly
             \/ /\ choice.point.valid /\ point' = choice.point
                /\ \/ phase' = "idle" /\ control' = TRUE
                   \/ phase' = "aiming" /\ UNCHANGED control
      BY <2>3 DEF Iterate, LoopTurn, Return
    <3> HIDE DEF t
    <3>3. iter' \in 0 .. MaxIter
      BY <3>1, <3>2, AimerAssumption
    <3>4. point'.valid \in BOOLEAN
      BY <1>2 DEF IInv, TypeOK
    <3>5. CASE GiveUp(choice) /\ UNCHANGED fly
      <4>1. point'.valid = FALSE /\ phase' = "idle" /\ control' = FALSE
        BY <1>2, <3>1, <3>2, <3>3, <3>4, <3>5, GiveUpKeeps
      <4> QED
        BY <4>1 DEF Contract!Next, Contract!Answer
    <3>6. CASE choice.point.valid /\ point' = choice.point /\ phase' = "idle" /\ control' = TRUE
      <4>1. point'.valid = TRUE
        BY <3>4, <3>6
      <4> QED
        BY <3>6, <4>1 DEF Contract!Next, Contract!Answer
    <3>7. CASE phase' = "aiming" /\ UNCHANGED control
      BY <3>4, <3>7 DEF Contract!Next, Contract!Work
    <3> QED
      BY <3>2, <3>5, <3>6, <3>7
  <2>4. CASE UNCHANGED vars
    BY <2>4 DEF vars, Contract!vars
  <2> QED
    BY <1>2, <2>1, <2>2, <2>3, <2>4 DEF Next
<1> QED
  BY <1>1, <1>2, InvIsInvariant, PTL DEF Spec, ImplementsContract, Contract!Spec

-----------------------------------------------------------------------------
(***************************************************************************)
(* The shooter: shots are near the present command, for every tolerance,   *)
(* offset and course of commands.                                          *)
(***************************************************************************)

LEMMA ApartSum ==
  ASSUME NEW g \in Int, NEW l \in Int, NEW y \in Int, NEW tol \in Int,
         Apart(l, y) < 2 * tol, Apart(g, l) < tol
  PROVE  Apart(g, y) < 3 * tol
<1> QED
  BY DEF Apart

LEMMA ShooterInitType == ShooterInit => ShooterTypeOK
<1> QED
  BY ShooterAssumption DEF ShooterInit, A!Init, ShooterTypeOK

LEMMA ShooterStepType == ShooterTypeOK /\ [ShooterNext]_shootervars => ShooterTypeOK'
<1> SUFFICES ASSUME ShooterTypeOK, [ShooterNext]_shootervars PROVE ShooterTypeOK'
  OBVIOUS
<1>1. CASE Compute
  BY <1>1 DEF Compute, A!Work, ShooterTypeOK
<1>2. CASE Command
  <2>1. /\ stage' \in {"idle", "aiming"} /\ commanded' \in BOOLEAN /\ valid' \in BOOLEAN
        /\ listed' \in BOOLEAN
    <3>1. CASE A!Refuse /\ listed' = FALSE
      BY <3>1 DEF A!Refuse, ShooterTypeOK
    <3>2. CASE A!Answer /\ listed' = TRUE
      BY <3>2 DEF A!Answer, ShooterTypeOK
    <3> QED
      BY <1>2, <3>1, <3>2 DEF Command
  <2>2. yaw' \in Int
    <3>1. PICK y \in (IF commanded' THEN Yaws ELSE {0}), offset \in Offsets :
            yaw' = y + offset
      BY <1>2 DEF Command
    <3>2. y \in Int /\ offset \in Int
      BY ShooterAssumption
    <3> QED
      BY <3>1, <3>2
  <2> QED
    BY <1>2, <2>1, <2>2 DEF Command, ShooterTypeOK
<1>3. CASE Shoot
  <2>1. fired' \in BOOLEAN
    BY <1>3, Zenon DEF Shoot, ShooterTypeOK, Considered, OnTarget
  <2>2. last' \in Int
    BY <1>3 DEF Shoot, ShooterTypeOK
  <2> QED
    BY <1>3, <2>1, <2>2 DEF Shoot, aimer, ShooterTypeOK
<1>4. CASE UNCHANGED shootervars
  BY <1>4 DEF shootervars, aimer, ShooterTypeOK
<1> QED
  BY <1>1, <1>2, <1>3, <1>4 DEF ShooterNext

\* Yaws of commands, of the gimbal and of the last command are yaws.
THEOREM ShooterTypeCorrect == ShooterSpec => []ShooterTypeOK
<1> QED
  BY ShooterInitType, ShooterStepType, PTL DEF ShooterSpec

\* A shot is fired only with the control and the valid aim point of a frame that
\* has targets, and when the gimbal is within three tolerances of the command of
\* that frame, although shoot compares it with an older one.
THEOREM ShotsAreNear == ShooterSpec => FiresOnTarget
<1>1. ASSUME ShooterTypeOK, [ShooterNext]_shootervars
      PROVE  [Shoot /\ fired' => /\ commanded /\ listed /\ valid
                                /\ Apart(gimbal', yaw) < 3 * tolerance']_shootervars
  <2> SUFFICES ASSUME Shoot, fired'
               PROVE  /\ commanded /\ listed /\ valid
                      /\ Apart(gimbal', yaw) < 3 * tolerance'
    OBVIOUS
  <2>1. /\ Apart(last, yaw) < 2 * tolerance' /\ Apart(gimbal', last) < tolerance'
    BY DEF Shoot, OnTarget
  <2>2. /\ gimbal' \in Int /\ tolerance' \in Int
        /\ last \in Int /\ yaw \in Int
    BY <1>1, ShooterAssumption DEF Shoot, ShooterTypeOK
  <2>3. commanded /\ listed /\ valid
    BY Zenon DEF Shoot, Considered, OnTarget
  <2> QED
    BY <2>1, <2>2, <2>3, ApartSum
<1> QED
  BY <1>1, ShooterTypeCorrect, PTL DEF ShooterSpec, FiresOnTarget
=============================================================================
