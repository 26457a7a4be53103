---------------------------- MODULE SolverProofs ----------------------------
(***************************************************************************)
(* What the search of the yaw finds, for every range, step and resolution  *)
(* of angles: the first candidate with the least error, which is within    *)
(* half the range of where the gimbal faces.                               *)
(***************************************************************************)
EXTENDS Solver, TLAPS

Full == 2 * Half

\* Whole turns apart, with the number of turns named.
Congruent(a, b) == \E k \in Int : a = b + k * Full

LEMMA CongruentIsSame ==
  ASSUME NEW a \in Int, NEW b \in Int, Congruent(a, b)
  PROVE  SameAngle(a, b)
<1>1. Full \in Nat \ {0}
  BY SolverAssumption DEF Full
<1>2. PICK k \in Int : a = b + k * Full
  BY DEF Congruent
<1>3. a - b = k * Full
  BY <1>1, <1>2
<1>4. (k * Full) % Full = 0
  BY <1>1
<1> QED
  BY <1>3, <1>4 DEF SameAngle, Full

LEMMA CongruentTurns ==
  ASSUME NEW a \in Int, NEW b \in Int, Congruent(a, b)
  PROVE  Congruent(a - Full, b) /\ Congruent(a + Full, b)
<1>1. Full \in Nat \ {0}
  BY SolverAssumption DEF Full
<1>2. PICK k \in Int : a = b + k * Full
  BY DEF Congruent
<1>3. a - Full = b + (k - 1) * Full /\ a + Full = b + (k + 1) * Full
  BY <1>1, <1>2
<1> QED
  BY <1>3 DEF Congruent

LEMMA CongruentSelf ==
  ASSUME NEW a \in Int
  PROVE  Congruent(a, a)
<1>1. a = a + 0 * Full
  BY SolverAssumption DEF Full
<1> QED
  BY <1>1 DEF Congruent

LEMMA CongruentShift ==
  ASSUME NEW a \in Int, NEW b \in Int, NEW c \in Int, Congruent(a, b)
  PROVE  Congruent(a + c, b + c)
<1>1. PICK k \in Int : a = b + k * Full
  BY DEF Congruent
<1>2. k * Full \in Int
  BY SolverAssumption DEF Full
<1>3. a + c = (b + c) + k * Full
  BY <1>1, <1>2
<1> QED
  BY <1>3 DEF Congruent

LEMMA CongruentTransitive ==
  ASSUME NEW a \in Int, NEW b \in Int, NEW c \in Int, Congruent(a, b), Congruent(b, c)
  PROVE  Congruent(a, c)
<1>1. PICK k \in Int : a = b + k * Full
  BY DEF Congruent
<1>2. PICK l \in Int : b = c + l * Full
  BY DEF Congruent
<1>3. Full \in Int /\ (k + l) * Full = k * Full + l * Full
  BY SolverAssumption DEF Full
<1>4. a = c + (k + l) * Full
  BY <1>1, <1>2, <1>3
<1> QED
  BY <1>4 DEF Congruent

-----------------------------------------------------------------------------
(***************************************************************************)
(* Types, and where limit_rad stands: its first loop leaves an angle that  *)
(* is not above Half, and its second does not take it there.               *)
(***************************************************************************)

WrapInv ==
  /\ wrap = "up" /\ angle # NaN => angle <= Half
  /\ pc \in {"idle", "next", "solved"} => wrap = "done"
  /\ pc = "try" => i < range
  /\ pc \notin {"idle", "solved"} => ~armor.two_plates

TypeInv == TypeOK /\ WrapInv

LEMMA Constants ==
  /\ Half \in Nat \ {0} /\ Degree \in Nat \ {0} /\ NaN \notin Int
  /\ SearchRange \div 2 \in Nat /\ range \in Nat
  /\ \A yaw \in Yaws : yaw # NaN => yaw \in Circle /\ yaw \in Int
  /\ Circle \subseteq Int /\ 0 \in Circle /\ NaN \notin Circle
  /\ Errors \subseteq Nat /\ Limit \in Nat
<1> QED
  BY SolverAssumption DEF Yaws, Circle, range

LEMMA PlusType ==
  ASSUME NEW a \in Int \union {NaN}, NEW b \in Int
  PROVE  /\ Plus(a, b) \in Int \union {NaN}
         /\ Plus(a, b) = NaN <=> a = NaN
         /\ a # NaN => Plus(a, b) = a + b
<1> QED
  BY Constants DEF Plus

LEMMA TypeInit == Init => TypeInv
<1> QED
  BY Constants DEF Init, TypeInv, TypeOK, WrapInv, Yaws

LEMMA IdleStepKeepsType ==
  ASSUME TypeInv, NEW yaw \in Yaws,
         set_R_gimbal2world(yaw) \/ SolveTwoPlates(yaw) \/ Solve(yaw)
  PROVE  TypeInv'
<1> USE Constants DEF TypeInv, TypeOK, WrapInv
<1>1. 0 \in Yaws /\ NaN \in Yaws /\ <<>> \in Seq(Errors \union {NaN}) /\ 0 \in 0 .. range
  BY DEF Yaws
<1>2. CASE set_R_gimbal2world(yaw)
  BY <1>1, <1>2 DEF set_R_gimbal2world, Away, Forget
<1>3. CASE SolveTwoPlates(yaw)
  BY <1>1, <1>3 DEF SolveTwoPlates, Away, Forget
<1>4. CASE Solve(yaw)
  <2>1. angle' \in Int \union {NaN}
    BY <1>4, PlusType DEF Solve, Limited, Yaws
  <2> QED
    BY <1>1, <1>4, <2>1 DEF Solve, Limited, Forget
<1> QED
  BY <1>2, <1>3, <1>4

LEMMA WrapKeepsType ==
  ASSUME TypeInv, Lower \/ Raise
  PROVE  TypeInv'
<1> USE Constants DEF TypeInv, TypeOK, WrapInv, search
<1>1. CASE Lower
  BY <1>1 DEF Lower
<1>2. CASE Raise
  <2>1. CASE angle # NaN /\ angle <= - Half
    BY <1>2, <2>1 DEF Raise
  <2>2. CASE ~(angle # NaN /\ angle <= - Half)
    <3>1. angle \in Yaws
      BY <1>2, <2>2 DEF Raise, Yaws, Circle
    <3> QED
      BY <1>2, <2>2, <3>1 DEF Raise
  <2> QED
    BY <2>1, <2>2
<1> QED
  BY <1>1, <1>2

LEMMA SearchKeepsType ==
  ASSUME TypeInv,
         Begin \/ Candidate \/ Return \/ \E error \in Errors \union {NaN} : Compare(error)
  PROVE  TypeInv'
<1> USE Constants DEF TypeInv, TypeOK, WrapInv, search
<1>1. CASE Begin
  BY <1>1 DEF Begin
<1>2. CASE Candidate
  <2>1. i * Degree \in Int
    OBVIOUS
  <2>2. angle' \in Int \union {NaN}
    BY <1>2, <2>1, PlusType DEF Candidate, Limited, Yaws
  <2> QED
    BY <1>2, <2>2 DEF Candidate, Limited
<1>3. CASE Return
  BY <1>3 DEF Return
<1>4. ASSUME NEW error \in Errors \union {NaN}, Compare(error) PROVE TypeInv'
  <2>1. min_error' \in Nat /\ best_yaw' \in Yaws
    BY <1>4 DEF Compare
  <2>2. tried' \in Seq(Errors \union {NaN}) /\ i' \in 0 .. range
    BY <1>4 DEF Compare
  <2> QED
    BY <1>4, <2>1, <2>2 DEF Compare
<1> QED
  BY <1>1, <1>2, <1>3, <1>4

LEMMA TypeStep == TypeInv /\ [Next]_vars => TypeInv'
<1> SUFFICES ASSUME TypeInv, [Next]_vars PROVE TypeInv'
  OBVIOUS
<1>1. CASE UNCHANGED vars
  BY <1>1 DEF vars, search, TypeInv, TypeOK, WrapInv
<1> QED
  BY <1>1, IdleStepKeepsType, WrapKeepsType, SearchKeepsType DEF Next, Optimize

\* Every variable keeps its type; limit_rad returns angles of (-pi, pi].
THEOREM TypeCorrect == Spec => []TypeOK
<1>1. TypeInv => TypeOK
  BY DEF TypeInv
<1> QED
  BY <1>1, TypeInit, TypeStep, PTL DEF Spec

-----------------------------------------------------------------------------
(***************************************************************************)
(* The search: each angle is, up to whole turns, what it is the candidate  *)
(* for, and best_yaw is the winner so far or still PnP's.                  *)
(***************************************************************************)

First == gimbal - (SearchRange \div 2)

AngleInv ==
  /\ pc = "first" => (angle # NaN => gimbal # NaN /\ Congruent(angle, First))
  /\ pc \in {"next", "try"} => (yaw0 # NaN => gimbal # NaN /\ Congruent(yaw0, First))
  /\ pc = "try" => (angle # NaN => yaw0 # NaN /\ Congruent(angle, yaw0 + i * Degree))

NoneWins == \A k \in 1 .. Len(tried) : tried[k] = NaN \/ tried[k] >= Limit

\* yaw is the j-th candidate, which wins.
Found(yaw, j) ==
  /\ Wins(j)
  /\ yaw # NaN /\ gimbal # NaN
  /\ Congruent(yaw, First + (j - 1) * Degree)

BestInv ==
  /\ pc \in {"next", "try"} =>
       /\ Len(tried) = i
       /\ \/ NoneWins /\ best_yaw = armor.yaw /\ min_error = Limit
          \/ \E j \in 1 .. Len(tried) : Found(best_yaw, j) /\ min_error = tried[j]
  /\ Solved =>
       /\ Len(tried) <= range
       /\ \/ NoneWins /\ armor.yaw = armor.yaw_raw
          \/ \E j \in 1 .. Len(tried) : Found(armor.yaw, j)

IInv == TypeInv /\ AngleInv /\ BestInv

\* What is not NaN is a number.
LEMMA Numbers ==
  ASSUME TypeOK
  PROVE  /\ gimbal # NaN => gimbal \in Int /\ First \in Int
         /\ yaw0 # NaN => yaw0 \in Int
         /\ angle # NaN => angle \in Int
         /\ armor.yaw # NaN => armor.yaw \in Int
         /\ i \in Nat /\ i * Degree \in Int
         /\ \A k \in 1 .. Len(tried) : tried[k] # NaN => tried[k] \in Nat
<1>1. gimbal \in Yaws /\ yaw0 \in Yaws /\ angle \in Int \union {NaN} /\ armor.yaw \in Yaws
  BY DEF TypeOK
<1>2. gimbal # NaN => gimbal \in Int
  BY <1>1, Constants
<1>3. SearchRange \div 2 \in Int
  BY Constants
<1>4. gimbal # NaN => First \in Int
  BY <1>2, <1>3 DEF First
<1>5. i \in Nat /\ i * Degree \in Int
  BY Constants DEF TypeOK
<1>6. \A k \in 1 .. Len(tried) : tried[k] # NaN => tried[k] \in Nat
  <2>1. \A k \in 1 .. Len(tried) : tried[k] \in Errors \union {NaN}
    BY DEF TypeOK
  <2> QED
    BY <2>1, Constants
<1> QED
  BY <1>1, <1>2, <1>4, <1>5, <1>6, Constants

LEMMA SearchInit == Init => IInv
<1> QED
  BY TypeInit DEF Init, IInv, AngleInv, BestInv, Solved

LEMMA IdleStepKeepsInv ==
  ASSUME IInv, NEW yaw \in Yaws,
         set_R_gimbal2world(yaw) \/ SolveTwoPlates(yaw) \/ Solve(yaw)
  PROVE  AngleInv' /\ BestInv'
<1>1. CASE set_R_gimbal2world(yaw)
  BY <1>1 DEF set_R_gimbal2world, AngleInv, BestInv, Solved
<1>2. CASE SolveTwoPlates(yaw)
  BY <1>2 DEF SolveTwoPlates, AngleInv, BestInv, Solved
<1>3. CASE Solve(yaw)
  <2>1. pc' = "first" /\ gimbal' = gimbal /\ angle' = Plus(gimbal, - (SearchRange \div 2))
    BY <1>3 DEF Solve, Limited
  <2>2. ASSUME gimbal # NaN PROVE angle' = First' /\ First' \in Int
    <3>1. gimbal \in Int /\ SearchRange \div 2 \in Int
      BY <2>2, Numbers, Constants DEF IInv, TypeInv
    <3> QED
      BY <2>1, <2>2, <3>1 DEF Plus, First
  <2>3. gimbal = NaN => angle' = NaN
    BY <2>1 DEF Plus
  <2>4. AngleInv'
    BY <2>1, <2>2, <2>3, CongruentSelf DEF AngleInv
  <2> QED
    BY <2>1, <2>4 DEF BestInv, Solved
<1> QED
  BY <1>1, <1>2, <1>3

\* A turn of limit_rad goes from an angle to one a whole turn away.
LEMMA WrapKeepsInv ==
  ASSUME IInv, Lower \/ Raise
  PROVE  AngleInv' /\ BestInv'
<1>1. UNCHANGED <<pc, gimbal, armor, yaw0, i, min_error, best_yaw, tried>>
  BY DEF Lower, Raise, search
<1>2. pc \notin {"next", "idle", "solved"}
  BY DEF Lower, Raise, IInv, TypeInv, WrapInv
<1>3. \/ angle' = angle
      \/ angle # NaN /\ (angle' = angle - Full \/ angle' = angle + Full)
  BY DEF Lower, Raise, Full
<1>5. First' = First
  BY <1>1 DEF First
<1>4. BestInv'
  <2>1. NoneWins' = NoneWins /\ Solved' = Solved
    BY <1>1 DEF NoneWins, Solved
  <2>2. \A yaw : \A j \in 1 .. Len(tried) : Found(yaw, j)' = Found(yaw, j)
    BY <1>1, <1>5 DEF Found, Wins
  <2> QED
    BY <1>1, <1>2, <2>1, <2>2 DEF IInv, BestInv, Solved
<1>6. CASE angle' = angle
  BY <1>1, <1>4, <1>5, <1>6 DEF IInv, AngleInv
<1>7. CASE angle # NaN /\ (angle' = angle - Full \/ angle' = angle + Full)
  <2>1. angle \in Int
    BY <1>7 DEF IInv, TypeInv, TypeOK
  <2>2. CASE pc = "first"
    <3>1. gimbal # NaN /\ First \in Int /\ Congruent(angle, First)
      BY <1>7, <2>2, Numbers DEF IInv, TypeInv, AngleInv
    <3>2. Congruent(angle', First)
      BY <1>7, <2>1, <3>1, CongruentTurns
    <3> QED
      BY <1>1, <1>4, <1>5, <2>2, <3>1, <3>2 DEF AngleInv
  <2>3. CASE pc = "try"
    <3>1. yaw0 # NaN /\ yaw0 + i * Degree \in Int /\ Congruent(angle, yaw0 + i * Degree)
      <4>1. yaw0 # NaN /\ Congruent(angle, yaw0 + i * Degree)
        BY <1>7, <2>3 DEF IInv, AngleInv
      <4>2. yaw0 \in Int /\ i * Degree \in Int
        BY <4>1, Numbers DEF IInv, TypeInv
      <4> QED
        BY <4>1, <4>2
    <3>2. Congruent(angle', yaw0 + i * Degree)
      BY <1>7, <2>1, <3>1, CongruentTurns
    <3>3. yaw0 # NaN => gimbal # NaN /\ Congruent(yaw0, First)
      BY <2>3 DEF IInv, AngleInv
    <3> QED
      BY <1>1, <1>4, <1>5, <2>3, <3>1, <3>2, <3>3 DEF AngleInv
  <2> QED
    BY <1>2, <2>2, <2>3 DEF IInv, TypeInv, TypeOK
<1> QED
  BY <1>3, <1>6, <1>7

LEMMA BeginKeepsInv ==
  ASSUME IInv, Begin
  PROVE  AngleInv' /\ BestInv'
<1>1. /\ pc = "first" /\ pc' = "next" /\ yaw0' = angle /\ tried' = <<>> /\ i' = 0
      /\ min_error' = Limit /\ best_yaw' = armor.yaw
      /\ UNCHANGED <<gimbal, armor>>
  BY DEF Begin
<1>2. First' = First
  BY <1>1 DEF First
<1> QED
  BY <1>1, <1>2 DEF AngleInv, BestInv, Solved, NoneWins, IInv

LEMMA CandidateKeepsInv ==
  ASSUME IInv, Candidate
  PROVE  AngleInv' /\ BestInv'
<1>1. /\ pc = "next" /\ pc' = "try" /\ angle' = Plus(yaw0, i * Degree)
      /\ UNCHANGED <<gimbal, armor, yaw0, i, min_error, best_yaw, tried>>
  BY DEF Candidate, Limited, search
<1>2. BestInv'
  BY <1>1 DEF BestInv, Solved, NoneWins, Found, Wins, First, IInv
<1>3. i * Degree \in Int /\ (yaw0 # NaN => yaw0 \in Int)
  BY Numbers DEF IInv, TypeInv
<1>4. yaw0 # NaN => angle' = yaw0 + i * Degree /\ yaw0 + i * Degree \in Int
  BY <1>1, <1>3 DEF Plus
<1>5. yaw0 = NaN => angle' = NaN
  BY <1>1 DEF Plus
<1>6. angle' # NaN => yaw0' # NaN /\ Congruent(angle', yaw0' + i' * Degree)
  BY <1>1, <1>4, <1>5, CongruentSelf
<1>7. First' = First
  BY <1>1 DEF First
<1>8. yaw0 # NaN => gimbal # NaN /\ Congruent(yaw0, First)
  BY <1>1 DEF IInv, AngleInv
<1> QED
  BY <1>1, <1>2, <1>6, <1>7, <1>8 DEF AngleInv

\* A better candidate than all before it wins, and one that is not leaves the
\* winner as it is.
LEMMA CompareKeepsInv ==
  ASSUME IInv, NEW error \in Errors \union {NaN}, Compare(error)
  PROVE  AngleInv' /\ BestInv'
<1> DEFINE better == error # NaN /\ error < min_error
<1>1. /\ pc = "try" /\ pc' = "next"
      /\ angle = NaN => error = NaN
      /\ min_error' = IF better THEN error ELSE min_error
      /\ best_yaw' = IF better THEN angle ELSE best_yaw
      /\ tried' = Append(tried, error) /\ i' = i + 1
      /\ UNCHANGED <<gimbal, armor, yaw0>>
  BY DEF Compare
<1>2. First' = First
  BY <1>1 DEF First
<1>3. AngleInv'
  BY <1>1, <1>2 DEF IInv, AngleInv
<1>4. /\ tried \in Seq(Errors \union {NaN}) /\ i \in Nat /\ Len(tried) = i
      /\ min_error \in Nat /\ armor.two_plates = FALSE
      /\ error # NaN => error \in Nat
  BY <1>1, Constants DEF IInv, TypeInv, TypeOK, WrapInv, BestInv
<1>5. /\ Len(tried') = i + 1 /\ tried'[i + 1] = error
      /\ \A k \in 1 .. i : tried'[k] = tried[k]
  BY <1>1, <1>4
<1>6. \A k \in 1 .. i : tried[k] # NaN => tried[k] \in Nat
  BY <1>4, Numbers DEF IInv, TypeInv
<1>7. \/ NoneWins /\ best_yaw = armor.yaw /\ min_error = Limit
      \/ \E j \in 1 .. i : Found(best_yaw, j) /\ min_error = tried[j]
  BY <1>1, <1>4 DEF IInv, BestInv
<1> HIDE DEF better
<1>8. CASE better
  <2> USE DEF better
  <2>1. error # NaN /\ error \in Nat /\ error < min_error /\ angle # NaN
    BY <1>1, <1>4, <1>8
  <2>2. min_error <= Limit
    BY <1>4, <1>7, Constants, <1>6 DEF Found, Wins
  <2>3. \A k \in 1 .. i : tried[k] # NaN => error < tried[k]
    <3>1. CASE NoneWins /\ min_error = Limit
      BY <1>4, <1>6, <2>1, <3>1, Constants DEF NoneWins
    <3>2. ASSUME NEW j \in 1 .. i, Wins(j), min_error = tried[j]
          PROVE  \A k \in 1 .. i : tried[k] # NaN => error < tried[k]
      BY <1>4, <1>6, <2>1, <3>2 DEF Wins
    <3> QED
      BY <1>7, <3>1, <3>2 DEF Found
  <2>4. PICK n \in Nat : n = i + 1
    BY <1>4
  <2>5. Wins(n)'
    <3>1. tried'[n] # NaN /\ tried'[n] < Limit
      BY <1>4, <1>5, <2>1, <2>2, <2>4, Constants
    <3>2. ASSUME NEW k \in 1 .. n, tried'[k] # NaN
          PROVE  tried'[n] <= tried'[k] /\ (k < n => tried'[n] < tried'[k])
      <4>1. CASE k = n
        BY <1>5, <2>1, <2>4, <4>1
      <4>2. CASE k \in 1 .. i
        BY <1>5, <1>6, <2>1, <2>3, <2>4, <3>2, <4>2
      <4> QED
        BY <1>4, <2>4, <4>1, <4>2
    <3>3. Len(tried') = n
      BY <1>5, <2>4
    <3> QED
      BY <3>1, <3>2, <3>3 DEF Wins
  <2>6. Congruent(angle, First + i * Degree) /\ gimbal # NaN
    <3>1. /\ yaw0 # NaN /\ gimbal # NaN
          /\ Congruent(angle, yaw0 + i * Degree) /\ Congruent(yaw0, First)
      BY <1>1, <2>1 DEF IInv, AngleInv
    <3>2. /\ angle \in Int /\ yaw0 \in Int /\ First \in Int /\ i * Degree \in Int
          /\ yaw0 + i * Degree \in Int /\ First + i * Degree \in Int
      <4>1. angle \in Int /\ yaw0 \in Int /\ First \in Int /\ i * Degree \in Int
        BY <2>1, <3>1, Numbers DEF IInv, TypeInv
      <4> QED
        BY <4>1
    <3>3. Congruent(yaw0 + i * Degree, First + i * Degree)
      BY <3>1, <3>2, CongruentShift
    <3> QED
      BY <3>1, <3>2, <3>3, CongruentTransitive
  <2>7. Found(best_yaw, n)' /\ min_error' = tried'[n]
    <3>1. n - 1 = i
      BY <1>4, <2>4
    <3>2. best_yaw' = angle /\ gimbal' = gimbal /\ min_error' = error
      BY <1>1, <1>8
    <3>3. tried'[n] = error
      BY <1>5, <2>4
    <3> QED
      BY <1>2, <2>1, <2>5, <2>6, <3>1, <3>2, <3>3 DEF Found
  <2>8. n \in 1 .. Len(tried')
    BY <1>4, <1>5, <2>4
  <2> QED
    BY <1>1, <1>3, <1>5, <2>7, <2>8 DEF BestInv, Solved
<1>9. CASE ~better
  <2>1. best_yaw' = best_yaw /\ min_error' = min_error
    BY <1>1, <1>9
  <2>2. error = NaN \/ error >= min_error
    BY <1>4, <1>9 DEF better
  <2>3. CASE NoneWins /\ best_yaw = armor.yaw /\ min_error = Limit
    <3>1. NoneWins'
      <4>1. ASSUME NEW k \in 1 .. i + 1 PROVE tried'[k] = NaN \/ tried'[k] >= Limit
        BY <1>4, <1>5, <2>2, <2>3 DEF NoneWins
      <4> QED
        BY <1>5, <4>1 DEF NoneWins
    <3> QED
      BY <1>1, <1>3, <1>5, <2>1, <2>3, <3>1 DEF BestInv, Solved
  <2>4. ASSUME NEW j \in 1 .. i, Found(best_yaw, j), min_error = tried[j]
        PROVE  BestInv'
    <3>1. tried'[j] = tried[j] /\ j \in 1 .. Len(tried')
      BY <1>4, <1>5
    <3>2. ASSUME NEW k \in 1 .. i + 1, tried'[k] # NaN
          PROVE  tried'[j] <= tried'[k] /\ (k < j => tried'[j] < tried'[k])
      <4>1. CASE k = i + 1
        BY <1>4, <1>5, <2>2, <2>4, <3>1, <3>2, <4>1
      <4>2. CASE k \in 1 .. i
        BY <1>4, <1>5, <2>4, <3>1, <3>2, <4>2 DEF Found, Wins
      <4> QED
        BY <1>4, <4>1, <4>2
    <3>3. Wins(j)'
      BY <1>5, <2>4, <3>1, <3>2 DEF Found, Wins
    <3>4. Found(best_yaw, j)'
      BY <1>1, <1>2, <2>1, <2>4, <3>3 DEF Found
    <3> QED
      BY <1>1, <1>5, <2>1, <2>4, <3>1, <3>4 DEF BestInv, Solved
  <2> QED
    BY <1>3, <1>7, <2>3, <2>4
<1> QED
  BY <1>8, <1>9

LEMMA ReturnKeepsInv ==
  ASSUME IInv, Return
  PROVE  AngleInv' /\ BestInv'
<1>1. /\ pc = "next" /\ pc' = "solved" /\ i >= range
      /\ armor'.yaw_raw = armor.yaw /\ armor'.yaw = best_yaw
      /\ UNCHANGED <<gimbal, tried>>
  BY DEF Return, search, IInv, TypeInv, TypeOK
<1>2. /\ Len(tried) = i /\ i <= range
      /\ \/ NoneWins /\ best_yaw = armor.yaw
         \/ \E j \in 1 .. Len(tried) : Found(best_yaw, j)
  BY <1>1, Constants DEF IInv, BestInv, TypeInv, TypeOK
<1>3. NoneWins' = NoneWins /\ First' = First /\ \A j \in 1 .. Len(tried) : Wins(j)' = Wins(j)
  BY <1>1 DEF NoneWins, First, Wins
<1>4. \A j \in 1 .. Len(tried) : Found(best_yaw, j) => Found(armor.yaw, j)'
  BY <1>1, <1>3 DEF Found
<1> QED
  BY <1>1, <1>2, <1>3, <1>4 DEF AngleInv, BestInv

LEMMA SearchStep == IInv /\ [Next]_vars => IInv'
<1> SUFFICES ASSUME IInv, [Next]_vars PROVE IInv'
  OBVIOUS
<1>1. TypeInv'
  BY TypeStep DEF IInv
<1>2. CASE UNCHANGED vars
  BY <1>1, <1>2 DEF vars, search, IInv, AngleInv, BestInv, Solved, NoneWins, Found, Wins, First
<1> QED
  BY <1>1, <1>2, IdleStepKeepsInv, WrapKeepsInv, BeginKeepsInv, CandidateKeepsInv,
     CompareKeepsInv, ReturnKeepsInv DEF Next, Optimize, IInv

\* The search is inductive: IInv says of each step of it which candidate the
\* angle at hand is and which has won so far.
THEOREM SearchInvariant == Spec => []IInv
<1> QED
  BY SearchInit, SearchStep, PTL DEF Spec

LEMMA FoundIsSame ==
  ASSUME IInv, Solved, NEW j \in 1 .. Len(tried), Found(armor.yaw, j)
  PROVE  /\ SameAngle(armor.yaw, gimbal - (SearchRange \div 2) + (j - 1) * Degree)
         /\ (j - 1) * Degree \in 0 .. SearchRange
<1>1. armor.yaw \in Int /\ gimbal \in Int /\ j - 1 \in Nat /\ j - 1 < range
  <2>1. armor.yaw # NaN /\ gimbal # NaN
    BY DEF Found
  <2>2. armor.yaw \in Int /\ gimbal \in Int
    BY <2>1, Numbers DEF IInv, TypeInv
  <2>3. Len(tried) <= range /\ Len(tried) \in Nat
    BY DEF IInv, BestInv, TypeInv, TypeOK
  <2> QED
    BY <2>2, <2>3, Constants
<1>2. (j - 1) * Degree \in Nat /\ First \in Int /\ First + (j - 1) * Degree \in Int
  BY <1>1, Constants DEF First
<1>3. SameAngle(armor.yaw, First + (j - 1) * Degree)
  BY <1>1, <1>2, CongruentIsSame DEF Found
<1>4. (j - 1) * Degree <= range * Degree /\ range * Degree <= SearchRange
  BY <1>1, SolverAssumption DEF range
<1> QED
  BY <1>1, <1>2, <1>3, <1>4, Constants, SolverAssumption DEF First

\* solve() leaves the first candidate with the least error, or PnP's yaw when
\* no error is below the limit, for every number and resolution of candidates.
THEOREM LeastErrorAlwaysWins == Spec => []LeastErrorWins
<1>1. IInv => LeastErrorWins
  BY FoundIsSame DEF LeastErrorWins, IInv, BestInv, NoneWins, Found
<1> QED
  BY <1>1, SearchInvariant, PTL

\* A yaw that is not PnP's is within half the range of the gimbal's, for every
\* range and across the back.
THEOREM YawFacesGimbal == Spec => []FacesGimbal
<1>1. IInv => FacesGimbal
  <2> SUFFICES ASSUME IInv, Solved, armor.yaw # armor.yaw_raw
               PROVE  /\ armor.yaw # NaN /\ gimbal # NaN
                      /\ \E d \in - (SearchRange \div 2) .. (SearchRange \div 2) :
                           SameAngle(armor.yaw, gimbal + d)
    BY DEF FacesGimbal
  <2>1. PICK j \in 1 .. Len(tried) : Found(armor.yaw, j)
    BY DEF IInv, BestInv
  <2>2. (j - 1) * Degree \in 0 .. SearchRange
    BY <2>1, FoundIsSame
  <2>3. gimbal \in Int /\ armor.yaw # NaN /\ gimbal # NaN
    BY <2>1, Constants DEF IInv, TypeInv, TypeOK, Found
  <2> DEFINE d == (j - 1) * Degree - (SearchRange \div 2)
  <2>4. d \in - (SearchRange \div 2) .. (SearchRange \div 2)
    BY <2>2, SolverAssumption
  <2>5. gimbal - (SearchRange \div 2) + (j - 1) * Degree = gimbal + d
    BY <2>2, <2>3, Constants
  <2>6. SameAngle(armor.yaw, gimbal + d)
    BY <2>1, <2>5, FoundIsSame
  <2> QED
    BY <2>3, <2>4, <2>6
<1> QED
  BY <1>1, SearchInvariant, PTL
=============================================================================
