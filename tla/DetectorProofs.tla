--------------------------- MODULE DetectorProofs ---------------------------
(***************************************************************************)
(* What detect() returns, for every number of lightbars and every reading  *)
(* of the image.                                                           *)
(***************************************************************************)
EXTENDS Detector, TLAPS

LEMMA InitType == Init => TypeOK
<1> SUFFICES ASSUME Init PROVE TypeOK
  OBVIOUS
<1>1. bars \in [1 .. 0 -> Color] /\ 0 \in 0 .. MaxBars
  BY DetectorAssumption DEF Init
<1> QED
  BY <1>1 DEF Init, TypeOK, Views

\* The iterators stay on lightbars of the frame.
LEMMA AdvanceType ==
  ASSUME TypeOK, Advance
  PROVE  /\ left \in 1 .. MaxBars /\ right \in 1 .. MaxBars
         /\ left' \in Nat \ {0} /\ right' \in Nat /\ left' < right'
<1>1. PICK n \in 0 .. MaxBars : bars \in [1 .. n -> Color]
  BY DEF TypeOK, Views
<1>2. Len(bars) = n
  BY <1>1
<1>3. right <= MaxBars
  BY <1>1, <1>2, DetectorAssumption DEF TypeOK, Advance
<1> QED
  BY <1>3, DetectorAssumption DEF TypeOK, Advance

LEMMA StepType == TypeOK /\ [Next]_vars => TypeOK'
<1> SUFFICES ASSUME TypeOK, [Next]_vars PROVE TypeOK'
  OBVIOUS
<1>1. CASE FindLightbars
  BY <1>1 DEF FindLightbars, TypeOK
<1>2. CASE SkipPair
  BY <1>2, AdvanceType DEF SkipPair, Advance, TypeOK
<1>3. CASE Classify
  <2>1. PICK ratio \in {"narrow", "middle", "wide"}, name \in Names,
             confidence \in Confidences, area \in Areas :
          LET armor == [left |-> left, right |-> right, name |-> name,
                        type |-> get_type(ratio, name), confidence |-> confidence,
                        area |-> area]
          IN  /\ armors' = IF Accepted(armor) THEN Append(armors, armor) ELSE armors
              /\ saved' = IF name # "not_armor" /\ ~Accepted(armor)
                          THEN saved \union {<<left, right>>} ELSE saved
    BY <1>3, Zenon DEF Classify
  <2> DEFINE armor == [left |-> left, right |-> right, name |-> name,
                       type |-> get_type(ratio, name), confidence |-> confidence,
                       area |-> area]
  <2>2. /\ left \in 1 .. MaxBars /\ right \in 1 .. MaxBars
        /\ left' \in Nat \ {0} /\ right' \in Nat /\ left' < right'
    BY <1>3, AdvanceType DEF Classify
  <2>3. armor \in Armor
    BY <2>2 DEF Armor, get_type
  <2> HIDE DEF armor
  <2>4. armors' \in Seq(Armor)
    BY <2>1, <2>3 DEF TypeOK, armor
  <2>5. saved' \subseteq (1 .. MaxBars) \X (1 .. MaxBars)
    BY <2>1, <2>2 DEF TypeOK, armor
  <2> QED
    BY <1>3, <2>2, <2>4, <2>5 DEF Classify, Advance, TypeOK
<1>4. CASE Return
  <2>1. answer' \subseteq Armor
    BY <1>4 DEF Return, TypeOK
  <2> QED
    BY <1>4, <2>1 DEF Return, TypeOK
<1>5. CASE UNCHANGED vars
  BY <1>5 DEF vars, TypeOK
<1> QED
  BY <1>1, <1>2, <1>3, <1>4, <1>5 DEF Next

\* The variables keep their types: the loop over pairs never pairs a lightbar
\* with itself or runs past the list.
THEOREM DetectorTypeCorrect == Spec => []TypeOK
<1> QED
  BY InitType, StepType, PTL DEF Spec

-----------------------------------------------------------------------------

\* One of two candidates that share a lightbar is marked.
LEMMA OneIsMarked ==
  ASSUME NEW i \in 1 .. Len(armors), NEW j \in 1 .. Len(armors), i < j,
         Share(armors[i], armors[j])
  PROVE  Duplicated(i) \/ Duplicated(j)
<1>1. SameSide(armors[i], armors[j]) \/ Adjacent(armors[i], armors[j])
  BY DEF Share, SameSide, Adjacent
<1>2. i \in Losers(i, j) \/ j \in Losers(i, j)
  BY <1>1 DEF Losers
<1> QED
  BY <1>2, Zenon DEF Duplicated

\* No lightbar is part of two of the armors that detect() returns.
THEOREM AnswersAreDisjoint == Spec => []SharesNoLightbar
<1>1. Init => SharesNoLightbar
  BY DEF Init, SharesNoLightbar
<1>2. TypeOK /\ SharesNoLightbar /\ [Next]_vars => SharesNoLightbar'
  <2> SUFFICES ASSUME TypeOK, SharesNoLightbar, [Next]_vars PROVE SharesNoLightbar'
    OBVIOUS
  <2>1. CASE FindLightbars
    BY <2>1 DEF FindLightbars, SharesNoLightbar
  <2>2. CASE SkipPair \/ Classify \/ UNCHANGED vars
    BY <2>2 DEF SkipPair, Classify, vars, SharesNoLightbar
  <2>3. CASE Return
    <3> SUFFICES ASSUME NEW a \in answer', NEW b \in answer', a # b, Share(a, b)
                 PROVE  FALSE
      BY DEF SharesNoLightbar
    <3>1. PICK i \in 1 .. Len(armors) : ~Duplicated(i) /\ a = armors[i]
      BY <2>3 DEF Return
    <3>2. PICK j \in 1 .. Len(armors) : ~Duplicated(j) /\ b = armors[j]
      BY <2>3 DEF Return
    <3>3. i \in Int /\ j \in Int /\ i # j
      BY <3>1, <3>2
    <3>4. CASE i < j
      BY <3>1, <3>2, <3>4, OneIsMarked
    <3>5. CASE j < i
      <4>1. Share(armors[j], armors[i])
        BY <3>1, <3>2 DEF Share
      <4> QED
        BY <3>1, <3>2, <3>5, <4>1, OneIsMarked
    <3> QED
      BY <3>3, <3>4, <3>5
  <2> QED
    BY <2>1, <2>2, <2>3 DEF Next
<1> QED
  BY <1>1, <1>2, InitType, StepType, PTL DEF Spec

-----------------------------------------------------------------------------

IsBalance(a) == a.type = "big" /\ a.name \in {"three", "four", "five"}

\* The strengthening: not even a candidate is one of a two-armor robot.
BalanceInv ==
  /\ \A i \in 1 .. Len(armors) : ~IsBalance(armors[i])
  /\ \A a \in answer : ~IsBalance(a)

LEMMA AcceptedIsNotBalance ==
  ASSUME NEW a, Accepted(a)
  PROVE  ~IsBalance(a)
<1> QED
  BY DEF Accepted, check_type, BigOnly, IsBalance

LEMMA StepBalance == TypeOK /\ BalanceInv /\ [Next]_vars => BalanceInv'
<1> SUFFICES ASSUME TypeOK, BalanceInv, [Next]_vars PROVE BalanceInv'
  OBVIOUS
<1>1. CASE FindLightbars
  BY <1>1 DEF FindLightbars, BalanceInv
<1>2. CASE SkipPair \/ UNCHANGED vars
  BY <1>2 DEF SkipPair, vars, BalanceInv
<1>3. CASE Classify
  <2>1. answer' = answer
    BY <1>3 DEF Classify
  <2>2. armors' = armors \/ \E a : Accepted(a) /\ armors' = Append(armors, a)
    BY <1>3, Zenon DEF Classify
  <2>3. CASE armors' = armors
    BY <2>1, <2>3 DEF BalanceInv
  <2>4. ASSUME NEW a, Accepted(a), armors' = Append(armors, a)
        PROVE  BalanceInv'
    <3>1. Len(armors') = Len(armors) + 1
      BY <2>4 DEF TypeOK
    <3>2. \A i \in 1 .. Len(armors') : armors'[i] = IF i <= Len(armors) THEN armors[i] ELSE a
      BY <2>4 DEF TypeOK
    <3>3. ~IsBalance(a)
      BY <2>4, AcceptedIsNotBalance
    <3> QED
      BY <2>1, <3>1, <3>2, <3>3 DEF BalanceInv, TypeOK
  <2> QED
    BY <2>2, <2>3, <2>4
<1>4. CASE Return
  BY <1>4 DEF Return, BalanceInv
<1> QED
  BY <1>1, <1>2, <1>3, <1>4 DEF Next

\* detect() returns no armor of a two-armor robot: the read past the end of the
\* list in Target::update cannot happen behind it.
THEOREM NoBalanceAnswered == Spec => []NoBalanceArmor
<1>1. Init => BalanceInv
  BY DEF Init, BalanceInv
<1>2. BalanceInv => NoBalanceArmor
  BY DEF BalanceInv, NoBalanceArmor, IsBalance
<1> QED
  BY <1>1, <1>2, StepBalance, InitType, StepType, PTL DEF Spec
-----------------------------------------------------------------------------

\* Whom the test marks shares a lightbar with the other one of the pair.
LEMMA MarkedHasRival ==
  ASSUME NEW k \in 1 .. Len(armors), Duplicated(k)
  PROVE  \E j \in 1 .. Len(armors) : j # k /\ Share(armors[k], armors[j])
<1>1. PICK i, j \in 1 .. Len(armors) : i < j /\ k \in Losers(i, j)
  BY Zenon DEF Duplicated
<1>2. Share(armors[i], armors[j]) /\ Share(armors[j], armors[i])
  <2>1. SameSide(armors[i], armors[j]) \/ Adjacent(armors[i], armors[j])
    BY <1>1 DEF Losers
  <2> QED
    BY <2>1 DEF SameSide, Adjacent, Share
<1>3. k = i \/ k = j
  BY <1>1 DEF Losers
<1>4. i # j
  BY <1>1
<1> QED
  BY <1>2, <1>3, <1>4

\* Nothing but the test takes a candidate out of the answer: what detect() leaves
\* out has another candidate on one of its lightbars.
THEOREM RemovedOnlyForRival == Spec => []RemovedForRival
<1>1. Init => RemovedForRival
  <2> SUFFICES ASSUME Init PROVE RemovedForRival
    OBVIOUS
  <2>1. Len(armors) = 0
    BY DEF Init
  <2> QED
    BY <2>1 DEF RemovedForRival
<1>2. RemovedForRival /\ [Next]_vars => RemovedForRival'
  <2> SUFFICES ASSUME RemovedForRival, [Next]_vars PROVE RemovedForRival'
    OBVIOUS
  <2>1. CASE FindLightbars
    BY <2>1 DEF FindLightbars, RemovedForRival
  <2>2. CASE SkipPair \/ Classify
    BY <2>2 DEF SkipPair, Classify, Advance, RemovedForRival
  <2>3. CASE UNCHANGED vars
    BY <2>3 DEF vars, RemovedForRival, Share
  <2>4. CASE Return
    <3>1. armors' = armors
      BY <2>4 DEF Return
    <3>2. SUFFICES ASSUME NEW i \in 1 .. Len(armors)
                   PROVE  \/ armors[i] \in answer'
                          \/ \E j \in 1 .. Len(armors) : j # i /\ Share(armors[i], armors[j])
      BY <3>1 DEF RemovedForRival, Share
    <3>3. CASE Duplicated(i)
      BY <3>3, MarkedHasRival
    <3>4. CASE ~Duplicated(i)
      BY <2>4, <3>4 DEF Return
    <3> QED
      BY <3>3, <3>4
  <2> QED
    BY <2>1, <2>2, <2>3, <2>4 DEF Next
<1> QED
  BY <1>1, <1>2, PTL DEF Spec
=============================================================================
