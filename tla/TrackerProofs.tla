---------------------------- MODULE TrackerProofs ----------------------------
(***************************************************************************)
(* Theorems about Tracker, for every set of kinds, every window size and   *)
(* every configured count.                                                 *)
(***************************************************************************)
EXTENDS Tracker, FiniteSetTheorems, TLAPS

-----------------------------------------------------------------------------
(***************************************************************************)
(* The window of test results                                              *)
(***************************************************************************)

\* The number of failed tests in a window is a natural number, at most the
\* window's length (Failures, the sum of recent_nis_failures).
LEMMA FailuresType ==
  ASSUME NEW w \in Seq({0, 1})
  PROVE  /\ IsFiniteSet({i \in DOMAIN w : w[i] = 1})
         /\ Failures(w) \in Nat
<1>1. /\ DOMAIN w = 1 .. Len(w)
      /\ Len(w) \in Nat
  OBVIOUS
<1>2. IsFiniteSet(1 .. Len(w))
  BY <1>1, FS_Interval
<1>3. {i \in DOMAIN w : w[i] = 1} \subseteq 1 .. Len(w)
  BY <1>1
<1> QED
  BY <1>2, <1>3, FS_Subset, FS_CardinalityType DEF Failures

\* Appending a test result adds it to the number of failures.
LEMMA FailuresAppend ==
  ASSUME NEW w \in Seq({0, 1}), NEW bit \in {0, 1}
  PROVE  Failures(Append(w, bit)) = Failures(w) + bit
<1> DEFINE longer == Append(w, bit)
           n == Len(w) + 1
           F == {i \in DOMAIN w : w[i] = 1}
           G == {i \in DOMAIN longer : longer[i] = 1}
<1>1. /\ Len(w) \in Nat
      /\ DOMAIN w = 1 .. Len(w)
      /\ DOMAIN longer = 1 .. n
      /\ longer[n] = bit
      /\ \A i \in 1 .. Len(w) : longer[i] = w[i]
  OBVIOUS
<1>2. IsFiniteSet(F) /\ n \notin F
  <2>1. IsFiniteSet(F)
    BY FailuresType
  <2>2. n \notin DOMAIN w
    BY <1>1
  <2> QED
    BY <2>1, <2>2
<1>3. CASE bit = 1
  <2>1. G = F \union {n}
    BY <1>1, <1>3
  <2>2. Cardinality(G) = Cardinality(F) + 1
    BY <1>2, <2>1, FS_AddElement
  <2> QED
    BY <2>2, <1>3 DEF Failures
<1>4. CASE bit = 0
  <2>1. G = F
    BY <1>1, <1>4
  <2>2. Failures(longer) = Failures(w)
    BY <2>1, Zenon DEF Failures
  <2>3. Failures(w) \in Nat
    BY FailuresType
  <2> QED
    BY <2>2, <2>3, <1>4
<1>5. bit = 1 \/ bit = 0
  OBVIOUS
<1> QED
  BY <1>3, <1>4, <1>5

\* The window keeps its elements in {0, 1} and its length within 1 .. Window
\* (push_back, then pop_front past window_size).
LEMMA SlideType ==
  ASSUME NEW w \in Seq({0, 1}), NEW bit \in {0, 1}, Len(w) \in 1 .. Window
  PROVE  /\ Slide(w, bit) \in Seq({0, 1})
         /\ Len(Slide(w, bit)) \in 1 .. Window
<1> DEFINE longer == Append(w, bit)
<1>1. longer \in Seq({0, 1}) /\ Len(longer) = Len(w) + 1
  OBVIOUS
<1>2. Window \in Nat \ {0}
  BY TargetAssumption
<1>3. CASE Len(longer) > Window
  <2>1. /\ Tail(longer) \in Seq({0, 1})
        /\ Len(Tail(longer)) = Len(longer) - 1
    BY <1>1
  <2> QED
    BY <1>1, <1>2, <1>3, <2>1 DEF Slide
<1>4. CASE ~(Len(longer) > Window)
  BY <1>1, <1>2, <1>4 DEF Slide
<1> QED
  BY <1>3, <1>4

\* An update keeps nis_count_ equal to the failures in the window.
LEMMA NisCountStep ==
  ASSUME NEW tgt, NEW bit \in {0, 1},
         tgt.nis \in Seq({0, 1}), Len(tgt.nis) \in 1 .. Window,
         tgt.nis_count = Failures(tgt.nis)
  PROVE  /\ NisCountAfter(tgt, bit) = Failures(Slide(tgt.nis, bit))
         /\ NisCountAfter(tgt, bit) \in Nat
<1> DEFINE w == tgt.nis
<1>1. Len(Append(w, bit)) = Len(w) + 1
  OBVIOUS
<1>2. Failures(Slide(w, bit)) \in Nat
  BY SlideType, FailuresType
<1>3. CASE Len(w) + 1 > Window
  BY <1>1, <1>2, <1>3 DEF NisCountAfter
<1>4. CASE ~(Len(w) + 1 > Window)
  <2>1. Slide(w, bit) = Append(w, bit)
    BY <1>1, <1>4 DEF Slide
  <2> QED
    BY <2>1, <1>2, <1>4, FailuresAppend DEF NisCountAfter
<1> QED
  BY <1>3, <1>4

-----------------------------------------------------------------------------
(***************************************************************************)
(* The inductive invariant                                                 *)
(***************************************************************************)

\* Between calls and up to the branch the loop stands at its start.
LoopAtStart == pc # "update" /\ pc # "finish" => at = 1

\* A target was set before any state reads it.
TargetIsSet ==
  /\ pc = "update" => state # "lost"
  /\ state # "lost" => target.kind # NoKind
  /\ pc = "finish" /\ found => target.kind # NoKind

\* The counters of the state machine are inside the configured limits.
CountsInRange ==
  /\ state = "detecting" => detect_count \in 1 .. Confirm - 1
  /\ state = "temp_lost" => temp_lost_count \in 1 .. Patience

IInv ==
  /\ TypeOK
  /\ NisCountExact
  /\ LoopAtStart
  /\ TargetIsSet
  /\ CountsInRange
  /\ AnswerIsSound

\* The list of a finished call.
LEMMA EmptyArmors == <<>> \in Seq(Kinds) /\ 1 \in 1 .. Len(<<>>) + 1
<1> QED
  OBVIOUS

\* A new target is well typed and its window holds no failure, whatever the
\* old target was (the constructor of Target).
LEMMA NewTargetType ==
  ASSUME NEW kind \in Kinds \union {NoKind}
  PROVE  /\ NewTarget(kind) \in TargetType
         /\ NewTarget(kind).kind = kind
         /\ NewTarget(kind).nis = <<0>>
         /\ Len(NewTarget(kind).nis) \in 1 .. Window
         /\ NewTarget(kind).nis_count = Failures(NewTarget(kind).nis)
<1>1. {i \in DOMAIN <<0>> : <<0>>[i] = 1} = {}
  OBVIOUS
<1>2. Failures(<<0>>) = 0
  BY <1>1, FS_EmptySet, Zenon DEF Failures
<1>3. <<0>> \in Seq({0, 1}) /\ Len(<<0>>) = 1
  OBVIOUS
<1>4. NewTarget(kind).nis = <<0>> /\ NewTarget(kind).nis_count = 0
  BY DEF NewTarget
<1>5. NewTarget(kind) \in TargetType
  BY <1>3, TargetAssumption DEF NewTarget, TargetType, Ids, Radii
<1> QED
  BY <1>2, <1>3, <1>4, <1>5, TargetAssumption DEF NewTarget

\* Updating a target keeps its type, its kind and the exactness of its count
\* (Target::update and ExtendedKalmanFilter::update).
LEMMA UpdateType ==
  ASSUME NEW tgt \in TargetType, NEW obs \in Observations,
         NEW id \in Ids, NEW r \in Radii,
         Len(tgt.nis) \in 1 .. Window, tgt.nis_count = Failures(tgt.nis)
  PROVE  LET new == Update(tgt, obs, id, r)
         IN  /\ new \in TargetType
             /\ new.kind = tgt.kind
             /\ Len(new.nis) \in 1 .. Window
             /\ new.nis_count = Failures(new.nis)
<1> DEFINE bit == NisBit(tgt, obs)
           new == Update(tgt, obs, id, r)
<1>1. bit \in {0, 1}
  BY DEF NisBit
<1>2. tgt.nis \in Seq({0, 1})
  BY DEF TargetType
<1>3. /\ Slide(tgt.nis, bit) \in Seq({0, 1})
      /\ Len(Slide(tgt.nis, bit)) \in 1 .. Window
  BY <1>1, <1>2, SlideType
<1>4. /\ NisCountAfter(tgt, bit) = Failures(Slide(tgt.nis, bit))
      /\ NisCountAfter(tgt, bit) \in Nat
  BY <1>1, <1>2, NisCountStep
<1>5. /\ new.kind = tgt.kind
      /\ new.nis = Slide(tgt.nis, bit)
      /\ new.nis_count = NisCountAfter(tgt, bit)
  BY DEF Update, TargetType
<1>6. new \in TargetType
  <2> HIDE DEF bit
  <2>1. (IF tgt.update_count < UpdateCap
         THEN tgt.update_count + 1 ELSE tgt.update_count) \in 0 .. UpdateCap
    BY TargetAssumption DEF TargetType
  <2>2. (tgt.jumped \/ id # "front") \in BOOLEAN
    OBVIOUS
  <2> QED
    BY <1>3, <1>4, <2>1, <2>2 DEF Update, TargetType, bit
<1> QED
  BY <1>3, <1>4, <1>5, <1>6

\* Filtering and sorting a frame yields a list of kinds (remove_if and the two
\* sorts at the head of track()).
LEMMA SortedType ==
  ASSUME NEW frame \in Frames, NEW use_enemy_color \in BOOLEAN,
         NEW order \in Orders(frame, Kept(frame, use_enemy_color))
  PROVE  [a \in DOMAIN order |-> frame[order[a]].kind] \in Seq(Kinds)
<1> DEFINE kept == Kept(frame, use_enemy_color)
           k == Cardinality(kept)
<1>1. PICK n \in 0 .. MaxArmors : frame \in [1 .. n -> Armor]
  BY DEF Frames
<1>2. kept \subseteq 1 .. n
  BY <1>1 DEF Kept
<1>3. n \in Int
  BY TrackerAssumption
<1>4. k \in Nat
  <2>1. IsFiniteSet(1 .. n)
    BY <1>3, FS_Interval
  <2>2. IsFiniteSet(kept)
    BY <1>2, <2>1, FS_Subset, Zenon
  <2> QED
    BY <2>2, FS_CardinalityType, Zenon
<1>5. order \in [1 .. k -> kept]
  BY DEF Orders
<1> HIDE DEF kept, k
<1>6. \A a \in 1 .. k : frame[order[a]].kind \in Kinds
  <2> TAKE a \in 1 .. k
  <2>1. order[a] \in 1 .. n
    BY <1>2, <1>5
  <2> QED
    BY <1>1, <2>1 DEF Armor
<1>7. [a \in DOMAIN order |-> frame[order[a]].kind] \in [1 .. k -> Kinds]
  BY <1>5, <1>6
<1> QED
  BY <1>4, <1>7

-----------------------------------------------------------------------------

\* The invariant holds before the first call (the constructor of Tracker).
LEMMA InitIInv == Init => IInv
<1> SUFFICES ASSUME Init PROVE IInv
  OBVIOUS
<1>1. /\ target \in TargetType /\ Len(target.nis) \in 1 .. Window
      /\ target.nis_count = Failures(target.nis)
  BY NewTargetType DEF Init, DefaultTarget
<1>2. TypeOK
  BY <1>1, EmptyArmors DEF Init, TypeOK, States
<1>3. NisCountExact
  BY <1>1 DEF NisCountExact
<1>4. LoopAtStart /\ TargetIsSet /\ CountsInRange /\ AnswerIsSound
  BY DEF Init, LoopAtStart, TargetIsSet, CountsInRange, AnswerIsSound
<1> QED
  BY <1>2, <1>3, <1>4 DEF IInv

\* Every step of a call keeps the invariant.
LEMMA NextIInv == IInv /\ [Next]_vars => IInv'
<1> SUFFICES ASSUME IInv, [Next]_vars PROVE IInv'
  OBVIOUS
<1> USE DEF IInv
<1>1. ASSUME NEW frame \in Frames, NEW gap \in BOOLEAN,
             NEW use_enemy_color \in BOOLEAN,
             Track(frame, gap, use_enemy_color)
      PROVE  IInv'
  <2>1. armors' \in Seq(Kinds)
    BY <1>1, SortedType DEF Track
  <2>2. TypeOK'
    BY <1>1, <2>1 DEF Track, TypeOK, States, LoopAtStart
  <2>3. (NisCountExact /\ LoopAtStart /\ TargetIsSet /\ CountsInRange /\ AnswerIsSound)'
    BY <1>1 DEF Track, NisCountExact, LoopAtStart, TargetIsSet, CountsInRange, AnswerIsSound
  <2> QED
    BY <2>2, <2>3
<1>2. CASE SetTarget
  <2>1. CASE armors = <<>>
    BY <1>2, <2>1 DEF SetTarget, TypeOK, NisCountExact, LoopAtStart, TargetIsSet,
                      CountsInRange, AnswerIsSound
  <2>2. CASE armors # <<>>
    <3>1. Head(armors) \in Kinds
      BY <2>2 DEF TypeOK
    <3>2. /\ target' \in TargetType /\ target'.kind = Head(armors)
          /\ Len(target'.nis) \in 1 .. Window
          /\ target'.nis_count = Failures(target'.nis)
      BY <1>2, <2>2, <3>1, NewTargetType DEF SetTarget
    <3>3. TypeOK'
      BY <1>2, <2>2, <3>2 DEF SetTarget, TypeOK
    <3>4. NisCountExact'
      BY <3>2 DEF NisCountExact
    <3>5. TargetIsSet'
      BY <1>2, <3>1, <3>2, TargetAssumption DEF SetTarget, TargetIsSet
    <3>6. (LoopAtStart /\ CountsInRange /\ AnswerIsSound)'
      BY <1>2 DEF SetTarget, LoopAtStart, CountsInRange, AnswerIsSound
    <3> QED
      BY <3>3, <3>4, <3>5, <3>6
  <2> QED
    BY <2>1, <2>2
<1>3. CASE UpdateTarget
  BY <1>3 DEF UpdateTarget, TypeOK, NisCountExact, LoopAtStart, TargetIsSet,
              CountsInRange, AnswerIsSound
<1>4. CASE UpdateArmor
  <2>1. at' \in 1 .. Len(armors') + 1
    BY <1>4 DEF UpdateArmor, TypeOK
  <2>2. CASE UNCHANGED target
    BY <1>4, <2>1, <2>2 DEF UpdateArmor, TypeOK, NisCountExact, LoopAtStart,
                            TargetIsSet, CountsInRange, AnswerIsSound
  <2>3. ASSUME NEW obs \in Observations, NEW id \in MatchedIds(target, obs),
               NEW r \in RadiiAfter(target, obs),
               target' = Update(target, obs, id, r)
        PROVE  IInv'
    <3>1. id \in Ids /\ r \in Radii
      BY <2>3 DEF MatchedIds, RadiiAfter, Ids, Radii
    <3>2. target \in TargetType
      BY DEF TypeOK
    <3>3. /\ target' \in TargetType /\ target'.kind = target.kind
          /\ Len(target'.nis) \in 1 .. Window
          /\ target'.nis_count = Failures(target'.nis)
      BY <2>3, <3>1, <3>2, UpdateType DEF NisCountExact
    <3>4. TypeOK'
      BY <1>4, <2>1, <3>3 DEF UpdateArmor, TypeOK
    <3>5. (NisCountExact /\ TargetIsSet)'
      BY <1>4, <3>3 DEF UpdateArmor, NisCountExact, TargetIsSet
    <3>6. (LoopAtStart /\ CountsInRange /\ AnswerIsSound)'
      BY <1>4 DEF UpdateArmor, LoopAtStart, CountsInRange, AnswerIsSound
    <3> QED
      BY <3>4, <3>5, <3>6
  <2> QED
    BY <1>4, <2>2, <2>3 DEF UpdateArmor, Absorb
<1>5. CASE UpdateTargetReturns
  BY <1>5 DEF UpdateTargetReturns, TypeOK, NisCountExact, LoopAtStart, TargetIsSet,
              CountsInRange, AnswerIsSound
<1>6. CASE Finish
  <2>1. PICK next \in States :
          /\ state_machine(next)
          /\ IF GivenUp(next) \/ next = "lost"
             THEN state' = "lost" /\ answer' = {}
             ELSE state' = next /\ answer' = {target.kind}
    BY <1>6 DEF Finish
  <2>2. /\ pc = "finish" /\ pc' = "idle" /\ found' = FALSE
        /\ armors' = <<>> /\ at' = 1 /\ UNCHANGED target
    BY <1>6 DEF Finish
  <2>3. next # "lost" => target.kind \in Kinds
    BY <2>1, <2>2 DEF state_machine, StateAfter, TargetIsSet, TypeOK, TargetType, States
  <2>4. detect_count' \in Nat /\ temp_lost_count' \in Nat
    BY <2>1 DEF state_machine, DetectCountAfter, TempLostCountAfter, TypeOK
  <2>5. TypeOK'
    BY <2>1, <2>2, <2>3, <2>4, EmptyArmors DEF TypeOK, States
  <2>6. CountsInRange'
    <3>1. CASE next = "detecting"
      BY <2>1, <3>1, TrackerAssumption
      DEF state_machine, StateAfter, DetectCountAfter, CountsInRange, Confirm, Larger,
          TypeOK, States
    <3>2. CASE next = "temp_lost"
      BY <2>1, <3>2, TrackerAssumption
      DEF state_machine, StateAfter, TempLostCountAfter, CountsInRange, Patience, Larger,
          TypeOK, States
    <3>3. CASE next \in {"lost", "tracking"}
      BY <2>1, <3>3 DEF CountsInRange
    <3> QED
      BY <3>1, <3>2, <3>3 DEF States
  <2>7. AnswerIsSound'
    BY <2>1, <2>2, <2>3, TargetAssumption
    DEF AnswerIsSound, GivenUp, diverged, BadConverge
  <2>8. (NisCountExact /\ LoopAtStart /\ TargetIsSet)'
    BY <2>1, <2>2, <2>3, TargetAssumption DEF NisCountExact, LoopAtStart, TargetIsSet
  <2> QED
    BY <2>5, <2>6, <2>7, <2>8
<1>7. CASE UNCHANGED vars
  BY <1>7 DEF vars, TypeOK, NisCountExact, LoopAtStart, TargetIsSet, CountsInRange,
              AnswerIsSound, diverged, BadConverge
<1> QED
  BY <1>1, <1>2, <1>3, <1>4, <1>5, <1>6, <1>7 DEF Next, Call

\* The strengthened invariant holds in every state of every run of track().
THEOREM Invariance == Spec => []IInv
<1> QED
  BY InitIInv, NextIInv, PTL DEF Spec

\* Every variable of the tracker keeps its type, whatever the configuration.
THEOREM TypeCorrect == Spec => []TypeOK
<1>1. IInv => TypeOK
  BY DEF IInv
<1> QED
  BY <1>1, Invariance, PTL

\* nis_count_ always is the number of failed tests in the window, and the
\* window never outgrows window_size.
THEOREM NisCountIsExact == Spec => []NisCountExact
<1>1. IInv => NisCountExact
  BY DEF IInv
<1> QED
  BY <1>1, Invariance, PTL

\* No call of track() ever returns a target that fails one of its two tests.
THEOREM AnswersAreSound == Spec => []AnswerIsSound
<1>1. IInv => AnswerIsSound
  BY DEF IInv
<1> QED
  BY <1>1, Invariance, PTL

-----------------------------------------------------------------------------
(***************************************************************************)
(* The tracker implements its contract                                     *)
(***************************************************************************)

LEMMA InitContract == Init => Contract!Init
<1> QED
  BY DEF Init, Contract!Init

\* Every step of a call is a step of the contract or none.
LEMMA StepContract ==
  IInv /\ IInv' /\ [Next]_vars => [Contract!Next]_Contract!cvars
<1> SUFFICES ASSUME IInv, IInv', [Next]_vars
             PROVE  [Contract!Next]_Contract!cvars
  OBVIOUS
<1> USE DEF Contract!cvars
<1>1. ASSUME NEW frame \in Frames, NEW gap \in BOOLEAN,
             NEW use_enemy_color \in BOOLEAN,
             Track(frame, gap, use_enemy_color)
      PROVE  [Contract!Next]_Contract!cvars
  <2>1. CASE gap
    <3>1. Contract!GiveUp
      BY <1>1, <2>1 DEF Track, Contract!GiveUp
    <3> QED
      BY <3>1 DEF Contract!Next
  <2>2. CASE ~gap
    BY <1>1, <2>2 DEF Track
  <2> QED
    BY <2>1, <2>2
<1>2. CASE SetTarget
  BY <1>2 DEF SetTarget
<1>3. CASE UpdateTarget
  BY <1>3 DEF UpdateTarget
<1>4. CASE UpdateArmor
  <2>1. target \in TargetType /\ Len(target.nis) \in 1 .. Window
        /\ target.nis_count = Failures(target.nis)
    BY DEF IInv, TypeOK, NisCountExact
  <2>2. target'.kind = target.kind
    <3>1. CASE UNCHANGED target
      BY <3>1
    <3>2. ASSUME NEW obs \in Observations, NEW id \in MatchedIds(target, obs),
                 NEW r \in RadiiAfter(target, obs),
                 target' = Update(target, obs, id, r)
          PROVE  target'.kind = target.kind
      BY <2>1, <3>2 DEF Update, TargetType
    <3> QED
      BY <1>4, <3>1, <3>2 DEF UpdateArmor, Absorb
  <2> QED
    BY <1>4, <2>2 DEF UpdateArmor
<1>5. CASE UpdateTargetReturns
  BY <1>5 DEF UpdateTargetReturns
<1>6. CASE Finish
  <2>1. PICK next \in States :
          /\ state_machine(next)
          /\ IF GivenUp(next) \/ next = "lost"
             THEN state' = "lost" /\ answer' = {}
             ELSE state' = next /\ answer' = {target.kind}
    BY <1>6 DEF Finish
  <2>2. pc = "finish" /\ UNCHANGED target
    BY <1>6 DEF Finish
  <2>3. CASE state' = "lost"
    <3>1. Contract!GiveUp
      BY <2>1, <2>3 DEF Contract!GiveUp
    <3> QED
      BY <3>1 DEF Contract!Next
  <2>4. CASE state' # "lost"
    <3>1. state' = next /\ answer' = {target.kind} /\ next # "lost"
      BY <2>1, <2>4
    <3>2. /\ state \in States
          /\ detect_count \in Nat /\ temp_lost_count \in Nat
          /\ state = "detecting" => detect_count \in 1 .. Confirm - 1
          /\ state = "temp_lost" => temp_lost_count \in 1 .. Patience
      BY DEF IInv, TypeOK, CountsInRange
    <3>3. CASE state = "lost"
      <4>1. found /\ next = "detecting" /\ detect_count' = 1
        BY <2>1, <3>1, <3>3 DEF state_machine, StateAfter, DetectCountAfter
      <4>2. target.kind \in Kinds
        BY <2>2, <4>1 DEF IInv, TypeOK, TargetType, TargetIsSet
      <4>3. Contract!Acquire
        BY <2>2, <3>1, <3>3, <4>1, <4>2 DEF Contract!Acquire
      <4> QED
        BY <4>3 DEF Contract!Next
    <3>4. CASE state = "detecting"
      <4>1. /\ found /\ detect_count' = detect_count + 1
            /\ next = IF detect_count + 1 >= MinDetectCount
                      THEN "tracking" ELSE "detecting"
        BY <2>1, <3>1, <3>4 DEF state_machine, StateAfter, DetectCountAfter
      <4>2. (detect_count + 1 >= MinDetectCount) = ~(detect_count + 1 < Confirm)
        BY <3>2, <3>4, TrackerAssumption DEF Confirm, Larger
      <4>3. Contract!Confirmed
        BY <2>2, <3>1, <3>4, <4>1, <4>2 DEF Contract!Confirmed
      <4> QED
        BY <4>3 DEF Contract!Next
    <3>5. CASE state \in {"tracking", "temp_lost"} /\ found
      <4>1. next = "tracking"
        BY <2>1, <3>5 DEF state_machine, StateAfter
      <4>2. Contract!Seen
        BY <2>2, <3>1, <3>5, <4>1 DEF Contract!Seen
      <4> QED
        BY <4>2 DEF Contract!Next
    <3>6. CASE state = "tracking" /\ ~found
      <4>1. next = "temp_lost" /\ temp_lost_count' = 1
        BY <2>1, <3>6 DEF state_machine, StateAfter, TempLostCountAfter
      <4>2. 0 < Patience
        BY TrackerAssumption DEF Patience, Larger
      <4>3. Contract!Missed
        BY <2>2, <3>1, <3>6, <4>1, <4>2 DEF Contract!Missed
      <4> QED
        BY <4>3 DEF Contract!Next
    <3>7. CASE state = "temp_lost" /\ ~found
      <4>1. /\ next = "temp_lost" /\ temp_lost_count' = temp_lost_count + 1
            /\ temp_lost_count + 1 <= MaxTempLostCount
        BY <2>1, <3>1, <3>2, <3>7, TrackerAssumption
        DEF state_machine, StateAfter, TempLostCountAfter
      <4>2. temp_lost_count < Patience
        BY <3>2, <4>1, TrackerAssumption DEF Patience, Larger
      <4>3. Contract!Missed
        BY <2>2, <3>1, <3>7, <4>1, <4>2 DEF Contract!Missed
      <4> QED
        BY <4>3 DEF Contract!Next
    <3> QED
      BY <3>2, <3>3, <3>4, <3>5, <3>6, <3>7 DEF States
  <2> QED
    BY <2>3, <2>4
<1>7. CASE UNCHANGED vars
  BY <1>7 DEF vars
<1> QED
  BY <1>1, <1>2, <1>3, <1>4, <1>5, <1>6, <1>7 DEF Next, Call

\* The tracker follows one robot at a time, is engaged only after Confirm
\* sightings in a row and for at most Patience misses in a row, whatever the
\* configured counts (the contract, implemented by track()).
THEOREM Refinement == Spec => ImplementsContract
<1> QED
  BY InitContract, StepContract, Invariance, PTL DEF Spec, ImplementsContract, Contract!Spec

-----------------------------------------------------------------------------
(***************************************************************************)
(* What a confirmed target rests on                                        *)
(***************************************************************************)

\* The updates a state needs behind it, also in the middle of a call: while
\* the loop still has a matching armor ahead, this frame's update is to come.
EvidenceInv ==
  /\ state = "detecting" =>
       target.update_count >= Smaller(UpdateCap, detect_count - 1)
  /\ state \in {"tracking", "temp_lost"} =>
       target.update_count >= Smaller(UpdateCap, Confirm - 1)
  /\ \/ pc = "update" /\ \A a \in at .. Len(armors) : armors[a] # target.kind
     \/ pc = "finish"
     => (state = "detecting" /\ found =>
           target.update_count >= Smaller(UpdateCap, detect_count))

\* A target just set, and the target of a detection that just began, is new.
FreshInv ==
  \/ pc = "finish" /\ state = "lost" /\ found
  \/ pc = "idle" /\ state = "detecting" /\ detect_count = 1
  => ~target.jumped /\ Failures(target.nis) = 0

LEMMA InitEvidence == Init => EvidenceInv /\ FreshInv
<1> QED
  BY DEF Init, EvidenceInv, FreshInv

LEMMA NextEvidence == IInv /\ EvidenceInv /\ [Next]_vars => EvidenceInv'
<1> SUFFICES ASSUME IInv, EvidenceInv, [Next]_vars PROVE EvidenceInv'
  OBVIOUS
<1>0. /\ target.update_count \in 0 .. UpdateCap
      /\ UpdateCap \in Nat /\ MinDetectCount \in Int
      /\ detect_count \in Nat /\ state \in States
      /\ state = "detecting" => detect_count \in 1 .. Confirm - 1
      /\ Confirm \in Int
  BY TargetAssumption, TrackerAssumption
  DEF IInv, TypeOK, TargetType, CountsInRange, Confirm, Larger
<1>1. ASSUME NEW frame \in Frames, NEW gap \in BOOLEAN,
             NEW use_enemy_color \in BOOLEAN,
             Track(frame, gap, use_enemy_color)
      PROVE  EvidenceInv'
  BY <1>1 DEF Track, EvidenceInv, Confirm
<1>2. CASE SetTarget
  BY <1>2 DEF SetTarget, EvidenceInv
<1>3. CASE UpdateTarget
  <2>1. /\ pc' = "update" /\ UNCHANGED <<state, detect_count, target, armors, at>>
        /\ found' = (\E a \in DOMAIN armors : armors[a] = target.kind)
    BY <1>3 DEF UpdateTarget
  <2>2. at = 1 /\ DOMAIN armors = 1 .. Len(armors)
    BY <1>3 DEF UpdateTarget, IInv, LoopAtStart, TypeOK
  <2>3. ~(found' /\ \A a \in at' .. Len(armors') : armors'[a] # target'.kind)
    BY <2>1, <2>2
  <2> QED
    BY <2>1, <2>3 DEF EvidenceInv, Confirm
<1>4. CASE UpdateArmor
  <2>1. /\ pc = "update" /\ UNCHANGED <<state, detect_count, armors, found, pc>>
        /\ at' = at + 1 /\ at \in Nat /\ at <= Len(armors) /\ Len(armors) \in Nat
    BY <1>4 DEF UpdateArmor, IInv, TypeOK
  <2>2. CASE armors[at] = target.kind
    <3>1. PICK obs \in Observations :
            \E id \in MatchedIds(target, obs), r \in RadiiAfter(target, obs) :
              target' = Update(target, obs, id, r)
      BY <1>4, <2>2 DEF UpdateArmor, Absorb
    <3>2. /\ target'.kind = target.kind
          /\ target'.update_count = IF target.update_count < UpdateCap
                                    THEN target.update_count + 1
                                    ELSE target.update_count
      BY <3>1 DEF Update, IInv, TypeOK, TargetType
    <3> QED
      BY <1>0, <2>1, <3>2 DEF EvidenceInv, Confirm, Smaller, States
  <2>3. CASE armors[at] # target.kind
    <3>1. UNCHANGED target
      BY <1>4, <2>3 DEF UpdateArmor
    <3>2. ASSUME \A a \in at' .. Len(armors') : armors'[a] # target'.kind
          PROVE  \A a \in at .. Len(armors) : armors[a] # target.kind
      BY <2>1, <2>3, <3>1, <3>2
    <3> QED
      BY <2>1, <3>1, <3>2 DEF EvidenceInv, Confirm
  <2> QED
    BY <2>2, <2>3
<1>5. CASE UpdateTargetReturns
  <2>1. /\ pc = "update" /\ pc' = "finish"
        /\ UNCHANGED <<state, detect_count, target, armors, at, found>>
    BY <1>5 DEF UpdateTargetReturns
  <2>2. \A a \in at .. Len(armors) : armors[a] # target.kind
    BY <1>5 DEF UpdateTargetReturns, IInv, TypeOK
  <2> QED
    BY <2>1, <2>2 DEF EvidenceInv, Confirm
<1>6. CASE Finish
  <2>1. PICK next \in States :
          /\ state_machine(next)
          /\ IF GivenUp(next) \/ next = "lost"
             THEN state' = "lost" /\ answer' = {}
             ELSE state' = next /\ answer' = {target.kind}
    BY <1>6 DEF Finish
  <2>2. pc = "finish" /\ pc' = "idle" /\ UNCHANGED target
    BY <1>6 DEF Finish
  <2>3. CASE state' = "detecting"
    <3>1. next = "detecting"
      BY <2>1, <2>3
    <3>2. CASE state = "lost"
      <4>1. detect_count' = 1
        BY <2>1, <3>1, <3>2 DEF state_machine, StateAfter, DetectCountAfter
      <4> QED
        BY <1>0, <2>2, <2>3, <4>1 DEF EvidenceInv, Smaller
    <3>3. CASE state = "detecting"
      <4>1. found /\ detect_count' = detect_count + 1
        BY <2>1, <3>1, <3>3 DEF state_machine, StateAfter, DetectCountAfter
      <4> QED
        BY <1>0, <2>2, <2>3, <3>3, <4>1 DEF EvidenceInv, Smaller
    <3> QED
      BY <1>0, <2>1, <3>1, <3>2, <3>3 DEF States, state_machine, StateAfter
  <2>4. CASE state' \in {"tracking", "temp_lost"}
    <3>1. next = state'
      BY <2>1, <2>4
    <3>2. CASE state = "detecting"
      <4>1. found /\ detect_count + 1 >= MinDetectCount
        BY <2>1, <2>4, <3>1, <3>2 DEF state_machine, StateAfter
      <4>2. detect_count = Confirm - 1
        BY <1>0, <3>2, <4>1 DEF Confirm, Larger
      <4> QED
        BY <1>0, <2>2, <2>4, <3>2, <4>1, <4>2 DEF EvidenceInv, Smaller, Confirm
    <3>3. CASE state \in {"tracking", "temp_lost"}
      BY <2>2, <2>4, <3>3 DEF EvidenceInv, Confirm
    <3> QED
      BY <1>0, <2>1, <2>4, <3>1, <3>2, <3>3 DEF States, state_machine, StateAfter
  <2>5. CASE state' = "lost"
    BY <2>2, <2>5 DEF EvidenceInv
  <2> QED
    BY <2>1, <2>3, <2>4, <2>5 DEF States
<1>7. CASE UNCHANGED vars
  BY <1>7 DEF vars, EvidenceInv, Confirm
<1> QED
  BY <1>1, <1>2, <1>3, <1>4, <1>5, <1>6, <1>7 DEF Next, Call

LEMMA NextFresh == IInv /\ FreshInv /\ [Next]_vars => FreshInv'
<1> SUFFICES ASSUME IInv, FreshInv, [Next]_vars PROVE FreshInv'
  OBVIOUS
<1>1. CASE Call \/ UpdateTarget \/ UpdateArmor
  BY <1>1 DEF Call, Track, UpdateTarget, UpdateArmor, FreshInv
<1>2. CASE SetTarget
  <2>1. CASE armors = <<>>
    BY <1>2, <2>1 DEF SetTarget, FreshInv
  <2>2. CASE armors # <<>>
    <3>1. Head(armors) \in Kinds
      BY <2>2 DEF IInv, TypeOK
    <3>2. target' = NewTarget(Head(armors))
      BY <1>2, <2>2 DEF SetTarget
    <3>3. Failures(target'.nis) = 0
      BY <3>1, <3>2, NewTargetType DEF NewTarget
    <3> QED
      BY <3>2, <3>3 DEF FreshInv, NewTarget
  <2> QED
    BY <2>1, <2>2
<1>3. CASE UpdateTargetReturns
  BY <1>3 DEF UpdateTargetReturns, FreshInv, IInv, TargetIsSet
<1>4. CASE Finish
  <2>1. pc = "finish" /\ pc' = "idle" /\ UNCHANGED target
    BY <1>4 DEF Finish
  <2>2. CASE state' = "detecting" /\ detect_count' = 1
    <3>1. StateAfter = "detecting" /\ DetectCountAfter = 1
      BY <1>4, <2>2 DEF Finish, state_machine
    <3>2. state = "lost" /\ found
      BY <3>1 DEF StateAfter, DetectCountAfter, IInv, CountsInRange, TypeOK, States
    <3> QED
      BY <2>1, <3>2 DEF FreshInv
  <2> QED
    BY <2>1, <2>2 DEF FreshInv
<1>5. CASE UNCHANGED vars
  BY <1>5 DEF vars, FreshInv
<1> QED
  BY <1>1, <1>2, <1>3, <1>4, <1>5 DEF Next

\* A target is tracked only on the strength of as many updates as the
\* confirmation takes, all of them its own.
THEOREM EvidenceHolds == Spec => []EvidenceBehindTracking
<1>1. EvidenceInv => EvidenceBehindTracking
  BY DEF EvidenceInv, EvidenceBehindTracking
<1> QED
  BY <1>1, InitEvidence, NextEvidence, Invariance, PTL DEF Spec

\* No test result and no jump of an earlier target is left in the filter of
\* the one just acquired.
THEOREM AcquiredIsFresh == Spec => []FreshWhenAcquired
<1>1. FreshInv => FreshWhenAcquired
  BY DEF FreshInv, FreshWhenAcquired
<1> QED
  BY <1>1, InitEvidence, NextFresh, Invariance, PTL DEF Spec
=============================================================================
