------------------------------ MODULE Detector ------------------------------
(***************************************************************************)
(* app::auto_aim::Detector::detect on one frame after another.  What it    *)
(* reads from the image, the lightbars in order of x and, for a pair of    *)
(* them, its shape, pattern and classification, is chosen freely.          *)
(***************************************************************************)
EXTENDS Integers, Sequences

CONSTANTS MaxBars,         \* bound: lightbars in one frame
          Names,           \* of ARMOR_NAMES
          Confidences,
          MinConfidence,   \* min_confidence_
          Areas            \* cols * rows of a pattern

ASSUME DetectorAssumption ==
  /\ MaxBars \in Nat
  /\ Confidences \subseteq Int /\ MinConfidence \in Int /\ Areas \subseteq Nat

VARIABLES phase,    \* "idle" between calls, "pairing" in the loop over pairs
          bars,     \* colours of the frame's lightbars; the index is the id
          left,     \* the loop's iterators
          right,
          armors,   \* candidates found
          saved,    \* pairs of which save() has written the pattern
          answer    \* what the last call returned, once it has

vars == <<phase, bars, left, right, armors, saved, answer>>

\* get_color knows two colours.
Color == {"red", "blue"}
Views == UNION {[1 .. n -> Color] : n \in 0 .. MaxBars}

Armor == [left : 1 .. MaxBars, right : 1 .. MaxBars, name : Names,
          type : {"big", "small"}, confidence : Confidences, area : Areas]

Init ==
  /\ phase = "idle"
  /\ bars = <<>> /\ left = 1 /\ right = 2
  /\ armors = <<>> /\ saved = {} /\ answer = {}

\* Contours that do not look like a lightbar are left out.
FindLightbars ==
  /\ phase = "idle"
  /\ phase' = "pairing"
  /\ bars' \in Views
  /\ left' = 1 /\ right' = 2
  /\ armors' = <<>> /\ saved' = {} /\ answer' = {}

-----------------------------------------------------------------------------

BigOnly == {"one", "base"}

check_name(armor) == armor.name # "not_armor" /\ armor.confidence > MinConfidence

\* ratio: below 2.5, in between, above 3.0
get_type(ratio, name) ==
  IF ratio = "wide" \/ (ratio = "middle" /\ name \in BigOnly) THEN "big" ELSE "small"

\* Faulty variant: one and base have to be big, but others need not be small.
check_typeOneWay(armor) == armor.name \in BigOnly => armor.type = "big"

check_type(armor) == armor.name \in BigOnly <=> armor.type = "big"

Accepted(armor) == check_name(armor) /\ check_type(armor)

Advance ==
  /\ phase = "pairing" /\ right <= Len(bars)
  /\ left' = IF right = Len(bars) THEN left + 1 ELSE left
  /\ right' = IF right = Len(bars) THEN left + 2 ELSE right + 1

\* Other colours, or a ratio, side ratio or angle out of bounds.
SkipPair ==
  /\ Advance
  /\ UNCHANGED <<phase, bars, armors, saved, answer>>

\* A pair of the shape of an armor; save() keeps the pattern of one whose name is
\* doubtful or does not go with its type.
Classify ==
  /\ Advance
  /\ bars[left] = bars[right]
  /\ \E ratio \in {"narrow", "middle", "wide"}, name \in Names,
        confidence \in Confidences, area \in Areas :
       LET armor == [left |-> left, right |-> right, name |-> name,
                     type |-> get_type(ratio, name), confidence |-> confidence,
                     area |-> area]
       IN  /\ armors' = IF Accepted(armor) THEN Append(armors, armor) ELSE armors
           /\ saved' = IF name # "not_armor" /\ ~Accepted(armor)
                       THEN saved \union {<<left, right>>} ELSE saved
  /\ UNCHANGED <<phase, bars, answer>>

-----------------------------------------------------------------------------

SameSide(a, b) == a.left = b.left \/ a.right = b.right
Adjacent(a, b) == a.left = b.right \/ a.right = b.left

\* Faulty variant: armors side by side are left alone.
LosersOnSameSide(i, j) ==
  LET a == armors[i] b == armors[j]
  IN  IF SameSide(a, b) THEN {IF a.area < b.area THEN j ELSE i} ELSE {}

\* Faulty variant: armors that share nothing are compared too.
LosersOfAll(i, j) ==
  {IF armors[i].confidence < armors[j].confidence THEN i ELSE j}

\* Which of armors[i] and armors[j], i < j, the test marks as duplicated.
Losers(i, j) ==
  LET a == armors[i] b == armors[j]
  IN  (IF SameSide(a, b) THEN {IF a.area < b.area THEN j ELSE i} ELSE {}) \union
      (IF Adjacent(a, b) THEN {IF a.confidence < b.confidence THEN i ELSE j} ELSE {})

\* The loops compare each with all that follow, marked already or not.
Duplicated(k) ==
  \E i, j \in 1 .. Len(armors) : i < j /\ k \in Losers(i, j)

Return ==
  /\ phase = "pairing" /\ right > Len(bars)
  /\ phase' = "idle"
  /\ answer' = {armors[k] : k \in {n \in 1 .. Len(armors) : ~Duplicated(n)}}
  /\ UNCHANGED <<bars, left, right, armors, saved>>

Next == FindLightbars \/ SkipPair \/ Classify \/ Return

Spec == Init /\ [][Next]_vars

-----------------------------------------------------------------------------

TypeOK ==
  /\ phase \in {"idle", "pairing"}
  /\ bars \in Views
  /\ left \in Nat \ {0} /\ right \in Nat /\ left < right
  /\ armors \in Seq(Armor)
  /\ saved \subseteq (1 .. MaxBars) \X (1 .. MaxBars)
  /\ answer \subseteq Armor

Share(a, b) == {a.left, a.right} \intersect {b.left, b.right} # {}

\* One lightbar is part of one armor: two armors of an answer share none.
SharesNoLightbar == \A a, b \in answer : a # b => ~Share(a, b)

\* An armor is taken out only for another candidate with one of its lightbars.
\* (That one may be taken out too, for a third.)
RemovedForRival ==
  phase = "idle" =>
    \A i \in 1 .. Len(armors) :
      \/ armors[i] \in answer
      \/ \E j \in 1 .. Len(armors) : j # i /\ Share(armors[i], armors[j])

\* No armor of a two-armor robot is answered.  Target::update reads past its list
\* of armors for such a robot (Tracker, MatchIsAnArmor).
NoBalanceArmor ==
  \A a \in answer : ~(a.type = "big" /\ a.name \in {"three", "four", "five"})
=============================================================================
