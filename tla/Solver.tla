------------------------------- MODULE Solver -------------------------------
(***************************************************************************)
(* app::auto_aim::Solver::solve: the yaw of an armor is first what PnP     *)
(* says, then that of the candidates around the direction the gimbal faces *)
(* whose reprojection is nearest to the picture.  tools::limit_rad, which  *)
(* brings each candidate into (-pi, pi], is the loop it is in the code.    *)
(* Angles are integers, half a turn is Half; errors are compared only.     *)
(***************************************************************************)
EXTENDS Integers, Sequences

CONSTANTS Half,          \* CV_PI
          Degree,        \* CV_PI / 180, or as coarse as a model wants it
          SearchRange,   \* yaw_search_range_, as an angle
          Errors,        \* errors of reprojection that are numbers
          Limit,         \* the first min_error, 1e10
          NaN

ASSUME SolverAssumption ==
  /\ Half \in Nat \ {0} /\ Degree \in Nat \ {0}
  /\ SearchRange \in Nat /\ SearchRange % 2 = 0
  /\ Errors \subseteq Nat /\ Limit \in Nat
  /\ NaN \notin Int

VARIABLES pc,         \* "idle"; "first", "next", "try" in optimize_yaw; "solved"
          gimbal,     \* the yaw in R_gimbal2world_
          armor,      \* the armor being solved; yaw_raw is NaN until it is set
          wrap,       \* where limit_rad is: "down", "up", or "done"
          angle,      \* its argument, then its result
          yaw0, i, min_error, best_yaw,   \* as in optimize_yaw
          tried       \* the errors of the candidates so far

search == <<yaw0, i, min_error, best_yaw, tried>>
vars == <<pc, gimbal, armor, wrap, angle, search>>

Circle == (1 - Half) .. Half
Yaws == Circle \union {NaN}

Plus(a, b) == IF a = NaN THEN NaN ELSE a + b

\* Numbers of candidates: the range of degrees, truncated.
range == SearchRange \div Degree

Init ==
  /\ pc = "idle"
  /\ gimbal = 0
  /\ armor = [two_plates |-> FALSE, yaw |-> 0, yaw_raw |-> NaN]
  /\ wrap = "done" /\ angle = 0
  /\ yaw0 = 0 /\ i = 0 /\ min_error = Limit /\ best_yaw = 0 /\ tried = <<>>

Idle == pc \in {"idle", "solved"}

\* No local variable of optimize_yaw outlives a call.
Forget == yaw0' = 0 /\ i' = 0 /\ min_error' = Limit /\ best_yaw' = 0 /\ tried' = <<>>

Away == Forget /\ angle' = 0 /\ wrap' = "done"

set_R_gimbal2world(yaw) ==
  /\ Idle
  /\ gimbal' = yaw
  /\ pc' = "idle"
  /\ Away
  /\ UNCHANGED armor

\* limit_rad(a)
Limited(a) == angle' = a /\ wrap' = "down"

\* solve() of an armor of a robot with two plates ends with PnP's yaw.
SolveTwoPlates(yaw) ==
  /\ Idle
  /\ gimbal = NaN => yaw = NaN
  /\ armor' = [two_plates |-> TRUE, yaw |-> yaw, yaw_raw |-> NaN]
  /\ Away
  /\ pc' = "solved"
  /\ UNCHANGED gimbal

\* Faulty variant: the search starts in the middle of its range.
SolveOffCentre(yaw) ==
  /\ Idle
  /\ gimbal = NaN => yaw = NaN
  /\ armor' = [two_plates |-> FALSE, yaw |-> yaw, yaw_raw |-> NaN]
  /\ Limited(gimbal)
  /\ Forget
  /\ pc' = "first"
  /\ UNCHANGED gimbal

\* solve() of any other armor, up to the first call of limit_rad.
Solve(yaw) ==
  /\ Idle
  /\ gimbal = NaN => yaw = NaN
  /\ armor' = [two_plates |-> FALSE, yaw |-> yaw, yaw_raw |-> NaN]
  /\ Limited(Plus(gimbal, - (SearchRange \div 2)))
  /\ Forget
  /\ pc' = "first"
  /\ UNCHANGED gimbal

\* The loops of limit_rad, which both pass a NaN through.
Lower ==
  /\ wrap = "down"
  /\ IF angle # NaN /\ angle > Half
     THEN angle' = angle - 2 * Half /\ wrap' = wrap
     ELSE angle' = angle /\ wrap' = "up"
  /\ UNCHANGED <<pc, gimbal, armor, search>>

\* Faulty variant: minus pi is left as it is.
RaiseStrict ==
  /\ wrap = "up"
  /\ IF angle # NaN /\ angle < - Half
     THEN angle' = angle + 2 * Half /\ wrap' = wrap
     ELSE angle' = angle /\ wrap' = "done"
  /\ UNCHANGED <<pc, gimbal, armor, search>>

\* Faulty variant: the wrong sign.
RaiseDown ==
  /\ wrap = "up"
  /\ IF angle # NaN /\ angle <= - Half
     THEN angle' = - angle - 2 * Half /\ wrap' = wrap
     ELSE angle' = angle /\ wrap' = "done"
  /\ UNCHANGED <<pc, gimbal, armor, search>>

Raise ==
  /\ wrap = "up"
  /\ IF angle # NaN /\ angle <= - Half
     THEN angle' = angle + 2 * Half /\ wrap' = wrap
     ELSE angle' = angle /\ wrap' = "done"
  /\ UNCHANGED <<pc, gimbal, armor, search>>

Begin ==
  /\ pc = "first" /\ wrap = "done"
  /\ yaw0' = angle
  /\ i' = 0 /\ min_error' = Limit /\ best_yaw' = armor.yaw
  /\ tried' = <<>>
  /\ pc' = "next"
  /\ UNCHANGED <<gimbal, armor, wrap, angle>>

Candidate ==
  /\ pc = "next" /\ i < range
  /\ Limited(Plus(yaw0, i * Degree))
  /\ pc' = "try"
  /\ UNCHANGED <<gimbal, armor, search>>

\* Faulty variant: the last of several equal errors wins.
CompareLast(error) ==
  /\ pc = "try" /\ wrap = "done"
  /\ angle = NaN => error = NaN
  /\ LET better == error # NaN /\ error <= min_error
     IN  /\ min_error' = IF better THEN error ELSE min_error
         /\ best_yaw' = IF better THEN angle ELSE best_yaw
  /\ tried' = Append(tried, error)
  /\ i' = i + 1
  /\ pc' = "next"
  /\ UNCHANGED <<gimbal, armor, wrap, angle, yaw0>>

\* Nothing is less than a NaN, nor a NaN less than anything.
Compare(error) ==
  /\ pc = "try" /\ wrap = "done"
  /\ angle = NaN => error = NaN
  /\ LET better == error # NaN /\ error < min_error
     IN  /\ min_error' = IF better THEN error ELSE min_error
         /\ best_yaw' = IF better THEN angle ELSE best_yaw
  /\ tried' = Append(tried, error)
  /\ i' = i + 1
  /\ pc' = "next"
  /\ UNCHANGED <<gimbal, armor, wrap, angle, yaw0>>

Return ==
  /\ pc = "next" /\ i >= range
  /\ armor' = [armor EXCEPT !.yaw_raw = armor.yaw, !.yaw = best_yaw]
  /\ pc' = "solved"
  /\ UNCHANGED <<gimbal, wrap, angle, search>>

Optimize ==
  \/ Lower \/ Raise \/ Begin \/ Candidate
  \/ \E error \in Errors \union {NaN} : Compare(error)
  \/ Return

Next ==
  \/ \E yaw \in Yaws : set_R_gimbal2world(yaw)
  \/ \E yaw \in Yaws : SolveTwoPlates(yaw) \/ Solve(yaw)
  \/ Optimize

Spec == Init /\ [][Next]_vars

\* A call that was entered goes on.
FairSpec == Spec /\ WF_vars(Optimize)

-----------------------------------------------------------------------------

TypeOK ==
  /\ pc \in {"idle", "first", "next", "try", "solved"}
  /\ gimbal \in Yaws
  /\ armor \in [two_plates : BOOLEAN, yaw : Yaws, yaw_raw : Yaws]
  /\ wrap \in {"down", "up", "done"}
  /\ angle \in Int \union {NaN}
  /\ wrap = "done" => angle \in Yaws
  /\ yaw0 \in Yaws /\ best_yaw \in Yaws
  /\ i \in 0 .. range
  /\ min_error \in Nat
  /\ tried \in Seq(Errors \union {NaN})

SameAngle(a, b) == (a - b) % (2 * Half) = 0

Solved == pc = "solved" /\ ~armor.two_plates

\* The j-th candidate is below the limit, is no worse than any other and better
\* than all before it.
Wins(j) ==
  /\ tried[j] # NaN /\ tried[j] < Limit
  /\ \A k \in 1 .. Len(tried) :
       tried[k] # NaN => tried[j] <= tried[k] /\ (k < j => tried[j] < tried[k])

\* The yaw solve() leaves is the first candidate with the least error, whichever
\* errors are no numbers; PnP's when there is no such candidate.
LeastErrorWins ==
  Solved =>
    \/ /\ \A k \in 1 .. Len(tried) : tried[k] = NaN \/ tried[k] >= Limit
       /\ armor.yaw = armor.yaw_raw
    \/ \E j \in 1 .. Len(tried) :
         /\ Wins(j)
         /\ armor.yaw # NaN /\ gimbal # NaN
         /\ SameAngle(armor.yaw, gimbal - (SearchRange \div 2) + (j - 1) * Degree)

\* A yaw that is not PnP's is within half the range of where the gimbal faces,
\* also when the candidates cross the back, where yaws jump by a turn.
FacesGimbal ==
  Solved =>
    \/ armor.yaw = armor.yaw_raw
    \/ /\ armor.yaw # NaN /\ gimbal # NaN
       /\ \E d \in - (SearchRange \div 2) .. (SearchRange \div 2) :
            SameAngle(armor.yaw, gimbal + d)

\* Every call returns: limit_rad, which subtracts one turn at a time, ends.
EverySolveReturns == ~Idle ~> Idle
=============================================================================
