----------------------------- MODULE AimContract -----------------------------
(***************************************************************************)
(* What Aimer::aim promises its callers about the two things they see: the *)
(* command, and the public debug_aim_point that Shooter::shoot reads.      *)
(***************************************************************************)
VARIABLES phase,     \* "idle", or "aiming" while a call runs
          control,   \* control of the command returned last
          valid      \* debug_aim_point.valid

vars == <<phase, control, valid>>

Init == phase = "idle" /\ control = FALSE /\ valid \in BOOLEAN

\* No target: no control, and the last aim point stays as it was.
Refuse ==
  /\ phase = "idle"
  /\ control' = FALSE
  /\ UNCHANGED <<phase, valid>>

\* A call returns control exactly when it leaves a valid aim point behind.
Answer ==
  /\ phase' = "idle"
  /\ valid' \in BOOLEAN
  /\ control' = valid'

Work ==
  /\ phase' = "aiming"
  /\ valid' \in BOOLEAN
  /\ UNCHANGED control

Next == Refuse \/ Answer \/ Work

Spec == Init /\ [][Next]_vars
=============================================================================
