------------------------------ MODULE MCSerial ------------------------------
(***************************************************************************)
(* One port and frames of three bytes, two of them the head: a parser left *)
(* with part of one of them, and two more to get in step again.            *)
(***************************************************************************)
EXTENDS SerialLoop

CONSTANT p1

OnePort == {p1}
AllFaults == {"open", "options", "io", "throw", "lost"}
=============================================================================
