------------------------------ MODULE Framing ------------------------------
(***************************************************************************)
(* A sender that writes one frame after another (Serial::send of a struct) *)
(* and a parser at the other end of a line on which bytes may be lost,     *)
(* inserted or replaced.  The line is external: Serial hands the parser    *)
(* what read_some returned, in order, one byte at a time.                  *)
(***************************************************************************)
EXTENDS StructParser

CONSTANTS Payload   \* values the bytes after the head can have

ASSUME FramingAssumption == Payload \subseteq Byte /\ Payload # {}

VARIABLES ring,    \* the parser's buffer
          out,     \* what the last input returned: a packet, or <<>> for none
          frame,   \* bytes of the current frame the sender has put on the line
          clean    \* bytes received since the last fault, up to two frames

vars == <<ring, out, frame, clean>>

\* The frames the sender can be in the middle of.
Fields(i) == CASE i = 1 -> {Head0} [] i = 2 -> {Head1} [] OTHER -> Payload

Partial == {f \in UNION {[1 .. n -> Byte] : n \in 0 .. FrameLen} :
              \A i \in DOMAIN f : f[i] \in Fields(i)}

Settled == 2 * FrameLen

Init ==
  /\ ring \in EmptyRings
  /\ out = <<>>
  /\ frame = <<>>
  /\ clean = Settled

Receive(byte) ==
  LET result == Input(ring, byte)
  IN  ring' = result.ring /\ out' = result.out

\* The next byte of the stream arrives as it was sent.
Send ==
  LET begun == IF Len(frame) = FrameLen THEN <<>> ELSE frame
  IN  \E byte \in Fields(Len(begun) + 1) :
        /\ frame' = Append(begun, byte)
        /\ Receive(byte)
        /\ clean' = IF clean < Settled THEN clean + 1 ELSE clean

\* A byte arrives that nobody sent.
Noise ==
  \E byte \in Byte :
    /\ Receive(byte)
    /\ clean' = 0
    /\ UNCHANGED frame

\* Any number of bytes is lost: overrun, unplugged, or the port reopened.
Lose ==
  /\ frame' \in Partial
  /\ clean' = 0
  /\ UNCHANGED <<ring, out>>

Next == Send \/ Noise \/ Lose

Spec == Init /\ [][Next]_vars

(***************************************************************************)
(* The sender goes on sending; nothing is assumed of the faults.           *)
(***************************************************************************)
FairSpec == Spec /\ WF_vars(Send)

\* The same without faults.
CleanSpec == Init /\ [][Send]_vars

-----------------------------------------------------------------------------

TypeOK ==
  /\ ring \in RingType
  /\ out \in {<<>>} \union [1 .. FrameLen -> Byte]
  /\ frame \in Partial
  /\ clean \in 0 .. Settled

\* Between two bytes the ring holds less than a packet: it never overwrites
\* (push), never underflows (pop), and the loop of input() drops at most one
\* byte at a time.
RingNeverFills == RingInv(ring) /\ ring.size < FrameLen

\* The parser returns the frame just completed, and nothing in between.
InStep == out = (IF Len(frame) = FrameLen THEN frame ELSE <<>>)

\* When the head cannot occur in a payload, a fault costs at most the frame it
\* hits and the one after: two frames later the parser is in step again, and
\* it stays so.
ResyncWithinTwoFrames == clean = Settled => InStep

\* io/serial/README.md:19: the driver "reads the head from the struct and
\* synchronises automatically".  With a payload that can contain the head it
\* need not, however long the line stays clean.
SynchronisesEventually == <>[](clean > 0) => <>[]InStep
=============================================================================
