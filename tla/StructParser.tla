---------------------------- MODULE StructParser ----------------------------
(***************************************************************************)
(* io::StructParser<T, N>: bytes go into a ring buffer one at a time, and  *)
(* whenever the ring holds sizeof(T) bytes that begin with the two-byte    *)
(* head of T they are taken out as a packet.                               *)
(***************************************************************************)
EXTENDS RingBuffer

CONSTANTS FrameLen,   \* sizeof(T)
          Head0,      \* the first two bytes of a default-constructed T
          Head1

ASSUME ParserAssumption ==
  /\ FrameLen \in 2 .. N
  /\ Head0 \in Byte /\ Head1 \in Byte

match_head(ring) == At(ring, 0) = Head0 /\ At(ring, 1) = Head1

\* The loop of input(): bytes are dropped one by one until too few are left
\* or the head is found.  Skips are the numbers of bytes that end it.
Skips(ring) ==
  {k \in 0 .. ring.size :
     ring.size - k < FrameLen \/ match_head(Pop(ring, k))}

Least(S) == CHOOSE k \in S : \A j \in S : k <= j

\* The packet is copied out byte by byte.
Packet(ring) == [i \in 1 .. FrameLen |-> At(ring, i - 1)]

\* Faulty variant: the whole buffer is thrown away when the head does not match.
InputDroppingAll(ring, byte) ==
  LET pushed == Push(ring, byte)
  IN  IF pushed.size < FrameLen
      THEN [ring |-> pushed, out |-> <<>>]
      ELSE [ring |-> Pop(pushed, pushed.size),
            out  |-> IF match_head(pushed) THEN Packet(pushed) ELSE <<>>]

\* Faulty variant: a mismatch drops nothing.
InputNotDropping(ring, byte) ==
  LET pushed == Push(ring, byte)
  IN  IF pushed.size < FrameLen \/ ~match_head(pushed)
      THEN [ring |-> pushed, out |-> <<>>]
      ELSE [ring |-> Pop(pushed, FrameLen), out |-> Packet(pushed)]

\* input(byte, out): the ring afterwards, and the packet or nothing.
Input(ring, byte) ==
  LET pushed == Push(ring, byte)
      rest   == Pop(pushed, Least(Skips(pushed)))
  IN  IF rest.size < FrameLen
      THEN [ring |-> rest, out |-> <<>>]
      ELSE [ring |-> Pop(rest, FrameLen), out |-> Packet(rest)]
=============================================================================
