----------------------------- MODULE MCFraming -----------------------------
(***************************************************************************)
(* Frames of four bytes, two of them payload, in a ring of five cells, so  *)
(* that reading and writing wrap around at changing places.                *)
(***************************************************************************)
EXTENDS Framing

CONSTANTS T, G, x   \* the two head bytes and another value

ByteValues == {T, G, x}
NoHeadPayload == {G, x}

HeadOnly == {T, G}

\* The cells of a new ring hold anything; StructParser reads no cell it has
\* not written (FramingProofs), so a ring filled with one value stands for all.
MCInit ==
  /\ Init
  /\ \A i \in 0 .. N - 1 : ring.buffer[i] = G
MCSpec == MCInit /\ [][Next]_vars
MCFairSpec == MCSpec /\ WF_vars(Send)
=============================================================================
