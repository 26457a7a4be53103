------------------------------- MODULE MCCrc -------------------------------
(***************************************************************************)
(* Every burst of up to 8 bits and some of the longer ones, at every place *)
(* of packets of one and two bytes.                                        *)
(***************************************************************************)
EXTENDS Crc

MCPayloads == {<<Bits(90, 8)>>, <<Bits(255, 8), Bits(1, 8)>>}

MCBursts ==
  {b \in SUBSET (0 .. 7) : 0 \in b}
    \union {(0 .. n) \ m : n \in 8 .. 16, m \in {{}, 1 .. 7, {3, 5}}}
    \union {{0, 8}, {0, 4, 11, 15}, {0, 5, 12, 16}}
=============================================================================
