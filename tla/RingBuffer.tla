----------------------------- MODULE RingBuffer -----------------------------
(***************************************************************************)
(* io::RingBuffer<N>: operators on a ring record, one per method.          *)
(***************************************************************************)
EXTENDS Integers, Sequences

CONSTANTS N,       \* template parameter, capacity in bytes
          Byte     \* values a cell can hold

ASSUME RingAssumption == N \in Nat \ {0} /\ Byte # {}

RingType ==
  [buffer : [0 .. N - 1 -> Byte],
   read   : 0 .. N - 1,
   write  : 0 .. N - 1,
   size   : 0 .. N]

\* The cells of a new ring are uninitialised.
EmptyRings == {ring \in RingType : ring.read = 0 /\ ring.write = 0 /\ ring.size = 0}

\* Every index arithmetic of the class: advance and wrap around.
Cell(index, k) == (index + k) % N

\* push(): a full ring gives up its oldest byte.
Push(ring, byte) ==
  [buffer |-> [ring.buffer EXCEPT ![ring.write] = byte],
   write  |-> Cell(ring.write, 1),
   size   |-> IF ring.size < N THEN ring.size + 1 ELSE ring.size,
   read   |-> IF ring.size < N THEN ring.read ELSE Cell(ring.read, 1)]

At(ring, idx) == ring.buffer[Cell(ring.read, idx)]

\* pop(n): nothing keeps n within the size.
Pop(ring, n) ==
  [buffer |-> ring.buffer,
   write  |-> ring.write,
   size   |-> ring.size - n,
   read   |-> Cell(ring.read, n)]

\* The bytes in the ring, oldest first: what the methods are about.
Content(ring) == [i \in 1 .. ring.size |-> At(ring, i - 1)]

\* The write index follows the last byte.
RingInv(ring) == ring.write = Cell(ring.read, ring.size)
=============================================================================
