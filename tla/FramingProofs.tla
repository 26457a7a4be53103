---------------------------- MODULE FramingProofs ----------------------------
(***************************************************************************)
(* What the parser does to the contents of its ring, and what follows for  *)
(* a line without faults and for a line with any number of them.           *)
(***************************************************************************)
EXTENDS Framing, SequenceTheorems, TLAPS

-----------------------------------------------------------------------------
(***************************************************************************)
(* The ring buffer is a queue that forgets its oldest byte when full, for  *)
(* every capacity.                                                         *)
(***************************************************************************)

\* What % does to an index that wraps around at most once.
LEMMA Wrap ==
  ASSUME NEW a \in 0 .. N - 1, NEW k \in 0 .. N
  PROVE  Cell(a, k) = IF a + k < N THEN a + k ELSE a + k - N
<1> QED
  BY RingAssumption DEF Cell

\* Indices within the ring address cells, and different offsets address
\* different cells.
LEMMA CellIndex ==
  ASSUME NEW a \in 0 .. N - 1, NEW k \in 0 .. N
  PROVE  Cell(a, k) \in 0 .. N - 1
<1> QED
  BY Wrap, RingAssumption

LEMMA CellsDiffer ==
  ASSUME NEW a \in 0 .. N - 1, NEW j \in 0 .. N - 1, NEW k \in 0 .. N - 1, j # k
  PROVE  Cell(a, j) # Cell(a, k)
<1>1. /\ Cell(a, j) = IF a + j < N THEN a + j ELSE a + j - N
      /\ Cell(a, k) = IF a + k < N THEN a + k ELSE a + k - N
  BY Wrap, RingAssumption
<1> QED
  BY <1>1, RingAssumption

\* Two advances are one advance by their sum.
LEMMA CellAdd ==
  ASSUME NEW a \in 0 .. N - 1, NEW n \in 0 .. N, NEW k \in 0 .. N, n + k <= N
  PROVE  Cell(Cell(a, n), k) = Cell(a, n + k)
<1> DEFINE b == Cell(a, n)
<1>1. b = IF a + n < N THEN a + n ELSE a + n - N
  BY Wrap
<1>2. b \in 0 .. N - 1
  BY CellIndex
<1>3. n + k \in 0 .. N
  BY RingAssumption
<1>4. Cell(a, n + k) = IF a + (n + k) < N THEN a + (n + k) ELSE a + (n + k) - N
  BY <1>3, Wrap
<1> HIDE DEF b
<1>5. Cell(b, k) = IF b + k < N THEN b + k ELSE b + k - N
  BY <1>2, Wrap
<1>6. CASE a + n < N
  BY <1>1, <1>4, <1>5, <1>6, RingAssumption DEF b
<1>7. CASE ~(a + n < N)
  BY <1>1, <1>4, <1>5, <1>7, RingAssumption DEF b
<1> QED
  BY <1>6, <1>7

\* The fields of a ring.
LEMMA RingFields ==
  ASSUME NEW r \in RingType
  PROVE  /\ r.read \in 0 .. N - 1 /\ r.write \in 0 .. N - 1
         /\ r.size \in 0 .. N /\ r.size \in Nat
         /\ r.buffer \in [0 .. N - 1 -> Byte]
         /\ N \in Nat \ {0}
<1> QED
  BY RingAssumption DEF RingType

\* The contents of a ring are a sequence of bytes, size of them.
LEMMA ContentType ==
  ASSUME NEW r \in RingType
  PROVE  /\ Content(r) \in Seq(Byte)
         /\ Len(Content(r)) = r.size
         /\ \A i \in 1 .. r.size : Content(r)[i] = At(r, i - 1)
<1>1. /\ r.read \in 0 .. N - 1 /\ r.size \in 0 .. N /\ r.size \in Nat
      /\ r.buffer \in [0 .. N - 1 -> Byte] /\ N \in Nat \ {0}
  BY RingFields
<1>2. \A i \in 1 .. r.size : At(r, i - 1) \in Byte
  <2> TAKE i \in 1 .. r.size
  <2>1. i - 1 \in 0 .. N
    BY <1>1
  <2>2. Cell(r.read, i - 1) \in 0 .. N - 1
    BY <1>1, <2>1, CellIndex
  <2> QED
    BY <1>1, <2>2 DEF At
<1>3. Content(r) \in [1 .. r.size -> Byte]
  BY <1>2 DEF Content
<1>4. \A i \in 1 .. r.size : Content(r)[i] = At(r, i - 1)
  BY DEF Content
<1> HIDE DEF Content
<1> QED
  BY <1>1, <1>3, <1>4

\* push() on a ring with room appends the byte; nothing else moves.
THEOREM PushAppends ==
  ASSUME NEW r \in RingType, NEW byte \in Byte,
         RingInv(r), r.size < N
  PROVE  /\ Push(r, byte) \in RingType
         /\ RingInv(Push(r, byte))
         /\ Content(Push(r, byte)) = Append(Content(r), byte)
<1> DEFINE new == Push(r, byte)
<1>1. /\ r.read \in 0 .. N - 1 /\ r.write \in 0 .. N - 1
      /\ r.size \in 0 .. N - 1 /\ r.buffer \in [0 .. N - 1 -> Byte]
      /\ N \in Nat \ {0}
  BY RingFields
<1>2. /\ new.buffer = [r.buffer EXCEPT ![r.write] = byte]
      /\ new.write = Cell(r.write, 1)
      /\ new.size = r.size + 1
      /\ new.read = r.read
  BY <1>1 DEF Push
<1>3. 1 \in 0 .. N /\ Cell(r.write, 1) \in 0 .. N - 1
  <2>1. 1 \in 0 .. N
    BY <1>1
  <2> QED
    BY <1>1, <2>1, CellIndex
<1>4. new \in RingType
  <2>1. new.buffer \in [0 .. N - 1 -> Byte]
    BY <1>1, <1>2
  <2>2. new.size \in 0 .. N
    BY <1>1, <1>2
  <2> QED
    BY <1>1, <1>2, <1>3, <2>1, <2>2 DEF Push, RingType
<1>5. RingInv(new)
  <2>1. 1 \in 0 .. N /\ r.size \in 0 .. N /\ r.size + 1 <= N
    BY <1>1
  <2>2. Cell(Cell(r.read, r.size), 1) = Cell(r.read, r.size + 1)
    BY <1>1, <2>1, CellAdd
  <2> QED
    BY <1>2, <2>2 DEF RingInv
<1>6. \A i \in 1 .. r.size : At(new, i - 1) = At(r, i - 1)
  <2> TAKE i \in 1 .. r.size
  <2>0. i - 1 \in 0 .. N - 1 /\ i - 1 \in 0 .. N /\ i - 1 # r.size
    BY <1>1
  <2>1. /\ Cell(r.read, i - 1) # Cell(r.read, r.size)
        /\ Cell(r.read, i - 1) \in 0 .. N - 1
    BY <1>1, <2>0, CellsDiffer, CellIndex
  <2> QED
    BY <1>1, <1>2, <2>1 DEF At, RingInv
<1>7. At(new, r.size) = byte
  BY <1>1, <1>2 DEF At, RingInv
<1>8. /\ Content(r) \in Seq(Byte) /\ Len(Content(r)) = r.size
      /\ \A i \in 1 .. r.size : Content(r)[i] = At(r, i - 1)
      /\ Content(new) \in Seq(Byte) /\ Len(Content(new)) = r.size + 1
      /\ \A i \in 1 .. r.size + 1 : Content(new)[i] = At(new, i - 1)
  BY <1>2, <1>4, ContentType
<1>9. Content(new) = Append(Content(r), byte)
  <2> DEFINE c == Content(r)
             d == Content(new)
             e == Append(c, byte)
  <2>1. /\ e \in Seq(Byte) /\ Len(e) = r.size + 1
        /\ \A i \in 1 .. r.size : e[i] = c[i]
        /\ e[r.size + 1] = byte
    BY <1>8
  <2>2. d[r.size + 1] = byte
    BY <1>1, <1>7, <1>8
  <2>3. \A i \in 1 .. r.size + 1 : d[i] = e[i]
    BY <1>1, <1>6, <1>8, <2>1, <2>2
  <2> HIDE DEF c, d, e
  <2>4. d \in Seq(Byte) /\ Len(d) = r.size + 1
    BY <1>8 DEF d
  <2> QED
    BY <2>1, <2>3, <2>4, SeqEqual DEF c, d, e
<1> QED
  BY <1>4, <1>5, <1>9

\* pop(n) within the size drops the n oldest bytes.
THEOREM PopDrops ==
  ASSUME NEW r \in RingType, NEW n \in 0 .. r.size, RingInv(r)
  PROVE  /\ Pop(r, n) \in RingType
         /\ RingInv(Pop(r, n))
         /\ Content(Pop(r, n)) = SubSeq(Content(r), n + 1, r.size)
<1> DEFINE new == Pop(r, n)
<1>1. /\ r.read \in 0 .. N - 1 /\ r.write \in 0 .. N - 1
      /\ r.size \in 0 .. N /\ r.buffer \in [0 .. N - 1 -> Byte]
      /\ N \in Nat \ {0} /\ n \in 0 .. N
  BY RingFields
<1>2. /\ new.buffer = r.buffer /\ new.write = r.write
      /\ new.size = r.size - n /\ new.read = Cell(r.read, n)
  BY DEF Pop
<1>3. Cell(r.read, n) \in 0 .. N - 1
  BY <1>1, CellIndex
<1>4. new \in RingType
  <2>1. new.size \in 0 .. N
    BY <1>1, <1>2
  <2> QED
    BY <1>1, <1>2, <1>3, <2>1 DEF Pop, RingType
<1>5. \A k \in 0 .. r.size - n : Cell(Cell(r.read, n), k) = Cell(r.read, n + k)
  <2> TAKE k \in 0 .. r.size - n
  <2>1. k \in 0 .. N /\ n + k <= N
    BY <1>1
  <2> QED
    BY <1>1, <2>1, CellAdd
<1>6. RingInv(new)
  <2>1. r.size - n \in 0 .. r.size - n /\ n + (r.size - n) = r.size
    BY <1>1
  <2> QED
    BY <1>2, <1>5, <2>1 DEF RingInv
<1>7. \A i \in 1 .. r.size - n : At(new, i - 1) = At(r, n + i - 1)
  <2> TAKE i \in 1 .. r.size - n
  <2>1. i - 1 \in 0 .. r.size - n /\ n + (i - 1) = n + i - 1
    BY <1>1
  <2> QED
    BY <1>2, <1>5, <2>1 DEF At
<1>8. /\ Content(r) \in Seq(Byte) /\ Len(Content(r)) = r.size
      /\ \A i \in 1 .. r.size : Content(r)[i] = At(r, i - 1)
      /\ Content(new) \in Seq(Byte) /\ Len(Content(new)) = r.size - n
      /\ \A i \in 1 .. r.size - n : Content(new)[i] = At(new, i - 1)
  BY <1>2, <1>4, ContentType
<1>9. /\ SubSeq(Content(r), n + 1, r.size) \in Seq(Byte)
      /\ Len(SubSeq(Content(r), n + 1, r.size)) = r.size - n
      /\ \A i \in 1 .. r.size - n :
           SubSeq(Content(r), n + 1, r.size)[i] = Content(r)[n + i]
  <2> DEFINE c == Content(r)
  <2>1. \A i \in n + 1 .. r.size : c[i] \in Byte
    BY <1>1, <1>8
  <2> HIDE DEF c
  <2>2. /\ SubSeq(c, n + 1, r.size) \in Seq(Byte)
        /\ Len(SubSeq(c, n + 1, r.size)) =
             IF n + 1 <= r.size THEN r.size - (n + 1) + 1 ELSE 0
        /\ \A i \in 1 .. r.size - (n + 1) + 1 :
             SubSeq(c, n + 1, r.size)[i] = c[n + 1 + i - 1]
    <3>1. n + 1 \in Int /\ r.size \in Int
      BY <1>1
    <3> QED
      BY <2>1, <3>1, SubSeqProperties
  <2> QED
    BY <1>1, <2>2 DEF c
<1>10. \A i \in 1 .. r.size - n : Content(r)[n + i] = At(r, n + i - 1)
  <2> TAKE i \in 1 .. r.size - n
  <2>1. n + i \in 1 .. r.size
    BY <1>1
  <2> QED
    BY <1>8, <2>1
<1>11. Content(new) = SubSeq(Content(r), n + 1, r.size)
  <2> DEFINE c == Content(r)
             d == Content(new)
             e == SubSeq(c, n + 1, r.size)
  <2>1. \A i \in 1 .. r.size - n : d[i] = e[i]
    BY <1>7, <1>8, <1>9, <1>10
  <2>2. d \in Seq(Byte) /\ e \in Seq(Byte) /\ Len(d) = r.size - n /\ Len(e) = Len(d)
    BY <1>8, <1>9
  <2> HIDE DEF d, e
  <2> QED
    BY <2>1, <2>2, SeqEqual DEF c, d, e
<1> QED
  BY <1>4, <1>6, <1>11

-----------------------------------------------------------------------------

\* A ring that holds less than a packet, as it does between two bytes.
Waiting(r) == r \in RingType /\ RingInv(r) /\ r.size < FrameLen

\* pop(0) changes no contents.
LEMMA PopNothing ==
  ASSUME NEW r \in RingType, RingInv(r)
  PROVE  /\ Pop(r, 0) \in RingType /\ RingInv(Pop(r, 0))
         /\ Pop(r, 0).size = r.size
         /\ Content(Pop(r, 0)) = Content(r)
<1>1. r.size \in Nat /\ 0 \in 0 .. r.size
  BY RingFields
<1>2. /\ Content(Pop(r, 0)) = SubSeq(Content(r), 0 + 1, r.size)
      /\ Pop(r, 0) \in RingType /\ RingInv(Pop(r, 0))
  BY <1>1, PopDrops
<1>5. Content(Pop(r, 0)) = SubSeq(Content(r), 1, r.size)
  <2>1. 0 + 1 = 1
    OBVIOUS
  <2> QED
    BY <1>2, <2>1, Zenon
<1>3. SubSeq(Content(r), 1, r.size) = Content(r)
  BY ContentType, SubSeqFull
<1>4. Pop(r, 0).size = r.size
  BY <1>1 DEF Pop
<1> QED
  BY <1>2, <1>5, <1>3, <1>4, Zenon

\* The least of a set of naturals that has 0, or 1 and not 0.
LEMMA LeastSmall ==
  ASSUME NEW S \in SUBSET Nat
  PROVE  /\ 0 \in S => Least(S) = 0
         /\ 0 \notin S /\ 1 \in S => Least(S) = 1
<1>1. ASSUME 0 \in S PROVE Least(S) = 0
  <2>1. \A j \in S : 0 <= j
    OBVIOUS
  <2>2. \A k \in S : (\A j \in S : k <= j) => k = 0
    BY <1>1
  <2> QED
    BY <1>1, <2>1, <2>2 DEF Least
<1>2. ASSUME 0 \notin S, 1 \in S PROVE Least(S) = 1
  <2>1. \A j \in S : 1 <= j
    BY <1>2
  <2>2. \A k \in S : (\A j \in S : k <= j) => k = 1
    BY <1>2
  <2> QED
    BY <1>2, <2>1, <2>2 DEF Least
<1> QED
  BY <1>1, <1>2

\* input() in terms of the contents alone: the byte is appended; a full packet
\* that begins with the head is returned and taken out, one that does not
\* loses its first byte.
THEOREM InputContent ==
  ASSUME NEW r, Waiting(r), NEW byte \in Byte
  PROVE  LET c   == Append(Content(r), byte)
             res == Input(r, byte)
         IN  /\ Waiting(res.ring)
             /\ c \in Seq(Byte) /\ Len(c) = r.size + 1 /\ Len(c) <= FrameLen
             /\ Len(c) < FrameLen => Content(res.ring) = c /\ res.out = <<>>
             /\ Len(c) = FrameLen /\ c[1] = Head0 /\ c[2] = Head1
                  => Content(res.ring) = <<>> /\ res.out = c
             /\ Len(c) = FrameLen /\ ~(c[1] = Head0 /\ c[2] = Head1)
                  => Content(res.ring) = Tail(c) /\ res.out = <<>>
<1> DEFINE c == Append(Content(r), byte)
           res == Input(r, byte)
           pushed == Push(r, byte)
           rest == Pop(pushed, Least(Skips(pushed)))
<1> SUFFICES /\ Waiting(res.ring)
             /\ c \in Seq(Byte) /\ Len(c) = r.size + 1 /\ Len(c) <= FrameLen
             /\ Len(c) < FrameLen => Content(res.ring) = c /\ res.out = <<>>
             /\ Len(c) = FrameLen /\ c[1] = Head0 /\ c[2] = Head1
                  => Content(res.ring) = <<>> /\ res.out = c
             /\ Len(c) = FrameLen /\ ~(c[1] = Head0 /\ c[2] = Head1)
                  => Content(res.ring) = Tail(c) /\ res.out = <<>>
  OBVIOUS
<1>1. /\ r \in RingType /\ RingInv(r) /\ r.size < FrameLen /\ r.size \in Nat
      /\ FrameLen \in Nat /\ 2 <= FrameLen /\ FrameLen <= N /\ N \in Nat
  BY RingFields, ParserAssumption, RingAssumption DEF Waiting
<1>2. r.size < N
  BY <1>1
<1>3. /\ pushed \in RingType /\ RingInv(pushed) /\ Content(pushed) = c
  BY <1>1, <1>2, PushAppends
<1>4. pushed.size = r.size + 1
  BY <1>1, <1>2 DEF Push
<1>5. c \in Seq(Byte) /\ Len(c) = r.size + 1
  <2>1. Content(r) \in Seq(Byte) /\ Len(Content(r)) = r.size
    BY <1>1, ContentType
  <2> QED
    BY <1>1, <2>1
<1>6. Skips(pushed) \in SUBSET Nat
  BY <1>1, <1>4 DEF Skips
<1>7. \A i \in 1 .. pushed.size : c[i] = At(pushed, i - 1)
  BY <1>3, ContentType
<1> HIDE DEF c, pushed
<1>8. Pop(pushed, 0) \in RingType /\ RingInv(Pop(pushed, 0))
      /\ Pop(pushed, 0).size = pushed.size /\ Content(Pop(pushed, 0)) = c
  BY <1>3, PopNothing
<1>9. res = IF rest.size < FrameLen
            THEN [ring |-> rest, out |-> <<>>]
            ELSE [ring |-> Pop(rest, FrameLen), out |-> Packet(rest)]
  BY DEF Input, pushed
<1> HIDE DEF res
<1>10. CASE pushed.size < FrameLen
  <2>1. 0 \in Skips(pushed)
    BY <1>1, <1>4, <1>10 DEF Skips
  <2>2. rest = Pop(pushed, 0)
    BY <1>6, <2>1, LeastSmall
  <2>3. res = [ring |-> Pop(pushed, 0), out |-> <<>>]
    BY <1>8, <1>9, <1>10, <2>2
  <2>4. res.ring = Pop(pushed, 0) /\ res.out = <<>>
    BY <2>3
  <2>5. Waiting(res.ring) /\ Content(res.ring) = c
    BY <1>8, <1>10, <2>4 DEF Waiting
  <2>6. Len(c) < FrameLen /\ Len(c) # FrameLen /\ Len(c) <= FrameLen
    BY <1>1, <1>4, <1>5, <1>10
  <2> QED
    BY <1>5, <2>4, <2>5, <2>6
<1>11. CASE pushed.size = FrameLen
  <2>0. Len(c) = FrameLen /\ Len(c) <= FrameLen /\ ~(Len(c) < FrameLen)
    BY <1>1, <1>4, <1>5, <1>11
  <2>1. /\ c[1] = At(pushed, 0) /\ c[2] = At(pushed, 1)
    <3>1. 1 \in 1 .. pushed.size /\ 2 \in 1 .. pushed.size
      BY <1>1, <1>11
    <3>2. c[1] = At(pushed, 1 - 1) /\ c[2] = At(pushed, 2 - 1)
      BY <1>7, <3>1
    <3> QED
      BY <3>2
  <2>2. match_head(Pop(pushed, 0)) <=> c[1] = Head0 /\ c[2] = Head1
    <3>1. \A i \in 1 .. pushed.size : c[i] = At(Pop(pushed, 0), i - 1)
      BY <1>8, ContentType
    <3>2. 1 \in 1 .. pushed.size /\ 2 \in 1 .. pushed.size
      BY <1>1, <1>11
    <3>3. c[1] = At(Pop(pushed, 0), 1 - 1) /\ c[2] = At(Pop(pushed, 0), 2 - 1)
      BY <3>1, <3>2
    <3> QED
      BY <3>3 DEF match_head
  <2>3. CASE c[1] = Head0 /\ c[2] = Head1
    <3>1. 0 \in Skips(pushed)
      BY <1>1, <1>11, <2>2, <2>3 DEF Skips
    <3>2. rest = Pop(pushed, 0) /\ rest.size = FrameLen
      BY <1>6, <1>8, <1>11, <3>1, LeastSmall
    <3>3. rest \in RingType /\ RingInv(rest) /\ Content(rest) = c
      BY <1>8, <3>2
    <3>4. res = [ring |-> Pop(rest, FrameLen), out |-> Packet(rest)]
      BY <1>1, <1>9, <3>2
    <3> HIDE DEF rest
    <3>5. Packet(rest) = c
      <4> DEFINE p == Packet(rest)
      <4>1. \A i \in 1 .. FrameLen : c[i] = At(rest, i - 1)
        BY <3>2, <3>3, ContentType
      <4>2. \A i \in 1 .. FrameLen : p[i] = c[i]
        BY <4>1 DEF Packet
      <4>3. \A i \in 1 .. FrameLen : c[i] \in Byte
        BY <1>4, <1>5, <1>11, ElementOfSeq
      <4>4. p \in [1 .. FrameLen -> Byte]
        BY <4>1, <4>3 DEF Packet
      <4>5. p \in Seq(Byte) /\ Len(p) = FrameLen
        BY <1>1, <4>4
      <4> HIDE DEF p
      <4>6. p = c
        BY <1>4, <1>5, <1>11, <4>2, <4>5, SeqEqual
      <4> QED
        BY <4>6 DEF p
    <3>6. FrameLen \in 0 .. rest.size
      BY <1>1, <3>2
    <3>7. /\ Pop(rest, FrameLen) \in RingType /\ RingInv(Pop(rest, FrameLen))
          /\ Content(Pop(rest, FrameLen)) = SubSeq(Content(rest), FrameLen + 1, rest.size)
      BY <3>3, <3>6, PopDrops
    <3>8. SubSeq(Content(rest), FrameLen + 1, rest.size) = <<>>
      <4>1. FrameLen + 1 \in Int /\ rest.size \in Int /\ rest.size < FrameLen + 1
        BY <1>1, <3>2
      <4> QED
        BY <4>1, SubSeqEmpty
    <3>9. Pop(rest, FrameLen).size < FrameLen
      BY <1>1, <3>2 DEF Pop
    <3>10. res.ring = Pop(rest, FrameLen) /\ res.out = c
      BY <3>4, <3>5
    <3>11. Waiting(res.ring) /\ Content(res.ring) = <<>>
      BY <3>7, <3>8, <3>9, <3>10 DEF Waiting
    <3> QED
      BY <1>5, <2>3, <2>0, <3>10, <3>11
  <2>4. CASE ~(c[1] = Head0 /\ c[2] = Head1)
    <3>1. 0 \notin Skips(pushed)
      BY <1>1, <1>11, <2>2, <2>4 DEF Skips
    <3>2. 1 \in Skips(pushed) /\ 1 \in 0 .. pushed.size
      BY <1>1, <1>11 DEF Skips
    <3>3. rest = Pop(pushed, 1)
      BY <1>6, <3>1, <3>2, LeastSmall
    <3>4. /\ rest \in RingType /\ RingInv(rest)
          /\ Content(rest) = SubSeq(c, 1 + 1, pushed.size)
      BY <1>3, <3>2, <3>3, PopDrops
    <3>5. rest.size = pushed.size - 1
      BY <3>3 DEF Pop
    <3>6. rest.size < FrameLen
      BY <1>1, <1>11, <3>5
    <3>7. SubSeq(c, 2, pushed.size) = Tail(c)
      <4>1. c # <<>>
        BY <1>1, <1>5
      <4> QED
        BY <1>4, <1>5, <4>1, TailIsSubSeq
    <3>8. res = [ring |-> rest, out |-> <<>>]
      BY <1>9, <3>6
    <3> HIDE DEF rest
    <3>9. res.ring = rest /\ res.out = <<>>
      BY <3>8
    <3>10. Content(rest) = Tail(c)
      <4>1. 1 + 1 = 2
        OBVIOUS
      <4> QED
        BY <3>4, <3>7, <4>1, Zenon
    <3>11. Waiting(res.ring) /\ Content(res.ring) = Tail(c)
      BY <3>4, <3>6, <3>9, <3>10 DEF Waiting
    <3> QED
      BY <1>5, <2>4, <2>0, <3>9, <3>11
  <2> QED
    BY <2>3, <2>4
<1>12. pushed.size < FrameLen \/ pushed.size = FrameLen
  BY <1>1, <1>4
<1> QED
  BY <1>10, <1>11, <1>12

-----------------------------------------------------------------------------
\* Type correctness, and the ring between two bytes.

LEMMA FrameLenFacts ==
  /\ FrameLen \in Nat /\ 2 <= FrameLen /\ FrameLen <= N /\ N \in Nat \ {0}
  /\ Settled = FrameLen + FrameLen /\ Settled \in Nat
<1> QED
  BY ParserAssumption, RingAssumption DEF Settled

LEMMA FieldsAreBytes ==
  ASSUME NEW i \in Nat
  PROVE  Fields(i) \subseteq Byte
<1> QED
  BY ParserAssumption, FramingAssumption DEF Fields

\* A partial frame is a sequence of at most FrameLen bytes, each fit for its place.
LEMMA PartialSeq ==
  ASSUME NEW f
  PROVE  f \in Partial <=> /\ f \in Seq(Byte) /\ Len(f) <= FrameLen
                           /\ \A i \in 1 .. Len(f) : f[i] \in Fields(i)
<1>1. ASSUME f \in Partial
      PROVE  /\ f \in Seq(Byte) /\ Len(f) <= FrameLen
             /\ \A i \in 1 .. Len(f) : f[i] \in Fields(i)
  <2>1. PICK n \in 0 .. FrameLen : f \in [1 .. n -> Byte]
    BY <1>1 DEF Partial
  <2>2. n \in Nat /\ n <= FrameLen
    BY FrameLenFacts
  <2>3. f \in Seq(Byte) /\ Len(f) = n /\ DOMAIN f = 1 .. n
    BY <2>1, <2>2
  <2> QED
    BY <1>1, <2>2, <2>3 DEF Partial
<1>2. ASSUME f \in Seq(Byte), Len(f) <= FrameLen,
             \A i \in 1 .. Len(f) : f[i] \in Fields(i)
      PROVE  f \in Partial
  <2>1. Len(f) \in 0 .. FrameLen /\ f \in [1 .. Len(f) -> Byte]
        /\ DOMAIN f = 1 .. Len(f)
    BY <1>2, FrameLenFacts
  <2> QED
    BY <1>2, <2>1 DEF Partial
<1> QED
  BY <1>1, <1>2

\* The bytes of the frame that is not complete yet.
Unfinished(f) == IF Len(f) = FrameLen THEN <<>> ELSE f

LEMMA SendFrame ==
  ASSUME NEW f \in Partial, NEW byte \in Fields(Len(Unfinished(f)) + 1)
  PROVE  /\ Unfinished(f) \in Seq(Byte) /\ Len(Unfinished(f)) < FrameLen
         /\ byte \in Byte
         /\ Append(Unfinished(f), byte) \in Partial
<1> DEFINE u == Unfinished(f)
<1>1. f \in Seq(Byte) /\ Len(f) <= FrameLen /\ \A i \in 1 .. Len(f) : f[i] \in Fields(i)
  BY PartialSeq
<1>2. <<>> \in Seq(Byte) /\ Len(<<>>) = 0
  OBVIOUS
<1>3. /\ u \in Seq(Byte) /\ Len(u) < FrameLen /\ Len(u) \in Nat
      /\ \A i \in 1 .. Len(u) : u[i] \in Fields(i)
  <2>1. CASE Len(f) = FrameLen
    BY <1>2, <2>1, FrameLenFacts DEF Unfinished
  <2>2. CASE Len(f) # FrameLen
    BY <1>1, <2>2, FrameLenFacts DEF Unfinished
  <2> QED
    BY <2>1, <2>2
<1>4. byte \in Byte
  BY <1>3, FieldsAreBytes
<1> HIDE DEF u
<1>5. /\ Append(u, byte) \in Seq(Byte) /\ Len(Append(u, byte)) <= FrameLen
      /\ \A i \in 1 .. Len(Append(u, byte)) : Append(u, byte)[i] \in Fields(i)
  BY <1>3, <1>4, FrameLenFacts DEF u
<1>6. Append(u, byte) \in Partial
  BY <1>5, PartialSeq
<1> QED
  BY <1>3, <1>4, <1>6 DEF u

LEMMA InputType ==
  ASSUME NEW r, Waiting(r), NEW byte \in Byte
  PROVE  /\ Waiting(Input(r, byte).ring)
         /\ Input(r, byte).out \in {<<>>} \union [1 .. FrameLen -> Byte]
<1> DEFINE c == Append(Content(r), byte)
           res == Input(r, byte)
<1>1. /\ Waiting(res.ring)
      /\ c \in Seq(Byte) /\ Len(c) <= FrameLen
      /\ Len(c) < FrameLen => res.out = <<>>
      /\ Len(c) = FrameLen => res.out = c \/ res.out = <<>>
  BY InputContent
<1> HIDE DEF c, res
<1>2. Len(c) = FrameLen => c \in [1 .. FrameLen -> Byte]
  BY <1>1
<1>3. Len(c) < FrameLen \/ Len(c) = FrameLen
  BY <1>1, FrameLenFacts
<1> QED
  BY <1>1, <1>2, <1>3 DEF res

BufferInv == TypeOK /\ RingNeverFills

LEMMA WaitingRing ==
  ASSUME BufferInv
  PROVE  Waiting(ring)
<1> QED
  BY DEF BufferInv, TypeOK, RingNeverFills, Waiting

LEMMA ReceiveKeeps ==
  ASSUME BufferInv, NEW byte \in Byte, Receive(byte)
  PROVE  /\ Waiting(ring')
         /\ out' \in {<<>>} \union [1 .. FrameLen -> Byte]
<1>1. Waiting(ring)
  BY WaitingRing
<1>2. ring' = Input(ring, byte).ring /\ out' = Input(ring, byte).out
  BY DEF Receive
<1> QED
  BY <1>1, <1>2, InputType

LEMMA InitBuffer == Init => BufferInv
<1> SUFFICES ASSUME Init PROVE BufferInv
  OBVIOUS
<1>1. ring \in RingType /\ ring.read = 0 /\ ring.write = 0 /\ ring.size = 0
  BY DEF Init, EmptyRings
<1>2. RingInv(ring)
  BY <1>1, FrameLenFacts DEF RingInv, Cell
<1>3. frame \in Partial
  <2>1. /\ <<>> \in Seq(Byte) /\ Len(<<>>) = 0
        /\ \A i \in 1 .. Len(<<>>) : <<>>[i] \in Fields(i)
    OBVIOUS
  <2>2. Len(<<>>) <= FrameLen
    BY <2>1, FrameLenFacts
  <2>3. <<>> \in Partial
    BY <2>1, <2>2, PartialSeq
  <2> QED
    BY <2>3 DEF Init
<1>4. clean \in 0 .. Settled
  BY FrameLenFacts DEF Init
<1>5. out \in {<<>>} \union [1 .. FrameLen -> Byte]
  BY DEF Init
<1>6. ring.size < FrameLen
  BY <1>1, FrameLenFacts
<1> QED
  BY <1>1, <1>2, <1>3, <1>4, <1>5, <1>6 DEF BufferInv, TypeOK, RingNeverFills

LEMMA StepBuffer == BufferInv /\ [Next]_vars => BufferInv'
<1> SUFFICES ASSUME BufferInv, [Next]_vars PROVE BufferInv'
  OBVIOUS
<1>1. /\ frame \in Partial /\ clean \in 0 .. Settled
      /\ out \in {<<>>} \union [1 .. FrameLen -> Byte] /\ Waiting(ring)
  BY WaitingRing DEF BufferInv, TypeOK
<1>2. SUFFICES /\ frame' \in Partial /\ clean' \in 0 .. Settled
               /\ out' \in {<<>>} \union [1 .. FrameLen -> Byte] /\ Waiting(ring')
  BY <1>2 DEF BufferInv, TypeOK, RingNeverFills, Waiting
<1>3. CASE Send
  <2>1. PICK byte \in Fields(Len(Unfinished(frame)) + 1) :
          /\ frame' = Append(Unfinished(frame), byte)
          /\ Receive(byte)
          /\ clean' = IF clean < Settled THEN clean + 1 ELSE clean
    BY <1>3 DEF Send, Unfinished
  <2>2. byte \in Byte /\ frame' \in Partial
    BY <1>1, <2>1, SendFrame
  <2>3. clean' \in 0 .. Settled
    BY <1>1, <2>1, FrameLenFacts
  <2> QED
    BY <2>1, <2>2, <2>3, ReceiveKeeps
<1>4. CASE Noise
  <2>1. PICK byte \in Byte : Receive(byte) /\ clean' = 0 /\ UNCHANGED frame
    BY <1>4 DEF Noise
  <2>2. clean' \in 0 .. Settled
    BY <2>1, FrameLenFacts
  <2> QED
    BY <1>1, <2>1, <2>2, ReceiveKeeps
<1>5. CASE Lose
  <2>1. frame' \in Partial /\ clean' = 0 /\ UNCHANGED <<ring, out>>
    BY <1>5 DEF Lose
  <2>2. clean' \in 0 .. Settled
    BY <2>1, FrameLenFacts
  <2> QED
    BY <1>1, <2>1, <2>2 DEF Waiting
<1>6. CASE UNCHANGED vars
  BY <1>1, <1>6 DEF vars, Waiting
<1> QED
  BY <1>3, <1>4, <1>5, <1>6 DEF Next

\* StructParser::input never lets the ring overwrite a byte or pop more than it
\* holds, whatever arrives and however large the ring is.
THEOREM NeverFills == Spec => []RingNeverFills
<1>1. Spec => []BufferInv
  BY InitBuffer, StepBuffer, PTL DEF Spec
<1>2. BufferInv => RingNeverFills
  BY DEF BufferInv
<1> QED
  BY <1>1, <1>2, PTL

\* The ring is a ring, and what input returns is nothing or a packet.
THEOREM FramingTypeCorrect == Spec => []TypeOK
<1>1. Spec => []BufferInv
  BY InitBuffer, StepBuffer, PTL DEF Spec
<1>2. BufferInv => TypeOK
  BY DEF BufferInv
<1> QED
  BY <1>1, <1>2, PTL

-----------------------------------------------------------------------------
\* A line without faults.

CleanInv ==
  /\ BufferInv
  /\ Content(ring) = Unfinished(frame)
  /\ InStep

LEMMA InitClean == Init => CleanInv
<1> SUFFICES ASSUME Init PROVE CleanInv
  OBVIOUS
<1>1. BufferInv
  BY InitBuffer
<1>2. ring \in RingType /\ ring.size = 0
  BY DEF Init, EmptyRings
<1>3. Content(ring) \in Seq(Byte) /\ Len(Content(ring)) = 0
  BY <1>2, ContentType
<1>4. Content(ring) = <<>>
  BY <1>3
<1>5. frame = <<>> /\ out = <<>> /\ Len(frame) # FrameLen
  BY FrameLenFacts DEF Init
<1> QED
  BY <1>1, <1>4, <1>5 DEF CleanInv, Unfinished, InStep

LEMMA StepClean == CleanInv /\ [Send]_vars => CleanInv'
<1> SUFFICES ASSUME CleanInv, [Send]_vars PROVE CleanInv'
  OBVIOUS
<1>1. BufferInv'
  BY StepBuffer DEF CleanInv, Next
<1>2. CASE Send
  <2>1. PICK byte \in Fields(Len(Unfinished(frame)) + 1) :
          frame' = Append(Unfinished(frame), byte) /\ Receive(byte)
    BY <1>2 DEF Send, Unfinished
  <2>2. /\ byte \in Byte /\ frame' \in Partial
        /\ Waiting(ring) /\ Content(ring) = Unfinished(frame)
    BY <2>1, SendFrame, WaitingRing DEF CleanInv, BufferInv, TypeOK
  <2>3. /\ Len(frame') <= FrameLen
        /\ Len(frame') < FrameLen => Content(ring') = frame' /\ out' = <<>>
        /\ Len(frame') = FrameLen /\ frame'[1] = Head0 /\ frame'[2] = Head1
             => Content(ring') = <<>> /\ out' = frame'
    BY <2>1, <2>2, InputContent DEF Receive
  <2>4. /\ frame' \in Seq(Byte)
        /\ \A i \in 1 .. Len(frame') : frame'[i] \in Fields(i)
    BY <2>2, PartialSeq
  <2>5. Len(frame') = FrameLen => frame'[1] = Head0 /\ frame'[2] = Head1
    <3>1. Fields(1) = {Head0} /\ Fields(2) = {Head1}
      BY DEF Fields
    <3>2. Len(frame') = FrameLen => 1 \in 1 .. Len(frame') /\ 2 \in 1 .. Len(frame')
      BY FrameLenFacts
    <3> QED
      BY <2>4, <3>1, <3>2
  <2>6. Len(frame') < FrameLen \/ Len(frame') = FrameLen
    BY <2>3, <2>4, FrameLenFacts
  <2>7. /\ Content(ring') = IF Len(frame') = FrameLen THEN <<>> ELSE frame'
        /\ out' = IF Len(frame') = FrameLen THEN frame' ELSE <<>>
    BY <2>3, <2>5, <2>6, FrameLenFacts
  <2> QED
    BY <1>1, <2>7 DEF CleanInv, Unfinished, InStep
<1>3. CASE UNCHANGED vars
  BY <1>1, <1>3 DEF vars, CleanInv, Unfinished, InStep
<1> QED
  BY <1>2, <1>3

\* Without faults every frame comes out complete, once, when its last byte
\* arrives, and nothing else does, even when a payload holds the head.
THEOREM CleanDelivery == CleanSpec => []InStep
<1>1. CleanInv => InStep
  BY DEF CleanInv
<1> QED
  BY <1>1, InitClean, StepClean, PTL DEF CleanSpec

-----------------------------------------------------------------------------
\* A line with faults, when the first byte of the head is in no payload.

NoHead(c) == \A i \in 1 .. Len(c) : c[i] # Head0

\* c ends with f.
Ends(c, f) ==
  /\ Len(f) <= Len(c)
  /\ \A i \in 1 .. Len(f) : c[(Len(c) - Len(f)) + i] = f[i]

\* What c holds before f cannot be taken for the start of a packet.
Tidy(c, f) ==
  /\ Ends(c, f)
  /\ \A i \in 1 .. (Len(c) - Len(f)) : c[i] # Head0

LEMMA EndsAppend ==
  ASSUME NEW c \in Seq(Byte), NEW f \in Seq(Byte), NEW b \in Byte
  PROVE  /\ Ends(c, f) => Ends(Append(c, b), Append(f, b))
         /\ Tidy(c, f) => Tidy(Append(c, b), Append(f, b))
<1> DEFINE cb == Append(c, b)
           fb == Append(f, b)
<1>1. /\ Len(c) \in Nat /\ Len(f) \in Nat
      /\ Len(cb) = Len(c) + 1 /\ Len(fb) = Len(f) + 1
      /\ \A i \in 1 .. Len(c) : cb[i] = c[i]
      /\ \A i \in 1 .. Len(f) : fb[i] = f[i]
      /\ cb[Len(c) + 1] = b /\ fb[Len(f) + 1] = b
  OBVIOUS
<1> HIDE DEF cb, fb
<1>2. Len(cb) - Len(fb) = Len(c) - Len(f)
  BY <1>1
<1>3. ASSUME Ends(c, f) PROVE Ends(cb, fb)
  <2>1. Len(f) <= Len(c) /\ \A i \in 1 .. Len(f) : c[(Len(c) - Len(f)) + i] = f[i]
    BY <1>3 DEF Ends
  <2>2. ASSUME NEW i \in 1 .. Len(fb) PROVE cb[(Len(cb) - Len(fb)) + i] = fb[i]
    <3>1. CASE i = Len(f) + 1
      <4>1. (Len(cb) - Len(fb)) + i = Len(c) + 1
        BY <1>1, <3>1
      <4> QED
        BY <1>1, <3>1, <4>1
    <3>2. CASE i # Len(f) + 1
      <4> DEFINE j == (Len(c) - Len(f)) + i
      <4>1. i \in 1 .. Len(f) /\ j \in 1 .. Len(c)
        BY <1>1, <2>1, <3>2
      <4>2. cb[j] = c[j] /\ fb[i] = f[i] /\ c[j] = f[i]
        BY <1>1, <2>1, <4>1
      <4> QED
        BY <1>2, <4>2
    <3> QED
      BY <3>1, <3>2
  <2>3. Len(fb) <= Len(cb)
    BY <1>1, <2>1
  <2> QED
    BY <2>2, <2>3 DEF Ends
<1>4. ASSUME Tidy(c, f) PROVE Tidy(cb, fb)
  <2>1. Ends(cb, fb)
    BY <1>3, <1>4 DEF Tidy
  <2>2. ASSUME NEW i \in 1 .. (Len(c) - Len(f)) PROVE cb[i] # Head0
    <3>1. i \in 1 .. Len(c)
      BY <1>1
    <3> QED
      BY <1>1, <1>4, <3>1 DEF Tidy
  <2> QED
    BY <1>2, <2>1, <2>2 DEF Tidy
<1> QED
  BY <1>3, <1>4 DEF cb, fb

\* Dropping the first byte keeps an ending that does not reach it.
LEMMA EndsTail ==
  ASSUME NEW c \in Seq(Byte), NEW f \in Seq(Byte), Len(f) < Len(c)
  PROVE  /\ Tail(c) \in Seq(Byte)
         /\ Ends(c, f) => Ends(Tail(c), f)
         /\ Tidy(c, f) => Tidy(Tail(c), f)
         /\ NoHead(c) => NoHead(Tail(c))
<1> DEFINE t == Tail(c)
<1>1. /\ Len(c) \in Nat /\ Len(f) \in Nat /\ Len(t) = Len(c) - 1 /\ t \in Seq(Byte)
      /\ \A i \in 1 .. Len(t) : t[i] = c[i + 1]
  OBVIOUS
<1> HIDE DEF t
<1>2. ASSUME Ends(c, f) PROVE Ends(t, f)
  <2>1. ASSUME NEW i \in 1 .. Len(f) PROVE t[(Len(t) - Len(f)) + i] = f[i]
    <3> DEFINE j == (Len(t) - Len(f)) + i
    <3>1. j \in 1 .. Len(t) /\ j + 1 = (Len(c) - Len(f)) + i
      BY <1>1
    <3>2. t[j] = c[j + 1] /\ c[(Len(c) - Len(f)) + i] = f[i]
      BY <1>1, <1>2, <3>1 DEF Ends
    <3> QED
      BY <3>1, <3>2
  <2> QED
    BY <1>1, <2>1 DEF Ends
<1>3. ASSUME Tidy(c, f) PROVE Tidy(t, f)
  <2>1. ASSUME NEW i \in 1 .. (Len(t) - Len(f)) PROVE t[i] # Head0
    <3>1. i \in 1 .. Len(t) /\ i + 1 \in 1 .. (Len(c) - Len(f))
      BY <1>1
    <3> QED
      BY <1>1, <1>3, <3>1 DEF Tidy
  <2> QED
    BY <1>2, <1>3, <2>1 DEF Tidy
<1>4. ASSUME NoHead(c) PROVE NoHead(t)
  <2> SUFFICES ASSUME NEW i \in 1 .. Len(t) PROVE t[i] # Head0
    BY DEF NoHead
  <2>1. i + 1 \in 1 .. Len(c)
    BY <1>1
  <2> QED
    BY <1>1, <1>4, <2>1 DEF NoHead
<1> QED
  BY <1>1, <1>2, <1>3, <1>4 DEF t

\* An ending as long as the whole is the whole.
LEMMA EndsWhole ==
  ASSUME NEW c \in Seq(Byte), NEW f \in Seq(Byte), Ends(c, f), Len(f) = Len(c)
  PROVE  c = f
<1>1. Len(c) \in Nat /\ \A i \in 1 .. Len(f) : (Len(c) - Len(f)) + i = i
  OBVIOUS
<1>2. \A i \in 1 .. Len(c) : c[i] = f[i]
  BY <1>1 DEF Ends
<1> QED
  BY <1>2, SeqEqual

LEMMA EndsNothing ==
  ASSUME NEW c \in Seq(Byte)
  PROVE  Ends(c, <<>>) /\ (NoHead(c) => Tidy(c, <<>>)) /\ NoHead(<<>>)
<1>1. Len(c) \in Nat /\ Len(<<>>) = 0
  OBVIOUS
<1> QED
  BY <1>1 DEF Ends, Tidy, NoHead

\* The contents after the next byte of frame f.
LEMMA SendContent ==
  ASSUME NEW r, Waiting(r), NEW f \in Partial,
         NEW byte \in Fields(Len(Unfinished(f)) + 1),
         Head0 # Head1, Head0 \notin Payload
  PROVE  LET u    == Unfinished(f)
             g    == Append(u, byte)
             old  == Content(r)
             new  == Content(Input(r, byte).ring)
             done == Input(r, byte).out
         IN  /\ Ends(old, u) => IF Len(g) = FrameLen THEN NoHead(new)
                                ELSE Ends(new, g) \/ NoHead(new)
             /\ NoHead(old) /\ u # <<>> => NoHead(new)
             /\ Tidy(old, u) => /\ Tidy(new, Unfinished(g))
                                /\ done = IF Len(g) = FrameLen THEN g ELSE <<>>
<1> DEFINE u    == Unfinished(f)
           g    == Append(u, byte)
           old  == Content(r)
           new  == Content(Input(r, byte).ring)
           done == Input(r, byte).out
           c    == Append(old, byte)
<1>0. SUFFICES /\ Ends(old, u) => IF Len(g) = FrameLen THEN NoHead(new)
                                  ELSE Ends(new, g) \/ NoHead(new)
               /\ NoHead(old) /\ u # <<>> => NoHead(new)
               /\ Tidy(old, u) => /\ Tidy(new, Unfinished(g))
                                  /\ done = IF Len(g) = FrameLen THEN g ELSE <<>>
  BY <1>0
<1>1. /\ u \in Seq(Byte) /\ byte \in Byte /\ g \in Partial /\ Len(u) < FrameLen
  BY SendFrame
<1>2. /\ old \in Seq(Byte) /\ c \in Seq(Byte) /\ Len(c) <= FrameLen
      /\ Len(c) < FrameLen => new = c /\ done = <<>>
      /\ Len(c) = FrameLen /\ c[1] = Head0 /\ c[2] = Head1
           => new = <<>> /\ done = c
      /\ Len(c) = FrameLen /\ ~(c[1] = Head0 /\ c[2] = Head1)
           => new = Tail(c) /\ done = <<>>
  BY <1>1, InputContent, ContentType DEF Waiting
<1>3. /\ Ends(old, u) => Ends(c, g)
      /\ Tidy(old, u) => Tidy(c, g)
  BY <1>1, <1>2, EndsAppend
<1>4. /\ Len(g) \in Nat /\ Len(c) \in Nat /\ Len(g) = Len(u) + 1 /\ Len(g) <= FrameLen
      /\ Len(c) = Len(old) + 1 /\ c # <<>> /\ Len(u) \in Nat /\ Len(old) \in Nat
      /\ g \in Seq(Byte)
  BY <1>1, <1>2, FrameLenFacts
<1>5. Len(g) = FrameLen => g[1] = Head0 /\ g[2] = Head1
  <2>1. Fields(1) = {Head0} /\ Fields(2) = {Head1}
    BY DEF Fields
  <2>2. Len(g) = FrameLen => 1 \in 1 .. Len(g) /\ 2 \in 1 .. Len(g)
    BY FrameLenFacts
  <2> QED
    BY <1>1, <2>1, <2>2, PartialSeq
<1>6. \A i \in 1 .. Len(old) : c[i] = old[i]
  BY <1>2
<1>7. c[Len(old) + 1] = byte
  BY <1>2
<1>8. NoHead(<<>>) /\ Tidy(<<>>, <<>>)
  <2>1. <<>> \in Seq(Byte)
    OBVIOUS
  <2> QED
    BY <2>1, EndsNothing
<1>9. u # <<>> => byte # Head0
  <2>1. u # <<>> => Len(u) + 1 # 1
    BY <1>1
  <2> QED
    BY <2>1 DEF Fields
<1>10. Ends(c, g) /\ Len(g) = FrameLen => c = g
  <2> SUFFICES ASSUME Ends(c, g), Len(g) = FrameLen PROVE c = g
    OBVIOUS
  <2>1. Len(g) <= Len(c)
    BY DEF Ends
  <2>2. Len(g) = Len(c)
    BY <1>2, <1>4, <2>1, FrameLenFacts
  <2> HIDE DEF c, g
  <2> QED
    BY <1>2, <1>4, <2>2, EndsWhole
<1>11. /\ Len(g) < Len(c) => /\ Ends(c, g) => Ends(Tail(c), g)
                             /\ Tidy(c, g) => Tidy(Tail(c), g)
       /\ NoHead(c) => NoHead(Tail(c))
  <2>1. <<>> \in Seq(Byte) /\ Len(<<>>) = 0
    OBVIOUS
  <2>2. Len(<<>>) < Len(c)
    BY <1>4, <2>1
  <2> QED
    BY <1>2, <1>4, <2>1, <2>2, EndsTail
<1> HIDE DEF u, g, old, new, done, c
<1>12. ASSUME Ends(old, u)
       PROVE  IF Len(g) = FrameLen THEN NoHead(new) ELSE Ends(new, g) \/ NoHead(new)
  <2>1. Ends(c, g) /\ Len(g) <= Len(c)
    BY <1>3, <1>12 DEF Ends
  <2>2. CASE Len(g) = FrameLen
    BY <1>2, <1>5, <1>8, <1>10, <2>1, <2>2
  <2>3. CASE Len(g) # FrameLen /\ Len(c) < FrameLen
    BY <1>2, <2>1, <2>3
  <2>4. CASE Len(g) # FrameLen /\ Len(c) = FrameLen
    <3>1. Len(g) < Len(c)
      BY <1>4, <2>4
    <3> QED
      BY <1>2, <1>8, <1>11, <2>1, <2>4, <3>1
  <2> QED
    BY <1>2, <1>4, <2>2, <2>3, <2>4, FrameLenFacts
<1>13. ASSUME NoHead(old), u # <<>> PROVE NoHead(new)
  <2>1. NoHead(c)
    BY <1>4, <1>6, <1>7, <1>9, <1>13 DEF NoHead
  <2>2. NoHead(Tail(c))
    BY <1>11, <2>1
  <2>3. Len(c) < FrameLen \/ Len(c) = FrameLen
    BY <1>2, <1>4, FrameLenFacts
  <2>4. new = c \/ new = <<>> \/ new = Tail(c)
    BY <1>2, <2>3
  <2> QED
    BY <1>8, <2>1, <2>2, <2>4
<1>14. ASSUME Tidy(old, u)
       PROVE  /\ Tidy(new, Unfinished(g))
              /\ done = IF Len(g) = FrameLen THEN g ELSE <<>>
  <2>1. Tidy(c, g) /\ Ends(c, g) /\ Len(g) <= Len(c)
    BY <1>3, <1>14 DEF Tidy, Ends
  <2>2. CASE Len(g) = FrameLen
    <3>1. c = g /\ new = <<>> /\ done = c
      BY <1>2, <1>5, <1>10, <2>1, <2>2
    <3> QED
      BY <1>8, <2>2, <3>1 DEF Unfinished
  <2>3. CASE Len(g) # FrameLen /\ Len(c) < FrameLen
    BY <1>2, <2>1, <2>3 DEF Unfinished
  <2>4. CASE Len(g) # FrameLen /\ Len(c) = FrameLen
    <3>1. Len(g) < Len(c) /\ 1 \in 1 .. (Len(c) - Len(g))
      BY <1>4, <2>1, <2>4
    <3>2. c[1] # Head0
      BY <2>1, <3>1 DEF Tidy
    <3> QED
      BY <1>2, <1>11, <2>1, <2>4, <3>1, <3>2 DEF Unfinished
  <2> QED
    BY <1>2, <1>4, <2>2, <2>3, <2>4, FrameLenFacts
<1> QED
  BY <1>12, <1>13, <1>14

\* After as many clean bytes as the current frame has, the ring ends with that
\* frame or holds no start of a packet; a frame's length later nothing in the
\* ring can be mistaken for a packet.
ResyncInv ==
  /\ BufferInv
  /\ clean >= Len(frame)
       => IF Len(frame) = FrameLen THEN NoHead(Content(ring))
          ELSE Ends(Content(ring), frame) \/ NoHead(Content(ring))
  /\ clean >= Len(frame) + FrameLen
       => Tidy(Content(ring), Unfinished(frame)) /\ InStep

LEMMA InitResync == Init => ResyncInv
<1> SUFFICES ASSUME Init PROVE ResyncInv
  OBVIOUS
<1>1. CleanInv
  BY InitClean
<1>2. frame = <<>> /\ Len(frame) # FrameLen
  BY FrameLenFacts DEF Init
<1>3. Content(ring) = <<>>
  BY <1>1, <1>2 DEF CleanInv, Unfinished
<1>4. /\ NoHead(<<>>) /\ Tidy(<<>>, <<>>)
  <2>1. <<>> \in Seq(Byte)
    OBVIOUS
  <2> QED
    BY <2>1, EndsNothing
<1> QED
  BY <1>1, <1>2, <1>3, <1>4 DEF CleanInv, ResyncInv, Unfinished

LEMMA StepResync ==
  ASSUME Head0 # Head1, Head0 \notin Payload
  PROVE  ResyncInv /\ [Next]_vars => ResyncInv'
<1> SUFFICES ASSUME ResyncInv, [Next]_vars PROVE ResyncInv'
  OBVIOUS
<1>1. /\ BufferInv' /\ BufferInv
      /\ Waiting(ring) /\ frame \in Partial /\ clean \in Nat /\ clean <= Settled
      /\ Waiting(ring') /\ frame' \in Partial
  <2>1. BufferInv /\ BufferInv'
    BY StepBuffer DEF ResyncInv
  <2> QED
    BY <2>1, FrameLenFacts
       DEF BufferInv, TypeOK, RingNeverFills, Waiting
<1>2. /\ frame \in Seq(Byte) /\ Len(frame) \in Nat /\ Len(frame) <= FrameLen
      /\ frame' \in Seq(Byte) /\ Len(frame') \in Nat
      /\ Content(ring) \in Seq(Byte) /\ Content(ring') \in Seq(Byte)
  BY <1>1, PartialSeq, ContentType DEF Waiting
<1>3. CASE Send
  <2> DEFINE u == Unfinished(frame)
  <2>1. PICK byte \in Fields(Len(u) + 1) :
          /\ frame' = Append(u, byte)
          /\ Receive(byte)
          /\ clean' = IF clean < Settled THEN clean + 1 ELSE clean
    BY <1>3 DEF Send, Unfinished
  <2>2. /\ Ends(Content(ring), u)
             => IF Len(frame') = FrameLen THEN NoHead(Content(ring'))
                ELSE Ends(Content(ring'), frame') \/ NoHead(Content(ring'))
        /\ NoHead(Content(ring)) /\ u # <<>> => NoHead(Content(ring'))
        /\ Tidy(Content(ring), u)
             => Tidy(Content(ring'), Unfinished(frame')) /\ InStep'
    BY <1>1, <2>1, SendContent DEF Receive, InStep
  <2>3. u \in Seq(Byte) /\ Len(u) \in Nat /\ Len(frame') = Len(u) + 1
    BY <1>1, <2>1, SendFrame
  <2>4. /\ Len(frame) = FrameLen => u = <<>>
        /\ Len(frame) # FrameLen => u = frame
        /\ Len(<<>>) = 0
    BY DEF Unfinished
  <2> HIDE DEF u
  <2>5. Ends(Content(ring), <<>>)
        /\ (NoHead(Content(ring)) => Tidy(Content(ring), <<>>))
    BY <1>2, EndsNothing
  <2>6. ASSUME clean' >= Len(frame')
        PROVE  IF Len(frame') = FrameLen THEN NoHead(Content(ring'))
               ELSE Ends(Content(ring'), frame') \/ NoHead(Content(ring'))
    <3>1. CASE u = <<>>
      BY <2>2, <2>5, <3>1
    <3>2. CASE u # <<>>
      <4>1. u = frame /\ Len(frame) # FrameLen
        BY <2>4, <3>2
      <4>2. clean >= Len(frame)
        BY <1>1, <1>2, <2>1, <2>3, <2>6, <4>1, FrameLenFacts
      <4>3. Ends(Content(ring), u) \/ NoHead(Content(ring))
        BY <4>1, <4>2 DEF ResyncInv
      <4> QED
        BY <2>2, <3>2, <4>3
    <3> QED
      BY <3>1, <3>2
  <2>7. ASSUME clean' >= Len(frame') + FrameLen
        PROVE  Tidy(Content(ring'), Unfinished(frame')) /\ InStep'
    <3>1. CASE Len(frame) = FrameLen
      <4>1. Len(frame') = 1 /\ clean >= Len(frame)
        BY <1>1, <1>2, <2>1, <2>3, <2>4, <2>7, <3>1, FrameLenFacts
      <4>2. NoHead(Content(ring))
        BY <3>1, <4>1 DEF ResyncInv
      <4> QED
        BY <2>2, <2>4, <2>5, <3>1, <4>2
    <3>2. CASE Len(frame) # FrameLen
      <4>1. u = frame
        BY <2>4, <3>2
      <4>2. clean >= Len(frame) + FrameLen
        BY <1>1, <1>2, <2>1, <2>3, <2>7, <4>1, FrameLenFacts
      <4>3. Tidy(Content(ring), Unfinished(frame))
        BY <4>2 DEF ResyncInv
      <4>4. Unfinished(frame) = frame
        BY <3>2 DEF Unfinished
      <4> QED
        BY <2>2, <4>1, <4>3, <4>4
    <3> QED
      BY <3>1, <3>2
  <2> QED
    BY <1>1, <2>6, <2>7 DEF ResyncInv
<1>4. CASE Noise \/ Lose
  <2>1. clean' = 0
    BY <1>4 DEF Noise, Lose
  <2>2. ~(clean' >= Len(frame') + FrameLen)
    BY <1>2, <2>1, FrameLenFacts
  <2>3. clean' >= Len(frame') => frame' = <<>> /\ Len(frame') # FrameLen
    BY <1>2, <2>1, FrameLenFacts
  <2>4. Ends(Content(ring'), <<>>)
    BY <1>2, EndsNothing
  <2> QED
    BY <1>1, <2>2, <2>3, <2>4 DEF ResyncInv
<1>5. CASE UNCHANGED vars
  BY <1>1, <1>5 DEF vars, ResyncInv, InStep, Unfinished
<1> QED
  BY <1>3, <1>4, <1>5 DEF Next

\* Lost, inserted or replaced bytes, any number of times, cost at most the frame
\* they hit and the next, for frames, payloads and rings of every size, as long
\* as the head's first byte occurs nowhere else.
THEOREM Resynchronises ==
  ASSUME Head0 # Head1, Head0 \notin Payload
  PROVE  Spec => []ResyncWithinTwoFrames
<1>1. ASSUME ResyncInv PROVE ResyncWithinTwoFrames
  <2>1. frame \in Seq(Byte) /\ Len(frame) \in Nat /\ Len(frame) <= FrameLen
    BY <1>1, PartialSeq DEF ResyncInv, BufferInv, TypeOK
  <2>2. clean = Settled => clean >= Len(frame) + FrameLen
    BY <2>1, FrameLenFacts
  <2> QED
    BY <1>1, <2>2 DEF ResyncInv, ResyncWithinTwoFrames
<1>2. ResyncInv /\ [Next]_vars => ResyncInv'
  BY StepResync
<1> QED
  BY <1>1, <1>2, InitResync, PTL DEF Spec
=============================================================================
