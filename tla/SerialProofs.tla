---------------------------- MODULE SerialProofs ----------------------------
(***************************************************************************)
(* Proofs about SerialLoop: main is one of the callers of Serial, a port   *)
(* that says it is open holds its device, main and a peer that spoke first *)
(* never wait for each other, and the bytes of a port stay in order.  Of   *)
(* CrcProofs it takes the lemmas about induction.                          *)
(***************************************************************************)
EXTENDS SerialLoop, CrcProofs

LEMMA LoopStepIsACall == LoopInit => Init
<1> QED
  BY DEF LoopInit

LEMMA LoopStep == [LoopNext]_allvars => [Next]_vars
<1> SUFFICES ASSUME [LoopNext]_allvars PROVE [Next]_vars
  OBVIOUS
<1> USE LoopAssumption
<1>1. CASE AnyCall
  BY <1>1 DEF AnyCall
<1>2. CASE PeerSends
  BY <1>2 DEF PeerSends, Next
<1>3. CASE MainNext
  BY <1>3 DEF MainNext, MainOpens, MainReceives, MainReads, MainReadsNothing, MainSends, Next
<1>4. CASE UNCHANGED allvars
  BY <1>4 DEF allvars
<1> QED
  BY <1>1, <1>2, <1>3, <1>4 DEF LoopNext

\* The loop of test_serial.cpp is one of the programs that Serial allows, so
\* what holds whatever the caller does holds for it.
THEOREM MainIsACaller == LoopSpec => Spec
<1> QED
  BY LoopStepIsACall, LoopStep, PTL DEF LoopSpec, Spec

-----------------------------------------------------------------------------

PortInv ==
  /\ handle \in [Ports -> BOOLEAN]
  /\ is_open \in [Ports -> BOOLEAN]
  /\ OpenIsHeld

LEMMA PortInit == Init => PortInv
<1> QED
  BY DEF Init, PortInv, OpenIsHeld

LEMMA PortStep == PortInv /\ [Next]_vars => PortInv'
<1> SUFFICES ASSUME PortInv, [Next]_vars PROVE PortInv'
  OBVIOUS
<1> USE DEF PortInv, OpenIsHeld
<1>1. ASSUME NEW p \in Ports, Open(p) PROVE PortInv'
  <2>1. PICK result \in {"success"} \union (Faults \intersect {"open", "options"}) :
          /\ handle' = [handle EXCEPT ![p] = result # "open"]
          /\ is_open' = [is_open EXCEPT ![p] = result = "success"]
    BY <1>1 DEF Open
  <2> QED
    BY <2>1
<1>2. ASSUME NEW p \in Ports, Close(p) PROVE PortInv'
  BY <1>2 DEF Close
<1>3. ASSUME NEW p \in Ports, Put(p) \/ Recv(p) PROVE PortInv'
  BY <1>3 DEF Put, Recv
<1>4. ASSUME NEW p \in Ports, WriteFails(p) \/ SpinFails(p) PROVE PortInv'
  BY <1>4 DEF WriteFails, SpinFails
<1>5. ASSUME NEW p \in Ports, Spin(p) PROVE PortInv'
  <2>1. is_open[p] /\ handle' = handle
    BY <1>5 DEF Spin
  <2>2. PICK b \in BOOLEAN : is_open' = [is_open EXCEPT ![p] = b]
    BY <1>5 DEF Spin
  <2> QED
    BY <2>1, <2>2
<1>6. CASE UNCHANGED vars
  BY <1>6 DEF vars
<1> QED
  BY <1>1, <1>2, <1>3, <1>4, <1>5, <1>6 DEF Next

\* is_open_ implies that the device is held, after any sequence of opens that
\* fail at any point, closes, failed reads and writes and callbacks that throw.
THEOREM OpenPortsAreHeld == Spec => []OpenIsHeld
<1>1. PortInv => OpenIsHeld
  BY DEF PortInv
<1> QED
  BY <1>1, PortInit, PortStep, PTL DEF Spec

\* The same of the program with its peer, which the run checks.
THEOREM LoopPortsAreHeld == LoopSpec => []OpenIsHeld
<1> QED
  BY MainIsACaller, OpenPortsAreHeld, PTL

-----------------------------------------------------------------------------
(***************************************************************************)
(* A peer that greets has sent at most one frame more than it was asked    *)
(* for.  When main waits after a read, everything it has read was sent     *)
(* before its last frame was: at most as much as the peer was asked for.   *)
(***************************************************************************)

SentByte == [port : Ports, n : Nat]

LinkType ==
  /\ is_open \in [Ports -> BOOLEAN]
  /\ sent \in [Ports -> Nat]
  /\ line \in [Ports -> Seq(SentByte)]
  /\ asked \in Nat /\ reads \in Nat

LinkInv ==
  caller = "main" =>
    /\ LinkType
    /\ pc \in {"open", "recv"} => reads = 0
    /\ peer = "greets" => sent[Port] <= FrameLen * (asked + 1)
    /\ peer = "greets" /\ pc = "spin" /\ is_open[Port] /\ reads > 0
         => sent[Port] - Len(line[Port]) <= FrameLen * asked

LEMMA LinkInit == LoopInit => LinkInv
<1> QED
  BY LoopAssumption, SerialAssumption DEF LoopInit, Init, LinkInv, LinkType

LEMMA PutKeepsType ==
  ASSUME LinkType, Put(Port), UNCHANGED <<asked, reads>>
  PROVE  /\ LinkType'
         /\ sent'[Port] = sent[Port] + 1
         /\ Len(line'[Port]) = Len(line[Port]) + 1
<1> USE LoopAssumption DEF LinkType, Put
<1>1. ByteOf(Port, sent[Port] + 1) \in SentByte
  BY DEF ByteOf, SentByte
<1> QED
  BY <1>1

LEMMA OpenKeepsType ==
  ASSUME LinkType, Open(Port), UNCHANGED <<asked, reads>>
  PROVE  LinkType'
<1> USE LoopAssumption DEF LinkType
<1>1. PICK result \in {"success"} \union (Faults \intersect {"open", "options"}) :
        is_open' = [is_open EXCEPT ![Port] = result = "success"]
  BY DEF Open
<1>2. PICK rest \in Kept(Port) : line' = [line EXCEPT ![Port] = rest]
  BY DEF Open, Waiting
<1>3. rest \in Seq(SentByte)
  <2>1. \A s \in Seq(SentByte) : \A i \in 1 .. Len(s) : SubSeq(s, i, Len(s)) \in Seq(SentByte)
    OBVIOUS
  <2>2. ASSUME NEW s \in Seq(SentByte) PROVE Suffixes(s) \subseteq Seq(SentByte)
    <3>1. <<>> \in Seq(SentByte)
      OBVIOUS
    <3> QED
      BY <2>1, <3>1 DEF Suffixes
  <2>3. line[Port] \in Seq(SentByte)
    OBVIOUS
  <2> QED
    BY <1>2, <2>2, <2>3 DEF Kept
<1> QED
  BY <1>1, <1>2, <1>3 DEF Open

LEMMA SpinKeepsType ==
  ASSUME LinkType, Spin(Port), asked' = asked, reads' = reads + 1
  PROVE  LinkType'
<1> USE LoopAssumption DEF LinkType
<1>1. PICK b \in BOOLEAN : is_open' = [is_open EXCEPT ![Port] = b]
  BY DEF Spin
<1>2. PICK len \in 1 .. Len(line[Port]) :
        line' = [line EXCEPT ![Port] = SubSeq(@, len + 1, Len(@))]
  BY DEF Spin
<1>3. SubSeq(line[Port], len + 1, Len(line[Port])) \in Seq(SentByte)
  OBVIOUS
<1> QED
  BY <1>1, <1>2, <1>3 DEF Spin

LEMMA LinkStep == LinkInv /\ [LoopNext]_allvars => LinkInv'
<1> SUFFICES ASSUME LinkInv, [LoopNext]_allvars, caller = "main" PROVE LinkInv'
  BY DEF LinkInv, LoopNext, AnyCall, PeerSends, MainNext, MainOpens, MainReceives,
         MainReads, MainReadsNothing, MainSends, allvars, loop
<1> USE LoopAssumption, SerialAssumption
<1>0. FrameLen * asked \in Nat /\ FrameLen * (asked + 1) = FrameLen * asked + FrameLen
  BY DEF LinkInv, LinkType
<1>1. CASE PeerSends
  <2>1. UNCHANGED loop /\ is_open' = is_open
    BY <1>1 DEF PeerSends, Put
  <2>2. /\ LinkType'
        /\ sent'[Port] = sent[Port] + 1
        /\ Len(line'[Port]) = Len(line[Port]) + 1
    BY <1>1, <2>1, PutKeepsType DEF PeerSends, LinkInv, loop
  <2>3. peer = "greets" => sent[Port] < FrameLen * (asked + 1)
    BY <1>1 DEF PeerSends, Owed
  <2>4. sent[Port] \in Nat /\ Len(line[Port]) \in Nat /\ FrameLen * (asked + 1) \in Nat
    BY <1>0 DEF LinkInv, LinkType
  <2> QED
    BY <1>0, <2>1, <2>2, <2>3, <2>4 DEF LinkInv, loop
<1>2. CASE MainOpens
  BY <1>2, OpenKeepsType DEF MainOpens, LinkInv, Open
<1>3. CASE MainReceives
  BY <1>3 DEF MainReceives, Recv, LinkInv, LinkType
<1>4. CASE MainReads
  <2>1. LinkType'
    BY <1>4, SpinKeepsType DEF MainReads, LinkInv
  <2> QED
    BY <1>4, <2>1 DEF MainReads, Spin, LinkInv
<1>5. CASE MainReadsNothing
  BY <1>5 DEF MainReadsNothing, SpinFails, vars, LinkInv, LinkType
<1>6. CASE MainSends
  <2>1. UNCHANGED <<caller, peer, reads, sent, line>> /\ pc' = "spin"
    BY <1>6 DEF MainSends, WriteFails, vars
  <2>2. \/ asked' = asked + 1 /\ is_open' = is_open
        \/ asked' = asked /\ ~is_open'[Port] /\ is_open' \in [Ports -> BOOLEAN]
    <3>1. CASE is_open[Port] /\ asked' = asked + 1 /\ UNCHANGED vars
      BY <3>1 DEF vars
    <3>2. CASE WriteFails(Port) /\ UNCHANGED asked
      BY <3>2 DEF WriteFails, LinkInv, LinkType
    <3>3. CASE ~is_open[Port] /\ UNCHANGED <<vars, asked>>
      BY <3>3 DEF vars, LinkInv, LinkType
    <3> QED
      BY <1>6, <3>1, <3>2, <3>3 DEF MainSends
  <2>3. LinkType'
    BY <2>1, <2>2 DEF LinkInv, LinkType
  <2>4. CASE asked' = asked + 1
    <3>1. /\ FrameLen * asked' = FrameLen * (asked + 1)
          /\ FrameLen * (asked' + 1) = FrameLen * (asked + 1) + FrameLen
      BY <2>4 DEF LinkInv, LinkType
    <3>2. peer = "greets" => sent'[Port] <= FrameLen * asked'
      BY <2>1, <3>1 DEF LinkInv
    <3>3. sent'[Port] \in Nat /\ Len(line'[Port]) \in Nat
      BY <2>3 DEF LinkType
    <3>4. FrameLen * asked' \in Nat
      BY <1>0, <3>1
    <3>5. peer = "greets" => sent'[Port] <= FrameLen * (asked' + 1)
      BY <1>0, <3>1, <3>2, <3>3, <3>4
    <3>6. peer = "greets" => sent'[Port] - Len(line'[Port]) <= FrameLen * asked'
      BY <3>2, <3>3, <3>4
    <3> QED
      BY <2>1, <2>3, <3>5, <3>6 DEF LinkInv
  <2>5. CASE asked' = asked /\ ~is_open'[Port]
    BY <2>1, <2>3, <2>5 DEF LinkInv, LinkType
  <2> QED
    BY <2>2, <2>4, <2>5
<1>7. CASE UNCHANGED allvars
  BY <1>7 DEF allvars, vars, loop, LinkInv, LinkType
<1> QED
  BY <1>1, <1>2, <1>3, <1>4, <1>5, <1>6, <1>7 DEF LoopNext, AnyCall, MainNext

\* Main and a peer that spoke first never wait for each other, for every frame
\* length, wherever reads cut the frames, whatever the callback throws.
THEOREM NobodyWaitsForEver == LoopSpec => []NeverBothWaiting
<1>1. LinkInv => NeverBothWaiting
  <2> SUFFICES ASSUME LinkInv, caller = "main", peer = "greets", pc = "spin",
                      is_open[Port], reads > 0, line[Port] = <<>>
               PROVE  Owed
    BY DEF NeverBothWaiting
  <2>1. sent[Port] <= FrameLen * asked
    BY LoopAssumption DEF LinkInv, LinkType
  <2>2. FrameLen \in Nat /\ asked \in Nat
    BY SerialAssumption DEF LinkInv, LinkType
  <2>4. FrameLen * (asked + 1) = FrameLen * asked + FrameLen /\ FrameLen * asked \in Nat
    BY <2>2
  <2>3. sent[Port] \in Nat
    BY LoopAssumption DEF LinkInv, LinkType
  <2> QED
    BY <2>1, <2>3, <2>4, SerialAssumption DEF Owed
<1> QED
  BY <1>1, LinkInit, LinkStep, PTL DEF LoopSpec

-----------------------------------------------------------------------------
(***************************************************************************)
(* input() takes one byte after the other.                                 *)
(***************************************************************************)

Acc(B) == {acc \in [contents : Seq(B), out : Seq(Seq(B))] : Len(acc.contents) < FrameLen}

\* What input() does with a byte, case by case.
LEMMA TakeCases ==
  ASSUME NEW acc, NEW byte, NEW limit
  PROVE  LET c == Append(acc.contents, byte)
             t == Take(acc, byte, limit)
         IN  \/ t = acc
             \/ Len(c) < FrameLen /\ t = [acc EXCEPT !.contents = c]
             \/ t = [contents |-> <<>>, out |-> Append(acc.out, c)]
             \/ ~(Len(c) < FrameLen) /\ t = [acc EXCEPT !.contents = Tail(c)]
<1> QED
  BY Zenon DEF Take

\* Four ways to go on with a byte: to ignore it, to keep it, to complete a
\* packet, or to drop the oldest byte for it.
Taken(acc, byte, t) ==
  LET c == Append(acc.contents, byte)
  IN  \/ t.contents = acc.contents /\ t.out = acc.out
      \/ t.contents = c /\ t.out = acc.out
      \/ t.contents = <<>> /\ t.out = Append(acc.out, c)
      \/ t.contents = Tail(c) /\ t.out = acc.out

\* The parser never comes to hold a packet.
LEMMA TakeType ==
  ASSUME NEW B, NEW acc \in Acc(B), NEW byte \in B, NEW limit
  PROVE  Take(acc, byte, limit) \in Acc(B) /\ Taken(acc, byte, Take(acc, byte, limit))
<1> DEFINE c == Append(acc.contents, byte)
           t == Take(acc, byte, limit)
<1>1. /\ acc = [contents |-> acc.contents, out |-> acc.out]
      /\ acc.contents \in Seq(B) /\ acc.out \in Seq(Seq(B)) /\ Len(acc.contents) < FrameLen
  BY DEF Acc
<1>2. c \in Seq(B) /\ Len(c) = Len(acc.contents) + 1
  BY <1>1
<1>3. FrameLen \in Nat /\ FrameLen > 2
  BY SerialAssumption
<1>4. \/ t = acc
      \/ Len(c) < FrameLen /\ t = [acc EXCEPT !.contents = c]
      \/ t = [contents |-> <<>>, out |-> Append(acc.out, c)]
      \/ ~(Len(c) < FrameLen) /\ t = [acc EXCEPT !.contents = Tail(c)]
  BY TakeCases
<1> HIDE DEF c, t
<1>5. CASE t = acc
  BY <1>5 DEF Taken, t
<1>6. CASE Len(c) < FrameLen /\ t = [acc EXCEPT !.contents = c]
  <2>1. t = [contents |-> c, out |-> acc.out]
    BY <1>1, <1>6
  <2> QED
    BY <1>1, <1>2, <1>6, <2>1 DEF Acc, Taken, c, t
<1>7. CASE t = [contents |-> <<>>, out |-> Append(acc.out, c)]
  <2>1. <<>> \in Seq(B) /\ Len(<<>>) = 0 /\ Append(acc.out, c) \in Seq(Seq(B))
    BY <1>1, <1>2
  <2> QED
    BY <1>3, <1>7, <2>1 DEF Acc, Taken, c, t
<1>8. CASE ~(Len(c) < FrameLen) /\ t = [acc EXCEPT !.contents = Tail(c)]
  <2>1. t = [contents |-> Tail(c), out |-> acc.out]
    BY <1>1, <1>8
  <2>2. Tail(c) \in Seq(B) /\ Len(Tail(c)) = Len(acc.contents)
    BY <1>1, <1>2
  <2> QED
    BY <1>1, <2>1, <2>2 DEF Acc, Taken, c, t
<1> QED
  BY <1>4, <1>5, <1>6, <1>7, <1>8

\* What the parser has done after each byte of a chunk.
IsFed(fed, contents, bytes, limit) ==
  /\ fed[0] = [contents |-> contents, out |-> <<>>]
  /\ \A i \in 1 .. Len(bytes) : Taken(fed[i - 1], bytes[i], fed[i])
  /\ Feed(contents, bytes, limit) = fed[Len(bytes)]

\* A chunk is the course of its bytes.
LEMMA FeedCourse ==
  ASSUME NEW B, NEW contents \in Seq(B), Len(contents) < FrameLen,
         NEW bytes \in Seq(B), NEW limit
  PROVE  \E fed \in [0 .. Len(bytes) -> Acc(B)] : IsFed(fed, contents, bytes, limit)
<1> DEFINE n == Len(bytes)
           a == [contents |-> contents, out |-> <<>>]
           h == [i \in 1 .. n |-> [acc \in Acc(B) |-> Take(acc, bytes[i], limit)]]
           Def(g) == g = [i \in 0 .. n |-> IF i = 0 THEN a ELSE Take(g[i - 1], bytes[i], limit)]
           c == CHOOSE g : Def(g)
<1>1. n \in Nat /\ a \in Acc(B)
  BY DEF Acc
<1>2. h \in [1 .. n -> [Acc(B) -> Acc(B)]]
  BY TakeType
<1>3. Feed(contents, bytes, limit) = c[n]
  BY Zenon DEF Feed
<1>4. PICK f \in [0 .. n -> Acc(B)] : IsCourse(f, n, a, h)
  <2> HIDE DEF n, a, h
  <2> QED
    BY <1>1, <1>2, RecursionUpTo
<1>5. Def(f)
  <2>1. f[0] = a
    BY <1>4 DEF IsCourse
  <2>2. ASSUME NEW i \in 1 .. n PROVE f[i] = Take(f[i - 1], bytes[i], limit)
    <3>1. i - 1 \in 0 .. n /\ f[i] = h[i][f[i - 1]]
      BY <1>1, <1>4 DEF IsCourse
    <3>2. f[i - 1] \in Acc(B)
      <4> HIDE DEF n
      <4> QED
        BY <1>4, <3>1
    <3> QED
      BY <3>1, <3>2
  <2>3. ASSUME NEW i \in 0 .. n PROVE i = 0 \/ i \in 1 .. n
    BY <1>1
  <2> HIDE DEF n, a
  <2> QED
    BY <2>1, <2>2, <2>3
<1>6. Def(c)
  <2> HIDE DEF Def
  <2> QED
    BY <1>5
<1>7. /\ c[0] = a /\ c = [i \in 0 .. n |-> c[i]]
      /\ \A i \in 1 .. n : c[i] = Take(c[i - 1], bytes[i], limit)
  <2>1. 0 \in 0 .. n /\ \A i \in 1 .. n : i \in 0 .. n /\ i # 0
    BY <1>1
  <2> HIDE DEF c, n, a
  <2> QED
    BY <1>6, <2>1
<1>8. \A i \in 0 .. n : c[i] \in Acc(B)
  <2>1. c[0] = a /\ Follows(c, n, Acc(B), h)
    BY <1>7 DEF Follows
  <2> HIDE DEF n, a, h, c
  <2> QED
    BY <1>1, <1>2, <2>1, CourseStays
<1>9. c \in [0 .. n -> Acc(B)]
  BY <1>7, <1>8
<1>10. ASSUME NEW i \in 1 .. n PROVE Taken(c[i - 1], bytes[i], c[i])
  <2>1. c[i - 1] \in Acc(B) /\ bytes[i] \in B
    BY <1>8
  <2> HIDE DEF c
  <2> QED
    BY <1>7, <2>1, TakeType
<1> HIDE DEF c
<1> QED
  BY <1>3, <1>7, <1>9, <1>10 DEF IsFed

-----------------------------------------------------------------------------
(***************************************************************************)
(* The bytes of a port on their way through packets, parser and line.      *)
(***************************************************************************)

Sorted(s, q) == \A i, j \in DOMAIN s : i < j => Before(s[i], s[j], q)

Precedes(s, t, q) == \A i \in DOMAIN s, j \in DOMAIN t : Before(s[i], t[j], q)

\* Packets, parser and rest hold the bytes of q in the order they were sent.
Pipe(out, contents, rest, q) ==
  /\ Sorted(contents, q) /\ Sorted(rest, q) /\ Precedes(contents, rest, q)
  /\ \A k \in DOMAIN out :
       Sorted(out[k], q) /\ Precedes(out[k], contents, q) /\ Precedes(out[k], rest, q)
  /\ \A k, l \in DOMAIN out : k < l => Precedes(out[k], out[l], q)

\* Nothing is in order with anything.
LEMMA EmptyIsSorted ==
  ASSUME NEW s, NEW q
  PROVE  Sorted(<<>>, q) /\ Precedes(<<>>, s, q) /\ Precedes(s, <<>>, q)
<1>1. DOMAIN <<>> = {}
  OBVIOUS
<1> QED
  BY <1>1 DEF Sorted, Precedes

\* The first byte of the rest goes to the end of the contents.
LEMMA MoveByte ==
  ASSUME NEW B, NEW s \in Seq(B), NEW t \in Seq(B), t # <<>>, NEW q,
         Sorted(s, q), Sorted(t, q), Precedes(s, t, q)
  PROVE  /\ Sorted(Append(s, t[1]), q) /\ Sorted(Tail(t), q)
         /\ Precedes(Append(s, t[1]), Tail(t), q)
<1> DEFINE c == Append(s, t[1])
           r == Tail(t)
<1>1. /\ DOMAIN s = 1 .. Len(s) /\ DOMAIN c = 1 .. Len(s) + 1
      /\ DOMAIN t = 1 .. Len(t) /\ DOMAIN r = 1 .. Len(t) - 1
      /\ Len(s) \in Nat /\ Len(t) \in Nat /\ 1 \in DOMAIN t
  OBVIOUS
<1>2. \A i \in DOMAIN c : (i \in DOMAIN s /\ c[i] = s[i]) \/ (i = Len(s) + 1 /\ c[i] = t[1])
  OBVIOUS
<1>3. \A i \in DOMAIN r : i + 1 \in DOMAIN t /\ r[i] = t[i + 1]
  OBVIOUS
<1> HIDE DEF c, r
<1>4. Sorted(c, q)
  <2> SUFFICES ASSUME NEW i \in DOMAIN c, NEW j \in DOMAIN c, i < j PROVE Before(c[i], c[j], q)
    BY DEF Sorted
  <2>1. i \in DOMAIN s /\ c[i] = s[i]
    BY <1>1, <1>2
  <2> QED
    BY <1>1, <1>2, <2>1 DEF Sorted, Precedes
<1>5. Sorted(r, q)
  <2> SUFFICES ASSUME NEW i \in DOMAIN r, NEW j \in DOMAIN r, i < j PROVE Before(r[i], r[j], q)
    BY DEF Sorted
  <2>1. i + 1 < j + 1
    BY <1>1
  <2> QED
    BY <1>3, <2>1 DEF Sorted
<1>6. Precedes(c, r, q)
  <2> SUFFICES ASSUME NEW i \in DOMAIN c, NEW j \in DOMAIN r PROVE Before(c[i], r[j], q)
    BY DEF Precedes
  <2>1. j + 1 \in DOMAIN t /\ r[j] = t[j + 1] /\ 1 < j + 1
    BY <1>1, <1>3
  <2> QED
    BY <1>1, <1>2, <2>1 DEF Sorted, Precedes
<1> QED
  BY <1>4, <1>5, <1>6 DEF c, r

\* A byte that comes after t can go to the end of what does.
LEMMA AppendPrecedes ==
  ASSUME NEW B, NEW s \in Seq(B), NEW byte \in B, NEW q, NEW t, Precedes(t, s, q),
         \A i \in DOMAIN t : Before(t[i], byte, q)
  PROVE  Precedes(t, Append(s, byte), q)
<1> QED
  BY DEF Precedes

\* Without its oldest byte a sequence keeps its place.
LEMMA TailPrecedes ==
  ASSUME NEW B, NEW s \in Seq(B), s # <<>>, NEW q, NEW t
  PROVE  /\ Precedes(t, s, q) => Precedes(t, Tail(s), q)
         /\ Precedes(s, t, q) => Precedes(Tail(s), t, q)
         /\ Sorted(s, q) => Sorted(Tail(s), q)
<1> DEFINE r == Tail(s)
<1>1. /\ DOMAIN r = 1 .. Len(s) - 1 /\ Len(s) \in Nat
      /\ \A i \in DOMAIN r : i + 1 \in DOMAIN s /\ r[i] = s[i + 1]
  OBVIOUS
<1> HIDE DEF r
<1>2. Precedes(t, s, q) => Precedes(t, r, q)
  BY <1>1 DEF Precedes
<1>3. Precedes(s, t, q) => Precedes(r, t, q)
  BY <1>1 DEF Precedes
<1>4. ASSUME Sorted(s, q) PROVE Sorted(r, q)
  <2> SUFFICES ASSUME NEW i \in DOMAIN r, NEW j \in DOMAIN r, i < j PROVE Before(r[i], r[j], q)
    BY DEF Sorted
  <2>1. i + 1 < j + 1
    BY <1>1
  <2> QED
    BY <1>1, <1>4, <2>1 DEF Sorted
<1> QED
  BY <1>2, <1>3, <1>4 DEF r

\* A byte of the port that is taken in keeps the order.
LEMMA TakeKeepsOrder ==
  ASSUME NEW B, NEW acc \in Acc(B), NEW rest \in Seq(B), rest # <<>>, NEW q,
         Pipe(acc.out, acc.contents, rest, q),
         NEW t \in Acc(B), Taken(acc, rest[1], t)
  PROVE  Pipe(t.out, t.contents, Tail(rest), q)
<1> DEFINE s == acc.contents
           out == acc.out
           c == Append(s, rest[1])
           r == Tail(rest)
<1>0. s \in Seq(B) /\ out \in Seq(Seq(B)) /\ rest[1] \in B /\ 1 \in DOMAIN rest
  BY DEF Acc
<1>1. /\ s \in Seq(B) /\ out \in Seq(Seq(B)) /\ rest[1] \in B /\ 1 \in DOMAIN rest
      /\ c \in Seq(B) /\ c # <<>> /\ r \in Seq(B)
  <2> HIDE DEF s, out
  <2>1. c \in Seq(B) /\ Len(c) > 0
    BY <1>0
  <2>2. r \in Seq(B)
    OBVIOUS
  <2> HIDE DEF c, r
  <2> QED
    BY <1>0, <2>1, <2>2
<1>2. /\ Sorted(s, q) /\ Sorted(rest, q) /\ Precedes(s, rest, q)
      /\ \A k \in DOMAIN out : Sorted(out[k], q) /\ Precedes(out[k], s, q) /\ Precedes(out[k], rest, q)
      /\ \A k, l \in DOMAIN out : k < l => Precedes(out[k], out[l], q)
  BY DEF Pipe
<1>3. Sorted(c, q) /\ Sorted(r, q) /\ Precedes(c, r, q)
  BY <1>1, <1>2, MoveByte
<1>4. \A k \in DOMAIN out : Precedes(out[k], c, q) /\ Precedes(out[k], r, q)
  <2> SUFFICES ASSUME NEW k \in DOMAIN out PROVE Precedes(out[k], c, q) /\ Precedes(out[k], r, q)
    OBVIOUS
  <2>1. \A i \in DOMAIN out[k] : Before(out[k][i], rest[1], q)
    BY <1>1, <1>2 DEF Precedes
  <2> QED
    BY <1>1, <1>2, <2>1, AppendPrecedes, TailPrecedes
<1>5. Precedes(s, r, q)
  BY <1>1, <1>2, TailPrecedes
<1> HIDE DEF c, r, s, out
<1>6. CASE t.contents = s /\ t.out = out
  BY <1>2, <1>3, <1>4, <1>5, <1>6 DEF Pipe, r
<1>7. CASE t.contents = c /\ t.out = out
  BY <1>2, <1>3, <1>4, <1>7 DEF Pipe, r
<1>8. CASE t.contents = <<>> /\ t.out = Append(out, c)
  <2>1. \A k \in DOMAIN t.out :
          (k \in DOMAIN out /\ t.out[k] = out[k]) \/ (k = Len(out) + 1 /\ t.out[k] = c)
    BY <1>1, <1>8
  <2>2. DOMAIN out = 1 .. Len(out) /\ DOMAIN t.out = 1 .. Len(out) + 1 /\ Len(out) \in Nat
    BY <1>1, <1>8
  <2>3. ASSUME NEW k \in DOMAIN t.out
        PROVE  Sorted(t.out[k], q) /\ Precedes(t.out[k], <<>>, q) /\ Precedes(t.out[k], r, q)
    BY <1>2, <1>3, <1>4, <2>1, EmptyIsSorted
  <2>4. ASSUME NEW k \in DOMAIN t.out, NEW l \in DOMAIN t.out, k < l
        PROVE  Precedes(t.out[k], t.out[l], q)
    <3>1. k \in DOMAIN out /\ t.out[k] = out[k]
      BY <2>1, <2>2, <2>4
    <3> QED
      BY <1>2, <1>4, <2>1, <2>4, <3>1
  <2> QED
    BY <1>3, <1>8, <2>3, <2>4, EmptyIsSorted DEF Pipe, r
<1>9. CASE t.contents = Tail(c) /\ t.out = out
  <2>1. Sorted(Tail(c), q) /\ Precedes(Tail(c), r, q)
    BY <1>1, <1>3, TailPrecedes
  <2>2. \A k \in DOMAIN out : Precedes(out[k], Tail(c), q)
    BY <1>1, <1>4, TailPrecedes
  <2> QED
    BY <1>2, <1>3, <1>4, <1>9, <2>1, <2>2 DEF Pipe, r
<1> QED
  BY <1>6, <1>7, <1>8, <1>9 DEF Taken, c, s, out

\* A byte of another port does not disturb it.
LEMMA TakeOther ==
  ASSUME NEW B, NEW acc \in Acc(B), NEW byte \in B, NEW q, byte.port # q, NEW out, NEW rest,
         Pipe(out, acc.contents, rest, q),
         NEW t \in Acc(B), Taken(acc, byte, t)
  PROVE  Pipe(out, t.contents, rest, q)
<1> DEFINE s == acc.contents
           c == Append(s, byte)
<1>0. s \in Seq(B)
  BY DEF Acc
<1>1. s \in Seq(B) /\ c \in Seq(B) /\ c # <<>>
  <2> HIDE DEF s
  <2>1. c \in Seq(B) /\ Len(c) > 0
    BY <1>0
  <2> QED
    BY <1>0, <2>1
<1>2. /\ Sorted(s, q) /\ Sorted(rest, q) /\ Precedes(s, rest, q)
      /\ \A k \in DOMAIN out : Sorted(out[k], q) /\ Precedes(out[k], s, q) /\ Precedes(out[k], rest, q)
      /\ \A k, l \in DOMAIN out : k < l => Precedes(out[k], out[l], q)
  BY DEF Pipe
<1>3. \A i \in DOMAIN c : (i \in DOMAIN s /\ c[i] = s[i]) \/ c[i] = byte
  BY <1>1
<1>4. \A x : Before(x, byte, q) /\ Before(byte, x, q)
  BY DEF Before
<1> DEFINE Fits(u) == /\ Sorted(u, q) /\ Precedes(u, rest, q)
                      /\ \A k \in DOMAIN out : Precedes(out[k], u, q)
<1>5. ASSUME NEW u, Fits(u) PROVE Pipe(out, u, rest, q)
  BY <1>2, <1>5 DEF Pipe
<1>6. Fits(s)
  BY <1>2
<1> HIDE DEF c
<1>7. Fits(c)
  <2>1. Sorted(c, q)
    BY <1>2, <1>3, <1>4 DEF Sorted
  <2>2. Precedes(c, rest, q)
    BY <1>2, <1>3, <1>4 DEF Precedes
  <2>3. ASSUME NEW k \in DOMAIN out PROVE Precedes(out[k], c, q)
    BY <1>2, <1>3, <1>4 DEF Precedes
  <2> QED
    BY <2>1, <2>2, <2>3
<1>8. Fits(<<>>)
  BY EmptyIsSorted
<1>9. Fits(Tail(c))
  BY <1>1, <1>7, TailPrecedes
<1> HIDE DEF Fits
<1> QED
  BY <1>5, <1>6, <1>7, <1>8, <1>9 DEF Taken, c

-----------------------------------------------------------------------------

\* The bytes that were sent, and those of a port.
Known == {b \in [port : Ports, n : 1 .. MaxSent] : b.n <= sent[b.port]}
Own(p) == {b \in Known : b.port = p}

\* Bytes are where they can be, and in order.
StreamInv ==
  /\ TypeOK
  /\ \A p \in Ports : line[p] \in Seq(Own(p))
  /\ parser \in Seq(Known)
  /\ \A p \in Ports : packets[p] \in Seq(Seq(Known))
  /\ \A p \in Ports : callbacks[p] <= 1 => Pipe(packets[p], parser, line[p], p)

\* Sequences over a set are sequences over a larger one.
LEMMA SeqMonotone ==
  ASSUME NEW S, NEW T, S \subseteq T, NEW s \in Seq(S)
  PROVE  s \in Seq(T)
<1> QED
  OBVIOUS

\* There is nothing to be out of order at first.
LEMMA StreamInit == Init => StreamInv
<1> SUFFICES ASSUME Init PROVE StreamInv
  OBVIOUS
<1>1. \A p \in Ports : line[p] = <<>> /\ packets[p] = <<>> /\ parser = <<>>
  BY DEF Init
<1>2. TypeOK
  <2>1. <<>> \in Chunk /\ <<>> \in Seq(Chunk) /\ Len(<<>>) = 0
    BY DEF Chunk
  <2> QED
    BY <2>1, SerialAssumption DEF Init, TypeOK
<1>3. \A p \in Ports : Pipe(<<>>, <<>>, <<>>, p)
  <2>1. DOMAIN <<>> = {}
    OBVIOUS
  <2> QED
    BY <2>1, EmptyIsSorted DEF Pipe
<1>4. \A S : <<>> \in Seq(S)
  OBVIOUS
<1>5. parser = <<>>
  BY DEF Init
<1> QED
  BY <1>1, <1>2, <1>3, <1>4, <1>5 DEF StreamInv

\* A suffix of the line keeps the order.
LEMMA SuffixKeepsOrder ==
  ASSUME NEW B, NEW s \in Seq(B), NEW m \in 0 .. Len(s), NEW out, NEW contents, NEW q,
         Pipe(out, contents, s, q)
  PROVE  /\ SubSeq(s, m + 1, Len(s)) \in Seq(B)
         /\ Pipe(out, contents, SubSeq(s, m + 1, Len(s)), q)
<1> DEFINE r == SubSeq(s, m + 1, Len(s))
<1>1. /\ r \in Seq(B) /\ DOMAIN r = 1 .. Len(s) - m /\ Len(s) \in Nat
      /\ \A i \in DOMAIN r : i + m \in DOMAIN s /\ r[i] = s[i + m]
  OBVIOUS
<1> HIDE DEF r
<1>2. Sorted(r, q)
  <2> SUFFICES ASSUME NEW i \in DOMAIN r, NEW j \in DOMAIN r, i < j PROVE Before(r[i], r[j], q)
    BY DEF Sorted
  <2>1. i + m < j + m
    BY <1>1
  <2> QED
    BY <1>1, <2>1 DEF Sorted, Pipe
<1>3. ASSUME NEW t, Precedes(t, s, q) PROVE Precedes(t, r, q)
  BY <1>1, <1>3 DEF Precedes
<1>4. Pipe(out, contents, r, q)
  BY <1>2, <1>3 DEF Pipe
<1> QED
  BY <1>1, <1>4 DEF r

\* What a driver keeps is the end of the line.
LEMMA KeptIsSuffix ==
  ASSUME NEW p \in Ports, NEW B, line[p] \in Seq(B), NEW rest \in Kept(p)
  PROVE  \E m \in 0 .. Len(line[p]) : rest = SubSeq(line[p], m + 1, Len(line[p]))
<1> DEFINE s == line[p]
<1>1. CASE rest = s
  <2>1. 0 \in 0 .. Len(s) /\ s = SubSeq(s, 0 + 1, Len(s))
    OBVIOUS
  <2> QED
    BY <1>1, <2>1
<1>2. CASE rest \in Suffixes(s)
  <2>1. rest = <<>> \/ \E i \in 1 .. Len(s) : rest = SubSeq(s, i, Len(s))
    BY <1>2, Zenon DEF Suffixes
  <2>2. CASE rest = <<>>
    <3>1. Len(s) \in 0 .. Len(s) /\ SubSeq(s, Len(s) + 1, Len(s)) = <<>>
      OBVIOUS
    <3> QED
      BY <2>2, <3>1
  <2>3. CASE \E i \in 1 .. Len(s) : rest = SubSeq(s, i, Len(s))
    <3>1. PICK i \in 1 .. Len(s) : rest = SubSeq(s, i, Len(s))
      BY <2>3
    <3>2. i - 1 \in 0 .. Len(s) /\ (i - 1) + 1 = i
      OBVIOUS
    <3> QED
      BY <3>1, <3>2
  <2> QED
    BY <2>1, <2>2, <2>3
<1> QED
  BY <1>1, <1>2 DEF Kept

\* The copies of a chunk: none, the chunk, or more of the same bytes.
LEMMA CopiesOfChunk ==
  ASSUME NEW B, NEW chunk \in Seq(B), Len(chunk) > 0, NEW n \in Nat
  PROVE  /\ Copies(chunk, n) \in Seq(B)
         /\ n = 0 => Len(Copies(chunk, n)) = 0
         /\ n = 1 => Copies(chunk, n) = chunk
<1> DEFINE L == Len(chunk)
<1>1. L \in Nat \ {0} /\ n * L \in Nat /\ 0 * L = 0 /\ 1 * L = L
  OBVIOUS
<1>2. chunk \in [1 .. L -> B]
  OBVIOUS
<1> HIDE DEF L
<1>3. ASSUME NEW i \in 1 .. n * L PROVE ((i - 1) % L) + 1 \in 1 .. L
  <2>1. (i - 1) % L \in 0 .. L - 1
    BY <1>1
  <2> QED
    BY <1>1, <2>1
<1>4. Copies(chunk, n) = [i \in 1 .. n * L |-> chunk[((i - 1) % L) + 1]]
  BY DEF Copies, L
<1>5. Copies(chunk, n) \in [1 .. n * L -> B]
  BY <1>2, <1>3, <1>4
<1>6. Copies(chunk, n) \in Seq(B) /\ Len(Copies(chunk, n)) = n * L
  BY <1>1, <1>5
<1>7. ASSUME n = 1 PROVE Copies(chunk, n) = chunk
  <2>1. ASSUME NEW i \in 1 .. L PROVE ((i - 1) % L) + 1 = i
    <3>1. (i - 1) % L = i - 1
      BY <1>1
    <3> QED
      BY <3>1
  <2>2. Copies(chunk, n) = [i \in 1 .. L |-> chunk[i]]
    BY <1>1, <1>4, <1>7, <2>1
  <2> QED
    BY <1>2, <2>2
<1> QED
  BY <1>1, <1>6, <1>7

\* A chunk of the line of p that one callback is handed, or none.
LEMMA FeedKeepsOrder ==
  ASSUME NEW B, NEW contents \in Seq(B), Len(contents) < FrameLen, NEW s \in Seq(B),
         NEW bytes \in Seq(B), Len(bytes) <= Len(s),
         \A i \in 1 .. Len(bytes) : bytes[i] = s[i],
         NEW limit, NEW out, NEW q, Pipe(out, contents, s, q)
  PROVE  LET r == Feed(contents, bytes, limit)
         IN  Pipe(r.out, r.contents, SubSeq(s, Len(bytes) + 1, Len(s)), q)
<1> DEFINE n == Len(bytes)
           Rest(i) == SubSeq(s, i + 1, Len(s))
<1>0. PICK fed \in [0 .. n -> Acc(B)] : IsFed(fed, contents, bytes, limit)
  BY FeedCourse
<1>1. /\ fed[0] = [contents |-> contents, out |-> <<>>]
      /\ \A i \in 1 .. n : Taken(fed[i - 1], bytes[i], fed[i])
      /\ Feed(contents, bytes, limit) = fed[n]
  BY <1>0 DEF IsFed
<1> DEFINE S == {i \in 0 .. n : Pipe(fed[i].out, fed[i].contents, Rest(i), q)}
<1>2. 0 \in S
  <2>1. Rest(0) = s
    OBVIOUS
  <2>2. Pipe(<<>>, contents, s, q)
    <3>1. DOMAIN <<>> = {}
      OBVIOUS
    <3> QED
      BY <3>1 DEF Pipe
  <2>3. fed[0].out = <<>> /\ fed[0].contents = contents /\ 0 \in 0 .. n
    BY <1>1
  <2> HIDE DEF Rest
  <2> QED
    BY <2>1, <2>2, <2>3
<1>3. ASSUME NEW i \in 1 .. n, i - 1 \in S PROVE i \in S
  <2> DEFINE r == Rest(i - 1)
             acc == fed[i - 1]
  <2>1. r \in Seq(B) /\ Len(r) = Len(s) - (i - 1) /\ Len(r) > 0
    OBVIOUS
  <2>2. r[1] = s[i] /\ Tail(r) = Rest(i)
    OBVIOUS
  <2>3. r # <<>>
    <3> HIDE DEF r
    <3> QED
      BY <2>1
  <2>4. acc \in Acc(B) /\ fed[i] \in Acc(B)
    <3>1. i - 1 \in 0 .. n /\ i \in 0 .. n
      OBVIOUS
    <3> HIDE DEF n, r
    <3> QED
      BY <3>1
  <2>5. Taken(acc, r[1], fed[i])
    BY <1>1, <2>2
  <2>6. Pipe(acc.out, acc.contents, r, q)
    BY <1>3
  <2> HIDE DEF r, acc, Rest
  <2>7. Pipe(fed[i].out, fed[i].contents, Tail(r), q)
    BY <2>1, <2>3, <2>4, <2>5, <2>6, TakeKeepsOrder
  <2>8. Pipe(fed[i].out, fed[i].contents, Rest(i), q)
    BY <2>2, <2>7
  <2> HIDE DEF Pipe
  <2> QED
    BY <2>8
<1>4. 0 .. n \subseteq S
  <2>1. n \in Nat
    OBVIOUS
  <2> HIDE DEF S, n
  <2> QED
    BY <1>2, <1>3, <2>1, InductionUpTo
<1>5. n \in S
  <2>1. n \in 0 .. n
    OBVIOUS
  <2> HIDE DEF S, n
  <2> QED
    BY <1>4, <2>1
<1> QED
  BY <1>1, <1>5

\* What is handed to any number of callbacks of another port.
LEMMA FeedOther ==
  ASSUME NEW B, NEW contents \in Seq(B), Len(contents) < FrameLen,
         NEW bytes \in Seq(B), NEW q, \A i \in 1 .. Len(bytes) : bytes[i].port # q,
         NEW limit, NEW out, NEW rest, Pipe(out, contents, rest, q)
  PROVE  Pipe(out, Feed(contents, bytes, limit).contents, rest, q)
<1> DEFINE n == Len(bytes)
<1>0. PICK fed \in [0 .. n -> Acc(B)] : IsFed(fed, contents, bytes, limit)
  BY FeedCourse
<1>1. /\ fed[0] = [contents |-> contents, out |-> <<>>]
      /\ \A i \in 1 .. n : Taken(fed[i - 1], bytes[i], fed[i])
      /\ Feed(contents, bytes, limit) = fed[n]
  BY <1>0 DEF IsFed
<1> DEFINE S == {i \in 0 .. n : Pipe(out, fed[i].contents, rest, q)}
<1>2. 0 \in S
  BY <1>1
<1>3. ASSUME NEW i \in 1 .. n, i - 1 \in S PROVE i \in S
  <2> DEFINE acc == fed[i - 1]
  <2>1. acc \in Acc(B) /\ fed[i] \in Acc(B) /\ bytes[i] \in B /\ bytes[i].port # q
        /\ Taken(acc, bytes[i], fed[i]) /\ Pipe(out, acc.contents, rest, q)
    BY <1>1, <1>3
  <2> HIDE DEF acc
  <2>2. Pipe(out, fed[i].contents, rest, q)
    BY <2>1, TakeOther
  <2> QED
    BY <2>2
<1>4. 0 .. n \subseteq S
  <2>1. n \in Nat
    OBVIOUS
  <2> HIDE DEF S, n
  <2> QED
    BY <1>2, <1>3, <2>1, InductionUpTo
<1>5. n \in S
  <2>1. n \in 0 .. n
    OBVIOUS
  <2> HIDE DEF S, n
  <2> QED
    BY <1>4, <2>1
<1> QED
  BY <1>1, <1>5

\* After a chunk the parser holds known bytes, less than a packet.
LEMMA FeedType ==
  ASSUME NEW B, NEW contents \in Seq(B), Len(contents) < FrameLen, NEW bytes \in Seq(B),
         NEW limit
  PROVE  Feed(contents, bytes, limit) \in Acc(B)
<1>1. PICK fed \in [0 .. Len(bytes) -> Acc(B)] : IsFed(fed, contents, bytes, limit)
  BY FeedCourse
<1>2. Len(bytes) \in 0 .. Len(bytes)
  OBVIOUS
<1> QED
  BY <1>1, <1>2 DEF IsFed

\* A byte that comes after all others of its port goes to the end of the line.
LEMMA PutKeepsOrder ==
  ASSUME NEW B, NEW contents \in Seq(B), NEW out \in Seq(Seq(B)), NEW rest \in Seq(B),
         NEW q, NEW byte, \A b \in B : Before(b, byte, q), Pipe(out, contents, rest, q)
  PROVE  Pipe(out, contents, Append(rest, byte), q)
<1> DEFINE r == Append(rest, byte)
<1>1. /\ DOMAIN r = 1 .. Len(rest) + 1 /\ DOMAIN rest = 1 .. Len(rest) /\ Len(rest) \in Nat
      /\ \A i \in DOMAIN r : (i \in DOMAIN rest /\ r[i] = rest[i]) \/ (i = Len(rest) + 1 /\ r[i] = byte)
  OBVIOUS
<1> HIDE DEF r
<1>2. Sorted(r, q)
  <2> SUFFICES ASSUME NEW i \in DOMAIN r, NEW j \in DOMAIN r, i < j PROVE Before(r[i], r[j], q)
    BY DEF Sorted
  <2>1. i \in DOMAIN rest /\ r[i] = rest[i] /\ rest[i] \in B
    BY <1>1
  <2> QED
    BY <1>1, <2>1 DEF Sorted, Pipe
<1>3. ASSUME NEW s \in Seq(B), Precedes(s, rest, q) PROVE Precedes(s, r, q)
  <2> SUFFICES ASSUME NEW i \in DOMAIN s, NEW j \in DOMAIN r PROVE Before(s[i], r[j], q)
    BY DEF Precedes
  <2>1. s[i] \in B
    OBVIOUS
  <2> QED
    BY <1>1, <1>3, <2>1 DEF Precedes
<1>4. \A k \in DOMAIN out : out[k] \in Seq(B)
  OBVIOUS
<1> QED
  BY <1>2, <1>3, <1>4 DEF Pipe, r

\* The peer sends the byte after all others.
LEMMA PutStep ==
  ASSUME StreamInv, NEW p \in Ports, Put(p)
  PROVE  StreamInv'
<1> DEFINE byte == ByteOf(p, sent[p] + 1)
<1>1. /\ sent \in [Ports -> 0 .. MaxSent] /\ line \in [Ports -> Chunk] /\ MaxSent \in Nat
      /\ sent[p] < MaxSent
      /\ sent' = [sent EXCEPT ![p] = @ + 1]
      /\ line' = [line EXCEPT ![p] = Append(@, byte)]
      /\ UNCHANGED <<handle, is_open, callbacks, parser, packets, lost>>
  BY SerialAssumption DEF StreamInv, TypeOK, Put
<1>2. /\ sent' \in [Ports -> 0 .. MaxSent] /\ \A q \in Ports : sent[q] <= sent'[q]
      /\ sent'[p] = sent[p] + 1
  BY <1>1
<1>3. Known \subseteq Known' /\ \A q \in Ports : Own(q) \subseteq Own(q)'
  BY <1>1, <1>2 DEF Known, Own
<1>4. byte \in Own(p)' /\ byte \in [port : Ports, n : 1 .. MaxSent]
  BY <1>1, <1>2 DEF ByteOf, Known, Own
<1>5. \A b \in Known : Before(b, byte, p)
  BY <1>1 DEF Known, Before, ByteOf
<1> HIDE DEF byte
<1>6. /\ line'[p] = Append(line[p], byte)
      /\ \A q \in Ports : q # p => line'[q] = line[q]
  BY <1>1
<1>7. ASSUME NEW q \in Ports PROVE line'[q] \in Seq(Own(q)')
  <2>1. line[q] \in Seq(Own(q)')
    <3>1. line[q] \in Seq(Own(q))
      BY DEF StreamInv
    <3> QED
      BY <1>3, <3>1, SeqMonotone
  <2> QED
    BY <1>4, <1>6, <2>1
<1>8. parser \in Seq(Known') /\ \A q \in Ports : packets[q] \in Seq(Seq(Known'))
  <2>1. parser \in Seq(Known')
    BY <1>3, SeqMonotone DEF StreamInv
  <2>2. ASSUME NEW q \in Ports PROVE packets[q] \in Seq(Seq(Known'))
    <3>1. Seq(Known) \subseteq Seq(Known')
      BY <1>3, SeqMonotone
    <3>2. packets[q] \in Seq(Seq(Known))
      BY DEF StreamInv
    <3> QED
      BY <3>1, <3>2, SeqMonotone
  <2> QED
    BY <2>1, <2>2
<1>9. TypeOK'
  <2>1. ASSUME NEW q \in Ports PROVE line'[q] \in Chunk
    <3>1. line[q] \in Chunk
      BY <1>1
    <3>2. Append(line[p], byte) \in Chunk
      <4>1. line[p] \in Chunk
        BY <1>1
      <4> QED
        BY <1>4, <4>1 DEF Chunk
    <3> QED
      BY <1>6, <3>1, <3>2
  <2>2. line' \in [Ports -> Chunk]
    BY <1>1, <2>1
  <2> QED
    BY <1>1, <1>2, <2>2 DEF StreamInv, TypeOK, Chunk
<1>10. ASSUME NEW q \in Ports, callbacks[q] <= 1 PROVE Pipe(packets[q], parser, line'[q], q)
  <2>1. Pipe(packets[q], parser, line[q], q)
    BY <1>10 DEF StreamInv
  <2>2. CASE q = p
    <3>1. line[p] \in Seq(Known)
      <4>1. Own(p) \subseteq Known
        BY DEF Own
      <4> QED
        BY <4>1, SeqMonotone DEF StreamInv
    <3>2. parser \in Seq(Known) /\ packets[p] \in Seq(Seq(Known))
      BY DEF StreamInv
    <3> QED
      BY <1>5, <1>6, <2>1, <2>2, <3>1, <3>2, PutKeepsOrder
  <2>3. CASE q # p
    BY <1>6, <2>1, <2>3
  <2> QED
    BY <2>2, <2>3
<1> QED
  BY <1>1, <1>7, <1>8, <1>9, <1>10 DEF StreamInv

\* The two parts of a sequence.
LEMMA SubSeqType ==
  ASSUME NEW B, NEW s \in Seq(B), NEW m \in 0 .. Len(s)
  PROVE  /\ SubSeq(s, m + 1, Len(s)) \in Seq(B) /\ SubSeq(s, 1, m) \in Seq(B)
         /\ Len(SubSeq(s, m + 1, Len(s))) = Len(s) - m /\ Len(SubSeq(s, 1, m)) = m
         /\ \A i \in 1 .. m : SubSeq(s, 1, m)[i] = s[i]
<1> QED
  OBVIOUS

\* A reopened port goes on with the end of its line and the old parser.
LEMMA OpenStep ==
  ASSUME StreamInv, NEW p \in Ports, Open(p)
  PROVE  StreamInv'
<1>1. /\ UNCHANGED <<callbacks, sent, parser, packets>>
      /\ handle \in [Ports -> BOOLEAN] /\ is_open \in [Ports -> BOOLEAN]
      /\ line \in [Ports -> Chunk]
  BY DEF StreamInv, TypeOK, Open
<1>2. PICK rest \in Kept(p) : Waiting(p, rest)
  BY DEF Open
<1>0. line' = [line EXCEPT ![p] = rest] /\ lost' \in [Ports -> 0 .. MaxSent]
  BY <1>2 DEF Waiting, StreamInv, TypeOK
<1>3. handle' \in [Ports -> BOOLEAN] /\ is_open' \in [Ports -> BOOLEAN]
  <2>1. PICK result \in {"success"} \union (Faults \intersect {"open", "options"}) :
          /\ handle' = [handle EXCEPT ![p] = result # "open"]
          /\ is_open' = [is_open EXCEPT ![p] = result = "success"]
    BY DEF Open
  <2> QED
    BY <1>1, <2>1
<1>4. line[p] \in Seq(Own(p)) /\ line[p] \in Chunk
  BY <1>1 DEF StreamInv
<1>5. PICK m \in 0 .. Len(line[p]) : rest = SubSeq(line[p], m + 1, Len(line[p]))
  BY <1>4, KeptIsSuffix
<1>6. rest \in Seq(Own(p)) /\ rest \in Chunk
  BY <1>4, <1>5, SubSeqType DEF Chunk
<1>7. /\ line'[p] = rest /\ line' \in [Ports -> Chunk]
      /\ \A q \in Ports : q # p => line'[q] = line[q]
  BY <1>0, <1>1, <1>6
<1>8. Known' = Known /\ \A q \in Ports : Own(q)' = Own(q)
  BY <1>1 DEF Known, Own
<1>9. ASSUME NEW q \in Ports, callbacks[q] <= 1 PROVE Pipe(packets[q], parser, line'[q], q)
  <2>1. Pipe(packets[q], parser, line[q], q)
    BY <1>9 DEF StreamInv
  <2>2. CASE q = p
    BY <1>4, <1>5, <1>7, <2>1, <2>2, SuffixKeepsOrder
  <2>3. CASE q # p
    BY <1>7, <2>1, <2>3
  <2> QED
    BY <2>2, <2>3
<1>10. TypeOK'
  BY <1>0, <1>1, <1>3, <1>7 DEF StreamInv, TypeOK, Chunk
<1>11. \A q \in Ports : line'[q] \in Seq(Own(q))
  BY <1>6, <1>7 DEF StreamInv
<1> QED
  BY <1>1, <1>8, <1>9, <1>10, <1>11 DEF StreamInv

\* A read takes a part of the line of p to the parser, which the others share.
LEMMA SpinStep ==
  ASSUME StreamInv, NEW p \in Ports, Spin(p)
  PROVE  StreamInv'
<1>1. PICK len \in 1 .. Len(line[p]), limit \in 1 .. MaxSent + 1 :
        LET result == Feed(parser, Copies(SubSeq(line[p], 1, len), callbacks[p]), limit)
            threw  == Len(result.out) = limit
        IN  /\ parser' = result.contents
            /\ packets' = [packets EXCEPT ![p] = result.out]
            /\ line' = [line EXCEPT ![p] = SubSeq(@, len + 1, Len(@))]
            /\ is_open' = [is_open EXCEPT ![p] = ~threw]
  BY Zenon DEF Spin
<1> DEFINE s == line[p]
           chunk == SubSeq(s, 1, len)
           rest == SubSeq(s, len + 1, Len(s))
           bytes == Copies(chunk, callbacks[p])
           result == Feed(parser, bytes, limit)
<1>2. /\ parser' = result.contents
      /\ packets' = [packets EXCEPT ![p] = result.out]
      /\ line' = [line EXCEPT ![p] = rest]
      /\ \E b \in BOOLEAN : is_open' = [is_open EXCEPT ![p] = b]
  BY <1>1
<1>3. UNCHANGED <<handle, callbacks, sent, lost>>
  BY DEF Spin
<1>4. /\ handle \in [Ports -> BOOLEAN] /\ is_open \in [Ports -> BOOLEAN]
      /\ line \in [Ports -> Chunk] /\ packets \in [Ports -> Seq(Chunk)]
      /\ callbacks[p] \in Nat /\ Len(parser) < FrameLen
      /\ parser \in Seq(Known) /\ s \in Seq(Own(p)) /\ s \in Chunk /\ packets[p] \in Seq(Chunk)
  BY SerialAssumption DEF StreamInv, TypeOK
<1>5. Own(p) \subseteq Known /\ Known \subseteq [port : Ports, n : 1 .. MaxSent]
  BY DEF Own, Known
<1>6. len \in 0 .. Len(s) /\ len > 0
  OBVIOUS
<1> HIDE DEF s
<1>7. /\ chunk \in Seq(Own(p)) /\ rest \in Seq(Own(p)) /\ rest \in Chunk
      /\ Len(chunk) = len /\ \A i \in 1 .. len : chunk[i] = s[i]
  BY <1>4, <1>6, SubSeqType DEF Chunk
<1> HIDE DEF chunk, rest
<1>8. /\ bytes \in Seq(Own(p))
      /\ callbacks[p] = 0 => Len(bytes) = 0
      /\ callbacks[p] = 1 => bytes = chunk
  BY <1>4, <1>6, <1>7, CopiesOfChunk
<1> HIDE DEF bytes
<1>9. bytes \in Seq(Known)
  BY <1>5, <1>8, SeqMonotone
<1>10. result \in Acc(Known)
  BY <1>4, <1>9, FeedType
<1>11. /\ result.contents \in Seq(Known) /\ result.out \in Seq(Seq(Known))
       /\ Len(result.contents) < FrameLen
  BY <1>10 DEF Acc
<1> HIDE DEF result
<1>12. /\ line'[p] = rest /\ packets'[p] = result.out
       /\ \A q \in Ports : q # p => line'[q] = line[q] /\ packets'[q] = packets[q]
  BY <1>2, <1>4
<1>13. Known' = Known /\ \A q \in Ports : Own(q)' = Own(q)
  BY <1>3 DEF Known, Own
<1>14. TypeOK'
  <2>1. result.contents \in Chunk
    BY <1>5, <1>11, SeqMonotone DEF Chunk
  <2>2. result.out \in Seq(Chunk)
    <3>1. Seq(Known) \subseteq Chunk
      BY <1>5, SeqMonotone DEF Chunk
    <3> QED
      BY <1>11, <3>1, SeqMonotone
  <2>3. line' \in [Ports -> Chunk] /\ packets' \in [Ports -> Seq(Chunk)]
    BY <1>2, <1>4, <1>7, <2>2
  <2>4. is_open' \in [Ports -> BOOLEAN]
    BY <1>2, <1>4
  <2> QED
    BY <1>2, <1>3, <1>11, <2>1, <2>3, <2>4 DEF StreamInv, TypeOK, Chunk
<1>15. \A q \in Ports : line'[q] \in Seq(Own(q)) /\ packets'[q] \in Seq(Seq(Known))
  BY <1>7, <1>11, <1>12 DEF StreamInv
<1>16. ASSUME NEW q \in Ports, callbacks[q] <= 1
       PROVE  Pipe(packets'[q], parser', line'[q], q)
  <2>1. Pipe(packets[q], parser, line[q], q)
    BY <1>16 DEF StreamInv
  <2>2. CASE q # p
    <3>1. \A i \in 1 .. Len(bytes) : bytes[i].port # q
      <4>1. \A b \in Own(p) : b.port # q
        BY <2>2 DEF Own
      <4> QED
        BY <1>8, <4>1
    <3>2. Pipe(packets[q], result.contents, line[q], q)
      BY <1>4, <1>9, <2>1, <3>1, FeedOther DEF result
    <3> QED
      BY <1>2, <1>12, <2>2, <3>2
  <2>3. CASE q = p /\ callbacks[p] = 1
    <3>1. /\ bytes = chunk /\ Len(bytes) = len /\ Len(bytes) <= Len(s)
          /\ \A i \in 1 .. Len(bytes) : bytes[i] = s[i]
      BY <1>6, <1>7, <1>8, <2>3
    <3>2. s \in Seq(Known)
      BY <1>4, <1>5, SeqMonotone
    <3>3. Pipe(packets[p], parser, s, p)
      BY <2>1, <2>3 DEF s
    <3>4. Pipe(result.out, result.contents, SubSeq(s, Len(bytes) + 1, Len(s)), p)
      BY <1>4, <1>9, <3>1, <3>2, <3>3, FeedKeepsOrder DEF result
    <3> QED
      BY <1>2, <1>12, <2>3, <3>1, <3>4 DEF rest
  <2>4. CASE q = p /\ callbacks[p] = 0
    <3>1. Len(bytes) = 0 /\ s \in Seq(Known) /\ Len(bytes) <= Len(s)
          /\ \A i \in 1 .. Len(bytes) : bytes[i] = s[i]
      BY <1>4, <1>5, <1>8, <2>4, SeqMonotone
    <3>2. Pipe(packets[p], parser, s, p)
      BY <2>1, <2>4 DEF s
    <3>3. Pipe(result.out, result.contents, SubSeq(s, Len(bytes) + 1, Len(s)), p)
      BY <1>4, <1>9, <3>1, <3>2, FeedKeepsOrder DEF result
    <3>4. SubSeq(s, Len(bytes) + 1, Len(s)) = s
      BY <3>1
    <3>5. Pipe(result.out, result.contents, rest, p)
      BY <1>6, <3>1, <3>3, <3>4, SuffixKeepsOrder DEF rest
    <3> QED
      BY <1>2, <1>12, <2>4, <3>5
  <2>5. callbacks[q] = 0 \/ callbacks[q] = 1
    <3>1. callbacks \in [Ports -> 0 .. MaxCallbacks] /\ MaxCallbacks \in Nat
      BY SerialAssumption DEF StreamInv, TypeOK
    <3>2. callbacks[q] \in Nat
      BY <3>1
    <3> QED
      BY <1>16, <3>2
  <2> QED
    BY <2>2, <2>3, <2>4, <2>5
<1> QED
  BY <1>2, <1>3, <1>11, <1>13, <1>14, <1>15, <1>16 DEF StreamInv

\* Every step keeps the bytes in order.
LEMMA StreamStep == StreamInv /\ [Next]_vars => StreamInv'
<1> SUFFICES ASSUME StreamInv, [Next]_vars PROVE StreamInv'
  OBVIOUS
<1>1. ASSUME UNCHANGED <<sent, line, parser, packets>>, TypeOK',
             \A q \in Ports : callbacks'[q] <= 1 => callbacks[q] <= 1
      PROVE  StreamInv'
  <2>1. Known' = Known /\ \A q \in Ports : Own(q)' = Own(q)
    BY <1>1 DEF Known, Own
  <2> QED
    BY <1>1, <2>1 DEF StreamInv
<1>2. ASSUME NEW p \in Ports, Close(p) PROVE StreamInv'
  <2>1. TypeOK'
    BY <1>2 DEF StreamInv, TypeOK, Close, Chunk
  <2> QED
    BY <1>1, <1>2, <2>1 DEF Close
<1>3. ASSUME NEW p \in Ports, Recv(p) PROVE StreamInv'
  <2>1. /\ callbacks \in [Ports -> 0 .. MaxCallbacks] /\ MaxCallbacks \in Nat
        /\ callbacks[p] < MaxCallbacks /\ callbacks' = [callbacks EXCEPT ![p] = @ + 1]
        /\ UNCHANGED <<handle, is_open, sent, line, parser, packets, lost>>
    BY <1>3, SerialAssumption DEF StreamInv, TypeOK, Recv
  <2>2. TypeOK'
    <3>1. callbacks' \in [Ports -> 0 .. MaxCallbacks]
      BY <2>1
    <3> QED
      BY <2>1, <3>1 DEF StreamInv, TypeOK, Chunk
  <2>3. \A q \in Ports : callbacks'[q] <= 1 => callbacks[q] <= 1
    BY <2>1
  <2> QED
    BY <1>1, <2>1, <2>2, <2>3
<1>4. ASSUME NEW p \in Ports, WriteFails(p) \/ SpinFails(p) PROVE StreamInv'
  <2>1. TypeOK'
    BY <1>4 DEF StreamInv, TypeOK, WriteFails, SpinFails, Chunk
  <2> QED
    BY <1>1, <1>4, <2>1 DEF WriteFails, SpinFails
<1>5. CASE UNCHANGED vars
  <2>1. TypeOK'
    BY <1>5 DEF StreamInv, TypeOK, vars, Chunk
  <2> QED
    BY <1>1, <1>5, <2>1 DEF vars
<1> QED
  BY <1>2, <1>3, <1>4, <1>5, PutStep, OpenStep, SpinStep DEF Next

\* The order in which BytesInOrder passes packets, parser and line.
LEMMA PipeIsOrder ==
  ASSUME NEW B, NEW out \in Seq(B), NEW contents, NEW rest, NEW q, Pipe(out, contents, rest, q),
         NEW stage, stage = out \o <<contents, rest>>,
         NEW k \in DOMAIN stage, NEW l \in DOMAIN stage,
         NEW i \in DOMAIN stage[k], NEW j \in DOMAIN stage[l],
         k < l \/ (k = l /\ i < j)
  PROVE  Before(stage[k][i], stage[l][j], q)
<1> DEFINE n == Len(out)
<1>1. n \in Nat /\ DOMAIN out = 1 .. n /\ DOMAIN stage = 1 .. n + 2
  OBVIOUS
<1>2. /\ \A m \in 1 .. n : stage[m] = out[m]
      /\ stage[n + 1] = contents /\ stage[n + 2] = rest
  OBVIOUS
<1> HIDE DEF n
<1>3. \A m \in DOMAIN stage : m \in 1 .. n \/ m = n + 1 \/ m = n + 2
  BY <1>1
<1>4. CASE k = l
  <2>1. Sorted(stage[k], q)
    BY <1>1, <1>2, <1>3 DEF Pipe
  <2> QED
    BY <1>1, <1>4, <2>1 DEF Sorted
<1>5. CASE k < l
  <2>1. Precedes(stage[k], stage[l], q)
    <3>1. CASE k \in 1 .. n
      BY <1>1, <1>2, <1>3, <1>5, <3>1 DEF Pipe
    <3>2. CASE k = n + 1
      <4>1. l = n + 2
        BY <1>1, <1>3, <1>5, <3>2
      <4> QED
        BY <1>2, <3>2, <4>1 DEF Pipe
    <3>3. k # n + 2
      BY <1>1, <1>5
    <3> QED
      BY <1>3, <3>1, <3>2, <3>3
  <2> QED
    BY <2>1 DEF Precedes
<1> QED
  BY <1>1, <1>4, <1>5

\* What is kept is what BytesInOrder says.
LEMMA StreamIsOrdered == StreamInv => BytesInOrder
<1> SUFFICES ASSUME StreamInv, NEW p \in Ports, callbacks[p] <= 1
             PROVE  LET stage == packets[p] \o <<parser, line[p]>>
                    IN  \A k, l \in DOMAIN stage :
                          \A i \in DOMAIN stage[k], j \in DOMAIN stage[l] :
                            k < l \/ (k = l /\ i < j) => Before(stage[k][i], stage[l][j], p)
  BY Zenon DEF BytesInOrder
<1> DEFINE stage == packets[p] \o <<parser, line[p]>>
<1>1. packets[p] \in Seq(Seq(Known)) /\ Pipe(packets[p], parser, line[p], p)
  BY DEF StreamInv
<1>2. stage = packets[p] \o <<parser, line[p]>>
  OBVIOUS
<1> HIDE DEF stage
<1>3. ASSUME NEW k \in DOMAIN stage, NEW l \in DOMAIN stage,
             NEW i \in DOMAIN stage[k], NEW j \in DOMAIN stage[l],
             k < l \/ (k = l /\ i < j)
      PROVE  Before(stage[k][i], stage[l][j], p)
  BY <1>1, <1>2, <1>3, PipeIsOrder
<1> QED
  BY <1>3, Zenon DEF stage

\* The bytes of a port with one callback are handed on in the order in which they
\* were sent, none of them twice: for any number of ports that share the parser,
\* any frame length, wherever reads cut the stream, however often the port fails
\* and is reopened, and whichever packet a callback throws on.
THEOREM BytesStayInOrder == Spec => []BytesInOrder
<1> QED
  BY StreamInit, StreamStep, StreamIsOrdered, PTL DEF Spec

\* The same of the program with its peer, which the run checks.
THEOREM LoopBytesStayInOrder == LoopSpec => []BytesInOrder
<1> QED
  BY MainIsACaller, BytesStayInOrder, PTL

-----------------------------------------------------------------------------
(***************************************************************************)
(* Each read of main takes a byte that was sent to it, and it asks once    *)
(* after each read at most: on a port that failed it asks no more.         *)
(***************************************************************************)

LoopInv ==
  /\ TypeOK
  /\ caller \in {"any", "main"}
  /\ peer \in {"streams", "greets", "answers"}
  /\ pc \in {"open", "recv", "spin", "send"}
  /\ reads \in Nat /\ asked \in Nat
  /\ asked <= reads
  /\ caller = "any" \/ pc \in {"open", "recv"} => reads = 0
  /\ caller = "any" => pc = "open"
  /\ caller = "main" => reads + Len(line[Port]) <= sent[Port]
  /\ pc = "send" /\ is_open[Port] => asked < reads

\* Type correctness of the ports.
LEMMA StreamTypes == Spec => []TypeOK
<1>1. StreamInv => TypeOK
  BY DEF StreamInv
<1> QED
  BY <1>1, StreamInit, StreamStep, PTL DEF Spec

\* Main has read and asked nothing at first.
LEMMA LoopInvInit == LoopInit /\ TypeOK => LoopInv
<1> QED
  BY LoopAssumption DEF LoopInit, Init, LoopInv

\* Every step keeps the counts of main.
LEMMA LoopInvStep == LoopInv /\ TypeOK' /\ [LoopNext]_allvars => LoopInv'
<1> SUFFICES ASSUME LoopInv, TypeOK', [LoopNext]_allvars PROVE LoopInv'
  OBVIOUS
<1>0. /\ Port \in Ports /\ line \in [Ports -> Chunk] /\ sent \in [Ports -> 0 .. MaxSent]
      /\ line[Port] \in Chunk /\ Len(line[Port]) \in Nat /\ sent[Port] \in Nat
  <2>1. Port \in Ports /\ line \in [Ports -> Chunk] /\ sent \in [Ports -> 0 .. MaxSent]
    BY LoopAssumption DEF LoopInv, TypeOK
  <2>2. line[Port] \in Chunk /\ sent[Port] \in 0 .. MaxSent /\ MaxSent \in Nat
    BY <2>1, SerialAssumption
  <2>3. Len(line[Port]) \in Nat
    BY <2>2 DEF Chunk
  <2> QED
    BY <2>1, <2>2, <2>3
<1>1. CASE AnyCall
  BY <1>1 DEF AnyCall, LoopInv, loop
<1>2. CASE PeerSends
  <2>1. /\ sent'[Port] = sent[Port] + 1 /\ Len(line'[Port]) = Len(line[Port]) + 1
        /\ UNCHANGED <<caller, peer, pc, reads, asked, is_open>> /\ caller = "main"
    <3>1. /\ sent' = [sent EXCEPT ![Port] = @ + 1]
          /\ line' = [line EXCEPT ![Port] = Append(@, ByteOf(Port, sent[Port] + 1))]
          /\ UNCHANGED <<caller, peer, pc, reads, asked, is_open>> /\ caller = "main"
      BY <1>2 DEF PeerSends, Put, loop
    <3>2. Len(Append(line[Port], ByteOf(Port, sent[Port] + 1))) = Len(line[Port]) + 1
      BY <1>0 DEF Chunk
    <3> QED
      BY <1>0, <3>1, <3>2
  <2> QED
    BY <1>0, <2>1 DEF LoopInv
<1>3. CASE MainOpens
  <2>1. PICK rest \in Kept(Port) : line' = [line EXCEPT ![Port] = rest]
    BY <1>3 DEF MainOpens, Open, Waiting
  <2>2. line[Port] \in Seq([port : Ports, n : 1 .. MaxSent])
    BY <1>0 DEF Chunk
  <2>3. PICK m \in 0 .. Len(line[Port]) : rest = SubSeq(line[Port], m + 1, Len(line[Port]))
    BY <1>0, <2>2, KeptIsSuffix
  <2>4. Len(rest) = Len(line[Port]) - m
    BY <2>2, <2>3, SubSeqType
  <2>5. line'[Port] = rest /\ Len(rest) <= Len(line[Port]) /\ Len(rest) \in Nat
    BY <1>0, <2>1, <2>4
  <2>6. /\ UNCHANGED <<caller, peer, reads, asked, sent>> /\ pc' = "recv" /\ pc = "open"
        /\ caller = "main"
    BY <1>3 DEF MainOpens, Open
  <2> QED
    BY <1>0, <2>5, <2>6 DEF LoopInv
<1>4. CASE MainReceives
  BY <1>4 DEF MainReceives, Recv, LoopInv
<1>5. CASE MainReads
  <2>1. PICK len \in 1 .. Len(line[Port]) :
          line' = [line EXCEPT ![Port] = SubSeq(@, len + 1, Len(@))]
    BY <1>5 DEF MainReads, Spin
  <2>2. Len(SubSeq(line[Port], len + 1, Len(line[Port]))) = Len(line[Port]) - len
    <3>1. line[Port] \in Seq([port : Ports, n : 1 .. MaxSent]) /\ len \in 0 .. Len(line[Port])
      BY <1>0 DEF Chunk
    <3> QED
      BY <3>1, SubSeqType
  <2>3. Len(line'[Port]) = Len(line[Port]) - len
    BY <1>0, <2>1, <2>2
  <2>4. UNCHANGED <<caller, peer, asked, sent>> /\ pc' = "send" /\ reads' = reads + 1
        /\ caller = "main"
    BY <1>5 DEF MainReads, Spin
  <2> QED
    BY <1>0, <2>3, <2>4 DEF LoopInv
<1>6. CASE MainReadsNothing
  <2>1. UNCHANGED <<caller, peer, reads, asked, sent, line>> /\ pc' = "send" /\ ~is_open'[Port]
        /\ pc = "spin"
    <3>1. CASE SpinFails(Port)
      BY <1>6, <3>1, LoopAssumption DEF MainReadsNothing, SpinFails, LoopInv, TypeOK
    <3>2. CASE ~is_open[Port] /\ UNCHANGED vars
      BY <1>6, <3>2 DEF MainReadsNothing, vars
    <3> QED
      BY <1>6, <3>1, <3>2 DEF MainReadsNothing
  <2> QED
    BY <2>1 DEF LoopInv
<1>7. CASE MainSends
  <2>1. UNCHANGED <<caller, peer, reads, sent, line>> /\ pc = "send" /\ pc' = "spin"
    BY <1>7 DEF MainSends, WriteFails, vars
  <2>2. asked' = asked \/ (is_open[Port] /\ asked' = asked + 1)
    BY <1>7 DEF MainSends
  <2> QED
    BY <2>1, <2>2 DEF LoopInv
<1>8. CASE UNCHANGED allvars
  BY <1>8 DEF allvars, vars, loop, LoopInv
<1> QED
  BY <1>1, <1>2, <1>3, <1>4, <1>5, <1>6, <1>7, <1>8 DEF LoopNext, MainNext

\* Type correctness of the loop, its peer and its ports: the parser holds less
\* than a packet, and main has asked at most once for each read that returned, of
\* which there are no more than bytes were sent.
THEOREM LoopTypeCorrect == LoopSpec => []LoopTypeOK
<1>1. LoopInv => LoopTypeOK
  <2> SUFFICES ASSUME LoopInv PROVE LoopTypeOK
    OBVIOUS
  <2>1. Port \in Ports /\ Len(line[Port]) \in Nat /\ sent[Port] \in 0 .. MaxSent /\ MaxSent \in Nat
    BY LoopAssumption, SerialAssumption DEF LoopInv, TypeOK, Chunk
  <2>2. reads \in 0 .. MaxSent /\ asked \in 0 .. reads
    BY <2>1 DEF LoopInv
  <2> QED
    BY <2>2 DEF LoopInv, LoopTypeOK
<1> QED
  BY <1>1, LoopInvInit, LoopInvStep, MainIsACaller, StreamTypes, PTL DEF LoopSpec
=============================================================================
