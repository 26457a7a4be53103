------------------------------- MODULE Serial -------------------------------
(***************************************************************************)
(* io::Serial: ports that are opened, fail, are closed and reopened, with  *)
(* callbacks for packets of one type.  The parser of a type is a static    *)
(* member: all callbacks of all ports feed the same one.  It is modelled   *)
(* by its contents, as theorem InputContent of FramingProofs allows.  Each *)
(* call runs to its end: Serial has no threads of its own.                 *)
(***************************************************************************)
EXTENDS Integers, Sequences, SequencesExt

CONSTANTS Ports,
          FrameLen,       \* sizeof(T)
          MaxSent,        \* bound: bytes a peer sends
          MaxCallbacks,   \* bound: recv calls per port
          Faults          \* which of "open", "options", "io", "throw", "lost" occur

ASSUME SerialAssumption ==
  /\ FrameLen \in Nat /\ FrameLen > 2
  /\ MaxSent \in Nat /\ MaxCallbacks \in Nat
  /\ Faults \subseteq {"open", "options", "io", "throw", "lost"}

VARIABLES handle,     \* serial_.is_open(): the device is held
          is_open,    \* is_open_
          callbacks,  \* number of callbacks registered
          sent,       \* bytes the peer has sent
          line,       \* those that wait to be read
          parser,     \* contents of parser_<T>
          packets,    \* packets the last spin_once handed to callbacks
          lost        \* for the properties only: how many bytes had been sent when
                      \* some of them were last lost

vars == <<handle, is_open, callbacks, sent, line, parser, packets, lost>>

\* The n-th byte sent to a port; frames follow each other.
ByteOf(p, n) == [port |-> p, n |-> n]
Position(byte) == ((byte.n - 1) % FrameLen) + 1

Init ==
  /\ handle = [p \in Ports |-> FALSE]
  /\ is_open = [p \in Ports |-> FALSE]
  /\ callbacks = [p \in Ports |-> 0]
  /\ sent = [p \in Ports |-> 0]
  /\ line = [p \in Ports |-> <<>>]
  /\ parser = <<>>
  /\ packets = [p \in Ports |-> <<>>]
  /\ lost = [p \in Ports |-> 0]

\* The peer sends the next byte of its frames.
Put(p) ==
  /\ sent[p] < MaxSent
  /\ sent' = [sent EXCEPT ![p] = @ + 1]
  /\ line' = [line EXCEPT ![p] = Append(@, ByteOf(p, sent[p] + 1))]
  /\ UNCHANGED <<handle, is_open, callbacks, parser, packets, lost>>

\* What waits at a device that is opened: the driver need not have kept anything
\* from before, also when the port was open, as open() closes the device first.
Kept(p) == IF "lost" \in Faults THEN Suffixes(line[p]) ELSE {line[p]}

Waiting(p, rest) ==
  /\ line' = [line EXCEPT ![p] = rest]
  /\ lost' = [lost EXCEPT ![p] = IF rest = line[p] THEN @ ELSE sent[p]]

\* Faulty variant: a failure leaves the flag of the earlier port standing.
OpenKeepingFlag(p) ==
  /\ \E result \in {"success"} \union (Faults \intersect {"open", "options"}) :
       /\ handle' = [handle EXCEPT ![p] = result # "open"]
       /\ is_open' = [is_open EXCEPT ![p] = @ \/ result = "success"]
  /\ \E rest \in Kept(p) : Waiting(p, rest)
  /\ UNCHANGED <<callbacks, sent, parser, packets>>

\* open(): a device held already is let go first; an option that cannot be set
\* leaves the new one held but not open.  The parser is left as it is.
Open(p) ==
  /\ \E result \in {"success"} \union (Faults \intersect {"open", "options"}) :
       /\ handle' = [handle EXCEPT ![p] = result # "open"]
       /\ is_open' = [is_open EXCEPT ![p] = result = "success"]
  /\ \E rest \in Kept(p) : Waiting(p, rest)
  /\ UNCHANGED <<callbacks, sent, parser, packets>>

Close(p) ==
  /\ handle' = [handle EXCEPT ![p] = FALSE]
  /\ is_open' = [is_open EXCEPT ![p] = FALSE]
  /\ UNCHANGED <<callbacks, sent, line, parser, packets, lost>>

\* recv<T>(cb)
Recv(p) ==
  /\ callbacks[p] < MaxCallbacks
  /\ callbacks' = [callbacks EXCEPT ![p] = @ + 1]
  /\ UNCHANGED <<handle, is_open, sent, line, parser, packets, lost>>

\* write() changes nothing here unless it fails.
WriteFails(p) ==
  /\ is_open[p]
  /\ "io" \in Faults
  /\ is_open' = [is_open EXCEPT ![p] = FALSE]
  /\ UNCHANGED <<handle, callbacks, sent, line, parser, packets, lost>>

\* Faulty variant: a packet waits for the byte after it.
TakeLate(acc, byte, limit) ==
  LET c == Append(acc.contents, byte)
  IN  IF Len(acc.out) = limit THEN acc
      ELSE IF Len(c) <= FrameLen
        THEN [acc EXCEPT !.contents = c]
      ELSE IF Position(c[1]) = 1 /\ Position(c[2]) = 2
        THEN [contents |-> <<byte>>, out |-> Append(acc.out, Front(c))]
        ELSE [acc EXCEPT !.contents = Tail(c)]

\* input() on one byte, with the packets so far.  Nothing follows the packet
\* whose callback throws, the limit-th of this call.
Take(acc, byte, limit) ==
  LET c == Append(acc.contents, byte)
  IN  IF Len(acc.out) = limit THEN acc
      ELSE IF Len(c) < FrameLen
        THEN [acc EXCEPT !.contents = c]
      ELSE IF Position(c[1]) = 1 /\ Position(c[2]) = 2
        THEN [contents |-> <<>>, out |-> Append(acc.out, c)]
        ELSE [acc EXCEPT !.contents = Tail(c)]

\* Each callback is handed the whole chunk, one after the other.
Copies(chunk, n) ==
  [i \in 1 .. n * Len(chunk) |-> chunk[((i - 1) % Len(chunk)) + 1]]

\* Faulty variant: the last byte of a chunk is left out.
FeedMissingLast(contents, bytes, limit) ==
  LET fed[i \in 0 .. Len(bytes)] ==
        IF i = 0 THEN [contents |-> contents, out |-> <<>>]
        ELSE Take(fed[i - 1], bytes[i], limit)
  IN  IF bytes = <<>> THEN fed[0] ELSE fed[Len(bytes) - 1]

\* The wrapper that recv registers, for every callback in turn.
Feed(contents, bytes, limit) ==
  LET fed[i \in 0 .. Len(bytes)] ==
        IF i = 0 THEN [contents |-> contents, out |-> <<>>]
        ELSE Take(fed[i - 1], bytes[i], limit)
  IN  fed[Len(bytes)]

\* Faulty variant: the chunk stays to be read when a callback throws.
SpinRereading(p) ==
  /\ is_open[p] /\ line[p] # <<>>
  /\ \E len \in 1 .. Len(line[p]), limit \in 1 .. MaxSent + 1 :
       LET chunk  == SubSeq(line[p], 1, len)
           result == Feed(parser, Copies(chunk, callbacks[p]), limit)
           threw  == Len(result.out) = limit
       IN  /\ threw => "throw" \in Faults
           /\ parser' = result.contents
           /\ packets' = [packets EXCEPT ![p] = result.out]
           /\ line' = IF threw THEN line ELSE [line EXCEPT ![p] = SubSeq(@, len + 1, Len(@))]
           /\ is_open' = [is_open EXCEPT ![p] = ~threw]
  /\ UNCHANGED <<handle, callbacks, sent, lost>>

\* spin_once() on an open port waits for bytes and takes some of them; a
\* callback that throws closes the port as a failed read does.
Spin(p) ==
  /\ is_open[p] /\ line[p] # <<>>
  /\ \E len \in 1 .. Len(line[p]), limit \in 1 .. MaxSent + 1 :
       LET chunk  == SubSeq(line[p], 1, len)
           result == Feed(parser, Copies(chunk, callbacks[p]), limit)
           threw  == Len(result.out) = limit
       IN  /\ threw => "throw" \in Faults
           /\ parser' = result.contents
           /\ packets' = [packets EXCEPT ![p] = result.out]
           /\ line' = [line EXCEPT ![p] = SubSeq(@, len + 1, Len(@))]
           /\ is_open' = [is_open EXCEPT ![p] = ~threw]
  /\ UNCHANGED <<handle, callbacks, sent, lost>>

SpinFails(p) ==
  /\ is_open[p]
  /\ "io" \in Faults
  /\ is_open' = [is_open EXCEPT ![p] = FALSE]
  /\ UNCHANGED <<handle, callbacks, sent, line, parser, packets, lost>>

Next ==
  \E p \in Ports :
    Put(p) \/ Open(p) \/ Close(p) \/ Recv(p) \/ WriteFails(p) \/ Spin(p) \/ SpinFails(p)

Spec == Init /\ [][Next]_vars

-----------------------------------------------------------------------------

Chunk == Seq([port : Ports, n : 1 .. MaxSent])

TypeOK ==
  /\ handle \in [Ports -> BOOLEAN] /\ is_open \in [Ports -> BOOLEAN]
  /\ callbacks \in [Ports -> 0 .. MaxCallbacks]
  /\ sent \in [Ports -> 0 .. MaxSent]
  /\ line \in [Ports -> Chunk]
  /\ parser \in Chunk /\ Len(parser) < FrameLen
  /\ packets \in [Ports -> Seq(Chunk)]
  /\ lost \in [Ports -> 0 .. MaxSent]

\* A port that says it is open holds its device: no call touches a device that
\* was never opened or has been let go.
OpenIsHeld == \A p \in Ports : is_open[p] => handle[p]

Before(x, y, p) == x.port = p /\ y.port = p => x.n < y.n

\* With one callback the bytes of a port pass through packets, parser and line in
\* the order they were sent, none of them twice, whatever fails and whatever the
\* other ports and callbacks do with the parser.
BytesInOrder ==
  \A p \in Ports : callbacks[p] <= 1 =>
    LET stage == packets[p] \o <<parser, line[p]>>
    IN  \A k, l \in DOMAIN stage : \A i \in DOMAIN stage[k], j \in DOMAIN stage[l] :
          k < l \/ (k = l /\ i < j) => Before(stage[k][i], stage[l][j], p)

\* Whatever failed before and whatever the parser was left with: the second of
\* two frames that come to be sent while a callback is registered, the port stays
\* open and nothing is lost reaches the callback, wherever the reads cut them.
LastFrameArrives ==
  \A p \in Ports :
    [](   /\ [](is_open[p] /\ callbacks[p] = 1 /\ lost[p] <= MaxSent - 2 * FrameLen)
          /\ line[p] = <<>> /\ sent[p] = MaxSent - 2 * FrameLen
          /\ <>(sent[p] = MaxSent)
       => <>(packets[p] # <<>> /\ Last(Last(packets[p])).n = MaxSent))
=============================================================================
