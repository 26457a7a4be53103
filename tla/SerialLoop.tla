----------------------------- MODULE SerialLoop -----------------------------
(***************************************************************************)
(* The main loop of task/test/test_serial.cpp over io::Serial: one thread  *)
(* that waits in spin_once, whose read_some has no timeout, and then sends *)
(* a frame, for ever.  At the other end is a peer that sends by itself, or *)
(* one that answers a frame with a frame, after a first one of its own or  *)
(* not.  A caller that does anything in any order is kept beside the loop. *)
(***************************************************************************)
EXTENDS Serial

CONSTANT Port   \* the port main opens

ASSUME LoopAssumption == Port \in Ports

VARIABLES caller,   \* "main", or "any": calls in any order
          peer,     \* "streams", "greets", or "answers"
          pc,       \* where main is: "open", "recv", "spin" or "send"
          reads,    \* reads of main that returned
          asked     \* frames of main that reached the peer

loop == <<caller, peer, pc, reads, asked>>
allvars == <<vars, loop>>

LoopInit ==
  /\ Init
  /\ caller \in {"any", "main"}
  /\ peer \in {"streams", "greets", "answers"}
  /\ caller = "any" => peer = "streams"
  /\ pc = "open"
  /\ reads = 0
  /\ asked = 0

\* What the peer still has to say.
Owed ==
  peer # "streams" =>
    sent[Port] < FrameLen * (asked + IF peer = "greets" THEN 1 ELSE 0)

PeerSends ==
  /\ caller = "main" /\ Owed
  /\ Put(Port)
  /\ UNCHANGED loop

AnyCall ==
  /\ caller = "any"
  /\ Next
  /\ UNCHANGED loop

MainOpens ==
  /\ caller = "main" /\ pc = "open"
  /\ Open(Port)
  /\ pc' = "recv"
  /\ UNCHANGED <<caller, peer, reads, asked>>

MainReceives ==
  /\ caller = "main" /\ pc = "recv"
  /\ Recv(Port)
  /\ pc' = "spin"
  /\ UNCHANGED <<caller, peer, reads, asked>>

\* Faulty variant: nothing is sent when no packet came of what was read.
MainReadsAgain ==
  /\ caller = "main" /\ pc = "spin"
  /\ Spin(Port)
  /\ pc' = IF packets'[Port] = <<>> THEN "spin" ELSE "send"
  /\ reads' = reads + 1
  /\ UNCHANGED <<caller, peer, asked>>

\* spin_once() returns with some bytes;
MainReads ==
  /\ caller = "main" /\ pc = "spin"
  /\ Spin(Port)
  /\ pc' = "send"
  /\ reads' = reads + 1
  /\ UNCHANGED <<caller, peer, asked>>

\* or because the port failed, now or earlier: main does not ask.
MainReadsNothing ==
  /\ caller = "main" /\ pc = "spin"
  /\ \/ SpinFails(Port)
     \/ ~is_open[Port] /\ UNCHANGED vars
  /\ pc' = "send"
  /\ UNCHANGED <<caller, peer, reads, asked>>

\* send(sendpkg)
MainSends ==
  /\ caller = "main" /\ pc = "send"
  /\ \/ is_open[Port] /\ asked' = asked + 1 /\ UNCHANGED vars
     \/ WriteFails(Port) /\ UNCHANGED asked
     \/ ~is_open[Port] /\ UNCHANGED <<vars, asked>>
  /\ pc' = "spin"
  /\ UNCHANGED <<caller, peer, reads>>

MainNext == MainOpens \/ MainReceives \/ MainReads \/ MainReadsNothing \/ MainSends

LoopNext == AnyCall \/ PeerSends \/ MainNext

LoopSpec == LoopInit /\ [][LoopNext]_allvars

(***************************************************************************)
(* A peer that has something to say says it in the end; main runs unless   *)
(* it waits for bytes, and reads them when they are there.                 *)
(***************************************************************************)
LoopFairSpec ==
  /\ LoopSpec
  /\ WF_allvars(PeerSends)
  /\ WF_allvars(MainOpens \/ MainReceives \/ MainReads \/ MainSends)
  /\ \A p \in Ports : WF_allvars(caller = "any" /\ Spin(p) /\ UNCHANGED loop)

-----------------------------------------------------------------------------

LoopTypeOK ==
  /\ TypeOK
  /\ caller \in {"any", "main"}
  /\ peer \in {"streams", "greets", "answers"}
  /\ pc \in {"open", "recv", "spin", "send"}
  /\ asked \in 0 .. reads /\ reads \in 0 .. MaxSent

\* Main and a peer that spoke first never come to wait for each other once a
\* first read has returned: while main waits in read_some there are bytes on
\* the line or the peer owes some, however the reads cut its frames and also if
\* part of the first was lost.  (If the whole of it was lost, or the peer waits
\* to be asked, they wait for each other from the start.)
NeverBothWaiting ==
  caller = "main" /\ peer = "greets" /\ pc = "spin" /\ is_open[Port] /\ reads > 0
    => line[Port] # <<>> \/ Owed

\* So the exchange goes on, as long as the port works.
ExchangeGoesOn ==
  [](caller = "main" /\ peer = "greets" /\ reads > 0 /\ []is_open[Port]
       => <>(sent[Port] = MaxSent))
=============================================================================
