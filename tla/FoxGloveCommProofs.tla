------------------------- MODULE FoxGloveCommProofs -------------------------
(***************************************************************************)
(* The logger under any sequence of init and log calls of any threads, and *)
(* the ownership of servers and addresses, for any number of objects,      *)
(* addresses, threads and files.                                           *)
(***************************************************************************)
EXTENDS FoxGloveComm, TLAPS

(***************************************************************************)
(* The logger.  All that the rest of the program does to it is a           *)
(* LoggerStep.                                                             *)
(***************************************************************************)

AnyConfig == [level : 0 .. 4, console : BOOLEAN, path : Paths \union {NoPath}]

LoggerStep ==
  \/ \E config \in AnyConfig : init(config)
  \/ \E t \in Threads, l \in 0 .. 3 : Enter(t, l)
  \/ \E t \in Threads : Write(t)
  \/ UNCHANGED logger

LEMMA CommConfigIsConfig == CommConfig \in AnyConfig
<1> QED
  BY DEF CommConfig, AnyConfig

LEMMA NextIsLoggerStep == [Next]_vars => LoggerStep
<1> SUFFICES ASSUME [Next]_vars PROVE LoggerStep
  OBVIOUS
<1> USE DEF LoggerStep
<1>1. CASE Reconfigure
  BY <1>1, LoggerAssumption DEF Reconfigure, AnyConfig
<1>2. ASSUME NEW c \in Comms, NEW a \in Addresses, Construct(c, a) PROVE LoggerStep
  BY <1>2, CommConfigIsConfig DEF Construct
<1>3. ASSUME NEW c \in Comms, NEW a \in Addresses, Reset(c, a) PROVE LoggerStep
  BY <1>3 DEF Reset
<1>4. CASE Started
  BY <1>4, CommAssumption DEF Started
<1>5. CASE NotStarted
  BY <1>5, CommAssumption DEF NotStarted
<1>6. ASSUME NEW c \in Comms, NEW d \in Comms, Move(c, d) PROVE LoggerStep
  BY <1>6 DEF Move
<1>7. ASSUME NEW c \in Comms, Destroy(c) PROVE LoggerStep
  BY <1>7 DEF Destroy
<1>8. ASSUME NEW a \in Addresses, Others(a) PROVE LoggerStep
  BY <1>8 DEF Others
<1>9. ASSUME NEW t \in Threads, Log(t) PROVE LoggerStep
  BY <1>9, LoggerAssumption DEF Log
<1>10. CASE UNCHANGED vars
  BY <1>10 DEF vars
<1> QED
  BY <1>1, <1>2, <1>3, <1>4, <1>5, <1>6, <1>7, <1>8, <1>9, <1>10 DEF Next

\* What the settings and the stream can be together: a file that is in use and
\* can be written to is the one the last init asked for, and only a second
\* request spoils the stream.
StreamInv ==
  /\ file => stream # "closed"
  /\ file /\ stream = "good" => path = wanted /\ wanted \in Paths
  /\ asked = 0 => stream = "closed"
  /\ stream = "bad" => asked = 2

LoggerInv == LoggerTypeOK /\ StreamInv

LEMMA LoggerInit == LoggerStart => LoggerInv
<1> SUFFICES ASSUME LoggerStart PROVE LoggerInv
  OBVIOUS
<1> USE DEF LoggerStart
<1>1. LoggerTypeOK
  <2>1. console \in BOOLEAN /\ file \in BOOLEAN
    OBVIOUS
  <2>2. /\ at \in [Threads -> {"outside", "admitted"}]
        /\ line \in [Threads -> 0 .. 3]
    OBVIOUS
  <2> QED
    BY <2>1, <2>2 DEF LoggerTypeOK
<1>2. StreamInv
  BY DEF StreamInv
<1> QED
  BY <1>1, <1>2 DEF LoggerInv

LEMMA InitKeepsLoggerInv ==
  ASSUME LoggerInv, NEW config \in AnyConfig, init(config)
  PROVE  LoggerInv'
<1> USE DEF init, Configure, LoggerInv
<1>1. LoggerTypeOK'
  <2>1. /\ level' \in 0 .. 4 /\ console' \in BOOLEAN
        /\ wanted' \in Paths \union {NoPath} /\ asked' \in 0 .. 2
    BY DEF LoggerTypeOK, AnyConfig
  <2>2. file' \in BOOLEAN /\ stream' \in {"closed", "good", "bad"}
    BY DEF LoggerTypeOK
  <2>3. path' \in Paths \union {NoPath}
    BY DEF LoggerTypeOK, AnyConfig
  <2> QED
    BY <2>1, <2>2, <2>3 DEF LoggerTypeOK
<1>2. StreamInv'
  BY LoggerAssumption DEF LoggerTypeOK, StreamInv, AnyConfig
<1> QED
  BY <1>1, <1>2

LEMMA LogKeepsLoggerInv ==
  ASSUME LoggerInv, NEW t \in Threads, NEW l \in 0 .. 3, Enter(t, l) \/ Write(t)
  PROVE  LoggerInv'
<1> USE DEF LoggerInv, settings
<1>1. LoggerTypeOK'
  <2>1. CASE Enter(t, l)
    BY <2>1 DEF Enter, LoggerTypeOK
  <2>2. CASE Write(t)
    <3>1. went' \subseteq Paths \union {"console"}
      <4>1. file /\ stream = "good" => path \in Paths
        BY DEF StreamInv
      <4> QED
        BY <2>2, <4>1 DEF Write
    <3> QED
      BY <2>2, <3>1 DEF Write, LoggerTypeOK
  <2> QED
    BY <2>1, <2>2
<1>2. StreamInv'
  BY DEF Enter, Write, StreamInv
<1> QED
  BY <1>1, <1>2

LEMMA StepKeepsLoggerInv == LoggerInv /\ [Next]_vars => LoggerInv'
<1> SUFFICES ASSUME LoggerInv, LoggerStep PROVE LoggerInv'
  BY NextIsLoggerStep
<1>1. CASE UNCHANGED logger
  BY <1>1 DEF logger, settings, calls, LoggerInv, LoggerTypeOK, StreamInv
<1>2. ASSUME NEW t \in Threads, Write(t) PROVE LoggerInv'
  <2>1. 0 \in 0 .. 3
    OBVIOUS
  <2> QED
    BY <1>2, <2>1, LogKeepsLoggerInv
<1> QED
  BY <1>1, <1>2, InitKeepsLoggerInv, LogKeepsLoggerInv DEF LoggerStep

\* The logger's part: what the stream and each thread's call are between steps.
THEOREM LoggerInvariant == Spec => []LoggerInv
<1> QED
  BY LoggerInit, StepKeepsLoggerInv, PTL DEF Spec, Init

\* Writes(t) happens in a step of Write only, which leaves the settings alone.
LEMMA WritesIsWrite ==
  ASSUME LoggerInv, [Next]_vars, NEW t \in Threads, Writes(t)
  PROVE  Write(t)
<1>1. ~(UNCHANGED logger)
  BY DEF Writes, logger, calls
<1>2. ASSUME NEW config \in AnyConfig, init(config) PROVE FALSE
  BY <1>2 DEF init, Configure, Writes
<1>3. ASSUME NEW u \in Threads, NEW l \in 0 .. 3, Enter(u, l) PROVE FALSE
  BY <1>3 DEF Enter, Writes, LoggerInv, LoggerTypeOK
<1>4. ASSUME NEW u \in Threads, Write(u) PROVE u = t
  BY <1>4 DEF Write, Writes, LoggerInv, LoggerTypeOK
<1> QED
  BY <1>1, <1>2, <1>3, <1>4, NextIsLoggerStep DEF LoggerStep

\* No line goes to a file other than the one asked for last.
THEOREM OnlyTheFileAsked == Spec => NoOtherFile
<1>1. ASSUME LoggerInv, [Next]_vars, NEW t \in Threads, Writes(t)
      PROVE  went' \subseteq {"console", wanted}
  BY <1>1, WritesIsWrite DEF Write, LoggerInv, StreamInv
<1>2. LoggerInv /\ [Next]_vars
        => [\A t \in Threads : Writes(t) => went' \subseteq {"console", wanted}]_logger
  BY <1>1
<1> QED
  BY <1>2, LoggerInvariant, PTL DEF Spec, NoOtherFile

\* With a single request for a file no line meant for it is lost.
THEOREM NoLineIsLost == Spec => LinesReachTheirFile
<1>1. ASSUME LoggerInv, [Next]_vars, NEW t \in Threads, Writes(t), file, asked = 1
      PROVE  wanted \in went'
  <2>1. stream = "good" /\ path = wanted
    BY <1>1 DEF LoggerInv, StreamInv, LoggerTypeOK
  <2> QED
    BY <1>1, <2>1, WritesIsWrite DEF Write
<1>2. LoggerInv /\ [Next]_vars
        => [\A t \in Threads : Writes(t) /\ file /\ asked = 1 => wanted \in went']_logger
  BY <1>1
<1> QED
  BY <1>2, LoggerInvariant, PTL DEF Spec, LinesReachTheirFile

-----------------------------------------------------------------------------
(***************************************************************************)
(* The objects.  While a server is being started its object is live, not   *)
(* ready and without a server: the old one is gone.                        *)
(***************************************************************************)

CommTypeOK ==
  /\ impl \in [Comms -> {"none", "moved", "live"}]
  /\ address \in [Comms -> Addresses \union {NoAddress}]
  /\ \A c \in Comms : address[c] # NoAddress <=> impl[c] = "live"
  /\ ready \in [Comms -> BOOLEAN]
  /\ server \in [Comms -> Addresses \union {NoAddress}]
  /\ creating \in Comms \union {Nobody}
  /\ ports \in [Addresses -> {"free", "ours", "other"}]

CreatingInv ==
  creating # Nobody =>
    impl[creating] = "live" /\ ~ready[creating] /\ server[creating] = NoAddress

CommInv == CommTypeOK /\ OkMeansServing /\ OneOwner /\ CreatingInv

LEMMA CommInit == Init => CommInv
<1> SUFFICES ASSUME Init PROVE CommInv
  OBVIOUS
<1> USE CommAssumption DEF Init
<1>1. CommTypeOK
  BY DEF CommTypeOK
<1>2. OkMeansServing
  BY DEF OkMeansServing, ok
<1>3. OneOwner
  BY DEF OneOwner
<1>4. CreatingInv
  BY DEF CreatingInv
<1> QED
  BY <1>1, <1>2, <1>3, <1>4 DEF CommInv

LEMMA FreedPorts ==
  ASSUME CommTypeOK, NEW c \in Comms
  PROVE  /\ Freed(c) \in [Addresses -> {"free", "ours", "other"}]
         /\ \A a \in Addresses :
              Freed(c)[a] = IF a = server[c] THEN "free" ELSE ports[a]
<1> QED
  BY DEF Freed, CommTypeOK

LEMMA ConstructKeepsInv ==
  ASSUME CommInv, NEW c \in Comms, NEW a \in Addresses, Construct(c, a)
  PROVE  CommInv'
<1> USE CommAssumption DEF Construct, CommInv
<1>1. server' = server
  BY DEF OkMeansServing, ok, CommTypeOK
<1>2. CommTypeOK'
  BY DEF CommTypeOK
<1>3. OkMeansServing'
  BY <1>1 DEF OkMeansServing, ok, CommTypeOK
<1>4. OneOwner'
  BY <1>1 DEF OneOwner
<1>5. CreatingInv'
  BY DEF CreatingInv, CommTypeOK
<1> QED
  BY <1>2, <1>3, <1>4, <1>5

LEMMA ResetKeepsInv ==
  ASSUME CommInv, NEW c \in Comms, NEW a \in Addresses, Reset(c, a)
  PROVE  CommInv'
<1> USE CommAssumption DEF Reset, CommInv
<1>1. CommTypeOK'
  BY FreedPorts DEF CommTypeOK
<1>2. OkMeansServing'
  BY DEF OkMeansServing, ok, CommTypeOK
<1>3. OneOwner'
  BY FreedPorts DEF OneOwner, CommTypeOK
<1>4. CreatingInv'
  BY DEF CreatingInv, CommTypeOK
<1> QED
  BY <1>1, <1>2, <1>3, <1>4

LEMMA StartedKeepsInv ==
  ASSUME CommInv, Started
  PROVE  CommInv'
<1> USE CommAssumption DEF Started, CommInv
<1>1. creating \in Comms /\ address[creating] \in Addresses
  BY DEF CommTypeOK, CreatingInv
<1>2. CommTypeOK'
  BY <1>1 DEF CommTypeOK
<1>3. OkMeansServing'
  BY <1>1 DEF OkMeansServing, ok, CommTypeOK, CreatingInv
<1>4. \A e \in Comms : server'[e] = IF e = creating THEN address[creating] ELSE server[e]
  BY <1>1 DEF CommTypeOK
<1>5. ~ \E e \in Comms : server[e] = address[creating]
  BY <1>1 DEF OneOwner
<1>6. \A a \in Addresses :
        ports'[a] = IF a = address[creating] THEN "ours" ELSE ports[a]
  BY <1>1 DEF CommTypeOK
<1>7. server[creating] = NoAddress
  BY DEF CreatingInv
<1>8. \A e, f \in Comms : server'[e] = server'[f] /\ server'[e] # NoAddress => e = f
  BY <1>4, <1>5 DEF OneOwner
<1>9. ASSUME NEW a \in Addresses
      PROVE  ports'[a] = "ours" <=> \E e \in Comms : server'[e] = a
  <2>1. CASE a = address[creating]
    BY <1>1, <1>4, <1>6, <2>1
  <2>2. CASE a # address[creating]
    <3>1. ASSUME NEW e \in Comms PROVE server'[e] = a <=> server[e] = a
      BY <1>4, <1>7, <2>2
    <3>2. ports'[a] = ports[a]
      BY <1>6, <2>2
    <3> QED
      BY <3>1, <3>2 DEF OneOwner
  <2> QED
    BY <2>1, <2>2
<1>10. OneOwner'
  BY <1>8, <1>9 DEF OneOwner
<1> QED
  BY <1>2, <1>3, <1>10 DEF CreatingInv

LEMMA MoveKeepsInv ==
  ASSUME CommInv, NEW c \in Comms, NEW d \in Comms, Move(c, d)
  PROVE  CommInv'
<1> USE CommAssumption DEF Move, CommInv
<1> DEFINE source(e) == IF e = d THEN c ELSE IF e = c THEN d ELSE e
<1>1. ports' = Freed(d)
  OBVIOUS
<1>2. \A e \in Comms : server'[e] = IF e = c THEN NoAddress ELSE server[source(e)]
  BY DEF CommTypeOK
<1>3. CommTypeOK'
  <2>1. ports' \in [Addresses -> {"free", "ours", "other"}]
    BY <1>1, FreedPorts
  <2>2. \A e \in Comms : address'[e] # NoAddress <=> impl'[e] = "live"
    BY DEF CommTypeOK
  <2> QED
    BY <2>1, <2>2 DEF CommTypeOK
<1>4. OkMeansServing'
  BY DEF OkMeansServing, ok, CommTypeOK
<1>5. \A e, f \in Comms : server'[e] = server'[f] /\ server'[e] # NoAddress => e = f
  BY <1>2 DEF OneOwner
<1>6. ASSUME NEW a \in Addresses
      PROVE  ports'[a] = "ours" <=> \E e \in Comms : server'[e] = a
  <2>1. CASE a = server[d]
    <3>1. ports'[a] = "free"
      BY <1>1, <2>1, FreedPorts
    <3>2. ASSUME NEW e \in Comms, server'[e] = a PROVE FALSE
      BY <1>2, <2>1, <3>2 DEF OneOwner
    <3> QED
      BY <3>1, <3>2
  <2>2. CASE a # server[d]
    <3>1. ports'[a] = ports[a]
      BY <1>1, <2>2, FreedPorts
    <3>2. ASSUME NEW e \in Comms, server[e] = a PROVE \E f \in Comms : server'[f] = a
      <4>1. e # d
        BY <2>2, <3>2
      <4>2. server'[source(e)] = a /\ source(e) \in Comms
        BY <1>2, <3>2, <4>1
      <4> QED
        BY <4>2
    <3>3. ASSUME NEW e \in Comms, server'[e] = a PROVE \E f \in Comms : server[f] = a
      BY <1>2, <3>3
    <3> QED
      BY <3>1, <3>2, <3>3 DEF OneOwner
  <2> QED
    BY <2>1, <2>2
<1> QED
  BY <1>3, <1>4, <1>5, <1>6 DEF CreatingInv, MainIsFree, OneOwner

LEMMA DestroyKeepsInv ==
  ASSUME CommInv, NEW c \in Comms, Destroy(c)
  PROVE  CommInv'
<1> USE CommAssumption DEF Destroy, CommInv
<1>1. CommTypeOK'
  <2>1. ports' \in [Addresses -> {"free", "ours", "other"}]
    BY FreedPorts
  <2>2. \A d \in Comms : address'[d] # NoAddress <=> impl'[d] = "live"
    BY DEF CommTypeOK
  <2> QED
    BY <2>1, <2>2 DEF CommTypeOK
<1>2. OkMeansServing'
  BY DEF OkMeansServing, ok, CommTypeOK
<1>3. OneOwner'
  <2>1. ports' = Freed(c)
    OBVIOUS
  <2>2. \A e \in Comms : server'[e] = IF e = c THEN NoAddress ELSE server[e]
    BY DEF CommTypeOK
  <2> QED
    BY <2>1, <2>2, FreedPorts DEF OneOwner
<1> QED
  BY <1>1, <1>2, <1>3 DEF CreatingInv, MainIsFree

LEMMA OthersKeepInv ==
  ASSUME CommInv, NEW a \in Addresses, Others(a)
  PROVE  CommInv'
<1> USE DEF Others, comm, CommInv
<1>1. CommTypeOK'
  BY DEF CommTypeOK
<1>2. OneOwner'
  BY DEF OneOwner, CommTypeOK
<1> QED
  BY <1>1, <1>2 DEF OkMeansServing, ok, CreatingInv

LEMMA SameCommKeepsInv ==
  ASSUME CommInv, UNCHANGED <<comm, ports>>, creating' \in {creating, Nobody}
  PROVE  CommInv'
<1> QED
  BY DEF comm, CommInv, CommTypeOK, OkMeansServing, ok, OneOwner, CreatingInv

LEMMA StepKeepsCommInv == CommInv /\ [Next]_vars => CommInv'
<1> SUFFICES ASSUME CommInv, [Next]_vars PROVE CommInv'
  OBVIOUS
<1>1. CASE Reconfigure
  BY <1>1, SameCommKeepsInv DEF Reconfigure
<1>2. CASE NotStarted
  BY <1>2, SameCommKeepsInv DEF NotStarted
<1>3. ASSUME NEW t \in Threads, Log(t) PROVE CommInv'
  BY <1>3, SameCommKeepsInv DEF Log
<1>4. CASE UNCHANGED vars
  BY <1>4, SameCommKeepsInv DEF vars
<1> QED
  BY <1>1, <1>2, <1>3, <1>4, ConstructKeepsInv, ResetKeepsInv, StartedKeepsInv,
     MoveKeepsInv, DestroyKeepsInv, OthersKeepInv DEF Next

\* The objects' part, with the object whose server is being started.
THEOREM CommInvariant == Spec => []CommInv
<1> QED
  BY CommInit, StepKeepsCommInv, PTL DEF Spec

\* Every variable keeps its type, for any numbers of objects and addresses.
THEOREM CommTypeCorrect == Spec => []TypeOK
<1>1. LoggerInv /\ CommInv => TypeOK
  BY DEF LoggerInv, CommInv, CommTypeOK, TypeOK
<1> QED
  BY <1>1, LoggerInvariant, CommInvariant, PTL

\* ok() tells whether the object has a server, at its own address.
THEOREM OkIsTrue == Spec => []OkMeansServing
<1>1. CommInv => OkMeansServing
  BY DEF CommInv
<1> QED
  BY <1>1, CommInvariant, PTL

\* Each address the process holds has one server and that one object.
THEOREM ServersAreOwned == Spec => []OneOwner
<1>1. CommInv => OneOwner
  BY DEF CommInv
<1> QED
  BY <1>1, CommInvariant, PTL

=============================================================================
