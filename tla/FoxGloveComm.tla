---------------------------- MODULE FoxGloveComm ----------------------------
(***************************************************************************)
(* tools::FoxGloveComm: objects that each own a server of the Foxglove SDK *)
(* and are created, reset to another address, moved and destroyed by the   *)
(* main thread.  A new object configures the logger as well, whose lines   *)
(* other threads go on writing.  Of the SDK the model has what the class   *)
(* uses: a server that starts takes its address, the one that is destroyed *)
(* gives it back; other processes take and leave addresses at any time.    *)
(***************************************************************************)
EXTENDS Logger

CONSTANTS Comms, Addresses, NoAddress, Nobody, Main

ASSUME CommAssumption ==
  /\ NoAddress \notin Addresses
  /\ Nobody \notin Comms
  /\ Main \in Threads

VARIABLES impl,      \* "none" before and after the object's life, "moved", or "live"
          address,   \* host and port of a live object
          ready,     \* ready
          server,    \* where the object's server listens, if it has one
          creating,  \* the object in create_server, past server.reset()
          ports      \* "free", "ours" or "other", for each address

comm == <<impl, address, ready, server>>
vars == <<logger, comm, creating, ports>>

Init ==
  /\ LoggerStart
  /\ impl = [c \in Comms |-> "none"]
  /\ address = [c \in Comms |-> NoAddress]
  /\ ready = [c \in Comms |-> FALSE]
  /\ server = [c \in Comms |-> NoAddress]
  /\ creating = Nobody
  /\ ports = [a \in Addresses |-> "free"]

\* The configuration every object comes with.
CommConfig == [level |-> 0, console |-> TRUE, path |-> NoPath]

MainIsFree == creating = Nobody /\ at[Main] = "outside"

\* The server of c is destroyed, if there is one.
Freed(c) == [a \in Addresses |-> IF a = server[c] THEN "free" ELSE ports[a]]

\* The program configures the logger itself.
Reconfigure ==
  /\ MainIsFree
  /\ \E config \in Configs : init(config)
  /\ UNCHANGED <<comm, creating, ports>>

\* FoxGloveComm(host, port), up to the start of the server
Construct(c, a) ==
  /\ MainIsFree /\ impl[c] = "none"
  /\ init(CommConfig)
  /\ impl' = [impl EXCEPT ![c] = "live"]
  /\ address' = [address EXCEPT ![c] = a]
  /\ ready' = [ready EXCEPT ![c] = FALSE]
  /\ server' = [server EXCEPT ![c] = NoAddress]
  /\ creating' = c
  /\ UNCHANGED ports

\* Faulty variant: ready is set to false when the start fails, not before.
ResetStillReady(c, a) ==
  /\ MainIsFree /\ impl[c] = "live"
  /\ address' = [address EXCEPT ![c] = a]
  /\ server' = [server EXCEPT ![c] = NoAddress]
  /\ ports' = Freed(c)
  /\ creating' = c
  /\ UNCHANGED <<logger, impl, ready>>

\* reset(host, port), up to the start of the server; on an object moved from it
\* does nothing.
Reset(c, a) ==
  /\ MainIsFree /\ impl[c] = "live"
  /\ address' = [address EXCEPT ![c] = a]
  /\ ready' = [ready EXCEPT ![c] = FALSE]
  /\ server' = [server EXCEPT ![c] = NoAddress]
  /\ ports' = Freed(c)
  /\ creating' = c
  /\ UNCHANGED <<logger, impl>>

\* The rest of create_server: the server starts,
Started ==
  /\ creating # Nobody
  /\ ports[address[creating]] = "free"
  /\ server' = [server EXCEPT ![creating] = address[creating]]
  /\ ready' = [ready EXCEPT ![creating] = TRUE]
  /\ ports' = [ports EXCEPT ![address[creating]] = "ours"]
  /\ creating' = Nobody
  /\ Enter(Main, 1)
  /\ UNCHANGED <<impl, address>>

\* or does not, whether or not its address is free.
NotStarted ==
  /\ creating # Nobody
  /\ creating' = Nobody
  /\ Enter(Main, 3)
  /\ UNCHANGED <<comm, ports>>

\* Faulty variant: what the target of a move assignment owned is not destroyed.
MoveLeaking(c, d) ==
  /\ MainIsFree /\ c # d /\ impl[c] # "none"
  /\ impl' = [impl EXCEPT ![d] = impl[c], ![c] = "moved"]
  /\ address' = [address EXCEPT ![d] = address[c], ![c] = NoAddress]
  /\ ready' = [ready EXCEPT ![d] = ready[c], ![c] = FALSE]
  /\ server' = [server EXCEPT ![d] = server[c], ![c] = NoAddress]
  /\ UNCHANGED <<logger, creating, ports>>

\* Move construction of d, or move assignment to it: what d owned is destroyed.
Move(c, d) ==
  /\ MainIsFree /\ c # d /\ impl[c] # "none"
  /\ impl' = [impl EXCEPT ![d] = impl[c], ![c] = "moved"]
  /\ address' = [address EXCEPT ![d] = address[c], ![c] = NoAddress]
  /\ ready' = [ready EXCEPT ![d] = ready[c], ![c] = FALSE]
  /\ server' = [server EXCEPT ![d] = server[c], ![c] = NoAddress]
  /\ ports' = Freed(d)
  /\ UNCHANGED <<logger, creating>>

Destroy(c) ==
  /\ MainIsFree /\ impl[c] # "none"
  /\ impl' = [impl EXCEPT ![c] = "none"]
  /\ address' = [address EXCEPT ![c] = NoAddress]
  /\ ready' = [ready EXCEPT ![c] = FALSE]
  /\ server' = [server EXCEPT ![c] = NoAddress]
  /\ ports' = Freed(c)
  /\ UNCHANGED <<logger, creating>>

\* Other processes, also between the two halves of a reset.
Others(a) ==
  /\ \/ ports[a] = "free" /\ ports' = [ports EXCEPT ![a] = "other"]
     \/ ports[a] = "other" /\ ports' = [ports EXCEPT ![a] = "free"]
  /\ UNCHANGED <<logger, comm, creating>>

\* log() in any thread; the main thread runs create_server to its end first.
Log(t) ==
  /\ t = Main => creating = Nobody
  /\ Write(t) \/ \E l \in LineLevels : Enter(t, l)
  /\ UNCHANGED <<comm, creating, ports>>

Next ==
  \/ Reconfigure
  \/ \E c \in Comms, a \in Addresses : Construct(c, a) \/ Reset(c, a)
  \/ Started \/ NotStarted
  \/ \E c, d \in Comms : Move(c, d)
  \/ \E c \in Comms : Destroy(c)
  \/ \E a \in Addresses : Others(a)
  \/ \E t \in Threads : Log(t)

Spec == Init /\ [][Next]_vars

-----------------------------------------------------------------------------

TypeOK ==
  /\ LoggerTypeOK
  /\ impl \in [Comms -> {"none", "moved", "live"}]
  /\ address \in [Comms -> Addresses \union {NoAddress}]
  /\ \A c \in Comms : address[c] # NoAddress <=> impl[c] = "live"
  /\ ready \in [Comms -> BOOLEAN]
  /\ server \in [Comms -> Addresses \union {NoAddress}]
  /\ creating \in Comms \union {Nobody}
  /\ ports \in [Addresses -> {"free", "ours", "other"}]

ok(c) == impl[c] = "live" /\ ready[c]

\* ok() says of an object, also of one moved from or after a reset that failed,
\* whether it has a server, and a server listens where host() and port() say.
OkMeansServing ==
  \A c \in Comms :
    /\ ok(c) <=> server[c] # NoAddress
    /\ ok(c) => server[c] = address[c]

\* An address the process holds belongs to the server of one object: none is
\* left behind by a move, a failed reset or a destructor, and none is shared.
OneOwner ==
  /\ \A a \in Addresses : ports[a] = "ours" <=> \E c \in Comms : server[c] = a
  /\ \A c, d \in Comms : server[c] = server[d] /\ server[c] # NoAddress => c = d
=============================================================================
