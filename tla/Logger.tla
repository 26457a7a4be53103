------------------------------- MODULE Logger -------------------------------
(***************************************************************************)
(* tools::Logger, the one object that several threads share.  init() and   *)
(* the part of log() that writes hold its mutex from their first to their  *)
(* last statement, so each is one step; log() compares the level before it *)
(* takes the mutex, which makes a call of it two steps.  What a line says  *)
(* is left out: a line is its level and the places it goes to.             *)
(***************************************************************************)
EXTENDS Integers

CONSTANTS Threads,
          Paths,       \* log files
          NoPath,      \* in the place of a path: no file
          Configs,     \* the configurations the program calls init with
          LineLevels   \* levels of lines, from 0 for Debug to 3 for Error

ASSUME LoggerAssumption ==
  /\ NoPath \notin Paths /\ "console" \notin Paths
  /\ Configs \subseteq [level : 0 .. 4, console : BOOLEAN, path : Paths \union {NoPath}]
  /\ LineLevels \subseteq 0 .. 3

VARIABLES level,    \* level_
          console,  \* console_
          file,     \* file_
          stream,   \* ofs_: "closed", "good", or "bad", open with a failed state
          path,     \* the file ofs_ was opened for
          at,       \* of a thread: "outside", or "admitted", past the test of the level
          line,     \* of a thread past the test: the level of its line
          went,     \* where the last line written went
          \* For the properties only:
          wanted,   \* the file the last init asked for
          asked     \* and how many of them asked for one (two stands for more)

settings == <<level, console, file, stream, path, wanted, asked>>
calls == <<at, line, went>>
logger == <<settings, calls>>

LoggerStart ==
  /\ level = 0 /\ console = TRUE /\ file = FALSE
  /\ stream = "closed" /\ path = NoPath
  /\ at = [t \in Threads |-> "outside"]
  /\ line = [t \in Threads |-> 0]
  /\ went = {}
  /\ wanted = NoPath /\ asked = 0

\* What every init does before it comes to the file.
Configure(config) ==
  /\ level' = config.level
  /\ console' = config.console
  /\ wanted' = config.path
  /\ asked' = IF config.path # NoPath /\ asked < 2 THEN asked + 1 ELSE asked
  /\ UNCHANGED <<at, line, went>>

\* Faulty variant: a stream that is open is used as it is.
init_Reusing(config) ==
  /\ Configure(config)
  /\ \/ /\ config.path = NoPath
        /\ file' = FALSE /\ UNCHANGED <<stream, path>>
     \/ /\ config.path # NoPath /\ stream = "closed"
        /\ \/ file' = TRUE /\ stream' = "good" /\ path' = config.path
           \/ file' = FALSE /\ UNCHANGED <<stream, path>>
     \/ /\ config.path # NoPath /\ stream # "closed"
        /\ file' = TRUE /\ UNCHANGED <<stream, path>>

\* init(): opening a closed stream succeeds or not.  Opening one that is open
\* fails, leaves it bad for ever, and still open, which is all init() asks.
init(config) ==
  /\ Configure(config)
  /\ \/ /\ config.path = NoPath
        /\ file' = FALSE /\ UNCHANGED <<stream, path>>
     \/ /\ config.path # NoPath /\ stream = "closed"
        /\ \/ file' = TRUE /\ stream' = "good" /\ path' = config.path
           \/ file' = FALSE /\ UNCHANGED <<stream, path>>
     \/ /\ config.path # NoPath /\ stream # "closed"
        /\ file' = TRUE /\ stream' = "bad" /\ UNCHANGED path

\* log() up to the mutex: a line below the level goes nowhere.
Enter(t, l) ==
  /\ at[t] = "outside"
  /\ IF l < level
     THEN UNCHANGED <<at, line>>
     ELSE /\ at' = [at EXCEPT ![t] = "admitted"]
          /\ line' = [line EXCEPT ![t] = l]
  /\ UNCHANGED <<settings, went>>

\* Faulty variant: the file is for lines that the console does not show.
WriteElse(t) ==
  /\ at[t] = "admitted"
  /\ went' = IF console THEN {"console"}
             ELSE IF file /\ stream = "good" THEN {path} ELSE {}
  /\ at' = [at EXCEPT ![t] = "outside"]
  /\ line' = [line EXCEPT ![t] = 0]
  /\ UNCHANGED settings

\* The rest of log(); what is written to a bad stream goes nowhere.
Write(t) ==
  /\ at[t] = "admitted"
  /\ went' = (IF console THEN {"console"} ELSE {})
               \union (IF file /\ stream = "good" THEN {path} ELSE {})
  /\ at' = [at EXCEPT ![t] = "outside"]
  /\ line' = [line EXCEPT ![t] = 0]
  /\ UNCHANGED settings

-----------------------------------------------------------------------------

LoggerTypeOK ==
  /\ level \in 0 .. 4 /\ console \in BOOLEAN /\ file \in BOOLEAN
  /\ stream \in {"closed", "good", "bad"}
  /\ path \in Paths \union {NoPath} /\ wanted \in Paths \union {NoPath}
  /\ at \in [Threads -> {"outside", "admitted"}]
  /\ line \in [Threads -> 0 .. 3]
  /\ went \subseteq Paths \union {"console"}
  /\ asked \in 0 .. 2

Writes(t) == at[t] = "admitted" /\ at'[t] = "outside"

\* A line never ends up in a file other than the one the last init asked for.
NoOtherFile == [][\A t \in Threads : Writes(t) => went' \subseteq {"console", wanted}]_logger

\* As long as a single init has asked for a file, and got it, and none has turned
\* it off since, every line written goes to that file.
LinesReachTheirFile ==
  [][\A t \in Threads : Writes(t) /\ file /\ asked = 1 => wanted \in went']_logger

\* tools/README.md:30: file_path takes effect when enable_file is true.  So a line
\* that is written while file logging is on is in the file asked for, which a
\* second init does not achieve: a run of its own refutes this.
FilePathTakesEffect ==
  [][\A t \in Threads : Writes(t) /\ file => wanted \in went']_logger
=============================================================================
