--------------------------- MODULE MCFoxGloveComm ---------------------------
(***************************************************************************)
(* Two objects for two addresses, the main thread and one that only logs,  *)
(* and two log files.                                                      *)
(***************************************************************************)
EXTENDS FoxGloveComm

CONSTANTS main, worker, c1, c2, a1, a2, f1, f2

MCThreads == {main, worker}
MCComms == {c1, c2}
MCAddresses == {a1, a2}
MCPaths == {f1, f2}
MCConfigs ==
  {[level |-> 3, console |-> TRUE, path |-> f1],
   [level |-> 0, console |-> FALSE, path |-> f2],
   [level |-> 3, console |-> FALSE, path |-> NoPath]}
=============================================================================
