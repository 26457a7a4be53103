----------------------------- MODULE MCDetector -----------------------------
(***************************************************************************)
(* Up to four lightbars: armors that share one in every way, and armors    *)
(* that share none.  "three" stands for the names that may not be big.     *)
(***************************************************************************)
EXTENDS Detector

MCNames == {"three", "not_armor"}
=============================================================================
