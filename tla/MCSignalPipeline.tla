--------------------------- MODULE MCSignalPipeline ---------------------------
(* The signal pipeline on two signal keys, two prices and few signals.      *)
EXTENDS SignalPipeline
=============================================================================
