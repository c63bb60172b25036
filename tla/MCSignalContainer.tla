--------------------------- MODULE MCSignalContainer ---------------------------
(* The signal container shared by two threads, on a handful of signals.     *)
EXTENDS SignalContainer, TLC

Symmetry == Permutations(SignalKeys) \cup Permutations(Clients)
=============================================================================
