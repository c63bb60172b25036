---------------------------- MODULE MCParameterSync ----------------------------
(* Two saves of each kind are enough for two answers to change places.      *)
EXTENDS ParameterSync
=============================================================================
