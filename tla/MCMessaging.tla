------------------------------ MODULE MCMessaging ------------------------------
(* Two producers and a queue smaller than what they push.                   *)
EXTENDS Messaging
=============================================================================
