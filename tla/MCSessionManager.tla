--------------------------- MODULE MCSessionManager ---------------------------
(* Two windows that exclude each other, over a few minutes of chart time:    *)
(* saving the other one ends a session, a replay begins one again.           *)
EXTENDS SessionManager

MCWindows == {{1}, {2}}
=============================================================================
