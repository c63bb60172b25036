------------------------------- MODULE MCServers -------------------------------
(* Two posts for the tuner on a queue of one, of which one may go wrong, and *)
(* a faulty one for the data server whose client may stay silent; the pool's *)
(* three threads are shared with an exchange that may hold one of them.      *)
EXTENDS Servers
=============================================================================
