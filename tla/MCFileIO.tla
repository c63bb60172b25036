-------------------------------- MODULE MCFileIO --------------------------------
(* Two files, one of them read-only, three calls on queues of one request.  *)
EXTENDS FileIO
=============================================================================
