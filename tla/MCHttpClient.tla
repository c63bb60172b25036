----------------------------- MODULE MCHttpClient -----------------------------
(* Two threads in the pool; one request hangs, one has a throwing callback.  *)
EXTENDS HttpClient
=============================================================================
