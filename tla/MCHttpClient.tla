---------------------------- MODULE MCHttpClient ----------------------------
(***************************************************************************)
(* HttpClient for TLC: waits below and above the default one.              *)
(***************************************************************************)
EXTENDS HttpClient

MCWait == {0, 1, 3}
=============================================================================
