----------------------------- MODULE MCWebClient -----------------------------
(***************************************************************************)
(* A small instance of WebClient: two handlers awaiting at a time, one     *)
(* job at a time, two files, one message.                                  *)
(***************************************************************************)
EXTENDS WebClient

CONSTANTS j1, f1, f2, m1
=============================================================================
