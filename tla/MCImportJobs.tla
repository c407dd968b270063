---------------------------- MODULE MCImportJobs ----------------------------
(***************************************************************************)
(* Small instances of ImportJobs for TLC: one message in the user's        *)
(* mailbox, two in the demo mailbox so that it can be read half written.   *)
(***************************************************************************)
EXTENDS ImportJobs

DemoMessages == <<"demo 1", "demo 2">>
=============================================================================
