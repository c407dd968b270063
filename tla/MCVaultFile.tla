----------------------------- MODULE MCVaultFile -----------------------------
(***************************************************************************)
(* Small instances of VaultFile for TLC.                                   *)
(***************************************************************************)
EXTENDS VaultFile, TLC

CONSTANTS worker, cli
=============================================================================
