-------------------------- MODULE MCResumableImport --------------------------
(***************************************************************************)
(* Small instances of ResumableImport for TLC.                             *)
(***************************************************************************)
EXTENDS ResumableImport, TLC

CONSTANTS a, b, c, inbox, archive, server, cli, me

(* Two files that share message b.  The first version of the inbox holds   *)
(* one message twice, so that a duplicate falls on either side of a batch  *)
(* boundary and of a resume position; its second version drops a message   *)
(* and puts a new one first, so that a stale position would skip it.       *)
InboxAndArchive ==
  (inbox   :> (0 :> <<a, b, a, c>> @@ 1 :> <<c, a>>)) @@
  (archive :> (0 :> <<b>> @@ 1 :> <<b>>))

(* One file that stays as it is.                                           *)
SteadyInbox == inbox :> (0 :> <<a, b, a>>)
=============================================================================
