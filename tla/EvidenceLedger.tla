---------------------------- MODULE EvidenceLedger ----------------------------
(***************************************************************************)
(* What the vault promises, whoever imports into it and however: a resume  *)
(* cursor moves together with the rows that justify it, the map cites only *)
(* rows that exist, and an erasure takes everything at once.  No importer, *)
(* batch, lock or crash appears here; ResumableImport implements this.     *)
(***************************************************************************)
EXTENDS MailSources

VARIABLES
  disk,         \* disk[p]: the version of file p the path names now
  evidence,     \* the committed rows
  checkpoints,  \* checkpoints[o]: the committed cursor of account o, or NoCursor
  topography    \* the rows the committed map cites

ledgerVars == <<disk, evidence, checkpoints, topography>>

Init ==
  /\ disk = [p \in Paths |-> 0]
  /\ evidence = {} /\ topography = {}
  /\ checkpoints = [o \in Owners |-> NoCursor]

(* A cursor promises nothing about a file state that is gone; of the       *)
(* current state of its file it promises that what it skips is evidence.   *)
Honest(rows, o, cursor) ==
  /\ cursor.version <= disk[cursor.path]
  /\ cursor.version = disk[cursor.path] =>
       Covers(rows, o, cursor.path, cursor.version, cursor.index)

(* Rows of account o are added and its cursor moves, in one step.          *)
Commit(o) ==
  /\ evidence \subseteq evidence' /\ evidence' \ evidence \subseteq {o} \X RecordIds
  /\ \E cursor \in {checkpoints'[o]} \cap Cursor :
       /\ checkpoints' = [checkpoints EXCEPT ![o] = cursor]
       /\ Honest(evidence', o, cursor)
  /\ UNCHANGED <<disk, topography>>

(* The map is replaced by one that cites existing rows only.               *)
Project ==
  /\ topography' \subseteq evidence
  /\ UNCHANGED <<disk, evidence, checkpoints>>

Erase ==
  /\ evidence' = {} /\ topography' = {}
  /\ checkpoints' = [o \in Owners |-> NoCursor]
  /\ UNCHANGED disk

ReplaceFile(p) ==
  /\ disk[p] < MaxVersion
  /\ disk' = [disk EXCEPT ![p] = @ + 1]
  /\ UNCHANGED <<evidence, checkpoints, topography>>

Next ==
  \/ \E o \in Owners : Commit(o)
  \/ \E p \in Paths : ReplaceFile(p)
  \/ Project \/ Erase

Spec == Init /\ [][Next]_ledgerVars
-----------------------------------------------------------------------------
(* A re-import of any file as it is now skips only messages that are rows  *)
(* of the account already.                                                 *)
ResumeSafe ==
  \A o \in Owners, p \in Paths :
    Covers(evidence, o, p, disk[p], CursorIndex(checkpoints[o], p, disk[p]))

(* No part of the map cites a row that is gone.                            *)
ProvenanceClosed == topography \subseteq evidence
=============================================================================
