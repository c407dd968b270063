----------------------------- MODULE MailSources -----------------------------
(***************************************************************************)
(* The mailbox files, the evidence rows made from them and the resume      *)
(* cursors into them: the vocabulary of the vault's specifications.        *)
(*                                                                         *)
(* A message is its source_record_id.  The state of a file is a version    *)
(* number, which stands for what _source_fingerprint hashes (resolved      *)
(* path, device, inode, size, mtime): equal fingerprints mean equal        *)
(* versions.  There is one connector, so a row is an account and an id.    *)
(***************************************************************************)
EXTENDS Integers, Sequences

CONSTANTS
  Owners,        \* normalized owner addresses (account_key)
  Paths,         \* mailbox files
  RecordIds,     \* source_record_id values
  MaxVersion,    \* bound: how often one file is replaced
  Content,       \* Content[p][v]: the record ids of version v of file p, in order
  NoCursor       \* cursor_for's None

Versions == 0 .. MaxVersion

ASSUME SourcesAssumption ==
  /\ MaxVersion \in Nat /\ Owners # {} /\ Paths # {}
  /\ Content \in [Paths -> [Versions -> Seq(RecordIds)]]

(* "mbox-v1:<fingerprint>:<next index>"; the index counts messages.        *)
Cursor == [path : Paths, version : Versions, index : Nat]

ASSUME CursorAssumption == NoCursor \notin Cursor

(* EvidenceRecord.identity, for the one connector there is.                *)
Rows == Owners \X RecordIds

RowsOf(o, ids) == {<<o, r>> : r \in ids}

(* The record ids among the first n elements of a sequence of them.        *)
FirstIds(s, n) == {s[k] : k \in {j \in DOMAIN s : j <= n}}

(* The first n messages of version v of file p are rows of account o.      *)
Covers(rows, o, p, v, n) == RowsOf(o, FirstIds(Content[p][v], n)) \subseteq rows

(* Fault: the position is used whatever file the cursor was taken from.    *)
CursorIndexOfAnyFile(cursor, p, v) == IF cursor = NoCursor THEN 0 ELSE cursor.index

(* _cursor_index, for the cursors this code writes: the number of messages *)
(* of version v of file p that a resumed import skips.                     *)
CursorIndex(cursor, p, v) ==
  IF cursor # NoCursor /\ cursor.path = p /\ cursor.version = v THEN cursor.index ELSE 0
=============================================================================
