--------------------------- MODULE ResumableImport ---------------------------
(***************************************************************************)
(* Resumable import of mailboxes into one SQLite vault.                    *)
(*                                                                         *)
(* Several importers (the worker thread of the web server, a CLI process,  *)
(* the thread of a server that is shutting down) may execute               *)
(* OnboardingService.import_mbox on the same vault at the same time.  Each *)
(* reads a mailbox file that the mail client may replace, commits batches  *)
(* of evidence with a resume cursor, and rebuilds the topography.  The     *)
(* server may erase the vault when the imports IT supervises are over.     *)
(*                                                                         *)
(* The topography is abstracted to the set of rows it was built from.      *)
(***************************************************************************)
EXTENDS MailSources

CONSTANTS
  Importers,     \* threads and processes that may run import_mbox
  Supervised,    \* the jobs of the server's ImportJobManager: one runs at a time
  Awaited,       \* those that are over when the vault is erased: the server checks
                 \* its own jobs; for the others the user has to wait
  Restorable,    \* files of which an earlier version may be moved back in place
  BatchSize,     \* MboxConnector.batch_size
  Nobody         \* the value of the write lock nobody holds

ASSUME ImportersAssumption ==
  Supervised \subseteq Awaited /\ Awaited \subseteq Importers /\ Nobody \notin Importers
ASSUME BatchAssumption == BatchSize \in Nat \ {0} /\ Restorable \subseteq Paths

VARIABLES
  disk,         \* disk[p]: the version of file p the path names now
  evidence,     \* the committed rows of table evidence
  checkpoints,  \* checkpoints[o]: the committed cursor of account o
  topography,   \* the rows the committed map was built from
  lock,         \* who holds SQLite's write lock
  run           \* run[w]: the local variables of importer w's import_mbox

vars == <<disk, evidence, checkpoints, topography, lock, run>>

(* "preview" .. "replace": which statement of import_mbox comes next.      *)
InProgress == {"preview", "cursor", "open", "scan", "ingest", "project", "replace"}
Over == {"idle", "completed", "failed"}

Run == [pc      : InProgress \cup Over,
        owner   : Owners,
        path    : Paths,
        fp      : Versions,         \* version fingerprinted by the constructor
        total   : Nat,              \* preview.message_count
        start   : Nat,              \* cursor_position at the start of bootstrap
        box     : Versions,         \* version of the file that bootstrap opened
        pos     : Nat,              \* messages of the box consumed so far
        records : Seq(RecordIds),   \* the batch being filled or ingested
        written : Nat,              \* records of it put in the open transaction
        items   : SUBSET Rows]      \* evidence_items() read for the projection

NoRun(how) ==
  [pc |-> how, owner |-> CHOOSE o \in Owners : TRUE, path |-> CHOOSE p \in Paths : TRUE,
   fp |-> 0, total |-> 0, start |-> 0, box |-> 0, pos |-> 0, records |-> <<>>,
   written |-> 0, items |-> {}]

Running(w) == run[w].pc \in InProgress

Box(w) == Content[run[w].path][run[w].box]
-----------------------------------------------------------------------------
(* A completed, failed or new importer starts: import_mbox builds the      *)
(* connector, which fingerprints the file the path names now.  The job     *)
(* manager refuses a second job while one is active.                       *)
Start(w, o, p) ==
  /\ ~Running(w)
  /\ w \in Supervised => \A s \in Supervised : ~Running(s)
  /\ run' = [run EXCEPT ![w] = [NoRun("preview") EXCEPT !.owner = o, !.path = p,
                                                        !.fp = disk[p]]]
  /\ UNCHANGED <<disk, evidence, checkpoints, topography, lock>>

(* connector.preview(): opens the file by name and counts its messages.    *)
Preview(w) ==
  /\ run[w].pc = "preview"
  /\ LET p == run[w].path IN
       run' = [run EXCEPT ![w].pc = "cursor", ![w].total = Len(Content[p][disk[p]])]
  /\ UNCHANGED <<disk, evidence, checkpoints, topography, lock>>

(* store.cursor_for and cursor_position: where bootstrap will resume.      *)
ReadCursor(w) ==
  /\ run[w].pc = "cursor"
  /\ run' = [run EXCEPT ![w].pc = "open",
       ![w].start = CursorIndex(checkpoints[run[w].owner], run[w].path, run[w].fp)]
  /\ UNCHANGED <<disk, evidence, checkpoints, topography, lock>>

(* bootstrap opens the file again by name; the handle, and so the          *)
(* messages, no longer depend on later replacements of the file.           *)
OpenBox(w) ==
  /\ run[w].pc = "open"
  /\ run' = [run EXCEPT ![w].pc = "scan", ![w].box = disk[run[w].path]]
  /\ UNCHANGED <<disk, evidence, checkpoints, topography, lock>>

(* The id of the next message was seen in this box, before or after start. *)
IsDuplicate(w) == Box(w)[run[w].pos + 1] \in FirstIds(Box(w), run[w].pos)

(* One turn of bootstrap's loop that consumes the next message: skipped    *)
(* before the resume position, dropped as a duplicate, or added to the     *)
(* batch while that has room.                                              *)
ScanMessage(w) ==
  /\ run[w].pc = "scan" /\ run[w].pos < Len(Box(w))
  /\ \/ /\ run[w].pos < run[w].start \/ IsDuplicate(w)
        /\ run' = [run EXCEPT ![w].pos = @ + 1]
     \/ /\ run[w].pos >= run[w].start /\ ~IsDuplicate(w)
        /\ Len(run[w].records) < BatchSize
        /\ run' = [run EXCEPT ![w].pos = @ + 1,
                              ![w].records = Append(@, Box(w)[run[w].pos + 1])]
  /\ UNCHANGED <<disk, evidence, checkpoints, topography, lock>>

(* Fault: the rest is yielded even when nothing is left.                   *)
YieldEmptyRest(w) ==
  /\ run[w].pc = "scan"
  /\ \/ /\ run[w].pos < Len(Box(w))
        /\ run[w].pos >= run[w].start /\ ~IsDuplicate(w)
        /\ Len(run[w].records) = BatchSize
     \/ run[w].pos = Len(Box(w))
  /\ run' = [run EXCEPT ![w].pc = "ingest"]
  /\ UNCHANGED <<disk, evidence, checkpoints, topography, lock>>

(* bootstrap yields the batch: full when another new message arrives       *)
(* (which stays unconsumed), or whatever is left at the end of the box.    *)
YieldBatch(w) ==
  /\ run[w].pc = "scan"
  /\ \/ /\ run[w].pos < Len(Box(w))
        /\ run[w].pos >= run[w].start /\ ~IsDuplicate(w)
        /\ Len(run[w].records) = BatchSize
     \/ run[w].pos = Len(Box(w)) /\ run[w].records # <<>>
  /\ run' = [run EXCEPT ![w].pc = "ingest"]
  /\ UNCHANGED <<disk, evidence, checkpoints, topography, lock>>

(* Fault: batches are yielded only when full; the rest is dropped.         *)
EndOfBoxDropsRest(w) ==
  /\ run[w].pc = "scan" /\ run[w].pos = Len(Box(w))
  /\ run' = [run EXCEPT ![w].pc = "project", ![w].records = <<>>]
  /\ UNCHANGED <<disk, evidence, checkpoints, topography, lock>>

(* Fault: an import that found nothing new does not rebuild the map.       *)
EndOfBoxSkipsProjection(w) ==
  /\ run[w].pc = "scan" /\ run[w].pos = Len(Box(w)) /\ run[w].records = <<>>
  /\ run' = [run EXCEPT ![w].pc = IF run[w].start = run[w].pos THEN "completed" ELSE "project"]
  /\ UNCHANGED <<disk, evidence, checkpoints, topography, lock>>

(* bootstrap is exhausted and every batch is committed.                    *)
EndOfBox(w) ==
  /\ run[w].pc = "scan" /\ run[w].pos = Len(Box(w)) /\ run[w].records = <<>>
  /\ run' = [run EXCEPT ![w].pc = "project"]
  /\ UNCHANGED <<disk, evidence, checkpoints, topography, lock>>

(* IngestionKernel.ingest puts one record in its transaction; the first    *)
(* INSERT takes SQLite's write lock.                                       *)
PutEvidence(w) ==
  /\ run[w].pc = "ingest" /\ run[w].written < Len(run[w].records)
  /\ lock \in {Nobody, w}
  /\ lock' = w
  /\ run' = [run EXCEPT ![w].written = @ + 1]
  /\ UNCHANGED <<disk, evidence, checkpoints, topography>>

(* Fault: the index counts from the start of the batch.                     *)
CommitAtBatchStart(w) ==
  /\ run[w].pc = "ingest" /\ run[w].written = Len(run[w].records)
  /\ lock = w
  /\ evidence' = evidence \cup RowsOf(run[w].owner,
                                      FirstIds(run[w].records, run[w].written))
  /\ checkpoints' = [checkpoints EXCEPT ![run[w].owner] =
       [path |-> run[w].path, version |-> run[w].fp, index |-> run[w].pos - BatchSize]]
  /\ lock' = Nobody
  /\ run' = [run EXCEPT ![w].pc = "scan", ![w].records = <<>>, ![w].written = 0]
  /\ UNCHANGED <<disk, topography>>

(* Fault: the index counts from the resume position.                        *)
CommitRelativeIndex(w) ==
  /\ run[w].pc = "ingest" /\ run[w].written = Len(run[w].records)
  /\ lock = w
  /\ evidence' = evidence \cup RowsOf(run[w].owner,
                                      FirstIds(run[w].records, run[w].written))
  /\ checkpoints' = [checkpoints EXCEPT ![run[w].owner] =
       [path |-> run[w].path, version |-> run[w].fp, index |-> run[w].pos - run[w].start]]
  /\ lock' = Nobody
  /\ run' = [run EXCEPT ![w].pc = "scan", ![w].records = <<>>, ![w].written = 0]
  /\ UNCHANGED <<disk, topography>>

(* Fault: the last row misses the transaction that moves the cursor.        *)
CommitMissesRow(w) ==
  /\ run[w].pc = "ingest" /\ run[w].written = Len(run[w].records)
  /\ lock = w
  /\ evidence' = evidence \cup RowsOf(run[w].owner,
                                      FirstIds(run[w].records, run[w].written - 1))
  /\ checkpoints' = [checkpoints EXCEPT ![run[w].owner] =
       [path |-> run[w].path, version |-> run[w].fp, index |-> run[w].pos]]
  /\ lock' = Nobody
  /\ run' = [run EXCEPT ![w].pc = "scan", ![w].records = <<>>, ![w].written = 0]
  /\ UNCHANGED <<disk, topography>>

(* set_cursor and the commit on leaving the transaction: rows and cursor   *)
(* become visible together.  ON CONFLICT DO NOTHING keeps existing rows.   *)
CommitBatch(w) ==
  /\ run[w].pc = "ingest" /\ run[w].written = Len(run[w].records)
  /\ lock = w
  /\ evidence' = evidence \cup RowsOf(run[w].owner,
                                      FirstIds(run[w].records, run[w].written))
  /\ checkpoints' = [checkpoints EXCEPT ![run[w].owner] =
       [path |-> run[w].path, version |-> run[w].fp, index |-> run[w].pos]]
  /\ lock' = Nobody
  /\ run' = [run EXCEPT ![w].pc = "scan", ![w].records = <<>>, ![w].written = 0]
  /\ UNCHANGED <<disk, topography>>

(* store.evidence_items(): one SELECT of the committed rows.  Readers are  *)
(* never blocked in WAL mode.                                              *)
ReadEvidence(w) ==
  /\ run[w].pc = "project"
  /\ run' = [run EXCEPT ![w].pc = "replace", ![w].items = evidence]
  /\ UNCHANGED <<disk, evidence, checkpoints, topography, lock>>

(* Fault: PRAGMA foreign_keys=ON is missing.                                *)
ReplaceUnchecked(w) ==
  /\ run[w].pc = "replace" /\ lock = Nobody
  /\ topography' = run[w].items
  /\ run' = [run EXCEPT ![w].pc = "completed", ![w].items = {}]
  /\ UNCHANGED <<disk, evidence, checkpoints, lock>>

(* store.replace_topography in one transaction, and the import returns.    *)
(* The foreign keys to evidence must hold.                                 *)
ReplaceTopography(w) ==
  /\ run[w].pc = "replace" /\ lock = Nobody
  /\ run[w].items \subseteq evidence
  /\ topography' = run[w].items
  /\ run' = [run EXCEPT ![w].pc = "completed", ![w].items = {}]
  /\ UNCHANGED <<disk, evidence, checkpoints, lock>>

(* A row the new map cites is gone: IntegrityError, everything rolled back.*)
RejectTopography(w) ==
  /\ run[w].pc = "replace" /\ lock = Nobody
  /\ ~(run[w].items \subseteq evidence)
  /\ run' = [run EXCEPT ![w] = NoRun("failed")]
  /\ UNCHANGED <<disk, evidence, checkpoints, topography, lock>>

(* Fault: busy_timeout is as good as unlimited.                            *)
BusyWaits(w) ==
  /\ run[w].pc \in {"ingest", "replace"} /\ lock \notin {Nobody, w}
  /\ UNCHANGED vars

(* Another importer kept the write lock for longer than busy_timeout.      *)
BusyTimeout(w) ==
  /\ run[w].pc \in {"ingest", "replace"} /\ lock \notin {Nobody, w}
  /\ run' = [run EXCEPT ![w] = NoRun("failed")]
  /\ UNCHANGED <<disk, evidence, checkpoints, topography, lock>>

(* An exception in any statement, or the death of the thread or process:   *)
(* __aexit__, or SQLite's recovery, rolls the open transaction back.       *)
Interrupt(w) ==
  /\ Running(w)
  /\ lock' = IF lock = w THEN Nobody ELSE lock
  /\ run' = [run EXCEPT ![w] = NoRun("failed")]
  /\ UNCHANGED <<disk, evidence, checkpoints, topography>>

(* DELETE /api/vault: refused while a supervised import is active, erases  *)
(* every table in one transaction and forgets how earlier imports ended.   *)
Reset ==
  /\ \A w \in Awaited : ~Running(w)
  /\ lock = Nobody
  /\ evidence' = {} /\ topography' = {}
  /\ checkpoints' = [o \in Owners |-> NoCursor]
  /\ run' = [w \in Importers |-> IF Running(w) THEN run[w] ELSE NoRun("idle")]
  /\ UNCHANGED <<disk, lock>>

(* The mail client writes a new state of a mailbox file.                   *)
ReplaceSource(p) ==
  /\ disk[p] < MaxVersion
  /\ disk' = [disk EXCEPT ![p] = @ + 1]
  /\ UNCHANGED <<evidence, checkpoints, topography, lock, run>>

(* An earlier file is moved back under its name: inode, size and mtime,    *)
(* and so the fingerprint, are those it had before.                        *)
RestoreSource(p, v) ==
  /\ p \in Restorable /\ v < disk[p]
  /\ disk' = [disk EXCEPT ![p] = v]
  /\ UNCHANGED <<evidence, checkpoints, topography, lock, run>>
-----------------------------------------------------------------------------
Init ==
  /\ disk = [p \in Paths |-> 0]
  /\ evidence = {} /\ topography = {}
  /\ checkpoints = [o \in Owners |-> NoCursor]
  /\ lock = Nobody
  /\ run = [w \in Importers |-> NoRun("idle")]

(* The statements of a started import, one after the other.                *)
Step(w) ==
  \/ Preview(w) \/ ReadCursor(w) \/ OpenBox(w)
  \/ ScanMessage(w) \/ YieldBatch(w) \/ EndOfBox(w)
  \/ PutEvidence(w) \/ CommitBatch(w) \/ BusyTimeout(w)
  \/ ReadEvidence(w) \/ ReplaceTopography(w) \/ RejectTopography(w)

Next ==
  \/ \E w \in Importers : Step(w) \/ Interrupt(w)
  \/ \E w \in Importers, o \in Owners, p \in Paths : Start(w, o, p)
  \/ \E p \in Paths : ReplaceSource(p)
  \/ \E p \in Paths, v \in Versions : RestoreSource(p, v)
  \/ Reset

Spec == Init /\ [][Next]_vars

(* The operating system schedules every importer, and SQLite's busy        *)
(* handler gives up after five seconds.                                    *)
FairSpec == Spec /\ \A w \in Importers : WF_vars(Step(w))
-----------------------------------------------------------------------------
TypeOK ==
  /\ disk \in [Paths -> Versions]
  /\ evidence \subseteq Rows
  /\ checkpoints \in [Owners -> Cursor \cup {NoCursor}]
  /\ topography \subseteq Rows
  /\ lock \in Importers \cup {Nobody}
  /\ run \in [Importers -> Run]

(* A re-import of the file as it is now would skip only messages that are  *)
(* evidence already (bootstrap's resume from the stored cursor).           *)
ResumeSafe ==
  \A o \in Owners, p \in Paths :
    Covers(evidence, o, p, disk[p], CursorIndex(checkpoints[o], p, disk[p]))

(* An import that completed on the file it fingerprinted has made every    *)
(* message of it evidence, whatever was resumed, retried, dropped as a     *)
(* duplicate or interrupted before, and reports their number.              *)
CompletedImportIsWhole ==
  \A w \in Importers :
    run[w].pc = "completed" /\ run[w].box = run[w].fp =>
      /\ Covers(evidence, run[w].owner, run[w].path, run[w].box, Len(Box(w)))
      /\ run[w].total = Len(Box(w))

(* The batches bootstrap yields are those IngestBatch accepts: not empty   *)
(* and without duplicate ids; otherwise the import could never succeed.    *)
(* They also respect batch_size.                                           *)
BatchIsValid ==
  \A w \in Importers :
    run[w].pc = "ingest" =>
      LET batch == run[w].records IN
        /\ Len(batch) \in 1 .. BatchSize
        /\ \A i, j \in 1 .. Len(batch) : batch[i] = batch[j] => i = j

(* No part of the map cites an evidence row that is gone.                  *)
ProvenanceClosed == topography \subseteq evidence

(* With no import running or broken off, the map shows all the evidence.   *)
QuiescentMapCurrent ==
  (\A w \in Importers : run[w].pc \in {"idle", "completed"}) => topography = evidence

(* The committed resume position in a file state never moves back; only an *)
(* erasure or another file takes it away.                                  *)
CheckpointNeverRewinds ==
  [][\A o \in Owners :
       LET old == checkpoints[o]
           new == checkpoints'[o]
       IN  old # NoCursor /\ new # NoCursor /\ old.path = new.path
             /\ old.version = new.version => old.index <= new.index]_vars

(* The importers together keep the vault's promises: each of their steps   *)
(* is one step of the ledger or changes nothing it shows.                  *)
Ledger == INSTANCE EvidenceLedger
KeepsLedger == Ledger!Spec

(* The write lock belongs to an import that is inside its transaction and  *)
(* has written in it: one that is refused for a busy vault was refused     *)
(* because another import is at work, not for a transaction left open.     *)
LockIsInUse ==
  \A w \in Importers : lock = w => run[w].pc = "ingest" /\ run[w].written > 0

(* However often other importers take the lock, start over or are broken   *)
(* off, and whenever the vault is erased, every import ends: completed,    *)
(* failed, or forgotten by an erasure; and whichever way it ends, it ends  *)
(* without SQLite's write lock.                                            *)
EveryRunEnds == \A w \in Importers : Running(w) ~> (~Running(w) /\ lock # w)
-----------------------------------------------------------------------------
(* Why a resume is safe: the inductive invariant.  It talks of one         *)
(* importer's frame r, the rows and the file versions, so that what other  *)
(* importers do matters only through them.                                 *)

Opened == {"scan", "ingest", "project", "replace", "completed"}

(* Files only get newer, so a frame is at most as new as the disk.         *)
VersionsOrdered(files, r) ==
  /\ r.pc \in InProgress \cup {"completed"} => r.fp <= files[r.path]
  /\ r.pc \in Opened => r.fp <= r.box /\ r.box <= files[r.path]

(* Until the box is opened, nothing has been read of it.                   *)
NothingRead(r) ==
  r.pc \in {"preview", "cursor", "open"} =>
    r.pos = 0 /\ r.records = <<>> /\ r.written = 0

(* If the file is still the one fingerprinted, the messages before start   *)
(* are rows, and so they are if that file was opened.                      *)
StartSound(rows, files, r) ==
  /\ r.pc = "open" /\ r.fp = files[r.path] => Covers(rows, r.owner, r.path, r.fp, r.start)
  /\ r.pc \in {"scan", "ingest"} /\ r.box = r.fp =>
       Covers(rows, r.owner, r.path, r.fp, r.start)

(* Every message read is a row or waits in the batch; at the end of the    *)
(* file every message is a row.                                            *)
ScanSound(rows, r) ==
  LET box == Content[r.path][r.box] IN
  /\ r.pc \in {"scan", "ingest"} /\ r.box = r.fp =>
       \A k \in 1 .. Len(box) :
         k <= r.pos => \/ <<r.owner, box[k]>> \in rows
                       \/ \E j \in 1 .. Len(r.records) : r.records[j] = box[k]
  /\ r.pc \in {"project", "replace", "completed"} /\ r.box = r.fp =>
       Covers(rows, r.owner, r.path, r.box, Len(box))

(* The batch holds different messages, all of them read already.           *)
BatchSound(r) ==
  LET box == Content[r.path][r.box] IN
  r.pc \in {"scan", "ingest"} =>
    /\ r.pos <= Len(box) /\ r.written <= Len(r.records)
    /\ Len(r.records) <= BatchSize
    /\ r.pc = "ingest" => Len(r.records) >= 1
    /\ \A i, j \in 1 .. Len(r.records) : r.records[i] = r.records[j] => i = j
    /\ \A j \in 1 .. Len(r.records) : \E k \in 1 .. r.pos : box[k] = r.records[j]

(* The preview counted the file that was opened, if it never changed.      *)
CountSound(files, r) ==
  /\ r.pc \in {"cursor", "open"} /\ r.fp = files[r.path] =>
       r.total = Len(Content[r.path][r.fp])
  /\ r.pc \in Opened /\ r.box = r.fp => r.total = Len(Content[r.path][r.box])

RunSound(rows, files, r) ==
  /\ VersionsOrdered(files, r) /\ NothingRead(r) /\ StartSound(rows, files, r)
  /\ ScanSound(rows, r) /\ BatchSound(r) /\ CountSound(files, r)

(* A stored cursor is not newer than its file and, if it names the file's  *)
(* current state, covers the messages it makes a resume skip.              *)
CursorSound(rows, files, o, cursor) ==
  cursor # NoCursor =>
    /\ cursor.version <= files[cursor.path]
    /\ cursor.version = files[cursor.path] =>
         Covers(rows, o, cursor.path, cursor.version, cursor.index)

ResumeInvariant ==
  /\ \A o \in Owners : CursorSound(evidence, disk, o, checkpoints[o])
  /\ \A w \in Importers : RunSound(evidence, disk, run[w])
=============================================================================
