------------------------------ MODULE VaultFile ------------------------------
(***************************************************************************)
(* The vault as a SQLite file in WAL mode, and the two handlers of the     *)
(* server that need more than one of its states: load_topography, four     *)
(* SELECTs in a row, and reset, which erases, checkpoints and VACUUMs.     *)
(*                                                                         *)
(* Handlers run to their end on one event loop, so they never overlap each *)
(* other; importers (the server's worker thread, CLI processes) commit     *)
(* between any two of their statements.                                    *)
(***************************************************************************)
EXTENDS Integers, Sequences

CONSTANTS
  Messages,    \* messages that may become evidence
  Importers,   \* threads and processes that may run import_mbox
  Supervised,  \* the jobs of the server itself; the others are other processes
  MaxWal,      \* bound: commits in the log before importers stop committing
  Nobody       \* the value of the write lock nobody holds

ASSUME ImportersAssumption == Supervised \subseteq Importers /\ Nobody \notin Importers
ASSUME WalAssumption == MaxWal \in Nat

VARIABLES
  main,      \* what the database file holds
  wal,       \* what each commit made of it since the WAL file was truncated
  lock,      \* who holds the write lock
  importer,  \* importer[w]: what import_mbox of w does to the vault, and its snapshot
  server     \* the handler in progress on the event loop

vars == <<main, wal, lock, importer, server>>

(* A committed state: the evidence, and the rows the map was built from.   *)
Content == [rows : SUBSET Messages, map : SUBSET Messages]

Nothing == [rows |-> {}, map |-> {}]

(* What a transaction sees that began when the log had s commits; together *)
(* these states are what the two files hold.                               *)
View(s) == IF s = 0 THEN main ELSE wal[s]
Latest == View(Len(wal))

Unpinned == -1
InTransaction(w) == importer[w].at \in {"put", "read", "replace"}

(* A checkpoint copies the log into the database file up to the oldest     *)
(* snapshot in use, or up to the latest.                                   *)
Snapshots ==
  {Len(wal)} \cup {importer[w].snap : w \in {x \in Importers : InTransaction(x)}}
             \cup ({server.pin} \ {Unpinned})
CopyBack == \E s \in Snapshots : (\A t \in Snapshots : s <= t) /\ main' = View(s)

CommitAs(content) == wal' = Append(wal, content)

(* No handler is in progress.  Each starts with locals of its own.         *)
NoHandler == [at |-> "idle", got |-> <<>>, pin |-> Unpinned, counted |-> {}, blockers |-> {}]

Free == server.at \in {"idle", "loaded", "erased"}
Reach(at) == server' = [server EXCEPT !.at = at]
-----------------------------------------------------------------------------
Outside == [at |-> "idle", snap |-> 0, items |-> {}]

Move(w, at) == importer' = [importer EXCEPT ![w].at = at, ![w].snap = 0]

(* Fault: a snapshot that misses the last commit.                          *)
BeginBefore(w, at) == importer' = [importer EXCEPT ![w].at = at, ![w].snap = Len(wal) - 1]

Begin(w, at) == importer' = [importer EXCEPT ![w].at = at, ![w].snap = Len(wal)]
Leave(w) == importer' = [importer EXCEPT ![w] = Outside]

(* import_mbox.  The server's own job starts on the event loop.            *)
Start(w) ==
  /\ importer[w].at = "idle"
  /\ w \in Supervised => Free /\ \A s \in Supervised : importer[s].at = "idle"
  /\ Move(w, "batch")
  /\ UNCHANGED <<main, wal, lock, server>>

(* A write transaction: of a batch, or of replace_topography.              *)
BeginWrite(w) ==
  /\ importer[w].at \in {"batch", "build"} /\ lock = Nobody
  /\ lock' = w
  /\ Begin(w, IF importer[w].at = "batch" THEN "put" ELSE "replace")
  /\ UNCHANGED <<main, wal, server>>

CommitBatch(w, m) ==
  /\ importer[w].at = "put" /\ Len(wal) < MaxWal
  /\ CommitAs([Latest EXCEPT !.rows = @ \cup {m}])
  /\ lock' = Nobody /\ Move(w, "batch")
  /\ UNCHANGED <<main, server>>

(* evidence_items: one SELECT, so one snapshot however long it is read.    *)
BeginRead(w) ==
  /\ importer[w].at = "batch"
  /\ Begin(w, "read")
  /\ UNCHANGED <<main, wal, lock, server>>

EndRead(w) ==
  /\ importer[w].at = "read"
  /\ importer' = [importer EXCEPT
       ![w] = [at |-> "build", snap |-> 0, items |-> View(importer[w].snap).rows]]
  /\ UNCHANGED <<main, wal, lock, server>>

(* Fault: a connection for which foreign keys were not switched on.        *)
CommitMapUnchecked(w) ==
  /\ importer[w].at = "replace" /\ Len(wal) < MaxWal
  /\ CommitAs([Latest EXCEPT !.map = importer[w].items])
  /\ lock' = Nobody /\ Leave(w)
  /\ UNCHANGED <<main, server>>

(* The foreign keys refuse a map that cites rows that are gone.            *)
CommitMap(w) ==
  /\ importer[w].at = "replace" /\ Len(wal) < MaxWal
  /\ importer[w].items \subseteq Latest.rows
  /\ CommitAs([Latest EXCEPT !.map = importer[w].items])
  /\ lock' = Nobody /\ Leave(w)
  /\ UNCHANGED <<main, server>>

(* Any exception, or the end of the thread or process, rolls back.         *)
Stop(w) ==
  /\ importer[w].at # "idle"
  /\ lock' = IF lock = w THEN Nobody ELSE lock
  /\ Leave(w)
  /\ UNCHANGED <<main, wal, server>>
-----------------------------------------------------------------------------
(* GET /api/topography.                                                    *)
Load ==
  /\ Free
  /\ server' = [NoHandler EXCEPT !.at = "load"]
  /\ UNCHANGED <<main, wal, lock, importer>>

(* Fault: every result is fetched at once, so no statement stays open.     *)
SelectAll ==
  /\ server.at = "load" /\ Len(server.got) < 4
  /\ server' = [server EXCEPT !.got = Append(@, Latest.map)]
  /\ UNCHANGED <<main, wal, lock, importer>>

(* The next of the SELECTs on nodes, edges, node links and edge links.     *)
(* The first two are iterated only at the end: a statement with a row left *)
(* to fetch keeps its read transaction open, and the SELECTs after it on   *)
(* the connection read in that; without one, each reads the latest commit. *)
Select ==
  /\ server.at = "load" /\ Len(server.got) < 4
  /\ LET s == IF server.pin = Unpinned THEN Len(wal) ELSE server.pin
         left == Len(server.got) < 2 /\ View(s).map # {}
     IN  server' = [server EXCEPT !.got = Append(@, View(s).map),
                                  !.pin = IF left THEN s ELSE @]
  /\ UNCHANGED <<main, wal, lock, importer>>

(* The connection is closed; evidence_count asks on another one.           *)
Count ==
  /\ server.at = "load" /\ Len(server.got) = 4
  /\ server' = [server EXCEPT !.at = "loaded", !.pin = Unpinned, !.counted = Latest.rows]
  /\ UNCHANGED <<main, wal, lock, importer>>
-----------------------------------------------------------------------------
(* Fault: the handler does not ask for active jobs.                        *)
ResetUnguarded ==
  /\ Free /\ Len(wal) <= MaxWal
  /\ server' = [NoHandler EXCEPT !.at = "erase"]
  /\ UNCHANGED <<main, wal, lock, importer>>

(* DELETE /api/vault, with no job of the server active.                    *)
Reset ==
  /\ Free /\ Len(wal) <= MaxWal
  /\ \A w \in Supervised : importer[w].at = "idle"
  /\ server' = [NoHandler EXCEPT !.at = "erase"]
  /\ UNCHANGED <<main, wal, lock, importer>>

(* One transaction deletes every row.                                      *)
Erase ==
  /\ server.at = "erase" /\ lock = Nobody
  /\ CommitAs(Nothing)
  /\ Reach("checkpoint")
  /\ UNCHANGED <<main, lock, importer>>

(* After the last of its three statements the handler answers 204.         *)
AfterCheckpoint == IF server.at = "checkpoint" THEN "vacuum" ELSE "erased"
Blockers == {w \in Importers : InTransaction(w)}

(* PRAGMA wal_checkpoint(TRUNCATE) copies the log into the database file   *)
(* and truncates it.  If five seconds do not free it of other transactions *)
(* it copies what it can and says "busy" in a row that nobody reads.       *)
Checkpoint ==
  /\ server.at \in {"checkpoint", "last checkpoint"}
  /\ CopyBack
  /\ wal' = IF Blockers = {} THEN <<>> ELSE wal
  /\ server' = [server EXCEPT !.at = AfterCheckpoint, !.blockers = Blockers]
  /\ UNCHANGED <<lock, importer>>

(* VACUUM commits the whole database anew.                                 *)
Vacuum ==
  /\ server.at = "vacuum" /\ lock = Nobody
  /\ CommitAs(Latest)
  /\ Reach("last checkpoint")
  /\ UNCHANGED <<main, lock, importer>>

(* "database is locked": the erasing transaction or VACUUM gives up.       *)
ResetFails ==
  /\ server.at \in {"erase", "vacuum"} /\ lock # Nobody
  /\ server' = NoHandler
  /\ UNCHANGED <<main, wal, lock, importer>>

(* SQLite checkpoints on its own after a large commit, without truncating. *)
AutoCheckpoint ==
  /\ CopyBack
  /\ UNCHANGED <<wal, lock, importer, server>>
-----------------------------------------------------------------------------
(* A vault as an earlier session left it: its last connection to close has *)
(* copied the log into the database file and deleted it.                   *)
Init ==
  /\ main \in Content /\ main.map \subseteq main.rows
  /\ wal = <<>> /\ lock = Nobody
  /\ importer = [w \in Importers |-> Outside]
  /\ server = NoHandler

Import(w) ==
  \/ Start(w) \/ BeginWrite(w) \/ BeginRead(w) \/ EndRead(w) \/ CommitMap(w) \/ Stop(w)
  \/ \E m \in Messages : CommitBatch(w, m)

Handle ==
  \/ Load \/ Select \/ Count
  \/ Reset \/ Erase \/ Checkpoint \/ Vacuum \/ ResetFails

Next == (\E w \in Importers : Import(w)) \/ Handle \/ AutoCheckpoint

Spec == Init /\ [][Next]_vars
-----------------------------------------------------------------------------
TypeOK ==
  /\ main \in Content /\ wal \in Seq(Content)
  /\ lock \in Importers \cup {Nobody}
  /\ importer \in [Importers -> [at    : {"idle", "batch", "put", "read", "build", "replace"},
                                 snap  : Nat,
                                 items : SUBSET Messages]]
  /\ server \in [at       : {"idle", "load", "loaded", "erase", "checkpoint", "vacuum",
                             "last checkpoint", "erased"},
                 got      : Seq(SUBSET Messages),
                 pin      : Nat \cup {Unpinned},
                 counted  : SUBSET Messages,
                 blockers : SUBSET Importers]

(* A map that is answered with nodes is one map: nodes, edges and citations*)
(* of the same commit, although importers commit between the SELECTs.      *)
LoadIsOneMap ==
  server.at = "loaded" /\ server.got[1] # {} => \A k \in 2 .. 4 : server.got[k] = server.got[1]

(* The number of evidence records in the same answer, counted in a later   *)
(* transaction, is not lower than what nodes, edges and links cite.        *)
SummaryCoversMap ==
  server.at = "loaded" => \A k \in 1 .. 4 : server.got[k] \subseteq server.counted

(* An erasure that was answered has left no erased row in the database     *)
(* file or the WAL, unless another process was in a transaction while the  *)
(* last checkpoint ran; the server's own worker thread never is.           *)
ErasureReachesDisk ==
  server.at = "erased" =>
    \/ \A s \in 0 .. Len(wal) : View(s).rows \subseteq Latest.rows
    \/ server.blockers \ Supervised # {}
-----------------------------------------------------------------------------
(* Why this holds: the inductive invariant.                                *)

(* No commit has a map that cites a row it does not have.                  *)
CommitsClosed == \A s \in 0 .. Len(wal) : View(s).map \subseteq View(s).rows

(* A snapshot in use is in the log, or is the database file.               *)
SnapshotsInLog == Snapshots \subseteq 0 .. Len(wal)

(* The server's jobs rest from the guard of the erasure to its answer.     *)
ErasesUndisturbed ==
  server.at \in {"erase", "checkpoint", "vacuum", "last checkpoint"} =>
    \A w \in Supervised : importer[w].at = "idle"

(* Once the first SELECT has found nodes its snapshot stays in use, and    *)
(* all that was read so far is of it; no row that was cited goes away.     *)
LoadSound ==
  /\ server.pin # Unpinned => server.at = "load"
  /\ server.at = "load" =>
       /\ Len(server.got) <= 4
       /\ \A k \in DOMAIN server.got : server.got[k] \subseteq Latest.rows
       /\ server.pin # Unpinned => View(server.pin).map \subseteq Latest.rows
       /\ Len(server.got) >= 1 /\ server.got[1] # {} =>
            /\ server.pin # Unpinned
            /\ \A k \in DOMAIN server.got : server.got[k] = server.got[1]
            /\ server.got[1] = View(server.pin).map
  /\ server.at = "loaded" => Len(server.got) = 4

VaultInvariant ==
  /\ CommitsClosed /\ SnapshotsInLog /\ ErasesUndisturbed /\ LoadSound
  /\ LoadIsOneMap /\ SummaryCoversMap /\ ErasureReachesDisk
=============================================================================
