# Life Topography: a TLA+ verification project

Life Topography is a local-first program that reads a mailbox (MBOX) export,
stores header-only *evidence* of every message in a SQLite vault, and derives a
*topography* (people, organizations, threads and their relationships) from it.
This directory models the part of it where things go wrong unnoticed: resumable
imports into one vault by several processes, the job manager of the web server,
erasing the vault while either is at work, the database file and its log under a
map that is being loaded, the page in front of the server, and the projection
itself. TLC checks small instances; TLAPS proves the central theorems for every
instance.

Paths below are relative to `src/packages/app/src/life_topography/` unless they
start with `src/`, `docs/` or `README.md`.

## 1. The system

| Part | State it keeps | Operations | Talks to |
|---|---|---|---|
| MBOX connector (`connectors/mbox.py`) | path, owner, batch size, fingerprint taken when constructed | `preview`, `bootstrap(cursor)` (a generator of batches), `cursor_position`, `changes` | the mailbox file, opened by name in every call |
| Ingestion kernel (`application/ingestion.py`) | none | `ingest(batch)`: rows and cursor in one transaction | store |
| Onboarding service (`application/onboarding.py`) | none | `preview_mbox`, `import_mbox`, `topography`, `evidence`, `reset` | connector, kernel, projection, store |
| SQLite store (`adapters/sqlite_store.py`) | tables evidence, checkpoints, nodes, edges and their evidence links; WAL files | transaction, `cursor_for`, `evidence_items`, `replace_topography`, `load_topography`, `reset` | SQLite: one writer, many readers, foreign keys, 5 s busy timeout |
| Projection (`application/project_topography.py`) | none | `build_topography(evidence, owners)` | - |
| Import job manager (`application/import_jobs.py`) | job table and tasks, in memory | `start`, `get`, `active`, `clear`, `_run` | event loop, one worker thread per job, service |
| HTTP API (`api.py`) | one store, service and job manager | preview, import, demo, job status, map, evidence, erase | all of the above |
| Demo (`connectors/demo.py`) | `demo.mbox` beside the vault | `create_demo_mbox` | file system |
| Command line (`cli.py`) | its own store on the same file | `import-mbox`, `demo`, `serve` | service, in its own process |
| Web client (`web/app.js`) | form, job being polled, map shown | preview, demo, import, poll every 250 ms, refresh, erase | HTTP API |
| SDK (`src/packages/sdk`) | none | record identity, validation of batches | - |

How they meet: handlers and tasks share one event loop; an import runs in a
worker thread (`asyncio.to_thread`) with an event loop of its own and reports
progress into the job table through a lock; a CLI import is another process and
meets the server only in the vault. A server that is stopped waits for its
worker thread, so a second server may already run: to the vault that thread is
one more importer nobody supervises.

What is hard about it: two or more importers and an erasure interleave between
transactions; files change between the fingerprint, the preview and the read;
an import may die between any two statements and is retried by starting it
again; a job's state is written by two threads; erasing has several steps of
which a late one may fail. `PROJECT.json` lists each hazard at its line with the
properties that cover it.

What makes each part correct:

* resuming: a stored cursor never skips a message that is not evidence; a
  completed import is whole; every batch is one that `IngestBatch` accepts;
* vault: rows and cursor move together; the map cites no missing row; the map
  catches up with the evidence; an erasure takes everything at once;
* jobs: at most one import, every job ends, polls only advance, completion is
  announced after the map is there, an erasure never meets an import;
* demo: what is imported is the whole demo mailbox;
* database file: a map that is loaded in four SELECTs is one map, its evidence
  count covers what it cites, and an erasure that was answered reached the disk;
* page: only a previewed file can be imported, a job that runs is polled whatever
  else is clicked, the loading screen is not for ever, no handler awaits for ever;
* headers: an address is a participant once, under the name it was given;
* projection: the map holds exactly what the evidence implies, every node and edge
  cites exactly the messages that imply it, both ends of an edge exist, and a
  message counts once, whatever the order of the evidence.

## 2. Modules

```
MailSources            files, record ids, cursors (vocabulary, no state)
  EvidenceLedger       abstract specification: what the vault promises
    EvidenceLedgerProofs   theorems and proofs
  ResumableImport      importers, transactions, lock, crashes, erasure
    MCResumableImport      instances for TLC
    ResumableImportProofs  theorems and proofs
JobBoard               abstract specification: what polls and the map show
  ImportJobs           job manager, handlers, worker thread, demo file, restart
    MCImportJobs           instances for TLC
    ImportJobsProofs       theorems and proofs
  WebClient            the page, its handlers and its requests, in front of the board
    MCWebClient            instance for TLC
    WebClientProofs        theorems and proofs
VaultFile              database file and WAL under loads, imports and erasures
  MCVaultFile              instance for TLC
  VaultFileProofs          theorems and proofs
Headers                participants from address headers (operators, no state)
  HeadersProofs            theorems and proofs
Topography             build_topography, participant by participant
  TopographyProofs         theorems and proofs
  PersonNames              Topography reading what Headers makes of messages
    MCTopography               instances for TLC
    PersonNamesProofs          theorems and proofs
```

`ResumableImport` is about the vault and abstracts job supervision to a guard;
`ImportJobs` is about supervision and abstracts an import to the statements that
meet the handlers. They share no variable but two facts. `ResumableImport` assumes
that at most one supervised importer runs and that none does while the server
erases; `ImportJobs` checks exactly these (`AtMostOneImport`, `ErasesAlone`).
`VaultFile` makes the same two assumptions and looks one level deeper, at the
snapshots and files below a transaction.

The server and the page meet in `JobBoard`. `ImportJobs` is shown to implement it
(`ShowsJobBoard`) and to keep its fairness (`EveryJobEnds`); `WebClient` EXTENDS it,
so the page is checked against everything a server may do that behaves like the
board, without the event loop, tasks and thread in its state space.

### ResumableImport and the code

State: `disk[p]` is the version of the file a path names (external); `evidence`
and `checkpoints` are the committed tables; `topography` is the set of rows the
committed map was built from; `lock` is SQLite's write lock; `run[w]` holds the
local variables of importer `w`'s `import_mbox` and which statement is next.

| Action | Code |
|---|---|
| `Start` | `import_mbox` builds `MboxConnector`; `__init__` fingerprints the file. For a supervised importer, `ImportJobManager.start` has refused a second job |
| `Preview`, `ReadCursor`, `OpenBox` | `preview()` counts; `cursor_for` and `cursor_position`; `bootstrap` opens the file again |
| `ScanMessage` | one turn of `bootstrap`'s loop: skip before `start`, drop a duplicate, or append |
| `YieldBatch`, `EndOfBox` | the two `yield`s, the end of the loop |
| `PutEvidence`, `CommitBatch` | `ingest`: one INSERT per record, then cursor and commit |
| `ReadEvidence`, `ReplaceTopography`, `RejectTopography` | `evidence_items`, `replace_topography`, or the foreign keys refuse it |
| `BusyTimeout`, `Interrupt` | "database is locked" after 5 s; any exception, or the death of the thread or process |
| `Reset` | `DELETE /api/vault` after its guards: the erasing transaction and `jobs.clear` |
| `ReplaceSource`, `RestoreSource` | external: the mail client writes the file; the user moves an old one back |

Abstractions, and why they are faithful for these properties:

* A message is its `source_record_id`; header parsing is a function of the
  message and no property looks at what it computes. One connector exists, so a
  row is (account, record id), as in `EvidenceRecord.identity`.
* The fingerprint hashes path, device, inode, size and mtime; the model takes
  equal fingerprints for equal versions, so a file rewritten in place within one
  mtime tick at equal size is outside the model.
* The open box does not change under the reader. Mail clients that rewrite by
  renaming behave so; one that appends in place to the open file is seen as the
  version before or after.
* A message seen in the box but waiting for the next batch (`bootstrap` consumes
  it, then yields) is left unconsumed in the model; the cursor of the yielded
  batch is its index in both.
* A bare decimal cursor is accepted by `_cursor_index` (older vaults). No code
  at this commit writes one, so the branch is not modelled; a cursor that does
  not parse is never stored either.
* Every message takes part in the map. A message without any valid address is
  evidence that no node cites, so its loss alone would not trip a foreign key.
* `Reset` here is the part that concerns the vault's rows; that the compaction
  after it may fail is in `ImportJobs`.

### ImportJobs and the code

State: `loop` is what the event loop is in the middle of; `status`, `phase`,
`source`, `task` and `thread` describe each job: its table entry, the file it
reads, its asyncio task and its worker thread; `box` is what its bootstrap opened;
`demoFile` counts the messages in `demo.mbox`; `evidence` and `map` are what the
vault holds. Handlers that touch what the thread touches are one action per
access (`DemoCheck`, `DemoUnlink`, `DemoWrite`, `DemoStart`; `ResetCheck`,
`ResetErase`, `ResetCompact`, `ResetClear`): nothing else runs on the event loop
between them, but the worker thread does. The thread is five statements
(`Construct`, `Preview`, `OpenBox`, `Commit`, `ReplaceMap`), any of which may
`Raise`; that a failed import may have committed some batches is left to
`ResumableImport`. `BeginRun` and `EndRun` are `_run` before and after its await.
`Restart` is the death of the server: the job table is gone, files and rows stay.
Handlers that refuse a request or only read change nothing and have no action.
The counts of a job (`current`, `total`) are left out.

### JobBoard

What a client can tell about imports: the status of each job, the evidence, and
the messages the stored map was built from. `Submit` is an accepted request,
`Run`, `Import`, `Show` and `Finish` the work of a job, `Erase` and `Forget` the two
halves of an erasure (a failing compaction stops between them), `Restart` the death of
the server. The board promises that a job is accepted only while none is active,
that evidence goes away only then, and that a job is completed only when the map shows
all the evidence. `Board` in `ImportJobs` is its instance: the status of a job
is that of its table entry, and evidence and map are the vault's.

### VaultFile and the code

State: `main` is what the database file holds and `wal` what each commit since the
last truncation made of it; a reader's snapshot is a position in that log.
`importer[w]` is what `import_mbox` of `w` does to the vault; `server` holds the locals of
the handler in progress.

| Action | Code |
|---|---|
| `Start`, `BeginWrite`, `CommitBatch`, `BeginRead`, `EndRead`, `CommitMap`, `Stop` | `import_mbox` as the vault sees it: batches, `evidence_items`, `replace_topography` or its refusal by the foreign keys, any exception |
| `Load`, `Select`, `Count` | `GET /api/topography`: the four SELECTs of `load_topography`, then `evidence_count` on a connection of its own |
| `Reset`, `Erase` | `DELETE /api/vault` after its guard; the erasing transaction |
| `Checkpoint`, `Vacuum`, `ResetFails` | the two `wal_checkpoint(TRUNCATE)`, the `VACUUM` between them, "database is locked" |
| `AutoCheckpoint` | external: SQLite checkpoints after a large commit |

SQLite itself is external and is modelled from how the store uses it. A
transaction reads the commits before its first statement; in pysqlite a
transaction begins with its first INSERT, UPDATE or DELETE, so the SELECTs of a
load are not in one. They share a snapshot only because the first two cursors still
have rows to fetch when the next SELECT begins, and an open cursor keeps its read
transaction; a map without nodes leaves no such cursor. A checkpoint copies the log
up to the oldest snapshot in use, and truncates it only if no transaction is in
the way; whether it was able to, SQLite says in a row that the code does not
read. An importer between transactions holds no snapshot. File modes are left out,
and the rows are messages: an edge or link is present when the message it cites is
in the map.

### WebClient and the code

State: `page` is the view, the step of the setup, the buttons that can be clicked, the
path as last read from the form and the file whose preview is drawn. `call[c]` is
one event handler that awaits: what for, how far, for which job, with which
answer. `unwatched` holds the active jobs of which the page cannot know, because
it was reloaded or an answer was lost.

| Action | Code |
|---|---|
| `Preview`, `StartDemo`, `StartImport`, `Refresh`, `EraseVault` | a click, up to the handler's `await` |
| `ToggleConsent`, `ToSetup`, `Reload` | the consent box; Back and Source; the browser |
| `ServeLoad`, `ServePreview`, `ServeStart`, `ServePoll`, `ServeErase`, `ServeForget` | the API handler that answers, a step of the board |
| `Fail` | a refusal, an error, a request or an answer that is lost, a server that is down |
| `AfterLoad`, `AfterPreview`, `AfterStart`, `AfterRefusal`, `AfterPoll`, `AfterErase` | the rest of the handler, after its `await` |
| `Tick` | 250 ms between polls |
| `Background` | the board goes on by itself, or restarts |

Abstractions: one page is open. "import" is among the enabled buttons when the box is
ticked and the button not disabled, because the box's own handler ties the two. The
erase dialog is folded into `EraseVault`: while it is open the page behind cannot be
clicked, but other handlers go on. Which free handler and which new job id is taken
makes no difference, so one is chosen. A page that is reloaded while it loads would
only ask again. What is drawn of a map, the evidence dialog and messages are left out.

### Headers and the code

`DictAfter(header)[n]` is the dict of `_deduplicated_participants` after the first `n` entries
of a header, each entered by `Enter`, the body of its loop; `Deduplicated` is the dict
after the last. `Recipients` joins To, Cc and Bcc before it, `Sender` takes the first of
From, and `EmailParticipants` is the projection's reading of both. A header is the
sequence of pairs that `getaddresses` returns, with names decoded; what an address as
written normalises to is the constant `Normal`. `KeptOnce` states the result without a
dict, from the mentions of each address.

`PersonNames` puts the two together: the participants `Topography` reads are those
`Headers` makes of each message (`MailAssumption`), and a person's labels must be the
votes of the messages that cite the person.

### Topography and the code

State: the two arguments of `build_topography` (`evidence`, `owners`), where its
two loops stand (`item`, `turn`), and its locals `seen`, `nodes`, `edges`.

| Action | Code |
|---|---|
| `SkipMessage` | the `continue` for a message without participants (which any payload that is no email header is) |
| `BeginMessage` | the self node and the thread are touched, `seen_addresses` is made |
| `SkipRepeated` | `continue` for an address that came before in this message |
| `TakeOwner`, `TakePerson` | one turn of the inner loop, with the nodes and edges it touches |
| `EndMessage` | the end of the inner loop |

A node keeps its labels in the order they were counted, because the Counter's order
breaks the ties in `_project_node` (`Label`), and its evidence. A node's or edge's
id is the hash of exactly what its value in the model is made of, and the model
takes equal hashes for equal values. `Participants` is what `_email_participants`
returns, with a name already replaced by the address where it is empty; `Subject` and
`ThreadKey` likewise come after the reply prefix is removed. First and last dates are
the extremes over the cited evidence and are left out. What the map should be is
stated apart from the loops, message by message, as sets: `NodesOf` and `EdgesOf`.

In `ResumableImport` the map is the set of rows it was built from; `MapMatchesEvidence`
is what makes that abstraction sound: the nodes, edges and citations are a
function of that set and of the owners.

### EvidenceLedger

The promise without the machinery: rows of one account are added together with
an *honest* cursor (`Commit`), the map is replaced by one that cites existing
rows (`Project`), everything goes at once (`Erase`), a file is replaced
(`ReplaceFile`). `KeepsLedger` states that `ResumableImport`, seen through the four
variables they share, implements it.

## 3. Runs

| Run | Expect | Shows |
|---|---|---|
| `ResumeAwaited` | pass, 771k states | resuming is safe, completed imports are whole, batches are valid, the inductive invariant holds, and the ledger is implemented, if an erasure waits for *all* importers |
| `SingleImporter` | pass, 45k | with one importer the map catches up (also after crashes, by re-importing), and resume positions never move back, even if old files return |
| `ErasedDuringImport` | pass, 7k | erasing under a CLI import: the map never cites erased rows; all imports end, and end without the write lock |
| `EraseUnderCli` | violation of `ResumeSafe` | the erasure waits only for the server's own jobs; another process's import then stores a cursor past erased rows |
| `TwoProjections` | violation of `QuiescentMapCurrent` | two importers read, then replace, the map in separate transactions: lost update |
| `JobsAlone` | pass, 260k | one import at a time, erasures alone, completion after the map, polls advance; the inductive invariant; the job board is implemented, with its fairness: jobs end |
| `DemoRewritten` | violation of `DemoImportIsWhole` | a second demo request rewrites the file the first job is about to read, then is refused |
| `EraseFailsLate` | violation of `ErasedVaultForgetsJobs` | rows erased, compaction fails, jobs are not forgotten |
| `EvidenceProjected` | pass, 2400 | the map holds what the evidence implies, with exact citations, at every step and when returned; edges join nodes; a message has one vote on a label; persons are named as the headers first name them |
| `VaultLoads` | pass, 759k | commits between any two statements of a load or an erasure: a map with nodes is one map, its count covers it, an answered erasure left nothing in file or log unless another process was in a transaction |
| `PageAlone` | pass, 286k | clicks, answers, losses, reloads and server restarts in every order: what is imported was previewed, running jobs are polled, loading and every other await ends |
| `LabelTies` | violation of `InputOrderIrrelevant` | subjects or names that differ in case only: the label is the one counted first |

The five violations are disagreements between code and documentation; each is a
finding in `PROJECT.json`, with the sentence it contradicts.

**Bounds.** Two importers, one supervised, one not: each hazard here is a pair
(two importers, or an importer and an erasure), and the proofs remove the bound.
One account: cursors of two accounts never touch one row, and the theorems hold
for any set of accounts. Two files of which the inbox has two versions: the
first holds a message twice (a duplicate meets every batch and resume boundary), the
second puts a new message first, so that a position of the first version
would skip it; the two files share a message, so a row may exist before it is
imported. Batch sizes 1 and 2 make full batches, remainders and boundaries
happen within four messages. `MaxVersion` bounds only how often a file is
replaced. Two jobs in `JobsAlone`: an erasure or a restart empties the table, so
arbitrarily many follow one another; a third job in the table would only wait
for the second as that does for the first. The demo has two messages, so that it can be
absent, empty, half written and whole.

`VaultLoads` has one importer of the server and one of another process, two
messages, and importers that stop committing when the log holds three commits
(`MaxWal`): enough for two different maps, an evidence row that no map
cites yet and an erasure between the SELECTs of one load; the erasure's own commits
are not bounded, and truncation starts the log again, so that arbitrarily many commits follow one
another. The theorems about it hold for every `MaxWal`.

`PageAlone` has two handlers awaiting at a time, so every pair of clicks and answers
overlaps; one job at a time, whose id is free again once an erasure or a restart has
emptied the table and no handler of the page knows it; two files, so that one can be
previewed and another imported; one message, so that a map is empty or not.

Four messages in the projection, all lists of different ones (the evidence of a
vault has unique identities), with no owner, one, and one with an alias: they hold
a repeated address under two names, an address at an owner's domain, a personal
domain, a message without participants, and two threads, one of two messages.

Deadlock is checked in every run but two; importers, jobs and the page can always start
again. It is not in the two of the projection: a function that has returned has stopped.

**Fairness.** `FairSpec` of `ResumableImport` asks only that an importer that can
go on does (`WF` of its own next statement): the operating system schedules it
and SQLite's busy handler ends every wait for the lock after five seconds; erasures,
replacements and crashes are never forced. The lock itself is not fair: another import may
take it each time it is free, so that without `BusyTimeout` an import could wait for ever
(weak fairness does not help a step that is enabled only now and then), and `EveryRunEnds`
rests on the timeout. `FairSpec` of `ImportJobs` asks
that a handler in progress goes on, that a thread goes on, and that a task that
is ready again and again is run (strong fairness: handlers take turns on the
loop, and asyncio's queue is first in, first out, so requests cannot keep a task
out for ever). `FairClientSpec` of `WebClient` asks that a request is answered or
fails (a browser does one or the other) and that a handler or timer whose turn it is
resumes, and takes from the board the fairness that `ImportJobs` is shown to keep; the user
owes nothing.

## 4. What is proved

`ResumableImportProofs` proves, for every set of importers, accounts, files and
contents and every batch size (`tlapm ResumableImportProofs.tla`):

* `TypeCorrect`: `Spec => []TypeOK`, and `ProvenanceIsClosed`:
  `Spec => []ProvenanceClosed`, with no assumption but those on the constants: the
  foreign keys protect the map against any erasure;
* `LockIsOnlyInUse`: `Spec => []LockIsInUse`, with no further assumption either: SQLite's write lock
  always belongs to an import that is inside its transaction. It is the safety half of
  `EveryRunEnds`, whose other half needs fairness: an import that has ended holds no lock, and
  `BusyTimeout` means that another import is at work;
* under `Undisturbed` (an erasure waits for all importers and no earlier file is moved
  back in place): `ResumeInvariantHolds`, and from it `ResumeIsSafe`,
  `ImportsAreWhole`, `BatchesAreValid`, and `KeepsTheLedger`, the refinement
  `Spec => Ledger!Spec`.

`EraseUnderCli` shows that the first half of `Undisturbed` is needed. So is the second: an
import that fingerprinted version 0 and opened version 1 stores a position in
version 1 under the fingerprint of version 0, which is harmless until that very
file is back in place with its old mtime and inode.

The argument for resuming. `ResumeSafe` is not inductive: it says nothing of an import under
way. `ResumeInvariant` adds, for each importer's frame: its versions are ordered (fingerprint <= box
<= disk, `VersionsOrdered`), so a fingerprint that still matches means that the
file never changed in between; where it will resume is covered by rows
(`StartSound`); every message it has consumed is a row or waits in the batch
(`ScanSound`), so that committing the batch makes the new position covered; the
batch has room, no duplicates and only consumed messages (`BatchSound`); the
preview counted the file that was opened (`CountSound`); and every stored cursor is honest
(`CursorSound`). A frame's soundness depends on others only through the rows and the file
versions, both of which only grow while any importer runs (lemma
`RunSoundStable`); that is where `Undisturbed` enters. The step of one importer
is then checked against its own frame only (`OwnStepSound`, `StartStepSound`,
`CommitSound`).

`TopographyProofs` proves, for all messages, addresses, owners and lists of
evidence, also with repetitions (`tlapm TopographyProofs.tla`): `TypeCorrect`;
`ProjectionInvariantHolds`; from it `MapIsComplete` (`Spec => []MapMatchesEvidence`) and
`EdgesAreJoined` (`Spec => []EdgesJoinNodes`). `MapMatchesEvidence` speaks only of the end, so
`ProjectionInvariant` says how far each message has come (`Reached`) and that `nodes` and
`edges` are what the messages contribute up to there, and `seen` what the current message's
earlier participants are. Each action adds to one message's contribution exactly what it
touches; lemma `TouchAccumulates` says this once for nodes and edges alike.

`VotesAreSingle` (`Spec => []OneVotePerMessage`) also assumes that no list names a message
twice, which the vault's unique identities provide: without it the theorem is false, since a
repeated message votes again. Its lemmas follow one label list through a
message: the current message is not yet cited when it begins, and once cited its later
mentions are skipped (`NotYetCited`, `TouchVotes`).

`OrderShowsInTiesOnly` is the true part of "input order cannot affect output", which
`LabelTies` refutes as it stands: `Spec => []InputOrderIrrelevant` if no message is listed twice
and no two labels have the same length and casefold. `LabelsInOrder` says that the labels of a
node are the votes of the messages that cite it, in the order of the evidence: the
projector takes the message at hand after all that cite the node already (`CitedIsRead`),
so that its vote is appended at the rank the message has among them (`RankOfLast`, `LabelsGrow`).
How often a label was counted is then the number of messages that vote for it, which no
order can change (`VotesCounted`), and without ties the sort asks for nothing else
(`PreferredWhenApart`, `SameLabel`).

`ImportJobsProofs` proves, for every finite set of jobs and all contents of the files
(`tlapm ImportJobsProofs.tla`): `TypeCorrect`, `OneImportAtATime`,
`ThreadsAreSupervised`, `ErasuresAreAlone`, `PollsOnlyAdvance`, `CompletionComesLast` and
`ServerIsJobBoard`, the refinement `Spec => Board!Spec`. None of the safety
properties is inductive alone, since the thread, the task and the table say the same thing
with three variables. `JobsInvariant` adds that they agree: a job's status is
that of its task and thread (`OneLifeline`), its phase is what the thread has
reported (`PhaseReported`), the evidence it has committed and not yet mapped is
still there (`WorkKept`), a demo file that is being written is not complete yet
(`DemoInProgress`), and an erasure that passed its
guard has none at all (`ErasesAlone`).

`VaultFileProofs` proves, for every set of messages and importers and every `MaxWal`
(`tlapm VaultFileProofs.tla`): `TypeCorrect`, `LoadsAreOneMap`, `SummariesCoverMaps` and
`ErasuresReachDisk`, from `VaultInvariant`: every state in the log has a map whose
rows it has (`CommitsClosed`); a snapshot in use is still in the log
(`SnapshotsInLog`), which is why a checkpoint must not truncate under one; the
server's jobs rest during an erasure (`ErasesUndisturbed`); and a load under way
that has found nodes still has the snapshot it found them in, and cites no row that is
gone (`LoadSound`). Rows go only in an erasure, which shares the event loop
with the load and so never falls inside it.

`WebClientProofs` proves, for every set of files, jobs, messages and any number of
handlers that await at a time (`tlapm WebClientProofs.tla`): `ImportsArePreviewed`,
`ActiveJobsAreAlwaysWatched` and `LoadingIsAlwaysAwaited`, with the types
(`ClientInvariantHolds`). The bounds of `PageAlone` are so removed for all but its liveness. The
first needs that a preview under way is alone, is of the path in the form, and that the
button which changes that path stays disabled until its answer is drawn (`PreviewsSound`); the
second, that exactly the accepted starts and the poll loops know a job, and that an
answer "completed" or "failed" is still true when it is processed (`PollsSound`): a job that is
over stays over, because a new one has a new id.

`SoleServer`, that every importer is a job of the one server, is the assumption of
`QuiescentMapIsCurrent` and `CheckpointsAdvance` (also in `ResumableImportProofs`). It is
what `ImportJobs` shows of one server process (`AtMostOneImport`); with a CLI import
beside it both are false, as `TwoProjections` shows for the map. Files may be
replaced and moved back. Under it one importer at most is between its first statement and its last
(`OneAtATime`), so that the rows it read for its map are still all the rows there are when it
replaces the map (`ReadsLatest`), and no row is missing from the map but for an import
that runs or was broken off (`MapInvariant`). The position in a file state advances
because the importer started from the stored one (`ResumesAtCursor`) and nobody has
stored another since (`CursorInvariant`).

`EvidenceLedgerProofs` asks whether the abstract ledger promises enough: from
`Ledger!Spec` alone, without any machinery, resuming is safe (`LedgerResumesSafely`) and
the map cites no missing row (`LedgerIsClosed`).

`HeadersProofs` proves `EveryAddressIsKeptOnce`: `KeptOnce(header)` for every header of any
length. It is an induction over the entries. The library's induction theorems have an operator as a
parameter and cannot be used, so `InductionUpTo` is derived for a set of numbers from the
well-foundedness of the naturals, and the invariant of the loop is that set: after `n` entries the
dict has the addresses mentioned up to `n`, in the order of their first mentions, each with
the first name up to `n` (`EnterKeeps` for one entry, `DictAfterKeeps` for all).

`PersonNamesProofs` carries this into the map: `PersonsAreNamedAsMentioned`, for all messages,
headers, owners and lists that name no message twice. By `LabelsInOrder` the labels of a
person are the names under which it first takes part in each message; `VoteIsFirstName` shows
that this is the first name its headers give, sender or recipient. `LabelIsFirst` closes a gap that
a CHOOSE leaves open: of any labels counted, exactly one is preferred to all others, so
that a label is one that some message gave (an induction over the counted labels).

Only model-checked: liveness (`EveryRunEnds`, `EveryJobEnds`, `EveryCallEnds`), which needs
fairness and ENABLED and is out of the prover's reach (`LockIsOnlyInUse` is what of the first can
be proved). Every other property of a passing run is a theorem. The properties of the violation runs are false of the code.

## 5. Not modelled

Decoding of headers, dates and subjects and the normalisation of an address: pure
functions of one string (`Normal`, `Subject` and `ThreadKey` are constants). The
rendering of the map and the evidence dialog in the web client; response headers and path
confinement; the memory store (a test double); logging and progress counts; file modes;
`MboxConnector.changes` (no caller in the application); protocol declarations.

Seen while modelling, outside what the runs state:

* `docs/validation/2026-07-21-mvp-validation-sweep.md:53` records that a reset leaves a WAL of 0
  bytes. That holds when no other process is in a transaction at the last
  checkpoint; otherwise the checkpoint reports "busy" in a row that nobody
  reads. `ErasureReachesDisk` states it with this condition.
* A load whose nodes come back empty may carry edges of a newer map, committed
  between the SELECTs: `LoadIsOneMap` speaks of loads with nodes. The page shows
  the setup in that case and ignores the edges.
* The consent box stays ticked when another file is previewed
  (`web/index.html:69`): `ImportIsPreviewed` says that the file is the one on screen, not that
  the box was ticked for it.
* After a failed job the third step has no control; reloading the page is the way
  on. The demo button stays disabled after a successful demo, also after an erasure.
* A load that was answered before an erasure and is processed after it shows the erased
  map again until the next refresh.

## 6. Plan

Done: every module above, with its proofs. Next, in this order:

1. Owner aliases across imports (`application/onboarding.py:71`): `Topography` called again and
   again with one owner each time, over the union of what was imported.
2. That `WebClient` is a client of the board: its steps as seen through the board's
   variables.
3. `VaultFile` as a refinement of `EvidenceLedger` with the latest commit as the
   ledger's tables; two jobs and three handlers in `WebClient`.
