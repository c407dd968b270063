------------------------------ MODULE ImportJobs ------------------------------
(***************************************************************************)
(* Import jobs of the web server: ImportJobManager, the handlers of the    *)
(* HTTP API that start, watch and forget jobs, and the worker thread of a  *)
(* job.                                                                    *)
(*                                                                         *)
(* Handlers and tasks run on one event loop, one at a time until they      *)
(* await; the worker thread runs beside them.  A handler that touches what *)
(* the thread touches (the demo file, the vault, the job table) is split   *)
(* into one action per access.  Resuming, batches and locks are the        *)
(* subject of ResumableImport; here an import is the few steps that meet   *)
(* the handlers.                                                           *)
(***************************************************************************)
EXTENDS Integers, Sequences, FiniteSets

CONSTANTS
  Jobs,         \* bound: how many jobs the table holds before they are forgotten
  InboxIds,     \* messages of the user's mailbox file
  DemoMailbox   \* messages of the demo mailbox, in the order they are written

ASSUME JobsAssumption ==
  /\ IsFiniteSet(Jobs) /\ InboxIds # {} /\ DemoMailbox # <<>>
  /\ DemoMailbox \in Seq({DemoMailbox[k] : k \in DOMAIN DemoMailbox})
  /\ InboxIds \cap {DemoMailbox[k] : k \in DOMAIN DemoMailbox} = {}

VARIABLES
  loop,      \* what the event loop executes: "free", or the rest of a handler
  status,    \* status[j]: JobStatus of job j, "absent" if the table has no such job
  phase,     \* phase[j]: the phase a poll of job j shows
  source,    \* source[j]: the file job j imports, "inbox" or "demo"
  task,      \* task[j]: the asyncio task that executes _run
  thread,    \* thread[j]: the next statement of import_mbox in job j's thread
  box,       \* box[j]: the messages of the file as job j's bootstrap opened it
  demoFile,  \* how many messages demo.mbox holds, NoFile while it does not exist
  evidence,  \* the messages the vault has evidence of
  map        \* the messages the stored topography was built from

jobVars == <<status, phase, source, task>>
vars == <<loop, status, phase, source, task, thread, box, demoFile, evidence, map>>

NoFile == -1

DemoFirstIds(n) == {DemoMailbox[k] : k \in {i \in DOMAIN DemoMailbox : i <= n}}
DemoIds == DemoFirstIds(Len(DemoMailbox))

Statuses == {"absent", "queued", "running", "completed", "failed"}
Phases == {"queued", "starting", "importing", "projecting", "completed", "failed"}
Handlers == {"free", "demo unlink", "demo write", "demo start",
             "reset erase", "reset compact", "reset clear"}
InThread == {"construct", "preview", "open", "commit", "replace"}

Active(j) == status[j] \in {"queued", "running"}

(* Fault: a queued job does not count as active.                           *)
OnlyRunning == \E j \in Jobs : status[j] = "running"

(* Fault: only a queued job counts as active.                              *)
OnlyQueued == \E j \in Jobs : status[j] = "queued"

(* ImportJobManager.active, also the guard of start and of clear.          *)
AnyActive == \E j \in Jobs : Active(j)

(* ImportJobManager.start: a new job is queued and its task is created.    *)
AddJob(j, file) ==
  /\ status[j] = "absent"
  /\ status' = [status EXCEPT ![j] = "queued"]
  /\ phase' = [phase EXCEPT ![j] = "queued"]
  /\ source' = [source EXCEPT ![j] = file]
  /\ task' = [task EXCEPT ![j] = "created"]

(* POST /api/onboarding/import, with consent, for a readable file and with *)
(* no active job; every other request is refused and changes nothing.      *)
StartImport(j) ==
  /\ loop = "free" /\ ~AnyActive
  /\ AddJob(j, "inbox")
  /\ UNCHANGED <<loop, thread, box, demoFile, evidence, map>>

(* POST /api/demo: refused over existing evidence.                         *)
DemoCheck ==
  /\ loop = "free" /\ evidence = {}
  /\ loop' = "demo unlink"
  /\ UNCHANGED <<jobVars, thread, box, demoFile, evidence, map>>

(* create_demo_mbox unlinks the file, creates it anew and writes it        *)
(* message by message.                                                     *)
DemoUnlink ==
  /\ loop = "demo unlink"
  /\ demoFile' = NoFile /\ loop' = "demo write"
  /\ UNCHANGED <<jobVars, thread, box, evidence, map>>

DemoWrite ==
  /\ loop = "demo write"
  /\ demoFile' = demoFile + 1
  /\ loop' = IF demoFile' = Len(DemoMailbox) THEN "demo start" ELSE "demo write"
  /\ UNCHANGED <<jobVars, thread, box, evidence, map>>

(* Only now does start_demo ask the job manager, which may refuse.         *)
DemoStart(j) ==
  /\ loop = "demo start" /\ ~AnyActive
  /\ AddJob(j, "demo")
  /\ loop' = "free"
  /\ UNCHANGED <<thread, box, demoFile, evidence, map>>

DemoRefused ==
  /\ loop = "demo start" /\ AnyActive
  /\ loop' = "free"
  /\ UNCHANGED <<jobVars, thread, box, demoFile, evidence, map>>

(* Fault: the two texts are swapped.                                       *)
BeginRunSwapped(j) ==
  /\ loop = "free" /\ task[j] = "created"
  /\ task' = [task EXCEPT ![j] = "awaiting"]
  /\ status' = [status EXCEPT ![j] = "starting"]
  /\ phase' = [phase EXCEPT ![j] = "running"]
  /\ thread' = [thread EXCEPT ![j] = "construct"]
  /\ UNCHANGED <<loop, source, box, demoFile, evidence, map>>

(* _run up to the await: the job runs, and its thread is started.          *)
BeginRun(j) ==
  /\ loop = "free" /\ task[j] = "created"
  /\ task' = [task EXCEPT ![j] = "awaiting"]
  /\ status' = [status EXCEPT ![j] = "running"]
  /\ phase' = [phase EXCEPT ![j] = "starting"]
  /\ thread' = [thread EXCEPT ![j] = "construct"]
  /\ UNCHANGED <<loop, source, box, demoFile, evidence, map>>

FileExists(j) == source[j] = "demo" => demoFile # NoFile
File(j) == IF source[j] = "demo" THEN DemoFirstIds(demoFile) ELSE InboxIds

(* The constructor needs the file; preview opens it; progress reports      *)
(* IMPORTING; bootstrap opens the file again and reads it as it is then.   *)
Construct(j) ==
  /\ thread[j] = "construct" /\ FileExists(j)
  /\ thread' = [thread EXCEPT ![j] = "preview"]
  /\ UNCHANGED <<loop, jobVars, box, demoFile, evidence, map>>

Preview(j) ==
  /\ thread[j] = "preview" /\ FileExists(j)
  /\ thread' = [thread EXCEPT ![j] = "open"]
  /\ phase' = [phase EXCEPT ![j] = "importing"]
  /\ UNCHANGED <<loop, status, source, task, box, demoFile, evidence, map>>

OpenBox(j) ==
  /\ thread[j] = "open" /\ FileExists(j)
  /\ thread' = [thread EXCEPT ![j] = "commit"]
  /\ box' = [box EXCEPT ![j] = File(j)]
  /\ UNCHANGED <<loop, jobVars, demoFile, evidence, map>>

(* The batches are committed, and progress reports PROJECTING.             *)
Commit(j) ==
  /\ thread[j] = "commit"
  /\ thread' = [thread EXCEPT ![j] = "replace"]
  /\ evidence' = evidence \cup box[j]
  /\ phase' = [phase EXCEPT ![j] = "projecting"]
  /\ UNCHANGED <<loop, status, source, task, box, demoFile, map>>

(* Fault: the map is built from the evidence of this import alone.         *)
ReplaceMapByBox(j) ==
  /\ thread[j] = "replace"
  /\ thread' = [thread EXCEPT ![j] = "returned"]
  /\ map' = box[j]
  /\ phase' = [phase EXCEPT ![j] = "completed"]
  /\ UNCHANGED <<loop, status, source, task, box, demoFile, evidence>>

(* Fault: progress reports the batches once more.                          *)
ReplaceMapReportsImport(j) ==
  /\ thread[j] = "replace"
  /\ thread' = [thread EXCEPT ![j] = "returned"]
  /\ map' = evidence
  /\ phase' = [phase EXCEPT ![j] = "importing"]
  /\ UNCHANGED <<loop, status, source, task, box, demoFile, evidence>>

(* The map is rebuilt from all evidence, and progress reports COMPLETED.   *)
ReplaceMap(j) ==
  /\ thread[j] = "replace"
  /\ thread' = [thread EXCEPT ![j] = "returned"]
  /\ map' = evidence
  /\ phase' = [phase EXCEPT ![j] = "completed"]
  /\ UNCHANGED <<loop, status, source, task, box, demoFile, evidence>>

(* Any statement of the thread may raise: no file, a locked database...    *)
Raise(j) ==
  /\ thread[j] \in InThread
  /\ thread' = [thread EXCEPT ![j] = "raised"]
  /\ UNCHANGED <<loop, jobVars, box, demoFile, evidence, map>>

(* Fault: the exception of the thread is not caught.                       *)
EndRunUncaught(j) ==
  /\ loop = "free" /\ task[j] = "awaiting" /\ thread[j] \in {"returned", "raised"}
  /\ task' = [task EXCEPT ![j] = "finished"]
  /\ thread' = [thread EXCEPT ![j] = "none"]
  /\ IF thread[j] = "returned"
     THEN /\ status' = [status EXCEPT ![j] = "completed"]
          /\ phase' = [phase EXCEPT ![j] = "completed"]
     ELSE UNCHANGED <<status, phase>>
  /\ UNCHANGED <<loop, source, box, demoFile, evidence, map>>

(* _run after the await: the outcome of the thread becomes the job's.      *)
EndRun(j) ==
  /\ loop = "free" /\ task[j] = "awaiting" /\ thread[j] \in {"returned", "raised"}
  /\ task' = [task EXCEPT ![j] = "finished"]
  /\ thread' = [thread EXCEPT ![j] = "none"]
  /\ LET outcome == IF thread[j] = "returned" THEN "completed" ELSE "failed" IN
       /\ status' = [status EXCEPT ![j] = outcome]
       /\ phase' = [phase EXCEPT ![j] = outcome]
  /\ UNCHANGED <<loop, source, box, demoFile, evidence, map>>

(* Fault: the handler erases without asking the job manager.               *)
ResetUnguarded ==
  /\ loop = "free"
  /\ loop' = "reset erase"
  /\ UNCHANGED <<jobVars, thread, box, demoFile, evidence, map>>

(* DELETE /api/vault: refused while a job is active.                       *)
ResetCheck ==
  /\ loop = "free" /\ ~AnyActive
  /\ loop' = "reset erase"
  /\ UNCHANGED <<jobVars, thread, box, demoFile, evidence, map>>

(* store.reset deletes every row in one transaction, or fails doing so.    *)
ResetErase ==
  /\ loop = "reset erase"
  /\ \/ loop' = "reset compact" /\ evidence' = {} /\ map' = {}
     \/ loop' = "free" /\ UNCHANGED <<evidence, map>>
  /\ UNCHANGED <<jobVars, thread, box, demoFile>>

(* Then it checkpoints the WAL and VACUUMs; another connection's           *)
(* transaction makes that fail, and the handler ends with an error.        *)
ResetCompact ==
  /\ loop = "reset compact"
  /\ loop' \in {"reset clear", "free"}
  /\ UNCHANGED <<jobVars, thread, box, demoFile, evidence, map>>

(* ImportJobManager.clear forgets every job, unless one is active.         *)
ResetClear ==
  /\ loop = "reset clear"
  /\ loop' = "free"
  /\ IF AnyActive THEN UNCHANGED status
     ELSE status' = [j \in Jobs |-> "absent"]
  /\ UNCHANGED <<phase, source, task, thread, box, demoFile, evidence, map>>

(* The server is killed and started again: the job table was in memory.    *)
Restart ==
  /\ loop' = "free"
  /\ status' = [j \in Jobs |-> "absent"]
  /\ task' = [j \in Jobs |-> "none"]
  /\ thread' = [j \in Jobs |-> "none"]
  /\ UNCHANGED <<phase, source, box, demoFile, evidence, map>>
-----------------------------------------------------------------------------
Init ==
  /\ loop = "free"
  /\ status = [j \in Jobs |-> "absent"]
  /\ phase = [j \in Jobs |-> "queued"]
  /\ source = [j \in Jobs |-> "inbox"]
  /\ task = [j \in Jobs |-> "none"]
  /\ thread = [j \in Jobs |-> "none"]
  /\ box = [j \in Jobs |-> {}]
  /\ demoFile = NoFile
  /\ evidence = {} /\ map = {}

Thread(j) ==
  Construct(j) \/ Preview(j) \/ OpenBox(j) \/ Commit(j) \/ ReplaceMap(j) \/ Raise(j)

Handler ==
  \/ DemoUnlink \/ DemoWrite \/ (\E j \in Jobs : DemoStart(j)) \/ DemoRefused
  \/ ResetErase \/ ResetCompact \/ ResetClear

Next ==
  \/ \E j \in Jobs : StartImport(j) \/ BeginRun(j) \/ EndRun(j) \/ Thread(j)
  \/ DemoCheck \/ ResetCheck \/ Handler \/ Restart

Spec == Init /\ [][Next]_vars

(* Handlers run to their end; the loop's queue serves every ready task     *)
(* however many requests arrive; the operating system runs the thread.     *)
FairSpec ==
  /\ Spec
  /\ WF_vars(Handler)
  /\ \A j \in Jobs : SF_vars(BeginRun(j)) /\ SF_vars(EndRun(j)) /\ WF_vars(Thread(j))
-----------------------------------------------------------------------------
TypeOK ==
  /\ loop \in Handlers
  /\ status \in [Jobs -> Statuses] /\ phase \in [Jobs -> Phases]
  /\ source \in [Jobs -> {"inbox", "demo"}]
  /\ task \in [Jobs -> {"none", "created", "awaiting", "finished"}]
  /\ thread \in [Jobs -> InThread \cup {"none", "returned", "raised"}]
  /\ box \in [Jobs -> SUBSET (InboxIds \cup DemoIds)]
  /\ demoFile \in {NoFile} \cup 0 .. Len(DemoMailbox)
  /\ evidence \subseteq InboxIds \cup DemoIds /\ map \subseteq InboxIds \cup DemoIds

(* "Runs at most one import": neither two active jobs nor two threads that *)
(* import, with requests, thread and tasks in any order.                   *)
AtMostOneImport ==
  \A i, j \in Jobs :
    (Active(i) \/ thread[i] \in InThread) /\ (Active(j) \/ thread[j] \in InThread) => i = j

(* A thread that imports, or has just ended, belongs to a running job: its *)
(* progress finds the job in the table, and active() vouches for it.       *)
ThreadsAreActive ==
  \A j \in Jobs : thread[j] # "none" => status[j] = "running"

(* While the vault is erased no thread imports, and clear finds no active  *)
(* job, although the handler asked active() only once, before erasing.     *)
ErasesAlone ==
  loop \in {"reset erase", "reset compact", "reset clear"} =>
    \A j \in Jobs : ~Active(j) /\ thread[j] = "none"

(* When a job is declared completed, the map shows all the evidence, and   *)
(* with it everything the job read.                                        *)
CompletionShowsMap ==
  [][\A j \in Jobs :
       status[j] # "completed" /\ status'[j] = "completed" =>
         map' = evidence' /\ box[j] \subseteq map']_vars

Rank == [queued |-> 0, starting |-> 1, importing |-> 2, projecting |-> 3, completed |-> 4,
         failed |-> 5]

(* What polls of one job show only advances, whether the thread or the     *)
(* task wrote it last, and a completed or failed job stays as it is.       *)
PollsAdvance ==
  [][\A j \in Jobs :
       status[j] # "absent" /\ status'[j] # "absent" =>
         /\ Rank[phase[j]] <= Rank[phase'[j]]
         /\ ~Active(j) => status'[j] = status[j] /\ phase'[j] = phase[j]]_vars

(* A demo job that completed imported the whole demo mailbox.              *)
DemoImportIsWhole ==
  \A j \in Jobs : source[j] = "demo" /\ status[j] = "completed" => box[j] = DemoIds

(* Once the vault is erased, no completed import is remembered.            *)
ErasedVaultForgetsJobs ==
  loop = "free" /\ evidence = {} => \A j \in Jobs : status[j] # "completed"

(* To its clients the server is a job board: each step of a handler, task  *)
(* or thread is one step of the board or changes nothing it shows.         *)
Board == INSTANCE JobBoard
           WITH Jobs <- Jobs, Messages <- InboxIds \cup DemoIds,
                status <- status, evidence <- evidence, map <- map
ShowsJobBoard == Board!Spec

(* Every job is run and ends, so every client that polls it stops polling: *)
(* the board never puts off for ever what an active job has to do.         *)
EveryJobEnds == Board!Fairness
-----------------------------------------------------------------------------
(* Why this holds: the inductive invariant.  A job is active, its task is  *)
(* under way and its thread exists in this order, for one job at a time.   *)

(* At most one job is active, and what exists of it agrees on how far it   *)
(* is; while the vault is erased there is none.                            *)
OneLifeline ==
  /\ \A i, j \in Jobs : Active(i) /\ Active(j) => i = j
  /\ \A j \in Jobs :
       /\ task[j] = "created" => status[j] = "queued" /\ phase[j] = "queued"
       /\ task[j] = "awaiting" => status[j] = "running"
       /\ thread[j] # "none" => task[j] = "awaiting"

(* The phase a poll shows is the one the thread reported last.             *)
PhaseReported ==
  \A j \in Jobs :
    /\ thread[j] \in {"construct", "preview"} => phase[j] = "starting"
    /\ thread[j] \in {"open", "commit"} => phase[j] = "importing"
    /\ thread[j] = "replace" => phase[j] = "projecting"
    /\ thread[j] = "returned" => phase[j] = "completed"

(* What a thread has committed stays, and so does the map it has made.     *)
WorkKept ==
  \A j \in Jobs :
    /\ thread[j] \in {"replace", "returned"} => box[j] \subseteq evidence
    /\ thread[j] = "returned" => map = evidence

(* A demo file that is being written is not complete.                      *)
DemoInProgress == loop = "demo write" => demoFile < Len(DemoMailbox)

JobsInvariant == OneLifeline /\ PhaseReported /\ WorkKept /\ DemoInProgress /\ ErasesAlone
=============================================================================
