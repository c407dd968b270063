--------------------------- MODULE ImportJobsProofs ---------------------------
(***************************************************************************)
(* Import jobs, for every number of jobs and every pair of mailboxes: one  *)
(* import at a time, none under an erasure, polls that only advance, and   *)
(* the job board its clients see.                                          *)
(***************************************************************************)
EXTENDS ImportJobs, TLAPS

(* What a demo file holds is part of the demo mailbox.                     *)
LEMMA DemoLength == Len(DemoMailbox) \in Nat
BY JobsAssumption

LEMMA Shorter ==
  ASSUME NEW n \in Nat, NEW k \in {NoFile} \cup 0 .. n, k < n
  PROVE  k + 1 \in 0 .. n /\ (k + 1 # n => k + 1 < n)
BY DEF NoFile

LEMMA FileIsKnown ==
  \A j \in Jobs : File(j) \subseteq InboxIds \cup DemoIds
<1>1. DOMAIN DemoMailbox = 1 .. Len(DemoMailbox)
  BY JobsAssumption
<1>2. DemoIds = {DemoMailbox[k] : k \in DOMAIN DemoMailbox}
  BY <1>1, DemoLength DEF DemoIds, DemoFirstIds
<1>. QED BY <1>2 DEF File, DemoFirstIds

-----------------------------------------------------------------------------
LEMMA TypeInit == Init => TypeOK
BY DEF Init, TypeOK, Handlers, Statuses, Phases, InThread, NoFile

LEMMA TypeStep == TypeOK /\ DemoInProgress /\ [Next]_vars => TypeOK'
<1> SUFFICES ASSUME TypeOK, DemoInProgress, [Next]_vars PROVE TypeOK'
  OBVIOUS
<1> USE DEF TypeOK, Handlers, Statuses, Phases, InThread, jobVars
<1>1. ASSUME NEW j \in Jobs, StartImport(j) PROVE TypeOK'
  BY <1>1 DEF StartImport, AddJob
<1>2. CASE DemoCheck
  BY <1>2 DEF DemoCheck
<1>3. CASE DemoUnlink
  BY <1>3 DEF DemoUnlink
<1>4. CASE DemoWrite
  <2>1. demoFile' \in 0 .. Len(DemoMailbox)
    BY <1>4, DemoLength, Shorter DEF DemoWrite, DemoInProgress
  <2>. QED BY <1>4, <2>1 DEF DemoWrite
<1>5. ASSUME NEW j \in Jobs, DemoStart(j) PROVE TypeOK'
  BY <1>5 DEF DemoStart, AddJob
<1>6. CASE DemoRefused
  BY <1>6 DEF DemoRefused
<1>7. ASSUME NEW j \in Jobs, BeginRun(j) PROVE TypeOK'
  BY <1>7 DEF BeginRun
<1>8. ASSUME NEW j \in Jobs, Construct(j) PROVE TypeOK'
  BY <1>8 DEF Construct
<1>9. ASSUME NEW j \in Jobs, Preview(j) PROVE TypeOK'
  BY <1>9 DEF Preview
<1>10. ASSUME NEW j \in Jobs, OpenBox(j) PROVE TypeOK'
  BY <1>10, FileIsKnown DEF OpenBox
<1>11. ASSUME NEW j \in Jobs, Commit(j) PROVE TypeOK'
  BY <1>11 DEF Commit
<1>12. ASSUME NEW j \in Jobs, ReplaceMap(j) PROVE TypeOK'
  BY <1>12 DEF ReplaceMap
<1>13. ASSUME NEW j \in Jobs, Raise(j) PROVE TypeOK'
  BY <1>13 DEF Raise
<1>14. ASSUME NEW j \in Jobs, EndRun(j) PROVE TypeOK'
  BY <1>14 DEF EndRun
<1>15. CASE ResetCheck
  BY <1>15 DEF ResetCheck
<1>16. CASE ResetErase
  BY <1>16 DEF ResetErase
<1>17. CASE ResetCompact
  BY <1>17 DEF ResetCompact
<1>18. CASE ResetClear
  BY <1>18 DEF ResetClear
<1>19. CASE Restart
  BY <1>19 DEF Restart
<1>20. CASE UNCHANGED vars
  BY <1>20 DEF vars
<1>. QED BY <1>1, <1>2, <1>3, <1>4, <1>5, <1>6, <1>7, <1>8, <1>9, <1>10, <1>11, <1>12, <1>13,
            <1>14, <1>15, <1>16, <1>17, <1>18, <1>19, <1>20 DEF Next, Handler, Thread

-----------------------------------------------------------------------------
LEMMA JobsInit == Init => JobsInvariant
BY DEF Init, JobsInvariant, OneLifeline, PhaseReported, WorkKept, DemoInProgress, ErasesAlone,
       Active, InThread

(* A thread or an awaiting task makes its job the active one.              *)
LEMMA ThreadOfActive ==
  ASSUME OneLifeline, NEW j \in Jobs, thread[j] # "none"
  PROVE  status[j] = "running" /\ Active(j) /\ \A i \in Jobs \ {j} : thread[i] = "none"
BY DEF OneLifeline, Active

(* One statement of the worker thread.                                     *)
LEMMA ThreadStep ==
  ASSUME TypeOK, JobsInvariant, NEW j \in Jobs, Thread(j)
  PROVE  JobsInvariant'
<1> USE DEF TypeOK, InThread, jobVars
<1>1. /\ thread[j] # "none" /\ thread' \in [Jobs -> InThread \cup {"none", "returned", "raised"}]
      /\ thread'[j] # "none" /\ \A i \in Jobs \ {j} : thread'[i] = thread[i]
      /\ UNCHANGED <<loop, status, task, demoFile>>
      /\ \A i \in Jobs \ {j} : phase'[i] = phase[i]
  BY DEF Thread, Construct, Preview, OpenBox, Commit, ReplaceMap, Raise
<1>2. Active(j) /\ \A i \in Jobs \ {j} : thread[i] = "none" /\ thread'[i] = "none"
  BY <1>1, ThreadOfActive DEF JobsInvariant
<1>3. OneLifeline'
  <2>1. thread[j] # "none" => task[j] = "awaiting"
    BY DEF JobsInvariant, OneLifeline
  <2>2. task[j] = "awaiting"
    BY <1>1, <2>1
  <2>3. task[j] # "created"
    BY <2>2
  <2>. QED BY <1>1, <1>2, <2>2, <2>3 DEF JobsInvariant, OneLifeline, Active
<1>4. PhaseReported'
  <2>1. /\ thread'[j] \in {"construct", "preview"} => phase'[j] = "starting"
        /\ thread'[j] \in {"open", "commit"} => phase'[j] = "importing"
        /\ thread'[j] = "replace" => phase'[j] = "projecting"
        /\ thread'[j] = "returned" => phase'[j] = "completed"
    BY DEF Thread, Construct, Preview, OpenBox, Commit, ReplaceMap, Raise, JobsInvariant,
           PhaseReported
  <2>. QED BY <1>2, <2>1 DEF PhaseReported
<1>5. WorkKept'
  <2>1. /\ thread'[j] \in {"replace", "returned"} => box'[j] \subseteq evidence'
        /\ thread'[j] = "returned" => map' = evidence'
    BY DEF Thread, Construct, Preview, OpenBox, Commit, ReplaceMap, Raise, JobsInvariant, WorkKept
  <2>. QED BY <1>2, <2>1 DEF WorkKept
<1>6. ErasesAlone'
  BY <1>1, <1>2 DEF JobsInvariant, ErasesAlone, Active
<1>. QED BY <1>1, <1>3, <1>4, <1>5, <1>6 DEF JobsInvariant, DemoInProgress

(* A new job is queued while none is active.                               *)
LEMMA AddJobStep ==
  ASSUME TypeOK, JobsInvariant, ~AnyActive, NEW j \in Jobs, NEW file, AddJob(j, file),
         UNCHANGED <<thread, box, evidence, map>>, loop' = "free"
  PROVE  JobsInvariant'
<1> USE DEF TypeOK, AddJob
<1>1. \A i \in Jobs : ~Active(i)
  BY DEF AnyActive
<1>2. \A i \in Jobs : thread[i] = "none" /\ task[i] \notin {"created", "awaiting"}
  BY <1>1 DEF JobsInvariant, OneLifeline, Active
<1>3. OneLifeline'
  BY <1>1, <1>2 DEF OneLifeline, Active
<1>4. PhaseReported' /\ WorkKept'
  BY <1>2 DEF PhaseReported, WorkKept
<1>. QED BY <1>3, <1>4 DEF JobsInvariant, DemoInProgress, ErasesAlone

LEMMA BeginRunStep ==
  ASSUME TypeOK, JobsInvariant, NEW j \in Jobs, BeginRun(j)
  PROVE  JobsInvariant'
<1> USE DEF TypeOK, BeginRun
<1>1. status[j] = "queued" /\ Active(j)
  BY DEF JobsInvariant, OneLifeline, Active
<1>2. \A i \in Jobs \ {j} : thread[i] = "none" /\ ~Active(i)
  BY <1>1 DEF JobsInvariant, OneLifeline, Active
<1>3. OneLifeline'
  BY <1>1, <1>2 DEF JobsInvariant, OneLifeline, Active
<1>4. PhaseReported' /\ WorkKept'
  BY <1>2 DEF PhaseReported, WorkKept
<1>. QED BY <1>3, <1>4 DEF JobsInvariant, DemoInProgress, ErasesAlone

LEMMA EndRunStep ==
  ASSUME TypeOK, JobsInvariant, NEW j \in Jobs, EndRun(j)
  PROVE  JobsInvariant'
<1> USE DEF TypeOK, EndRun
<1>1. \A i \in Jobs \ {j} : thread[i] = "none" /\ ~Active(i)
  BY DEF JobsInvariant, OneLifeline, Active
<1>2. OneLifeline'
  BY <1>1 DEF JobsInvariant, OneLifeline, Active
<1>3. PhaseReported' /\ WorkKept'
  BY <1>1 DEF PhaseReported, WorkKept
<1>. QED BY <1>2, <1>3 DEF JobsInvariant, DemoInProgress, ErasesAlone

(* The handlers of demo and erasure change no job, or all of them.         *)
LEMMA HandlerStep ==
  ASSUME TypeOK, JobsInvariant,
         DemoCheck \/ DemoUnlink \/ DemoWrite \/ DemoRefused
           \/ ResetCheck \/ ResetErase \/ ResetCompact \/ ResetClear \/ Restart
  PROVE  JobsInvariant'
<1> USE DEF TypeOK, jobVars
<1>1. CASE DemoCheck \/ DemoUnlink \/ DemoRefused
  <2>1. DemoInProgress'
    <3>1. \A n \in Nat : NoFile < n
      BY DEF NoFile
    <3>. QED BY <1>1, <3>1, DemoLength DEF DemoCheck, DemoUnlink, DemoRefused, DemoInProgress
  <2>2. ErasesAlone'
    BY <1>1 DEF DemoCheck, DemoUnlink, DemoRefused, ErasesAlone
  <2>3. UNCHANGED <<jobVars, thread, box, evidence, map>>
    BY <1>1 DEF DemoCheck, DemoUnlink, DemoRefused
  <2>. QED BY <2>1, <2>2, <2>3 DEF JobsInvariant, OneLifeline, PhaseReported, WorkKept, Active
<1>2. CASE DemoWrite
  <2>1. DemoInProgress'
    BY <1>2, DemoLength, Shorter DEF DemoWrite, JobsInvariant, DemoInProgress
  <2>2. ErasesAlone'
    BY <1>2 DEF DemoWrite, ErasesAlone
  <2>. QED BY <1>2, <2>1, <2>2 DEF JobsInvariant, OneLifeline, PhaseReported, WorkKept, Active,
              DemoWrite
<1>3. CASE ResetCheck
  <2>1. \A j \in Jobs : ~Active(j) /\ thread[j] = "none"
    BY <1>3 DEF ResetCheck, AnyActive, JobsInvariant, OneLifeline, Active
  <2>. QED BY <1>3, <2>1 DEF ResetCheck, JobsInvariant, OneLifeline, PhaseReported, WorkKept, Active,
              DemoInProgress, ErasesAlone
<1>4. CASE ResetErase \/ ResetCompact
  <2>1. \A j \in Jobs : ~Active(j) /\ thread[j] = "none"
    BY <1>4 DEF ResetErase, ResetCompact, JobsInvariant, ErasesAlone
  <2>2. UNCHANGED <<jobVars, thread, box, demoFile>> /\ loop' # "demo write"
    BY <1>4 DEF ResetErase, ResetCompact
  <2>. QED BY <2>1, <2>2 DEF JobsInvariant, OneLifeline, PhaseReported, WorkKept, Active,
              DemoInProgress, ErasesAlone
<1>5. CASE ResetClear
  <2>1. \A j \in Jobs : ~Active(j) /\ thread[j] = "none"
    BY <1>5 DEF ResetClear, JobsInvariant, ErasesAlone
  <2>2. \A j \in Jobs : task[j] \notin {"created", "awaiting"}
    BY <2>1 DEF JobsInvariant, OneLifeline, Active
  <2>3. UNCHANGED <<task, phase, thread, box, evidence, map>> /\ loop' = "free"
    BY <1>5 DEF ResetClear
  <2>4. \A j \in Jobs : status'[j] \notin {"queued", "running"}
    BY <1>5, <2>1 DEF ResetClear, Active
  <2>5. OneLifeline'
    BY <2>1, <2>2, <2>3, <2>4 DEF OneLifeline, Active
  <2>6. PhaseReported' /\ WorkKept'
    BY <2>1, <2>3 DEF PhaseReported, WorkKept
  <2>. QED BY <2>3, <2>5, <2>6 DEF JobsInvariant, DemoInProgress, ErasesAlone
<1>6. CASE Restart
  BY <1>6 DEF Restart, JobsInvariant, OneLifeline, PhaseReported, WorkKept, Active, DemoInProgress,
              ErasesAlone
<1>. QED BY <1>1, <1>2, <1>3, <1>4, <1>5, <1>6

LEMMA JobsStep == TypeOK /\ JobsInvariant /\ [Next]_vars => JobsInvariant'
<1> SUFFICES ASSUME TypeOK, JobsInvariant, [Next]_vars PROVE JobsInvariant'
  OBVIOUS
<1>1. ASSUME NEW j \in Jobs, StartImport(j) \/ DemoStart(j) PROVE JobsInvariant'
  <2>1. PICK file : AddJob(j, file)
    BY <1>1 DEF StartImport, DemoStart
  <2>. QED BY <1>1, <2>1, AddJobStep DEF StartImport, DemoStart
<1>2. ASSUME UNCHANGED vars PROVE JobsInvariant'
  BY <1>2 DEF vars, jobVars, JobsInvariant, OneLifeline, PhaseReported, WorkKept, Active,
              DemoInProgress, ErasesAlone
<1>. QED BY <1>1, <1>2, ThreadStep, BeginRunStep, EndRunStep, HandlerStep DEF Next, Handler

-----------------------------------------------------------------------------
(* The types and the inductive invariant hold in every reachable state.    *)
THEOREM JobsInvariantHolds == Spec => [](TypeOK /\ JobsInvariant)
<1>1. Init => TypeOK /\ JobsInvariant
  BY TypeInit, JobsInit
<1>2. TypeOK /\ JobsInvariant /\ [Next]_vars => (TypeOK /\ JobsInvariant)'
  BY TypeStep, JobsStep DEF JobsInvariant
<1>. QED BY <1>1, <1>2, PTL DEF Spec

(* Every variable stays in its type, whatever handlers, tasks, thread and  *)
(* restarts do.                                                            *)
THEOREM TypeCorrect == Spec => []TypeOK
BY JobsInvariantHolds, PTL

(* The job manager runs at most one import, also while requests, tasks and *)
(* the worker thread interleave.                                           *)
THEOREM OneImportAtATime == Spec => []AtMostOneImport
<1>1. TypeOK /\ JobsInvariant => AtMostOneImport
  <2> SUFFICES ASSUME JobsInvariant, NEW i \in Jobs, NEW j \in Jobs,
                      Active(i) \/ thread[i] \in InThread, Active(j) \/ thread[j] \in InThread
               PROVE  i = j
    BY DEF AtMostOneImport
  <2>1. Active(i) /\ Active(j)
    BY ThreadOfActive DEF JobsInvariant, InThread
  <2>. QED BY <2>1 DEF JobsInvariant, OneLifeline
<1>. QED BY <1>1, JobsInvariantHolds, PTL

(* Every worker thread belongs to a job the table calls running, so the    *)
(* guards that ask active() see it.                                        *)
THEOREM ThreadsAreSupervised == Spec => []ThreadsAreActive
<1>1. TypeOK /\ JobsInvariant => ThreadsAreActive
  BY ThreadOfActive DEF JobsInvariant, ThreadsAreActive
<1>. QED BY <1>1, JobsInvariantHolds, PTL

(* The order of what polls show, and what a thread knows of its job.       *)
LEMMA ThreadOnlyAdvances ==
  ASSUME TypeOK, JobsInvariant, NEW j \in Jobs, Thread(j), NEW i \in Jobs
  PROVE  Rank[phase[i]] <= Rank[phase'[i]]
<1>1. CASE i = j
  <2>1. \/ phase'[j] = phase[j]
        \/ phase[j] = "starting" /\ phase'[j] = "importing"
        \/ phase[j] = "importing" /\ phase'[j] = "projecting"
        \/ phase[j] = "projecting" /\ phase'[j] = "completed"
    BY DEF Thread, Construct, Preview, OpenBox, Commit, ReplaceMap, Raise, JobsInvariant,
           PhaseReported, TypeOK, jobVars
  <2>. QED BY <1>1, <2>1 DEF Rank, TypeOK, Phases
<1>2. CASE i # j
  <2>1. phase'[i] = phase[i]
    BY <1>2 DEF Thread, Construct, Preview, OpenBox, Commit, ReplaceMap, Raise, TypeOK, jobVars
  <2>. QED BY <2>1 DEF Rank, TypeOK, Phases
<1>. QED BY <1>1, <1>2

(* Polls of a job only advance, and what is completed or failed stays so,  *)
(* whichever of thread and task wrote last.                                *)
THEOREM PollsOnlyAdvance == Spec => PollsAdvance
<1>1. TypeOK /\ JobsInvariant /\ [Next]_vars =>
        [\A j \in Jobs :
          status[j] # "absent" /\ status'[j] # "absent" =>
            /\ Rank[phase[j]] <= Rank[phase'[j]]
            /\ ~Active(j) => status'[j] = status[j] /\ phase'[j] = phase[j]]_vars
  <2> SUFFICES ASSUME TypeOK, JobsInvariant, Next, NEW i \in Jobs,
                      status[i] # "absent", status'[i] # "absent"
               PROVE  /\ Rank[phase[i]] <= Rank[phase'[i]]
                      /\ ~Active(i) => status'[i] = status[i] /\ phase'[i] = phase[i]
    OBVIOUS
  <2>1. Rank[phase[i]] <= Rank[phase[i]]
    BY DEF Rank, TypeOK, Phases
  <2>2. ASSUME NEW j \in Jobs, NEW file, AddJob(j, file) PROVE i # j
    BY <2>2 DEF AddJob
  <2>3. ASSUME NEW j \in Jobs, StartImport(j) \/ DemoStart(j)
        PROVE  status'[i] = status[i] /\ phase'[i] = phase[i]
    <3>1. PICK file : AddJob(j, file)
      BY <2>3 DEF StartImport, DemoStart
    <3>. QED BY <2>2, <3>1 DEF AddJob, TypeOK
  <2>4. ASSUME NEW j \in Jobs, BeginRun(j)
        PROVE  /\ Rank[phase[i]] <= Rank[phase'[i]]
               /\ ~Active(i) => status'[i] = status[i] /\ phase'[i] = phase[i]
    <3>1. phase[j] = "queued" /\ Active(j) /\ phase'[j] = "starting"
      BY <2>4 DEF BeginRun, JobsInvariant, OneLifeline, Active, TypeOK
    <3>2. i # j => status'[i] = status[i] /\ phase'[i] = phase[i]
      BY <2>4 DEF BeginRun, TypeOK
    <3>. QED BY <2>1, <3>1, <3>2 DEF Rank
  <2>5. ASSUME NEW j \in Jobs, EndRun(j)
        PROVE  /\ Rank[phase[i]] <= Rank[phase'[i]]
               /\ ~Active(i) => status'[i] = status[i] /\ phase'[i] = phase[i]
    <3>1. Active(j) /\ phase'[j] \in {"completed", "failed"}
      BY <2>5 DEF EndRun, JobsInvariant, OneLifeline, Active, TypeOK
    <3>2. thread[j] = "returned" => phase[j] = "completed" /\ phase'[j] = "completed"
      BY <2>5 DEF EndRun, JobsInvariant, PhaseReported, TypeOK
    <3>3. thread[j] # "returned" => phase'[j] = "failed"
      BY <2>5 DEF EndRun, TypeOK
    <3>4. Rank[phase[j]] <= Rank[phase'[j]]
      BY <3>2, <3>3 DEF Rank, TypeOK, Phases
    <3>5. i # j => status'[i] = status[i] /\ phase'[i] = phase[i]
      BY <2>5 DEF EndRun, TypeOK
    <3>. QED BY <2>1, <3>1, <3>4, <3>5
  <2>6. ASSUME NEW j \in Jobs, Thread(j)
        PROVE  /\ Rank[phase[i]] <= Rank[phase'[i]]
               /\ ~Active(i) => status'[i] = status[i] /\ phase'[i] = phase[i]
    <3>1. thread[j] # "none" /\ status' = status
      BY <2>6 DEF Thread, Construct, Preview, OpenBox, Commit, ReplaceMap, Raise, InThread, jobVars
    <3>2. Active(j)
      BY <3>1, ThreadOfActive DEF JobsInvariant
    <3>3. i # j => phase'[i] = phase[i]
      BY <2>6 DEF Thread, Construct, Preview, OpenBox, Commit, ReplaceMap, Raise, TypeOK, jobVars
    <3>. QED BY <2>6, <3>1, <3>2, <3>3, ThreadOnlyAdvances
  <2>7. CASE \/ DemoCheck \/ DemoUnlink \/ DemoWrite \/ DemoRefused
             \/ ResetCheck \/ ResetErase \/ ResetCompact
    <3>1. UNCHANGED <<status, phase>>
      BY <2>7 DEF DemoCheck, DemoUnlink, DemoWrite, DemoRefused, ResetCheck, ResetErase,
                  ResetCompact, jobVars
    <3>. QED BY <2>1, <3>1
  <2>8. CASE ResetClear \/ Restart
    <3>1. phase' = phase /\ (status' = status \/ \A j \in Jobs : status'[j] = "absent")
      BY <2>8 DEF ResetClear, Restart
    <3>. QED BY <2>1, <3>1
  <2>. QED BY <2>1, <2>3, <2>4, <2>5, <2>6, <2>7, <2>8 DEF Next, Handler
<1>. QED BY <1>1, JobsInvariantHolds, PTL DEF Spec, PollsAdvance

(* From the check of active() to the forgetting of the jobs no import is   *)
(* under way.                                                              *)
THEOREM ErasuresAreAlone == Spec => []ErasesAlone
BY JobsInvariantHolds, PTL DEF JobsInvariant

(* A job is declared completed only after the map shows all the evidence,  *)
(* and with it everything the job has read.                                *)
THEOREM CompletionComesLast == Spec => CompletionShowsMap
<1>1. TypeOK /\ JobsInvariant /\ [Next]_vars =>
        [\A j \in Jobs :
          status[j] # "completed" /\ status'[j] = "completed" =>
            map' = evidence' /\ box[j] \subseteq map']_vars
  <2> SUFFICES ASSUME TypeOK, JobsInvariant, Next, NEW i \in Jobs,
                      status[i] # "completed", status'[i] = "completed"
               PROVE  map' = evidence' /\ box[i] \subseteq map'
    OBVIOUS
  <2>1. EndRun(i) /\ thread[i] = "returned"
    BY DEF Next, Handler, Thread, StartImport, DemoCheck, DemoUnlink, DemoWrite, DemoStart,
           DemoRefused, BeginRun, Construct, Preview, OpenBox, Commit, ReplaceMap, Raise, EndRun,
           ResetCheck, ResetErase, ResetCompact, ResetClear, Restart, AddJob, jobVars, TypeOK
  <2>. QED BY <2>1 DEF EndRun, JobsInvariant, WorkKept
<1>. QED BY <1>1, JobsInvariantHolds, PTL DEF Spec, CompletionShowsMap

-----------------------------------------------------------------------------
(* Idle, to the board, is what active() finds.                             *)
LEMMA IdleIsInactive == Board!Idle <=> ~AnyActive
BY DEF Board!Idle, AnyActive, Active

LEMMA BoardInit == Init => Board!Init
BY DEF Init, Board!Init, Board!AllAbsent

LEMMA BoardStep ==
  TypeOK /\ JobsInvariant /\ [Next]_vars => [Board!Next]_(Board!boardVars)
<1> SUFFICES ASSUME TypeOK, JobsInvariant, [Next]_vars
             PROVE  [Board!Next]_(Board!boardVars)
  OBVIOUS
<1> USE DEF Board!boardVars
<1>1. ASSUME NEW j \in Jobs, StartImport(j) \/ DemoStart(j)
      PROVE  Board!Submit(j)
  BY <1>1, IdleIsInactive DEF StartImport, DemoStart, AddJob, Board!Submit
<1>2. ASSUME NEW j \in Jobs, BeginRun(j) PROVE Board!Run(j)
  <2>1. status[j] = "queued"
    BY <1>2 DEF BeginRun, JobsInvariant, OneLifeline
  <2>. QED BY <1>2, <2>1 DEF BeginRun, Board!Run
<1>3. ASSUME NEW j \in Jobs, Construct(j) \/ Preview(j) \/ OpenBox(j) \/ Raise(j)
      PROVE  UNCHANGED Board!boardVars
  BY <1>3 DEF Construct, Preview, OpenBox, Raise, jobVars
<1>4. ASSUME NEW j \in Jobs, Commit(j) \/ ReplaceMap(j)
      PROVE  Board!Import(j) \/ Board!Show(j)
  <2>1. status[j] = "running"
    BY <1>4, ThreadOfActive DEF Commit, ReplaceMap, JobsInvariant
  <2>2. box[j] \subseteq InboxIds \cup DemoIds /\ evidence \subseteq InboxIds \cup DemoIds
    BY DEF TypeOK
  <2>3. CASE Commit(j)
    BY <2>1, <2>2, <2>3 DEF Commit, Board!Import
  <2>4. CASE ReplaceMap(j)
    BY <2>1, <2>4 DEF ReplaceMap, Board!Show
  <2>. QED BY <1>4, <2>3, <2>4
<1>5. ASSUME NEW j \in Jobs, EndRun(j) PROVE Board!Finish(j)
  <2>1. status[j] = "running" /\ (thread[j] = "returned" => map = evidence)
    BY <1>5 DEF EndRun, JobsInvariant, OneLifeline, WorkKept
  <2>. QED BY <1>5, <2>1 DEF EndRun, Board!Finish
<1>6. CASE DemoCheck \/ DemoUnlink \/ DemoWrite \/ DemoRefused \/ ResetCheck \/ ResetCompact
  BY <1>6 DEF DemoCheck, DemoUnlink, DemoWrite, DemoRefused, ResetCheck, ResetCompact, jobVars
<1>7. CASE ResetErase
  <2>1. Board!Idle
    BY <1>7, IdleIsInactive DEF ResetErase, JobsInvariant, ErasesAlone, AnyActive
  <2>. QED BY <1>7, <2>1 DEF ResetErase, jobVars, Board!Next, Board!Erase
<1>8. CASE ResetClear
  BY <1>8, IdleIsInactive DEF ResetClear, Board!Next, Board!Forget, Board!AllAbsent
<1>9. CASE Restart
  BY <1>9 DEF Restart, Board!Next, Board!Restart, Board!AllAbsent
<1>10. CASE UNCHANGED vars
  BY <1>10 DEF vars, jobVars
<1>. QED BY <1>1, <1>2, <1>3, <1>4, <1>5, <1>6, <1>7, <1>8, <1>9, <1>10
         DEF Next, Handler, Thread, Board!Next, Board!Work

(* The server implements the job board: threads, handlers and the demo     *)
(* file add nothing a client could tell from it.                           *)
THEOREM ServerIsJobBoard == Spec => ShowsJobBoard
<1>. QED BY BoardInit, BoardStep, JobsInvariantHolds, PTL
         DEF Spec, ShowsJobBoard, Board!Spec
=============================================================================
