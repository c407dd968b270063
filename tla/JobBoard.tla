------------------------------- MODULE JobBoard -------------------------------
(***************************************************************************)
(* What the web server shows its clients about imports: the status of each *)
(* job, the messages that are evidence, and the messages the stored map    *)
(* was built from.  No thread, task or handler appears here; ImportJobs    *)
(* implements this, and WebClient is a page in front of it.                *)
(***************************************************************************)
CONSTANTS
  Jobs,      \* job ids
  Messages   \* messages that may become evidence

VARIABLES
  status,    \* status[j]: the JobStatus a poll of j shows, "absent" for an unknown job
  evidence,  \* the messages the vault has evidence of
  map        \* the messages the stored topography was built from

boardVars == <<status, evidence, map>>

AllAbsent == [j \in Jobs |-> "absent"]

Idle == \A j \in Jobs : status[j] \notin {"queued", "running"}

Init == status = AllAbsent /\ evidence = {} /\ map = {}

(* A request to import is accepted, only while no job is active.           *)
Submit(j) ==
  /\ Idle /\ status[j] = "absent"
  /\ status' = [status EXCEPT ![j] = "queued"]
  /\ UNCHANGED <<evidence, map>>

Run(j) ==
  /\ status[j] = "queued"
  /\ status' = [status EXCEPT ![j] = "running"]
  /\ UNCHANGED <<evidence, map>>

(* A running job adds evidence, and shows all there is in a new map.       *)
Import(j) ==
  /\ status[j] = "running"
  /\ evidence' \in SUBSET Messages /\ evidence \subseteq evidence'
  /\ UNCHANGED <<status, map>>

Show(j) ==
  /\ status[j] = "running"
  /\ map' = evidence
  /\ UNCHANGED <<status, evidence>>

(* A job ends once, completed only when the map shows all the evidence.    *)
Finish(j) ==
  /\ status[j] = "running"
  /\ \/ map = evidence /\ status' = [status EXCEPT ![j] = "completed"]
     \/ status' = [status EXCEPT ![j] = "failed"]
  /\ UNCHANGED <<evidence, map>>

(* The vault is erased, and then the jobs are forgotten, or they are not   *)
(* because a step in between failed; both only while no job is active.     *)
Erase ==
  /\ Idle
  /\ evidence' = {} /\ map' = {}
  /\ UNCHANGED status

Forget ==
  /\ Idle
  /\ status' = AllAbsent
  /\ UNCHANGED <<evidence, map>>

(* The server dies, and with it the table of jobs.                         *)
Restart == status' = AllAbsent /\ UNCHANGED <<evidence, map>>

Work(j) == Run(j) \/ Import(j) \/ Show(j) \/ Finish(j)

Next ==
  \/ \E j \in Jobs : Submit(j) \/ Work(j)
  \/ Erase \/ Forget \/ Restart

Spec == Init /\ [][Next]_boardVars

(* An accepted job is run, and a running one ends.                         *)
Fairness == \A j \in Jobs : WF_boardVars(Run(j) \/ Finish(j))
=============================================================================
