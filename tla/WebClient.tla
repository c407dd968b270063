------------------------------ MODULE WebClient ------------------------------
(***************************************************************************)
(* The page of web/app.js in front of a job board: what is on screen, the  *)
(* calls its event handlers await, and the server that answers them in any *)
(* order, or not at all.  What the page draws of a map is left out.        *)
(***************************************************************************)
EXTENDS JobBoard, Integers, FiniteSets

CONSTANTS
  Calls,  \* bound: how many handlers of the page await something at a time
  Files   \* mailbox files the user names

VARIABLES
  page,      \* what the user sees, and the state kept between handlers
  call,      \* call[c]: an event handler that awaits a response or a timer
  unwatched  \* active jobs whose page was reloaded, or of which an answer was lost

pageVars == <<page, call, unwatched>>
vars == <<boardVars, pageVars>>

Statuses == {"queued", "running", "completed", "failed"}
Replies == Statuses \cup {"none", "ok", "empty", "map", "error"}

Active(j) == status[j] \in {"queued", "running"}

NoFile == "no file"
NoJob == "no job"

ASSUME NoJobAssumption == NoJob \notin Jobs

(* The page as loaded, which asks for the map.  A click on an enabled      *)
(* button sends something: for start-import the box is ticked as well.     *)
NewPage ==
  [view |-> "loading", step |-> 1, enabled |-> {"preview", "demo"}, path |-> NoFile,
   rendered |-> NoFile]

(* watched is false when the page that made the call was reloaded.         *)
NoCall == [kind |-> "load", at |-> "none", job |-> NoJob, file |-> NoFile, reply |-> "none",
           watched |-> TRUE]
Request(kind, file, job) ==
  [kind |-> kind, at |-> "sent", job |-> job, file |-> file, reply |-> "none",
   watched |-> TRUE]

(* Handlers are alike, and so are new job ids: any choice will do.         *)
Free(c) == call[c].at = "none" /\ c = CHOOSE d \in Calls : call[d].at = "none"
Send(c, kind, file) == Free(c) /\ call' = [call EXCEPT ![c] = Request(kind, file, NoJob)]
End(c) == call' = [call EXCEPT ![c] = NoCall]
-----------------------------------------------------------------------------
(* The user.                                                               *)
Onboarding(step) == page.view = "onboarding" /\ page.step = step
Dashboard == page.view = "dashboard"

(* Fault: the button can be clicked again while the preview is made.       *)
PreviewAgain(c, file) ==
  /\ Onboarding(1) /\ "preview" \in page.enabled
  /\ page' = [page EXCEPT !.path = file]
  /\ Send(c, "preview", file)
  /\ UNCHANGED <<boardVars, unwatched>>

Preview(c, file) ==
  /\ Onboarding(1) /\ "preview" \in page.enabled
  /\ page' = [page EXCEPT !.path = file, !.enabled = @ \ {"preview"}]
  /\ Send(c, "preview", file)
  /\ UNCHANGED <<boardVars, unwatched>>

StartDemo(c) ==
  /\ Onboarding(1) /\ "demo" \in page.enabled
  /\ page' = [page EXCEPT !.enabled = @ \ {"demo"}]
  /\ Send(c, "demo", NoFile)
  /\ UNCHANGED <<boardVars, unwatched>>

(* The user ticks the box (anew, if the button was disabled by a click),   *)
(* or unticks it.                                                          *)
ToggleConsent ==
  /\ Onboarding(2)
  /\ page' = [page EXCEPT !.enabled = IF "import" \in @ THEN @ \ {"import"} ELSE @ \cup {"import"}]
  /\ UNCHANGED <<boardVars, call, unwatched>>

(* The file is page.path.                                                  *)
StartImport(c) ==
  /\ Onboarding(2) /\ "import" \in page.enabled
  /\ page' = [page EXCEPT !.enabled = @ \ {"import"}]
  /\ Send(c, "import", NoFile)
  /\ UNCHANGED <<boardVars, unwatched>>

(* Back, and Source on the dashboard.                                      *)
ToSetup ==
  /\ Onboarding(2) \/ Dashboard
  /\ page' = [page EXCEPT !.view = "onboarding", !.step = 1]
  /\ UNCHANGED <<boardVars, call, unwatched>>

Refresh(c) ==
  /\ Dashboard
  /\ Send(c, "load", NoFile)
  /\ UNCHANGED <<boardVars, page, unwatched>>

(* Confirmed in a dialog, which can be cancelled while the answer is       *)
(* awaited, or confirmed again.                                            *)
EraseVault(c) ==
  /\ Dashboard
  /\ Send(c, "erase", NoFile)
  /\ UNCHANGED <<boardVars, page, unwatched>>

Acting == {"demo", "import", "erase"}

(* The page is loaded anew.  What it had sent may still reach the server;  *)
(* answers and timers of the old page do nothing any more.  A page that is *)
(* still loading would only ask once more.                                 *)
Survives(c) == call[c].at \in {"sent", "erasing"} /\ call[c].kind \in Acting

Reload(c) ==
  /\ page.view # "loading" /\ ~Survives(c) /\ c = CHOOSE d \in Calls : ~Survives(d)
  /\ page' = NewPage
  /\ call' = [d \in Calls |-> IF d = c THEN Request("load", NoFile, NoJob)
                              ELSE IF Survives(d) THEN [call[d] EXCEPT !.watched = FALSE]
                              ELSE NoCall]
  /\ unwatched' = {j \in Jobs : Active(j)}
  /\ UNCHANGED boardVars

User ==
  \/ \E c \in Calls :
       \/ \E file \in Files : Preview(c, file)
       \/ StartDemo(c) \/ StartImport(c) \/ Refresh(c) \/ EraseVault(c) \/ Reload(c)
  \/ ToggleConsent \/ ToSetup
-----------------------------------------------------------------------------
(* The server.  Handlers run one at a time; only the erasure has two steps *)
(* on the board.                                                           *)
Sent(c, kinds) ==
  /\ call[c].at = "sent" /\ call[c].kind \in kinds
  /\ \A d \in Calls : call[d].at # "erasing"

(* Nobody receives the answer to a page that is gone.                      *)
Answer(c, reply, job) ==
  call' = [call EXCEPT ![c] = IF @.watched
                              THEN [@ EXCEPT !.at = "answered", !.reply = reply, !.job = job]
                              ELSE NoCall]

ServeLoad(c) ==
  /\ Sent(c, {"load"})
  /\ Answer(c, IF map = {} THEN "empty" ELSE "map", NoJob)
  /\ UNCHANGED <<boardVars, page, unwatched>>

ServePreview(c) ==
  /\ Sent(c, {"preview"})
  /\ Answer(c, "ok", NoJob)
  /\ UNCHANGED <<boardVars, page, unwatched>>

(* A job id is new: no call of the page knows it.                          *)
IsNew(j) == status[j] = "absent" /\ \A c \in Calls : call[c].job # j

ServeStart(c, j) ==
  /\ Sent(c, {"demo", "import"})
  /\ call[c].kind = "demo" => evidence = {}
  /\ IsNew(j) /\ j = CHOOSE i \in Jobs : IsNew(i)
  /\ Submit(j)
  /\ Answer(c, "ok", j)
  /\ unwatched' = IF call[c].watched THEN unwatched \ {j} ELSE unwatched \cup {j}
  /\ UNCHANGED page

(* Fault: an unknown job is not told apart.                                *)
ServePollOfAny(c) ==
  /\ Sent(c, {"poll"})
  /\ Answer(c, status[call[c].job], call[c].job)
  /\ UNCHANGED <<boardVars, page, unwatched>>

ServePoll(c) ==
  /\ Sent(c, {"poll"}) /\ status[call[c].job] # "absent"
  /\ Answer(c, status[call[c].job], call[c].job)
  /\ UNCHANGED <<boardVars, page, unwatched>>

ServeErase(c) ==
  /\ Sent(c, {"erase"}) /\ Erase
  /\ call' = [call EXCEPT ![c].at = "erasing"]
  /\ UNCHANGED <<page, unwatched>>

ServeForget(c) ==
  /\ call[c].at = "erasing" /\ Forget
  /\ Answer(c, "ok", NoJob)
  /\ UNCHANGED <<page, unwatched>>

(* A request is refused, fails, or never arrives; or, what is no different *)
(* unless the server has acted on it, its answer is lost.                  *)
Fail(c) ==
  /\ \/ call[c].at \in {"sent", "erasing"}
     \/ call[c].at = "answered" /\ call[c].kind \in Acting /\ call[c].reply # "error"
  /\ Answer(c, "error", NoJob)
  /\ unwatched' = unwatched \cup {j \in Jobs : j = call[c].job /\ Active(j)}
  /\ UNCHANGED <<boardVars, page>>

Serve(c) ==
  \/ ServeLoad(c) \/ ServePreview(c) \/ ServePoll(c) \/ ServeErase(c) \/ ServeForget(c)
  \/ \E j \in Jobs : ServeStart(c, j)

(* The jobs go on, and the server may die, without the page.  A server     *)
(* that dies in an erasure fails it first.                                 *)
Background ==
  /\ \/ Restart /\ \A c \in Calls : call[c].at # "erasing"
     \/ \E j \in Jobs : Work(j)
  /\ unwatched' = {j \in unwatched : Active(j)'}
  /\ UNCHANGED <<page, call>>
-----------------------------------------------------------------------------
(* The rest of a handler, after its await.                                 *)
Received(c, kinds, replies) ==
  call[c].at = "answered" /\ call[c].kind \in kinds /\ call[c].reply \in replies

ShowSetup == page' = [page EXCEPT !.view = "onboarding", !.step = 1]

(* Fault: the error is shown in a view that stays hidden.                  *)
AfterLoadHidden(c) ==
  /\ call[c].at = "answered" /\ call[c].kind = "load"
  /\ \/ call[c].reply = "map" /\ page' = [page EXCEPT !.view = "dashboard"]
     \/ call[c].reply = "empty" /\ ShowSetup
     \/ call[c].reply = "error" /\ UNCHANGED page
  /\ End(c)
  /\ UNCHANGED <<boardVars, unwatched>>

(* loadTopology.                                                           *)
AfterLoad(c) ==
  /\ call[c].at = "answered" /\ call[c].kind = "load"
  /\ \/ call[c].reply = "map" /\ page' = [page EXCEPT !.view = "dashboard"]
     \/ call[c].reply = "empty" /\ ShowSetup
     \/ call[c].reply = "error" /\ page' = [page EXCEPT !.view = "onboarding"]
  /\ End(c)
  /\ UNCHANGED <<boardVars, unwatched>>

(* previewImport; its finally enables the button in either case.           *)
AfterPreview(c) ==
  /\ Received(c, {"preview"}, {"ok", "error"})
  /\ page' = IF call[c].reply = "ok"
             THEN [page EXCEPT !.enabled = @ \cup {"preview"}, !.step = 2,
                               !.rendered = call[c].file]
             ELSE [page EXCEPT !.enabled = @ \cup {"preview"}]
  /\ End(c)
  /\ UNCHANGED <<boardVars, unwatched>>

(* startDemo and startImport: pollJob begins, or the button is enabled.    *)
AfterStart(c) ==
  /\ Received(c, {"demo", "import"}, {"ok"})
  /\ page' = [page EXCEPT !.step = 3]
  /\ call' = [call EXCEPT ![c] = Request("poll", NoFile, call[c].job)]
  /\ UNCHANGED <<boardVars, unwatched>>

AfterRefusal(c) ==
  /\ Received(c, {"demo", "import"}, {"error"})
  /\ page' = [page EXCEPT !.enabled = @ \cup {call[c].kind}]
  /\ End(c)
  /\ UNCHANGED <<boardVars, unwatched>>

(* Fault: only a running job is worth another poll.                        *)
PollOnRunning(c) ==
  /\ Received(c, {"poll"}, Statuses \cup {"error"})
  /\ call' = [call EXCEPT ![c] =
       CASE @.reply = "running" -> [@ EXCEPT !.at = "waiting", !.reply = "none"]
         [] @.reply = "completed" -> Request("load", NoFile, NoJob)
         [] OTHER -> NoCall]
  /\ UNCHANGED <<boardVars, page, unwatched>>

(* Fault: a failed job is polled for ever.                                 *)
PollOnFailed(c) ==
  /\ Received(c, {"poll"}, Statuses \cup {"error"})
  /\ call' = [call EXCEPT ![c] =
       CASE @.reply \in {"queued", "running", "failed"} ->
              [@ EXCEPT !.at = "waiting", !.reply = "none"]
         [] @.reply = "completed" -> Request("load", NoFile, NoJob)
         [] OTHER -> NoCall]
  /\ UNCHANGED <<boardVars, page, unwatched>>

(* pollJob: wait and ask again, load the map, or show an error and return. *)
AfterPoll(c) ==
  /\ Received(c, {"poll"}, Statuses \cup {"error"})
  /\ call' = [call EXCEPT ![c] =
       CASE @.reply \in {"queued", "running"} -> [@ EXCEPT !.at = "waiting", !.reply = "none"]
         [] @.reply = "completed" -> Request("load", NoFile, NoJob)
         [] OTHER -> NoCall]
  /\ UNCHANGED <<boardVars, page, unwatched>>

Tick(c) ==
  /\ call[c].at = "waiting"
  /\ call' = [call EXCEPT ![c].at = "sent"]
  /\ UNCHANGED <<boardVars, page, unwatched>>

(* eraseVault; it unticks the box.                                         *)
AfterErase(c) ==
  /\ Received(c, {"erase"}, {"ok", "error"})
  /\ page' = IF call[c].reply = "ok"
             THEN [page EXCEPT !.view = "onboarding", !.step = 1, !.enabled = @ \ {"import"}]
             ELSE page
  /\ End(c)
  /\ UNCHANGED <<boardVars, unwatched>>

Resume(c) ==
  \/ AfterLoad(c) \/ AfterPreview(c) \/ AfterStart(c) \/ AfterRefusal(c)
  \/ AfterPoll(c) \/ AfterErase(c) \/ Tick(c)
-----------------------------------------------------------------------------
ClientInit ==
  /\ Init
  /\ page = NewPage /\ unwatched = {}
  /\ \E c \in Calls :
       call = [d \in Calls |-> IF d = c THEN Request("load", NoFile, NoJob) ELSE NoCall]

Progress(c) == Serve(c) \/ Fail(c) \/ Resume(c)

ClientNext == User \/ Background \/ \E c \in Calls : Progress(c)

ClientSpec == ClientInit /\ [][ClientNext]_vars

(* A request is answered or fails, an awaiting handler or timer resumes,   *)
(* and the server runs its jobs; the user owes nothing.                    *)
FairClientSpec == ClientSpec /\ Fairness /\ \A c \in Calls : WF_vars(Progress(c))
-----------------------------------------------------------------------------
TypeOK ==
  /\ status \in [Jobs -> Statuses \cup {"absent"}]
  /\ evidence \subseteq Messages /\ map \subseteq Messages /\ unwatched \subseteq Jobs
  /\ page \in [view : {"loading", "onboarding", "dashboard"}, step : 1..3,
               enabled : SUBSET {"preview", "demo", "import"},
               path : Files \cup {NoFile}, rendered : Files \cup {NoFile}]
  /\ call \in [Calls -> [kind : {"load", "preview", "demo", "import", "poll", "erase"},
                         at : {"none", "sent", "erasing", "answered", "waiting"},
                         job : Jobs \cup {NoJob}, file : Files \cup {NoFile},
                         reply : Replies, watched : BOOLEAN]]

(* Wherever the user can agree to an import, the file that would be        *)
(* imported is the one whose preview is on screen, although the two are    *)
(* set on either side of an await.                                         *)
ImportIsPreviewed == page.step = 2 => page.path = page.rendered

(* As long as no page is reloaded and no answer lost, some handler of the  *)
(* page is with every active job and will report how it ends, whatever     *)
(* the user clicks meanwhile.                                              *)
ActiveJobsAreWatched ==
  \A j \in Jobs \ unwatched :
    Active(j) => \E c \in Calls : call[c].watched /\ call[c].job = j

(* The loading screen, which has nothing to click, stays only while the    *)
(* answer that replaces it is on its way, also when that is an error.      *)
LoadingIsAwaited ==
  page.view = "loading" =>
    \E c \in Calls : call[c].kind = "load" /\ call[c].at \in {"sent", "answered"} /\ call[c].watched

(* No handler awaits for ever: a poll loop ends with its job, and also     *)
(* when the server forgets the job.                                        *)
EveryCallEnds == \A c \in Calls : call[c].at # "none" ~> call[c].at = "none"
=============================================================================
