--------------------------- MODULE WebClientProofs ---------------------------
(***************************************************************************)
(* What the page guarantees its user, for every set of files, jobs,        *)
(* messages and handlers that await at a time.                             *)
(***************************************************************************)
EXTENDS WebClient, TLAPS

(* A preview on its way is alone, of the path in the form, and the button  *)
(* that would change that path stays disabled until it is there.           *)
Previewing(c) == call[c].kind = "preview" /\ call[c].at # "none"

PreviewsSound ==
  /\ \A c, d \in Calls : Previewing(c) /\ Previewing(d) => c = d
  /\ \A c \in Calls : Previewing(c) =>
       "preview" \notin page.enabled /\ call[c].file = page.path /\ page.step # 2

(* The handlers that know a job: an accepted start, and a poll loop.       *)
KnowsJob(c) ==
  \/ call[c].kind = "poll" /\ call[c].reply # "error"
  \/ call[c].kind \in {"demo", "import"} /\ call[c].at = "answered" /\ call[c].reply = "ok"

(* A poll loop ends only with a job that is over, whatever the server has  *)
(* done since it answered.                                                 *)
PollsSound ==
  \A c \in Calls :
    /\ call[c].at = "none" => call[c].kind = "load"
    /\ call[c].at # "answered" => call[c].reply = "none"
    /\ call[c].at = "erasing" => call[c].kind = "erase"
    /\ call[c].at = "waiting" => call[c].kind = "poll"
    /\ call[c].job \in Jobs <=> KnowsJob(c)
    /\ call[c].kind = "poll" /\ call[c].reply \in {"completed", "failed"} =>
         ~Active(call[c].job)

ClientInvariant ==
  PreviewsSound /\ PollsSound /\ ImportIsPreviewed /\ ActiveJobsAreWatched /\ LoadingIsAwaited

Good == TypeOK /\ ClientInvariant

(* The calls of the type invariant.                                        *)
CallType ==
  [kind : {"load", "preview", "demo", "import", "poll", "erase"},
   at : {"none", "sent", "erasing", "answered", "waiting"},
   job : Jobs \cup {NoJob}, file : Files \cup {NoFile},
   reply : Replies, watched : BOOLEAN]

LEMMA Unwatched ==
  ASSUME NEW r \in CallType
  PROVE  /\ [r EXCEPT !.watched = FALSE] \in CallType
         /\ [r EXCEPT !.watched = FALSE].at = r.at
         /\ [r EXCEPT !.watched = FALSE].kind = r.kind
         /\ [r EXCEPT !.watched = FALSE].job = r.job
         /\ [r EXCEPT !.watched = FALSE].reply = r.reply
BY DEF CallType

LEMMA NoCallTyped == NoCall \in CallType
BY DEF CallType, NoCall, Replies

-----------------------------------------------------------------------------
LEMMA InitIsGood == ClientInit => Good
<1> SUFFICES ASSUME ClientInit PROVE Good
  OBVIOUS
<1> USE DEF ClientInit, Init, AllAbsent
<1>1. PICK c \in Calls :
        call = [d \in Calls |-> IF d = c THEN Request("load", NoFile, NoJob) ELSE NoCall]
  BY DEF ClientInit
<1>2. call[c] = Request("load", NoFile, NoJob) /\ \A d \in Calls : d # c => call[d] = NoCall
  BY <1>1
<1>3. TypeOK
  <2>1. call \in [Calls -> [kind : {"load", "preview", "demo", "import", "poll", "erase"},
                           at : {"none", "sent", "erasing", "answered", "waiting"},
                           job : Jobs \cup {NoJob}, file : Files \cup {NoFile},
                           reply : Replies, watched : BOOLEAN]]
    BY <1>1 DEF Request, NoCall, Replies
  <2>2. /\ status \in [Jobs -> Statuses \cup {"absent"}]
        /\ evidence \subseteq Messages /\ map \subseteq Messages /\ unwatched \subseteq Jobs
    OBVIOUS
  <2>3. page \in [view : {"loading", "onboarding", "dashboard"}, step : 1..3,
                  enabled : SUBSET {"preview", "demo", "import"},
                  path : Files \cup {NoFile}, rendered : Files \cup {NoFile}]
    BY DEF NewPage
  <2> QED BY <2>1, <2>2, <2>3 DEF TypeOK
<1>4. PreviewsSound /\ PollsSound
  BY <1>1, <1>2, NoJobAssumption
  DEF PreviewsSound, PollsSound, Previewing, KnowsJob, Request, NoCall, NewPage
<1>5. ImportIsPreviewed /\ ActiveJobsAreWatched /\ LoadingIsAwaited
  BY <1>1, <1>2
  DEF ImportIsPreviewed, ActiveJobsAreWatched, LoadingIsAwaited, Active, Request, NoCall, NewPage
<1> QED BY <1>3, <1>4, <1>5 DEF Good, ClientInvariant

(* A handler that begins takes a place where none awaits, and asks.        *)
LEMMA SendIsGood ==
  ASSUME Good, NEW c \in Calls, NEW file \in Files \cup {NoFile},
         NEW kind \in {"demo", "import", "load", "erase"},
         Send(c, kind, file), UNCHANGED <<boardVars, unwatched>>,
         page' \in [view : {page.view}, step : {page.step}, path : {page.path},
                    rendered : {page.rendered}, enabled : SUBSET page.enabled]
  PROVE  Good'
<1> USE DEF Good, ClientInvariant
<1>1. /\ call[c].at = "none" /\ call[c].kind = "load" /\ call[c].job \notin Jobs
      /\ call'[c] = [kind |-> kind, at |-> "sent", job |-> NoJob, file |-> file,
                     reply |-> "none", watched |-> TRUE]
      /\ \A d \in Calls : d # c => call'[d] = call[d]
  BY DEF Send, Free, Request, NoCall, PollsSound, KnowsJob, TypeOK
<1>2. TypeOK'
  BY <1>1 DEF TypeOK, Send, Request, NoCall, Replies, boardVars
<1>3. PreviewsSound'
  BY <1>1 DEF PreviewsSound, Previewing
<1>4. PollsSound'
  BY <1>1, NoJobAssumption DEF PollsSound, KnowsJob, Active, boardVars
<1>5. ImportIsPreviewed'
  BY DEF ImportIsPreviewed
<1>6. ActiveJobsAreWatched'
  BY <1>1 DEF ActiveJobsAreWatched, Active, boardVars
<1>7. LoadingIsAwaited'
  BY <1>1 DEF LoadingIsAwaited
<1> QED BY <1>2, <1>3, <1>4, <1>5, <1>6, <1>7

LEMMA PreviewIsGood ==
  ASSUME Good, NEW c \in Calls, NEW file \in Files, Preview(c, file)
  PROVE  Good'
<1> USE DEF Good, ClientInvariant
<1>1. /\ call[c].at = "none" /\ call[c].kind = "load" /\ call[c].job \notin Jobs
      /\ call'[c] = [kind |-> "preview", at |-> "sent", job |-> NoJob, file |-> file,
                     reply |-> "none", watched |-> TRUE]
      /\ \A d \in Calls : d # c => call'[d] = call[d]
  BY DEF Preview, Send, Free, Request, PollsSound, KnowsJob, TypeOK
<1>2. TypeOK'
  BY DEF TypeOK, Preview, Send, Request, Replies, boardVars
<1>3. /\ page'.path = file /\ page'.enabled = page.enabled \ {"preview"} /\ page'.step = 1
      /\ page'.view = "onboarding" /\ "preview" \in page.enabled
  BY DEF Preview, Onboarding, TypeOK
<1>4. \A d \in Calls : ~Previewing(d)
  BY <1>3 DEF PreviewsSound
<1>5. PreviewsSound'
  BY <1>1, <1>3, <1>4 DEF PreviewsSound, Previewing
<1>6. PollsSound'
  BY <1>1, NoJobAssumption DEF PollsSound, KnowsJob, Active, Preview, boardVars
<1>7. ImportIsPreviewed' /\ LoadingIsAwaited'
  BY <1>3 DEF ImportIsPreviewed, LoadingIsAwaited
<1>8. ActiveJobsAreWatched'
  BY <1>1 DEF ActiveJobsAreWatched, Active, Preview, boardVars
<1> QED BY <1>2, <1>5, <1>6, <1>7, <1>8

LEMMA ReloadIsGood ==
  ASSUME Good, NEW c \in Calls, Reload(c)
  PROVE  Good'
<1> USE DEF Good, ClientInvariant
<1>1. /\ call'[c] = [kind |-> "load", at |-> "sent", job |-> NoJob, file |-> NoFile,
                     reply |-> "none", watched |-> TRUE]
      /\ \A d \in Calls : d # c =>
           \/ /\ call'[d] = [call[d] EXCEPT !.watched = FALSE]
              /\ call[d].at \in {"sent", "erasing"} /\ call[d].kind \in Acting
           \/ call'[d] = NoCall
  BY DEF Reload, Request, Survives
<1>2. TypeOK'
  <2>1. \A d \in Calls : call[d] \in CallType
    BY DEF TypeOK, CallType
  <2>2. Request("load", NoFile, NoJob) \in CallType
    BY DEF Request, CallType, Replies
  <2>3. call' \in [Calls -> CallType]
    BY <2>1, <2>2, Unwatched, NoCallTyped DEF Reload
  <2> QED BY <2>3 DEF CallType, TypeOK, Reload, NewPage, boardVars
<1>3. /\ page'.view = "loading" /\ page'.step = 1
      /\ unwatched' = {j \in Jobs : Active(j)} /\ status' = status
  BY DEF Reload, NewPage, boardVars
<1>4. \A d \in Calls : d # c =>
        \/ /\ call'[d].at = call[d].at /\ call'[d].kind = call[d].kind
           /\ call'[d].job = call[d].job /\ call'[d].reply = call[d].reply
           /\ call[d].at \in {"sent", "erasing"} /\ call[d].kind \in Acting
        \/ /\ call'[d].at = "none" /\ call'[d].kind = "load" /\ call'[d].job = NoJob
           /\ call'[d].reply = "none"
  <2>1. \A d \in Calls : call[d] \in CallType
    BY DEF TypeOK, CallType
  <2>2. ASSUME NEW d \in Calls, call'[d] = [call[d] EXCEPT !.watched = FALSE]
        PROVE  /\ call'[d].at = call[d].at /\ call'[d].kind = call[d].kind
               /\ call'[d].job = call[d].job /\ call'[d].reply = call[d].reply
    BY <2>1, <2>2, Unwatched, Zenon
  <2>3. /\ NoCall.at = "none" /\ NoCall.kind = "load" /\ NoCall.job = NoJob
        /\ NoCall.reply = "none"
    BY DEF NoCall
  <2> QED BY <1>1, <2>2, <2>3, Zenon
<1>5. PreviewsSound'
  BY <1>1, <1>4 DEF PreviewsSound, Previewing, Acting
<1>6. PollsSound'
  BY <1>1, <1>3, <1>4, NoJobAssumption DEF PollsSound, KnowsJob, Acting
<1>7. ImportIsPreviewed' /\ LoadingIsAwaited' /\ ActiveJobsAreWatched'
  BY <1>1, <1>3 DEF ImportIsPreviewed, LoadingIsAwaited, ActiveJobsAreWatched, Active
<1> QED BY <1>2, <1>5, <1>6, <1>7

LEMMA UserIsGood == Good /\ User => Good'
<1> SUFFICES ASSUME Good, User PROVE Good'
  OBVIOUS
<1>1. ASSUME NEW c \in Calls, StartDemo(c) \/ StartImport(c) \/ Refresh(c) \/ EraseVault(c)
      PROVE  Good'
  <2>1. page' \in [view : {page.view}, step : {page.step}, path : {page.path},
                   rendered : {page.rendered}, enabled : SUBSET page.enabled]
    BY <1>1 DEF StartDemo, StartImport, Refresh, EraseVault, Good, TypeOK
  <2>2. PICK kind \in {"demo", "import", "load", "erase"} : Send(c, kind, NoFile)
    BY <1>1 DEF StartDemo, StartImport, Refresh, EraseVault
  <2>3. UNCHANGED <<boardVars, unwatched>>
    BY <1>1 DEF StartDemo, StartImport, Refresh, EraseVault
  <2> QED BY <2>1, <2>2, <2>3, SendIsGood
<1>2. CASE ToggleConsent \/ ToSetup
  <2>1. /\ page' \in [view : {"onboarding"}, step : {1, page.step}, path : {page.path},
                      rendered : {page.rendered},
                      enabled : {page.enabled, page.enabled \ {"import"},
                                 page.enabled \cup {"import"}}]
        /\ UNCHANGED <<boardVars, call, unwatched>>
    BY <1>2 DEF ToggleConsent, ToSetup, Onboarding, Good, TypeOK
  <2>2. TypeOK'
    BY <2>1 DEF Good, TypeOK, boardVars
  <2>3. PreviewsSound' /\ ImportIsPreviewed' /\ LoadingIsAwaited'
    BY <2>1 DEF Good, ClientInvariant, PreviewsSound, Previewing, ImportIsPreviewed,
                LoadingIsAwaited
  <2>4. PollsSound' /\ ActiveJobsAreWatched'
    BY <2>1 DEF Good, ClientInvariant, PollsSound, KnowsJob, ActiveJobsAreWatched, Active,
                boardVars
  <2> QED BY <2>2, <2>3, <2>4 DEF Good, ClientInvariant
<1> QED BY <1>1, <1>2, PreviewIsGood, ReloadIsGood DEF User
-----------------------------------------------------------------------------
LEMMA AnswerReceived ==
  ASSUME TypeOK, NEW c \in Calls, NEW reply \in Replies, NEW job \in Jobs \cup {NoJob},
         Answer(c, reply, job)
  PROVE  /\ call' \in [Calls -> CallType]
         /\ \A d \in Calls : d # c => call'[d] = call[d]
         /\ IF call[c].watched
            THEN /\ call'[c].at = "answered" /\ call'[c].reply = reply /\ call'[c].job = job
                 /\ call'[c].kind = call[c].kind /\ call'[c].file = call[c].file
                 /\ call'[c].watched
            ELSE /\ call'[c].at = "none" /\ call'[c].kind = "load" /\ call'[c].job = NoJob
                 /\ call'[c].reply = "none"
<1>1. call \in [Calls -> CallType]
  BY DEF TypeOK, CallType
<1>2. CASE call[c].watched
  <2>1. call' = [call EXCEPT ![c] = [call[c] EXCEPT !.at = "answered", !.reply = reply,
                                                   !.job = job]]
    BY <1>2 DEF Answer
  <2> QED BY <1>1, <1>2, <2>1 DEF CallType
<1>3. CASE ~call[c].watched
  <2>1. call' = [call EXCEPT ![c] = NoCall]
    BY <1>3 DEF Answer
  <2>2. NoCall.at = "none" /\ NoCall.kind = "load" /\ NoCall.job = NoJob /\ NoCall.reply = "none"
    BY DEF NoCall
  <2> QED BY <1>1, <1>3, <2>1, <2>2, NoCallTyped
<1> QED BY <1>2, <1>3

(* An answer is good that tells the truth about the one job it is about.   *)
LEMMA AnswerIsGood ==
  ASSUME Good, NEW c \in Calls, NEW reply \in Replies, NEW job \in Jobs \cup {NoJob},
         Answer(c, reply, job), call[c].at # "none", page' = page,
         status' \in [Jobs -> Statuses \cup {"absent"}],
         evidence' \subseteq Messages, map' \subseteq Messages, unwatched' \subseteq Jobs,
         job \in Jobs <=> \/ call[c].kind = "poll" /\ reply # "error"
                          \/ call[c].kind \in {"demo", "import"} /\ reply = "ok",
         call[c].kind = "poll" /\ reply \in {"completed", "failed"} =>
           status'[job] \notin {"queued", "running"},
         \A d \in Calls : d # c /\ call[d].job \in Jobs /\ ~Active(call[d].job) =>
           status'[call[d].job] \notin {"queued", "running"},
         \A j \in Jobs \ unwatched' : status'[j] \in {"queued", "running"} =>
           \/ j = job /\ call[c].watched
           \/ \E d \in Calls : d # c /\ call[d].watched /\ call[d].job = j
  PROVE  Good'
<1> USE DEF Good, ClientInvariant
<1>1. /\ call' \in [Calls -> CallType]
      /\ \A d \in Calls : d # c => call'[d] = call[d]
      /\ IF call[c].watched
         THEN /\ call'[c].at = "answered" /\ call'[c].reply = reply /\ call'[c].job = job
              /\ call'[c].kind = call[c].kind /\ call'[c].file = call[c].file
              /\ call'[c].watched
         ELSE /\ call'[c].at = "none" /\ call'[c].kind = "load" /\ call'[c].job = NoJob
              /\ call'[c].reply = "none"
  BY AnswerReceived
<1>2. TypeOK'
  BY <1>1 DEF TypeOK, CallType
<1>3. PreviewsSound'
  BY <1>1 DEF PreviewsSound, Previewing
<1>4. PollsSound'
  <2> SUFFICES ASSUME NEW d \in Calls
               PROVE  /\ call'[d].at = "none" => call'[d].kind = "load"
                      /\ call'[d].at # "answered" => call'[d].reply = "none"
                      /\ call'[d].at = "erasing" => call'[d].kind = "erase"
                      /\ call'[d].at = "waiting" => call'[d].kind = "poll"
                      /\ call'[d].job \in Jobs <=> KnowsJob(d)'
                      /\ call'[d].kind = "poll" /\ call'[d].reply \in {"completed", "failed"}
                           => status'[call'[d].job] \notin {"queued", "running"}
    BY DEF PollsSound, Active
  <2>1. CASE d = c
    <3>1. CASE call[c].watched
      <4>1. /\ call'[c].at = "answered" /\ call'[c].reply = reply /\ call'[c].job = job
            /\ call'[c].kind = call[c].kind
        BY <1>1, <3>1
      <4>2. job \in Jobs <=> KnowsJob(c)'
        BY <4>1 DEF KnowsJob
      <4> QED BY <2>1, <4>1, <4>2
    <3>2. CASE ~call[c].watched
      BY <1>1, <2>1, <3>2, NoJobAssumption DEF KnowsJob
    <3> QED BY <3>1, <3>2
  <2>2. CASE d # c
    BY <1>1, <2>2 DEF PollsSound, KnowsJob
  <2> QED BY <2>1, <2>2
<1>5. ImportIsPreviewed'
  BY DEF ImportIsPreviewed
<1>6. ActiveJobsAreWatched'
  BY <1>1 DEF ActiveJobsAreWatched, Active
<1>7. LoadingIsAwaited'
  BY <1>1 DEF LoadingIsAwaited
<1> QED BY <1>2, <1>3, <1>4, <1>5, <1>6, <1>7

LEMMA ServeIsGood ==
  ASSUME Good, NEW c \in Calls, Serve(c)
  PROVE  Good'
<1> USE DEF Good, ClientInvariant
<1>1. ASSUME NEW reply \in Replies, NEW job \in Jobs \cup {NoJob}, Answer(c, reply, job),
             call[c].at # "none", UNCHANGED <<boardVars, page, unwatched>>,
             job = call[c].job,
             job \in Jobs <=> \/ call[c].kind = "poll" /\ reply # "error"
                              \/ call[c].kind \in {"demo", "import"} /\ reply = "ok",
             call[c].kind = "poll" /\ reply \in {"completed", "failed"} =>
               status[job] \notin {"queued", "running"}
      PROVE  Good'
  <2>1. /\ status' = status /\ status \in [Jobs -> Statuses \cup {"absent"}]
        /\ evidence' \subseteq Messages /\ map' \subseteq Messages
        /\ unwatched' = unwatched /\ unwatched \subseteq Jobs /\ page' = page
    BY <1>1 DEF TypeOK, boardVars
  <2>2. ASSUME NEW j \in Jobs \ unwatched, status[j] \in {"queued", "running"}
        PROVE  \/ j = job /\ call[c].watched
               \/ \E d \in Calls : d # c /\ call[d].watched /\ call[d].job = j
    BY <1>1, <2>2 DEF ActiveJobsAreWatched, Active
  <2>3. \A d \in Calls : d # c /\ call[d].job \in Jobs /\ ~Active(call[d].job) =>
           status'[call[d].job] \notin {"queued", "running"}
    BY <2>1 DEF Active
  <2> QED BY <1>1, <2>1, <2>2, <2>3, AnswerIsGood
<1>2. CASE ServeLoad(c) \/ ServePreview(c)
  <2>1. PICK reply \in {"empty", "map", "ok"} : Answer(c, reply, NoJob)
    BY <1>2 DEF ServeLoad, ServePreview
  <2>2. /\ call[c].at = "sent" /\ call[c].kind \in {"load", "preview"}
        /\ UNCHANGED <<boardVars, page, unwatched>>
    BY <1>2 DEF ServeLoad, ServePreview, Sent
  <2>3. call[c].job = NoJob
    BY <2>2 DEF PollsSound, KnowsJob, TypeOK
  <2> QED BY <1>1, <2>1, <2>2, <2>3, NoJobAssumption DEF Replies
<1>3. CASE ServePoll(c)
  <2>1. /\ Answer(c, status[call[c].job], call[c].job) /\ call[c].at = "sent"
        /\ call[c].kind = "poll" /\ status[call[c].job] # "absent"
        /\ UNCHANGED <<boardVars, page, unwatched>>
    BY <1>3 DEF ServePoll, Sent
  <2>2. call[c].job \in Jobs
    BY <2>1 DEF PollsSound, KnowsJob
  <2>3. status[call[c].job] \in Statuses
    BY <2>1, <2>2 DEF TypeOK
  <2> QED BY <1>1, <2>1, <2>2, <2>3 DEF Statuses, Replies
<1>4. ASSUME NEW j \in Jobs, ServeStart(c, j) PROVE Good'
  <2>1. /\ Answer(c, "ok", j) /\ call[c].at = "sent" /\ call[c].kind \in {"demo", "import"}
        /\ page' = page /\ status' = [status EXCEPT ![j] = "queued"]
        /\ UNCHANGED <<evidence, map>> /\ Idle /\ IsNew(j)
        /\ unwatched' = IF call[c].watched THEN unwatched \ {j} ELSE unwatched \cup {j}
    BY <1>4 DEF ServeStart, Sent, Submit
  <2>2. \A i \in Jobs : status'[i] = IF i = j THEN "queued" ELSE status[i]
    BY <2>1 DEF TypeOK
  <2>3. \A i \in Jobs : status[i] \notin {"queued", "running"}
    BY <2>1 DEF Idle
  <2>4. /\ status' \in [Jobs -> Statuses \cup {"absent"}] /\ unwatched' \subseteq Jobs
        /\ evidence' \subseteq Messages /\ map' \subseteq Messages
    BY <2>1 DEF TypeOK, Statuses
  <2>5. \A d \in Calls : d # c /\ call[d].job \in Jobs =>
          status'[call[d].job] \notin {"queued", "running"}
    BY <2>1, <2>2, <2>3 DEF IsNew
  <2>6. \A i \in Jobs \ unwatched' : status'[i] \in {"queued", "running"} =>
          i = j /\ call[c].watched
    BY <2>1, <2>2, <2>3
  <2> QED BY <2>1, <2>4, <2>5, <2>6, AnswerIsGood DEF Replies
<1>5. CASE ServeErase(c)
  <2>1. /\ call' = [call EXCEPT ![c].at = "erasing"] /\ call[c].at = "sent"
        /\ call[c].kind = "erase" /\ evidence' = {} /\ map' = {}
        /\ UNCHANGED <<status, page, unwatched>>
    BY <1>5 DEF ServeErase, Sent, Erase
  <2>2. /\ call'[c].at = "erasing" /\ call'[c].kind = "erase" /\ call'[c].job = call[c].job
        /\ call'[c].reply = call[c].reply /\ call'[c].watched = call[c].watched
        /\ \A d \in Calls : d # c => call'[d] = call[d]
    BY <2>1 DEF TypeOK
  <2>3. TypeOK'
    BY <2>1 DEF TypeOK
  <2>4. PreviewsSound' /\ PollsSound'
    BY <2>1, <2>2 DEF PreviewsSound, Previewing, PollsSound, KnowsJob, Active
  <2>5. ImportIsPreviewed' /\ ActiveJobsAreWatched' /\ LoadingIsAwaited'
    BY <2>1, <2>2 DEF ImportIsPreviewed, ActiveJobsAreWatched, LoadingIsAwaited, Active
  <2> QED BY <2>3, <2>4, <2>5
<1>6. CASE ServeForget(c)
  <2>1. /\ Answer(c, "ok", NoJob) /\ call[c].at = "erasing" /\ page' = page
        /\ status' = AllAbsent /\ UNCHANGED <<evidence, map, unwatched>>
    BY <1>6 DEF ServeForget, Forget
  <2>2. \A j \in Jobs : status'[j] = "absent"
    BY <2>1 DEF AllAbsent
  <2>3. /\ status' \in [Jobs -> Statuses \cup {"absent"}] /\ unwatched' \subseteq Jobs
        /\ evidence' \subseteq Messages /\ map' \subseteq Messages
    BY <2>1 DEF TypeOK, AllAbsent
  <2>4. call[c].kind = "erase"
    BY <2>1 DEF PollsSound
  <2> QED BY <2>1, <2>2, <2>3, <2>4, AnswerIsGood, NoJobAssumption DEF Replies
<1> QED BY <1>2, <1>3, <1>4, <1>5, <1>6 DEF Serve

LEMMA FailIsGood ==
  ASSUME Good, NEW c \in Calls, Fail(c)
  PROVE  Good'
<1> USE DEF Good, ClientInvariant
<1>1. /\ Answer(c, "error", NoJob) /\ call[c].at # "none"
      /\ unwatched' = unwatched \cup {j \in Jobs : j = call[c].job /\ Active(j)}
      /\ UNCHANGED <<status, evidence, map, page>>
  BY DEF Fail, boardVars
<1>2. /\ status' \in [Jobs -> Statuses \cup {"absent"}] /\ unwatched' \subseteq Jobs
      /\ evidence' \subseteq Messages /\ map' \subseteq Messages
  BY <1>1 DEF TypeOK
<1>3. ASSUME NEW j \in Jobs \ unwatched', status'[j] \in {"queued", "running"}
      PROVE  \E d \in Calls : d # c /\ call[d].watched /\ call[d].job = j
  <2>1. j \notin unwatched /\ Active(j) /\ j # call[c].job
    BY <1>1, <1>3 DEF Active
  <2> QED BY <2>1 DEF ActiveJobsAreWatched
<1>4. \A d \in Calls : d # c /\ call[d].job \in Jobs /\ ~Active(call[d].job) =>
        status'[call[d].job] \notin {"queued", "running"}
  BY <1>1 DEF Active
<1> QED BY <1>1, <1>2, <1>3, <1>4, AnswerIsGood, NoJobAssumption DEF Replies

LEMMA BackgroundIsGood == Good /\ Background => Good'
<1> SUFFICES ASSUME Good, Background PROVE Good'
  OBVIOUS
<1> USE DEF Good, ClientInvariant
<1>1. /\ UNCHANGED <<page, call>>
      /\ unwatched' = {j \in unwatched : status'[j] \in {"queued", "running"}}
  BY DEF Background, Active
<1> DEFINE Kept ==
      /\ status' \in [Jobs -> Statuses \cup {"absent"}]
      /\ evidence' \subseteq Messages /\ map' \subseteq Messages
      /\ \A j \in Jobs :
           status'[j] \in {"queued", "running"} => status[j] \in {"queued", "running"}
<1>2. Kept
  <2>1. CASE Restart
    BY <2>1 DEF Restart, AllAbsent, TypeOK
  <2>2. ASSUME NEW j \in Jobs, Run(j) \/ Finish(j) PROVE Kept
    BY <2>2 DEF Run, Finish, TypeOK, Statuses
  <2>3. ASSUME NEW j \in Jobs, Import(j) \/ Show(j) PROVE Kept
    BY <2>3 DEF Import, Show, TypeOK
  <2> QED BY <2>1, <2>2, <2>3 DEF Background, Work
<1>3. TypeOK'
  BY <1>1, <1>2 DEF TypeOK
<1>4. PreviewsSound' /\ ImportIsPreviewed' /\ LoadingIsAwaited'
  BY <1>1 DEF PreviewsSound, Previewing, ImportIsPreviewed, LoadingIsAwaited
<1>5. PollsSound'
  BY <1>1, <1>2 DEF PollsSound, KnowsJob, Active
<1>6. ActiveJobsAreWatched'
  BY <1>1, <1>2 DEF ActiveJobsAreWatched, Active
<1> QED BY <1>3, <1>4, <1>5, <1>6
-----------------------------------------------------------------------------
(* A handler that resumes is good if it ends or polls on, keeps its job    *)
(* unless that is over, and leaves what the user reads of a preview alone. *)
LEMMA MoveIsGood ==
  ASSUME Good, NEW c \in Calls, NEW r \in CallType, call' = [call EXCEPT ![c] = r],
         UNCHANGED <<boardVars, unwatched>>,
         page' \in [view : {"loading", "onboarding", "dashboard"}, step : 1..3,
                    enabled : SUBSET {"preview", "demo", "import"},
                    path : {page.path}, rendered : Files \cup {NoFile}],
         r.kind \in {"load", "poll"}, r.reply = "none", r.at \in {"none", "sent", "waiting"},
         r.at = "none" => r.kind = "load", r.at = "waiting" => r.kind = "poll",
         r.job \in Jobs <=> r.kind = "poll",
         call[c].job \in Jobs /\ Active(call[c].job) =>
           r.job = call[c].job /\ (call[c].watched => r.watched),
         \A d \in Calls : d # c /\ Previewing(d) =>
           "preview" \notin page'.enabled /\ page'.step # 2,
         page'.step = 2 => page.path = page'.rendered,
         page'.view = "loading" => page.view = "loading" /\ call[c].kind # "load"
  PROVE  Good'
<1> USE DEF Good, ClientInvariant
<1>1. call'[c] = r /\ (\A d \in Calls : d # c => call'[d] = call[d]) /\ call' \in [Calls -> CallType]
  BY DEF TypeOK, CallType
<1>2. status' = status /\ unwatched' = unwatched /\ page'.path = page.path
  BY DEF boardVars
<1>3. TypeOK'
  BY <1>1, <1>2 DEF TypeOK, CallType, boardVars
<1>4. PreviewsSound'
  BY <1>1, <1>2 DEF PreviewsSound, Previewing
<1>5. PollsSound'
  BY <1>1, <1>2 DEF PollsSound, KnowsJob, Active
<1>6. ImportIsPreviewed' /\ LoadingIsAwaited'
  BY <1>1, <1>2 DEF ImportIsPreviewed, LoadingIsAwaited
<1>7. ActiveJobsAreWatched'
  BY <1>1, <1>2 DEF ActiveJobsAreWatched, Active
<1> QED BY <1>3, <1>4, <1>5, <1>6, <1>7

(* The two ways to go on without the call: nothing, and to load the map.   *)
LEMMA RepliesLeave ==
  /\ NoCall \in CallType /\ NoCall.kind = "load" /\ NoCall.reply = "none"
  /\ NoCall.at = "none" /\ NoCall.job = NoJob
  /\ Request("load", NoFile, NoJob) \in CallType
  /\ Request("load", NoFile, NoJob).kind = "load" /\ Request("load", NoFile, NoJob).reply = "none"
  /\ Request("load", NoFile, NoJob).at = "sent" /\ Request("load", NoFile, NoJob).job = NoJob
BY DEF CallType, NoCall, Request, Replies

(* A handler may end if it knows no job, or its job is over.               *)
LEMMA EndIsGood ==
  ASSUME Good, NEW c \in Calls, End(c), UNCHANGED <<boardVars, unwatched>>,
         page' \in [view : {"loading", "onboarding", "dashboard"}, step : 1..3,
                    enabled : SUBSET {"preview", "demo", "import"},
                    path : {page.path}, rendered : Files \cup {NoFile}],
         ~KnowsJob(c),
         \A d \in Calls : d # c /\ Previewing(d) =>
           "preview" \notin page'.enabled /\ page'.step # 2,
         page'.step = 2 => page.path = page'.rendered,
         page'.view = "loading" => page.view = "loading" /\ call[c].kind # "load"
  PROVE  Good'
<1>1. call[c].job \notin Jobs
  BY DEF Good, ClientInvariant, PollsSound
<1> QED BY <1>1, MoveIsGood, RepliesLeave, NoJobAssumption DEF End

LEMMA ResumeIsGood ==
  ASSUME Good, NEW c \in Calls, Resume(c)
  PROVE  Good'
<1> USE DEF Good, ClientInvariant
<1>1. page \in [view : {"loading", "onboarding", "dashboard"}, step : 1..3,
                enabled : SUBSET {"preview", "demo", "import"},
                path : Files \cup {NoFile}, rendered : Files \cup {NoFile}]
  BY DEF TypeOK
<1>2. /\ \A d, e \in Calls : Previewing(d) /\ Previewing(e) => d = e
      /\ \A d \in Calls : Previewing(d) => "preview" \notin page.enabled /\ page.step # 2
      /\ page.step = 2 => page.path = page.rendered
  BY DEF PreviewsSound, ImportIsPreviewed
<1>3. CASE AfterLoad(c)
  <2>1. /\ page' \in [view : {"onboarding", "dashboard"}, step : {1, page.step},
                      enabled : {page.enabled}, path : {page.path}, rendered : {page.rendered}]
        /\ End(c) /\ call[c].kind = "load" /\ UNCHANGED <<boardVars, unwatched>>
    BY <1>1, <1>3 DEF AfterLoad, ShowSetup
  <2> QED BY <1>1, <1>2, <2>1, EndIsGood DEF KnowsJob
<1>4. CASE AfterPreview(c)
  <2>1. /\ Previewing(c) /\ End(c) /\ UNCHANGED <<boardVars, unwatched>>
    BY <1>4 DEF AfterPreview, Received, Previewing
  <2>2. call[c].file = page.path /\ page.step # 2
    BY <2>1 DEF PreviewsSound
  <2>3. /\ page' \in [view : {page.view}, step : 1 .. 3,
                      enabled : SUBSET {"preview", "demo", "import"},
                      path : {page.path}, rendered : Files \cup {NoFile}]
        /\ page'.step = 2 => page'.rendered = call[c].file
    <3>1. CASE call[c].reply = "ok"
      <4>1. page' = [page EXCEPT !.enabled = page.enabled \cup {"preview"}, !.step = 2,
                                 !.rendered = call[c].file]
        BY <1>4, <3>1 DEF AfterPreview
      <4>2. call[c].file \in Files \cup {NoFile}
        BY DEF TypeOK
      <4>3. page' = [view |-> page.view, step |-> 2,
                     enabled |-> page.enabled \cup {"preview"},
                     path |-> page.path, rendered |-> call[c].file]
        BY <1>1, <4>1
      <4> QED BY <1>1, <4>2, <4>3
    <3>2. CASE call[c].reply # "ok"
      <4>1. page' = [page EXCEPT !.enabled = page.enabled \cup {"preview"}]
        BY <1>4, <3>2 DEF AfterPreview
      <4> QED BY <1>1, <2>2, <4>1
    <3> QED BY <3>1, <3>2
  <2> QED BY <1>1, <1>2, <2>1, <2>2, <2>3, EndIsGood DEF KnowsJob, Previewing
<1>5. CASE AfterStart(c)
  <2> DEFINE r == Request("poll", NoFile, call[c].job)
  <2>1. /\ page' = [page EXCEPT !.step = 3] /\ call' = [call EXCEPT ![c] = r]
        /\ UNCHANGED <<boardVars, unwatched>> /\ call[c].kind \in {"demo", "import"}
        /\ KnowsJob(c)
    BY <1>5 DEF AfterStart, Received, KnowsJob
  <2>2. page' \in [view : {page.view}, step : {3}, enabled : {page.enabled},
                   path : {page.path}, rendered : {page.rendered}]
    BY <1>1, <2>1
  <2>3. call[c].job \in Jobs
    BY <2>1 DEF PollsSound
  <2>4. /\ r \in CallType /\ r.kind = "poll" /\ r.reply = "none" /\ r.at = "sent"
        /\ r.job = call[c].job /\ r.watched
    BY <2>3 DEF Request, CallType, Replies
  <2>5. /\ \A d \in Calls : d # c /\ Previewing(d) =>
             "preview" \notin page'.enabled /\ page'.step # 2
        /\ page'.step # 2 /\ page'.view = page.view /\ call[c].kind # "load"
        /\ page' \in [view : {"loading", "onboarding", "dashboard"}, step : 1..3,
                      enabled : SUBSET {"preview", "demo", "import"},
                      path : {page.path}, rendered : Files \cup {NoFile}]
    BY <1>1, <1>2, <2>1, <2>2
  <2> HIDE DEF r
  <2> QED BY <2>1, <2>3, <2>4, <2>5, MoveIsGood
<1>6. CASE AfterRefusal(c)
  <2>1. /\ page' = [page EXCEPT !.enabled = page.enabled \cup {call[c].kind}] /\ End(c)
        /\ UNCHANGED <<boardVars, unwatched>> /\ call[c].kind \in {"demo", "import"}
        /\ call[c].reply = "error"
    BY <1>6 DEF AfterRefusal, Received
  <2>2. PICK more \in {"demo", "import"} : page' = [page EXCEPT !.enabled = page.enabled \cup {more}]
    BY <2>1
  <2>3. page' \in [view : {page.view}, step : {page.step},
                   enabled : {page.enabled \cup {more}},
                   path : {page.path}, rendered : {page.rendered}]
    BY <1>1, <2>2
  <2> QED BY <1>1, <1>2, <2>1, <2>3, EndIsGood DEF KnowsJob
<1>7. CASE AfterErase(c)
  <2>1. /\ page' \in [view : {page.view, "onboarding"}, step : {page.step, 1},
                      enabled : SUBSET page.enabled, path : {page.path},
                      rendered : {page.rendered}]
        /\ End(c) /\ call[c].kind = "erase" /\ UNCHANGED <<boardVars, unwatched>>
    BY <1>1, <1>7 DEF AfterErase, Received
  <2> QED BY <1>1, <1>2, <2>1, EndIsGood DEF KnowsJob
<1>8. ASSUME NEW r \in CallType, call' = [call EXCEPT ![c] = r], call[c].kind = "poll",
             UNCHANGED <<boardVars, page, unwatched>>,
             r.reply = "none", r.at \in {"none", "sent", "waiting"},
             r.at = "none" => r.kind = "load", r.at = "waiting" => r.kind = "poll",
             r.kind \in {"load", "poll"}, r.job \in Jobs <=> r.kind = "poll",
             call[c].job \in Jobs /\ Active(call[c].job) =>
               r.job = call[c].job /\ (call[c].watched => r.watched)
      PROVE  Good'
  <2>1. page' \in [view : {"loading", "onboarding", "dashboard"}, step : 1..3,
                   enabled : SUBSET {"preview", "demo", "import"},
                   path : {page.path}, rendered : Files \cup {NoFile}]
    BY <1>1, <1>8
  <2> QED BY <1>2, <1>8, <2>1, MoveIsGood
<1>9. \A d \in Calls : call[d] \in CallType
  BY DEF TypeOK, CallType
<1>10. CASE AfterPoll(c)
  <2> DEFINE again == [call[c] EXCEPT !.at = "waiting", !.reply = "none"]
  <2>1. /\ call[c].kind = "poll" /\ call[c].at = "answered"
        /\ call[c].reply \in Statuses \cup {"error"}
        /\ UNCHANGED <<boardVars, page, unwatched>>
    BY <1>10 DEF AfterPoll, Received
  <2>2. CASE call[c].reply \in {"queued", "running"}
    <3>1. call' = [call EXCEPT ![c] = again]
      BY <1>10, <2>2 DEF AfterPoll
    <3>2. /\ again \in CallType /\ again.kind = "poll" /\ again.at = "waiting"
          /\ again.reply = "none" /\ again.job = call[c].job /\ again.watched = call[c].watched
      BY <1>9, <2>1 DEF CallType, Replies
    <3>3. call[c].job \in Jobs
      BY <2>1, <2>2 DEF PollsSound, KnowsJob
    <3> QED BY <1>8, <2>1, <3>1, <3>2, <3>3
  <2>3. CASE call[c].reply \in {"completed", "failed", "error"}
    <3>1. PICK r \in {NoCall, Request("load", NoFile, NoJob)} : call' = [call EXCEPT ![c] = r]
      BY <1>10, <2>3 DEF AfterPoll
    <3>2. call[c].job \in Jobs => ~Active(call[c].job)
      BY <2>1, <2>3 DEF PollsSound, KnowsJob
    <3> QED BY <1>8, <2>1, <3>1, <3>2, RepliesLeave, NoJobAssumption
  <2> QED BY <2>1, <2>2, <2>3 DEF Statuses
<1>11. CASE Tick(c)
  <2> DEFINE again == [call[c] EXCEPT !.at = "sent"]
  <2>1. /\ call' = [call EXCEPT ![c] = again] /\ call[c].at = "waiting"
        /\ UNCHANGED <<boardVars, page, unwatched>>
    BY <1>11 DEF Tick
  <2>2. call[c].kind = "poll" /\ call[c].reply = "none" /\ call[c].job \in Jobs
    BY <2>1 DEF PollsSound, KnowsJob
  <2>3. /\ again \in CallType /\ again.kind = "poll" /\ again.at = "sent"
        /\ again.reply = "none" /\ again.job = call[c].job /\ again.watched = call[c].watched
    BY <1>9, <2>1, <2>2 DEF CallType
  <2> QED BY <1>8, <2>1, <2>2, <2>3
<1> QED BY <1>3, <1>4, <1>5, <1>6, <1>7, <1>10, <1>11 DEF Resume
-----------------------------------------------------------------------------
(* Every step of user, server, jobs and page keeps the types and the       *)
(* invariant of what is on screen, the calls under way and the jobs they   *)
(* know.                                                                   *)
THEOREM ClientInvariantHolds == ClientSpec => [](TypeOK /\ ClientInvariant)
<1>1. ClientInit => Good
  BY InitIsGood
<1>2. Good /\ [ClientNext]_vars => Good'
  <2>1. CASE ClientNext
    BY <2>1, UserIsGood, BackgroundIsGood, ServeIsGood, FailIsGood, ResumeIsGood
    DEF ClientNext, Progress
  <2>2. CASE UNCHANGED vars
    <3>1. UNCHANGED <<status, evidence, map, page, call, unwatched>>
      BY <2>2 DEF vars, boardVars, pageVars
    <3> QED BY <3>1
        DEF Good, ClientInvariant, TypeOK, PreviewsSound, Previewing, PollsSound, KnowsJob,
            ImportIsPreviewed, ActiveJobsAreWatched, LoadingIsAwaited, Active
  <2> QED BY <2>1, <2>2
<1> QED BY <1>1, <1>2, PTL DEF ClientSpec, Good

(* What the user agrees to import is the file whose preview is drawn:      *)
(* previewImport reads the path before its await and draws after it.       *)
THEOREM ImportsArePreviewed == ClientSpec => []ImportIsPreviewed
BY ClientInvariantHolds, PTL DEF ClientInvariant

(* Import, demo, refresh and erase may be clicked during a poll loop: some *)
(* handler still polls each active job, if no page or answer was lost.     *)
THEOREM ActiveJobsAreAlwaysWatched == ClientSpec => []ActiveJobsAreWatched
BY ClientInvariantHolds, PTL DEF ClientInvariant

(* loadTopology leaves the loading screen on every path.                   *)
THEOREM LoadingIsAlwaysAwaited == ClientSpec => []LoadingIsAwaited
BY ClientInvariantHolds, PTL DEF ClientInvariant
=============================================================================
