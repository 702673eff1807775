------------------------------- MODULE Browser -------------------------------
(***************************************************************************)
(* One browser tab on a service page of the frontend: the state a page     *)
(* keeps while it is mounted, the requests in flight between the tab and   *)
(* the gateway, and the query cache all pages share.                       *)
(*                                                                         *)
(* The gateway and the workers behind it are the task life cycle they      *)
(* promise (module TaskLifecycle, which Dedup implements).  A fingerprint  *)
(* is what a page submits: a content and the style it is processed with.   *)
(***************************************************************************)
EXTENDS Naturals, TaskLifecycle

CONSTANTS
  Content,    \* the files the user may choose and the texts the user may paste
  Style,      \* summary styles
  Nothing,    \* no content, no task
  MaxUploads  \* bound: submissions of one tab

ASSUME BrowserAssumption ==
  /\ Fingerprint = Content \X Style
  /\ FpOf \in [Task -> Fingerprint]
  /\ Nothing \notin Content \cup Task
  /\ "bullet_points" \in Style
  /\ MaxUploads \in Nat

VARIABLES
  elected,       \* the tasks that were elected owner of their fingerprint's lock
  page,          \* the service this tab works with
  form,          \* what the user has entered on it
  taskId,        \* the task the page follows
  documentId,    \* the document known to be indexed when it was accepted
  lastNotified,  \* the task whose outcome was announced last
  uploads,       \* submissions whose promise is not settled
  seen,          \* query cache: the last status received of each task
  failing,       \* query cache: whether the last poll of each task failed
  poll,          \* the poll of each task: none, sent, or its answer under way
  result,        \* query cache: the result of each task
  sent,          \* how many submissions were made (also their serial numbers)
  followed,      \* history: the submission that set taskId
  cutoff,        \* history: the last submission made before a reset or a mount
  told           \* history: how often the page announced the outcome of the task
                 \* it follows, since it came to follow it

serverVars == <<lifecycleVars, elected>>
pageVars   == <<form, taskId, documentId, lastNotified>>
uploadVars == <<uploads, sent>>
queryVars  == <<seen, failing, poll, result>>
ghosts     == <<followed, cutoff, told>>
vars       == <<serverVars, page, pageVars, uploadVars, queryVars, ghosts>>

Page     == {"scriber", "distiller", "gleaner"}
Terminal == {"completed", "failed"}
Known    == {"queued", "processing"} \cup Terminal

\* What the gateway answers to a submission it accepts, and no answer yet.
AcceptedStatus == {"queued", "processing", "completed"}
Accepted(t, s, hit) == [task |-> t, status |-> s, hit |-> hit]
Waiting == [task |-> Nothing, status |-> "absent", hit |-> FALSE]

EmptyForm == [content |-> Nothing, style |-> "bullet_points"]

On(p)     == page = p
IsPending == \E u \in uploads : u.live
Shown     == IF taskId = Nothing THEN "none" ELSE seen[taskId]
IsBusy    == IsPending \/ Shown \in {"queued", "processing"}

-----------------------------------------------------------------------------
\* A mutation starts: the request leaves with what the form holds now.
Mutate(content, style) ==
  /\ sent < MaxUploads
  /\ sent' = sent + 1
  /\ uploads' = uploads \cup {[serial |-> sent + 1, request |-> <<content, style>>,
                               live |-> TRUE, answer |-> Waiting]}

Answered(u, a) == uploads' = (uploads \ {u}) \cup {[u EXCEPT !.answer = a]}
Settle(u)      == uploads' = uploads \ {u}

\* The gateway registers the submission, completes it at once as an alias of a stored
\* artifact, or attaches it to the task that holds the lock of the fingerprint, which
\* its worker may just have completed.
Register(u, t) ==
  /\ u.answer = Waiting
  /\ FpOf[t] = u.request
  /\ \/ /\ Queue(t)
        /\ Answered(u, Accepted(t, "queued", FALSE))
        /\ elected' = elected \cup {t}
     \/ /\ Complete(t) /\ status[t] = "absent"
        /\ Answered(u, Accepted(t, "completed", TRUE))
        /\ UNCHANGED elected
     \/ /\ t \in elected
        /\ status[t] \in AcceptedStatus
        /\ Answered(u, Accepted(t, status[t], FALSE))
        /\ UNCHANGED serverVars
  /\ UNCHANGED <<page, pageVars, sent, queryVars, ghosts>>

\* The handlers of a page that is gone: setting its state has no effect.
SettleUnmounted(u) ==
  /\ ~u.live
  /\ Settle(u)
  /\ UNCHANGED <<serverVars, page, pageVars, sent, queryVars, ghosts>>

\* An HTTP error, an invalid payload, or an answer that never arrives, be the
\* submission registered or not; the page keeps what it shows.
Refused(p, u) ==
  /\ On(p)
  /\ u.live
  /\ Settle(u)
  /\ UNCHANGED <<serverVars, page, pageVars, sent, queryVars, ghosts>>

-----------------------------------------------------------------------------
\* A page that starts to follow a task fetches it at once, unless a fetch of it is
\* under way, and asks again for a result it could not get before.
Observe(t) ==
  IF t = taskId THEN UNCHANGED <<poll, failing, result>>
  ELSE /\ poll' = [poll EXCEPT ![t] = IF @ = "idle" THEN "sent" ELSE @]
       /\ failing' = [failing EXCEPT ![t] = @ /\ seen[t] # "none"]
       /\ result' = [result EXCEPT ![t] = IF @ = "error" THEN "none" ELSE @]

\* Mutant of SendPoll: the interval stops after an error.
SendPollUnlessFailing(t) ==
  /\ taskId = t
  /\ poll[t] = "idle"
  /\ seen[t] \notin Terminal
  /\ ~failing[t]
  /\ poll' = [poll EXCEPT ![t] = "sent"]
  /\ UNCHANGED <<serverVars, page, pageVars, uploadVars, seen, failing, result, ghosts>>

\* One fetch of a query at a time; polling goes on after an error and stops at
\* a terminal status.  A failed attempt is repeated once: a poll is answered by
\* its last attempt.  A query without data forgets its error when it fetches.
SendPoll(t) ==
  /\ taskId = t
  /\ poll[t] = "idle"
  /\ seen[t] \notin Terminal
  /\ poll' = [poll EXCEPT ![t] = "sent"]
  /\ failing' = [failing EXCEPT ![t] = @ /\ seen[t] # "none"]
  /\ UNCHANGED <<serverVars, page, pageVars, uploadVars, seen, result, ghosts>>

\* GetTaskState reads the record; the answer then travels.
AnswerPoll(t) ==
  /\ poll[t] = "sent"
  /\ poll' = [poll EXCEPT ![t] = status[t]]
  /\ UNCHANGED <<serverVars, page, pageVars, uploadVars, seen, failing, result, ghosts>>

\* Mutant of PollFails: the error replaces the data.
PollFailsForgetting(t) ==
  /\ poll[t] = "sent"
  /\ poll' = [poll EXCEPT ![t] = "idle"]
  /\ failing' = [failing EXCEPT ![t] = TRUE]
  /\ seen' = [seen EXCEPT ![t] = "none"]
  /\ UNCHANGED <<serverVars, page, pageVars, uploadVars, result, ghosts>>

\* Mutant of PollFails: the error is taken for a status.
PollFailsAsStatus(t) ==
  /\ poll[t] = "sent"
  /\ poll' = [poll EXCEPT ![t] = "idle"]
  /\ seen' = [seen EXCEPT ![t] = "error"]
  /\ UNCHANGED <<serverVars, page, pageVars, uploadVars, failing, result, ghosts>>

\* The record is gone or both attempts are lost: the error is kept beside the data
\* of the last successful poll.
PollFails(t) ==
  /\ poll[t] = "sent"
  /\ poll' = [poll EXCEPT ![t] = "idle"]
  /\ failing' = [failing EXCEPT ![t] = TRUE]
  /\ UNCHANGED <<serverVars, page, pageVars, uploadVars, seen, result, ghosts>>

\* The answer enters the query cache.
ReceiveTask(t) ==
  /\ poll[t] \in Known
  /\ seen' = [seen EXCEPT ![t] = poll[t]]
  /\ failing' = [failing EXCEPT ![t] = FALSE]
  /\ poll' = [poll EXCEPT ![t] = "idle"]
  /\ UNCHANGED <<serverVars, page, form, taskId, documentId, uploadVars, result,
                 followed, cutoff>>

\* How often the outcome of t was announced since the page came to follow it.
Told(t) == IF t = taskId THEN told ELSE 0

\* The effect that announces an outcome runs when the page's task data changed.
Announce(t) ==
  /\ lastNotified' = t
  /\ told' = Told(t) + 1

-----------------------------------------------------------------------------
\* Mutant of FetchResult: only until the outcome is announced.
FetchResultUnannounced(p) ==
  /\ On(p)
  /\ Shown = "completed"
  /\ lastNotified # taskId
  /\ result[taskId] = "none"
  /\ result' = [result EXCEPT ![taskId] = "sent"]
  /\ UNCHANGED <<serverVars, page, pageVars, uploadVars, seen, failing, poll, ghosts>>

\* The result of a completed task, fetched while the page shows it completed (status and
\* result_url are written in one HSET).
FetchResult(p) ==
  /\ On(p)
  /\ Shown = "completed"
  /\ result[taskId] = "none"
  /\ result' = [result EXCEPT ![taskId] = "sent"]
  /\ UNCHANGED <<serverVars, page, pageVars, uploadVars, seen, failing, poll, ghosts>>

\* GetTaskResult serves the object of a live record; both attempts may fail.
ResultArrives(t) ==
  /\ result[t] = "sent"
  /\ \E r \in {"error"} \cup IF FpOf[t] \in stored THEN {"ready"} ELSE {} :
       result' = [result EXCEPT ![t] = r]
  /\ UNCHANGED <<serverVars, page, pageVars, uploadVars, seen, failing, poll, ghosts>>

-----------------------------------------------------------------------------
\* The user follows links, away from the page and back to it: its state is lost, the
\* query cache and the requests in flight are not.  What happens while the user is
\* elsewhere is what may happen while a page just mounted is left alone.
Remount ==
  /\ form' = EmptyForm
  /\ taskId' = Nothing
  /\ documentId' = Nothing
  /\ lastNotified' = Nothing
  /\ uploads' = {[u EXCEPT !.live = FALSE] : u \in uploads}
  /\ followed' = 0
  /\ cutoff' = sent
  /\ told' = 0
  /\ UNCHANGED <<serverVars, page, sent, queryVars>>

-----------------------------------------------------------------------------
\* The system behind the gateway: the life cycle of the tasks it accepted.
ServerMoves(t) ==
  /\ \/ Start(t)
     \/ status[t] = "processing" /\ Store(FpOf[t]) /\ FpOf[t] \notin stored
     \/ status[t] # "absent" /\ Complete(t)
     \/ Fail(t)
  /\ UNCHANGED <<elected, page, pageVars, uploadVars, queryVars, ghosts>>

BrowserInit ==
  /\ LifecycleInit
  /\ elected = {}
  /\ page \in Page
  /\ form = EmptyForm
  /\ taskId = Nothing
  /\ documentId = Nothing
  /\ lastNotified = Nothing
  /\ uploads = {}
  /\ seen = [t \in Task |-> "none"]
  /\ failing = [t \in Task |-> FALSE]
  /\ poll = [t \in Task |-> "idle"]
  /\ result = [t \in Task |-> "none"]
  /\ sent = 0
  /\ followed = 0
  /\ cutoff = 0
  /\ told = 0
=============================================================================
