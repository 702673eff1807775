---------------------------- MODULE AnswerStream ----------------------------
(***************************************************************************)
(* A conversation about an indexed document, end to end: phase 2 of the    *)
(* Gleaner page, the gateway's relay (StreamQA), Redis Pub/Sub, and the    *)
(* worker that answers the question after the jobs of the other queues.    *)
(*                                                                         *)
(* Questions are numbered in the order they are asked, each with its own   *)
(* assistant message, stream and controller.  Of an answer only the order  *)
(* of its tokens is kept: they are numbered from 1.                        *)
(***************************************************************************)
EXTENDS Integers, Sequences, SequencesExt, FiniteSetsExt

CONSTANTS
  MaxQuestions,  \* bound: questions asked in one tab
  MaxTokens,     \* bound: tokens of one answer
  MaxIngestion,  \* bound: jobs that arrive on the other queues
  Nobody,        \* no question: an absent controller, an idle worker
  MaxFaults,     \* bound: faults of one behaviour
  Faults         \* the faults that may occur, a subset of FaultKind

(***************************************************************************)
(* lateSubscription  Redis handles SUBSCRIBE after commands sent later on  *)
(*                   other connections: go-redis does not await its reply  *)
(* documentExpiry    the document's task record reaches its time to live   *)
(* redisError        a Redis command of StreamQA returns an error          *)
(* cut               the connection of the tab to the gateway breaks       *)
(* taskFailure       process_qa_task raises, or marking it completed does  *)
(* workerError       the except clause raises: the process ends            *)
(* workerCrash       the worker dies and is restarted                      *)
(***************************************************************************)
FaultKind == {"lateSubscription", "documentExpiry", "redisError", "cut", "taskFailure",
              "workerError", "workerCrash"}

Question == 1 .. MaxQuestions

ASSUME StreamAssumption ==
  /\ MaxQuestions \in Nat
  /\ MaxTokens \in Nat \ {0}
  /\ {MaxIngestion, MaxFaults} \subseteq Nat
  /\ Nobody \notin Question
  /\ Faults \subseteq FaultKind

VARIABLES
  ready,        \* page: whether it has a document to ask about
  isStreaming,  \* page: whether it waits for an answer
  controller,   \* page: the question abortControllerRef belongs to
  listed,       \* page: the questions in the list of messages
  messages,     \* page: the content of each assistant message
  call,         \* each streamGleanAnswer: none, open, or how it ended
  aborted,      \* the open calls whose signal is aborted
  left,         \* the open calls of a page that is gone
  wire,         \* gateway to tab: what is sent and not yet read
  document,     \* whether the document's task record is still there
  relay,        \* where the StreamQA of each question stands
  subscribed,   \* the subscription to each stream: none, sent, active
  inbox,        \* Pub/Sub to relay: what is delivered and not yet relayed
  queue,        \* lexos:queue:gleaner:ask
  ingestion,    \* how many jobs wait on the other queues
  arrivals,     \* how many arrived there so far
  job,          \* the question the worker has popped
  wstep,        \* where the worker stands
  produced,     \* how many tokens of the popped question it has published
  faults,       \* how many faults have occurred
  published,    \* history: what was published on the stream of each listed message
  missed,       \* history: how much of it preceded a late subscription
  lost          \* history: the questions whose [DONE] can no longer arrive

pageVars    == <<ready, isStreaming, controller, listed, messages>>
callVars    == <<call, aborted, left, wire>>
gatewayVars == <<document, relay, subscribed, inbox>>
jobVars     == <<queue, ingestion, arrivals, job, wstep, produced>>
ghosts      == <<published, missed, lost>>
vars        == <<pageVars, callVars, gatewayVars, jobVars, faults, ghosts>>

Occurs(f) == f \in Faults /\ faults < MaxFaults /\ faults' = faults + 1

\* What travels besides tokens: the text of a failed task, [DONE], the end of a
\* connection or an HTTP error, and the text the page puts into an empty message.
Failure == MaxTokens + 1
Done    == MaxTokens + 2
Broken  == MaxTokens + 3
Apology == MaxTokens + 4

Token == 1 .. Failure

-----------------------------------------------------------------------------
\* The tab.

\* ask: a question gets its messages, its controller and its request.
Ask(q) ==
  /\ ready
  /\ ~isStreaming
  /\ call[q] = "none"
  /\ \A r \in Question : r < q => call[r] # "none"
  /\ listed' = listed \cup {q}
  /\ isStreaming' = TRUE
  /\ controller' = q
  /\ call' = [call EXCEPT ![q] = "open"]
  /\ relay' = [relay EXCEPT ![q] = "lookup"]
  /\ UNCHANGED <<ready, messages, aborted, left, wire, document, subscribed, inbox, jobVars, faults, ghosts>>

\* The finally clause; that of a page which is gone changes nothing.
Ends(q, how) ==
  /\ call' = [call EXCEPT ![q] = how]
  /\ wire' = [wire EXCEPT ![q] = <<>>]
  /\ aborted' = aborted \ {q}
  /\ left' = left \ {q}
  /\ IF q \in left
       THEN UNCHANGED <<isStreaming, controller>>
       ELSE isStreaming' = FALSE /\ controller' = Nobody
  /\ UNCHANGED <<ready, listed, gatewayVars, jobVars, faults, ghosts>>

\* Mutant: the signal is not given to fetch.
ReadsDespiteAbort(q, S) ==
  /\ call[q] = "open"
  /\ wire[q] # <<>>
  /\ Head(wire[q]) \in S

Reads(q, S) ==
  /\ call[q] = "open"
  /\ q \notin aborted
  /\ wire[q] # <<>>
  /\ Head(wire[q]) \in S

\* onToken appends to the message of its question, if it is still listed.
ShowToken(q) ==
  /\ Reads(q, Token)
  /\ messages' = IF q \in listed
                   THEN [messages EXCEPT ![q] = Append(@, Head(wire[q]))]
                   ELSE messages
  /\ wire' = [wire EXCEPT ![q] = Tail(@)]
  /\ UNCHANGED <<ready, isStreaming, controller, listed, call, aborted, left, gatewayVars,
                 jobVars, faults, ghosts>>

Finish(q) ==
  /\ Reads(q, {Done})
  /\ Ends(q, "answered")
  /\ UNCHANGED messages

\* The catch clause: an empty message is filled with an apology.
ShowError(q) ==
  /\ Reads(q, {Broken})
  /\ Ends(q, "failed")
  /\ messages' = IF q \in listed /\ messages[q] = <<>>
                   THEN [messages EXCEPT ![q] = <<Apology>>] ELSE messages

\* The AbortError reaches the call.
ShowStopped(q) ==
  /\ call[q] = "open"
  /\ q \in aborted
  /\ Ends(q, "stopped")
  /\ UNCHANGED messages

Abort == aborted' = aborted \cup ({controller} \ {Nobody})

StopStreaming ==
  /\ isStreaming
  /\ Abort
  /\ UNCHANGED <<pageVars, call, left, wire, gatewayVars, jobVars, faults, ghosts>>

\* The list of messages is emptied, and the history with it.
Forget ==
  /\ listed' = {}
  /\ messages' = [q \in Question |-> <<>>]
  /\ published' = [q \in Question |-> <<>>]
  /\ missed' = [q \in Question |-> 0]
  /\ UNCHANGED lost

\* Mutant: Reset lets the user ask again before the aborted call has ended.
ResetAndUnlock ==
  /\ ready
  /\ Abort
  /\ ready' = FALSE
  /\ isStreaming' = FALSE
  /\ Forget
  /\ UNCHANGED <<controller, call, left, wire, gatewayVars, jobVars, faults>>

\* "New document": isStreaming and the controller stay until the call has ended.
Reset ==
  /\ ready
  /\ Abort
  /\ ready' = FALSE
  /\ Forget
  /\ UNCHANGED <<isStreaming, controller, call, left, wire, gatewayVars, jobVars, faults>>

\* Phase 1 ends with an indexed document, whose task record is new.
DocumentReady ==
  /\ ~ready
  /\ ready' = TRUE
  /\ document' = TRUE
  /\ UNCHANGED <<isStreaming, controller, listed, messages, callVars, relay, subscribed, inbox,
                 jobVars, faults, ghosts>>

\* The page is unmounted, which aborts its stream, and mounted again.
Remount ==
  /\ Abort
  /\ left' = {q \in Question : call[q] = "open"}
  /\ ready' = FALSE
  /\ isStreaming' = FALSE
  /\ controller' = Nobody
  /\ Forget
  /\ UNCHANGED <<call, wire, gatewayVars, jobVars, faults>>

-----------------------------------------------------------------------------
\* The gateway.
ClientGone(q) == call[q] # "open" \/ q \in aborted \/ Contains(wire[q], Broken)

\* What is written to a connection that is gone reaches nobody.
Send(q, m) == wire' = IF ClientGone(q) THEN wire ELSE [wire EXCEPT ![q] = Append(@, m)]

Close(q)   == /\ relay' = [relay EXCEPT ![q] = "closed"]
              /\ subscribed' = [subscribed EXCEPT ![q] = "none"]
              /\ inbox' = [inbox EXCEPT ![q] = <<>>]

\* Mutant: the job is pushed first.
AfterPushFirst == [lookup |-> "push", push |-> "subscribe", subscribe |-> "relay"]

\* The order StreamQA works in.
After == [lookup |-> "subscribe", subscribe |-> "push", push |-> "relay"]

Handler(q, step) ==
  /\ relay[q] = step
  /\ relay' = [relay EXCEPT ![q] = After[step]]

\* The document's record is read; the question's is written.
RegisterQuestion(q) ==
  /\ relay[q] = "lookup"
  /\ IF document THEN Handler(q, "lookup") /\ UNCHANGED <<wire, subscribed, inbox>>
                 ELSE Close(q) /\ Send(q, Broken)
  /\ UNCHANGED <<pageVars, call, aborted, left, document, jobVars, faults, ghosts>>

Subscribe(q) ==
  /\ Handler(q, "subscribe")
  /\ \/ subscribed' = [subscribed EXCEPT ![q] = "active"] /\ UNCHANGED faults
     \/ subscribed' = [subscribed EXCEPT ![q] = "sent"] /\ Occurs("lateSubscription")
  /\ UNCHANGED <<pageVars, callVars, document, inbox, jobVars, ghosts>>

SubscriptionTakesEffect(q) ==
  /\ subscribed[q] = "sent"
  /\ subscribed' = [subscribed EXCEPT ![q] = "active"]
  /\ UNCHANGED <<pageVars, callVars, document, relay, inbox, jobVars, faults, ghosts>>

PushQuestion(q) ==
  /\ Handler(q, "push")
  /\ queue' = Append(queue, q)
  /\ UNCHANGED <<pageVars, callVars, document, subscribed, inbox, ingestion, arrivals, job,
                 wstep, produced, faults, ghosts>>

\* Registering or pushing fails: HTTP 500, and a failed record when it can be written.
CommandFails(q) ==
  /\ Occurs("redisError")
  /\ relay[q] \in {"lookup", "push"}
  /\ Close(q)
  /\ Send(q, Broken)
  /\ UNCHANGED <<pageVars, call, aborted, left, document, jobVars, ghosts>>

\* The relay loop: each message is framed and flushed, [DONE] ends the response.
RelayMessage(q) ==
  /\ relay[q] = "relay"
  /\ inbox[q] # <<>>
  /\ Send(q, Head(inbox[q]))
  /\ IF Head(inbox[q]) = Done
       THEN Close(q)
       ELSE inbox' = [inbox EXCEPT ![q] = Tail(@)] /\ UNCHANGED <<relay, subscribed>>
  /\ UNCHANGED <<pageVars, call, aborted, left, document, jobVars, faults, ghosts>>

\* Mutant: the client's absence is noticed only between messages.
ClientDoneAtMessage(q) ==
  /\ relay[q] \notin {"none", "closed"}
  /\ inbox[q] # <<>>
  /\ ClientGone(q)
  /\ Close(q)
  /\ UNCHANGED <<pageVars, callVars, document, jobVars, faults, ghosts>>

\* The request context is cancelled: its commands fail, its relay loop returns.
ClientDone(q) ==
  /\ relay[q] \notin {"none", "closed"}
  /\ ClientGone(q)
  /\ Close(q)
  /\ UNCHANGED <<pageVars, callVars, document, jobVars, faults, ghosts>>

Cut(q) ==
  /\ Occurs("cut")
  /\ call[q] = "open"
  /\ \E n \in 0 .. Len(wire[q]) :
       wire' = [wire EXCEPT ![q] = Append(SubSeq(@, 1, n), Broken)]
  /\ UNCHANGED <<pageVars, call, aborted, left, gatewayVars, jobVars, ghosts>>

DocumentExpires ==
  /\ Occurs("documentExpiry")
  /\ document
  /\ document' = FALSE
  /\ UNCHANGED <<pageVars, callVars, relay, subscribed, inbox, jobVars, ghosts>>

-----------------------------------------------------------------------------
\* The worker: one job at a time, BLPOP serves the other queues first.
IngestionArrives ==
  /\ arrivals < MaxIngestion
  /\ arrivals' = arrivals + 1
  /\ ingestion' = ingestion + 1
  /\ UNCHANGED <<pageVars, callVars, gatewayVars, queue, job, wstep, produced, faults, ghosts>>

\* Mutant: a BLPOP that timed out is taken for a job.
ServeIngestionAtTimeout ==
  /\ wstep = "idle"
  /\ ingestion' = ingestion - 1
  /\ UNCHANGED <<pageVars, callVars, gatewayVars, queue, arrivals, job, wstep, produced,
                 faults, ghosts>>

ServeIngestion ==
  /\ wstep = "idle"
  /\ ingestion > 0
  /\ ingestion' = ingestion - 1
  /\ UNCHANGED <<pageVars, callVars, gatewayVars, queue, arrivals, job, wstep, produced,
                 faults, ghosts>>

PopQuestion ==
  /\ wstep = "idle"
  /\ ingestion = 0
  /\ queue # <<>>
  /\ job' = Head(queue)
  /\ queue' = Tail(queue)
  /\ wstep' = "generate"
  /\ UNCHANGED <<pageVars, callVars, gatewayVars, ingestion, arrivals, produced, faults, ghosts>>

\* Mutant: one channel for all the questions about a document.
ListenersOfDocument(q) == {r \in Question : subscribed[r] = "active"}

\* A channel of its own for each question: PUBLISH reaches its active subscription.
Listeners(q) == {q} \cap {r \in Question : subscribed[r] = "active"}

Followed(q) == q \in listed /\ relay[q] # "closed"

Publish(q, m) ==
  /\ published' = IF Followed(q) THEN [published EXCEPT ![q] = Append(@, m)] ELSE published
  /\ inbox' = [r \in Question |->
                 IF r \in Listeners(q) THEN Append(inbox[r], m) ELSE inbox[r]]
  /\ IF Followed(q) /\ subscribed[q] = "sent"
       THEN /\ missed' = [missed EXCEPT ![q] = @ + 1]
            /\ lost' = IF m = Done THEN lost \cup {q} ELSE lost
       ELSE UNCHANGED <<missed, lost>>
  /\ UNCHANGED <<pageVars, callVars, document, relay, subscribed, queue, ingestion, arrivals,
                 faults>>

Working(step) == job # Nobody /\ wstep = step
Stop          == job' = Nobody /\ wstep' = "idle" /\ produced' = 0

PublishToken ==
  /\ Working("generate")
  /\ produced < MaxTokens
  /\ Publish(job, produced + 1)
  /\ produced' = produced + 1
  /\ UNCHANGED <<job, wstep>>

\* An answer is never empty: without a token the fallback text is published.
PublishDone ==
  /\ Working("generate")
  /\ produced > 0
  /\ Publish(job, Done)
  /\ wstep' = "complete"
  /\ UNCHANGED <<job, produced>>

MarkAnswered ==
  /\ Working("complete")
  /\ Stop
  /\ UNCHANGED <<pageVars, callVars, gatewayVars, queue, ingestion, arrivals, faults, ghosts>>

\* The except clause: the failed status, then the failure text and [DONE].
TaskRaises ==
  /\ Occurs("taskFailure")
  /\ job # Nobody
  /\ wstep \in {"generate", "complete"}
  /\ wstep' = "markFailed"
  /\ UNCHANGED <<pageVars, callVars, gatewayVars, queue, ingestion, arrivals, job, produced,
                 ghosts>>

MarkFailed ==
  /\ Working("markFailed")
  /\ wstep' = "failure"
  /\ UNCHANGED <<pageVars, callVars, gatewayVars, queue, ingestion, arrivals, job, produced,
                 faults, ghosts>>

\* Mutant: the failure is published without [DONE].
PublishFailureOnly ==
  /\ Working("failure")
  /\ Publish(job, Failure)
  /\ Stop

PublishFailure ==
  /\ Working("failure")
  /\ Publish(job, Failure)
  /\ wstep' = "failureDone"
  /\ UNCHANGED <<job, produced>>

PublishFailureDone ==
  /\ Working("failureDone")
  /\ Publish(job, Done)
  /\ Stop

JobLost ==
  /\ Stop
  /\ lost' = IF Followed(job) /\ ~Contains(published[job], Done)
               THEN lost \cup {job} ELSE lost
  /\ UNCHANGED <<pageVars, callVars, gatewayVars, queue, ingestion, arrivals, published, missed>>

\* An exception inside the except clause leaves the loop: the process ends.  The
\* failure that led there is the one counted.
FailureHandlingRaises ==
  /\ "workerError" \in Faults
  /\ job # Nobody
  /\ wstep \in {"markFailed", "failure", "failureDone"}
  /\ JobLost
  /\ UNCHANGED faults

WorkerCrashes ==
  /\ Occurs("workerCrash")
  /\ job # Nobody
  /\ JobLost

-----------------------------------------------------------------------------
Init ==
  /\ ready = FALSE
  /\ isStreaming = FALSE
  /\ controller = Nobody
  /\ listed = {}
  /\ messages = [q \in Question |-> <<>>]
  /\ call = [q \in Question |-> "none"]
  /\ aborted = {}
  /\ left = {}
  /\ wire = [q \in Question |-> <<>>]
  /\ document = TRUE
  /\ relay = [q \in Question |-> "none"]
  /\ subscribed = [q \in Question |-> "none"]
  /\ inbox = [q \in Question |-> <<>>]
  /\ queue = <<>>
  /\ ingestion = 0
  /\ arrivals = 0
  /\ job = Nobody
  /\ wstep = "idle"
  /\ produced = 0
  /\ faults = 0
  /\ published = [q \in Question |-> <<>>]
  /\ missed = [q \in Question |-> 0]
  /\ lost = {}

UserNext ==
  \/ \E q \in Question : Ask(q)
  \/ StopStreaming
  \/ Reset
  \/ DocumentReady
  \/ Remount

CallNext(q) == ShowToken(q) \/ Finish(q) \/ ShowError(q) \/ ShowStopped(q)

HandlerNext(q) ==
  \/ RegisterQuestion(q)
  \/ Subscribe(q)
  \/ PushQuestion(q)
  \/ RelayMessage(q)

TabNext     == \E q \in Question : CallNext(q)
GatewayNext == \E q \in Question : HandlerNext(q) \/ ClientDone(q)

WorkerNext ==
  \/ ServeIngestion
  \/ PopQuestion
  \/ PublishToken
  \/ PublishDone
  \/ MarkAnswered
  \/ MarkFailed
  \/ PublishFailure
  \/ PublishFailureDone

FaultNext ==
  \/ \E q \in Question : CommandFails(q) \/ Cut(q)
  \/ DocumentExpires
  \/ TaskRaises
  \/ FailureHandlingRaises
  \/ WorkerCrashes

Next ==
  \/ UserNext
  \/ TabNext
  \/ GatewayNext
  \/ \E q \in Question : SubscriptionTakesEffect(q)
  \/ IngestionArrives
  \/ WorkerNext
  \/ FaultNext

Spec == Init /\ [][Next]_vars

\* Browser, gateway and worker go on, in turns the code leaves open: each has only
\* finitely much to do for the questions asked, so that none can keep another from
\* its step for ever.  Generation ends at its budget.
Fairness == WF_vars(TabNext \/ GatewayNext \/ WorkerNext)

FairSpec == Spec /\ Fairness

-----------------------------------------------------------------------------
\* The types of the state of tab, gateway and worker.
TypeOK ==
  /\ {ready, isStreaming, document} \subseteq BOOLEAN
  /\ {controller, job} \subseteq Question \cup {Nobody}
  /\ {listed, aborted, left, lost} \subseteq SUBSET Question
  /\ messages \in [Question -> Seq(Token \cup {Apology})]
  /\ call \in [Question -> {"none", "open", "answered", "failed", "stopped"}]
  /\ wire \in [Question -> Seq(Token \cup {Done, Broken})]
  /\ relay \in [Question -> {"none", "lookup", "subscribe", "push", "relay",
                             "closed"}]
  /\ subscribed \in [Question -> {"none", "sent", "active"}]
  /\ inbox \in [Question -> Seq(Token \cup {Done})]
  /\ queue \in Seq(Question)
  /\ {ingestion, arrivals} \subseteq 0 .. MaxIngestion
  /\ produced \in 0 .. MaxTokens
  /\ faults \in 0 .. MaxFaults
  /\ wstep \in {"idle", "generate", "complete", "markFailed", "failure", "failureDone"}
  /\ published \in [Question -> Seq(Token \cup {Done})]
  /\ missed \in [Question -> Nat]

UpToDone(s) ==
  LET ends == {i \in DOMAIN s : s[i] = Done}
  IN SubSeq(s, 1, IF ends = {} THEN Len(s) ELSE Min(ends) - 1)

\* What was published on a stream once the relay listened, up to [DONE].
Listened(q) == SubSeq(published[q], missed[q] + 1, Len(published[q]))
Heard(q)    == UpToDone(Listened(q))

\* A message shows the beginning of what the worker published for its own question
\* while the relay listened, in order: nothing skipped, repeated or of another answer.
ShowsOwnAnswer ==
  \A q \in Question : messages[q] = <<Apology>> \/ IsPrefix(messages[q], Heard(q))

\* An answer that ended without an error and was not stopped or reset holds all that was
\* published since the relay's subscription took effect, up to [DONE].
AnsweredAsHeard ==
  \A q \in listed : call[q] = "answered" =>
    Contains(Listened(q), Done) /\ messages[q] = Heard(q)

\* It holds all that was published, early tokens included.  The code does not ensure it:
\* those published before a late subscription takes effect are lost.
AnsweredIsWhole ==
  \A q \in listed : call[q] = "answered" => messages[q] = UpToDone(published[q])

\* Stop, Reset and a departure reach the running stream: the page waits for an answer
\* exactly when one of its calls is open, and the controller it holds is that call's.
ControllerOfOpenCall ==
  LET open == {q \in Question : call[q] = "open" /\ q \notin left}
  IN open = IF isStreaming THEN {controller} ELSE {}

\* A message that stays in the list only grows, and only while its own answer is being
\* received: not once the call has ended, and not once Stop has aborted it.
MessageOnlyGrows ==
  [][\A q \in listed' : messages'[q] # messages[q] =>
       call[q] = "open" /\ q \notin aborted /\ IsPrefix(messages[q], messages'[q])]_vars

\* A page waits for an answer for ever only if its [DONE] was lost (published before
\* the subscription took effect, or never because the worker died or could not record
\* a failure) and the user neither stops it nor leaves.  Jobs of the other queues, a
\* failed task, an expired document, errors of StreamQA's own Redis commands and a broken
\* connection end the wait.
StreamEnds ==
  \A q \in Question :
    call[q] = "open" ~> call[q] # "open" \/ (q \in lost /\ q \notin aborted)

\* No relay outlives its client, even one that waits for a [DONE] that was lost.
RelayEnds ==
  \A q \in Question : call[q] \in {"stopped", "failed", "answered"} ~> relay[q] = "closed"
=============================================================================
