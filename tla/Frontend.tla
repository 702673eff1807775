------------------------------- MODULE Frontend -------------------------------
(***************************************************************************)
(* The tab composed with the system it talks to: the pages, the query      *)
(* cache and requests in flight, and the tasks behind the gateway.         *)
(***************************************************************************)
EXTENDS ScriberPage, DistillerPage, GleanerPage

NetworkNext ==
  \/ \E u \in uploads :
       \/ \E t \in Task : Register(u, t)
       \/ SettleUnmounted(u)
  \/ \E t \in Task :
       \/ SendPoll(t)
       \/ AnswerPoll(t)
       \/ PollFails(t)
       \/ ResultArrives(t)

ServerNext == \E t \in Task : ServerMoves(t)

Next ==
  \/ ScriberNext
  \/ DistillerNext
  \/ GleanerNext
  \/ NetworkNext
  \/ ServerNext
  \/ Remount

Spec == BrowserInit /\ [][Next]_vars

TaskSeen(t) ==
  TranscriptionSeen(t) \/ SummarySeen(t) \/ IndexSeen(t)

\* The system ends the tasks it accepted (Dedup's EnqueuedFinishes), the browser's
\* timers fire, and not every attempt of a poll or of a download fails.
Fairness ==
  /\ \A t \in Task : WF_vars(ServerMoves(t))
  /\ WF_vars(\E t \in Task : SendPoll(t))
  /\ SF_vars(\E t \in Task : AnswerPoll(t))
  /\ WF_vars(\E t \in Task : TaskSeen(t))
  /\ WF_vars(FetchResult("scriber") \/ FetchResult("distiller"))
  /\ WF_vars(\E t \in Task : ResultArrives(t))

FairSpec == Spec /\ Fairness

-----------------------------------------------------------------------------
\* The types of the tab's state.
TypeOK ==
  /\ status \in [Task -> {"absent"} \cup Known]
  /\ stored \subseteq Fingerprint
  /\ elected \subseteq Task
  /\ page \in Page
  /\ form \in [content : Content \cup {Nothing}, style : Style]
  /\ {taskId, documentId, lastNotified} \subseteq Task \cup {Nothing}
  /\ uploads \subseteq [serial : 1 .. MaxUploads, request : Fingerprint, live : BOOLEAN,
                        answer : [task : Task \cup {Nothing},
                                  status : {"absent"} \cup AcceptedStatus, hit : BOOLEAN]]
  /\ sent \in 0 .. MaxUploads
  /\ seen \in [Task -> {"none"} \cup Known]
  /\ failing \in [Task -> BOOLEAN]
  /\ poll \in [Task -> {"idle", "sent"} \cup Known]
  /\ result \in [Task -> {"none", "sent", "ready", "error"}]
  /\ {followed, cutoff} \subseteq 0 .. MaxUploads
  /\ told \in 0 .. 2

\* A page never follows the task of a submission that was reset or left behind, and
\* an older submission never replaces a newer one (Reset is disabled while an upload
\* is pending, and an unmounted page sets no state).
NewestSubmissionFollowed ==
  /\ taskId # Nothing => followed > cutoff
  /\ \A u \in uploads : u.live /\ taskId # Nothing => u.serial > followed

\* What a page shows of a task never lags behind what it showed before: polls of one
\* task do not overtake each other, and a failed poll keeps the data.
RankOf(s) ==
  CASE s = "none" -> 0 [] s = "queued" -> 1 [] s = "processing" -> 2 [] OTHER -> 3

ShownAdvances ==
  [][\A t \in Task : seen'[t] # seen[t] => RankOf(seen'[t]) > RankOf(seen[t])]_seen

\* The outcome of a task is announced once while the page follows it: a cached result
\* announced when it was accepted is not announced again by the first poll, nor the
\* task when a second submission was attached to it.
AnnouncedOnce == told < 2

\* A document whose answer said that the task of another request had indexed it: the page
\* says "Indexing started", opens phase 2 at once, and no outcome is announced any more.
AcceptedUnannounced ==
  On("gleaner") /\ documentId = taskId /\ taskId \in elected

\* Whenever a page shows an outcome it has announced it, save for such a document.
OutcomeAnnounced ==
  Shown \in Terminal => told > 0 \/ AcceptedUnannounced

\* Questions can be asked only about a document the system has indexed, also when the
\* page learnt it from the accepted response or from a task it was attached to.
AskOnlyIndexed ==
  On("gleaner") /\ Phase = "ask" =>
    status[ReadyDocumentId] = "completed" /\ FpOf[ReadyDocumentId] \in stored

\* Leaving phase 2 takes a reset or a departure: no answer of a poll or of an upload
\* takes the document away from under the conversation.
DocumentStays ==
  [][ReadyDocumentId # Nothing /\ cutoff' = cutoff
       => ReadyDocumentId' = ReadyDocumentId \/ page # "gleaner"]_vars

\* A page that follows a task comes to show its outcome, unless the user has it follow
\* none: a failed poll does not end the polling, a new submission does not stall it.
AwaitsOutcome == taskId # Nothing /\ Shown \notin Terminal

OutcomeShown == AwaitsOutcome ~> ~AwaitsOutcome

\* A page that shows a task as ready comes to show its result, or an error: the
\* skeleton does not stay.
AwaitsResult ==
  \/ On("scriber") /\ TranscriptPanel = "skeleton"
  \/ On("distiller") /\ SummaryPanel = "skeleton"

SkeletonEnds == AwaitsResult ~> ~AwaitsResult
=============================================================================
