----------------------------- MODULE GleanerPage -----------------------------
(***************************************************************************)
(* The Gleaner page, phase 1: a document is indexed and becomes the one    *)
(* that questions are asked about.  Phase 2 is in module AnswerStream.     *)
(***************************************************************************)
EXTENDS Browser

\* The document that can be asked about, known from the accepted response or
\* from polling: a record that says completed has its result_url from the same HSET.
ReadyDocumentId ==
  IF documentId # Nothing THEN documentId
  ELSE IF Shown = "completed" THEN taskId ELSE Nothing

Phase == IF ReadyDocumentId = Nothing THEN "index" ELSE "ask"

\* The effects that announce a failure, and a document indexed while the page
\* waited for it.
AnnouncesIndexing(t, s) ==
  /\ lastNotified # t
  /\ s = "failed" \/ (s = "completed" /\ documentId # t)

ChooseIndexFile(f) ==
  /\ On("gleaner")
  /\ Phase = "index"
  /\ ~IsBusy
  /\ form' = [form EXCEPT !.content = f]
  /\ UNCHANGED <<serverVars, page, taskId, documentId, lastNotified, uploadVars,
                 queryVars, ghosts>>

\* Mutant of HandleIndex: a document can be indexed while another is asked about.
HandleIndexInBothPhases ==
  /\ On("gleaner")
  /\ form.content # Nothing
  /\ ~IsBusy
  /\ taskId' = Nothing
  /\ documentId' = Nothing
  /\ lastNotified' = Nothing
  /\ followed' = 0
  /\ told' = 0
  /\ Mutate(form.content, form.style)
  /\ UNCHANGED <<serverVars, page, form, queryVars, cutoff>>

\* handleIndex forgets the previous document before it uploads.
HandleIndex ==
  /\ On("gleaner")
  /\ Phase = "index"
  /\ form.content # Nothing
  /\ ~IsBusy
  /\ taskId' = Nothing
  /\ documentId' = Nothing
  /\ lastNotified' = Nothing
  /\ followed' = 0
  /\ told' = 0
  /\ Mutate(form.content, form.style)
  /\ UNCHANGED <<serverVars, page, form, queryVars, cutoff>>

\* Mutant of IndexAccepted: an accepted document counts as indexed.
IndexAcceptedAsIndexed(u) ==
  LET t == u.answer.task
  IN /\ On("gleaner")
     /\ u.live
     /\ u.answer # Waiting
     /\ Settle(u)
     /\ taskId' = t
     /\ documentId' = t
     /\ Announce(t)
     /\ followed' = u.serial
     /\ Observe(t)
     /\ UNCHANGED <<serverVars, page, form, sent, seen, cutoff>>

\* A document accepted as completed opens phase 2 and counts as notified; it is announced
\* only if the answer was a cache hit, otherwise the page says "Indexing started".
IndexAccepted(u) ==
  LET t    == u.answer.task
      done == u.answer.status = "completed"
      news == ~done /\ AnnouncesIndexing(t, seen[t])
  IN /\ On("gleaner")
     /\ u.live
     /\ u.answer # Waiting
     /\ Settle(u)
     /\ taskId' = t
     /\ documentId' = IF done THEN t ELSE documentId
     /\ lastNotified' = IF done \/ news THEN t ELSE lastNotified
     /\ told' = IF u.answer.hit \/ news THEN Told(t) + 1 ELSE Told(t)
     /\ followed' = u.serial
     /\ Observe(t)
     /\ UNCHANGED <<serverVars, page, form, sent, seen, cutoff>>

IndexRefused(u) == Refused("gleaner", u)

IndexSeen(t) ==
  /\ On("gleaner")
  /\ ReceiveTask(t)
  /\ IF t = taskId /\ AnnouncesIndexing(t, poll[t]) /\ poll[t] # seen[t]
       THEN Announce(t)
       ELSE UNCHANGED <<lastNotified, told>>

\* Reset waits for a pending upload; "New document" of phase 2 does not.
CanResetGleaner == Phase = "ask" \/ ~IsPending

ResetGleaner ==
  /\ On("gleaner")
  /\ CanResetGleaner
  /\ form' = [form EXCEPT !.content = Nothing]
  /\ taskId' = Nothing
  /\ documentId' = Nothing
  /\ lastNotified' = Nothing
  /\ followed' = 0
  /\ cutoff' = sent
  /\ told' = 0
  /\ UNCHANGED <<serverVars, page, uploadVars, queryVars>>

GleanerNext ==
  \/ \E f \in Content \cup {Nothing} : ChooseIndexFile(f)
  \/ HandleIndex
  \/ \E u \in uploads : IndexAccepted(u) \/ IndexRefused(u)
  \/ \E t \in Task : IndexSeen(t)
  \/ ResetGleaner
=============================================================================
