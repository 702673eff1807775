----------------------------- MODULE ScriberPage -----------------------------
(***************************************************************************)
(* The Scriber page: one audio file is transcribed.                        *)
(***************************************************************************)
EXTENDS Browser

\* Mutant of AnnouncesTranscription: a failure is not announced.
AnnouncesCompletionOnly(t, s) == lastNotified # t /\ s = "completed"

\* The page's effect: a terminal status not yet announced is announced.
AnnouncesTranscription(t, s) == lastNotified # t /\ s \in Terminal

ChooseAudio(f) ==
  /\ On("scriber")
  /\ ~IsBusy
  /\ form' = [form EXCEPT !.content = f]
  /\ UNCHANGED <<serverVars, page, taskId, documentId, lastNotified, uploadVars,
                 queryVars, ghosts>>

SubmitAudio ==
  /\ On("scriber")
  /\ form.content # Nothing
  /\ ~IsBusy
  /\ Mutate(form.content, form.style)
  /\ UNCHANGED <<serverVars, page, pageVars, queryVars, ghosts>>

\* Mutant of TranscriptionAccepted: the cached result is announced and not noted.
TranscriptionAcceptedForgetful(u) ==
  LET t == u.answer.task
  IN /\ On("scriber")
     /\ u.live
     /\ u.answer # Waiting
     /\ Settle(u)
     /\ taskId' = t
     /\ lastNotified' = Nothing
     /\ told' = IF u.answer.hit THEN Told(t) + 1 ELSE Told(t)
     /\ followed' = u.serial
     /\ Observe(t)
     /\ UNCHANGED <<serverVars, page, form, documentId, sent, seen, cutoff>>

\* onSuccess: the page follows the accepted task.  Data cached for it by an
\* earlier visit is shown, and announced, at once.
TranscriptionAccepted(u) ==
  LET t    == u.answer.task
      last == IF u.answer.hit THEN t ELSE Nothing
      news == t # taskId /\ ~u.answer.hit /\ seen[t] \in Terminal
  IN /\ On("scriber")
     /\ u.live
     /\ u.answer # Waiting
     /\ Settle(u)
     /\ taskId' = t
     /\ IF u.answer.hit \/ news THEN Announce(t) ELSE lastNotified' = last /\ told' = Told(t)
     /\ followed' = u.serial
     /\ Observe(t)
     /\ UNCHANGED <<serverVars, page, form, documentId, sent, seen, cutoff>>

\* onError: the page still follows the task it followed before.
TranscriptionRefused(u) == Refused("scriber", u)

TranscriptionSeen(t) ==
  /\ On("scriber")
  /\ ReceiveTask(t)
  /\ IF t = taskId /\ AnnouncesTranscription(t, poll[t]) /\ poll[t] # seen[t]
       THEN Announce(t)
       ELSE UNCHANGED <<lastNotified, told>>

\* Mutant of CanResetScriber: Reset is enabled while an upload is pending.
CanAlwaysReset == TRUE

CanResetScriber == ~IsPending

ResetScriber ==
  /\ On("scriber")
  /\ CanResetScriber
  /\ form' = [form EXCEPT !.content = Nothing]
  /\ taskId' = Nothing
  /\ lastNotified' = Nothing
  /\ followed' = 0
  /\ cutoff' = sent
  /\ told' = 0
  /\ UNCHANGED <<serverVars, page, documentId, uploadVars, queryVars>>

\* What the transcript panel shows.
TranscriptPanel ==
  IF Shown # "completed" THEN "empty"
  ELSE IF result[taskId] \in {"none", "sent"} THEN "skeleton" ELSE result[taskId]

ScriberNext ==
  \/ \E f \in Content \cup {Nothing} : ChooseAudio(f)
  \/ SubmitAudio
  \/ \E u \in uploads : TranscriptionAccepted(u) \/ TranscriptionRefused(u)
  \/ \E t \in Task : TranscriptionSeen(t)
  \/ FetchResult("scriber")
  \/ ResetScriber
=============================================================================
