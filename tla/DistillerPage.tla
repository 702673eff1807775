---------------------------- MODULE DistillerPage ----------------------------
(***************************************************************************)
(* The Distiller page: a file or a pasted text is summarized in a style.   *)
(***************************************************************************)
EXTENDS Browser

HasInput == form.content # Nothing

AnnouncesSummary(t, s) == lastNotified # t /\ s \in Terminal

\* The controls of the form are all disabled while the page is busy.
Edit(f) ==
  /\ On("distiller")
  /\ ~IsBusy
  /\ form' = f
  /\ UNCHANGED <<serverVars, page, taskId, documentId, lastNotified, uploadVars,
                 queryVars, ghosts>>

ChooseStyle(s) == Edit([form EXCEPT !.style = s])

\* A file is chosen, a text typed, or the page switched from one to the other.
ChooseContent(c) == Edit([form EXCEPT !.content = c])

SubmitSummary ==
  /\ On("distiller")
  /\ HasInput
  /\ ~IsBusy
  /\ Mutate(form.content, form.style)
  /\ UNCHANGED <<serverVars, page, pageVars, queryVars, ghosts>>

SummaryAccepted(u) ==
  LET t    == u.answer.task
      news == t # taskId /\ ~u.answer.hit /\ seen[t] \in Terminal
  IN /\ On("distiller")
     /\ u.live
     /\ u.answer # Waiting
     /\ Settle(u)
     /\ taskId' = t
     /\ IF u.answer.hit \/ news
          THEN Announce(t)
          ELSE lastNotified' = Nothing /\ told' = Told(t)
     /\ followed' = u.serial
     /\ Observe(t)
     /\ UNCHANGED <<serverVars, page, form, documentId, sent, seen, cutoff>>

SummaryRefused(u) == Refused("distiller", u)

SummarySeen(t) ==
  /\ On("distiller")
  /\ ReceiveTask(t)
  /\ IF t = taskId /\ AnnouncesSummary(t, poll[t]) /\ poll[t] # seen[t]
       THEN Announce(t)
       ELSE UNCHANGED <<lastNotified, told>>

CanResetDistiller == ~IsPending

\* The style survives a reset.
ResetDistiller ==
  /\ On("distiller")
  /\ CanResetDistiller
  /\ form' = [form EXCEPT !.content = Nothing]
  /\ taskId' = Nothing
  /\ lastNotified' = Nothing
  /\ followed' = 0
  /\ cutoff' = sent
  /\ told' = 0
  /\ UNCHANGED <<serverVars, page, documentId, uploadVars, queryVars>>

SummaryPanel ==
  IF Shown # "completed" THEN "empty"
  ELSE IF result[taskId] \in {"none", "sent"} THEN "skeleton" ELSE result[taskId]

DistillerNext ==
  \/ \E s \in Style : ChooseStyle(s)
  \/ \E c \in Content \cup {Nothing} : ChooseContent(c)
  \/ SubmitSummary
  \/ \E u \in uploads : SummaryAccepted(u) \/ SummaryRefused(u)
  \/ \E t \in Task : SummarySeen(t)
  \/ FetchResult("distiller")
  \/ ResetDistiller
=============================================================================
