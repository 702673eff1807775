---------------------------- MODULE FrontendProofs ----------------------------
(***************************************************************************)
(* Theorems about Frontend, for any pages, contents, styles, tasks and any *)
(* number of submissions.                                                  *)
(*                                                                         *)
(* The argument orders what is known of a task: the cache is behind the    *)
(* answer of a poll under way, which is behind the record (QueryOf); the   *)
(* record only moves forward (Advances).  At most one submission belongs   *)
(* to the page, the newest (UploadOf), and its answer names either an      *)
(* elected task or an alias made for it, which nobody can follow yet       *)
(* (AnswerOf).  What was announced is remembered in lastNotified, or it    *)
(* shows: that is why neither forgetting lastNotified with a second        *)
(* submission nor a poll that brings no news repeats it (AnnouncedInv).    *)
(***************************************************************************)
EXTENDS Frontend, TLAPS

-----------------------------------------------------------------------------
\* The types, one variable at a time.
Answer ==
  [task : Task \cup {Nothing}, status : {"absent"} \cup AcceptedStatus, hit : BOOLEAN]

Upload == [serial : 1 .. MaxUploads, request : Fingerprint, live : BOOLEAN, answer : Answer]

Form == [content : Content \cup {Nothing}, style : Style]

ServerTyped ==
  /\ status \in [Task -> {"absent"} \cup Known]
  /\ stored \subseteq Fingerprint
  /\ elected \subseteq Task

PageTyped ==
  /\ page \in Page
  /\ form \in Form
  /\ taskId \in Task \cup {Nothing}
  /\ documentId \in Task \cup {Nothing}
  /\ lastNotified \in Task \cup {Nothing}
  /\ followed \in 0 .. MaxUploads
  /\ cutoff \in 0 .. MaxUploads

UploadTyped ==
  /\ uploads \subseteq Upload
  /\ sent \in 0 .. MaxUploads

QueryTyped ==
  /\ seen \in [Task -> {"none"} \cup Known]
  /\ failing \in [Task -> BOOLEAN]
  /\ poll \in [Task -> {"idle", "sent"} \cup Known]
  /\ result \in [Task -> {"none", "sent", "ready", "error"}]

Typed == ServerTyped /\ PageTyped /\ UploadTyped /\ QueryTyped

-----------------------------------------------------------------------------
\* The status b is a, or may follow it.
Reaches(a, b) ==
  \/ a \in Known /\ b = a
  \/ a = "queued" /\ b = "processing"
  \/ a \in {"queued", "processing"} /\ b \in Terminal

\* What is completed is stored; an elected task has a record.
ServerOf(t) ==
  /\ status[t] = "completed" => FpOf[t] \in stored
  /\ t \in elected => status[t] # "absent"

\* The cache is behind the answer under way, which is behind the record.
QueryOf(t) ==
  /\ seen[t] # "none" => Reaches(seen[t], status[t])
  /\ poll[t] # "idle" => status[t] # "absent"
  /\ poll[t] \in Known => Reaches(poll[t], status[t])
  /\ poll[t] \in Known /\ seen[t] # "none" => Reaches(seen[t], poll[t])

\* An accepted answer names a task with a record: a fresh alias, which the page cannot
\* follow yet, or an elected task.
AnswerOf(u) ==
  u.answer # Waiting =>
    /\ u.answer.task \in Task
    /\ status[u.answer.task] # "absent"
    /\ u.answer.status = "completed" => status[u.answer.task] = "completed"
    /\ u.answer.hit => u.answer.status = "completed"
    /\ u.answer.task \in elected <=> ~u.answer.hit
    /\ u.live /\ u.answer.hit => u.answer.task # taskId

\* One submission at a time belongs to the page, and it is the newest.
UploadOf(u) ==
  /\ u.serial <= sent
  /\ u.live => u.serial > cutoff
  /\ u.live /\ taskId # Nothing => u.serial > followed
  /\ \A v \in uploads : u.live /\ v.live => u = v

PageInv ==
  /\ cutoff <= sent /\ followed <= sent
  /\ taskId # Nothing => followed > cutoff /\ status[taskId] # "absent"
  /\ documentId # Nothing => status[documentId] = "completed"
  /\ On("gleaner") => documentId \in {Nothing, taskId}
  /\ On("gleaner") /\ IsPending => taskId = Nothing

\* An announcement is noted in lastNotified, or in the status the page shows; what is
\* noted was announced, or is a document accepted without an announcement.
AnnouncedInv ==
  /\ lastNotified \in {Nothing, taskId}
  /\ told \in {0, 1}
  /\ lastNotified # Nothing => told = 1 \/ AcceptedUnannounced
  /\ On("gleaner") /\ documentId # Nothing => told = 1 \/ AcceptedUnannounced
  /\ Shown \in Terminal => told = 1 \/ AcceptedUnannounced
  /\ told = 1 => lastNotified = taskId \/ Shown \in Terminal
  /\ ~On("gleaner") /\ taskId \in elected /\ lastNotified = taskId => Shown \in Terminal

FrontendInv ==
  /\ Typed
  /\ \A t \in Task : ServerOf(t) /\ QueryOf(t)
  /\ \A u \in uploads : AnswerOf(u) /\ UploadOf(u)
  /\ PageInv
  /\ AnnouncedInv

-----------------------------------------------------------------------------
\* The assumption on the constants, part by part.
LEMMA Constants ==
  /\ Fingerprint = Content \X Style
  /\ FpOf \in [Task -> Fingerprint]
  /\ Nothing \notin Content /\ Nothing \notin Task
  /\ "bullet_points" \in Style
  /\ MaxUploads \in Nat
BY BrowserAssumption

\* The steps, by what they change.
FormStep ==
  \/ \E f \in Content \cup {Nothing} : ChooseAudio(f) \/ ChooseIndexFile(f) \/ ChooseContent(f)
  \/ \E s \in Style : ChooseStyle(s)

SubmitStep == SubmitAudio \/ SubmitSummary \/ HandleIndex

AcceptStep(u) == TranscriptionAccepted(u) \/ SummaryAccepted(u) \/ IndexAccepted(u)

DropStep(u) ==
  TranscriptionRefused(u) \/ SummaryRefused(u) \/ IndexRefused(u) \/ SettleUnmounted(u)

FetchStep ==
  \/ \E t \in Task : SendPoll(t) \/ PollFails(t) \/ ResultArrives(t)
  \/ FetchResult("scriber") \/ FetchResult("distiller")

ResetStep == ResetScriber \/ ResetDistiller \/ ResetGleaner

LEMMA Steps ==
  ASSUME [Next]_vars
  PROVE  \/ FormStep \/ SubmitStep \/ FetchStep \/ ResetStep \/ Remount
         \/ \E u \in uploads : AcceptStep(u) \/ DropStep(u) \/ \E t \in Task : Register(u, t)
         \/ \E t \in Task : AnswerPoll(t) \/ TaskSeen(t) \/ ServerMoves(t)
         \/ UNCHANGED vars
BY DEF Next, ScriberNext, DistillerNext, GleanerNext, NetworkNext, ServerNext, FormStep,
       SubmitStep, AcceptStep, DropStep, FetchStep, ResetStep, TaskSeen

\* The content that is submitted was entered, and comes with a style.
FormFrame == UNCHANGED <<serverVars, page, taskId, documentId, lastNotified, uploadVars,
                         queryVars, ghosts>>

LEMMA FormTyped ==
  ASSUME FormStep, form \in Form
  PROVE  form' \in Form /\ FormFrame
BY DEF FormStep, ChooseAudio, ChooseIndexFile, ChooseContent, ChooseStyle, Edit, Form, FormFrame

LEMMA SubmitTyped ==
  ASSUME Typed, SubmitStep
  PROVE  \E r \in Fingerprint :
           /\ sent < MaxUploads /\ sent' = sent + 1
           /\ uploads' = uploads \cup
                {[serial |-> sent + 1, request |-> r, live |-> TRUE, answer |-> Waiting]}
<1>1. form.content # Nothing /\ Mutate(form.content, form.style)
  BY DEF SubmitStep, SubmitAudio, SubmitSummary, HandleIndex, HasInput
<1>2. <<form.content, form.style>> \in Fingerprint
  BY <1>1, Constants DEF Typed, PageTyped, Form
<1> QED BY <1>1, <1>2 DEF Mutate

\* A submission as the gateway answered it.
LEMMA AnsweredUpload ==
  ASSUME NEW u \in Upload, NEW a \in Answer
  PROVE  LET w == [u EXCEPT !.answer = a]
         IN  /\ w \in Upload
             /\ w.serial = u.serial /\ w.request = u.request /\ w.live = u.live /\ w.answer = a
BY DEF Upload

\* A submission whose page is left.
LEMMA LeftUpload ==
  ASSUME NEW u \in Upload
  PROVE  LET w == [u EXCEPT !.live = FALSE]
         IN  /\ w \in Upload
             /\ w.serial = u.serial /\ w.request = u.request /\ ~w.live /\ w.answer = u.answer
BY DEF Upload

LEMMA RegisterEffect ==
  ASSUME Typed, NEW u \in uploads, NEW t \in Task, Register(u, t)
  PROVE  \E s \in AcceptedStatus, hit \in BOOLEAN :
           /\ uploads' = (uploads \ {u}) \cup {[u EXCEPT !.answer = Accepted(t, s, hit)]}
           /\ Accepted(t, s, hit) \in Answer
           /\ u.answer = Waiting
           /\ \/ Queue(t) /\ ~hit /\ elected' = elected \cup {t} /\ s = "queued"
              \/ Complete(t) /\ status[t] = "absent" /\ hit /\ elected' = elected
                 /\ s = "completed"
              \/ /\ UNCHANGED serverVars /\ ~hit /\ t \in elected /\ status[t] = s
           /\ UNCHANGED <<page, pageVars, sent, queryVars, ghosts>>
<1>1. \A s \in AcceptedStatus, hit \in BOOLEAN : Accepted(t, s, hit) \in Answer
  BY DEF Accepted, Answer
<1>2. CASE Queue(t) /\ Answered(u, Accepted(t, "queued", FALSE)) /\ elected' = elected \cup {t}
  <2>1. "queued" \in AcceptedStatus
    BY DEF AcceptedStatus
  <2> QED BY <1>1, <1>2, <2>1 DEF Register, Answered
<1>3. CASE /\ Complete(t) /\ status[t] = "absent"
           /\ Answered(u, Accepted(t, "completed", TRUE))
           /\ UNCHANGED elected
  <2>1. "completed" \in AcceptedStatus
    BY DEF AcceptedStatus
  <2> QED BY <1>1, <1>3, <2>1 DEF Register, Answered
<1>4. CASE /\ t \in elected
           /\ status[t] \in AcceptedStatus
           /\ Answered(u, Accepted(t, status[t], FALSE))
           /\ UNCHANGED serverVars
  BY <1>1, <1>4 DEF Register, Answered
<1> QED BY <1>2, <1>3, <1>4 DEF Register

\* The record of one task moves, or the objects of one fingerprint are stored.
LEMMA MoveEffect ==
  ASSUME ServerTyped, NEW t \in Task, Queue(t) \/ Complete(t) \/ ServerMoves(t)
  PROVE  /\ \/ /\ status' = [status EXCEPT ![t] = "queued"]
               /\ status[t] = "absent" /\ stored' = stored
            \/ /\ status' = [status EXCEPT ![t] = "processing"]
               /\ status[t] = "queued" /\ stored' = stored
            \/ /\ status' = [status EXCEPT ![t] = "failed"]
               /\ status[t] \in {"queued", "processing"} /\ stored' = stored
            \/ /\ status' = [status EXCEPT ![t] = "completed"]
               /\ status[t] \in {"absent", "queued", "processing"} /\ FpOf[t] \in stored
               /\ stored' = stored
            \/ status' = status /\ stored' = stored \cup {FpOf[t]}
BY DEF Queue, Complete, ServerMoves, Start, Fail, Store, Move

-----------------------------------------------------------------------------
\* Whatever a step does, a record that is there only moves forward.
Advances ==
  \A t \in Task : status[t] # "absent" => Reaches(status[t], status'[t])

LEMMA ReachesProperties ==
  /\ \A a \in Known : Reaches(a, a)
  /\ \A a, b, c : Reaches(a, b) /\ Reaches(b, c) => Reaches(a, c)
  /\ \A a, b : Reaches(a, b) => a \in Known /\ b \in Known
  /\ \A a \in Terminal : \A b : Reaches(a, b) => a = b
BY DEF Reaches, Known, Terminal

LEMMA AdvancesAlways ==
  ASSUME ServerTyped, UNCHANGED status
  PROVE  Advances
BY ReachesProperties DEF ServerTyped, Advances

LEMMA MoveServer ==
  ASSUME ServerTyped, \A t \in Task : ServerOf(t),
         NEW t \in Task, Queue(t) \/ Complete(t) \/ ServerMoves(t),
         elected' = elected \/ (Queue(t) /\ elected' = elected \cup {t})
  PROVE  /\ ServerTyped' /\ Advances
         /\ \A r \in Task : ServerOf(r)'
<1>1. \/ /\ status' = [status EXCEPT ![t] = "queued"]
         /\ status[t] = "absent" /\ stored' = stored
      \/ /\ status' = [status EXCEPT ![t] = "processing"]
         /\ status[t] = "queued" /\ stored' = stored
      \/ /\ status' = [status EXCEPT ![t] = "failed"]
         /\ status[t] \in {"queued", "processing"} /\ stored' = stored
      \/ /\ status' = [status EXCEPT ![t] = "completed"]
         /\ status[t] \in {"absent", "queued", "processing"} /\ FpOf[t] \in stored
         /\ stored' = stored
      \/ status' = status /\ stored' = stored \cup {FpOf[t]}
  BY MoveEffect
<1>2. /\ status' \in [Task -> {"absent"} \cup Known]
      /\ \A r \in Task : r # t => status'[r] = status[r]
      /\ status'[t] = status[t] \/ (status[t] # "absent" => Reaches(status[t], status'[t]))
      /\ status'[t] # "absent" \/ status'[t] = status[t]
      /\ status'[t] = "completed" => FpOf[t] \in stored \/ status[t] = "completed"
  BY <1>1 DEF ServerTyped, Known, Reaches, Terminal
<1>3. stored \subseteq stored' /\ stored' \subseteq Fingerprint
  BY <1>1, Constants DEF ServerTyped
<1>4. Advances
  BY <1>2, ReachesProperties DEF Advances, ServerTyped
<1>5. Queue(t) => status'[t] = "queued"
  BY DEF Queue, Move, ServerTyped
<1>6. ASSUME NEW r \in Task PROVE ServerOf(r)'
  BY <1>2, <1>3, <1>5 DEF ServerOf
<1> QED BY <1>2, <1>3, <1>4, <1>6 DEF ServerTyped

\* What was received, or travels, stays behind the record.
LEMMA QueryKept ==
  ASSUME ServerTyped, Advances, NEW t \in Task, QueryOf(t), UNCHANGED <<seen, poll>>
  PROVE  QueryOf(t)'
<1>1. status[t] # "absent" => Reaches(status[t], status'[t])
  BY DEF Advances
<1>2. status[t] # "absent" => status'[t] # "absent"
  BY <1>1, ReachesProperties DEF Known, Terminal
<1>3. seen[t] # "none" => Reaches(seen[t], status'[t])
  BY <1>1, ReachesProperties DEF QueryOf, Known, Terminal
<1>4. poll[t] \in Known => Reaches(poll[t], status'[t])
  BY <1>1, ReachesProperties DEF QueryOf, Known, Terminal
<1> QED BY <1>2, <1>3, <1>4 DEF QueryOf

LEMMA AnswerKept ==
  ASSUME Advances, NEW u, AnswerOf(u), taskId' \in {taskId, Nothing},
         \A t \in Task : status[t] # "absent" => (t \in elected' <=> t \in elected)
  PROVE  AnswerOf(u)'
<1> SUFFICES ASSUME u.answer # Waiting PROVE AnswerOf(u)'
  BY DEF AnswerOf
<1> DEFINE t == u.answer.task
<1>1. /\ t \in Task /\ status[t] # "absent"
      /\ u.answer.status = "completed" => status[t] = "completed"
      /\ u.answer.hit => u.answer.status = "completed"
      /\ t \in elected <=> ~u.answer.hit
      /\ u.live /\ u.answer.hit => t # taskId
  BY DEF AnswerOf
<1>2. Reaches(status[t], status'[t])
  BY <1>1 DEF Advances
<1>3. status'[t] # "absent" /\ (status[t] = "completed" => status'[t] = "completed")
  BY <1>2, ReachesProperties DEF Known, Terminal
<1>4. t # Nothing
  BY <1>1, Constants
<1> QED BY <1>1, <1>3, <1>4 DEF AnswerOf

\* The cache, the announcements and the answers of tasks and pages that are left alone.
LEMMA AnnouncedKept ==
  ASSUME AnnouncedInv, UNCHANGED <<page, taskId, documentId, lastNotified, told, seen>>,
         elected \subseteq elected', taskId \in elected' => taskId \in elected
  PROVE  AnnouncedInv'
BY DEF AnnouncedInv, AcceptedUnannounced, On, Shown

-----------------------------------------------------------------------------
LEMMA FrontendInit == BrowserInit => FrontendInv
<1> SUFFICES ASSUME BrowserInit PROVE FrontendInv
  OBVIOUS
<1>1. Typed
  BY Constants DEF BrowserInit, LifecycleInit, EmptyForm, Typed, ServerTyped, PageTyped,
         UploadTyped, QueryTyped, Form
<1>2. ASSUME NEW t \in Task PROVE ServerOf(t) /\ QueryOf(t)
  BY DEF BrowserInit, LifecycleInit, ServerOf, QueryOf, Known, Terminal
<1>3. \A u \in uploads : AnswerOf(u) /\ UploadOf(u)
  BY DEF BrowserInit
<1>4. PageInv /\ AnnouncedInv
  BY Constants DEF BrowserInit, PageInv, AnnouncedInv, IsPending, Shown, Terminal
<1> QED BY <1>1, <1>2, <1>3, <1>4 DEF FrontendInv

LEMMA FormInv ==
  ASSUME FrontendInv, FormStep
  PROVE  FrontendInv'
<1> USE DEF FrontendInv
<1>1. form' \in Form /\ FormFrame
  BY FormTyped DEF Typed, PageTyped
<1>2. Typed'
  BY <1>1 DEF FormFrame, Typed, ServerTyped, PageTyped, UploadTyped, QueryTyped, serverVars,
         lifecycleVars, uploadVars, queryVars, ghosts
<1>3. ASSUME NEW t \in Task PROVE ServerOf(t)' /\ QueryOf(t)'
  BY <1>1 DEF FormFrame, ServerOf, QueryOf, serverVars, lifecycleVars, queryVars
<1>4. ASSUME NEW u \in uploads PROVE AnswerOf(u)' /\ UploadOf(u)'
  BY <1>1 DEF FormFrame, AnswerOf, UploadOf, serverVars, lifecycleVars, uploadVars, ghosts
<1>5. PageInv'
  BY <1>1 DEF FormFrame, PageInv, On, IsPending, serverVars, lifecycleVars, uploadVars, ghosts
<1>6. AnnouncedInv'
  BY <1>1, AnnouncedKept DEF FormFrame, serverVars, queryVars, ghosts
<1> QED BY <1>1, <1>2, <1>3, <1>4, <1>5, <1>6 DEF FormFrame, uploadVars

\* A submission leaves while none is pending.
LEMMA SubmitInv ==
  ASSUME FrontendInv, SubmitStep
  PROVE  FrontendInv'
<1> USE DEF FrontendInv
<1>1. PICK r \in Fingerprint :
        /\ sent < MaxUploads /\ sent' = sent + 1
        /\ uploads' = uploads \cup
             {[serial |-> sent + 1, request |-> r, live |-> TRUE, answer |-> Waiting]}
  BY SubmitTyped
<1> DEFINE w == [serial |-> sent + 1, request |-> r, live |-> TRUE, answer |-> Waiting]
<1>2. /\ ~IsPending
      /\ UNCHANGED <<serverVars, page, form, queryVars, cutoff>>
      /\ \/ UNCHANGED <<taskId, documentId, lastNotified, followed, told>>
         \/ /\ taskId' = Nothing /\ documentId' = Nothing /\ lastNotified' = Nothing
            /\ followed' = 0 /\ told' = 0
      /\ On("gleaner") => taskId' = Nothing /\ documentId' = Nothing
  BY DEF SubmitStep, SubmitAudio, SubmitSummary, HandleIndex, IsBusy, On, pageVars, ghosts
<1>3. sent \in 0 .. MaxUploads /\ MaxUploads \in Nat /\ uploads \subseteq Upload
  BY Constants DEF Typed, UploadTyped
<1>4. /\ w.serial = sent + 1 /\ w.live /\ w.answer = Waiting
      /\ w \in Upload
  <2>1. Waiting \in Answer
    BY DEF Waiting, Answer
  <2> QED BY <1>1, <1>3, <2>1 DEF Upload
<1>5. uploads' = uploads \cup {w} /\ \A u \in uploads : ~u.live
  BY <1>1, <1>2 DEF IsPending
<1>6. Typed'
  <2>1. UploadTyped'
    <3> HIDE DEF w
    <3>1. sent' \in 0 .. MaxUploads
      BY <1>1, <1>3
    <3> QED BY <1>3, <1>4, <1>5, <3>1 DEF UploadTyped
  <2>2. PageTyped'
    BY <1>2, Constants DEF Typed, PageTyped
  <2> QED BY <1>2, <2>1, <2>2 DEF Typed, ServerTyped, QueryTyped, serverVars, lifecycleVars,
             queryVars
<1>7. ASSUME NEW t \in Task PROVE ServerOf(t)' /\ QueryOf(t)'
  BY <1>2 DEF ServerOf, QueryOf, serverVars, lifecycleVars, queryVars
<1>8. Advances
  BY <1>2, AdvancesAlways DEF Typed, serverVars, lifecycleVars
<1>9. ASSUME NEW u \in uploads' PROVE AnswerOf(u)'
  <2>1. CASE u \in uploads
    BY <1>2, <1>8, <2>1, AnswerKept DEF serverVars
  <2>2. CASE u = w
    BY <1>4, <2>2 DEF AnswerOf, Waiting
  <2> QED BY <1>5, <2>1, <2>2
<1>10. cutoff' <= sent /\ followed' <= sent /\ sent \in Nat /\ cutoff' = cutoff
  BY <1>2, <1>3 DEF PageInv
<1>11. ASSUME NEW u \in uploads' PROVE UploadOf(u)'
  <2>0. UploadTyped' /\ PageTyped'
    BY <1>6 DEF Typed
  <2>1. CASE u \in uploads
    <3>1. u.serial <= sent /\ ~u.live /\ u.serial \in Nat
      BY <1>3, <1>5, <2>1 DEF UploadOf, Upload
    <3>2. u.serial <= sent + 1
      BY <1>3, <3>1
    <3> QED BY <1>1, <3>1, <3>2 DEF UploadOf
  <2>2. CASE u = w
    <3>1. u.serial = sent + 1 /\ u.live
      BY <1>4, <2>2
    <3>2. u.serial <= sent' /\ u.serial > cutoff' /\ u.serial > followed'
      BY <1>1, <1>10, <2>0, <3>1 DEF PageTyped
    <3>3. \A v \in uploads' : v.live => u = v
      BY <1>5, <2>2
    <3> QED BY <3>1, <3>2, <3>3 DEF UploadOf
  <2> QED BY <1>5, <2>1, <2>2
<1>12. PageInv'
  <2>1. cutoff' <= sent' /\ followed' <= sent'
    BY <1>1, <1>6, <1>10 DEF Typed, PageTyped
  <2>2. taskId' # Nothing => taskId' = taskId /\ followed' = followed
    BY <1>2
  <2>3. documentId' # Nothing => documentId' = documentId
    BY <1>2
  <2> QED BY <1>2, <2>1, <2>2, <2>3 DEF PageInv, On, serverVars, lifecycleVars
<1>13. AnnouncedInv'
  <2>1. CASE UNCHANGED <<taskId, documentId, lastNotified, followed, told>>
    BY <1>2, <2>1, AnnouncedKept DEF serverVars, queryVars
  <2>2. CASE /\ taskId' = Nothing /\ documentId' = Nothing /\ lastNotified' = Nothing
             /\ followed' = 0 /\ told' = 0
    <3>1. Nothing \notin elected'
      BY <1>6, Constants DEF Typed, ServerTyped
    <3> QED BY <2>2, <3>1 DEF AnnouncedInv, Shown, Terminal
  <2> QED BY <1>2, <2>1, <2>2
<1> QED BY <1>6, <1>7, <1>9, <1>11, <1>12, <1>13

\* A submission is settled, and nothing else changes.
LEMMA DropInv ==
  ASSUME FrontendInv, NEW d \in uploads, DropStep(d)
  PROVE  FrontendInv'
<1> USE DEF FrontendInv
<1>1. /\ uploads' = uploads \ {d}
      /\ UNCHANGED <<serverVars, page, pageVars, sent, queryVars, ghosts>>
  BY DEF DropStep, TranscriptionRefused, SummaryRefused, IndexRefused, SettleUnmounted, Refused,
         Settle
<1>2. Typed'
  BY <1>1 DEF Typed, ServerTyped, PageTyped, UploadTyped, QueryTyped, serverVars,
         lifecycleVars, pageVars, queryVars, ghosts
<1>3. ASSUME NEW t \in Task PROVE ServerOf(t)' /\ QueryOf(t)'
  BY <1>1 DEF ServerOf, QueryOf, serverVars, lifecycleVars, queryVars
<1>4. ASSUME NEW u \in uploads' PROVE AnswerOf(u)' /\ UploadOf(u)'
  BY <1>1 DEF AnswerOf, UploadOf, serverVars, lifecycleVars, pageVars, ghosts
<1>5. PageInv'
  BY <1>1 DEF PageInv, On, IsPending, serverVars, lifecycleVars, pageVars, ghosts
<1>6. AnnouncedInv'
  BY <1>1, AnnouncedKept DEF serverVars, pageVars, queryVars, ghosts
<1> QED BY <1>2, <1>3, <1>4, <1>5, <1>6

\* The gateway answers: the task gets its record, or has it.
LEMMA RegisterInv ==
  ASSUME FrontendInv, NEW d \in uploads, NEW t \in Task, Register(d, t)
  PROVE  FrontendInv'
<1> USE DEF FrontendInv
<1>1. PICK s \in AcceptedStatus, hit \in BOOLEAN :
        /\ uploads' = (uploads \ {d}) \cup {[d EXCEPT !.answer = Accepted(t, s, hit)]}
        /\ Accepted(t, s, hit) \in Answer
        /\ d.answer = Waiting
        /\ \/ Queue(t) /\ ~hit /\ elected' = elected \cup {t} /\ s = "queued"
           \/ Complete(t) /\ status[t] = "absent" /\ hit /\ elected' = elected
              /\ s = "completed"
           \/ /\ UNCHANGED serverVars /\ ~hit /\ t \in elected /\ status[t] = s
        /\ UNCHANGED <<page, pageVars, sent, queryVars, ghosts>>
  BY RegisterEffect
<1> DEFINE a == Accepted(t, s, hit)
           w == [d EXCEPT !.answer = a]
<1>2. /\ w \in Upload
      /\ w.serial = d.serial /\ w.live = d.live /\ w.answer = a
  BY <1>1, AnsweredUpload DEF Typed, UploadTyped
<1>3. a.task = t /\ a.status = s /\ a.hit = hit
  BY DEF Accepted
<1> HIDE DEF a, w
<1>4. uploads' = (uploads \ {d}) \cup {w}
  BY <1>1 DEF w, a
<1>5. ServerTyped' /\ Advances /\ \A r \in Task : ServerOf(r)'
  <2>1. CASE Queue(t) \/ Complete(t)
    BY <1>1, <2>1, MoveServer DEF Typed, serverVars
  <2>2. CASE UNCHANGED serverVars
    BY <2>2, AdvancesAlways DEF Typed, ServerTyped, ServerOf, serverVars, lifecycleVars
  <2> QED BY <1>1, <2>1, <2>2
<1>6. Typed'
  BY <1>1, <1>2, <1>4, <1>5 DEF Typed, PageTyped, UploadTyped, QueryTyped, pageVars, queryVars,
         ghosts
<1>7. ASSUME NEW r \in Task PROVE QueryOf(r)'
  BY <1>1, <1>5, QueryKept DEF Typed, queryVars
<1>8. /\ s = "completed" => status'[t] = "completed"
      /\ status'[t] # "absent"
      /\ t \in elected' <=> ~hit
      /\ hit => status[t] = "absent" /\ s = "completed"
      /\ \A r \in Task : status[r] # "absent" => (r \in elected' <=> r \in elected)
  <2>1. CASE Queue(t) /\ ~hit /\ elected' = elected \cup {t} /\ s = "queued"
    BY <2>1 DEF Queue, Move, Typed, ServerTyped
  <2>2. CASE Complete(t) /\ status[t] = "absent" /\ hit /\ elected' = elected
             /\ s = "completed"
    BY <2>2 DEF Complete, Move, Typed, ServerTyped, ServerOf
  <2>3. CASE UNCHANGED serverVars /\ ~hit /\ t \in elected /\ status[t] = s
    BY <2>3 DEF serverVars, lifecycleVars, ServerOf
  <2> QED BY <1>1, <2>1, <2>2, <2>3
<1>9. ASSUME NEW u \in uploads' PROVE AnswerOf(u)'
  <2>1. CASE u \in uploads
    BY <1>1, <1>5, <1>8, <2>1, AnswerKept DEF pageVars
  <2>2. CASE u = w
    <3>1. hit => t # taskId
      BY <1>8, Constants DEF PageInv
    <3> QED BY <1>1, <1>2, <1>3, <1>8, <2>2, <3>1 DEF AnswerOf, pageVars
  <2> QED BY <1>4, <2>1, <2>2
<1>10. ASSUME NEW u \in uploads' PROVE UploadOf(u)'
  <2>1. sent' = sent /\ cutoff' = cutoff /\ followed' = followed /\ taskId' = taskId
    BY <1>1 DEF pageVars, ghosts
  <2>2. \A x \in uploads' : \E y \in uploads :
          /\ x.serial = y.serial /\ x.live = y.live
          /\ y = d => x = w
          /\ y # d => x = y
    BY <1>2, <1>4
  <2>3. PICK y \in uploads : u.serial = y.serial /\ u.live = y.live /\ (y = d => u = w)
                             /\ (y # d => u = y)
    BY <2>2
  <2>4. \A v \in uploads' : u.live /\ v.live => u = v
    BY <2>2, <2>3 DEF UploadOf
  <2> QED BY <2>1, <2>3, <2>4 DEF UploadOf
<1>11. IsPending' <=> IsPending
  BY <1>2, <1>4 DEF IsPending
<1>12. PageInv'
  <2>1. UNCHANGED <<cutoff, followed, sent, taskId, documentId, page>>
    BY <1>1 DEF pageVars, ghosts
  <2>2. \A r \in Task : status[r] # "absent" => status'[r] # "absent"
    BY <1>5, ReachesProperties DEF Advances, Known, Terminal
  <2>3. \A r \in Task : status[r] = "completed" => status'[r] = "completed"
    BY <1>5, ReachesProperties DEF Advances, Known, Terminal
  <2>4. taskId \in Task \cup {Nothing} /\ documentId \in Task \cup {Nothing}
    BY DEF Typed, PageTyped
  <2> QED BY <1>11, <2>1, <2>2, <2>3, <2>4 DEF PageInv, On
<1>13. AnnouncedInv'
  <2>1. taskId \in elected' => taskId \in elected
    BY <1>8, <1>5, Constants DEF PageInv, Typed, ServerTyped, PageTyped
  <2>2. elected \subseteq elected'
    BY <1>1 DEF serverVars
  <2> QED BY <1>1, <2>1, <2>2, AnnouncedKept DEF pageVars, queryVars, ghosts
<1> QED BY <1>5, <1>6, <1>7, <1>9, <1>10, <1>12, <1>13

\* The query cache is used: only polls and results change.
LEMMA FetchInv ==
  ASSUME FrontendInv, FetchStep
  PROVE  FrontendInv'
<1> USE DEF FrontendInv
<1>1. /\ UNCHANGED <<serverVars, page, pageVars, uploadVars, seen, ghosts>>
      /\ QueryTyped'
      /\ \A t \in Task : poll'[t] # poll[t] =>
           poll'[t] \in {"idle", "sent"} /\ (poll[t] # "idle" \/ t = taskId)
  <2>1. CASE \E t \in Task : SendPoll(t)
    BY <2>1 DEF SendPoll, Typed, QueryTyped
  <2>2. CASE \E t \in Task : PollFails(t)
    BY <2>2 DEF PollFails, Typed, QueryTyped
  <2>3. CASE \E t \in Task : ResultArrives(t)
    BY <2>3 DEF ResultArrives, Typed, QueryTyped
  <2>4. CASE FetchResult("scriber") \/ FetchResult("distiller")
    BY <2>4 DEF FetchResult, Typed, QueryTyped
  <2> QED BY <2>1, <2>2, <2>3, <2>4 DEF FetchStep
<1>2. Typed'
  BY <1>1 DEF Typed, ServerTyped, PageTyped, UploadTyped, serverVars, lifecycleVars, pageVars,
         uploadVars, ghosts
<1>3. ASSUME NEW t \in Task PROVE ServerOf(t)' /\ QueryOf(t)'
  <2>1. taskId = t => status[t] # "absent"
    BY Constants DEF PageInv
  <2>2. poll'[t] \in Known => poll'[t] = poll[t]
    BY <1>1 DEF Known, Terminal
  <2> QED BY <1>1, <2>1, <2>2 DEF ServerOf, QueryOf, serverVars, lifecycleVars
<1>4. ASSUME NEW u \in uploads PROVE AnswerOf(u)' /\ UploadOf(u)'
  BY <1>1 DEF AnswerOf, UploadOf, serverVars, lifecycleVars, pageVars, uploadVars, ghosts
<1>5. PageInv'
  BY <1>1 DEF PageInv, On, IsPending, serverVars, lifecycleVars, pageVars, uploadVars, ghosts
<1>6. AnnouncedInv'
  BY <1>1, AnnouncedKept DEF serverVars, pageVars, ghosts
<1> QED BY <1>1, <1>2, <1>3, <1>4, <1>5, <1>6 DEF uploadVars

LEMMA AnswerPollInv ==
  ASSUME FrontendInv, NEW t \in Task, AnswerPoll(t)
  PROVE  FrontendInv'
<1> USE DEF FrontendInv
<1>1. /\ poll[t] = "sent" /\ poll' = [poll EXCEPT ![t] = status[t]]
      /\ UNCHANGED <<serverVars, page, pageVars, uploadVars, seen, failing, result, ghosts>>
  BY DEF AnswerPoll
<1>2. status[t] \in Known
  BY <1>1 DEF Typed, ServerTyped, QueryOf
<1>3. Typed'
  BY <1>1, <1>2 DEF Typed, ServerTyped, PageTyped, UploadTyped, QueryTyped, serverVars,
         lifecycleVars, pageVars, uploadVars, ghosts
<1>4. ASSUME NEW r \in Task PROVE ServerOf(r)' /\ QueryOf(r)'
  <2>1. poll'[r] = IF r = t THEN status[t] ELSE poll[r]
    BY <1>1 DEF Typed, QueryTyped
  <2>2. Reaches(status[t], status[t])
    BY <1>2, ReachesProperties
  <2> QED BY <1>1, <1>2, <2>1, <2>2 DEF ServerOf, QueryOf, serverVars, lifecycleVars, Known,
             Terminal
<1>5. ASSUME NEW u \in uploads PROVE AnswerOf(u)' /\ UploadOf(u)'
  BY <1>1 DEF AnswerOf, UploadOf, serverVars, lifecycleVars, pageVars, uploadVars, ghosts
<1>6. PageInv'
  BY <1>1 DEF PageInv, On, IsPending, serverVars, lifecycleVars, pageVars, uploadVars, ghosts
<1>7. AnnouncedInv'
  BY <1>1, AnnouncedKept DEF serverVars, pageVars, ghosts
<1> QED BY <1>1, <1>3, <1>4, <1>5, <1>6, <1>7 DEF uploadVars

\* The answer of a poll is shown, and announced if it is news.
LEMMA TaskSeenInv ==
  ASSUME FrontendInv, NEW t \in Task, TaskSeen(t)
  PROVE  FrontendInv'
<1> USE DEF FrontendInv
<1>1. /\ poll[t] \in Known
      /\ seen' = [seen EXCEPT ![t] = poll[t]]
      /\ failing' = [failing EXCEPT ![t] = FALSE]
      /\ poll' = [poll EXCEPT ![t] = "idle"]
      /\ UNCHANGED <<serverVars, page, form, taskId, documentId, uploadVars, result,
                     followed, cutoff>>
      /\ \/ UNCHANGED <<lastNotified, told>>
         \/ t = taskId /\ poll[t] \in Terminal /\ poll[t] # seen[t] /\ lastNotified # t
            /\ Announce(t)
      /\ t = taskId /\ poll[t] \in Terminal /\ UNCHANGED <<lastNotified, told>> =>
           lastNotified = t \/ poll[t] = seen[t] \/ (On("gleaner") /\ documentId = t)
  BY DEF TaskSeen, TranscriptionSeen, SummarySeen, IndexSeen, ReceiveTask,
         AnnouncesTranscription, AnnouncesSummary, AnnouncesIndexing, Announce, Terminal
<1>2. poll[t] \in {"idle", "sent"} \cup Known /\ taskId \in Task \cup {Nothing}
  BY DEF Typed, QueryTyped, PageTyped
<1>3. Typed'
  <2>1. QueryTyped'
    BY <1>1 DEF Typed, QueryTyped
  <2>2. lastNotified' \in Task \cup {Nothing}
    BY <1>1 DEF Announce, Typed, PageTyped
  <2> QED BY <1>1, <2>1, <2>2 DEF Typed, ServerTyped, PageTyped, UploadTyped, serverVars,
             lifecycleVars, uploadVars
<1>4. \A r \in Task : /\ seen'[r] = IF r = t THEN poll[t] ELSE seen[r]
                      /\ poll'[r] = IF r = t THEN "idle" ELSE poll[r]
  BY <1>1 DEF Typed, QueryTyped
<1>5. ASSUME NEW r \in Task PROVE ServerOf(r)' /\ QueryOf(r)'
  BY <1>1, <1>4 DEF ServerOf, QueryOf, serverVars, lifecycleVars, Known, Terminal
<1>6. ASSUME NEW u \in uploads PROVE AnswerOf(u)' /\ UploadOf(u)'
  BY <1>1 DEF AnswerOf, UploadOf, serverVars, lifecycleVars, uploadVars
<1>7. PageInv'
  BY <1>1 DEF PageInv, On, IsPending, serverVars, lifecycleVars, uploadVars
<1>8. seen[t] \in Terminal => poll[t] = seen[t]
  <2>1. seen[t] # "none" => Reaches(seen[t], poll[t])
    BY <1>1 DEF QueryOf
  <2> QED BY <2>1, ReachesProperties DEF Terminal
<1>9. AnnouncedInv'
  <2>1. CASE t # taskId
    <3>1. Shown' = Shown
      BY <1>1, <1>2, <1>4, <2>1 DEF Shown
    <3> QED BY <1>1, <2>1, <3>1 DEF AnnouncedInv, AcceptedUnannounced, On, serverVars
  <2>2. CASE t = taskId
    <3>1. Shown = seen[t] /\ Shown' = poll[t] /\ t # Nothing
      BY <1>1, <1>2, <1>4, <2>2, Constants DEF Shown
    <3>2. CASE UNCHANGED <<lastNotified, told>>
      <4>1. poll[t] \in Terminal => told = 1 \/ AcceptedUnannounced
        BY <1>1, <2>2, <3>1, <3>2, Constants DEF AnnouncedInv
      <4> QED BY <1>1, <1>8, <2>2, <3>1, <3>2, <4>1 DEF AnnouncedInv, AcceptedUnannounced, On,
               serverVars
    <3>3. CASE poll[t] \in Terminal /\ poll[t] # seen[t] /\ lastNotified # t /\ Announce(t)
      <4>1. told = 0
        BY <1>8, <2>2, <3>1, <3>3 DEF AnnouncedInv
      <4>2. told' = 1 /\ lastNotified' = t
        BY <2>2, <3>3, <4>1 DEF Announce, Told
      <4> QED BY <1>1, <2>2, <3>1, <3>3, <4>2 DEF AnnouncedInv, AcceptedUnannounced, On, serverVars
    <3> QED BY <1>1, <3>2, <3>3
  <2> QED BY <2>1, <2>2
<1> QED BY <1>1, <1>3, <1>5, <1>6, <1>7, <1>9 DEF uploadVars

\* What all pages do with an accepted submission.
LEMMA AcceptEffect ==
  ASSUME NEW d \in uploads, AcceptStep(d)
  PROVE  /\ d.live /\ d.answer # Waiting
         /\ uploads' = uploads \ {d}
         /\ taskId' = d.answer.task
         /\ followed' = d.serial
         /\ Observe(d.answer.task)
         /\ UNCHANGED <<serverVars, page, form, sent, seen, cutoff>>
BY DEF AcceptStep, TranscriptionAccepted, SummaryAccepted, IndexAccepted, Settle

LEMMA ObserveTyped ==
  ASSUME QueryTyped, NEW t \in Task, Observe(t), UNCHANGED seen
  PROVE  /\ QueryTyped'
         /\ \A r \in Task : poll'[r] # poll[r] => r = t /\ poll'[r] = "sent"
<1>1. CASE t = taskId
  BY <1>1 DEF Observe, QueryTyped
<1>2. CASE t # taskId
  BY <1>2 DEF Observe, QueryTyped
<1> QED BY <1>1, <1>2

\* The announcement of what is known of a task when the page comes to follow it.
LEMMA AcceptAnnounced ==
  ASSUME FrontendInv, NEW d \in uploads, AcceptStep(d)
  PROVE  /\ AnnouncedInv'
         /\ lastNotified' \in Task \cup {Nothing}
         /\ documentId' \in {documentId, d.answer.task}
         /\ documentId' # documentId => d.answer.status = "completed"
         /\ On("gleaner") => documentId' \in {Nothing, d.answer.task}
<1> USE DEF FrontendInv
<1> DEFINE t == d.answer.task
           hit == d.answer.hit
           done == d.answer.status = "completed"
<1>1. /\ d.live /\ d.answer # Waiting
      /\ taskId' = t
      /\ UNCHANGED <<serverVars, page, seen>>
  BY AcceptEffect
<1>2. /\ t \in Task /\ t # Nothing
      /\ t \in elected <=> ~hit
      /\ hit => t # taskId /\ done
  BY <1>1, Constants DEF AnswerOf
<1>3. /\ Shown' = seen[t] /\ (On("gleaner"))' = On("gleaner") /\ elected' = elected
  BY <1>1, <1>2 DEF Shown, On, serverVars
<1>4. /\ lastNotified \in {Nothing, taskId} /\ lastNotified \in Task \cup {Nothing}
      /\ told \in {0, 1}
      /\ told = 1 => lastNotified = taskId \/ Shown \in Terminal
      /\ ~On("gleaner") => (lastNotified # Nothing => told = 1)
      /\ ~On("gleaner") => (Shown \in Terminal => told = 1)
      /\ ~On("gleaner") /\ taskId \in elected /\ lastNotified = taskId => Shown \in Terminal
  BY DEF AnnouncedInv, AcceptedUnannounced, Typed, PageTyped
<1>5. t = taskId => Shown = seen[t]
  BY <1>2 DEF Shown
<1>6. CASE ~On("gleaner")
  <2>1. /\ documentId' = documentId
        /\ \/ (hit \/ (t # taskId /\ seen[t] \in Terminal)) /\ Announce(t)
           \/ /\ ~(hit \/ (t # taskId /\ seen[t] \in Terminal))
              /\ lastNotified' = Nothing /\ told' = Told(t)
    BY <1>6 DEF AcceptStep, TranscriptionAccepted, SummaryAccepted, IndexAccepted
  <2>2. CASE (hit \/ (t # taskId /\ seen[t] \in Terminal)) /\ Announce(t)
    <3>1. t # taskId
      BY <1>2, <2>2
    <3>2. lastNotified' = t /\ told' = 1
      BY <2>2, <3>1 DEF Announce, Told
    <3>3. t \in elected => seen[t] \in Terminal
      BY <1>2, <2>2
    <3> HIDE DEF t, hit
    <3> QED BY <1>1, <1>2, <1>3, <1>6, <2>1, <3>2, <3>3 DEF AnnouncedInv
  <2>3. CASE /\ ~(hit \/ (t # taskId /\ seen[t] \in Terminal))
             /\ lastNotified' = Nothing /\ told' = Told(t)
    <3>1. told' \in {0, 1} /\ (t # taskId => told' = 0) /\ (t = taskId => told' = told)
      BY <1>4, <2>3 DEF Told
    <3>2. t \in elected
      BY <1>2, <2>3
    <3>3. seen[t] \in Terminal => told' = 1
      BY <1>4, <1>5, <1>6, <2>3, <3>1
    <3>4. told' = 1 => seen[t] \in Terminal
      BY <1>4, <1>5, <1>6, <3>1, <3>2
    <3> HIDE DEF t, hit
    <3> QED BY <1>1, <1>2, <1>3, <1>6, <2>1, <2>3, <3>1, <3>3, <3>4 DEF AnnouncedInv
  <2> QED BY <2>1, <2>2, <2>3
<1>7. CASE On("gleaner")
  <2> DEFINE news == ~done /\ AnnouncesIndexing(t, seen[t])
  <2>1. /\ documentId' = IF done THEN t ELSE documentId
        /\ lastNotified' = IF done \/ news THEN t ELSE lastNotified
        /\ told' = IF hit \/ news THEN Told(t) + 1 ELSE Told(t)
    BY <1>7 DEF AcceptStep, TranscriptionAccepted, SummaryAccepted, IndexAccepted, On
  <2>2. taskId = Nothing /\ documentId = Nothing /\ lastNotified = Nothing
    BY <1>1, <1>4, <1>7 DEF PageInv, IsPending
  <2>3. Told(t) = 0
    BY <1>2, <2>2 DEF Told
  <2>4. CASE hit \/ news
    <3>1. told' = 1
      BY <2>1, <2>3, <2>4
    <3>2. lastNotified' = t
      BY <1>2, <2>1, <2>4
    <3>3. page' = "gleaner"
      BY <1>1, <1>7 DEF On
    <3>4. AnnouncedInv'
      <4> HIDE DEF t, hit, done, news
      <4> QED BY <1>1, <3>1, <3>2, <3>3 DEF AnnouncedInv, On
    <3>5. documentId' \in {Nothing, t} /\ (documentId' # Nothing => done)
      BY <2>1, <2>2
    <3> QED BY <1>2, <1>7, <2>2, <3>2, <3>4, <3>5
  <2>5. CASE ~hit /\ ~news /\ done
    <3>1. documentId' = t /\ lastNotified' = t /\ told' = 0
      BY <2>1, <2>3, <2>5
    <3>2. t \in elected /\ page' = "gleaner"
      BY <1>1, <1>2, <1>7, <2>5 DEF On
    <3>3. AcceptedUnannounced'
      BY <1>1, <1>3, <3>1, <3>2 DEF AcceptedUnannounced, On
    <3>4. AnnouncedInv'
      <4> HIDE DEF t, hit, done, news
      <4> QED BY <1>1, <3>1, <3>2, <3>3 DEF AnnouncedInv, On
    <3> QED BY <1>2, <1>7, <2>5, <3>1, <3>4
  <2>6. CASE ~hit /\ ~news /\ ~done
    <3>1. documentId' = Nothing /\ lastNotified' = Nothing /\ told' = 0
      BY <2>1, <2>2, <2>3, <2>6
    <3>2. seen[t] \notin Terminal
      BY <1>2, <2>2, <2>6 DEF AnnouncesIndexing, Terminal
    <3> HIDE DEF t, hit, done, news
    <3> QED BY <1>1, <1>2, <1>3, <1>7, <2>1, <2>2, <3>1, <3>2 DEF AnnouncedInv
  <2> QED BY <2>4, <2>5, <2>6
<1> QED BY <1>6, <1>7

LEMMA AcceptInv ==
  ASSUME FrontendInv, NEW d \in uploads, AcceptStep(d)
  PROVE  FrontendInv'
<1> USE DEF FrontendInv
<1> DEFINE t == d.answer.task
<1>1. /\ d.live /\ d.answer # Waiting
      /\ uploads' = uploads \ {d}
      /\ taskId' = t /\ followed' = d.serial
      /\ Observe(t)
      /\ UNCHANGED <<serverVars, page, form, sent, seen, cutoff>>
  BY AcceptEffect
<1>2. /\ t \in Task /\ status[t] # "absent"
      /\ d.answer.status = "completed" => status[t] = "completed"
  BY <1>1 DEF AnswerOf
<1>3. d.serial > cutoff /\ d.serial <= sent /\ d.serial \in 0 .. MaxUploads
  BY <1>1, Constants DEF UploadOf, Typed, UploadTyped, Upload
<1>4. /\ AnnouncedInv'
      /\ lastNotified' \in Task \cup {Nothing}
      /\ documentId' \in {documentId, t}
      /\ documentId' # documentId => d.answer.status = "completed"
      /\ On("gleaner") => documentId' \in {Nothing, t}
  BY AcceptAnnounced
<1>5. /\ QueryTyped'
      /\ \A r \in Task : poll'[r] # poll[r] => r = t /\ poll'[r] = "sent"
  BY <1>1, <1>2, ObserveTyped DEF Typed
<1>6. \A u \in uploads' : ~u.live
  BY <1>1 DEF UploadOf
<1>7. Typed'
  <2>1. documentId' \in Task \cup {Nothing}
    BY <1>2, <1>4 DEF Typed, PageTyped
  <2> HIDE DEF t
  <2>2. PageTyped'
    BY <1>1, <1>2, <1>3, <1>4, <2>1 DEF Typed, PageTyped
  <2> QED BY <1>1, <1>5, <2>2 DEF Typed, ServerTyped, UploadTyped, serverVars, lifecycleVars
<1>8. ASSUME NEW r \in Task PROVE ServerOf(r)' /\ QueryOf(r)'
  BY <1>1, <1>2, <1>5 DEF ServerOf, QueryOf, serverVars, lifecycleVars, Known, Terminal
<1>9. ASSUME NEW u \in uploads' PROVE AnswerOf(u)' /\ UploadOf(u)'
  BY <1>1, <1>6 DEF AnswerOf, UploadOf, serverVars, lifecycleVars
<1>10. PageInv'
  <2>1. ~IsPending'
    BY <1>6 DEF IsPending
  <2>2. documentId' # Nothing => status[documentId'] = "completed"
    BY <1>2, <1>4 DEF PageInv
  <2>3. cutoff <= sent
    BY DEF PageInv
  <2> HIDE DEF t
  <2> QED BY <1>1, <1>2, <1>3, <1>4, <2>1, <2>2, <2>3 DEF PageInv, On, serverVars, lifecycleVars
<1> QED BY <1>4, <1>7, <1>8, <1>9, <1>10

\* The page follows no task any more, and its submissions are those of before.
LEMMA ForgetInv ==
  ASSUME FrontendInv,
         taskId' = Nothing, lastNotified' = Nothing, told' = 0, followed' = 0, cutoff' = sent,
         documentId' \in {documentId, Nothing}, On("gleaner") => documentId' = Nothing,
         form' \in Form, UNCHANGED <<serverVars, page, sent, queryVars>>,
         \/ uploads' = uploads /\ ~IsPending
         \/ uploads' = {[u EXCEPT !.live = FALSE] : u \in uploads}
  PROVE  FrontendInv'
<1> USE DEF FrontendInv
<1>1. \A w \in uploads' : \E u \in uploads :
        /\ w \in Upload /\ ~w.live
        /\ w.serial = u.serial /\ w.answer = u.answer
  <2>1. CASE uploads' = uploads /\ ~IsPending
    BY <2>1 DEF IsPending, Typed, UploadTyped
  <2>2. CASE uploads' = {[u EXCEPT !.live = FALSE] : u \in uploads}
    <3> TAKE w \in uploads'
    <3>1. PICK u \in uploads : w = [u EXCEPT !.live = FALSE]
      BY <2>2
    <3>2. u \in Upload
      BY DEF Typed, UploadTyped
    <3> QED BY <3>1, <3>2, LeftUpload
  <2> QED BY <2>1, <2>2
<1>2. sent \in 0 .. MaxUploads
  BY DEF Typed, UploadTyped
<1>3. Typed'
  <2>1. PageTyped'
    BY <1>2, Constants DEF Typed, PageTyped
  <2>2. UploadTyped'
    BY <1>1, <1>2 DEF UploadTyped
  <2> QED BY <2>1, <2>2 DEF Typed, ServerTyped, QueryTyped, serverVars, lifecycleVars, queryVars
<1>4. ASSUME NEW t \in Task PROVE ServerOf(t)' /\ QueryOf(t)'
  BY DEF ServerOf, QueryOf, serverVars, lifecycleVars, queryVars
<1>5. ASSUME NEW w \in uploads' PROVE AnswerOf(w)' /\ UploadOf(w)'
  BY <1>1 DEF AnswerOf, UploadOf, serverVars, lifecycleVars
<1>6. PageInv'
  BY <1>2, Constants DEF PageInv, On, serverVars, lifecycleVars
<1>7. AnnouncedInv'
  <2>1. Nothing \notin elected'
    BY <1>3, Constants DEF Typed, ServerTyped
  <2> QED BY <2>1 DEF AnnouncedInv, AcceptedUnannounced, On, Shown, Terminal
<1> QED BY <1>3, <1>4, <1>5, <1>6, <1>7

LEMMA ResetInv ==
  ASSUME FrontendInv, ResetStep
  PROVE  FrontendInv'
<1>1. form \in Form /\ Nothing \in Content \cup {Nothing}
  BY DEF FrontendInv, Typed, PageTyped
<1>2. [form EXCEPT !.content = Nothing] \in Form
  BY <1>1 DEF Form
<1>3. ResetGleaner => ~IsPending
  BY DEF ResetGleaner, CanResetGleaner, Phase, ReadyDocumentId, Shown, FrontendInv, PageInv, On
<1>4. ~IsPending /\ uploads' = uploads
  BY <1>3 DEF ResetStep, ResetScriber, ResetDistiller, ResetGleaner, CanResetScriber,
         CanResetDistiller, uploadVars
<1>5. /\ taskId' = Nothing /\ lastNotified' = Nothing /\ told' = 0 /\ followed' = 0
      /\ cutoff' = sent
      /\ documentId' \in {documentId, Nothing} /\ (On("gleaner") => documentId' = Nothing)
      /\ form' = [form EXCEPT !.content = Nothing]
      /\ UNCHANGED <<serverVars, page, sent, queryVars>>
  BY DEF ResetStep, ResetScriber, ResetDistiller, ResetGleaner, On, uploadVars
<1> QED BY <1>2, <1>4, <1>5, ForgetInv

LEMMA RemountInv ==
  ASSUME FrontendInv, Remount
  PROVE  FrontendInv'
<1>1. EmptyForm \in Form
  BY Constants DEF EmptyForm, Form
<1> QED BY <1>1, ForgetInv DEF Remount

LEMMA ServerMovesInv ==
  ASSUME FrontendInv, NEW t \in Task, ServerMoves(t)
  PROVE  FrontendInv'
<1> USE DEF FrontendInv
<1>1. UNCHANGED <<elected, page, pageVars, uploadVars, queryVars, ghosts>>
  BY DEF ServerMoves
<1>2. ServerTyped' /\ Advances /\ \A r \in Task : ServerOf(r)'
  BY <1>1, MoveServer DEF Typed
<1>3. Typed'
  BY <1>1, <1>2 DEF Typed, PageTyped, UploadTyped, QueryTyped, pageVars, uploadVars, queryVars,
         ghosts
<1>4. ASSUME NEW r \in Task PROVE QueryOf(r)'
  BY <1>1, <1>2, QueryKept DEF Typed, queryVars
<1>5. ASSUME NEW u \in uploads PROVE AnswerOf(u)' /\ UploadOf(u)'
  BY <1>1, <1>2, AnswerKept DEF UploadOf, pageVars, uploadVars, ghosts
<1>6. PageInv'
  <2>1. \A r \in Task : status[r] # "absent" => status'[r] # "absent"
    BY <1>2, ReachesProperties DEF Advances, Known, Terminal
  <2>2. \A r \in Task : status[r] = "completed" => status'[r] = "completed"
    BY <1>2, ReachesProperties DEF Advances, Known, Terminal
  <2>3. taskId \in Task \cup {Nothing} /\ documentId \in Task \cup {Nothing}
    BY DEF Typed, PageTyped
  <2> QED BY <1>1, <2>1, <2>2, <2>3 DEF PageInv, On, IsPending, pageVars, uploadVars, ghosts
<1>7. AnnouncedInv'
  BY <1>1, AnnouncedKept DEF pageVars, queryVars, ghosts
<1> QED BY <1>1, <1>2, <1>3, <1>4, <1>5, <1>6, <1>7 DEF uploadVars

LEMMA StutterInv ==
  ASSUME FrontendInv, UNCHANGED vars
  PROVE  FrontendInv'
BY DEF FrontendInv, Typed, ServerTyped, PageTyped, UploadTyped, QueryTyped, ServerOf, QueryOf,
       AnswerOf, UploadOf, PageInv, AnnouncedInv, AcceptedUnannounced, On, IsPending, Shown,
       vars, serverVars, lifecycleVars, pageVars, uploadVars, queryVars, ghosts

LEMMA FrontendStep == ASSUME FrontendInv, [Next]_vars PROVE FrontendInv'
BY Steps, FormInv, SubmitInv, FetchInv, ResetInv, RemountInv, AcceptInv, DropInv, RegisterInv,
   AnswerPollInv, TaskSeenInv, ServerMovesInv, StutterInv

LEMMA FrontendAlways == Spec => []FrontendInv
BY FrontendInit, FrontendStep, PTL DEF Spec

-----------------------------------------------------------------------------
\* For any pages, contents, tasks and numbers of submissions the state of the tab
\* keeps its types: a poll is only answered for a task the system has a record of.
THEOREM TypeCorrect == Spec => []TypeOK
<1>1. ASSUME FrontendInv PROVE TypeOK
  <2> USE <1>1 DEF FrontendInv, Typed
  <2>1. {taskId, documentId, lastNotified} \subseteq Task \cup {Nothing}
    BY DEF PageTyped
  <2>2. {followed, cutoff} \subseteq 0 .. MaxUploads
    BY DEF PageTyped
  <2>3. told \in 0 .. 2
    BY DEF AnnouncedInv
  <2>4. /\ status \in [Task -> {"absent"} \cup Known] /\ stored \subseteq Fingerprint
        /\ elected \subseteq Task
        /\ seen \in [Task -> {"none"} \cup Known] /\ failing \in [Task -> BOOLEAN]
        /\ poll \in [Task -> {"idle", "sent"} \cup Known]
        /\ result \in [Task -> {"none", "sent", "ready", "error"}]
    BY DEF ServerTyped, QueryTyped
  <2>5. uploads \subseteq [serial : 1 .. MaxUploads, request : Fingerprint, live : BOOLEAN,
                           answer : [task : Task \cup {Nothing},
                                     status : {"absent"} \cup AcceptedStatus, hit : BOOLEAN]]
    BY DEF UploadTyped, Upload, Answer
  <2>6. page \in Page /\ form \in [content : Content \cup {Nothing}, style : Style]
        /\ sent \in 0 .. MaxUploads
    BY DEF PageTyped, Form, UploadTyped
  <2> HIDE DEF FrontendInv, Typed
  <2> QED BY <2>1, <2>2, <2>3, <2>4, <2>5, <2>6, Zenon DEF TypeOK
<1> QED BY <1>1, FrontendAlways, PTL

\* The page follows the newest of its submissions that was accepted since the last
\* reset or mount: Reset and the form are closed while one is pending.
THEOREM NewestFollowed == Spec => []NewestSubmissionFollowed
<1>1. ASSUME FrontendInv PROVE NewestSubmissionFollowed
  BY <1>1 DEF FrontendInv, PageInv, UploadOf, NewestSubmissionFollowed
<1> QED BY <1>1, FrontendAlways, PTL

\* No outcome is announced twice while the page follows its task, through whatever
\* cached results, attached submissions and overtaking polls it learns of it.
THEOREM OutcomeToldOnce == Spec => []AnnouncedOnce
<1>1. ASSUME FrontendInv PROVE AnnouncedOnce
  BY <1>1 DEF FrontendInv, AnnouncedInv, AnnouncedOnce
<1> QED BY <1>1, FrontendAlways, PTL

\* A page that shows an outcome has announced it, save for a Gleaner document accepted as
\* already indexed by the task of another request: of that one it has announced nothing.
THEOREM ShownIsTold == Spec => []OutcomeAnnounced
<1>1. ASSUME FrontendInv PROVE OutcomeAnnounced
  BY <1>1 DEF FrontendInv, AnnouncedInv, OutcomeAnnounced
<1> QED BY <1>1, FrontendAlways, PTL

\* A document that questions can be asked about is one the system has indexed.
THEOREM AskedIsIndexed == Spec => []AskOnlyIndexed
<1>1. ASSUME FrontendInv PROVE AskOnlyIndexed
  <2> USE <1>1 DEF FrontendInv
  <2> SUFFICES ASSUME ReadyDocumentId # Nothing
               PROVE  status[ReadyDocumentId] = "completed" /\ FpOf[ReadyDocumentId] \in stored
    BY DEF AskOnlyIndexed, Phase
  <2>1. ReadyDocumentId \in Task
    BY DEF ReadyDocumentId, Typed, PageTyped
  <2>2. CASE documentId # Nothing
    BY <2>1, <2>2 DEF ReadyDocumentId, PageInv, ServerOf
  <2>3. CASE documentId = Nothing
    <3>1. ReadyDocumentId = taskId /\ seen[taskId] = "completed"
      BY <2>3 DEF ReadyDocumentId, Shown
    <3>2. Reaches(seen[taskId], status[taskId])
      BY <2>1, <3>1 DEF QueryOf
    <3>3. status[taskId] = "completed"
      BY <3>1, <3>2, ReachesProperties DEF Terminal
    <3> QED BY <2>1, <3>1, <3>3 DEF ServerOf
  <2> QED BY <2>2, <2>3
<1> QED BY <1>1, FrontendAlways, PTL

-----------------------------------------------------------------------------
\* What the page shows of a task changes when a poll is answered, to a later status.
LEMMA SeenStep ==
  ASSUME FrontendInv, [Next]_vars
  PROVE  \/ seen' = seen
         \/ \E t \in Task : poll[t] \in Known /\ seen' = [seen EXCEPT ![t] = poll[t]]
<1>1. CASE \E t \in Task : TaskSeen(t)
  BY <1>1 DEF TaskSeen, TranscriptionSeen, SummarySeen, IndexSeen, ReceiveTask
<1>2. CASE \E u \in uploads : AcceptStep(u)
  BY <1>2, AcceptEffect
<1>3. CASE FormStep
  BY <1>3, FormTyped DEF FormFrame, queryVars, FrontendInv, Typed, PageTyped
<1>4. CASE SubmitStep \/ FetchStep \/ ResetStep \/ Remount
  BY <1>4 DEF SubmitStep, SubmitAudio, SubmitSummary, HandleIndex, FetchStep, SendPoll,
         PollFails, ResultArrives, FetchResult, ResetStep, ResetScriber, ResetDistiller,
         ResetGleaner, Remount, queryVars
<1>5. CASE \E u \in uploads : DropStep(u) \/ \E t \in Task : Register(u, t)
  BY <1>5 DEF DropStep, TranscriptionRefused, SummaryRefused, IndexRefused, SettleUnmounted,
         Refused, Register, queryVars
<1>6. CASE (\E t \in Task : AnswerPoll(t) \/ ServerMoves(t)) \/ UNCHANGED vars
  BY <1>6 DEF AnswerPoll, ServerMoves, vars, queryVars
<1> QED BY <1>1, <1>2, <1>3, <1>4, <1>5, <1>6, Steps

LEMMA RankOfReached ==
  ASSUME NEW a, NEW b, Reaches(a, b), a # b
  PROVE  RankOf(b) > RankOf(a) /\ RankOf(b) > 0
<1>1. CASE a = "queued"
  BY <1>1 DEF Reaches, RankOf, Known, Terminal
<1>2. CASE a = "processing"
  BY <1>2 DEF Reaches, RankOf, Known, Terminal
<1>3. CASE a \in Terminal
  BY <1>3, ReachesProperties
<1> QED BY <1>1, <1>2, <1>3 DEF Reaches, Known

\* What a page shows of a task never goes back.
THEOREM ShownOnlyAdvances == Spec => ShownAdvances
<1>1. ASSUME FrontendInv, [Next]_vars
      PROVE  [\A t \in Task : seen'[t] # seen[t] => RankOf(seen'[t]) > RankOf(seen[t])]_seen
  <2>1. CASE seen' = seen
    BY <2>1
  <2>2. CASE \E t \in Task : poll[t] \in Known /\ seen' = [seen EXCEPT ![t] = poll[t]]
    <3>1. PICK t \in Task : poll[t] \in Known /\ seen' = [seen EXCEPT ![t] = poll[t]]
      BY <2>2
    <3>2. /\ seen'[t] = poll[t]
          /\ \A r \in Task : r # t => seen'[r] = seen[r]
          /\ seen[t] \in {"none"} \cup Known
      BY <1>1, <3>1 DEF FrontendInv, Typed, QueryTyped
    <3>3. CASE seen[t] = "none"
      <4>1. RankOf(poll[t]) > 0 /\ RankOf(seen[t]) = 0
        BY <3>1, <3>3 DEF RankOf, Known, Terminal
      <4> QED BY <3>2, <4>1
    <3>4. CASE seen[t] # "none"
      <4>1. Reaches(seen[t], poll[t])
        BY <1>1, <3>1, <3>4 DEF FrontendInv, QueryOf
      <4> QED BY <3>2, <4>1, RankOfReached
    <3> QED BY <3>3, <3>4
  <2> QED BY <1>1, <2>1, <2>2, SeenStep
<1> QED BY <1>1, FrontendAlways, PTL DEF Spec, ShownAdvances

-----------------------------------------------------------------------------
\* How the document that is asked about may change.
DocumentKept ==
  ReadyDocumentId # Nothing /\ cutoff' = cutoff
    => ReadyDocumentId' = ReadyDocumentId \/ page # "gleaner"

LEMMA DocumentStep ==
  ASSUME FrontendInv, [Next]_vars
  PROVE  DocumentKept
<1> SUFFICES ASSUME ReadyDocumentId # Nothing, cutoff' = cutoff, page = "gleaner"
             PROVE  ReadyDocumentId' = ReadyDocumentId
  BY DEF DocumentKept
<1> USE DEF FrontendInv
<1>1. taskId # Nothing /\ taskId \in Task
  BY DEF ReadyDocumentId, Shown, PageInv, On, Typed, PageTyped
<1>2. ~IsPending
  BY <1>1 DEF PageInv, On
<1>3. cutoff # sent
  BY <1>1 DEF PageInv, Typed, PageTyped, UploadTyped
<1>4. ASSUME UNCHANGED <<taskId, documentId>> PROVE ReadyDocumentId' = ReadyDocumentId
  <2>1. seen[taskId] = "completed" => seen'[taskId] = "completed"
    <3>1. CASE \E t \in Task : poll[t] \in Known /\ seen' = [seen EXCEPT ![t] = poll[t]]
      <4>1. PICK t \in Task : poll[t] \in Known /\ seen' = [seen EXCEPT ![t] = poll[t]]
        BY <3>1
      <4>2. CASE t = taskId /\ seen[taskId] = "completed"
        <5>1. Reaches(seen[t], poll[t])
          BY <4>1, <4>2 DEF QueryOf
        <5>2. poll[t] = "completed"
          BY <4>2, <5>1, ReachesProperties DEF Terminal
        <5> QED BY <4>1, <4>2, <5>2 DEF Typed, QueryTyped
      <4>3. CASE t # taskId
        BY <1>1, <4>1, <4>3 DEF Typed, QueryTyped
      <4> QED BY <4>2, <4>3
    <3> QED BY <3>1, SeenStep
  <2>2. documentId \in {Nothing, taskId}
    BY DEF PageInv, On
  <2> QED BY <1>1, <1>4, <2>1, <2>2 DEF ReadyDocumentId, Shown
<1>5. CASE FormStep
  BY <1>4, <1>5, FormTyped DEF FormFrame, Typed, PageTyped
<1>6. ~SubmitStep
  BY <1>1 DEF SubmitStep, SubmitAudio, SubmitSummary, HandleIndex, On, Phase
<1>7. ~ResetStep /\ ~Remount
  BY <1>3 DEF ResetStep, ResetScriber, ResetDistiller, ResetGleaner, Remount
<1>8. ~(\E u \in uploads : AcceptStep(u))
  BY <1>2, AcceptEffect DEF IsPending
<1>9. CASE FetchStep
  BY <1>4, <1>9 DEF FetchStep, SendPoll, PollFails, ResultArrives, FetchResult, pageVars
<1>10. CASE \E u \in uploads : DropStep(u) \/ \E t \in Task : Register(u, t)
  BY <1>4, <1>10 DEF DropStep, TranscriptionRefused, SummaryRefused, IndexRefused,
         SettleUnmounted, Refused, Register, pageVars
<1>11. CASE \E t \in Task : AnswerPoll(t) \/ TaskSeen(t) \/ ServerMoves(t)
  BY <1>4, <1>11 DEF AnswerPoll, TaskSeen, TranscriptionSeen, SummarySeen, IndexSeen,
         ReceiveTask, ServerMoves, pageVars
<1>12. CASE UNCHANGED vars
  BY <1>4, <1>12 DEF vars, pageVars
<1> QED BY <1>5, <1>6, <1>7, <1>8, <1>9, <1>10, <1>11, <1>12, Steps

\* No answer of a poll or of an upload takes the indexed document away: on the Gleaner
\* page it changes only with a reset or a departure, which move the cutoff.
THEOREM DocumentOnlyReset == Spec => DocumentStays
<1>1. ASSUME FrontendInv, [Next]_vars PROVE [DocumentKept]_vars
  BY <1>1, DocumentStep
<1> QED BY <1>1, FrontendAlways, PTL DEF Spec, DocumentStays, DocumentKept
=============================================================================
