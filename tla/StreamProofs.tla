---------------------------- MODULE StreamProofs ----------------------------
(***************************************************************************)
(* Theorems about AnswerStream, for any number of questions, tokens, jobs  *)
(* and faults.                                                             *)
(*                                                                         *)
(* The argument follows one answer through its places.  Of what the worker *)
(* publishes for a question that is still listed, what preceded the        *)
(* subscription is missed; the rest is, in order and without a gap, what   *)
(* the message shows, what is on its way to the tab, and what waits for    *)
(* the relay.  StreamInv says so by position; it is inductive since each   *)
(* step takes the first element of one place and puts it at the end of the *)
(* next, and a step of another question leaves the places alone (Same).    *)
(* A connection that broke and a call that was aborted are the two cases   *)
(* where something is dropped: it is then dropped at the end.              *)
(***************************************************************************)
EXTENDS AnswerStream, SequenceTheorems, WellFoundedInduction, TLAPS

-----------------------------------------------------------------------------
\* The types of the tab, the relay, the worker and the history.
PageTyped ==
  /\ ready \in BOOLEAN /\ isStreaming \in BOOLEAN
  /\ controller \in Question \cup {Nobody}
  /\ listed \subseteq Question /\ aborted \subseteq Question /\ left \subseteq Question
  /\ messages \in [Question -> Seq(Token \cup {Apology})]
  /\ call \in [Question -> {"none", "open", "answered", "failed", "stopped"}]

RelayTyped ==
  /\ document \in BOOLEAN
  /\ wire \in [Question -> Seq(Token \cup {Done, Broken})]
  /\ relay \in [Question -> {"none", "lookup", "subscribe", "push", "relay", "closed"}]
  /\ subscribed \in [Question -> {"none", "sent", "active"}]
  /\ inbox \in [Question -> Seq(Token \cup {Done})]

WorkerTyped ==
  /\ job \in Question \cup {Nobody}
  /\ queue \in Seq(Question)
  /\ ingestion \in Nat /\ arrivals \in 0 .. MaxIngestion /\ ingestion <= arrivals
  /\ produced \in 0 .. MaxTokens
  /\ wstep \in {"idle", "generate", "complete", "markFailed", "failure", "failureDone"}

HistoryTyped ==
  /\ faults \in 0 .. MaxFaults
  /\ published \in [Question -> Seq(Token \cup {Done})]
  /\ missed \in [Question -> Nat]
  /\ lost \subseteq Question

Typed == PageTyped /\ RelayTyped /\ WorkerTyped /\ HistoryTyped

-----------------------------------------------------------------------------
\* The bounds as numbers; an idle worker has no question.
LEMMA Bounds ==
  /\ MaxTokens \in Nat /\ MaxTokens > 0
  /\ MaxIngestion \in Nat /\ MaxFaults \in Nat
  /\ Nobody \notin Question
BY StreamAssumption

\* The marks that travel beside tokens are no tokens, and differ.
LEMMA Marks ==
  /\ Failure \in Token
  /\ \A n \in 0 .. MaxTokens : n < MaxTokens => n + 1 \in Token
  /\ Done \notin Token /\ Broken \notin Token /\ Apology \notin Token
  /\ Done # Broken /\ Done # Apology
BY Bounds DEF Token, Failure, Done, Broken, Apology

\* The empty sequence is one of every type.
LEMMA Empty == \A S : <<>> \in Seq(S) /\ Len(<<>>) = 0
OBVIOUS

-----------------------------------------------------------------------------
\* The steps by who takes them, and what each party leaves alone.
TabStep(q) == Ask(q) \/ ShowToken(q) \/ Finish(q) \/ ShowError(q) \/ ShowStopped(q)

PageStep == StopStreaming \/ Reset \/ DocumentReady \/ Remount

RelayStep(q) ==
  \/ RegisterQuestion(q)
  \/ Subscribe(q)
  \/ SubscriptionTakesEffect(q)
  \/ PushQuestion(q)
  \/ CommandFails(q)
  \/ RelayMessage(q)
  \/ ClientDone(q)
  \/ Cut(q)

PublishStep == PublishToken \/ PublishDone \/ PublishFailure \/ PublishFailureDone

QuietWorkerStep ==
  \/ IngestionArrives \/ ServeIngestion \/ PopQuestion \/ MarkAnswered
  \/ TaskRaises \/ MarkFailed \/ FailureHandlingRaises \/ WorkerCrashes

LEMMA Steps ==
  ASSUME [Next]_vars
  PROVE  \/ \E q \in Question : TabStep(q) \/ RelayStep(q)
         \/ PageStep \/ DocumentExpires \/ PublishStep \/ QuietWorkerStep
         \/ UNCHANGED vars
BY DEF Next, UserNext, TabNext, CallNext, GatewayNext, HandlerNext, WorkerNext, FaultNext,
       TabStep, PageStep, RelayStep, PublishStep, QuietWorkerStep

\* Only a relay pushes a question, only the worker publishes.
LEMMA TabFrame ==
  ASSUME NEW q \in Question, TabStep(q)
  PROVE  UNCHANGED <<document, subscribed, inbox, jobVars, faults, ghosts>>
BY DEF TabStep, Ask, ShowToken, Finish, ShowError, ShowStopped, Ends, gatewayVars

LEMMA PageFrame ==
  ASSUME PageStep
  PROVE  UNCHANGED <<call, wire, relay, subscribed, inbox, jobVars, faults, lost>>
BY DEF PageStep, StopStreaming, Reset, DocumentReady, Remount, Forget, callVars, gatewayVars,
       ghosts

LEMMA RelayFrame ==
  ASSUME NEW q \in Question, RelayStep(q)
  PROVE  UNCHANGED <<pageVars, call, aborted, left, document, ingestion, arrivals, job, wstep,
                     produced, ghosts>>
BY DEF RelayStep, RegisterQuestion, Subscribe, SubscriptionTakesEffect, PushQuestion,
       CommandFails, RelayMessage, ClientDone, Cut, callVars, gatewayVars, jobVars

LEMMA ExpiryFrame ==
  ASSUME DocumentExpires
  PROVE  /\ UNCHANGED <<pageVars, callVars, relay, subscribed, inbox, jobVars, ghosts>>
         /\ document' = FALSE /\ Occurs("documentExpiry")
BY DEF DocumentExpires

LEMMA QuietFrame ==
  ASSUME QuietWorkerStep
  PROVE  UNCHANGED <<pageVars, callVars, gatewayVars, published, missed>>
BY DEF QuietWorkerStep, IngestionArrives, ServeIngestion, PopQuestion, MarkAnswered, TaskRaises,
       MarkFailed, FailureHandlingRaises, WorkerCrashes, JobLost, ghosts

\* What the worker publishes, and of which question.
LEMMA PublishFrame ==
  ASSUME Typed, PublishStep
  PROVE  /\ job \in Question
         /\ \E m \in Token \cup {Done} : Publish(job, m)
         /\ job' \in {job, Nobody}
         /\ UNCHANGED <<pageVars, callVars, document, relay, subscribed, queue, ingestion,
                        arrivals, faults>>
         /\ produced' \in 0 .. MaxTokens
         /\ wstep' \in {"idle", "generate", "complete", "markFailed", "failure", "failureDone"}
<1>1. job # Nobody /\ job \in Question
  BY DEF PublishStep, PublishToken, PublishDone, PublishFailure, PublishFailureDone, Working,
         Typed, WorkerTyped
<1>2. \A m : Publish(job, m) =>
        UNCHANGED <<pageVars, callVars, document, relay, subscribed, queue, ingestion,
                    arrivals, faults>>
  BY DEF Publish
<1>3. produced \in 0 .. MaxTokens
  BY DEF Typed, WorkerTyped
<1>4. CASE PublishToken
  <2>1. produced + 1 \in Token /\ produced + 1 \in 0 .. MaxTokens
    BY <1>3, <1>4, Bounds, Marks DEF PublishToken
  <2> QED BY <1>1, <1>2, <1>4, <2>1 DEF PublishToken, Working
<1>5. CASE PublishDone
  BY <1>1, <1>2, <1>3, <1>5 DEF PublishDone, Working
<1>6. CASE PublishFailure
  BY <1>1, <1>2, <1>3, <1>6, Marks DEF PublishFailure, Working
<1>7. CASE PublishFailureDone
  BY <1>1, <1>2, <1>7, Bounds DEF PublishFailureDone, Working, Stop
<1> QED BY <1>4, <1>5, <1>6, <1>7 DEF PublishStep

-----------------------------------------------------------------------------
LEMMA TypedInit == Init => Typed
<1> SUFFICES ASSUME Init PROVE Typed
  OBVIOUS
<1>1. PageTyped
  BY Empty DEF Init, PageTyped
<1>2. RelayTyped
  BY Empty DEF Init, RelayTyped
<1>3. WorkerTyped
  BY Empty, Bounds DEF Init, WorkerTyped
<1>4. HistoryTyped
  BY Empty, Bounds DEF Init, HistoryTyped
<1> QED BY <1>1, <1>2, <1>3, <1>4 DEF Typed

LEMMA PageTypedStep == ASSUME Typed, [Next]_vars PROVE PageTyped'
<1> USE DEF Typed, PageTyped
<1>1. ASSUME NEW q \in Question, Ask(q) PROVE PageTyped'
  BY <1>1 DEF Ask
<1>2. ASSUME NEW q \in Question, ShowToken(q) PROVE PageTyped'
  <2>1. wire[q] # <<>> /\ Head(wire[q]) \in Token
    BY <1>2 DEF ShowToken, Reads
  <2>2. messages' \in [Question -> Seq(Token \cup {Apology})]
    BY <1>2, <2>1 DEF ShowToken
  <2> QED BY <1>2, <2>2 DEF ShowToken
<1>3. ASSUME NEW q \in Question, NEW how \in {"answered", "failed", "stopped"}, Ends(q, how),
             messages' \in [Question -> Seq(Token \cup {Apology})]
      PROVE  PageTyped'
  BY <1>3 DEF Ends
<1>4. ASSUME NEW q \in Question, Finish(q) \/ ShowStopped(q) PROVE PageTyped'
  BY <1>3, <1>4 DEF Finish, ShowStopped
<1>5. ASSUME NEW q \in Question, ShowError(q) PROVE PageTyped'
  <2>1. <<Apology>> \in Seq(Token \cup {Apology})
    OBVIOUS
  <2>2. messages' \in [Question -> Seq(Token \cup {Apology})]
    BY <1>5, <2>1 DEF ShowError
  <2> QED BY <1>3, <1>5, <2>2 DEF ShowError
<1>6. ASSUME Abort PROVE aborted' \subseteq Question
  BY <1>6 DEF Abort
<1>7. CASE StopStreaming
  BY <1>6, <1>7 DEF StopStreaming, pageVars
<1>8. ASSUME Forget PROVE messages' \in [Question -> Seq(Token \cup {Apology})] /\ listed' = {}
  BY <1>8, Empty DEF Forget
<1>9. CASE Reset
  BY <1>6, <1>8, <1>9 DEF Reset
<1>10. CASE DocumentReady
  BY <1>10 DEF DocumentReady, callVars
<1>11. CASE Remount
  BY <1>6, <1>8, <1>11 DEF Remount
<1>12. ASSUME UNCHANGED <<pageVars, call, aborted, left>> PROVE PageTyped'
  BY <1>12 DEF pageVars
<1>13. ASSUME NEW q \in Question, RelayStep(q) PROVE PageTyped'
  BY <1>12, <1>13, RelayFrame
<1>14. CASE DocumentExpires
  BY <1>12, <1>14, ExpiryFrame DEF callVars
<1>15. CASE PublishStep
  BY <1>12, <1>15, PublishFrame DEF callVars
<1>16. CASE QuietWorkerStep
  BY <1>12, <1>16, QuietFrame DEF callVars
<1>17. CASE UNCHANGED vars
  BY <1>12, <1>17 DEF vars, callVars
<1> QED BY <1>1, <1>2, <1>4, <1>5, <1>7, <1>9, <1>10, <1>11, <1>13, <1>14, <1>15, <1>16, <1>17,
           Steps DEF TabStep, PageStep

\* What is sent to the tab, and what a closing stream leaves.
LEMMA SendTyped ==
  ASSUME RelayTyped, NEW q \in Question, NEW m \in Token \cup {Done, Broken}, Send(q, m)
  PROVE  wire' \in [Question -> Seq(Token \cup {Done, Broken})]
BY DEF Send, RelayTyped

LEMMA CloseTyped ==
  ASSUME RelayTyped, NEW q \in Question, Close(q)
  PROVE  /\ relay' \in [Question -> {"none", "lookup", "subscribe", "push", "relay", "closed"}]
         /\ subscribed' \in [Question -> {"none", "sent", "active"}]
         /\ inbox' \in [Question -> Seq(Token \cup {Done})]
BY Empty DEF Close, RelayTyped

LEMMA RelayTypedStep == ASSUME Typed, [Next]_vars PROVE RelayTyped'
<1> USE DEF Typed
<1>1. ASSUME NEW q \in Question, Ask(q) PROVE RelayTyped'
  BY <1>1 DEF Ask, RelayTyped
<1>2. ASSUME NEW q \in Question, ShowToken(q) PROVE RelayTyped'
  BY <1>2 DEF ShowToken, Reads, gatewayVars, RelayTyped
<1>3. ASSUME NEW q \in Question, Finish(q) \/ ShowError(q) \/ ShowStopped(q) PROVE RelayTyped'
  <2>1. ASSUME NEW how, Ends(q, how) PROVE RelayTyped'
    <3>1. wire' \in [Question -> Seq(Token \cup {Done, Broken})]
      BY <2>1, Empty DEF Ends, RelayTyped
    <3> QED BY <2>1, <3>1 DEF Ends, gatewayVars, RelayTyped
  <2> QED BY <1>3, <2>1 DEF Finish, ShowError, ShowStopped
<1>4. CASE PageStep
  BY <1>4, PageFrame DEF PageStep, StopStreaming, Reset, DocumentReady, Remount, gatewayVars,
         RelayTyped
<1>5. ASSUME NEW q \in Question, RegisterQuestion(q) PROVE RelayTyped'
  <2>1. CASE document
    BY <1>5, <2>1 DEF RegisterQuestion, Handler, After, RelayTyped
  <2>2. CASE ~document
    BY <1>5, <2>2, CloseTyped, SendTyped DEF RegisterQuestion, RelayTyped
  <2> QED BY <2>1, <2>2
<1>6. ASSUME NEW q \in Question, Subscribe(q) PROVE RelayTyped'
  BY <1>6 DEF Subscribe, Handler, After, callVars, RelayTyped
<1>7. ASSUME NEW q \in Question, SubscriptionTakesEffect(q) PROVE RelayTyped'
  BY <1>7 DEF SubscriptionTakesEffect, callVars, RelayTyped
<1>8. ASSUME NEW q \in Question, PushQuestion(q) PROVE RelayTyped'
  BY <1>8 DEF PushQuestion, Handler, After, callVars, RelayTyped
<1>9. ASSUME NEW q \in Question, CommandFails(q) PROVE RelayTyped'
  BY <1>9, CloseTyped, SendTyped DEF CommandFails, RelayTyped
<1>10. ASSUME NEW q \in Question, RelayMessage(q) PROVE RelayTyped'
  <2>1. inbox[q] \in Seq(Token \cup {Done}) /\ inbox[q] # <<>>
    BY <1>10 DEF RelayMessage, RelayTyped
  <2>2. Head(inbox[q]) \in Token \cup {Done} /\ Tail(inbox[q]) \in Seq(Token \cup {Done})
    BY <2>1
  <2>3. wire' \in [Question -> Seq(Token \cup {Done, Broken})]
    BY <1>10, <2>2, SendTyped DEF RelayMessage
  <2>4. CASE Head(inbox[q]) = Done
    BY <1>10, <2>3, <2>4, CloseTyped DEF RelayMessage, RelayTyped
  <2>5. CASE Head(inbox[q]) # Done
    BY <1>10, <2>2, <2>3, <2>5 DEF RelayMessage, RelayTyped
  <2> QED BY <2>4, <2>5
<1>11. ASSUME NEW q \in Question, ClientDone(q) PROVE RelayTyped'
  BY <1>11, CloseTyped DEF ClientDone, callVars, RelayTyped
<1>12. ASSUME NEW q \in Question, Cut(q) PROVE RelayTyped'
  <2>1. PICK n \in 0 .. Len(wire[q]) :
          wire' = [wire EXCEPT ![q] = Append(SubSeq(@, 1, n), Broken)]
    BY <1>12 DEF Cut
  <2>2. SubSeq(wire[q], 1, n) \in Seq(Token \cup {Done, Broken})
    BY <2>1 DEF RelayTyped
  <2>3. wire' \in [Question -> Seq(Token \cup {Done, Broken})]
    BY <2>1, <2>2 DEF RelayTyped
  <2> QED BY <1>12, <2>3 DEF Cut, gatewayVars, RelayTyped
<1>13. CASE DocumentExpires
  BY <1>13, ExpiryFrame DEF callVars, RelayTyped
<1>14. CASE PublishStep
  <2>1. PICK m \in Token \cup {Done} : Publish(job, m)
    BY <1>14, PublishFrame
  <2>2. inbox' \in [Question -> Seq(Token \cup {Done})]
    BY <2>1 DEF Publish, RelayTyped
  <2> QED BY <1>14, <2>2, PublishFrame DEF callVars, RelayTyped
<1>15. CASE QuietWorkerStep
  BY <1>15, QuietFrame DEF callVars, gatewayVars, RelayTyped
<1>16. CASE UNCHANGED vars
  BY <1>16 DEF vars, callVars, gatewayVars, RelayTyped
<1> QED BY <1>1, <1>2, <1>3, <1>4, <1>5, <1>6, <1>7, <1>8, <1>9, <1>10, <1>11, <1>12, <1>13,
           <1>14, <1>15, <1>16, Steps DEF TabStep, RelayStep

LEMMA WorkerTypedStep == ASSUME Typed, [Next]_vars PROVE WorkerTyped'
<1> USE Bounds DEF Typed, WorkerTyped
<1>1. ASSUME UNCHANGED jobVars PROVE WorkerTyped'
  BY <1>1 DEF jobVars
<1>2. ASSUME NEW q \in Question, TabStep(q) PROVE WorkerTyped'
  BY <1>1, <1>2, TabFrame
<1>3. CASE PageStep
  BY <1>1, <1>3, PageFrame
<1>4. ASSUME NEW q \in Question, PushQuestion(q) PROVE WorkerTyped'
  BY <1>4 DEF PushQuestion
<1>5. ASSUME NEW q \in Question, RelayStep(q), ~PushQuestion(q) PROVE WorkerTyped'
  <2>1. UNCHANGED queue
    BY <1>5 DEF RelayStep, RegisterQuestion, Subscribe, SubscriptionTakesEffect,
           CommandFails, RelayMessage, ClientDone, Cut, jobVars
  <2> QED BY <1>1, <1>5, <2>1, RelayFrame DEF jobVars
<1>6. CASE DocumentExpires
  BY <1>1, <1>6, ExpiryFrame
<1>7. CASE PublishStep
  BY <1>7, PublishFrame
<1>8. CASE IngestionArrives \/ ServeIngestion
  BY <1>8 DEF IngestionArrives, ServeIngestion
<1>9. CASE PopQuestion
  BY <1>9 DEF PopQuestion
<1>10. CASE MarkAnswered \/ FailureHandlingRaises \/ WorkerCrashes
  BY <1>10 DEF MarkAnswered, FailureHandlingRaises, WorkerCrashes, JobLost, Stop
<1>11. CASE TaskRaises \/ MarkFailed
  BY <1>11 DEF TaskRaises, MarkFailed
<1>12. CASE UNCHANGED vars
  BY <1>1, <1>12 DEF vars
<1> QED BY <1>2, <1>3, <1>4, <1>5, <1>6, <1>7, <1>8, <1>9, <1>10, <1>11, <1>12, Steps
           DEF QuietWorkerStep

LEMMA HistoryTypedStep == ASSUME Typed, [Next]_vars PROVE HistoryTyped'
<1> USE DEF Typed, HistoryTyped
<1>1. faults' \in 0 .. MaxFaults
  <2>1. ASSUME NEW f, Occurs(f) PROVE faults' \in 0 .. MaxFaults
    BY <2>1, Bounds DEF Occurs
  <2>2. ASSUME NEW q \in Question, RelayStep(q) PROVE faults' \in 0 .. MaxFaults
    BY <2>1, <2>2 DEF RelayStep, RegisterQuestion, Subscribe, SubscriptionTakesEffect,
           PushQuestion, CommandFails, RelayMessage, ClientDone, Cut
  <2>3. CASE QuietWorkerStep
    BY <2>1, <2>3 DEF QuietWorkerStep, IngestionArrives, ServeIngestion, PopQuestion,
           MarkAnswered, TaskRaises, MarkFailed, FailureHandlingRaises, WorkerCrashes
  <2> QED BY <2>1, <2>2, <2>3, Steps, TabFrame, PageFrame, ExpiryFrame, PublishFrame DEF vars
<1>2. published' \in [Question -> Seq(Token \cup {Done})] /\ missed' \in [Question -> Nat]
  <2>1. ASSUME UNCHANGED <<published, missed>>
        PROVE  published' \in [Question -> Seq(Token \cup {Done})] /\ missed' \in [Question -> Nat]
    BY <2>1
  <2>2. CASE Forget
    BY <2>2, Empty DEF Forget
  <2>3. CASE PageStep
    BY <2>1, <2>2, <2>3 DEF PageStep, StopStreaming, Reset, DocumentReady, Remount, ghosts
  <2>4. CASE PublishStep
    <3>1. PICK m \in Token \cup {Done} : Publish(job, m)
      BY <2>4, PublishFrame
    <3>2. job \in Question
      BY <2>4, PublishFrame
    <3>3. published' \in [Question -> Seq(Token \cup {Done})]
      BY <3>1, <3>2 DEF Publish
    <3>4. missed' \in [Question -> Nat]
      BY <3>1, <3>2 DEF Publish
    <3> QED BY <3>3, <3>4
  <2> QED BY <2>1, <2>3, <2>4, Steps, TabFrame, RelayFrame, ExpiryFrame, QuietFrame
             DEF vars, ghosts
<1>3. lost' \subseteq Question
  <2>1. CASE PublishStep
    <3>1. PICK m \in Token \cup {Done} : Publish(job, m)
      BY <2>1, PublishFrame
    <3> QED BY <2>1, <3>1, PublishFrame DEF Publish
  <2>2. CASE QuietWorkerStep
    <3>1. ASSUME job # Nobody, JobLost PROVE lost' \subseteq Question
      BY <3>1 DEF JobLost, WorkerTyped
    <3> QED BY <2>2, <3>1 DEF QuietWorkerStep, IngestionArrives, ServeIngestion, PopQuestion,
           MarkAnswered, TaskRaises, MarkFailed, FailureHandlingRaises, WorkerCrashes, ghosts
  <2> QED BY <2>1, <2>2, Steps, TabFrame, PageFrame, RelayFrame, ExpiryFrame DEF vars, ghosts
<1> QED BY <1>1, <1>2, <1>3

LEMMA TypedStep == ASSUME Typed, [Next]_vars PROVE Typed'
BY PageTypedStep, RelayTypedStep, WorkerTypedStep, HistoryTypedStep DEF Typed

LEMMA TypedAlways == Spec => []Typed
BY TypedInit, TypedStep, PTL DEF Spec

\* The state of tab, gateway, worker and history keeps its types.
THEOREM TypeCorrect == Spec => []TypeOK
<1>1. Typed => TypeOK
  <2>1. WorkerTyped => ingestion \in 0 .. MaxIngestion
    BY Bounds DEF WorkerTyped
  <2>2. WorkerTyped => arrivals \in 0 .. MaxIngestion
    BY DEF WorkerTyped
  <2>3. WorkerTyped => {ingestion, arrivals} \subseteq 0 .. MaxIngestion
    BY <2>1, <2>2
  <2> QED BY <2>3 DEF Typed, PageTyped, RelayTyped, WorkerTyped, HistoryTyped, TypeOK
<1> QED BY <1>1, TypedAlways, PTL

-----------------------------------------------------------------------------
(***************************************************************************)
(* The page and its call.                                                  *)
(***************************************************************************)

\* What the page left or aborted is open, and it holds a controller while it waits.
CallsOpen ==
  /\ \A q \in left \cup aborted : call[q] = "open"
  /\ isStreaming <=> controller # Nobody

CallInv == Typed /\ CallsOpen /\ ControllerOfOpenCall

LEMMA CallInit == Init => CallInv
<1> SUFFICES ASSUME Init PROVE CallInv
  OBVIOUS
<1>1. CallsOpen /\ ControllerOfOpenCall
  BY DEF Init, CallsOpen, ControllerOfOpenCall
<1> QED BY <1>1, TypedInit DEF CallInv

LEMMA CallStep == ASSUME CallInv, [Next]_vars PROVE CallsOpen' /\ ControllerOfOpenCall'
<1> USE DEF CallInv, CallsOpen, ControllerOfOpenCall
<1>0. /\ call \in [Question -> {"none", "open", "answered", "failed", "stopped"}]
      /\ controller \in Question \cup {Nobody} /\ isStreaming \in BOOLEAN
      /\ aborted \subseteq Question /\ left \subseteq Question
  BY DEF Typed, PageTyped
<1>1. ASSUME NEW q \in Question, Ask(q) PROVE CallsOpen' /\ ControllerOfOpenCall'
  <2>1. /\ ~isStreaming /\ call[q] = "none" /\ q \notin left
        /\ call' = [call EXCEPT ![q] = "open"] /\ isStreaming' = TRUE /\ controller' = q
        /\ UNCHANGED <<aborted, left>>
    BY <1>0, <1>1 DEF Ask
  <2>2. CallsOpen'
    BY <1>0, <2>1, Bounds
  <2>3. {r \in Question : call'[r] = "open" /\ r \notin left'} = {q}
    BY <1>0, <2>1
  <2> QED BY <2>1, <2>2, <2>3
<1>2. ASSUME NEW q \in Question, NEW how \in {"answered", "failed", "stopped"}, Ends(q, how),
             call[q] = "open"
      PROVE  CallsOpen' /\ ControllerOfOpenCall'
  <2> DEFINE open == {r \in Question : call[r] = "open" /\ r \notin left}
  <2>1. /\ call' = [call EXCEPT ![q] = how]
        /\ aborted' = aborted \ {q} /\ left' = left \ {q}
        /\ IF q \in left THEN UNCHANGED <<isStreaming, controller>>
                         ELSE isStreaming' = FALSE /\ controller' = Nobody
    BY <1>2 DEF Ends
  <2>2. CallsOpen'
    BY <1>0, <2>1
  <2>3. open' = open \ {q}
    BY <1>0, <2>1
  <2>4. q \notin left => isStreaming /\ open = {q}
    BY <1>2
  <2>5. q \in left => open' = open
    BY <2>3
  <2> QED BY <2>1, <2>2, <2>3, <2>4, <2>5
<1>3. ASSUME NEW q \in Question, Finish(q) \/ ShowError(q) \/ ShowStopped(q)
      PROVE  CallsOpen' /\ ControllerOfOpenCall'
  BY <1>2, <1>3 DEF Finish, ShowError, ShowStopped, Reads
<1>4. ASSUME UNCHANGED <<isStreaming, controller, call, left>>, aborted' = aborted \/ Abort
      PROVE  CallsOpen' /\ ControllerOfOpenCall'
  <2>1. controller # Nobody => call[controller] = "open"
    OBVIOUS
  <2> QED BY <1>4, <2>1 DEF Abort
<1>5. ASSUME NEW q \in Question, ShowToken(q) PROVE CallsOpen' /\ ControllerOfOpenCall'
  BY <1>4, <1>5 DEF ShowToken
<1>6. CASE StopStreaming \/ Reset \/ DocumentReady
  BY <1>4, <1>6 DEF StopStreaming, Reset, DocumentReady, pageVars, callVars
<1>7. CASE Remount
  <2>1. controller # Nobody => call[controller] = "open"
    OBVIOUS
  <2> QED BY <1>0, <1>7, <2>1, Bounds DEF Remount, Abort
<1>8. ASSUME NEW q \in Question, RelayStep(q) PROVE CallsOpen' /\ ControllerOfOpenCall'
  BY <1>4, <1>8, RelayFrame DEF pageVars
<1>9. CASE DocumentExpires \/ PublishStep \/ QuietWorkerStep \/ UNCHANGED vars
  BY <1>4, <1>9, ExpiryFrame, PublishFrame, QuietFrame DEF vars, pageVars, callVars
<1> QED BY <1>1, <1>3, <1>5, <1>6, <1>7, <1>8, <1>9, Steps DEF TabStep, PageStep

LEMMA CallInvAlways == Spec => []CallInv
<1>1. ASSUME CallInv, [Next]_vars PROVE CallInv'
  BY <1>1, CallStep, TypedStep DEF CallInv
<1> QED BY <1>1, CallInit, PTL DEF Spec

\* Whatever Stop, Reset, departures, late ends of aborted calls and new questions come in
\* which order: the page waits exactly while one call of its own is open, and
\* abortControllerRef is that call's.
THEOREM StopReachesCall == Spec => []ControllerOfOpenCall
BY CallInvAlways, PTL DEF CallInv

\* A prefix, element by element.
LEMMA PrefixByElement ==
  ASSUME NEW S, NEW s \in Seq(S), NEW T, NEW t \in Seq(T),
         Len(s) <= Len(t), \A i \in 1 .. Len(s) : s[i] = t[i]
  PROVE  IsPrefix(s, t)
<1>1. Len(s) \in Nat /\ \A i \in 1 .. Len(s) : s[i] \in S /\ t[i] \in S
  BY LenProperties, ElementOfSeq
<1>2. /\ SubSeq(s, 1, Len(s)) \in Seq(S)
      /\ Len(SubSeq(s, 1, Len(s))) = Len(s)
      /\ \A i \in 1 .. Len(s) : SubSeq(s, 1, Len(s))[i] = s[i]
  BY <1>1, SubSeqProperties
<1>3. /\ SubSeq(t, 1, Len(s)) \in Seq(S)
      /\ Len(SubSeq(t, 1, Len(s))) = Len(s)
      /\ \A i \in 1 .. Len(s) : SubSeq(t, 1, Len(s))[i] = t[i]
  BY <1>1, SubSeqProperties
<1>4. SubSeq(s, 1, Len(s)) = SubSeq(t, 1, Len(s))
  BY <1>2, <1>3, SeqEqual
<1> QED BY <1>4 DEF IsPrefix

\* How a step changes the messages of listed questions.
Grows ==
  \A q \in listed' : messages'[q] # messages[q] =>
    call[q] = "open" /\ q \notin aborted /\ IsPrefix(messages[q], messages'[q])

LEMMA GrowsStep == ASSUME Typed, [Next]_vars PROVE Grows
<1>0. messages \in [Question -> Seq(Token \cup {Apology})]
  BY DEF Typed, PageTyped
<1>1. ASSUME UNCHANGED messages PROVE Grows
  BY <1>1 DEF Grows
<1>2. ASSUME NEW q \in Question, call[q] = "open", q \notin aborted,
             NEW m \in Token \cup {Apology},
             messages' = [messages EXCEPT ![q] = Append(@, m)]
      PROVE  Grows
  <2>1. messages[q] \in Seq(Token \cup {Apology})
    BY <1>0
  <2>2. IsPrefix(messages[q], Append(messages[q], m))
    <3>1. /\ Append(messages[q], m) \in Seq(Token \cup {Apology})
          /\ Len(Append(messages[q], m)) = Len(messages[q]) + 1
          /\ \A i \in 1 .. Len(messages[q]) : messages[q][i] = Append(messages[q], m)[i]
      BY <2>1, AppendProperties
    <3>2. Len(messages[q]) <= Len(Append(messages[q], m))
      BY <2>1, <3>1
    <3> QED BY <2>1, <3>1, <3>2, PrefixByElement
  <2>3. /\ messages'[q] = Append(messages[q], m)
        /\ \A r \in Question \ {q} : messages'[r] = messages[r]
        /\ \A r : r \notin Question => messages'[r] = messages[r]
    BY <1>0, <1>2
  <2> QED BY <1>2, <2>2, <2>3 DEF Grows
<1>3. ASSUME NEW q \in Question, ShowToken(q) PROVE Grows
  <2>1. call[q] = "open" /\ q \notin aborted /\ Head(wire[q]) \in Token
    BY <1>3 DEF ShowToken, Reads
  <2> QED BY <1>1, <1>2, <1>3, <2>1 DEF ShowToken
<1>4. ASSUME NEW q \in Question, ShowError(q) PROVE Grows
  <2>1. call[q] = "open" /\ q \notin aborted
    BY <1>4 DEF ShowError, Reads
  <2>2. <<Apology>> = Append(<<>>, Apology)
    OBVIOUS
  <2>3. messages[q] = <<>> =>
          [messages EXCEPT ![q] = <<Apology>>] = [messages EXCEPT ![q] = Append(@, Apology)]
    BY <1>0, <2>2
  <2> QED BY <1>1, <1>2, <1>4, <2>1, <2>3 DEF ShowError
<1>5. CASE Reset \/ Remount
  BY <1>5 DEF Reset, Remount, Forget, Grows
<1>6. ASSUME NEW q \in Question, Ask(q) \/ Finish(q) \/ ShowStopped(q) PROVE Grows
  BY <1>1, <1>6 DEF Ask, Finish, ShowStopped
<1>7. CASE StopStreaming \/ DocumentReady
  BY <1>1, <1>7 DEF StopStreaming, DocumentReady, pageVars
<1>8. ASSUME NEW q \in Question, RelayStep(q) PROVE Grows
  BY <1>1, <1>8, RelayFrame DEF pageVars
<1>9. CASE DocumentExpires \/ PublishStep \/ QuietWorkerStep \/ UNCHANGED vars
  BY <1>1, <1>9, ExpiryFrame, PublishFrame, QuietFrame DEF pageVars, vars
<1> QED BY <1>3, <1>4, <1>5, <1>6, <1>7, <1>8, <1>9, Steps DEF TabStep, PageStep

\* A listed message only grows, by appending, while its call is open and not aborted:
\* onToken and the catch clause are the only writers.
THEOREM MessagesGrow == Spec => MessageOnlyGrows
<1>1. ASSUME Typed, [Next]_vars PROVE [Grows]_vars
  BY <1>1, GrowsStep
<1> QED BY <1>1, TypedAlways, PTL DEF Spec, MessageOnlyGrows, Grows

-----------------------------------------------------------------------------
(***************************************************************************)
(* One answer on its way.  Of what the worker publishes on the stream of a *)
(* listed question, what preceded the subscription is missed; the rest is, *)
(* in order, what the message shows, what is on its way to the tab, and    *)
(* what waits for the relay.                                               *)
(***************************************************************************)

\* Where call, relay and subscription of a question stand.
Stages(q) ==
  /\ call[q] = "none" <=> relay[q] = "none"
  /\ call[q] = "none" => wire[q] = <<>> /\ q \notin listed
  /\ subscribed[q] = "none" <=> relay[q] \in {"none", "lookup", "subscribe", "closed"}

\* The worker knows of a question once the relay has pushed it.
Pushed(q) ==
  /\ job = q => relay[q] \in {"relay", "closed"}
  /\ \A i \in 1 .. Len(queue) : queue[i] = q => relay[q] \in {"relay", "closed"}

\* The history is that of the listed messages.
History(q) ==
  /\ q \notin listed => messages[q] = <<>> /\ published[q] = <<>> /\ missed[q] = 0
  /\ missed[q] <= Len(published[q])

\* Without an active subscription nothing is delivered.
Silence(q) ==
  subscribed[q] # "active" =>
    /\ inbox[q] = <<>>
    /\ q \in listed /\ relay[q] # "closed" => missed[q] = Len(published[q])

\* The sequence s is what was published on q's stream after the first n messages.
Matches(q, s, n) ==
  \A i \in 1 .. Len(s) : n + i <= Len(published[q]) /\ s[i] = published[q][n + i]

Shown(q) ==
  q \in listed =>
    /\ messages[q] # <<Apology>> => Matches(q, messages[q], missed[q])
    /\ messages[q] = <<Apology>> => call[q] = "failed"

OnTheWire(q) ==
  q \in listed /\ call[q] = "open" =>
    \A i \in 1 .. Len(wire[q]) : wire[q][i] # Broken =>
      /\ missed[q] + Len(messages[q]) + i <= Len(published[q])
      /\ wire[q][i] = published[q][missed[q] + Len(messages[q]) + i]

AtTheRelay(q) ==
  q \in listed /\ relay[q] # "closed" /\ ~ClientGone(q) =>
    /\ Matches(q, inbox[q], missed[q] + Len(messages[q]) + Len(wire[q]))
    /\ missed[q] + Len(messages[q]) + Len(wire[q]) + Len(inbox[q]) = Len(published[q])

\* An answered call has shown all that precedes a [DONE].
Whole(q) ==
  q \in listed /\ call[q] = "answered" =>
    /\ missed[q] + Len(messages[q]) + 1 <= Len(published[q])
    /\ published[q][missed[q] + Len(messages[q]) + 1] = Done

Stream(q) ==
  /\ Stages(q) /\ Pushed(q) /\ History(q) /\ Silence(q)
  /\ Shown(q) /\ OnTheWire(q) /\ AtTheRelay(q) /\ Whole(q)

StreamInv == Typed /\ \A q \in Question : Stream(q)

-----------------------------------------------------------------------------
\* What a question's own state consists of.
Same(q) ==
  /\ UNCHANGED <<call[q], messages[q], wire[q], relay[q], subscribed[q], inbox[q],
                 published[q], missed[q]>>
  /\ q \in listed' <=> q \in listed
  /\ q \in aborted' <=> q \in aborted

SameWorker(q) ==
  /\ job' \in {job, Nobody}
  /\ queue' = queue

LEMMA SameStream ==
  ASSUME NEW q \in Question, Stream(q), Same(q), Pushed(q)'
  PROVE  Stream(q)'
<1> USE DEF Stream, Same
<1>1. Stages(q)' /\ History(q)' /\ Silence(q)'
  BY DEF Stages, History, Silence
<1>2. ClientGone(q)' <=> ClientGone(q)
  BY DEF ClientGone, Contains
<1>3. Shown(q)' /\ OnTheWire(q)' /\ Whole(q)'
  BY DEF Shown, OnTheWire, Whole, Matches
<1>4. AtTheRelay(q)'
  BY <1>2 DEF AtTheRelay, Matches
<1> QED BY <1>1, <1>3, <1>4

LEMMA PushedKept ==
  ASSUME NEW q \in Question, Pushed(q), SameWorker(q),
         relay[q] \in {"relay", "closed"} => relay'[q] \in {"relay", "closed"}
  PROVE  Pushed(q)'
BY Bounds DEF Pushed, SameWorker

\* A step of another question.
LEMMA OtherTab ==
  ASSUME Typed, NEW q \in Question, NEW r \in Question \ {q}, TabStep(r)
  PROVE  Same(q)
<1> USE DEF Typed, PageTyped, RelayTyped
<1>1. UNCHANGED <<subscribed, inbox, ghosts>>
  BY TabFrame
<1>2. CASE Ask(r)
  BY <1>1, <1>2 DEF Ask, Same, ghosts
<1>3. CASE ShowToken(r)
  BY <1>1, <1>3 DEF ShowToken, Same, ghosts, gatewayVars
<1>4. ASSUME NEW how, Ends(r, how), messages'[q] = messages[q] PROVE Same(q)
  BY <1>1, <1>4 DEF Ends, Same, ghosts, gatewayVars
<1>5. CASE Finish(r) \/ ShowError(r) \/ ShowStopped(r)
  BY <1>4, <1>5 DEF Finish, ShowError, ShowStopped
<1> QED BY <1>2, <1>3, <1>5 DEF TabStep

LEMMA OtherRelay ==
  ASSUME Typed, NEW q \in Question, NEW r \in Question \ {q}, RelayStep(r)
  PROVE  Same(q)
<1> USE DEF Typed, RelayTyped
<1>1. UNCHANGED <<pageVars, call, aborted, ghosts>>
  BY RelayFrame
<1>2. wire'[q] = wire[q]
  BY DEF RelayStep, RegisterQuestion, Subscribe, SubscriptionTakesEffect, PushQuestion,
         CommandFails, RelayMessage, ClientDone, Cut, Send, callVars
<1>3. relay'[q] = relay[q]
  BY DEF RelayStep, RegisterQuestion, Subscribe, SubscriptionTakesEffect, PushQuestion,
         CommandFails, RelayMessage, ClientDone, Cut, Close, Handler, gatewayVars
<1>4. subscribed'[q] = subscribed[q]
  BY DEF RelayStep, RegisterQuestion, Subscribe, SubscriptionTakesEffect, PushQuestion,
         CommandFails, RelayMessage, ClientDone, Cut, Close, gatewayVars
<1>5. inbox'[q] = inbox[q]
  BY DEF RelayStep, RegisterQuestion, Subscribe, SubscriptionTakesEffect, PushQuestion,
         CommandFails, RelayMessage, ClientDone, Cut, Close, gatewayVars
<1> QED BY <1>1, <1>2, <1>3, <1>4, <1>5 DEF Same, pageVars, ghosts

LEMMA OtherPublish ==
  ASSUME Typed, NEW q \in Question, q # job, PublishStep
  PROVE  Same(q)
<1> USE DEF Typed, RelayTyped, HistoryTyped
<1>1. PICK m \in Token \cup {Done} : Publish(job, m)
  BY PublishFrame
<1>2. inbox'[q] = inbox[q] /\ published'[q] = published[q] /\ missed'[q] = missed[q]
  BY <1>1 DEF Publish, Listeners
<1> QED BY <1>2, PublishFrame DEF Same, pageVars, callVars

-----------------------------------------------------------------------------
\* The sequences of a question.
LEMMA Sequences4 ==
  ASSUME Typed, NEW q \in Question
  PROVE  /\ messages[q] \in Seq(Token \cup {Apology}) /\ Len(messages[q]) \in Nat
         /\ wire[q] \in Seq(Token \cup {Done, Broken}) /\ Len(wire[q]) \in Nat
         /\ inbox[q] \in Seq(Token \cup {Done}) /\ Len(inbox[q]) \in Nat
         /\ published[q] \in Seq(Token \cup {Done}) /\ Len(published[q]) \in Nat
         /\ missed[q] \in Nat
<1>1. /\ messages[q] \in Seq(Token \cup {Apology})
      /\ wire[q] \in Seq(Token \cup {Done, Broken})
      /\ inbox[q] \in Seq(Token \cup {Done})
      /\ published[q] \in Seq(Token \cup {Done})
      /\ missed[q] \in Nat
  BY DEF Typed, PageTyped, RelayTyped, HistoryTyped
<1> QED BY <1>1, LenProperties

\* What is taken from a sequence, and what is put at its end, by position.
LEMMA Taken ==
  ASSUME NEW S, NEW s \in Seq(S), s # <<>>
  PROVE  /\ Head(s) = s[1] /\ Head(s) \in S
         /\ Len(s) \in Nat /\ Len(s) >= 1 /\ Len(Tail(s)) = Len(s) - 1
         /\ \A i \in 1 .. Len(Tail(s)) : i + 1 \in 1 .. Len(s) /\ Tail(s)[i] = s[i + 1]
<1>1. Len(s) \in Nat /\ Len(s) >= 1
  BY EmptySeq
<1>2. Head(s) = s[1]
  OBVIOUS
<1> QED BY <1>1, <1>2, HeadTailProperties

LEMMA Added ==
  ASSUME NEW S, NEW s \in Seq(S), NEW e \in S
  PROVE  /\ Len(s) \in Nat /\ Len(Append(s, e)) = Len(s) + 1
         /\ \A i \in 1 .. Len(s) : Append(s, e)[i] = s[i]
         /\ Append(s, e)[Len(s) + 1] = e
         /\ \A i \in 1 .. Len(Append(s, e)) : i \in 1 .. Len(s) \/ i = Len(s) + 1
<1>1. Len(s) \in Nat
  BY LenProperties
<1> QED BY <1>1, AppendProperties

LEMMA AskStream ==
  ASSUME Typed, NEW q \in Question, Stream(q), Ask(q)
  PROVE  Stream(q)'
<1> USE DEF Stream
<1>1. /\ call[q] = "none" /\ relay[q] = "none" /\ subscribed[q] = "none"
      /\ wire[q] = <<>> /\ inbox[q] = <<>> /\ q \notin listed
      /\ messages[q] = <<>> /\ published[q] = <<>> /\ missed[q] = 0
  BY DEF Ask, Stages, History, Silence
<1>2. /\ call'[q] = "open" /\ relay'[q] = "lookup" /\ listed' = listed \cup {q}
      /\ UNCHANGED <<messages, wire, subscribed, inbox, jobVars, ghosts>>
  BY DEF Ask, Typed, PageTyped, RelayTyped
<1>3. Stages(q)' /\ History(q)' /\ Silence(q)'
  BY <1>1, <1>2, Empty DEF Stages, History, Silence, ghosts
<1>4. Pushed(q)'
  BY <1>1, <1>2 DEF Pushed, jobVars
<1>5. /\ messages'[q] = <<>> /\ wire'[q] = <<>> /\ inbox'[q] = <<>> /\ published'[q] = <<>>
      /\ missed'[q] = 0 /\ call'[q] = "open"
  BY <1>1, <1>2 DEF ghosts
<1>6. Shown(q)' /\ OnTheWire(q)' /\ Whole(q)'
  BY <1>5, Empty DEF Shown, OnTheWire, Whole, Matches
<1>7. AtTheRelay(q)'
  BY <1>5, Empty DEF AtTheRelay, Matches
<1> QED BY <1>3, <1>4, <1>6, <1>7

LEMMA ShowTokenStream ==
  ASSUME Typed, NEW q \in Question, Stream(q), ShowToken(q)
  PROVE  Stream(q)'
<1> USE DEF Stream
<1> DEFINE m == messages[q]
           w == wire[q]
<1>1. /\ call[q] = "open" /\ q \notin aborted /\ w # <<>> /\ Head(w) \in Token
      /\ wire'[q] = Tail(w)
      /\ messages'[q] = IF q \in listed THEN Append(m, Head(w)) ELSE m
      /\ UNCHANGED <<listed, call, aborted, relay, subscribed, inbox, jobVars, ghosts>>
  BY DEF ShowToken, Reads, gatewayVars, Typed, PageTyped, RelayTyped
<1>2. /\ m \in Seq(Token \cup {Apology}) /\ Len(m) \in Nat
      /\ w \in Seq(Token \cup {Done, Broken})
      /\ Len(published[q]) \in Nat /\ missed[q] \in Nat /\ Len(inbox[q]) \in Nat
  BY Sequences4
<1>3. /\ Head(w) = w[1] /\ Len(w) \in Nat /\ Len(w) >= 1 /\ Len(Tail(w)) = Len(w) - 1
      /\ \A i \in 1 .. Len(Tail(w)) : i + 1 \in 1 .. Len(w) /\ Tail(w)[i] = w[i + 1]
  BY <1>1, <1>2, Taken
<1>4. /\ Len(Append(m, Head(w))) = Len(m) + 1
      /\ \A i \in 1 .. Len(m) : Append(m, Head(w))[i] = m[i]
      /\ Append(m, Head(w))[Len(m) + 1] = Head(w)
      /\ \A i \in 1 .. Len(Append(m, Head(w))) : i \in 1 .. Len(m) \/ i = Len(m) + 1
  BY <1>1, <1>2, Added
<1>5. Stages(q)' /\ Pushed(q)' /\ Silence(q)'
  BY <1>1 DEF Stages, Pushed, Silence, jobVars, ghosts
<1>6. History(q)'
  BY <1>1 DEF History, ghosts
<1>7. CASE q \notin listed
  BY <1>1, <1>5, <1>6, <1>7 DEF Shown, OnTheWire, AtTheRelay, Whole
<1>8. CASE q \in listed
  <2> HIDE DEF m, w
  <2>1. messages'[q] = Append(m, Head(w)) /\ missed' = missed /\ published' = published
    BY <1>1, <1>8 DEF ghosts, m, w
  <2>2. /\ missed[q] + Len(m) + 1 <= Len(published[q])
        /\ Head(w) = published[q][missed[q] + Len(m) + 1]
    BY <1>1, <1>3, <1>8, Marks DEF OnTheWire, m, w
  <2>3. Matches(q, m, missed[q])
    BY <1>1, <1>8 DEF Shown, m
  <2>4. Shown(q)'
    <3>1. Matches(q, messages[q], missed[q])'
      <4> SUFFICES ASSUME NEW i \in 1 .. Len(Append(m, Head(w)))
                   PROVE  /\ missed[q] + i <= Len(published[q])
                          /\ Append(m, Head(w))[i] = published[q][missed[q] + i]
        BY <2>1 DEF Matches
      <4>1. CASE i \in 1 .. Len(m)
        BY <1>4, <2>3, <4>1 DEF Matches
      <4>2. CASE i = Len(m) + 1
        <5> DEFINE a == missed[q]
                   b == Len(m)
        <5>1. a \in Nat /\ b \in Nat /\ i = b + 1
          BY <1>2, <4>2
        <5>2. a + b + 1 <= Len(published[q]) /\ Append(m, Head(w))[i] = published[q][a + b + 1]
          BY <1>4, <2>2, <4>2
        <5> HIDE DEF a, b
        <5>3. a + b + 1 = a + i
          BY <5>1
        <5> QED BY <5>2, <5>3 DEF a
      <4> QED BY <1>4, <4>1, <4>2
    <3>2. messages'[q] # <<Apology>>
      <4>1. Append(m, Head(w))[Len(m) + 1] # Apology
        BY <1>1, <1>4, Marks DEF w
      <4>2. messages'[q] = <<Apology>> => Len(m) + 1 = 1 /\ messages'[q][1] = Apology
        BY <1>2, <1>4, <2>1
      <4> QED BY <2>1, <4>1, <4>2
    <3> QED BY <3>1, <3>2 DEF Shown
  <2>5. OnTheWire(q)'
    <3> DEFINE a == missed[q] + Len(m)
    <3>1. a \in Nat /\ missed[q] + Len(messages'[q]) = a + 1
      BY <1>2, <1>4, <2>1
    <3>2. ASSUME NEW i \in 1 .. Len(Tail(w)), Tail(w)[i] # Broken
          PROVE  /\ (a + 1) + i <= Len(published[q])
                 /\ Tail(w)[i] = published[q][(a + 1) + i]
      <4>1. i + 1 \in 1 .. Len(w) /\ w[i + 1] = Tail(w)[i]
        BY <1>3
      <4>2. a + (i + 1) <= Len(published[q]) /\ w[i + 1] = published[q][a + (i + 1)]
        BY <1>1, <1>8, <3>2, <4>1 DEF OnTheWire, m, w
      <4> HIDE DEF a
      <4>3. a + (i + 1) = (a + 1) + i
        BY <3>1
      <4> QED BY <4>1, <4>2, <4>3
    <3> HIDE DEF a
    <3> QED BY <1>1, <2>1, <3>1, <3>2 DEF OnTheWire, w
  <2>6. AtTheRelay(q)'
    <3>1. ~ClientGone(q)' => ~ClientGone(q)
      <4>1. \A i \in 1 .. Len(w) : i = 1 \/ i - 1 \in 1 .. Len(Tail(w))
        BY <1>3
      <4>2. \A i \in 1 .. Len(w) :
              w[i] = Broken => i - 1 \in 1 .. Len(Tail(w)) /\ Tail(w)[i - 1] = Broken
        BY <1>1, <1>3, <4>1, Marks DEF w
      <4>3. Contains(w, Broken) => Contains(Tail(w), Broken)
        BY <4>2 DEF Contains
      <4> QED BY <1>1, <4>3 DEF ClientGone, w
    <3>2. Len(messages'[q]) = Len(m) + 1 /\ Len(wire'[q]) = Len(w) - 1
      BY <1>1, <1>3, <1>4, <2>1
    <3>3. missed[q] + Len(messages'[q]) + Len(wire'[q]) = missed[q] + Len(m) + Len(w)
      <4> DEFINE a == missed[q]
                 b == Len(m)
                 c == Len(w)
      <4>1. a \in Nat /\ b \in Nat /\ c \in Nat
        BY <1>2, <1>3
      <4> HIDE DEF a, b, c
      <4>2. a + (b + 1) + (c - 1) = a + b + c
        BY <4>1
      <4> QED BY <3>2, <4>2 DEF a, b, c
    <3> QED BY <1>1, <2>1, <3>1, <3>3 DEF AtTheRelay, Matches, m, w
  <2>7. Whole(q)'
    BY <1>1 DEF Whole
  <2> QED BY <1>5, <1>6, <2>4, <2>5, <2>6, <2>7
<1> QED BY <1>7, <1>8

LEMMA EndsStream ==
  ASSUME Typed, NEW q \in Question, Stream(q), call[q] = "open",
         NEW how \in {"answered", "failed", "stopped"}, Ends(q, how),
         messages'[q] = messages[q]
         \/ (q \in listed /\ messages[q] = <<>> /\ messages'[q] = <<Apology>> /\ how = "failed"),
         how = "answered" => wire[q] # <<>> /\ Head(wire[q]) = Done
  PROVE  Stream(q)'
<1> USE DEF Stream
<1>1. /\ call'[q] = how /\ wire'[q] = <<>>
      /\ UNCHANGED <<listed, relay, subscribed, inbox, jobVars, ghosts>>
  BY DEF Ends, gatewayVars, Typed, PageTyped, RelayTyped
<1>2. Stages(q)' /\ Pushed(q)' /\ Silence(q)' /\ History(q)'
  BY <1>1 DEF Stages, Pushed, Silence, History, jobVars, ghosts
<1>3. messages[q] # <<Apology>> \/ q \notin listed
  BY DEF Shown
<1>4. Shown(q)'
  BY <1>1, <1>3 DEF Shown, Matches, ghosts
<1>5. OnTheWire(q)' /\ AtTheRelay(q)'
  BY <1>1 DEF OnTheWire, AtTheRelay, ClientGone
<1>6. Whole(q)'
  <2> SUFFICES ASSUME q \in listed, how = "answered" PROVE Whole(q)'
    BY <1>1 DEF Whole
  <2>1. wire[q] \in Seq(Token \cup {Done, Broken}) /\ wire[q] # <<>>
    BY Sequences4
  <2>2. 1 \in 1 .. Len(wire[q]) /\ wire[q][1] = Done
    BY <2>1, Taken
  <2>3. messages'[q] = messages[q]
    OBVIOUS
  <2> QED BY <1>1, <2>2, <2>3, Marks DEF OnTheWire, Whole, ghosts
<1> QED BY <1>2, <1>4, <1>5, <1>6

LEMMA TabStream ==
  ASSUME Typed, NEW q \in Question, Stream(q), TabStep(q)
  PROVE  Stream(q)'
<1>1. CASE Finish(q)
  BY <1>1, EndsStream DEF Finish, Reads
<1>2. CASE ShowStopped(q)
  BY <1>2, EndsStream DEF ShowStopped
<1>3. CASE ShowError(q)
  <2>1. /\ call[q] = "open" /\ Ends(q, "failed")
        /\ \/ messages'[q] = messages[q]
           \/ q \in listed /\ messages[q] = <<>> /\ messages'[q] = <<Apology>>
    BY <1>3 DEF ShowError, Reads, Typed, PageTyped
  <2> QED BY <2>1, EndsStream
<1> QED BY <1>1, <1>2, <1>3, AskStream, ShowTokenStream DEF TabStep

-----------------------------------------------------------------------------
\* The relay: a message goes from the inbox to the wire, or the stream closes.
LEMMA SendEffect ==
  ASSUME Typed, NEW q \in Question, NEW m \in Token \cup {Done, Broken}, Send(q, m)
  PROVE  wire'[q] = IF ClientGone(q) THEN wire[q] ELSE Append(wire[q], m)
BY DEF Send, Typed, RelayTyped

LEMMA CloseEffect ==
  ASSUME Typed, NEW q \in Question, Close(q)
  PROVE  relay'[q] = "closed" /\ subscribed'[q] = "none" /\ inbox'[q] = <<>>
BY DEF Close, Typed, RelayTyped

\* A stream that closes; what is sent to the tab meanwhile is Broken or the message the
\* tab is to get next.
LEMMA ClosingStream ==
  ASSUME Typed, NEW q \in Question, Stream(q),
         relay[q] # "none",
         relay'[q] = "closed" /\ subscribed'[q] = "none" /\ inbox'[q] = <<>>,
         UNCHANGED <<pageVars, call, aborted, ghosts>>, SameWorker(q),
         OnTheWire(q)'
  PROVE  Stream(q)'
<1> USE DEF Stream
<1>1. Stages(q)' /\ Silence(q)' /\ History(q)'
  BY DEF Stages, Silence, History, pageVars, ghosts
<1>2. Pushed(q)'
  BY PushedKept
<1>3. Shown(q)' /\ AtTheRelay(q)' /\ Whole(q)'
  BY DEF Shown, AtTheRelay, Whole, Matches, pageVars, ghosts
<1> QED BY <1>1, <1>2, <1>3

\* One more element on the wire.
LEMMA OneMore ==
  ASSUME Typed, NEW q \in Question, Stream(q), NEW m \in Token \cup {Done, Broken},
         wire'[q] = Append(wire[q], m),
         UNCHANGED <<pageVars, call, ghosts>>,
         m # Broken => /\ q \in listed /\ relay[q] # "closed" /\ ~ClientGone(q) =>
                            /\ inbox[q] # <<>>
                            /\ m = Head(inbox[q])
                       /\ relay[q] # "closed" /\ ~ClientGone(q)
  PROVE  OnTheWire(q)'
<1> USE DEF Stream
<1>1. /\ wire[q] \in Seq(Token \cup {Done, Broken}) /\ Len(wire[q]) \in Nat
      /\ inbox[q] \in Seq(Token \cup {Done})
      /\ Len(messages[q]) \in Nat /\ Len(published[q]) \in Nat /\ missed[q] \in Nat
  BY Sequences4
<1>2. /\ \A i \in 1 .. Len(wire[q]) : wire'[q][i] = wire[q][i]
      /\ wire'[q][Len(wire[q]) + 1] = m
      /\ \A i \in 1 .. Len(wire'[q]) : i \in 1 .. Len(wire[q]) \/ i = Len(wire[q]) + 1
  BY <1>1, Added
<1>3. UNCHANGED <<listed, messages, call, published, missed>>
  BY DEF pageVars, ghosts
<1> SUFFICES ASSUME q \in listed, call[q] = "open",
                    NEW i \in 1 .. Len(wire'[q]), wire'[q][i] # Broken
             PROVE  /\ missed[q] + Len(messages[q]) + i <= Len(published[q])
                    /\ wire'[q][i] = published[q][missed[q] + Len(messages[q]) + i]
  BY <1>3 DEF OnTheWire
<1>4. CASE i \in 1 .. Len(wire[q])
  BY <1>2, <1>4 DEF OnTheWire
<1>5. CASE i = Len(wire[q]) + 1
  <2>1. m # Broken /\ m = wire'[q][i]
    BY <1>2, <1>5
  <2>2. inbox[q] # <<>> /\ m = Head(inbox[q]) /\ relay[q] # "closed" /\ ~ClientGone(q)
    BY <2>1
  <2>3. 1 \in 1 .. Len(inbox[q]) /\ m = inbox[q][1]
    BY <1>1, <2>2, Taken
  <2>4. Matches(q, inbox[q], missed[q] + Len(messages[q]) + Len(wire[q]))
    BY <2>2 DEF AtTheRelay
  <2> DEFINE a == missed[q] + Len(messages[q])
             b == Len(wire[q])
  <2>5. a + b + 1 <= Len(published[q]) /\ inbox[q][1] = published[q][a + b + 1]
    BY <2>3, <2>4 DEF Matches
  <2>6. a \in Nat /\ b \in Nat /\ i = b + 1
    BY <1>1, <1>5
  <2> SUFFICES a + i <= Len(published[q]) /\ wire'[q][i] = published[q][a + i]
    OBVIOUS
  <2> HIDE DEF a, b
  <2>7. a + b + 1 = a + i
    BY <2>6
  <2> QED BY <2>1, <2>3, <2>5, <2>7
<1> QED BY <1>2, <1>4, <1>5

LEMMA WireKept ==
  ASSUME NEW q \in Question, OnTheWire(q), wire'[q] = wire[q],
         UNCHANGED <<pageVars, call, ghosts>>
  PROVE  OnTheWire(q)'
BY DEF OnTheWire, pageVars, ghosts

LEMMA BreakingStream ==
  ASSUME Typed, NEW q \in Question, Stream(q), relay[q] # "none", Close(q), Send(q, Broken),
         UNCHANGED <<pageVars, call, aborted, ghosts>>, SameWorker(q)
  PROVE  Stream(q)'
<1>1. wire'[q] = wire[q] \/ wire'[q] = Append(wire[q], Broken)
  BY SendEffect
<1>2. OnTheWire(q)'
  BY <1>1, WireKept, OneMore DEF Stream
<1> QED BY <1>2, CloseEffect, ClosingStream

LEMMA RegisterStream ==
  ASSUME Typed, NEW q \in Question, Stream(q), RegisterQuestion(q)
  PROVE  Stream(q)'
<1> USE DEF Stream
<1>1. /\ UNCHANGED <<pageVars, call, aborted, jobVars, ghosts>> /\ SameWorker(q)
      /\ relay[q] = "lookup"
  BY DEF RegisterQuestion, jobVars, SameWorker
<1>2. CASE document
  <2>1. relay'[q] = "subscribe" /\ UNCHANGED <<wire, subscribed, inbox>>
    BY <1>2 DEF RegisterQuestion, Handler, After, Typed, RelayTyped
  <2>2. Stages(q)' /\ History(q)' /\ Silence(q)'
    BY <1>1, <2>1 DEF Stages, History, Silence, pageVars, ghosts
  <2>3. Pushed(q)'
    BY <1>1, PushedKept
  <2>4. Shown(q)' /\ OnTheWire(q)' /\ Whole(q)'
    BY <1>1, <2>1, WireKept DEF Shown, Whole, Matches, pageVars, ghosts
  <2>5. AtTheRelay(q)'
    BY <1>1, <2>1 DEF AtTheRelay, Matches, ClientGone, pageVars, ghosts
  <2> QED BY <2>2, <2>3, <2>4, <2>5
<1>3. CASE ~document
  BY <1>1, <1>3, BreakingStream DEF RegisterQuestion
<1> QED BY <1>2, <1>3

\* The subscription is sent, takes effect, or the job is pushed: nothing travels.
LEMMA SetupStream ==
  ASSUME Typed, NEW q \in Question, Stream(q),
         Subscribe(q) \/ SubscriptionTakesEffect(q) \/ PushQuestion(q)
  PROVE  Stream(q)'
<1> USE DEF Stream
<1>1. /\ UNCHANGED <<pageVars, call, aborted, wire, inbox, job, ghosts>>
  BY DEF Subscribe, SubscriptionTakesEffect, PushQuestion, callVars, jobVars
<1>2. \/ /\ relay[q] = "subscribe" /\ relay'[q] = "push" /\ queue' = queue
         /\ subscribed'[q] \in {"sent", "active"}
      \/ /\ relay'[q] = relay[q] /\ queue' = queue
         /\ subscribed[q] = "sent" /\ subscribed'[q] = "active"
      \/ /\ relay[q] = "push" /\ relay'[q] = "relay" /\ queue' = Append(queue, q)
         /\ subscribed'[q] = subscribed[q]
  BY DEF Subscribe, SubscriptionTakesEffect, PushQuestion, Handler, After, jobVars, Typed,
         RelayTyped
<1>3. Stages(q)' /\ History(q)' /\ Silence(q)'
  BY <1>1, <1>2 DEF Stages, History, Silence, pageVars, ghosts
<1>4. Pushed(q)'
  <2>1. CASE relay'[q] = "relay"
    BY <2>1 DEF Pushed
  <2>2. CASE relay'[q] # "relay"
    <3>1. SameWorker(q) /\ (relay[q] \in {"relay", "closed"} => relay'[q] \in {"relay", "closed"})
      BY <1>1, <1>2, <2>2 DEF SameWorker
    <3> QED BY <3>1, PushedKept
  <2> QED BY <2>1, <2>2
<1>5. Shown(q)' /\ OnTheWire(q)' /\ Whole(q)'
  BY <1>1, WireKept DEF Shown, Whole, Matches, pageVars, ghosts
<1>6. AtTheRelay(q)'
  <2>1. relay[q] # "closed"
    BY <1>2 DEF Stages
  <2> QED BY <1>1, <2>1 DEF AtTheRelay, Matches, ClientGone, pageVars, ghosts
<1> QED BY <1>3, <1>4, <1>5, <1>6

LEMMA RelayMessageStream ==
  ASSUME Typed, NEW q \in Question, Stream(q), RelayMessage(q)
  PROVE  Stream(q)'
<1> USE DEF Stream
<1> DEFINE h == Head(inbox[q])
           w == wire[q]
           b == inbox[q]
<1>1. /\ UNCHANGED <<pageVars, call, aborted, ghosts>> /\ SameWorker(q)
      /\ relay[q] = "relay" /\ b # <<>> /\ Send(q, h)
  BY DEF RelayMessage, jobVars, SameWorker
<1>2. /\ Len(messages[q]) \in Nat /\ Len(published[q]) \in Nat /\ missed[q] \in Nat
      /\ w \in Seq(Token \cup {Done, Broken}) /\ Len(w) \in Nat
      /\ b \in Seq(Token \cup {Done})
  BY Sequences4
<1>3. /\ h = b[1] /\ h \in Token \cup {Done} /\ Len(b) \in Nat /\ Len(b) >= 1
      /\ Len(Tail(b)) = Len(b) - 1
      /\ \A i \in 1 .. Len(Tail(b)) : i + 1 \in 1 .. Len(b) /\ Tail(b)[i] = b[i + 1]
  BY <1>1, <1>2, Taken
<1>4. wire'[q] = IF ClientGone(q) THEN w ELSE Append(w, h)
  BY <1>1, <1>3, SendEffect
<1>5. OnTheWire(q)'
  BY <1>1, <1>3, <1>4, WireKept, OneMore
<1>6. CASE h = Done
  <2>1. Close(q)
    BY <1>6 DEF RelayMessage
  <2> QED BY <1>1, <1>5, <2>1, CloseEffect, ClosingStream
<1>7. CASE h # Done
  <2>1. inbox'[q] = Tail(b) /\ UNCHANGED <<relay, subscribed>>
    BY <1>7 DEF RelayMessage, Typed, RelayTyped
  <2>2. subscribed[q] = "active"
    BY <1>1 DEF Silence
  <2>3. Stages(q)' /\ History(q)' /\ Silence(q)'
    BY <1>1, <2>1, <2>2 DEF Stages, History, Silence, pageVars, ghosts
  <2>4. Pushed(q)'
    BY <1>1, <2>1, PushedKept
  <2>5. Shown(q)' /\ Whole(q)'
    BY <1>1 DEF Shown, Whole, Matches, pageVars, ghosts
  <2>6. AtTheRelay(q)'
    <3> SUFFICES ASSUME q \in listed, ~ClientGone(q)' PROVE AtTheRelay(q)'
      BY <1>1 DEF AtTheRelay, pageVars
    <3>1. ~ClientGone(q)
      <4>1. Contains(w, Broken) => Contains(wire'[q], Broken)
        <5>1. CASE ClientGone(q)
          BY <1>4, <5>1
        <5>2. CASE ~ClientGone(q)
          BY <5>2 DEF ClientGone
        <5> QED BY <5>1, <5>2
      <4> QED BY <1>1, <4>1 DEF ClientGone
    <3> DEFINE a == missed[q] + Len(messages[q]) + Len(w)
    <3>2. Matches(q, b, a) /\ a + Len(b) = Len(published[q])
      BY <1>1, <3>1 DEF AtTheRelay
    <3>3. a \in Nat /\ missed[q] + Len(messages[q]) + Len(wire'[q]) = a + 1
      <4>1. Len(wire'[q]) = Len(w) + 1
        BY <1>2, <1>3, <1>4, <3>1, Added
      <4> DEFINE d == missed[q] + Len(messages[q])
                 c == Len(w)
      <4>2. d \in Nat /\ c \in Nat
        BY <1>2
      <4> HIDE DEF d, c
      <4>3. d + c \in Nat /\ d + (c + 1) = (d + c) + 1
        BY <4>2
      <4> QED BY <4>1, <4>3 DEF d, c
    <3> HIDE DEF a, w, b, h
    <3>4. Matches(q, Tail(b), a + 1)
      <4> SUFFICES ASSUME NEW i \in 1 .. Len(Tail(b))
                   PROVE  /\ (a + 1) + i <= Len(published[q])
                          /\ Tail(b)[i] = published[q][(a + 1) + i]
        BY DEF Matches
      <4>1. i + 1 \in 1 .. Len(b) /\ Tail(b)[i] = b[i + 1]
        BY <1>3
      <4>2. a + (i + 1) <= Len(published[q]) /\ b[i + 1] = published[q][a + (i + 1)]
        BY <3>2, <4>1 DEF Matches
      <4>3. a + (i + 1) = (a + 1) + i
        BY <3>3
      <4> QED BY <4>1, <4>2, <4>3
    <3>5. (a + 1) + Len(Tail(b)) = Len(published[q])
      <4> DEFINE c == Len(b)
                 d == Len(published[q])
      <4>1. c \in Nat /\ Len(Tail(b)) = c - 1 /\ a + c = d
        BY <1>3, <3>2
      <4> HIDE DEF c, d
      <4>2. (a + 1) + (c - 1) = d
        BY <3>3, <4>1
      <4> QED BY <4>1, <4>2 DEF d
    <3> QED BY <1>1, <2>1, <3>3, <3>4, <3>5 DEF AtTheRelay, Matches, pageVars, ghosts
  <2> QED BY <1>5, <2>3, <2>4, <2>5, <2>6
<1> QED BY <1>6, <1>7

LEMMA CutStream ==
  ASSUME Typed, NEW q \in Question, Stream(q), Cut(q)
  PROVE  Stream(q)'
<1> USE DEF Stream
<1>1. /\ UNCHANGED <<pageVars, call, aborted, relay, subscribed, inbox, jobVars, ghosts>>
      /\ SameWorker(q) /\ call[q] = "open"
  BY DEF Cut, gatewayVars, jobVars, SameWorker
<1>2. PICK n \in 0 .. Len(wire[q]) : wire'[q] = Append(SubSeq(wire[q], 1, n), Broken)
  BY DEF Cut, Typed, RelayTyped
<1> DEFINE p == SubSeq(wire[q], 1, n)
<1>3. wire[q] \in Seq(Token \cup {Done, Broken}) /\ Len(wire[q]) \in Nat
  BY Sequences4
<1>4. /\ n \in Nat
      /\ \A i \in 1 .. n : i \in 1 .. Len(wire[q]) /\ wire[q][i] \in Token \cup {Done, Broken}
  BY <1>3, ElementOfSeq
<1>5. /\ p \in Seq(Token \cup {Done, Broken}) /\ Len(p) = n
      /\ \A i \in 1 .. n : p[i] = wire[q][i]
  BY <1>4, SubSeqProperties
<1> HIDE DEF p
<1>6. /\ Len(wire'[q]) = n + 1
      /\ \A i \in 1 .. n : wire'[q][i] = wire[q][i]
      /\ wire'[q][n + 1] = Broken
      /\ \A i \in 1 .. Len(wire'[q]) : i \in 1 .. n \/ i = n + 1
  BY <1>2, <1>5, Added DEF p
<1>7. Stages(q)' /\ History(q)' /\ Silence(q)'
  BY <1>1 DEF Stages, History, Silence, pageVars, ghosts
<1>8. Pushed(q)'
  BY <1>1, PushedKept
<1>9. Shown(q)' /\ Whole(q)'
  BY <1>1 DEF Shown, Whole, Matches, pageVars, ghosts
<1>10. OnTheWire(q)'
  BY <1>1, <1>4, <1>6 DEF OnTheWire, pageVars, ghosts
<1>11. AtTheRelay(q)'
  <2>1. n + 1 \in 1 .. Len(wire'[q])
    BY <1>4, <1>6
  <2>2. ClientGone(q)'
    BY <1>6, <2>1 DEF ClientGone, Contains
  <2> QED BY <2>2 DEF AtTheRelay
<1> QED BY <1>7, <1>8, <1>9, <1>10, <1>11

LEMMA RelayStream ==
  ASSUME Typed, NEW q \in Question, Stream(q), RelayStep(q)
  PROVE  Stream(q)'
<1>1. CASE CommandFails(q)
  BY <1>1, BreakingStream DEF CommandFails, jobVars, SameWorker
<1>2. CASE ClientDone(q)
  <2>1. /\ relay[q] # "none" /\ Close(q) /\ wire' = wire
        /\ UNCHANGED <<pageVars, call, aborted, ghosts>> /\ SameWorker(q)
    BY <1>2 DEF ClientDone, callVars, jobVars, SameWorker
  <2> QED BY <2>1, WireKept, CloseEffect, ClosingStream DEF Stream
<1> QED BY <1>1, <1>2, RegisterStream, SetupStream, RelayMessageStream, CutStream DEF RelayStep

-----------------------------------------------------------------------------
\* A message is published on the stream of q.
LEMMA PublishEffect ==
  ASSUME Typed, NEW q \in Question, NEW m \in Token \cup {Done}, Publish(q, m)
  PROVE  /\ published'[q] = IF Followed(q) THEN Append(published[q], m) ELSE published[q]
         /\ inbox'[q] = IF subscribed[q] = "active" THEN Append(inbox[q], m) ELSE inbox[q]
         /\ missed'[q] = IF Followed(q) /\ subscribed[q] = "sent"
                           THEN missed[q] + 1 ELSE missed[q]
BY DEF Publish, Listeners, Typed, RelayTyped, HistoryTyped

LEMMA PublishStream ==
  ASSUME Typed, NEW q \in Question, Stream(q), PublishStep, job = q
  PROVE  Stream(q)'
<1> USE DEF Stream
<1> DEFINE p == published[q]
           n == missed[q] + Len(messages[q])
<1>1. PICK m \in Token \cup {Done} : Publish(q, m)
  BY PublishFrame
<1>2. /\ UNCHANGED <<pageVars, call, aborted, wire, relay, subscribed>> /\ SameWorker(q)
      /\ relay[q] \in {"relay", "closed"}
  BY PublishFrame DEF callVars, SameWorker, Pushed
<1>3. /\ p \in Seq(Token \cup {Done}) /\ Len(p) \in Nat /\ missed[q] \in Nat
      /\ inbox[q] \in Seq(Token \cup {Done}) /\ Len(inbox[q]) \in Nat
      /\ Len(messages[q]) \in Nat /\ Len(wire[q]) \in Nat
  BY Sequences4
<1>4. /\ Len(Append(p, m)) = Len(p) + 1
      /\ \A i \in 1 .. Len(p) : Append(p, m)[i] = p[i]
      /\ Append(p, m)[Len(p) + 1] = m
  BY <1>3, Added
<1>5. Stages(q)' /\ Pushed(q)'
  BY <1>2, PushedKept DEF Stages, pageVars
<1>6. ClientGone(q)' <=> ClientGone(q)
  BY <1>2 DEF ClientGone, Contains
<1>7. CASE ~Followed(q)
  <2>1. published'[q] = p /\ missed'[q] = missed[q]
    BY <1>1, <1>7, PublishEffect
  <2>2. q \in listed => relay[q] = "closed"
    BY <1>7 DEF Followed
  <2>3. inbox'[q] = inbox[q] \/ subscribed[q] = "active"
    BY <1>1, PublishEffect
  <2>4. History(q)' /\ Silence(q)'
    BY <1>2, <2>1, <2>2, <2>3 DEF History, Silence, pageVars
  <2>5. Shown(q)' /\ OnTheWire(q)' /\ Whole(q)'
    BY <1>2, <2>1 DEF Shown, OnTheWire, Whole, Matches, pageVars
  <2>6. AtTheRelay(q)'
    BY <1>2, <2>2 DEF AtTheRelay, pageVars
  <2> QED BY <1>5, <2>4, <2>5, <2>6
<1>8. CASE Followed(q) /\ subscribed[q] = "active"
  <2>1. published'[q] = Append(p, m) /\ missed'[q] = missed[q]
        /\ inbox'[q] = Append(inbox[q], m)
    BY <1>1, <1>8, PublishEffect
  <2>2. q \in listed /\ relay[q] # "closed"
    BY <1>8 DEF Followed
  <2>3. /\ Len(inbox'[q]) = Len(inbox[q]) + 1
        /\ \A i \in 1 .. Len(inbox[q]) : inbox'[q][i] = inbox[q][i]
        /\ inbox'[q][Len(inbox[q]) + 1] = m
        /\ \A i \in 1 .. Len(inbox'[q]) : i \in 1 .. Len(inbox[q]) \/ i = Len(inbox[q]) + 1
    BY <1>3, <2>1, Added
  <2>4. \A k \in Nat : k >= 1 /\ k <= Len(p) => k <= Len(published'[q]) /\ published'[q][k] = p[k]
    BY <1>3, <1>4, <2>1
  <2>5. History(q)' /\ Silence(q)'
    BY <1>2, <1>3, <1>4, <1>8, <2>1, <2>2 DEF History, Silence, pageVars
  <2>6. ASSUME NEW s, NEW k \in Nat, Matches(q, s, k)
        PROVE  \A i \in 1 .. Len(s) : k + i <= Len(published'[q]) /\ s[i] = published'[q][k + i]
    <3> TAKE i \in 1 .. Len(s)
    <3>1. k + i <= Len(p) /\ s[i] = p[k + i]
      BY <2>6 DEF Matches
    <3>2. k + i \in Nat /\ k + i >= 1
      OBVIOUS
    <3> QED BY <2>4, <3>1, <3>2
  <2>7. Shown(q)'
    <3>1. Matches(q, messages[q], missed[q]) => Matches(q, messages[q], missed[q])'
      BY <1>2, <1>3, <2>1, <2>6 DEF Matches, pageVars
    <3> QED BY <1>2, <3>1 DEF Shown, pageVars
  <2>8. OnTheWire(q)'
    <3>1. n \in Nat
      BY <1>3
    <3>2. \A i \in 1 .. Len(wire[q]) : i \in Nat /\ n + i \in Nat /\ n + i >= 1
      BY <3>1
    <3> QED BY <1>2, <2>1, <2>4, <3>2 DEF OnTheWire, pageVars
  <2>9. Whole(q)'
    <3>1. n + 1 \in Nat /\ n + 1 >= 1
      BY <1>3
    <3> QED BY <1>2, <2>1, <2>4, <3>1 DEF Whole, pageVars
  <2>10. AtTheRelay(q)'
    <3> SUFFICES ASSUME ~ClientGone(q) PROVE AtTheRelay(q)'
      BY <1>6 DEF AtTheRelay
    <3> DEFINE a == missed[q] + Len(messages[q]) + Len(wire[q])
    <3>1. a \in Nat /\ Matches(q, inbox[q], a) /\ a + Len(inbox[q]) = Len(p)
      BY <1>3, <2>2 DEF AtTheRelay
    <3> HIDE DEF a, p
    <3>2. a + Len(inbox'[q]) = Len(published'[q])
      <4> DEFINE b == Len(inbox[q])
                 l == Len(p)
      <4>1. /\ b \in Nat /\ l \in Nat /\ a + b = l
            /\ Len(inbox'[q]) = b + 1 /\ Len(published'[q]) = l + 1
        BY <1>3, <1>4, <2>1, <2>3, <3>1
      <4> HIDE DEF b, l
      <4>2. a + (b + 1) = l + 1
        BY <3>1, <4>1
      <4> QED BY <4>1, <4>2
    <3>3. ASSUME NEW i \in 1 .. Len(inbox'[q])
          PROVE  a + i <= Len(published'[q]) /\ inbox'[q][i] = published'[q][a + i]
      <4>1. CASE i \in 1 .. Len(inbox[q])
        BY <2>3, <2>6, <3>1, <4>1
      <4>2. CASE i = Len(inbox[q]) + 1
        <5>1. a + i = Len(published'[q]) /\ a + i = Len(p) + 1
          BY <1>4, <2>1, <2>3, <3>2, <4>2
        <5>2. inbox'[q][i] = m /\ published'[q][Len(p) + 1] = m
          BY <1>4, <2>1, <2>3, <4>2
        <5>3. a + i \in Nat
          BY <3>1
        <5> QED BY <5>1, <5>2, <5>3
      <4> QED BY <2>3, <4>1, <4>2
    <3> QED BY <1>2, <2>1, <3>2, <3>3 DEF AtTheRelay, Matches, a, pageVars
  <2> QED BY <1>5, <2>5, <2>7, <2>8, <2>9, <2>10
<1>9. CASE Followed(q) /\ subscribed[q] # "active"
  <2>1. q \in listed /\ relay[q] = "relay" /\ subscribed[q] = "sent"
    BY <1>2, <1>9 DEF Followed, Stages, Typed, RelayTyped
  <2>2. missed[q] = Len(p) /\ inbox[q] = <<>>
    BY <2>1 DEF Silence
  <2>3. published'[q] = Append(p, m) /\ missed'[q] = missed[q] + 1 /\ inbox'[q] = <<>>
    BY <1>1, <1>9, <2>1, <2>2, PublishEffect
  <2>4. Len(published'[q]) = missed'[q]
    BY <1>4, <2>2, <2>3
  <2>5. History(q)' /\ Silence(q)'
    BY <1>2, <1>3, <2>1, <2>3, <2>4 DEF History, Silence, pageVars
  <2>6. \A s : Matches(q, s, missed[q]) /\ Len(s) \in Nat => Len(s) = 0
    <3> SUFFICES ASSUME NEW s, Matches(q, s, missed[q]), Len(s) \in Nat, Len(s) # 0 PROVE FALSE
      OBVIOUS
    <3>1. 1 \in 1 .. Len(s)
      OBVIOUS
    <3> QED BY <1>3, <2>2, <3>1 DEF Matches
  <2>7. Shown(q)'
    <3>1. ASSUME Matches(q, messages[q], missed[q]) PROVE Matches(q, messages[q], missed[q])'
      <4>1. Len(messages'[q]) = 0
        BY <1>2, <1>3, <2>6, <3>1 DEF pageVars
      <4> QED BY <4>1 DEF Matches
    <3> QED BY <1>2, <3>1 DEF Shown, pageVars
  <2>8. \A i \in Nat : i >= 1 => ~(n + i <= Len(p))
    <3> DEFINE a == missed[q]
               b == Len(messages[q])
               d == Len(p)
    <3>1. a \in Nat /\ b \in Nat /\ d \in Nat /\ a = d
      BY <1>3, <2>2
    <3> HIDE DEF a, b, d
    <3>2. \A i \in Nat : i >= 1 => ~(a + b + i <= d)
      BY <3>1
    <3> QED BY <3>2 DEF a, b, d
  <2>9. OnTheWire(q)'
    <3>1. ASSUME call[q] = "open", NEW i \in 1 .. Len(wire[q]), wire[q][i] # Broken PROVE FALSE
      <4>1. n + i <= Len(p)
        BY <2>1, <3>1 DEF OnTheWire
      <4> QED BY <2>8, <4>1
    <3> QED BY <1>2, <3>1 DEF OnTheWire, pageVars
  <2>10. ~Whole(q) \/ ~(q \in listed /\ call[q] = "answered")
    <3>1. ~(n + 1 <= Len(p))
      BY <2>8
    <3> QED BY <3>1 DEF Whole
  <2>11. Whole(q)'
    BY <1>2, <2>10 DEF Whole, pageVars
  <2>12. AtTheRelay(q)'
    <3> SUFFICES ASSUME ~ClientGone(q) PROVE AtTheRelay(q)'
      BY <1>6 DEF AtTheRelay
    <3>1. missed[q] + Len(messages[q]) + Len(wire[q]) + Len(inbox[q]) = Len(p)
      BY <2>1 DEF AtTheRelay
    <3>2. Len(messages[q]) = 0 /\ Len(wire[q]) = 0
      <4> DEFINE a == Len(messages[q])
                 b == Len(wire[q])
                 c == Len(inbox[q])
                 d == missed[q]
      <4>1. a \in Nat /\ b \in Nat /\ c \in Nat /\ d \in Nat /\ d + a + b + c = d
        BY <1>3, <2>2, <3>1
      <4> HIDE DEF a, b, c, d
      <4>2. a = 0 /\ b = 0
        BY <4>1
      <4> QED BY <4>2 DEF a, b
    <3>3. messages' = messages /\ wire' = wire /\ missed'[q] \in Nat
      BY <1>2, <1>3, <2>3 DEF pageVars
    <3> QED BY <2>3, <2>4, <3>2, <3>3, Empty DEF AtTheRelay, Matches
  <2> QED BY <1>5, <2>5, <2>7, <2>9, <2>11, <2>12
<1> QED BY <1>7, <1>8, <1>9

-----------------------------------------------------------------------------
LEMMA StreamInit == Init => StreamInv
<1> SUFFICES ASSUME Init PROVE StreamInv
  OBVIOUS
<1>1. ASSUME NEW q \in Question PROVE Stream(q)
  <2>1. /\ call[q] = "none" /\ relay[q] = "none" /\ subscribed[q] = "none"
        /\ messages[q] = <<>> /\ wire[q] = <<>> /\ inbox[q] = <<>> /\ published[q] = <<>>
        /\ missed[q] = 0 /\ listed = {} /\ queue = <<>> /\ job = Nobody
    BY DEF Init
  <2>2. Stages(q) /\ History(q) /\ Silence(q)
    BY <2>1, Empty DEF Stages, History, Silence
  <2>3. Pushed(q)
    BY <2>1, Empty, Bounds DEF Pushed
  <2>4. Shown(q) /\ OnTheWire(q) /\ AtTheRelay(q) /\ Whole(q)
    BY <2>1 DEF Shown, OnTheWire, AtTheRelay, Whole
  <2> QED BY <2>2, <2>3, <2>4 DEF Stream
<1> QED BY <1>1, TypedInit DEF StreamInv

\* The list of messages is emptied: nothing is claimed of the streams that go on.
LEMMA ForgetStream ==
  ASSUME Typed, NEW q \in Question, Stream(q), Forget,
         UNCHANGED <<call, wire, gatewayVars, jobVars>>
  PROVE  Stream(q)'
<1> USE DEF Stream
<1>1. listed' = {} /\ messages'[q] = <<>> /\ published'[q] = <<>> /\ missed'[q] = 0
  BY DEF Forget
<1>2. Stages(q)' /\ Pushed(q)' /\ Silence(q)'
  BY <1>1 DEF Stages, Pushed, Silence, gatewayVars, jobVars
<1>3. History(q)'
  BY <1>1, Empty DEF History
<1>4. Shown(q)' /\ OnTheWire(q)' /\ AtTheRelay(q)' /\ Whole(q)'
  BY <1>1 DEF Shown, OnTheWire, AtTheRelay, Whole
<1> QED BY <1>2, <1>3, <1>4

\* Stop aborts the running call: what waits for the relay may be dropped from now on.
LEMMA StopStream ==
  ASSUME Typed, NEW q \in Question, Stream(q), StopStreaming
  PROVE  Stream(q)'
<1> USE DEF Stream
<1>1. /\ UNCHANGED <<pageVars, call, wire, gatewayVars, jobVars, ghosts>>
      /\ aborted \subseteq aborted'
  BY DEF StopStreaming, Abort
<1>2. Stages(q)' /\ Pushed(q)' /\ Silence(q)' /\ History(q)'
  BY <1>1 DEF Stages, Pushed, Silence, History, pageVars, gatewayVars, jobVars, ghosts
<1>3. Shown(q)' /\ OnTheWire(q)' /\ Whole(q)'
  BY <1>1 DEF Shown, OnTheWire, Whole, Matches, pageVars, ghosts
<1>4. ClientGone(q) => ClientGone(q)'
  BY <1>1 DEF ClientGone, Contains
<1>5. AtTheRelay(q)'
  BY <1>1, <1>4 DEF AtTheRelay, Matches, pageVars, gatewayVars, ghosts
<1> QED BY <1>2, <1>3, <1>5

\* The worker takes the question from the queue, which was pushed.
LEMMA PopStream ==
  ASSUME Typed, NEW q \in Question, Pushed(q), PopQuestion
  PROVE  Pushed(q)'
<1>1. /\ queue \in Seq(Question) /\ queue # <<>>
      /\ job' = Head(queue) /\ queue' = Tail(queue) /\ relay' = relay
  BY DEF PopQuestion, Typed, WorkerTyped, gatewayVars
<1>2. /\ Head(queue) = queue[1] /\ 1 \in 1 .. Len(queue)
      /\ \A i \in 1 .. Len(Tail(queue)) : i + 1 \in 1 .. Len(queue) /\ Tail(queue)[i] = queue[i + 1]
  BY <1>1, Taken
<1> QED BY <1>1, <1>2 DEF Pushed

LEMMA StreamStep == ASSUME StreamInv, [Next]_vars PROVE StreamInv'
<1> USE DEF StreamInv
<1> SUFFICES ASSUME NEW q \in Question PROVE Stream(q)'
  BY TypedStep
<1>0. Typed /\ Stream(q)
  OBVIOUS
<1>1. ASSUME Same(q), SameWorker(q) PROVE Stream(q)'
  <2>1. Pushed(q)'
    BY <1>0, <1>1, PushedKept DEF Same, Stream
  <2> QED BY <1>0, <1>1, <2>1, SameStream
<1>2. ASSUME NEW r \in Question, TabStep(r) PROVE Stream(q)'
  <2>1. CASE r = q
    BY <1>0, <1>2, <2>1, TabStream
  <2>2. CASE r # q
    <3>1. Same(q) /\ SameWorker(q)
      BY <1>0, <1>2, <2>2, OtherTab, TabFrame DEF jobVars, SameWorker
    <3> QED BY <1>1, <3>1
  <2> QED BY <2>1, <2>2
<1>3. ASSUME NEW r \in Question, RelayStep(r) PROVE Stream(q)'
  <2>1. CASE r = q
    BY <1>0, <1>3, <2>1, RelayStream
  <2>2. CASE r # q
    <3>1. Same(q) /\ job' = job
      BY <1>0, <1>3, <2>2, OtherRelay, RelayFrame
    <3>2. queue' = queue \/ queue' = Append(queue, r)
      BY <1>3 DEF RelayStep, RegisterQuestion, Subscribe, SubscriptionTakesEffect, PushQuestion,
             CommandFails, RelayMessage, ClientDone, Cut, jobVars
    <3>3. Pushed(q)'
      <4>1. queue \in Seq(Question)
        BY <1>0 DEF Typed, WorkerTyped
      <4>2. \A i \in 1 .. Len(queue') : queue'[i] = q => i \in 1 .. Len(queue) /\ queue[i] = q
        BY <2>2, <3>2, <4>1, Added
      <4> QED BY <1>0, <3>1, <4>2 DEF Stream, Pushed, Same
    <3> QED BY <1>0, <3>1, <3>3, SameStream
  <2> QED BY <2>1, <2>2
<1>4. CASE Reset
  BY <1>0, <1>4, ForgetStream DEF Reset
<1>5. CASE Remount
  BY <1>0, <1>5, ForgetStream DEF Remount
<1>6. CASE StopStreaming
  BY <1>0, <1>6, StopStream
<1>7. CASE DocumentReady
  BY <1>1, <1>7 DEF DocumentReady, Same, SameWorker, callVars, jobVars, ghosts
<1>8. CASE DocumentExpires
  BY <1>1, <1>8 DEF DocumentExpires, Same, SameWorker, pageVars, callVars, jobVars, ghosts
<1>9. CASE PublishStep
  <2>1. CASE job = q
    BY <1>0, <1>9, <2>1, PublishStream
  <2>2. CASE job # q
    <3>1. Same(q) /\ SameWorker(q)
      BY <1>0, <1>9, <2>2, OtherPublish, PublishFrame DEF SameWorker
    <3> QED BY <1>1, <3>1
  <2> QED BY <2>1, <2>2
<1>10. CASE QuietWorkerStep
  <2>1. Same(q)
    BY <1>10, QuietFrame DEF Same, pageVars, callVars, gatewayVars
  <2>2. CASE PopQuestion
    BY <1>0, <2>1, <2>2, PopStream, SameStream DEF Stream
  <2>3. CASE ~PopQuestion
    <3>1. SameWorker(q)
      BY <1>10, <2>3 DEF QuietWorkerStep, IngestionArrives, ServeIngestion, MarkAnswered,
             TaskRaises, MarkFailed, FailureHandlingRaises, WorkerCrashes, JobLost, Stop,
             SameWorker
    <3> QED BY <1>1, <2>1, <3>1
  <2> QED BY <2>2, <2>3
<1>11. CASE UNCHANGED vars
  BY <1>1, <1>11 DEF vars, Same, SameWorker, pageVars, callVars, gatewayVars, jobVars, ghosts
<1> QED BY <1>2, <1>3, <1>4, <1>5, <1>6, <1>7, <1>8, <1>9, <1>10, <1>11, Steps DEF PageStep

LEMMA StreamAlways == Spec => []StreamInv
BY StreamInit, StreamStep, PTL DEF Spec

-----------------------------------------------------------------------------
(***************************************************************************)
(* From the invariant of the stream to what the reader of a message sees.  *)
(***************************************************************************)

\* The least of a set of naturals.
LEMMA MinOfNaturals ==
  ASSUME NEW S \in SUBSET Nat, S # {}
  PROVE  Min(S) \in S /\ \A x \in S : Min(S) <= x
<1>1. \E x \in S : \A y \in S : ~ (<<y, x>> \in OpToRel(<, Nat))
  BY NatLessThanWellFounded, WFMin
<1>2. OpToRel(<, Nat) = {ss \in Nat \X Nat : ss[1] < ss[2]}
  BY Zenon DEF OpToRel
<1>3. PICK x \in S : \A y \in S : ~ (<<y, x>> \in {ss \in Nat \X Nat : ss[1] < ss[2]})
  BY <1>1, <1>2, Zenon
<1>4. \A y \in S : x <= y
  <2> TAKE y \in S
  <2>1. ~(y < x)
    BY <1>3
  <2> QED BY <2>1
<1> QED BY <1>4 DEF Min

\* What the relay listened to is what was published and not missed.
LEMMA ListenedByElement ==
  ASSUME Typed, NEW q \in Question, missed[q] <= Len(published[q])
  PROVE  /\ Listened(q) \in Seq(Token \cup {Done})
         /\ Len(Listened(q)) \in Nat
         /\ Len(Listened(q)) = Len(published[q]) - missed[q]
         /\ \A i \in 1 .. Len(Listened(q)) : Listened(q)[i] = published[q][missed[q] + i]
<1> DEFINE p == published[q]
           a == missed[q]
<1>1. p \in Seq(Token \cup {Done}) /\ Len(p) \in Nat /\ a \in Nat /\ a <= Len(p)
  BY Sequences4
<1>2. Listened(q) = SubSeq(p, a + 1, Len(p))
  BY DEF Listened
<1> HIDE DEF p, a
<1>3. \A i \in (a + 1) .. Len(p) : p[i] \in Token \cup {Done}
  BY <1>1, ElementOfSeq
<1>4. /\ SubSeq(p, a + 1, Len(p)) \in Seq(Token \cup {Done})
      /\ Len(SubSeq(p, a + 1, Len(p))) = Len(p) - a
      /\ \A i \in 1 .. Len(p) - a : SubSeq(p, a + 1, Len(p))[i] = p[a + i]
  <2>1. a + 1 \in 1 .. Len(p) + 1 /\ Len(p) \in a .. Len(p)
    BY <1>1
  <2> QED BY <1>1, <1>3, <2>1
<1> QED BY <1>1, <1>2, <1>4 DEF p, a

\* What was heard is what was listened to before the first [DONE].
LEMMA HeardByElement ==
  ASSUME Typed, NEW q \in Question, missed[q] <= Len(published[q])
  PROVE  /\ Heard(q) \in Seq(Token \cup {Done})
         /\ Len(Heard(q)) \in 0 .. Len(Listened(q))
         /\ \A i \in 1 .. Len(Heard(q)) :
              Heard(q)[i] = Listened(q)[i] /\ Listened(q)[i] # Done
         /\ Len(Heard(q)) < Len(Listened(q)) => Listened(q)[Len(Heard(q)) + 1] = Done
<1> DEFINE t == Listened(q)
           ends == {i \in DOMAIN t : t[i] = Done}
           n == IF ends = {} THEN Len(t) ELSE Min(ends) - 1
<1>1. t \in Seq(Token \cup {Done}) /\ Len(t) \in Nat
  BY ListenedByElement
<1>2. Heard(q) = SubSeq(t, 1, n)
  BY DEF Heard, UpToDone
<1> HIDE DEF t
<1>3. DOMAIN t = 1 .. Len(t)
  BY <1>1
<1>4. /\ n \in 0 .. Len(t)
      /\ \A i \in 1 .. n : t[i] # Done
      /\ n < Len(t) => t[n + 1] = Done
  <2>1. CASE ends = {}
    BY <1>1, <1>3, <2>1
  <2>2. CASE ends # {}
    <3>1. ends \in SUBSET Nat /\ ends \in SUBSET (1 .. Len(t))
      BY <1>3
    <3>2. Min(ends) \in ends /\ \A x \in ends : Min(ends) <= x
      BY <2>2, <3>1, MinOfNaturals
    <3>3. Min(ends) \in 1 .. Len(t) /\ t[Min(ends)] = Done
      BY <1>3, <3>2
    <3>4. n = Min(ends) - 1
      BY <2>2
    <3>5. \A i \in 1 .. n : i \in 1 .. Len(t) /\ i \notin ends
      <4> HIDE DEF n, ends
      <4> QED BY <1>1, <3>2, <3>3, <3>4
    <3>6. n + 1 = Min(ends) /\ n \in 0 .. Len(t)
      BY <1>1, <3>3, <3>4
    <3> HIDE DEF n
    <3> QED BY <1>3, <3>3, <3>4, <3>5, <3>6
  <2> QED BY <2>1, <2>2
<1> HIDE DEF n
<1>5. /\ SubSeq(t, 1, n) \in Seq(Token \cup {Done})
      /\ Len(SubSeq(t, 1, n)) = n
      /\ \A i \in 1 .. n : SubSeq(t, 1, n)[i] = t[i]
  <2>1. \A i \in 1 .. n : t[i] \in Token \cup {Done}
    BY <1>1, <1>4, ElementOfSeq
  <2> QED BY <1>1, <1>4, <2>1, SubSeqProperties
<1> QED BY <1>2, <1>4, <1>5 DEF t

\* What a message shows is listened to, and holds no [DONE].
LEMMA ShownIsListened ==
  ASSUME StreamInv, NEW q \in Question, messages[q] # <<Apology>>
  PROVE  /\ missed[q] <= Len(published[q])
         /\ Len(messages[q]) <= Len(Listened(q))
         /\ \A i \in 1 .. Len(messages[q]) :
              messages[q][i] = Listened(q)[i] /\ messages[q][i] # Done
<1> DEFINE m == messages[q]
           t == Listened(q)
           a == missed[q]
           l == Len(published[q])
<1>1. Typed /\ History(q) /\ Shown(q)
  BY DEF StreamInv, Stream
<1>2. a <= l
  BY <1>1 DEF History
<1>3. m \in Seq(Token \cup {Apology}) /\ Len(m) \in Nat /\ a \in Nat /\ l \in Nat
  BY <1>1, Sequences4
<1>4. /\ Len(t) = l - a
      /\ \A i \in 1 .. Len(t) : t[i] = published[q][a + i]
  BY <1>1, <1>2, ListenedByElement
<1>5. \A i \in 1 .. Len(m) : a + i <= l /\ m[i] = published[q][a + i]
  <2>1. CASE q \in listed
    BY <1>1, <2>1 DEF Shown, Matches
  <2>2. CASE q \notin listed
    <3>1. Len(m) = 0
      BY <1>1, <2>2, Empty DEF History
    <3> HIDE DEF m
    <3> QED BY <3>1
  <2> QED BY <2>1, <2>2
<1>6. \A i \in 1 .. Len(m) : m[i] # Done
  <2>1. \A i \in 1 .. Len(m) : m[i] \in Token \cup {Apology}
    BY <1>3, ElementOfSeq
  <2> QED BY <2>1, Marks
<1> HIDE DEF m, t, a, l
<1>7. \A i \in 1 .. Len(m) : i \in 1 .. l - a
  BY <1>3, <1>5
<1>8. Len(m) <= Len(t)
  <2>1. CASE Len(m) = 0
    BY <1>2, <1>3, <1>4, <2>1
  <2>2. CASE Len(m) # 0
    BY <1>3, <1>4, <1>7, <2>2
  <2> QED BY <2>1, <2>2
<1> QED BY <1>2, <1>4, <1>5, <1>6, <1>7, <1>8 DEF m, t, a, l

LEMMA ShownIsHeard ==
  ASSUME StreamInv, NEW q \in Question, messages[q] # <<Apology>>
  PROVE  /\ Len(messages[q]) <= Len(Heard(q))
         /\ \A i \in 1 .. Len(messages[q]) : messages[q][i] = Heard(q)[i]
<1> DEFINE m == messages[q]
           t == Listened(q)
           h == Heard(q)
<1>1. Typed
  BY DEF StreamInv
<1>2. /\ missed[q] <= Len(published[q])
      /\ Len(m) <= Len(t)
      /\ \A i \in 1 .. Len(m) : m[i] = t[i] /\ m[i] # Done
  BY ShownIsListened
<1>3. /\ Len(t) \in Nat /\ Len(h) \in 0 .. Len(t)
      /\ \A i \in 1 .. Len(h) : h[i] = t[i]
      /\ Len(h) < Len(t) => t[Len(h) + 1] = Done
  BY <1>1, <1>2, ListenedByElement, HeardByElement
<1>4. Len(m) \in Nat
  BY <1>1, Sequences4
<1> HIDE DEF m, t, h
<1>5. Len(m) <= Len(h)
  <2> SUFFICES ASSUME Len(h) < Len(m) PROVE FALSE
    BY <1>3, <1>4
  <2>1. Len(h) + 1 \in 1 .. Len(m) /\ Len(h) < Len(t)
    BY <1>2, <1>3, <1>4
  <2> QED BY <1>2, <1>3, <2>1
<1> QED BY <1>2, <1>3, <1>4, <1>5 DEF m, h

\* The [DONE] that ended an answered call is the first one after the subscription.
LEMMA AnsweredIsHeard ==
  ASSUME StreamInv, NEW q \in listed, call[q] = "answered"
  PROVE  Contains(Listened(q), Done) /\ messages[q] = Heard(q)
<1>0. q \in Question
  BY DEF StreamInv, Typed, PageTyped
<1> DEFINE m == messages[q]
           t == Listened(q)
           h == Heard(q)
           a == missed[q]
           l == Len(published[q])
<1>1. Typed /\ Shown(q) /\ Whole(q)
  BY <1>0 DEF StreamInv, Stream
<1>2. m # <<Apology>>
  BY <1>1 DEF Shown
<1>3. /\ a <= l /\ Len(m) <= Len(h)
      /\ \A i \in 1 .. Len(m) : m[i] = h[i]
  BY <1>0, <1>2, ShownIsListened, ShownIsHeard
<1>4. /\ t \in Seq(Token \cup {Done}) /\ Len(t) \in Nat /\ Len(t) = l - a
      /\ \A i \in 1 .. Len(t) : t[i] = published[q][a + i]
  BY <1>0, <1>1, <1>3, ListenedByElement
<1>5. /\ h \in Seq(Token \cup {Done})
      /\ Len(h) \in 0 .. Len(t)
      /\ \A i \in 1 .. Len(h) : t[i] # Done
  BY <1>0, <1>1, <1>3, HeardByElement
<1>6. m \in Seq(Token \cup {Apology}) /\ Len(m) \in Nat /\ a \in Nat /\ l \in Nat
  BY <1>0, <1>1, Sequences4
<1>7. a + Len(m) + 1 <= l /\ published[q][a + Len(m) + 1] = Done
  BY <1>1 DEF Whole
<1>8. Len(m) + 1 \in 1 .. Len(t) /\ t[Len(m) + 1] = Done
  <2> DEFINE b == Len(m)
  <2>1. b \in Nat /\ a + b + 1 <= l /\ published[q][a + b + 1] = Done
    BY <1>6, <1>7
  <2> HIDE DEF b, a, l, t
  <2>2. a + b + 1 = a + (b + 1)
    BY <1>6, <2>1
  <2>3. b + 1 \in 1 .. Len(t)
    BY <1>4, <1>6, <2>1
  <2> QED BY <1>4, <2>1, <2>2, <2>3 DEF b
<1> HIDE DEF m, t, h, a, l
<1>9. Contains(t, Done)
  BY <1>8 DEF Contains
<1>10. Len(m) = Len(h)
  BY <1>3, <1>4, <1>5, <1>6, <1>8
<1>11. m = h
  <2>1. \A i \in 1 .. Len(m) : m[i] \in Token \cup {Done, Apology}
    BY <1>6, ElementOfSeq
  <2>2. m \in Seq(Token \cup {Done, Apology}) /\ h \in Seq(Token \cup {Done, Apology})
    BY <1>5, <1>6
  <2> QED BY <1>3, <1>10, <2>2, SeqEqual
<1> QED BY <1>9, <1>11 DEF m, t, h

\* Whatever faults occur, questions are stopped, or the document is changed: a message
\* is a beginning of what was published for its own question while the relay listened.
THEOREM OwnAnswerShown == Spec => []ShowsOwnAnswer
<1>1. ASSUME StreamInv PROVE ShowsOwnAnswer
  <2> SUFFICES ASSUME NEW q \in Question, messages[q] # <<Apology>>
               PROVE  IsPrefix(messages[q], Heard(q))
    BY DEF ShowsOwnAnswer
  <2>1. Typed /\ missed[q] <= Len(published[q])
    BY <1>1, ShownIsListened DEF StreamInv
  <2>2. messages[q] \in Seq(Token \cup {Apology}) /\ Heard(q) \in Seq(Token \cup {Done})
    BY <2>1, Sequences4, HeardByElement
  <2> QED BY <1>1, <2>2, ShownIsHeard, PrefixByElement
<1> QED BY <1>1, StreamAlways, PTL

\* An answer that ended with [DONE] shows all that was published before it since the
\* relay's subscription took effect.
THEOREM AnswersAsHeard == Spec => []AnsweredAsHeard
<1>1. ASSUME StreamInv PROVE AnsweredAsHeard
  BY <1>1, AnsweredIsHeard DEF AnsweredAsHeard
<1> QED BY <1>1, StreamAlways, PTL

-----------------------------------------------------------------------------
\* A subscription that Redis handles before the commands sent after it misses nothing.
Prompt == \A q \in Question : subscribed[q] # "sent" /\ missed[q] = 0

LEMMA PromptKept ==
  ASSUME Prompt, UNCHANGED <<subscribed, missed>>
  PROVE  Prompt'
BY DEF Prompt

LEMMA PromptOnceClosed ==
  ASSUME Typed, Prompt, NEW q \in Question, Close(q), UNCHANGED missed
  PROVE  Prompt'
BY DEF Prompt, Close, Typed, RelayTyped

LEMMA PromptOncePublished ==
  ASSUME Prompt, NEW q \in Question, NEW m, Publish(q, m)
  PROVE  Prompt'
BY DEF Prompt, Publish

LEMMA PromptStep ==
  ASSUME "lateSubscription" \notin Faults, Typed, Prompt, [Next]_vars
  PROVE  Prompt'
<1>1. CASE UserNext
  <2>1. ASSUME Forget, UNCHANGED subscribed PROVE Prompt'
    BY <2>1 DEF Forget, Prompt
  <2> QED BY <1>1, <2>1, PromptKept DEF UserNext, Ask, StopStreaming, Reset, DocumentReady,
             Remount, gatewayVars, ghosts
<1>2. CASE TabNext
  BY <1>2, PromptKept DEF TabNext, CallNext, ShowToken, Finish, ShowError, ShowStopped, Ends,
     gatewayVars, ghosts
<1>3. CASE GatewayNext
  <2>1. PICK q \in Question : HandlerNext(q) \/ ClientDone(q)
    BY <1>3 DEF GatewayNext
  <2>2. CASE RegisterQuestion(q)
    BY <2>2, PromptKept, PromptOnceClosed DEF RegisterQuestion, ghosts
  <2>3. CASE Subscribe(q)
    <3>1. subscribed' = [subscribed EXCEPT ![q] = "active"] /\ missed' = missed
      BY <2>3 DEF Subscribe, Occurs, ghosts
    <3> QED BY <3>1 DEF Prompt, Typed, RelayTyped
  <2>4. CASE PushQuestion(q)
    BY <2>4, PromptKept DEF PushQuestion, ghosts
  <2>5. CASE RelayMessage(q)
    BY <2>5, PromptKept, PromptOnceClosed DEF RelayMessage, ghosts
  <2>6. CASE ClientDone(q)
    BY <2>6, PromptOnceClosed DEF ClientDone, ghosts
  <2> QED BY <2>1, <2>2, <2>3, <2>4, <2>5, <2>6 DEF HandlerNext
<1>4. CASE \E q \in Question : SubscriptionTakesEffect(q)
  BY <1>4 DEF SubscriptionTakesEffect, Prompt
<1>5. CASE IngestionArrives
  BY <1>5, PromptKept DEF IngestionArrives, gatewayVars, ghosts
<1>6. CASE WorkerNext
  <2>1. CASE ServeIngestion \/ PopQuestion \/ MarkAnswered \/ MarkFailed
    BY <2>1, PromptKept DEF ServeIngestion, PopQuestion, MarkAnswered, MarkFailed, gatewayVars,
       ghosts
  <2>2. CASE PublishToken \/ PublishDone \/ PublishFailure \/ PublishFailureDone
    <3>1. job \in Question
      BY <2>2 DEF PublishToken, PublishDone, PublishFailure, PublishFailureDone, Working,
         Typed, WorkerTyped
    <3> QED BY <2>2, <3>1, PromptOncePublished DEF PublishToken, PublishDone, PublishFailure,
               PublishFailureDone
  <2> QED BY <1>6, <2>1, <2>2 DEF WorkerNext
<1>7. CASE FaultNext
  <2>1. CASE \E q \in Question : CommandFails(q)
    BY <2>1, PromptOnceClosed DEF CommandFails, ghosts
  <2>2. CASE (\E q \in Question : Cut(q)) \/ DocumentExpires \/ TaskRaises
    BY <2>2, PromptKept DEF Cut, DocumentExpires, TaskRaises, gatewayVars, ghosts
  <2>3. CASE FailureHandlingRaises \/ WorkerCrashes
    BY <2>3, PromptKept DEF FailureHandlingRaises, WorkerCrashes, JobLost, gatewayVars
  <2> QED BY <1>7, <2>1, <2>2, <2>3 DEF FaultNext
<1>8. CASE UNCHANGED vars
  BY <1>8, PromptKept DEF vars, gatewayVars, ghosts
<1> QED BY <1>1, <1>2, <1>3, <1>4, <1>5, <1>6, <1>7, <1>8 DEF Next

\* Nothing but a late subscription makes an answer that ended with [DONE] incomplete: not
\* Stop, Reset or a departure, no failure, no broken connection, however many tokens.
THEOREM AnswersWhole ==
  ASSUME "lateSubscription" \notin Faults
  PROVE  Spec => []AnsweredIsWhole
<1>1. Init => Prompt
  BY DEF Init, Prompt
<1>2. ASSUME StreamInv, Prompt, [Next]_vars PROVE Prompt'
  BY <1>2, PromptStep DEF StreamInv
<1>3. ASSUME StreamInv, Prompt PROVE AnsweredIsWhole
  <2> SUFFICES ASSUME NEW q \in listed, call[q] = "answered"
               PROVE  messages[q] = UpToDone(published[q])
    BY DEF AnsweredIsWhole
  <2>1. q \in Question /\ Typed
    BY <1>3 DEF StreamInv, Typed, PageTyped
  <2>2. missed[q] = 0
    BY <1>3, <2>1 DEF Prompt
  <2>3. published[q] \in Seq(Token \cup {Done}) /\ Len(published[q]) \in Nat
    BY <2>1, Sequences4
  <2>4. /\ Listened(q) \in Seq(Token \cup {Done}) /\ Len(Listened(q)) = Len(published[q])
        /\ \A i \in 1 .. Len(Listened(q)) : Listened(q)[i] = published[q][i]
    BY <2>1, <2>2, <2>3, ListenedByElement
  <2>5. Listened(q) = published[q]
    BY <2>3, <2>4, SeqEqual
  <2> QED BY <1>3, <2>5, AnsweredIsHeard DEF Heard
<1> QED BY <1>1, <1>2, <1>3, StreamAlways, PTL DEF Spec
=============================================================================
