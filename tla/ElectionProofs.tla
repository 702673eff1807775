--------------------------- MODULE ElectionProofs ---------------------------
(***************************************************************************)
(* The election of one owner by the processing lock, between two requests  *)
(* of one fingerprint, for any number of fingerprints and workers: they    *)
(* are never both to be computed, and neither is answered with an error    *)
(* because of the other.  With three requests of one fingerprint neither   *)
(* holds: a handler deletes a lock by its key, and the third may own it.   *)
(***************************************************************************)
EXTENDS DedupProofs

\* No three requests have the same fingerprint.
AtMostTwo ==
  \A t, u, v \in Task : FpOf[t] = FpOf[u] /\ FpOf[u] = FpOf[v] => t = u \/ u = v \/ t = v

Rivals(t, u) == t # u /\ FpOf[t] = FpOf[u]

\* The steps a handler takes while its request is not elected.
Unelected ==
  {"upload", "lookup", "stat", "reuse", "alias", "purge", "getLock", "ownerState", "attach",
   "dropStale", "setnx", "getOwner", "ownerStateAgain", "delLock", "setnxAgain"}

\* The request will not be computed, or not any more.
Over(t) == pc[t] \notin Unelected /\ ~Pending(t)

-----------------------------------------------------------------------------
(* The invariant.                                                          *)
(*                                                                         *)
(* OneOwner says nothing of the lock, nor of what a handler read before it *)
(* deletes one: purge and delLock delete by key whatever the lock holds by *)
(* then.  The invariant says that whoever gets there knows its rival to be *)
(* over, and that a request is pending only with the lock or without a     *)
(* rival.  (It may lose the lock to the last cleanup of a failed rival.)   *)

\* A lock names a request of its fingerprint that has been elected.
LockElected ==
  \A f \in Fingerprint :
    lock[f] # NoTask => lock[f] \in Task /\ FpOf[lock[f]] = f /\ pc[lock[f]] \notin Unelected

\* A handler that lost an election knows that its rival has had its own.
RivalElected ==
  \A t, u \in Task :
    Rivals(t, u) /\ pc[u] \in {"getOwner", "ownerStateAgain", "delLock", "setnxAgain"}
      => pc[t] \notin Unelected

\* Until it is computed or given up, a request has no terminal status.
Unsettled ==
  /\ \A t \in Task :
       /\ pc[t] \in Unelected \cup {"putTask"} => task[t] = "absent"
       /\ pc[t] \in {"putCache", "push", "undo", "regFail"} => ~Terminal(t)
       /\ InQueue(t) => ~Terminal(t)
  /\ \A w \in Worker :
       /\ wpc[w] \in {"check", "stat", "apply", "dropCache", "markTask"} => ~Terminal(job[w])
       /\ wpc[w] = "complCache" => Terminal(job[w])

\* A completed entry names a task of its fingerprint that has ended.
EntrySettled ==
  \A f \in Fingerprint :
    cache[f].status = "completed" =>
      LET t == cache[f].owner IN t \in Task /\ FpOf[t] = f /\ Terminal(t)

\* The lock owner whose state a handler reads is its rival.
OwnerIsRival ==
  \A u \in Task :
    pc[u] \in {"ownerState", "ownerStateAgain"} => owner[u] \in Task /\ Rivals(owner[u], u)

\* A handler deletes a lock it does not own only once its rival is over.
RivalOver ==
  \A t, u \in Task : Rivals(t, u) /\ pc[u] \in {"stat", "purge", "delLock"} => Over(t)

\* A pending request holds the lock, unless its rival is over.
PendingHolds ==
  \A t, u \in Task : Rivals(t, u) /\ Pending(t) => lock[FpOf[t]] = t \/ Over(u)

ElectionInv ==
  /\ LockElected /\ RivalElected /\ Unsettled /\ EntrySettled /\ OwnerIsRival
  /\ RivalOver /\ PendingHolds

\* No handler has met an error, and the lock is free for one's second election.
NotRejected ==
  \A t \in Task :
    /\ pc[t] \notin {"reject", "rejected", "undo", "regFail", "regClear"}
    /\ pc[t] = "setnxAgain" => lock[FpOf[t]] = NoTask

RejectInv == LockElected /\ RivalElected /\ NotRejected

-----------------------------------------------------------------------------
(* What one step does to a record.                                         *)

Ended == {"completed", "failed"}

\* A step of t's handler, by where it starts and where it leads.
HandlerGoes(t) ==
  \E s \in (HandlerStep \cup Answer) : \E x \in Status :
    /\ pc' = [pc EXCEPT ![t] = s]
    /\ task' = [task EXCEPT ![t] = x]
    /\ UNCHANGED workerVars
    /\ pc[t] # "enqueued"
    /\ task[t] \in Ended => x \in Ended
    /\ s \in Unelected \cup {"putTask"} => x = "absent"
    /\ s \in {"putCache", "push", "undo", "regFail"} => x \notin Ended
    /\ s \in Unelected => pc[t] \in Unelected

\* A step of worker w on the job it has, by where it leads.
WorkerGoes(w) ==
  \E s \in WorkerStep : \E x \in Status :
    /\ wpc[w] # "idle"
    /\ wpc' = [wpc EXCEPT ![w] = s]
    /\ job' = [job EXCEPT ![w] = IF s = "idle" THEN NoTask ELSE job[w]]
    /\ task' = [task EXCEPT ![job[w]] = x]
    /\ UNCHANGED <<queue, pc>>
    /\ task[job[w]] \in Ended => x \in Ended
    /\ s \in {"check", "stat", "apply", "dropCache", "markTask"} => x \notin Ended
    /\ s = "complCache" => x \in Ended

\* Every step of a handler is one; the only one to touch a list is the push.
LEMMA HandlerGoesOn ==
  ASSUME TypeOK, Unsettled, "lostReply" \notin Faults, NEW t \in Task,
         HandlerProceeds(t) \/ HandlerSuffers(t)
  PROVE  HandlerGoes(t) /\ (UNCHANGED queue \/ PushJob(t))
<1> USE DEF HandlerGoes, At, Go, OnlyRedis, OnlyControl, redisVars, workerVars, HandlerStep,
            Answer, Status, Ended, Unelected, Unsettled, Terminal, TypeOK, SetStatus
<1>1. ASSUME NEW s \in (HandlerStep \cup Answer), pc' = [pc EXCEPT ![t] = s], UNCHANGED task,
             UNCHANGED workerVars, pc[t] # "enqueued",
             s \in Unelected => pc[t] \in Unelected,
             s = "putTask" => pc[t] \in Unelected,
             s \in {"putCache", "push", "undo", "regFail"}
               => pc[t] \in {"putTask", "putCache", "push"}
      PROVE  HandlerGoes(t)
  <2>1. task' = [task EXCEPT ![t] = task[t]] /\ task[t] \in Status
    BY <1>1
  <2> QED BY <1>1, <2>1
<1>2. ASSUME HandlerProceeds(t) PROVE HandlerGoes(t)
  <2>1. CASE AliasCompletedCache(t)
    BY <2>1 DEF AliasCompletedCache
  <2>2. CASE PutTask(t)
    BY <2>2 DEF PutTask
  <2>3. CASE FailRegistration(t)
    BY <2>3 DEF FailRegistration
  <2>4. CASE UNCHANGED task
    BY <1>1, <1>2, <2>4
    DEF HandlerProceeds, Upload, LookupCache, CheckArtifacts, ReuseArtifact,
        AliasCompletedCache, PurgeRegistration, GetLock, OwnerState, AttachToOwner,
        DropStaleEntry, AcquireLock, GetLockOwner, LockOwnerState, DeleteLock,
        AcquireLockAgain, PutTask, PutCache, PushJob, UndoLock, FailRegistration,
        ClearRegistration, Reject, Elect, RemoveRaw
  <2> QED BY <1>2, <2>1, <2>2, <2>3, <2>4
    DEF HandlerProceeds, Upload, LookupCache, CheckArtifacts, ReuseArtifact,
        PurgeRegistration, GetLock, OwnerState, AttachToOwner, DropStaleEntry, AcquireLock,
        GetLockOwner, LockOwnerState, DeleteLock, AcquireLockAgain, PutCache, PushJob,
        UndoLock, ClearRegistration, Reject, Elect, RemoveRaw
<1>3. ASSUME HandlerSuffers(t) PROVE HandlerGoes(t)
  <2>1. CASE ExpireFails(t)
    <3>1. CASE At(t, "putCache")
      BY <1>1, <2>1, <3>1 DEF ExpireFails, AfterRedisError
    <3>2. CASE At(t, "putTask")
      BY <2>1, <3>2 DEF ExpireFails, AfterRedisError
    <3>3. CASE At(t, "alias")
      BY <2>1, <3>3 DEF ExpireFails, AfterRedisError
    <3> QED BY <2>1, <3>1, <3>2, <3>3 DEF ExpireFails
  <2>2. CASE RedisCommandFails(t)
    <3>1. /\ pc' = [pc EXCEPT ![t] = AfterRedisError(pc[t])]
          /\ pc[t] \in HandlerStep \ StorageStep
          /\ UNCHANGED <<task, workerVars>>
      BY <2>2 DEF RedisCommandFails
    <3>2. /\ AfterRedisError(pc[t]) \in {"reject", "attach", "undo", "regFail", "regClear"}
          /\ AfterRedisError(pc[t]) = "attach" => pc[t] \in {"ownerState", "ownerStateAgain"}
          /\ AfterRedisError(pc[t]) = "regFail" => pc[t] = "push"
          /\ AfterRedisError(pc[t]) = "undo" => pc[t] \in {"putTask", "putCache"}
      BY <3>1 DEF AfterRedisError, StorageStep
    <3> QED BY <1>1, <3>1, <3>2
  <2>3. CASE StorageCallFails(t)
    BY <1>1, <2>3 DEF StorageCallFails, AfterStorageError, StorageStep
  <2>4. CASE Abort(t)
    BY <1>1, <2>4 DEF Abort
  <2> QED BY <1>3, <2>1, <2>2, <2>3, <2>4
    DEF HandlerSuffers, AcquireLockRetried, PushRetried, PushUnacknowledged
<1>4. UNCHANGED queue \/ PushJob(t)
  BY HandlerSteps DEF QuietHandler
<1> QED BY <1>2, <1>3, <1>4

\* Only its election brings a handler to register.
LEMMA RegistersOnceElected ==
  ASSUME TypeOK, NEW t \in Task, HandlerProceeds(t) \/ HandlerSuffers(t)
  PROVE  \A u \in Task :
           Registering(u)' => Registering(u) \/ (pc[u] \in Unelected /\ pc'[u] = "putTask")
<1> USE DEF At, Go, TypeOK, Registering, Unelected
<1>1. CASE HandlerProceeds(t)
  BY <1>1
  DEF HandlerProceeds, Upload, LookupCache, CheckArtifacts, ReuseArtifact, AliasCompletedCache,
      PurgeRegistration, GetLock, OwnerState, AttachToOwner, DropStaleEntry, AcquireLock,
      GetLockOwner, LockOwnerState, DeleteLock, AcquireLockAgain, PutTask, PutCache, PushJob,
      UndoLock, FailRegistration, ClearRegistration, Reject, Elect
<1>2. CASE HandlerSuffers(t)
  BY <1>2
  DEF HandlerSuffers, RedisCommandFails, StorageCallFails, ExpireFails, AcquireLockRetried,
      PushRetried, PushUnacknowledged, Abort, AfterRedisError, AfterStorageError, StorageStep,
      HandlerStep
<1> QED BY <1>1, <1>2

\* Every step of a worker but the pop is one.
LEMMA WorkerGoesOn ==
  ASSUME TypeOK, WorkerHasJob, Unsettled, NEW w \in Worker,
         WorkerProceeds(w) \/ WorkerSuffers(w), ~Pop(w)
  PROVE  WorkerGoes(w)
<1> USE DEF WorkerGoes, Doing, Then, OnlyRedisOf, OnlyWorker, redisVars, storageVars,
            handlerVars, WorkerStep, TryStep, ExceptStep, Status, Ended, Unsettled, Terminal,
            TypeOK, SetStatus, WorkerHasJob, NextIteration
<1>1. ASSUME NEW s \in WorkerStep \ {"idle"}, wpc[w] # "idle", wpc' = [wpc EXCEPT ![w] = s],
             UNCHANGED <<task, queue, pc, job>>, s # "complCache",
             s \in {"check", "stat", "apply", "dropCache", "markTask"}
               => wpc[w] \in {"check", "stat", "dropCache"}
      PROVE  WorkerGoes(w)
  <2>1. /\ task' = [task EXCEPT ![job[w]] = task[job[w]]] /\ task[job[w]] \in Status
        /\ job' = [job EXCEPT ![w] = job[w]]
    BY <1>1
  <2> QED BY <1>1, <2>1
<1>2. ASSUME wpc[w] # "idle", NextIteration(w), UNCHANGED <<task, queue, pc>>
      PROVE  WorkerGoes(w)
  <2>1. task' = [task EXCEPT ![job[w]] = task[job[w]]] /\ task[job[w]] \in Status
    BY <1>2
  <2> QED BY <1>2, <2>1
<1>3. CASE WorkerProceeds(w)
  <2>1. CASE ApplyCachedCompletion(w)
    BY <2>1 DEF ApplyCachedCompletion
  <2>2. CASE MarkProcessingTask(w)
    BY <2>2 DEF MarkProcessingTask
  <2>3. CASE CompleteTask(w)
    BY <2>3 DEF CompleteTask
  <2>4. CASE FailTask(w)
    BY <2>4 DEF FailTask
  <2>5. CASE ReleaseOwnedLock(w)
    BY <1>2, <2>5 DEF ReleaseOwnedLock
  <2> QED BY <1>1, <1>3, <2>1, <2>2, <2>3, <2>4, <2>5
    DEF WorkerProceeds, CheckCache, CheckObjects, RejectBoolFields, RemoveRedundantRaw,
        DropUnusableEntry, MarkProcessingCache, DownloadRaw, RunService, UploadIndex,
        UploadMeta, UploadResult, CompleteCache, ClearOwnedCache, Store
<1>4. CASE WorkerSuffers(w)
  <2>1. CASE WorkerCrashes(w) \/ HandlerRaises(w)
    BY <1>2, <2>1 DEF WorkerCrashes, HandlerRaises
  <2>2. CASE ServiceRaises(w) \/ CallRaises(w)
    BY <1>1, <2>2 DEF ServiceRaises, CallRaises
  <2>3. CASE ExpireRaises(w)
    <3>1. CASE UNCHANGED task
      BY <1>1, <2>3, <3>1 DEF ExpireRaises
    <3>2. CASE task' # task
      <4>1. PICK x \in Status :
              /\ task' = [task EXCEPT ![job[w]] = x]
              /\ wpc[w] \in {"markTask", "complTask", "apply"}
              /\ x = IF wpc[w] = "markTask" THEN "processing" ELSE "completed"
              /\ wpc' = [wpc EXCEPT ![w] = "failTask"]
              /\ UNCHANGED <<queue, pc, job>>
        BY <2>3, <3>2 DEF ExpireRaises
      <4>2. job' = [job EXCEPT ![w] = job[w]]
        BY <4>1
      <4> QED BY <4>1, <4>2
    <3> QED BY <3>1, <3>2
  <2> QED BY <1>4, <2>1, <2>2, <2>3 DEF WorkerSuffers
<1> QED BY <1>3, <1>4

\* Where a task goes in one step: an ended one stays ended, a request does not stand for
\* election again, and only its election puts it to work.
Onward(t) ==
  /\ Terminal(t) => Terminal(t)'
  /\ pc[t] \notin Unelected => pc'[t] \notin Unelected
  /\ InFlight(t)' => InFlight(t) \/ (pc[t] \in Unelected /\ pc'[t] = "putTask")

\* What is over stays over.
LEMMA OverStays ==
  ASSUME NEW t \in Task, Onward(t), Over(t)
  PROVE  Over(t)'
  BY DEF Onward, Over, Pending

\* A handler's step moves its own request onward, and no other.
LEMMA HandlerOnward ==
  ASSUME OnceInv, WorkerHasJob, Unsettled, NEW t \in Task,
         HandlerGoes(t), UNCHANGED queue \/ PushJob(t),
         \A u \in Task :
           Registering(u)' => Registering(u) \/ (pc[u] \in Unelected /\ pc'[u] = "putTask")
  PROVE  Unsettled' /\ \A u \in Task : Onward(u)
<1> USE DEF OnceInv, TypeOK
<1>1. PICK s \in (HandlerStep \cup Answer), x \in Status :
        /\ pc' = [pc EXCEPT ![t] = s]
        /\ task' = [task EXCEPT ![t] = x]
        /\ UNCHANGED workerVars
        /\ pc[t] # "enqueued"
        /\ task[t] \in Ended => x \in Ended
        /\ s \in Unelected \cup {"putTask"} => x = "absent"
        /\ s \in {"putCache", "push", "undo", "regFail"} => x \notin Ended
        /\ s \in Unelected => pc[t] \in Unelected
  BY DEF HandlerGoes
<1>2. ~InQueue(t) /\ ~OnWorker(t)
  BY <1>1 DEF PushedByEnqueued
<1>3. \A u \in Task : InQueue(u)' => InQueue(u) \/ (u = t /\ PushJob(t))
  <2>1. CASE UNCHANGED queue
    BY <2>1 DEF InQueue, QueueOf
  <2>2. CASE PushJob(t)
    <3>1. \A u \in Task : InQueue(u)' <=> InQueue(u) \/ u = t
      BY <2>2, EnqueueOne DEF PushJob
    <3> QED BY <2>2, <3>1
  <2> QED BY <2>1, <2>2
<1>4. PushJob(t) => task' = task /\ pc[t] = "push" /\ task[t] \notin Ended
  BY DEF PushJob, At, Unsettled, Ended, Terminal
<1>5. \A u \in Task : Terminal(u)' <=> IF u = t THEN x \in Ended ELSE Terminal(u)
  BY <1>1 DEF Terminal, Ended
<1>6. \A w \in Worker : wpc[w] # "idle" =>
        job'[w] = job[w] /\ wpc'[w] = wpc[w] /\ job[w] \in Task \ {t}
  BY <1>1, <1>2 DEF OnWorker, WorkerHasJob, workerVars
<1>7. Unsettled'
  <2>1. \A u \in Task :
          /\ pc'[u] \in Unelected \cup {"putTask"} => task'[u] = "absent"
          /\ pc'[u] \in {"putCache", "push", "undo", "regFail"} => ~Terminal(u)'
    BY <1>1, <1>5 DEF Unsettled
  <2>2. \A u \in Task : InQueue(u)' => ~Terminal(u)'
    <3> TAKE u \in Task
    <3>1. CASE u = t
      BY <1>2, <1>3, <1>4, <3>1 DEF Terminal, Ended
    <3>2. CASE u # t
      BY <1>3, <1>5, <3>2 DEF Unsettled
    <3> QED BY <3>1, <3>2
  <2>3. \A w \in Worker :
          /\ wpc'[w] \in {"check", "stat", "apply", "dropCache", "markTask"}
               => task'[job'[w]] \notin Ended
          /\ wpc'[w] = "complCache" => task'[job'[w]] \in Ended
    <3> TAKE w \in Worker
    <3>1. CASE wpc[w] = "idle"
      BY <1>1, <3>1 DEF workerVars
    <3>2. CASE wpc[w] # "idle"
      <4>1. task'[job'[w]] = task[job[w]] /\ wpc'[w] = wpc[w]
        BY <1>1, <1>6, <3>2
      <4> QED BY <4>1 DEF Unsettled, Terminal, Ended
    <3> QED BY <3>1, <3>2
  <2> QED BY <2>1, <2>2, <2>3 DEF Unsettled, Terminal, Ended
<1>8. ASSUME NEW u \in Task PROVE Onward(u)
  <2>1. Terminal(u) => Terminal(u)'
    BY <1>1, <1>5 DEF Terminal, Ended
  <2>2. pc[u] \notin Unelected => pc'[u] \notin Unelected
    BY <1>1
  <2>3. InFlight(u)' => InFlight(u) \/ (pc[u] \in Unelected /\ pc'[u] = "putTask")
    <3>1. OnWorker(u)' => OnWorker(u)
      BY <1>1 DEF OnWorker, workerVars
    <3>2. InQueue(u)' => InFlight(u)
      BY <1>3, <1>4 DEF InFlight, Registering
    <3>3. Registering(u)' => Registering(u) \/ (pc[u] \in Unelected /\ pc'[u] = "putTask")
      OBVIOUS
    <3> QED BY <3>1, <3>2, <3>3 DEF InFlight
  <2> QED BY <2>1, <2>2, <2>3 DEF Onward
<1> QED BY <1>7, <1>8

\* A worker's step moves its own job onward, and no other's.
LEMMA WorkerOnward ==
  ASSUME OnceInv, WorkerHasJob, Unsettled, NEW w \in Worker, WorkerGoes(w)
  PROVE  Unsettled' /\ \A u \in Task : Onward(u)
<1> USE DEF OnceInv, TypeOK
<1>1. PICK s \in WorkerStep, x \in Status :
        /\ wpc[w] # "idle"
        /\ wpc' = [wpc EXCEPT ![w] = s]
        /\ job' = [job EXCEPT ![w] = IF s = "idle" THEN NoTask ELSE job[w]]
        /\ task' = [task EXCEPT ![job[w]] = x]
        /\ UNCHANGED <<queue, pc>>
        /\ task[job[w]] \in Ended => x \in Ended
        /\ s \in {"check", "stat", "apply", "dropCache", "markTask"} => x \notin Ended
        /\ s = "complCache" => x \in Ended
  BY DEF WorkerGoes
<1>2. /\ job[w] \in Task /\ pc[job[w]] = "enqueued" /\ ~InQueue(job[w])
      /\ \A v \in Worker \ {w} : wpc[v] # "idle" => job[v] \in Task \ {job[w]}
  <2>1. job[w] \in Task
    BY <1>1 DEF WorkerHasJob
  <2>2. OnWorker(job[w])
    BY DEF OnWorker
  <2>3. pc[job[w]] = "enqueued" /\ ~InQueue(job[w])
    BY <2>1, <2>2 DEF PushedByEnqueued, DeliveredOnce, NoCopyOnWorker
  <2>4. \A v \in Worker \ {w} : wpc[v] # "idle" => job[v] \in Task \ {job[w]}
    BY <2>1, ConstantsAssumption DEF DeliveredOnce, NoSharedJob, WorkerHasJob
  <2> QED BY <2>1, <2>3, <2>4
<1>3. \A u \in Task : Terminal(u)' <=> IF u = job[w] THEN x \in Ended ELSE Terminal(u)
  BY <1>1, <1>2 DEF Terminal, Ended
<1>4. \A u \in Task : InQueue(u)' <=> InQueue(u)
  BY <1>1 DEF InQueue, QueueOf
<1>5. Unsettled'
  <2>1. \A u \in Task :
          /\ pc'[u] \in Unelected \cup {"putTask"} => task'[u] = "absent"
          /\ pc'[u] \in {"putCache", "push", "undo", "regFail"} => ~Terminal(u)'
          /\ InQueue(u)' => ~Terminal(u)'
    BY <1>1, <1>2, <1>3, <1>4 DEF Unsettled, Unelected
  <2>2. \A v \in Worker :
          /\ wpc'[v] \in {"check", "stat", "apply", "dropCache", "markTask"}
               => task'[job'[v]] \notin Ended
          /\ wpc'[v] = "complCache" => task'[job'[v]] \in Ended
    <3> TAKE v \in Worker
    <3>1. CASE v = w
      BY <1>1, <1>2, <3>1
    <3>2. CASE v # w
      <4>1. wpc'[v] = wpc[v] /\ job'[v] = job[v]
        BY <1>1, <3>2
      <4>2. wpc[v] # "idle" => task'[job[v]] = task[job[v]]
        BY <1>1, <1>2, <3>2
      <4> QED BY <4>1, <4>2 DEF Unsettled, Terminal, Ended
    <3> QED BY <3>1, <3>2
  <2> QED BY <2>1, <2>2 DEF Unsettled, Terminal, Ended
<1>6. ASSUME NEW u \in Task PROVE Onward(u)
  <2>1. OnWorker(u)' => OnWorker(u)
    BY <1>1, ConstantsAssumption DEF OnWorker
  <2>2. Terminal(u) => Terminal(u)'
    BY <1>1, <1>3 DEF Terminal, Ended
  <2>3. Registering(u)' <=> Registering(u)
    BY <1>1 DEF Registering
  <2>4. InFlight(u)' => InFlight(u)
    BY <1>4, <2>1, <2>3 DEF InFlight
  <2> QED BY <1>1, <2>2, <2>4 DEF Onward
<1> QED BY <1>5, <1>6

\* A pop starts a job that has not ended.
LEMMA PopOnward ==
  ASSUME OnceInv, Unsettled, NEW w \in Worker, Pop(w)
  PROVE  Unsettled' /\ \A u \in Task : Onward(u)
<1> USE DEF OnceInv, TypeOK
<1>1. PICK t \in Task :
        /\ InQueue(t) /\ job' = [job EXCEPT ![w] = t]
        /\ \A u \in Task : InQueue(u)' => InQueue(u)
  BY PopOne DEF DeliveredOnce
<1>2. wpc' = [wpc EXCEPT ![w] = "check"] /\ UNCHANGED <<task, pc>>
  BY DEF Pop, Then, handlerVars
<1>3. \A u \in Task : OnWorker(u)' => OnWorker(u) \/ InQueue(u)
  BY <1>1 DEF OnWorker
<1>4. Unsettled'
  BY <1>1, <1>2 DEF Unsettled, Terminal
<1>5. ASSUME NEW u \in Task PROVE Onward(u)
  <2>1. Registering(u)' <=> Registering(u)
    BY <1>2 DEF Registering
  <2>2. InFlight(u)' => InFlight(u)
    BY <1>1, <1>3, <2>1 DEF InFlight
  <2> QED BY <1>2, <2>2 DEF Onward, Terminal
<1> QED BY <1>4, <1>5

\* Every step moves every task onward.
LEMMA OnwardStep ==
  ASSUME OnceInv, WorkerHasJob, Unsettled, "lostReply" \notin Faults, [Next]_vars
  PROVE  Unsettled' /\ \A u \in Task : Onward(u)
<1> USE DEF OnceInv
<1>1. ASSUME NEW t \in Task, HandlerProceeds(t) \/ HandlerSuffers(t)
      PROVE  Unsettled' /\ \A u \in Task : Onward(u)
  BY <1>1, HandlerGoesOn, RegistersOnceElected, HandlerOnward
<1>2. ASSUME NEW w \in Worker, WorkerProceeds(w) \/ WorkerSuffers(w)
      PROVE  Unsettled' /\ \A u \in Task : Onward(u)
  BY <1>2, WorkerGoesOn, WorkerOnward, PopOnward
<1>3. ASSUME UNCHANGED <<task, queue, pc, wpc, job>>
      PROVE  Unsettled' /\ \A u \in Task : Onward(u)
  <2>1. Unsettled'
    BY <1>3 DEF Unsettled, InQueue, QueueOf, Terminal
  <2>2. ASSUME NEW u \in Task PROVE InFlight(u)' <=> InFlight(u)
    BY <1>3 DEF InFlight, Registering, InQueue, QueueOf, OnWorker
  <2> QED BY <1>3, <2>1, <2>2 DEF Onward, Terminal
<1> QED BY <1>1, <1>2, <1>3
  DEF Next, AllDone, LeaseExpires, ArtifactLost, vars, redisVars, handlerVars, workerVars

-----------------------------------------------------------------------------
(* What one step does to a lock, an entry, and what a handler has read.    *)

\* A lock stays, or is deleted on behalf of request x, or is acquired by it.
LockMoves(f) ==
  \/ lock'[f] = lock[f]
  \/ \E x \in Task :
       /\ FpOf[x] = f
       /\ \/ lock'[f] = NoTask /\ pc[x] \in {"purge", "delLock"}
          \/ lock'[f] = NoTask /\ pc[x] \in {"undo", "regClear"} /\ pc'[x] = "reject"
          \/ /\ lock[f] = NoTask /\ lock'[f] = x
             /\ pc[x] \in Unelected /\ pc'[x] = "putTask"
  \/ /\ lock[f] \in Task
     /\ OnWorker(lock[f])
     /\ lock'[f] = NoTask /\ UNCHANGED <<queue, pc>>
     /\ \E w \in Worker : job[w] = lock[f] /\ job' = [job EXCEPT ![w] = NoTask]

\* What the handler of u has just learned when it reaches a step.
Learns(u) ==
  /\ pc'[u] \in {"ownerState", "ownerStateAgain"} =>
       \/ pc'[u] = pc[u] /\ owner'[u] = owner[u]
       \/ /\ pc[u] \in {"getLock", "getOwner"} /\ lock[FpOf[u]] # NoTask
          /\ owner'[u] = lock[FpOf[u]]
  /\ pc'[u] \in {"getOwner", "ownerStateAgain", "delLock", "setnxAgain"} =>
       \/ pc[u] \in {"getOwner", "ownerStateAgain", "delLock", "setnxAgain"}
       \/ pc[u] = "setnx" /\ lock[FpOf[u]] # NoTask
  /\ pc'[u] \in {"stat", "purge", "delLock"} =>
       \/ pc[u] \in {"stat", "purge", "delLock"}
       \/ pc[u] = "lookup" /\ cache[FpOf[u]].status = "completed"
       \/ pc[u] \in {"ownerState", "ownerStateAgain"} /\ task[owner[u]] = "failed"
       \/ pc[u] = "getOwner" /\ lock[FpOf[u]] = NoTask
  /\ pc[u] \in Unelected /\ pc'[u] = "putTask" => lock'[FpOf[u]] = u
  /\ pc'[u] = "setnxAgain" =>
       \/ pc[u] = "setnxAgain"
       \/ pc[u] = "delLock" /\ lock'[FpOf[u]] = NoTask

\* An entry becomes "completed" only by a worker that has completed its task.
EntryMoves(f) ==
  \/ cache'[f] = cache[f]
  \/ cache'[f].status # "completed"
  \/ \E w \in Worker : wpc[w] = "complCache" /\ JobFp(w) = f /\ cache'[f] = CompletedBy(job[w])

\* So it is in the steps of a handler.
LEMMA HandlerLearns ==
  ASSUME TypeOK, "lostReply" \notin Faults, NEW t \in Task,
         HandlerProceeds(t) \/ HandlerSuffers(t)
  PROVE  /\ \A f \in Fingerprint : LockMoves(f) /\ EntryMoves(f)
         /\ \A u \in Task : Learns(u)
<1> USE ConstantsAssumption
    DEF At, Go, OnlyRedis, OnlyControl, redisVars, SetLock, SetCache, SetStatus,
        TypeOK, Unelected
<1>1. ASSUME HandlerProceeds(t)
      PROVE  \A f \in Fingerprint : LockMoves(f)
  BY <1>1
  DEF LockMoves, HandlerProceeds, Upload, LookupCache, CheckArtifacts, ReuseArtifact,
      AliasCompletedCache,
      PurgeRegistration, GetLock, OwnerState, AttachToOwner, DropStaleEntry, AcquireLock,
      GetLockOwner, LockOwnerState, DeleteLock, AcquireLockAgain, PutTask, PutCache, PushJob,
      UndoLock, FailRegistration, ClearRegistration, Reject, Elect, RemoveRaw
<1>2. ASSUME HandlerProceeds(t)
      PROVE  \A f \in Fingerprint : EntryMoves(f)
  BY <1>2
  DEF EntryMoves, NoEntry, ProcessingBy, HandlerProceeds, Upload, LookupCache, CheckArtifacts,
      ReuseArtifact, AliasCompletedCache,
      PurgeRegistration, GetLock, OwnerState, AttachToOwner, DropStaleEntry, AcquireLock,
      GetLockOwner, LockOwnerState, DeleteLock, AcquireLockAgain, PutTask, PutCache, PushJob,
      UndoLock, FailRegistration, ClearRegistration, Reject, Elect, RemoveRaw
<1>3. ASSUME HandlerProceeds(t)
      PROVE  \A u \in Task : Learns(u)
  BY <1>3
  DEF Learns, HandlerProceeds, Upload, LookupCache, CheckArtifacts, ReuseArtifact,
      AliasCompletedCache,
      PurgeRegistration, GetLock, OwnerState, AttachToOwner, DropStaleEntry, AcquireLock,
      GetLockOwner, LockOwnerState, DeleteLock, AcquireLockAgain, PutTask, PutCache, PushJob,
      UndoLock, FailRegistration, ClearRegistration, Reject, Elect, RemoveRaw
<1>4. ASSUME HandlerSuffers(t)
      PROVE  \A f \in Fingerprint : LockMoves(f) /\ EntryMoves(f)
  BY <1>4
  DEF LockMoves, EntryMoves, ProcessingBy, HandlerSuffers, RedisCommandFails,
      StorageCallFails, ExpireFails, AcquireLockRetried,
      PushRetried, PushUnacknowledged, Abort
<1>5. ASSUME HandlerSuffers(t)
      PROVE  \A u \in Task : Learns(u)
  <2>1. /\ owner' = owner
        /\ \E s \in (HandlerStep \cup Answer) \ {"ownerState", "ownerStateAgain", "getOwner",
                "delLock", "setnxAgain", "stat", "purge", "putTask"} :
              pc' = [pc EXCEPT ![t] = s]
    BY <1>5
    DEF HandlerSuffers, RedisCommandFails, StorageCallFails, ExpireFails, AcquireLockRetried,
        PushRetried, PushUnacknowledged, Abort, AfterRedisError, AfterStorageError,
        StorageStep, HandlerStep, Answer
  <2> QED BY <2>1 DEF Learns
<1> QED BY <1>1, <1>2, <1>3, <1>4, <1>5

\* And in those of a worker, which learns nothing for a handler.
LEMMA WorkerMovesLock ==
  ASSUME TypeOK, WorkerHasJob, NEW w \in Worker, WorkerProceeds(w) \/ WorkerSuffers(w)
  PROVE  /\ \A f \in Fingerprint : LockMoves(f) /\ EntryMoves(f)
         /\ UNCHANGED <<pc, owner>>
<1> USE ConstantsAssumption
    DEF Doing, Then, OnlyRedisOf, OnlyWorker, redisVars, handlerVars, SetLock, SetCache,
        SetStatus, NextIteration, TypeOK
<1>1. CASE ReleaseOwnedLock(w)
  BY <1>1 DEF ReleaseOwnedLock, LockMoves, EntryMoves, WorkerHasJob, OnWorker, JobFp
<1>2. CASE WorkerProceeds(w) /\ ~ReleaseOwnedLock(w)
  <2>1. lock' = lock /\ UNCHANGED <<pc, owner>>
    BY <1>2
    DEF WorkerProceeds, Pop, CheckCache, CheckObjects, ApplyCachedCompletion,
     RejectBoolFields, RemoveRedundantRaw, DropUnusableEntry, MarkProcessingTask,
     MarkProcessingCache, DownloadRaw, RunService, UploadIndex, UploadMeta, UploadResult,
     CompleteTask, CompleteCache, FailTask, ClearOwnedCache, Store
  <2>2. \A f \in Fingerprint : EntryMoves(f)
    BY <1>2
    DEF EntryMoves, NoEntry, ProcessingBy, CompletedBy, WorkerHasJob, JobFp, WorkerProceeds,
     Pop, CheckCache, CheckObjects, ApplyCachedCompletion,
     RejectBoolFields, RemoveRedundantRaw, DropUnusableEntry, MarkProcessingTask,
     MarkProcessingCache, DownloadRaw, RunService, UploadIndex, UploadMeta, UploadResult,
     CompleteTask, CompleteCache, FailTask, ClearOwnedCache, Store
  <2> QED BY <2>1, <2>2 DEF LockMoves
<1>3. CASE WorkerSuffers(w)
  BY <1>3
  DEF LockMoves, EntryMoves, ProcessingBy, CompletedBy, WorkerHasJob, JobFp, WorkerSuffers,
      ServiceRaises, CallRaises, ExpireRaises, HandlerRaises, WorkerCrashes
<1> QED BY <1>1, <1>2, <1>3

\* All that the invariants below need of a step.
LEMMA StepLearns ==
  ASSUME OnceInv, WorkerHasJob, "lostReply" \notin Faults, [Next]_vars
  PROVE  /\ \A f \in Fingerprint :
              \/ LockMoves(f)
              \/ /\ "leaseExpiry" \in Faults
                 /\ lock'[f] = NoTask /\ UNCHANGED <<pc, owner>>
         /\ \A f \in Fingerprint : EntryMoves(f)
         /\ \A u \in Task : Learns(u) \/ UNCHANGED <<pc, owner>>
<1> USE DEF OnceInv
<1>1. ASSUME NEW t \in Task, HandlerProceeds(t) \/ HandlerSuffers(t)
      PROVE  /\ \A f \in Fingerprint : LockMoves(f) /\ EntryMoves(f)
             /\ \A u \in Task : Learns(u)
  BY <1>1, HandlerLearns
<1>2. ASSUME NEW w \in Worker, WorkerProceeds(w) \/ WorkerSuffers(w)
      PROVE  /\ \A f \in Fingerprint : LockMoves(f) /\ EntryMoves(f)
             /\ UNCHANGED <<pc, owner>>
  BY <1>2, WorkerMovesLock
<1>3. ASSUME UNCHANGED <<lock, cache, pc, owner>>
      PROVE  /\ \A f \in Fingerprint : LockMoves(f) /\ EntryMoves(f)
             /\ UNCHANGED <<pc, owner>>
  BY <1>3 DEF LockMoves, EntryMoves
<1>4. ASSUME NEW f \in Fingerprint, LeaseExpires(f)
      PROVE  /\ \A g \in Fingerprint :
                  LockMoves(g) \/ ("leaseExpiry" \in Faults /\ lock'[g] = NoTask)
             /\ \A g \in Fingerprint : EntryMoves(g)
             /\ UNCHANGED <<pc, owner>>
  BY <1>4 DEF LeaseExpires, SetLock, LockMoves, EntryMoves, handlerVars, TypeOK
<1> QED BY <1>1, <1>2, <1>3, <1>4
  DEF Next, AllDone, ArtifactLost, vars, redisVars, handlerVars

-----------------------------------------------------------------------------
(* Every step preserves the invariants.                                    *)

\* Only an election puts a request into a lock.
LEMMA LockElectedStep ==
  ASSUME OnceInv, WorkerHasJob, LockElected, "lostReply" \notin Faults, [Next]_vars,
         \A t \in Task : pc[t] \notin Unelected => pc'[t] \notin Unelected
  PROVE  LockElected'
<1> SUFFICES ASSUME NEW f \in Fingerprint, lock'[f] # NoTask
             PROVE  lock'[f] \in Task /\ FpOf[lock'[f]] = f /\ pc'[lock'[f]] \notin Unelected
  BY DEF LockElected
<1>1. LockMoves(f)
  BY StepLearns
<1>2. CASE lock'[f] = lock[f]
  BY <1>2 DEF LockElected
<1>3. CASE \E x \in Task : FpOf[x] = f /\ lock'[f] = x /\ pc'[x] = "putTask"
  BY <1>3 DEF Unelected
<1> QED BY <1>1, <1>2, <1>3 DEF LockMoves

\* Who loses an election to a lock loses it to its rival.
LEMMA RivalElectedStep ==
  ASSUME OnceInv, WorkerHasJob, LockElected, RivalElected, AtMostTwo,
         "lostReply" \notin Faults, [Next]_vars,
         \A t \in Task : pc[t] \notin Unelected => pc'[t] \notin Unelected
  PROVE  RivalElected'
<1> SUFFICES ASSUME NEW t \in Task, NEW u \in Task, Rivals(t, u),
                    pc'[u] \in {"getOwner", "ownerStateAgain", "delLock", "setnxAgain"}
             PROVE  pc'[t] \notin Unelected
  BY DEF RivalElected
<1>1. CASE pc[u] \in {"getOwner", "ownerStateAgain", "delLock", "setnxAgain"}
  BY <1>1 DEF RivalElected
<1>2. CASE pc[u] = "setnx" /\ lock[FpOf[u]] # NoTask
  <2>1. /\ lock[FpOf[u]] \in Task /\ FpOf[lock[FpOf[u]]] = FpOf[u]
        /\ pc[lock[FpOf[u]]] \notin Unelected
    BY <1>2, ConstantsAssumption DEF LockElected
  <2>2. lock[FpOf[u]] # u
    BY <1>2, <2>1 DEF Unelected
  <2>3. lock[FpOf[u]] = t
    BY <2>1, <2>2 DEF AtMostTwo, Rivals
  <2> QED BY <2>1, <2>3
<1> QED BY <1>1, <1>2, StepLearns DEF Learns

\* A worker completes the entry after the task.
LEMMA EntrySettledStep ==
  ASSUME OnceInv, WorkerHasJob, Unsettled, EntrySettled, "lostReply" \notin Faults,
         [Next]_vars, \A t \in Task : Terminal(t) => Terminal(t)'
  PROVE  EntrySettled'
<1> SUFFICES ASSUME NEW f \in Fingerprint, cache'[f].status = "completed"
             PROVE  /\ cache'[f].owner \in Task /\ FpOf[cache'[f].owner] = f
                    /\ task'[cache'[f].owner] \in {"completed", "failed"}
  BY DEF EntrySettled, Terminal
<1>1. EntryMoves(f)
  BY StepLearns
<1>2. CASE cache'[f] = cache[f]
  <2>1. cache[f].owner \in Task /\ FpOf[cache[f].owner] = f /\ Terminal(cache[f].owner)
    BY <1>2 DEF EntrySettled
  <2> QED BY <1>2, <2>1 DEF Terminal
<1>3. ASSUME NEW w \in Worker, wpc[w] = "complCache", JobFp(w) = f,
             cache'[f] = CompletedBy(job[w])
      PROVE  /\ cache'[f].owner \in Task /\ FpOf[cache'[f].owner] = f
             /\ task'[cache'[f].owner] \in {"completed", "failed"}
  <2>1. job[w] \in Task /\ FpOf[job[w]] = f /\ Terminal(job[w])
    BY <1>3 DEF WorkerHasJob, Unsettled, JobFp
  <2> QED BY <1>3, <2>1 DEF CompletedBy, Terminal
<1> QED BY <1>1, <1>2, <1>3 DEF EntryMoves

\* What a handler reads from the lock is not itself.
LEMMA OwnerIsRivalStep ==
  ASSUME OnceInv, WorkerHasJob, LockElected, OwnerIsRival, "lostReply" \notin Faults,
         [Next]_vars
  PROVE  OwnerIsRival'
<1> SUFFICES ASSUME NEW u \in Task, pc'[u] \in {"ownerState", "ownerStateAgain"}
             PROVE  owner'[u] \in Task /\ Rivals(owner'[u], u)
  BY DEF OwnerIsRival, Rivals
<1>1. CASE pc'[u] = pc[u] /\ owner'[u] = owner[u]
  BY <1>1 DEF OwnerIsRival
<1>2. CASE /\ pc[u] \in {"getLock", "getOwner"} /\ lock[FpOf[u]] # NoTask
           /\ owner'[u] = lock[FpOf[u]]
  <2>1. /\ lock[FpOf[u]] \in Task /\ FpOf[lock[FpOf[u]]] = FpOf[u]
        /\ pc[lock[FpOf[u]]] \notin Unelected
    BY <1>2, ConstantsAssumption DEF LockElected
  <2> QED BY <1>2, <2>1 DEF Rivals, Unelected
<1> QED BY <1>1, <1>2, StepLearns DEF Learns

\* A pending request has been elected.
LEMMA PendingIsElected ==
  ASSUME OnceInv, NEW t \in Task, Pending(t)
  PROVE  pc[t] \notin Unelected
  BY DEF OnceInv, PushedByEnqueued, Pending, InFlight, Registering, Unelected

\* An ended request is over: nothing sets it back.
LEMMA EndedIsOver ==
  ASSUME Unsettled, NEW t \in Task, Terminal(t)
  PROVE  Over(t)
  BY DEF Unsettled, Terminal, Over, Pending

\* Each of the ways to purge and delLock tells the handler that its rival is over.
LEMMA RivalOverStep ==
  ASSUME OnceInv, WorkerHasJob, ElectionInv, AtMostTwo, "lostReply" \notin Faults,
         [Next]_vars, \A t \in Task : Onward(t)
  PROVE  RivalOver'
<1> USE DEF ElectionInv
<1> SUFFICES ASSUME NEW t \in Task, NEW u \in Task, Rivals(t, u),
                    pc'[u] \in {"stat", "purge", "delLock"}
             PROVE  Over(t)'
  BY DEF RivalOver, Rivals
<1> SUFFICES Over(t)
  BY OverStays
<1>1. CASE pc[u] \in {"stat", "purge", "delLock"}
  BY <1>1 DEF RivalOver
<1>2. CASE pc[u] = "lookup" /\ cache[FpOf[u]].status = "completed"
  <2> DEFINE x == cache[FpOf[u]].owner
  <2>1. x \in Task /\ FpOf[x] = FpOf[u] /\ Terminal(x)
    BY <1>2, ConstantsAssumption DEF EntrySettled
  <2>2. x # u
    BY <1>2, <2>1 DEF Unsettled, Unelected, Terminal
  <2>3. x = t
    BY <2>1, <2>2 DEF AtMostTwo, Rivals
  <2> QED BY <2>1, <2>3, EndedIsOver
<1>3. CASE pc[u] \in {"ownerState", "ownerStateAgain"} /\ task[owner[u]] = "failed"
  <2>1. owner[u] \in Task /\ Rivals(owner[u], u)
    BY <1>3 DEF OwnerIsRival
  <2>2. owner[u] = t
    BY <2>1 DEF AtMostTwo, Rivals
  <2> QED BY <1>3, <2>2, EndedIsOver DEF Terminal
<1>4. CASE pc[u] = "getOwner" /\ lock[FpOf[u]] = NoTask
  <2>1. pc[t] \notin Unelected
    BY <1>4 DEF RivalElected
  <2>2. ~Over(u)
    BY <1>4 DEF Over, Unelected
  <2>3. ~Pending(t)
    BY <1>4, <2>2, ConstantsAssumption DEF PendingHolds, Rivals
  <2> QED BY <2>1, <2>3 DEF Over
<1> QED BY <1>1, <1>2, <1>3, <1>4, StepLearns DEF Learns

\* Nobody takes the lock from a pending request whose rival is not over.
LEMMA PendingHoldsStep ==
  ASSUME OnceInv, OnceInv', WorkerHasJob, ElectionInv, AtMostTwo,
         Faults \cap {"lostReply", "leaseExpiry"} = {},
         [Next]_vars, \A t \in Task : Onward(t)
  PROVE  PendingHolds'
<1> USE DEF ElectionInv
<1> SUFFICES ASSUME NEW t \in Task, NEW u \in Task, Rivals(t, u), Pending(t)', ~Over(u)'
             PROVE  lock'[FpOf[t]] = t
  BY DEF PendingHolds, Rivals
<1> DEFINE f == FpOf[t]
<1>1. f \in Fingerprint /\ "lostReply" \notin Faults
  BY ConstantsAssumption
<1>2. ~Over(u)
  BY OverStays
<1>3. CASE pc[t] \in Unelected /\ pc'[t] = "putTask"
  BY <1>1, <1>3, StepLearns DEF Learns, Unelected
<1>4. CASE Pending(t)
  <2>1. lock[f] = t
    BY <1>2, <1>4 DEF PendingHolds
  <2>2. pc[t] \notin Unelected
    BY <1>4, PendingIsElected
  <2>3. ASSUME NEW x \in Task, FpOf[x] = f, pc[x] \in {"purge", "delLock"} PROVE FALSE
    <3>1. x # t
      BY <2>2, <2>3 DEF Unelected
    <3>2. Over(t)
      BY <2>3, <3>1 DEF RivalOver, Rivals
    <3> QED BY <1>4, <3>2 DEF Over
  <2>4. ASSUME NEW x \in Task, FpOf[x] = f, pc[x] \in {"undo", "regClear"}, pc'[x] = "reject"
        PROVE  FALSE
    <3>1. CASE x = t
      BY <2>4, <3>1
      DEF Pending, InFlight, Registering, OnceInv, PushedByEnqueued
    <3>2. CASE x # t
      <4>1. x = u
        BY <2>4, <3>2 DEF AtMostTwo, Rivals
      <4>2. Pending(u)
        BY <1>2, <2>4, <4>1 DEF Over, Unelected
      <4>3. Rivals(u, t) /\ t \in Task
        BY DEF Rivals
      <4>4. ~Over(t)
        BY <1>4 DEF Over
      <4>5. lock[FpOf[u]] = u
        BY <4>2, <4>3, <4>4 DEF PendingHolds
      <4> QED BY <2>1, <4>5 DEF Rivals
    <3> QED BY <3>1, <3>2
  <2>5. ASSUME NEW w \in Worker, job[w] = t, job' = [job EXCEPT ![w] = NoTask],
               UNCHANGED <<queue, pc>>, OnWorker(t)
        PROVE  FALSE
    <3>1. ~InQueue(t) /\ pc[t] = "enqueued"
      BY <2>5 DEF OnceInv, DeliveredOnce, NoCopyOnWorker, PushedByEnqueued
    <3>2. ~OnWorker(t)'
      BY <2>5, ConstantsAssumption DEF OnWorker, OnceInv, DeliveredOnce, NoSharedJob, TypeOK
    <3>3. ~InQueue(t)'
      BY <2>5, <3>1 DEF InQueue, QueueOf
    <3>4. ~Registering(t)'
      BY <2>5, <3>1 DEF Registering
    <3> QED BY <3>2, <3>3, <3>4 DEF Pending, InFlight
  <2>6. LockMoves(f)
    BY <1>1, StepLearns
  <2> QED BY <2>1, <2>3, <2>4, <2>5, <2>6, ConstantsAssumption DEF LockMoves
<1>5. Pending(t) \/ (pc[t] \in Unelected /\ pc'[t] = "putTask")
  BY DEF Onward, Pending
<1> QED BY <1>3, <1>4, <1>5

\* While at most two requests share a fingerprint, two duplicates are never both to be
\* computed, unless a reply is lost or a lock expires: whatever else fails, on the side of
\* the handlers, of the workers or of storage, for any number of fingerprints and workers.
THEOREM OneOfTwoComputed ==
  ASSUME AtMostTwo, Faults \cap {"lostReply", "leaseExpiry"} = {}
  PROVE  Spec => []OneOwner
<1> DEFINE I == OnceInv /\ WorkerHasJob /\ ElectionInv
<1>0. "lostReply" \notin Faults
  OBVIOUS
<1>1. Init => I
  <2> SUFFICES ASSUME Init PROVE I
    OBVIOUS
  <2> USE ConstantsAssumption DEF Init, SharedInit, GatewayInit, ConsumerInit
  <2>1. OnceInv /\ WorkerHasJob
    BY OnceInit DEF WorkerHasJob
  <2>2. LockElected /\ RivalElected /\ EntrySettled /\ OwnerIsRival /\ RivalOver
    BY DEF LockElected, RivalElected, EntrySettled, OwnerIsRival, RivalOver, NoEntry
  <2>3. Unsettled
    BY DEF Unsettled, Terminal, InQueue, QueueOf, Unelected
  <2>4. PendingHolds
    BY <2>1, PendingIsElected DEF PendingHolds, Unelected
  <2> QED BY <2>1, <2>2, <2>3, <2>4 DEF ElectionInv
<1>2. I /\ [Next]_vars => I'
  <2> SUFFICES ASSUME I, [Next]_vars PROVE I'
    OBVIOUS
  <2>1. OnceInv' /\ WorkerHasJob'
    BY <1>0, TypeStep, OnceStep, WorkerHasJobStep DEF OnceInv
  <2>2. Unsettled' /\ \A t \in Task : Onward(t)
    BY <1>0, OnwardStep DEF ElectionInv
  <2>3. /\ \A t \in Task : pc[t] \notin Unelected => pc'[t] \notin Unelected
        /\ \A t \in Task : Terminal(t) => Terminal(t)'
    BY <2>2 DEF Onward
  <2>4. LockElected' /\ RivalElected' /\ EntrySettled' /\ OwnerIsRival'
    BY <1>0, <2>3, LockElectedStep, RivalElectedStep, EntrySettledStep, OwnerIsRivalStep
    DEF ElectionInv
  <2>5. RivalOver' /\ PendingHolds'
    BY <1>0, <2>1, <2>2, RivalOverStep, PendingHoldsStep
  <2> QED BY <2>1, <2>2, <2>4, <2>5 DEF ElectionInv
<1>3. I => OneOwner
  <2> SUFFICES ASSUME I, NEW t \in Task, NEW u \in Task, Rivals(t, u), Pending(t), Pending(u)
               PROVE  FALSE
    BY DEF OneOwner, Rivals
  <2> QED BY DEF ElectionInv, PendingHolds, Over, Rivals
<1> QED BY <1>1, <1>2, <1>3, PTL DEF Spec

\* Where a handler stands that has met no error.
Untroubled ==
  (HandlerStep \cup Answer) \ {"reject", "rejected", "undo", "regFail", "regClear"}

\* No handler without a refused call comes near an error: the only way to one is a second lost
\* election, and its rival has had its own.
LEMMA NotRejectedStep ==
  ASSUME OnceInv, WorkerHasJob, LockElected, RivalElected, NotRejected, AtMostTwo,
         Faults \cap {"lostReply", "redisError", "storageError"} = {}, [Next]_vars
  PROVE  NotRejected'
<1> USE ConstantsAssumption DEF OnceInv, NotRejected
<1>0. "lostReply" \notin Faults
  OBVIOUS
<1>1. ASSUME NEW u \in Task
      PROVE  pc'[u] \notin {"reject", "rejected", "undo", "regFail", "regClear"}
  <2> USE DEF At, Go, TypeOK
  <2>1. ASSUME NEW t \in Task, HandlerProceeds(t)
        PROVE  \E s \in Untroubled : pc' = [pc EXCEPT ![t] = s]
    BY <2>1
    DEF Untroubled, HandlerStep, Answer, HandlerProceeds, Upload, LookupCache,
        CheckArtifacts, ReuseArtifact, AliasCompletedCache, PurgeRegistration,
        GetLock, OwnerState, AttachToOwner,
        DropStaleEntry, AcquireLock, GetLockOwner, LockOwnerState, DeleteLock,
        AcquireLockAgain, PutTask, PutCache, PushJob, UndoLock, FailRegistration,
        ClearRegistration, Reject, Elect
  <2>2. ASSUME NEW t \in Task, HandlerSuffers(t)
        PROVE  \E s \in Untroubled : pc' = [pc EXCEPT ![t] = s]
    BY <2>2
    DEF Untroubled, HandlerStep, Answer, HandlerSuffers, RedisCommandFails,
        StorageCallFails, ExpireFails, AcquireLockRetried, PushRetried, PushUnacknowledged, Abort
  <2>3. ASSUME NEW w \in Worker, WorkerProceeds(w) \/ WorkerSuffers(w) PROVE pc' = pc
    BY <2>3, WorkerSteps
  <2>4. \A t \in Task : \A s \in Untroubled :
          pc' = [pc EXCEPT ![t] = s] => pc'[u] \in {pc[u], s}
    OBVIOUS
  <2> QED BY <2>1, <2>2, <2>3, <2>4
    DEF Untroubled, Next, AllDone, LeaseExpires, ArtifactLost, vars, handlerVars
<1>2. ASSUME NEW u \in Task, pc'[u] = "setnxAgain" PROVE lock'[FpOf[u]] = NoTask
  <2>1. CASE pc[u] = "delLock" /\ lock'[FpOf[u]] = NoTask
    BY <2>1
  <2>2. CASE pc[u] = "setnxAgain"
    <3>1. lock[FpOf[u]] = NoTask
      BY <2>2
    <3>2. ASSUME NEW x \in Task, FpOf[x] = FpOf[u], pc[x] \in Unelected, pc'[x] = "putTask"
          PROVE  FALSE
      <4>1. Rivals(x, u)
        BY <1>2, <3>2 DEF Rivals
      <4> QED BY <2>2, <3>2, <4>1 DEF RivalElected
    <3>3. LockMoves(FpOf[u]) \/ lock'[FpOf[u]] = NoTask
      BY <1>0, StepLearns
    <3> QED BY <3>1, <3>2, <3>3 DEF LockMoves
  <2> QED BY <1>0, <1>2, <2>1, <2>2, StepLearns DEF Learns
<1> QED BY <1>1, <1>2

\* While at most two requests share a fingerprint, no request is answered with an error merely
\* because its duplicate is under way, even when locks expire, clients disconnect, and workers
\* fail or die: the second election a handler stands for, it wins.
THEOREM SecondElectionWon ==
  ASSUME AtMostTwo, Faults \cap {"lostReply", "redisError", "storageError"} = {}
  PROVE  Spec => []DuplicateNotRejected
<1> DEFINE I == OnceInv /\ WorkerHasJob /\ Unsettled /\ RejectInv
<1>0. "lostReply" \notin Faults
  OBVIOUS
<1>1. Init => I
  <2> SUFFICES ASSUME Init PROVE I
    OBVIOUS
  <2> USE ConstantsAssumption DEF Init, SharedInit, GatewayInit, ConsumerInit
  <2>1. OnceInv /\ WorkerHasJob
    BY OnceInit DEF WorkerHasJob
  <2>2. LockElected /\ RivalElected /\ NotRejected
    BY DEF LockElected, RivalElected, NotRejected
  <2>3. Unsettled
    BY DEF Unsettled, Terminal, InQueue, QueueOf, Unelected
  <2> QED BY <2>1, <2>2, <2>3 DEF RejectInv
<1>2. I /\ [Next]_vars => I'
  <2> SUFFICES ASSUME I, [Next]_vars PROVE I'
    OBVIOUS
  <2>1. OnceInv' /\ WorkerHasJob'
    BY <1>0, TypeStep, OnceStep, WorkerHasJobStep DEF OnceInv
  <2>2. Unsettled' /\ \A t \in Task : Onward(t)
    BY <1>0, OnwardStep
  <2>3. \A t \in Task : pc[t] \notin Unelected => pc'[t] \notin Unelected
    BY <2>2 DEF Onward
  <2>4. LockElected' /\ RivalElected'
    BY <1>0, <2>3, LockElectedStep, RivalElectedStep DEF RejectInv
  <2>5. NotRejected'
    BY NotRejectedStep DEF RejectInv
  <2> QED BY <2>1, <2>2, <2>4, <2>5 DEF RejectInv
<1>3. I => DuplicateNotRejected
  BY DEF RejectInv, NotRejected, DuplicateNotRejected
<1> QED BY <1>1, <1>2, <1>3, PTL DEF Spec
=============================================================================
