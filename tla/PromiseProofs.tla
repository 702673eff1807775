---------------------------- MODULE PromiseProofs ----------------------------
(***************************************************************************)
(* Dedup implements TaskLifecycle: for any number of requests,             *)
(* fingerprints and workers, and under every fault but those that TLC      *)
(* shows to break the promise, no interleaving of handlers and workers     *)
(* moves a status backwards, revives a terminal one, or reports a          *)
(* completion with nothing to fetch.  And a request answered without work  *)
(* of its own leaves no upload behind.                                     *)
(***************************************************************************)
EXTENDS DedupProofs

(***************************************************************************)
(* The faults that break the promise are left out.  After a lost reply the *)
(* same job runs twice, or runs after its request was reported failed; an  *)
(* exception after complTask reports a completed task as failed; a lost    *)
(* object takes back what was stored.                                      *)
(***************************************************************************)
Faithful == Faults \cap {"lostReply", "workerError", "artifactLoss"} = {}

\* The steps a handler takes before the record of its own task exists.
BeforeRecord ==
  {"upload", "lookup", "stat", "reuse", "alias", "purge", "getLock", "ownerState", "attach",
   "dropStale", "setnx", "getOwner", "ownerStateAgain", "delLock", "setnxAgain", "putTask"}

\* What the status of a task is, by where its handler stands.
HandlerStatus ==
  \A t \in Task :
    /\ pc[t] \in BeforeRecord => task[t] = "absent"
    /\ pc[t] \in {"putCache", "push", "regFail"} => task[t] = "queued"

\* A waiting job has not been started.
QueuedStatus == \A t \in Task : InQueue(t) => task[t] = "queued"

\* What the status of a worker's task is, by where the worker stands.
WorkerStatus ==
  \A w \in Worker :
    /\ wpc[w] \in {"check", "stat", "apply", "dropCache", "markTask"} => task[job[w]] = "queued"
    /\ wpc[w] \in {"markCache", "download", "run", "index", "meta", "result", "complTask"}
         => task[job[w]] = "processing"
    /\ wpc[w] = "failTask" => task[job[w]] \in {"queued", "processing"}

StatusInv == HandlerStatus /\ QueuedStatus /\ WorkerStatus

\* Who answers without work of its own has removed its upload, one command before.
UploadGone == \A t \in Task : pc[t] \in {"alias", "attached", "cached", "rejected"} => t \notin raw

-----------------------------------------------------------------------------
(* What a step does to a status.                                           *)

\* The moves the client is promised, from status old to status new of a task.
MayMove(t, old, new) ==
  \/ new = old
  \/ old = "absent" /\ new = "queued"
  \/ old = "queued" /\ new = "processing"
  \/ old \in {"absent", "queued", "processing"} /\ new = "completed"
       /\ ArtifactsAvailable(FpOf[t])
  \/ old \in {"queued", "processing"} /\ new = "failed"

\* A step of t's handler: it moves only its own record, and not after its push.
HandlerMoves(t) ==
  \E s \in (HandlerStep \cup Answer) : \E x \in Status :
    /\ pc' = [pc EXCEPT ![t] = s]
    /\ task' = [task EXCEPT ![t] = x]
    /\ UNCHANGED <<objects, workerVars>>
    /\ pc[t] # "enqueued"
    /\ MayMove(t, task[t], x)
    /\ s \in BeforeRecord => x = "absent"
    /\ s \in {"putCache", "push", "regFail"} => x = "queued"

\* A step of worker w on the job it has: it moves only that job's record.
WorkerMoves(w) ==
  \E s \in WorkerStep : \E x \in Status :
    /\ wpc[w] # "idle"
    /\ wpc' = [wpc EXCEPT ![w] = s]
    /\ job' = [job EXCEPT ![w] = IF s = "idle" THEN NoTask ELSE job[w]]
    /\ task' = [task EXCEPT ![job[w]] = x]
    /\ UNCHANGED <<queue, pc>>
    /\ MayMove(job[w], task[job[w]], x)
    /\ s \in {"check", "stat", "apply", "dropCache", "markTask"} => x = "queued"
    /\ s \in {"markCache", "download", "run", "index", "meta", "result", "complTask"}
         => x = "processing"
    /\ s = "failTask" => x \in {"queued", "processing"}

\* Every step of a handler is one; the only one to touch a list is the push.
LEMMA HandlerMovesStatus ==
  ASSUME TypeOK, HandlerSawObjects, HandlerStatus, Faithful, NEW t \in Task,
         HandlerProceeds(t) \/ HandlerSuffers(t)
  PROVE  HandlerMoves(t) /\ (UNCHANGED queue \/ PushJob(t))
<1> USE DEF HandlerMoves, MayMove, At, Go, OnlyRedis, OnlyControl, redisVars, storageVars,
            workerVars, HandlerStep, Answer, Status, BeforeRecord, HandlerStatus, TypeOK,
            SetStatus
<1>1. ASSUME NEW s \in (HandlerStep \cup Answer), pc' = [pc EXCEPT ![t] = s], UNCHANGED task,
             UNCHANGED <<objects, workerVars>>, pc[t] # "enqueued",
             s \in BeforeRecord => pc[t] \in BeforeRecord,
             s \in {"putCache", "push", "regFail"} => pc[t] \in {"putCache", "push"}
      PROVE  HandlerMoves(t)
  <2>1. task' = [task EXCEPT ![t] = task[t]] /\ task[t] \in Status
    BY <1>1
  <2> QED BY <1>1, <2>1
<1>2. ASSUME UNCHANGED task, HandlerProceeds(t) PROVE HandlerMoves(t)
  BY <1>1, <1>2
  DEF HandlerProceeds, Upload, LookupCache, CheckArtifacts, ReuseArtifact, AliasCompletedCache,
      PurgeRegistration, GetLock, OwnerState, AttachToOwner, DropStaleEntry, AcquireLock,
      GetLockOwner, LockOwnerState, DeleteLock, AcquireLockAgain, PutTask, PutCache, PushJob,
      UndoLock, FailRegistration, ClearRegistration, Reject, Elect, RemoveRaw
<1>3. ASSUME HandlerProceeds(t) PROVE HandlerMoves(t)
  <2>1. CASE AliasCompletedCache(t)
    BY <2>1 DEF AliasCompletedCache, HandlerSawObjects
  <2>2. CASE PutTask(t)
    BY <2>2 DEF PutTask
  <2>3. CASE FailRegistration(t)
    BY <2>3 DEF FailRegistration
  <2>4. CASE UNCHANGED task
    BY <1>2, <1>3, <2>4
  <2> QED BY <1>3, <2>1, <2>2, <2>3, <2>4
    DEF HandlerProceeds, Upload, LookupCache, CheckArtifacts, ReuseArtifact,
        PurgeRegistration, GetLock, OwnerState, AttachToOwner, DropStaleEntry, AcquireLock,
        GetLockOwner, LockOwnerState, DeleteLock, AcquireLockAgain, PutCache, PushJob,
        UndoLock, ClearRegistration, Reject, Elect, RemoveRaw
<1>4. ASSUME HandlerSuffers(t) PROVE HandlerMoves(t)
  <2>1. CASE ExpireFails(t)
    <3>1. CASE At(t, "putCache")
      BY <1>1, <2>1, <3>1 DEF ExpireFails, AfterRedisError
    <3>2. CASE At(t, "putTask")
      BY <2>1, <3>2 DEF ExpireFails, AfterRedisError
    <3>3. CASE At(t, "alias")
      BY <2>1, <3>3 DEF ExpireFails, AfterRedisError, HandlerSawObjects
    <3> QED BY <2>1, <3>1, <3>2, <3>3 DEF ExpireFails
  <2>2. CASE RedisCommandFails(t)
    <3>1. /\ pc' = [pc EXCEPT ![t] = AfterRedisError(pc[t])]
          /\ pc[t] \in HandlerStep \ StorageStep
          /\ UNCHANGED <<task, objects, workerVars>>
      BY <2>2 DEF RedisCommandFails
    <3>2. /\ AfterRedisError(pc[t]) \in {"reject", "attach", "undo", "regFail", "regClear"}
          /\ AfterRedisError(pc[t]) = "attach" => pc[t] \in {"ownerState", "ownerStateAgain"}
          /\ AfterRedisError(pc[t]) = "regFail" => pc[t] = "push"
      BY <3>1 DEF AfterRedisError, StorageStep
    <3> QED BY <1>1, <3>1, <3>2
  <2>3. CASE StorageCallFails(t)
    BY <1>1, <2>3 DEF StorageCallFails, AfterStorageError, StorageStep
  <2>4. CASE Abort(t)
    BY <1>1, <2>4 DEF Abort
  <2> QED BY <1>4, <2>1, <2>2, <2>3, <2>4
    DEF HandlerSuffers, AcquireLockRetried, PushRetried, PushUnacknowledged, Faithful
<1>5. UNCHANGED queue \/ PushJob(t)
  BY HandlerSteps DEF QuietHandler, Faithful
<1> QED BY <1>3, <1>4, <1>5

\* Every step of a worker but the pop is one, or a fault that ends its iteration.
LEMMA WorkerMovesStatus ==
  ASSUME TypeOK, WorkerHasJob, WorkerStored, WorkerStatus, Faithful, NEW w \in Worker,
         WorkerProceeds(w) \/ WorkerSuffers(w), ~Pop(w)
  PROVE  WorkerMoves(w)
<1> USE DEF WorkerMoves, MayMove, Doing, Then, OnlyRedisOf, OnlyWorker, redisVars, storageVars,
            handlerVars, WorkerStep, TryStep, ExceptStep, Status, WorkerStatus, TypeOK,
            SetStatus, WorkerHasJob, NextIteration
<1>1. ASSUME NEW s \in WorkerStep \ {"idle"}, wpc[w] # "idle", wpc' = [wpc EXCEPT ![w] = s],
             UNCHANGED <<task, queue, pc, job>>,
             s \in {"check", "stat", "apply", "dropCache", "markTask"}
               => wpc[w] \in {"check", "stat", "dropCache"},
             s \in {"markCache", "download", "run", "index", "meta", "result", "complTask"}
               => wpc[w] \in {"markCache", "download", "run", "index", "meta", "result"},
             s = "failTask" => wpc[w] \in {"apply", "download", "run"}
      PROVE  WorkerMoves(w)
  <2>1. /\ task' = [task EXCEPT ![job[w]] = task[job[w]]] /\ task[job[w]] \in Status
        /\ job' = [job EXCEPT ![w] = job[w]]
    BY <1>1
  <2> QED BY <1>1, <2>1
<1>2. ASSUME wpc[w] # "idle", NextIteration(w), UNCHANGED <<task, queue, pc>>
      PROVE  WorkerMoves(w)
  <2>1. task' = [task EXCEPT ![job[w]] = task[job[w]]] /\ task[job[w]] \in Status
    BY <1>2
  <2> QED BY <1>2, <2>1
<1>3. CASE WorkerProceeds(w)
  <2>1. CASE ApplyCachedCompletion(w)
    BY <2>1 DEF ApplyCachedCompletion, WorkerStored, JobFp
  <2>2. CASE MarkProcessingTask(w)
    BY <2>2 DEF MarkProcessingTask
  <2>3. CASE CompleteTask(w)
    BY <2>3 DEF CompleteTask, WorkerStored, JobFp
  <2>4. CASE FailTask(w)
    BY <2>4 DEF FailTask
  <2>5. CASE ReleaseOwnedLock(w)
    BY <1>2, <2>5 DEF ReleaseOwnedLock
  <2> QED BY <1>1, <1>3, <2>1, <2>2, <2>3, <2>4, <2>5
    DEF WorkerProceeds, CheckCache, CheckObjects, RejectBoolFields, RemoveRedundantRaw,
        DropUnusableEntry, MarkProcessingCache, DownloadRaw, RunService, UploadIndex,
        UploadMeta, UploadResult, CompleteCache, ClearOwnedCache, Store
<1>4. CASE WorkerSuffers(w)
  <2>1. CASE WorkerCrashes(w)
    BY <1>2, <2>1 DEF WorkerCrashes
  <2>2. CASE ServiceRaises(w)
    BY <1>1, <2>2 DEF ServiceRaises
  <2> QED BY <1>4, <2>1, <2>2
    DEF WorkerSuffers, CallRaises, ExpireRaises, HandlerRaises, Faithful
<1> QED BY <1>3, <1>4

-----------------------------------------------------------------------------
(* The invariant.                                                          *)

\* Initially no record exists and no job waits or runs.
LEMMA StatusInit == Init => StatusInv
  BY ConstantsAssumption
  DEF Init, SharedInit, GatewayInit, ConsumerInit, StatusInv, HandlerStatus, QueuedStatus,
      WorkerStatus, InQueue, QueueOf, BeforeRecord

\* A handler's step keeps it: the record it moves belongs to no job yet.
LEMMA HandlerKeepsStatus ==
  ASSUME OnceInv, WorkerHasJob, StatusInv, NEW t \in Task,
         HandlerMoves(t), UNCHANGED queue \/ PushJob(t)
  PROVE  StatusInv'
<1> USE DEF OnceInv, StatusInv, TypeOK
<1>1. PICK s \in (HandlerStep \cup Answer), x \in Status :
        /\ pc' = [pc EXCEPT ![t] = s]
        /\ task' = [task EXCEPT ![t] = x]
        /\ UNCHANGED <<objects, workerVars>>
        /\ pc[t] # "enqueued"
        /\ MayMove(t, task[t], x)
        /\ s \in BeforeRecord => x = "absent"
        /\ s \in {"putCache", "push", "regFail"} => x = "queued"
  BY DEF HandlerMoves
<1>2. ~InQueue(t) /\ ~OnWorker(t)
  BY <1>1 DEF PushedByEnqueued
<1>3. HandlerStatus'
  BY <1>1 DEF HandlerStatus
<1>4. QueuedStatus'
  <2>1. CASE UNCHANGED queue
    BY <1>1, <1>2, <2>1 DEF QueuedStatus, InQueue
  <2>2. CASE PushJob(t)
    <3>1. \A u \in Task : InQueue(u)' <=> InQueue(u) \/ u = t
      BY <2>2, EnqueueOne DEF PushJob
    <3>2. task' = task /\ task[t] = "queued"
      BY <2>2 DEF PushJob, At, HandlerStatus
    <3> QED BY <3>1, <3>2 DEF QueuedStatus
  <2> QED BY <2>1, <2>2
<1>5. WorkerStatus'
  <2>1. \A w \in Worker : wpc[w] # "idle" => job[w] \in Task \ {t}
    BY <1>2 DEF OnWorker, WorkerHasJob
  <2>2. \A w \in Worker : wpc[w] # "idle" => task'[job'[w]] = task[job[w]]
    BY <1>1, <2>1 DEF workerVars
  <2> QED BY <1>1, <2>2 DEF WorkerStatus, workerVars
<1> QED BY <1>3, <1>4, <1>5

\* A worker's step keeps it: its job is nobody else's, and waits in no list.
LEMMA WorkerKeepsStatus ==
  ASSUME OnceInv, WorkerHasJob, StatusInv, NEW w \in Worker, WorkerMoves(w)
  PROVE  StatusInv'
<1> USE DEF OnceInv, StatusInv, TypeOK
<1>1. PICK s \in WorkerStep, x \in Status :
        /\ wpc[w] # "idle"
        /\ wpc' = [wpc EXCEPT ![w] = s]
        /\ job' = [job EXCEPT ![w] = IF s = "idle" THEN NoTask ELSE job[w]]
        /\ task' = [task EXCEPT ![job[w]] = x]
        /\ UNCHANGED <<queue, pc>>
        /\ s \in {"check", "stat", "apply", "dropCache", "markTask"} => x = "queued"
        /\ s \in {"markCache", "download", "run", "index", "meta", "result", "complTask"}
             => x = "processing"
        /\ s = "failTask" => x \in {"queued", "processing"}
  BY DEF WorkerMoves
<1>2. /\ job[w] \in Task /\ pc[job[w]] = "enqueued" /\ ~InQueue(job[w])
      /\ \A v \in Worker \ {w} : wpc[v] # "idle" => job[v] \in Task \ {job[w]}
  <2>1. job[w] \in Task
    BY <1>1 DEF WorkerHasJob
  <2>2. OnWorker(job[w])
    BY DEF OnWorker
  <2>3. pc[job[w]] = "enqueued" /\ ~InQueue(job[w])
    BY <2>1, <2>2 DEF PushedByEnqueued, DeliveredOnce, NoCopyOnWorker
  <2>4. \A v \in Worker \ {w} : wpc[v] # "idle" => job[v] \in Task \ {job[w]}
    BY <2>1, ConstantsAssumption DEF DeliveredOnce, NoSharedJob, WorkerHasJob
  <2> QED BY <2>1, <2>3, <2>4
<1>3. HandlerStatus'
  BY <1>1, <1>2 DEF HandlerStatus, BeforeRecord
<1>4. QueuedStatus'
  BY <1>1, <1>2 DEF QueuedStatus, InQueue
<1>5. WorkerStatus'
  <2> SUFFICES ASSUME NEW v \in Worker PROVE
        /\ wpc'[v] \in {"check", "stat", "apply", "dropCache", "markTask"}
             => task'[job'[v]] = "queued"
        /\ wpc'[v] \in {"markCache", "download", "run", "index", "meta", "result", "complTask"}
             => task'[job'[v]] = "processing"
        /\ wpc'[v] = "failTask" => task'[job'[v]] \in {"queued", "processing"}
    BY DEF WorkerStatus
  <2>1. CASE v = w
    BY <1>1, <1>2, <2>1
  <2>2. CASE v # w
    <3>1. wpc'[v] = wpc[v] /\ job'[v] = job[v]
      BY <1>1, <2>2
    <3>2. wpc[v] # "idle" => task'[job[v]] = task[job[v]]
      BY <1>1, <1>2, <2>2
    <3> QED BY <3>1, <3>2 DEF WorkerStatus
  <2> QED BY <2>1, <2>2
<1> QED BY <1>3, <1>4, <1>5

\* So does a pop: the job it takes has not been started.
LEMMA PopKeepsStatus ==
  ASSUME OnceInv, StatusInv, NEW w \in Worker, Pop(w)
  PROVE  StatusInv'
<1> USE DEF OnceInv, StatusInv, TypeOK
<1>1. PICK t \in Task :
        /\ InQueue(t) /\ job' = [job EXCEPT ![w] = t]
        /\ \A u \in Task : InQueue(u)' => InQueue(u)
  BY PopOne DEF DeliveredOnce
<1>2. wpc' = [wpc EXCEPT ![w] = "check"] /\ UNCHANGED <<task, pc>>
  BY DEF Pop, Then, handlerVars
<1> QED BY <1>1, <1>2 DEF HandlerStatus, QueuedStatus, WorkerStatus

\* Every step keeps the invariant.
LEMMA StatusStep ==
  ASSUME OnceInv, StoredInv, StatusInv, Faithful, [Next]_vars
  PROVE  StatusInv'
<1> USE DEF StoredInv
<1>1. ASSUME NEW t \in Task, HandlerProceeds(t) \/ HandlerSuffers(t) PROVE StatusInv'
  BY <1>1, HandlerMovesStatus, HandlerKeepsStatus DEF StatusInv
<1>2. ASSUME NEW w \in Worker, WorkerProceeds(w) \/ WorkerSuffers(w) PROVE StatusInv'
  BY <1>2, WorkerMovesStatus, WorkerKeepsStatus, PopKeepsStatus DEF StatusInv
<1>3. ASSUME UNCHANGED <<task, queue, pc, wpc, job>> PROVE StatusInv'
  BY <1>3 DEF StatusInv, HandlerStatus, QueuedStatus, WorkerStatus, InQueue
<1> QED BY <1>1, <1>2, <1>3
  DEF Next, AllDone, LeaseExpires, ArtifactLost, vars, redisVars, handlerVars, workerVars

\* What Dedup keeps under these faults, and each part by the lemmas of its module.
PromiseInv == OnceInv /\ StoredInv /\ StatusInv

LEMMA PromiseInvariant ==
  ASSUME Faithful
  PROVE  Spec => []PromiseInv
<1>1. Init => PromiseInv
  BY OnceInit, StoredInit, StatusInit DEF PromiseInv
<1>2. PromiseInv /\ [Next]_vars => PromiseInv'
  BY TypeStep, OnceStep, ObjectsGrow, StoredStep, StatusStep
  DEF PromiseInv, OnceInv, Faithful
<1> QED BY <1>1, <1>2, PTL DEF Spec

-----------------------------------------------------------------------------
(* The refinement.                                                         *)

\* The fingerprints whose objects are all stored: what TaskLifecycle calls stored.
Stored == {f \in Fingerprint : ArtifactsAvailable(f)}

\* A status that may move is one step of the life cycle, with nothing newly stored.
LEMMA MoveIsLifecycle ==
  ASSUME TypeOK, NEW t \in Task, NEW x \in Status, MayMove(t, task[t], x),
         task' = [task EXCEPT ![t] = x], UNCHANGED objects
  PROVE  [Promise!LifecycleNext]_(Promise!lifecycleVars)
<1> USE ConstantsAssumption
    DEF Promise!LifecycleNext, Promise!lifecycleVars, Promise!Queue, Promise!Start,
        Promise!Complete, Promise!Fail, Promise!Move, ArtifactsAvailable
<1>1. Stored' = Stored
  BY DEF Stored
<1>2. CASE x = task[t]
  BY <1>1, <1>2 DEF TypeOK, Stored
<1>3. CASE x # task[t]
  <2>1. FpOf[t] \in Fingerprint
    OBVIOUS
  <2> QED BY <1>1, <1>3, <2>1 DEF MayMove, Stored
<1> QED BY <1>2, <1>3

\* An upload stores one fingerprint, when it completes what the fingerprint needs.
LEMMA UploadIsLifecycle ==
  ASSUME TypeOK, NEW f \in Fingerprint, NEW object,
         objects' = [objects EXCEPT ![f] = @ \cup {object}], UNCHANGED task
  PROVE  [Promise!LifecycleNext]_(Promise!lifecycleVars)
<1> USE DEF Promise!LifecycleNext, Promise!lifecycleVars, Promise!Store, ArtifactsAvailable,
            TypeOK
<1>1. Stored' = Stored \/ Stored' = Stored \cup {f}
  BY DEF Stored
<1> QED BY <1>1 DEF Stored

\* The only objects a worker's step stores are of its job's fingerprint.
LEMMA WorkerStores ==
  ASSUME TypeOK, NEW w \in Worker, WorkerProceeds(w) \/ WorkerSuffers(w)
  PROVE  \/ UNCHANGED objects
         \/ /\ wpc[w] # "idle" /\ UNCHANGED task
            /\ \E object : objects' = [objects EXCEPT ![JobFp(w)] = @ \cup {object}]
<1> USE DEF Doing, Then, OnlyRedisOf, OnlyWorker, redisVars, storageVars
<1>1. CASE WorkerProceeds(w)
  BY <1>1 DEF WorkerProceeds, Pop, CheckCache, CheckObjects, ApplyCachedCompletion,
     RejectBoolFields, RemoveRedundantRaw, DropUnusableEntry, MarkProcessingTask,
     MarkProcessingCache, DownloadRaw, RunService, UploadIndex, UploadMeta, UploadResult,
     CompleteTask, CompleteCache, ReleaseOwnedLock, FailTask, ClearOwnedCache, Store
<1>2. CASE WorkerSuffers(w)
  BY <1>2 DEF WorkerSuffers, ServiceRaises, CallRaises, ExpireRaises, HandlerRaises, WorkerCrashes
<1> QED BY <1>1, <1>2

\* Every step of the system is a step of the life cycle, or changes nothing of it.
LEMMA LifecycleStep ==
  ASSUME PromiseInv, Faithful, [Next]_vars
  PROVE  [Promise!LifecycleNext]_(Promise!lifecycleVars)
<1> USE DEF PromiseInv, StoredInv, StatusInv
<1>1. ASSUME NEW t \in Task, HandlerProceeds(t) \/ HandlerSuffers(t)
      PROVE  [Promise!LifecycleNext]_(Promise!lifecycleVars)
  <2>1. HandlerMoves(t)
    BY <1>1, HandlerMovesStatus
  <2> QED BY <2>1, MoveIsLifecycle DEF HandlerMoves
<1>2. ASSUME UNCHANGED <<task, objects>>
      PROVE  [Promise!LifecycleNext]_(Promise!lifecycleVars)
  BY <1>2 DEF Promise!lifecycleVars, ArtifactsAvailable
<1>3. ASSUME NEW w \in Worker, WorkerProceeds(w) \/ WorkerSuffers(w)
      PROVE  [Promise!LifecycleNext]_(Promise!lifecycleVars)
  <2>1. CASE Pop(w)
    BY <1>2, <2>1 DEF Pop, storageVars
  <2>2. CASE ~Pop(w) /\ UNCHANGED objects
    <3>1. WorkerMoves(w)
      BY <1>3, <2>2, WorkerMovesStatus
    <3>2. job[w] \in Task
      BY <3>1 DEF WorkerMoves, WorkerHasJob
    <3> QED BY <2>2, <3>1, <3>2, MoveIsLifecycle DEF WorkerMoves
  <2>3. CASE objects' # objects
    <3>1. /\ wpc[w] # "idle" /\ UNCHANGED task
          /\ \E object : objects' = [objects EXCEPT ![JobFp(w)] = @ \cup {object}]
      BY <1>3, <2>3, WorkerStores
    <3>2. JobFp(w) \in Fingerprint
      BY <3>1, ConstantsAssumption DEF JobFp, WorkerHasJob
    <3> QED BY <3>1, <3>2, UploadIsLifecycle
  <2> QED BY <2>1, <2>2, <2>3
<1>4. ASSUME NEW f \in Fingerprint, LeaseExpires(f)
      PROVE  [Promise!LifecycleNext]_(Promise!lifecycleVars)
  BY <1>2, <1>4 DEF LeaseExpires, storageVars
<1> QED BY <1>1, <1>2, <1>3, <1>4
  DEF Next, AllDone, ArtifactLost, Faithful, vars

\* Unless a reply or an object is lost or a worker's call raises, the whole system implements
\* the task life cycle: no interleaving of any number of duplicates and workers, no
\* disconnect, crash, refused command or expired lock moves a status backwards or out of a
\* terminal state, or reports a completion with nothing to fetch.
THEOREM PromiseKept ==
  ASSUME Faithful
  PROVE  Spec => KeepsPromise
<1>1. Init => Promise!LifecycleInit
  <2> SUFFICES ASSUME Init PROVE Promise!LifecycleInit
    OBVIOUS
  <2>1. \A f \in Fingerprint : ~ArtifactsAvailable(f)
    BY DEF Init, SharedInit, ArtifactsAvailable, Required
  <2> QED BY <2>1 DEF Init, SharedInit, Promise!LifecycleInit
<1>2. PromiseInv /\ [Next]_vars => [Promise!LifecycleNext]_(Promise!lifecycleVars)
  BY LifecycleStep
<1> QED BY PromiseInvariant, <1>1, <1>2, PTL DEF Spec, KeepsPromise, Promise!Lifecycle

-----------------------------------------------------------------------------
(* Redundant uploads.                                                      *)

\* Only the upload itself puts it back, and no handler starts over.
LEMMA UploadGoneStep ==
  ASSUME TypeOK, UploadGone, "storageError" \notin Faults, [Next]_vars
  PROVE  UploadGone'
<1> USE DEF UploadGone, TypeOK
<1>1. ASSUME NEW t \in Task, HandlerProceeds(t) PROVE UploadGone'
  BY <1>1
  DEF At, Go, OnlyRedis, OnlyControl, storageVars, HandlerProceeds, Upload, LookupCache,
      CheckArtifacts, ReuseArtifact, AliasCompletedCache, PurgeRegistration, GetLock,
      OwnerState, AttachToOwner, DropStaleEntry, AcquireLock, GetLockOwner, LockOwnerState,
      DeleteLock, AcquireLockAgain, PutTask, PutCache, PushJob, UndoLock, FailRegistration,
      ClearRegistration, Reject, Elect, RemoveRaw
<1>2. ASSUME NEW t \in Task, HandlerSuffers(t) PROVE UploadGone'
  <2>1. \E s \in (HandlerStep \cup Answer) \ {"alias", "attached", "cached", "rejected"} :
          pc' = [pc EXCEPT ![t] = s]
    BY <1>2
    DEF At, Go, OnlyRedis, OnlyControl, HandlerSuffers, RedisCommandFails, StorageCallFails,
        ExpireFails, AcquireLockRetried, PushRetried, PushUnacknowledged, Abort,
        AfterRedisError, StorageStep, HandlerStep, Answer
  <2>2. raw' = raw
    BY <1>2
    DEF OnlyRedis, OnlyControl, storageVars, HandlerSuffers, RedisCommandFails,
        StorageCallFails, ExpireFails, AcquireLockRetried, PushRetried, PushUnacknowledged,
        Abort
  <2> QED BY <2>1, <2>2
<1>3. ASSUME NEW w \in Worker, WorkerProceeds(w) \/ WorkerSuffers(w) PROVE UploadGone'
  <2>1. pc' = pc
    BY <1>3, WorkerSteps
  <2>2. raw' \subseteq raw
    BY <1>3
    DEF OnlyRedisOf, OnlyWorker, storageVars, WorkerProceeds, Pop, CheckCache, CheckObjects,
        ApplyCachedCompletion, RejectBoolFields, RemoveRedundantRaw, DropUnusableEntry,
        MarkProcessingTask, MarkProcessingCache, DownloadRaw, RunService, UploadIndex,
        UploadMeta, UploadResult, CompleteTask, CompleteCache, ReleaseOwnedLock, FailTask,
        ClearOwnedCache, Store, WorkerSuffers, ServiceRaises, CallRaises, ExpireRaises,
        HandlerRaises, WorkerCrashes
  <2> QED BY <2>1, <2>2
<1>4. ASSUME UNCHANGED <<pc, raw>> PROVE UploadGone'
  BY <1>4
<1> QED BY <1>1, <1>2, <1>3, <1>4
  DEF Next, AllDone, LeaseExpires, ArtifactLost, vars, storageVars, handlerVars

\* Unless storage refuses a call, a request answered without work of its own leaves no upload,
\* on whichever path through reuse, attachment or an error it came to its answer.
THEOREM NoUploadLeft ==
  ASSUME "storageError" \notin Faults
  PROVE  Spec => []RedundantRawRemoved
<1>1. Init => UploadGone
  BY DEF Init, GatewayInit, UploadGone
<1>2. UploadGone => RedundantRawRemoved
  BY DEF UploadGone, RedundantRawRemoved
<1> QED BY TypeCorrect, UploadGoneStep, <1>1, <1>2, PTL DEF Spec
=============================================================================
