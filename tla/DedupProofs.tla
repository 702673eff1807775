----------------------------- MODULE DedupProofs -----------------------------
(***************************************************************************)
(* Type correctness of Dedup; that nothing is reported completed or        *)
(* offered for reuse before its derived objects are stored; and that the   *)
(* lists between gateway and workers hand each job to one worker once,     *)
(* with its uploaded input: for any number of requests, fingerprints and   *)
(* workers.                                                                *)
(***************************************************************************)
EXTENDS Dedup, SequenceTheorems, TLAPS

-----------------------------------------------------------------------------
(* Type correctness.                                                       *)

\* The initial state is well typed.
LEMMA TypeInit == Init => TypeOK
  BY ConstantsAssumption
  DEF Init, SharedInit, GatewayInit, ConsumerInit, TypeOK, CacheEntry, NoEntry, Status,
      HandlerStep, WorkerStep

\* Every step of the handlers, the workers and the environment preserves the types.
LEMMA TypeStep == TypeOK /\ [Next]_vars => TypeOK'
<1> SUFFICES ASSUME TypeOK, [Next]_vars PROVE TypeOK'
    OBVIOUS
<1> USE ConstantsAssumption
    DEF TypeOK, vars, redisVars, storageVars, handlerVars, workerVars, CacheEntry, Status,
        NoEntry, ProcessingBy, CompletedBy, SetStatus, SetCache, SetLock
<1>enqueue. ASSUME NEW t \in Task, NEW copies \in Seq(Task), Enqueue(t, copies)
      PROVE queue' \in [Op -> Seq(Task)]
  <2>1. QueueOf(t) \in Op
    BY DEF QueueOf
  <2>2. queue[QueueOf(t)] \o copies \in Seq(Task)
    BY <2>1, ConcatProperties
  <2> QED BY <1>enqueue, <2>2 DEF Enqueue
<1>elect. ASSUME NEW t \in Task, NEW won \in HandlerStep, NEW lost \in HandlerStep,
             Elect(t, won, lost)
       PROVE TypeOK'
  <2>1. pc' \in [Task -> HandlerStep \cup Answer]
    <3>1. PICK s \in HandlerStep : pc' = [pc EXCEPT ![t] = s]
      BY <1>elect DEF Elect, Go
    <3> QED BY <3>1
  <2>2. lock' \in [Fingerprint -> Task \cup {NoTask}]
    BY <1>elect DEF Elect
  <2> QED BY <1>elect, <2>1, <2>2 DEF Elect, OnlyRedis
<1>1. ASSUME NEW t \in Task, HandlerProceeds(t) PROVE TypeOK'
  <2> USE DEF At, Go, OnlyRedis, OnlyControl, HandlerStep, Answer
  <2>1. CASE Upload(t)
    BY <2>1 DEF Upload
  <2>2. CASE LookupCache(t)
    BY <2>2 DEF LookupCache
  <2>3. CASE CheckArtifacts(t)
    BY <2>3 DEF CheckArtifacts
  <2>4. CASE ReuseArtifact(t)
    BY <2>4 DEF ReuseArtifact, RemoveRaw
  <2>5. CASE AliasCompletedCache(t)
    BY <2>5 DEF AliasCompletedCache
  <2>6. CASE PurgeRegistration(t)
    BY <2>6 DEF PurgeRegistration
  <2>7. CASE GetLock(t)
    BY <2>7 DEF GetLock
  <2>8. CASE OwnerState(t)
    BY <2>8 DEF OwnerState
  <2>9. CASE AttachToOwner(t)
    BY <2>9 DEF AttachToOwner, RemoveRaw
  <2>10. CASE DropStaleEntry(t)
    BY <2>10 DEF DropStaleEntry
  <2>11. CASE AcquireLock(t)
    BY <1>elect, <2>11 DEF AcquireLock
  <2>12. CASE GetLockOwner(t)
    BY <2>12 DEF GetLockOwner
  <2>13. CASE LockOwnerState(t)
    BY <2>13 DEF LockOwnerState
  <2>14. CASE DeleteLock(t)
    BY <2>14 DEF DeleteLock
  <2>15. CASE AcquireLockAgain(t)
    BY <1>elect, <2>15 DEF AcquireLockAgain
  <2>16. CASE PutTask(t)
    BY <2>16 DEF PutTask
  <2>17. CASE PutCache(t)
    BY <2>17 DEF PutCache
  <2>18. CASE PushJob(t)
    <3>1. <<t>> \in Seq(Task)
      OBVIOUS
    <3>2. queue' \in [Op -> Seq(Task)]
      BY <1>enqueue, <2>18, <3>1 DEF PushJob
    <3> QED BY <2>18, <3>2 DEF PushJob
  <2>19. CASE UndoLock(t)
    BY <2>19 DEF UndoLock
  <2>20. CASE FailRegistration(t)
    BY <2>20 DEF FailRegistration
  <2>21. CASE ClearRegistration(t)
    BY <2>21 DEF ClearRegistration
  <2>22. CASE Reject(t)
    BY <2>22 DEF Reject, RemoveRaw
  <2> QED BY <1>1, <2>1, <2>2, <2>3, <2>4, <2>5, <2>6, <2>7, <2>8, <2>9, <2>10, <2>11, <2>12,
     <2>13, <2>14, <2>15, <2>16, <2>17, <2>18, <2>19, <2>20, <2>21, <2>22
    DEF HandlerProceeds
<1>2. ASSUME NEW t \in Task, HandlerSuffers(t) PROVE TypeOK'
  <2> USE DEF At, Go, OnlyRedis, OnlyControl, HandlerStep, Answer
  <2>1. CASE RedisCommandFails(t)
    BY <2>1 DEF RedisCommandFails, AfterRedisError, StorageStep
  <2>2. CASE StorageCallFails(t)
    BY <2>2 DEF StorageCallFails, AfterStorageError, StorageStep
  <2>3. CASE ExpireFails(t)
    <3>1. CASE At(t, "putCache")
      <4>1. /\ cache' = [cache EXCEPT ![FpOf[t]] = ProcessingBy(t)]
            /\ UNCHANGED <<lock, task, queue, storageVars, owner, workerVars>>
        BY <2>3, <3>1 DEF ExpireFails
      <4>2. pc' = [pc EXCEPT ![t] = "undo"]
        BY <2>3, <3>1 DEF ExpireFails, AfterRedisError
      <4> QED BY <4>1, <4>2
    <3>2. CASE At(t, "putTask") \/ At(t, "alias")
      BY <2>3, <3>2 DEF ExpireFails, AfterRedisError
    <3> QED BY <2>3, <3>1, <3>2 DEF ExpireFails
  <2>4. CASE AcquireLockRetried(t)
    BY <2>4 DEF AcquireLockRetried
  <2>5. CASE PushRetried(t)
    <3>1. <<t, t>> \in Seq(Task)
      OBVIOUS
    <3>2. queue' \in [Op -> Seq(Task)]
      BY <1>enqueue, <2>5, <3>1 DEF PushRetried
    <3> QED BY <2>5, <3>2 DEF PushRetried
  <2>6. CASE PushUnacknowledged(t)
    <3>1. <<t>> \in Seq(Task)
      OBVIOUS
    <3>2. queue' \in [Op -> Seq(Task)]
      BY <1>enqueue, <2>6, <3>1 DEF PushUnacknowledged
    <3> QED BY <2>6, <3>2 DEF PushUnacknowledged
  <2>7. CASE Abort(t)
    BY <2>7 DEF Abort
  <2> QED BY <1>2, <2>1, <2>2, <2>3, <2>4, <2>5, <2>6, <2>7 DEF HandlerSuffers
<1>3. ASSUME NEW w \in Worker, WorkerProceeds(w) PROVE TypeOK'
  <2> USE DEF Doing, Then, OnlyRedisOf, OnlyWorker, TryStep, ExceptStep, WorkerStep
  <2>1. CASE Pop(w)
    BY <2>1 DEF Pop
  <2>2. CASE CheckCache(w)
    BY <2>2 DEF CheckCache
  <2>3. CASE CheckObjects(w)
    BY <2>3 DEF CheckObjects
  <2>4. CASE ApplyCachedCompletion(w)
    BY <2>4 DEF ApplyCachedCompletion
  <2>5. CASE RejectBoolFields(w)
    BY <2>5 DEF RejectBoolFields
  <2>6. CASE RemoveRedundantRaw(w)
    BY <2>6 DEF RemoveRedundantRaw
  <2>7. CASE DropUnusableEntry(w)
    BY <2>7 DEF DropUnusableEntry
  <2>8. CASE MarkProcessingTask(w)
    BY <2>8 DEF MarkProcessingTask
  <2>9. CASE MarkProcessingCache(w)
    BY <2>9 DEF MarkProcessingCache
  <2>10. CASE DownloadRaw(w)
    BY <2>10 DEF DownloadRaw
  <2>11. CASE RunService(w)
    BY <2>11 DEF RunService
  <2>12. CASE UploadIndex(w)
    BY <2>12 DEF UploadIndex, Store
  <2>13. CASE UploadMeta(w)
    BY <2>13 DEF UploadMeta, Store
  <2>14. CASE UploadResult(w)
    BY <2>14 DEF UploadResult, Store
  <2>15. CASE CompleteTask(w)
    BY <2>15 DEF CompleteTask
  <2>16. CASE CompleteCache(w)
    BY <2>16 DEF CompleteCache
  <2>17. CASE ReleaseOwnedLock(w)
    BY <2>17 DEF ReleaseOwnedLock, NextIteration
  <2>18. CASE FailTask(w)
    BY <2>18 DEF FailTask
  <2>19. CASE ClearOwnedCache(w)
    BY <2>19 DEF ClearOwnedCache
  <2> QED BY <1>3, <2>1, <2>2, <2>3, <2>4, <2>5, <2>6, <2>7, <2>8, <2>9, <2>10, <2>11, <2>12,
     <2>13, <2>14, <2>15, <2>16, <2>17, <2>18, <2>19
    DEF WorkerProceeds
<1>4. ASSUME NEW w \in Worker, WorkerSuffers(w) PROVE TypeOK'
  <2> USE DEF Doing, Then, OnlyRedisOf, OnlyWorker, TryStep, ExceptStep, WorkerStep
  <2>1. CASE ServiceRaises(w)
    BY <2>1 DEF ServiceRaises
  <2>2. CASE CallRaises(w)
    BY <2>2 DEF CallRaises
  <2>3. CASE HandlerRaises(w)
    BY <2>3 DEF HandlerRaises, NextIteration
  <2>4. CASE WorkerCrashes(w)
    BY <2>4 DEF WorkerCrashes, NextIteration
  <2>5. CASE ExpireRaises(w)
    BY <2>5 DEF ExpireRaises
  <2> QED BY <1>4, <2>1, <2>2, <2>3, <2>4, <2>5 DEF WorkerSuffers
<1>5. ASSUME NEW f \in Fingerprint, LeaseExpires(f) PROVE TypeOK'
  BY <1>5 DEF LeaseExpires
<1>6. ASSUME NEW f \in Fingerprint, NEW k \in {"index", "meta", "result"}, ArtifactLost(f, k)
      PROVE TypeOK'
  BY <1>6 DEF ArtifactLost
<1>7. CASE UNCHANGED vars
  BY <1>7
<1> QED BY <1>1, <1>2, <1>3, <1>4, <1>5, <1>6, <1>7 DEF Next, AllDone

\* In every state the program reaches, under every fault, the variables have their types.
THEOREM TypeCorrect == Spec => []TypeOK
<1> QED BY TypeInit, TypeStep, PTL DEF Spec

-----------------------------------------------------------------------------
(* What is completed is stored.                                            *)
(*                                                                         *)
(* CompletedMeansStored is not inductive: a handler or a worker that has   *)
(* seen or uploaded the objects publishes them several commands later.     *)
(* The invariant says what each of them knows at which point.              *)

\* A handler about to reuse an artifact has seen all of it.
HandlerSawObjects ==
  \A t \in Task : pc[t] \in {"reuse", "alias"} => ArtifactsAvailable(FpOf[t])

\* A worker holds a job inside an iteration and none between two.
WorkerHasJob ==
  \A w \in Worker :
    /\ wpc[w] # "idle" => job[w] \in Task
    /\ wpc[w] = "idle" => job[w] = NoTask

\* A worker publishes what it has seen or uploaded, and uploads the result last.
WorkerStored ==
  \A w \in Worker :
    /\ wpc[w] \in {"apply", "complTask", "complCache"} => ArtifactsAvailable(JobFp(w))
    /\ wpc[w] = "meta" => "index" \in objects[JobFp(w)]
    /\ wpc[w] = "result" => Required(JobFp(w)) \subseteq objects[JobFp(w)] \cup {"result"}

StoredInv == TypeOK /\ CompletedMeansStored /\ HandlerSawObjects /\ WorkerHasJob /\ WorkerStored

\* Without losses in storage, derived objects are only ever added.
LEMMA ObjectsGrow ==
  ASSUME TypeOK, "artifactLoss" \notin Faults, [Next]_vars
  PROVE  \A f \in Fingerprint : objects[f] \subseteq objects'[f]
<1> USE DEF TypeOK, vars, storageVars, OnlyRedis, OnlyControl, OnlyRedisOf, OnlyWorker
<1>1. ASSUME NEW t \in Task, HandlerProceeds(t) PROVE UNCHANGED objects
  BY <1>1
    DEF HandlerProceeds, Elect, RemoveRaw, Upload, LookupCache, CheckArtifacts, ReuseArtifact,
        AliasCompletedCache, PurgeRegistration, GetLock, OwnerState, AttachToOwner,
        DropStaleEntry, AcquireLock, GetLockOwner, LockOwnerState, DeleteLock,
        AcquireLockAgain, PutTask, PutCache, PushJob, UndoLock, FailRegistration,
        ClearRegistration, Reject
<1>2. ASSUME NEW t \in Task, HandlerSuffers(t) PROVE UNCHANGED objects
  BY <1>2
    DEF HandlerSuffers, RedisCommandFails, StorageCallFails, ExpireFails, AcquireLockRetried,
        PushRetried, PushUnacknowledged, Abort
<1>3. ASSUME NEW w \in Worker, WorkerProceeds(w)
      PROVE  \A f \in Fingerprint : objects[f] \subseteq objects'[f]
  BY <1>3
    DEF WorkerProceeds, Store, Pop, CheckCache, CheckObjects, ApplyCachedCompletion,
        RejectBoolFields, RemoveRedundantRaw, DropUnusableEntry, MarkProcessingTask,
        MarkProcessingCache, DownloadRaw, RunService, UploadIndex, UploadMeta, UploadResult,
        CompleteTask, CompleteCache, ReleaseOwnedLock, FailTask, ClearOwnedCache
<1>4. ASSUME NEW w \in Worker, WorkerSuffers(w) PROVE UNCHANGED objects
  BY <1>4 DEF WorkerSuffers, ServiceRaises, CallRaises, ExpireRaises, HandlerRaises, WorkerCrashes
<1> QED BY <1>1, <1>2, <1>3, <1>4 DEF Next, AllDone, LeaseExpires, ArtifactLost

\* Every step preserves the invariant.
LEMMA StoredStep ==
  ASSUME StoredInv, TypeOK', "artifactLoss" \notin Faults, [Next]_vars,
         \A f \in Fingerprint : objects[f] \subseteq objects'[f]
  PROVE  StoredInv'
<1> USE ConstantsAssumption
    DEF StoredInv, CompletedMeansStored, HandlerSawObjects, WorkerHasJob, WorkerStored, TypeOK,
        ArtifactsAvailable, JobFp, vars, redisVars, storageVars, handlerVars, workerVars,
        NoEntry, ProcessingBy, CompletedBy, SetStatus, SetCache, SetLock
<1>1. ASSUME NEW t \in Task, HandlerProceeds(t) PROVE StoredInv'
  <2> USE DEF At, Go, OnlyRedis, OnlyControl
  <2>1. CASE Upload(t)
    BY <2>1 DEF Upload
  <2>2. CASE LookupCache(t)
    BY <2>2 DEF LookupCache
  <2>3. CASE CheckArtifacts(t)
    BY <2>3 DEF CheckArtifacts
  <2>4. CASE ReuseArtifact(t)
    BY <2>4 DEF ReuseArtifact, RemoveRaw
  <2>5. CASE AliasCompletedCache(t)
    BY <2>5 DEF AliasCompletedCache
  <2>6. CASE PurgeRegistration(t)
    BY <2>6 DEF PurgeRegistration
  <2>7. CASE GetLock(t)
    BY <2>7 DEF GetLock
  <2>8. CASE OwnerState(t)
    BY <2>8 DEF OwnerState
  <2>9. CASE AttachToOwner(t)
    BY <2>9 DEF AttachToOwner, RemoveRaw
  <2>10. CASE DropStaleEntry(t)
    BY <2>10 DEF DropStaleEntry
  <2>11. CASE AcquireLock(t)
    BY <2>11 DEF AcquireLock, Elect
  <2>12. CASE GetLockOwner(t)
    BY <2>12 DEF GetLockOwner
  <2>13. CASE LockOwnerState(t)
    BY <2>13 DEF LockOwnerState
  <2>14. CASE DeleteLock(t)
    BY <2>14 DEF DeleteLock
  <2>15. CASE AcquireLockAgain(t)
    BY <2>15 DEF AcquireLockAgain, Elect
  <2>16. CASE PutTask(t)
    BY <2>16 DEF PutTask
  <2>17. CASE PutCache(t)
    BY <2>17 DEF PutCache
  <2>18. CASE PushJob(t)
    BY <2>18 DEF PushJob, Enqueue
  <2>19. CASE UndoLock(t)
    BY <2>19 DEF UndoLock
  <2>20. CASE FailRegistration(t)
    BY <2>20 DEF FailRegistration
  <2>21. CASE ClearRegistration(t)
    BY <2>21 DEF ClearRegistration
  <2>22. CASE Reject(t)
    BY <2>22 DEF Reject, RemoveRaw
  <2> QED BY <1>1, <2>1, <2>2, <2>3, <2>4, <2>5, <2>6, <2>7, <2>8, <2>9, <2>10, <2>11, <2>12,
     <2>13, <2>14, <2>15, <2>16, <2>17, <2>18, <2>19, <2>20, <2>21, <2>22
    DEF HandlerProceeds
<1>2. ASSUME NEW t \in Task, HandlerSuffers(t) PROVE StoredInv'
  <2> USE DEF At, Go, OnlyRedis, OnlyControl, HandlerStep
  <2>1. CASE RedisCommandFails(t)
    BY <2>1 DEF RedisCommandFails, AfterRedisError, StorageStep
  <2>2. CASE StorageCallFails(t)
    BY <2>2 DEF StorageCallFails, AfterStorageError, StorageStep
  <2>3. CASE ExpireFails(t)
    <3>1. CASE At(t, "putCache")
      <4>1. /\ cache' = [cache EXCEPT ![FpOf[t]] = ProcessingBy(t)] /\ UNCHANGED task
            /\ UNCHANGED <<storageVars, workerVars>>
        BY <2>3, <3>1 DEF ExpireFails
      <4>2. pc' = [pc EXCEPT ![t] = "undo"]
        BY <2>3, <3>1 DEF ExpireFails, AfterRedisError
      <4> QED BY <4>1, <4>2, <3>1
    <3>2. CASE At(t, "putTask")
      <4>1. /\ task' = [task EXCEPT ![t] = "queued"] /\ UNCHANGED cache
            /\ UNCHANGED <<storageVars, workerVars>>
        BY <2>3, <3>2 DEF ExpireFails
      <4>2. pc' = [pc EXCEPT ![t] = "undo"]
        BY <2>3, <3>2 DEF ExpireFails, AfterRedisError
      <4> QED BY <4>1, <4>2, <3>2
    <3>3. CASE At(t, "alias")
      <4>1. /\ task' = [task EXCEPT ![t] = "completed"] /\ UNCHANGED cache
            /\ UNCHANGED <<storageVars, workerVars>>
        BY <2>3, <3>3 DEF ExpireFails
      <4>2. pc' = [pc EXCEPT ![t] = "reject"]
        BY <2>3, <3>3 DEF ExpireFails, AfterRedisError
      <4> QED BY <4>1, <4>2, <3>3
    <3> QED BY <2>3, <3>1, <3>2, <3>3 DEF ExpireFails
  <2>4. CASE AcquireLockRetried(t)
    BY <2>4 DEF AcquireLockRetried
  <2>5. CASE PushRetried(t)
    BY <2>5 DEF PushRetried, Enqueue
  <2>6. CASE PushUnacknowledged(t)
    BY <2>6 DEF PushUnacknowledged, Enqueue
  <2>7. CASE Abort(t)
    BY <2>7 DEF Abort
  <2> QED BY <1>2, <2>1, <2>2, <2>3, <2>4, <2>5, <2>6, <2>7 DEF HandlerSuffers
<1>3. ASSUME NEW w \in Worker, WorkerProceeds(w) PROVE StoredInv'
  <2> USE DEF Doing, Then, OnlyRedisOf, OnlyWorker
  <2>1. CASE Pop(w)
    BY <2>1 DEF Pop
  <2>2. CASE CheckCache(w)
    BY <2>2 DEF CheckCache
  <2>3. CASE CheckObjects(w)
    BY <2>3 DEF CheckObjects
  <2>4. CASE ApplyCachedCompletion(w)
    BY <2>4 DEF ApplyCachedCompletion
  <2>5. CASE RejectBoolFields(w)
    BY <2>5 DEF RejectBoolFields
  <2>6. CASE RemoveRedundantRaw(w)
    BY <2>6 DEF RemoveRedundantRaw
  <2>7. CASE DropUnusableEntry(w)
    BY <2>7 DEF DropUnusableEntry
  <2>8. CASE MarkProcessingTask(w)
    BY <2>8 DEF MarkProcessingTask
  <2>9. CASE MarkProcessingCache(w)
    BY <2>9 DEF MarkProcessingCache
  <2>10. CASE DownloadRaw(w)
    BY <2>10 DEF DownloadRaw
  <2>11. CASE RunService(w)
    BY <2>11 DEF RunService, QueueOf, Required
  <2>12. CASE UploadIndex(w)
    BY <2>12 DEF UploadIndex, Store
  <2>13. CASE UploadMeta(w)
    BY <2>13 DEF UploadMeta, Store, Required
  <2>14. CASE UploadResult(w)
    BY <2>14 DEF UploadResult, Store
  <2>15. CASE CompleteTask(w)
    BY <2>15 DEF CompleteTask
  <2>16. CASE CompleteCache(w)
    BY <2>16 DEF CompleteCache
  <2>17. CASE ReleaseOwnedLock(w)
    BY <2>17 DEF ReleaseOwnedLock, NextIteration
  <2>18. CASE FailTask(w)
    BY <2>18 DEF FailTask
  <2>19. CASE ClearOwnedCache(w)
    <3>1. CASE cache[JobFp(w)] = ProcessingBy(job[w])
      <4>1. /\ cache' = [cache EXCEPT ![JobFp(w)] = NoEntry]
            /\ wpc[w] = "clearCache" /\ wpc' = [wpc EXCEPT ![w] = "failRelease"]
            /\ UNCHANGED <<task, storageVars, handlerVars, job>>
        BY <2>19, <3>1 DEF ClearOwnedCache
      <4>2. CompletedMeansStored'
        BY <4>1
      <4>3. HandlerSawObjects' /\ WorkerHasJob'
        BY <4>1
      <4>4. WorkerStored'
        BY <4>1
      <4> QED BY <4>2, <4>3, <4>4
    <3>2. CASE cache[JobFp(w)] # ProcessingBy(job[w])
      BY <2>19, <3>2 DEF ClearOwnedCache
    <3> QED BY <3>1, <3>2
  <2> QED BY <1>3, <2>1, <2>2, <2>3, <2>4, <2>5, <2>6, <2>7, <2>8, <2>9, <2>10, <2>11, <2>12,
     <2>13, <2>14, <2>15, <2>16, <2>17, <2>18, <2>19
    DEF WorkerProceeds
<1>4. ASSUME NEW w \in Worker, WorkerSuffers(w) PROVE StoredInv'
  <2> USE DEF Doing, Then, OnlyRedisOf, OnlyWorker, TryStep, ExceptStep
  <2>1. CASE ServiceRaises(w)
    BY <2>1 DEF ServiceRaises
  <2>2. CASE CallRaises(w)
    BY <2>2 DEF CallRaises
  <2>3. CASE HandlerRaises(w)
    BY <2>3 DEF HandlerRaises, NextIteration
  <2>4. CASE WorkerCrashes(w)
    BY <2>4 DEF WorkerCrashes, NextIteration
  <2>5. CASE ExpireRaises(w)
    <3>1. /\ wpc' = [wpc EXCEPT ![w] = "failTask"]
          /\ UNCHANGED <<lock, objects, pc, job>>
      BY <2>5 DEF ExpireRaises
    <3>2. (HandlerSawObjects /\ WorkerHasJob /\ WorkerStored)'
      <4>1. wpc[w] # "idle"
        BY <2>5 DEF ExpireRaises
      <4> QED BY <3>1, <4>1
    <3>3. CASE wpc[w] \in {"markTask", "complTask", "apply"}
      <4>1. \E s \in {"processing", "completed"} :
              /\ task' = [task EXCEPT ![job[w]] = s] /\ cache' = cache
              /\ s = "completed" => ArtifactsAvailable(JobFp(w))
        BY <2>5, <3>3 DEF ExpireRaises
      <4> QED BY <3>1, <3>2, <4>1
    <3>4. CASE wpc[w] = "markCache"
      <4>1. cache' = [cache EXCEPT ![JobFp(w)] = ProcessingBy(job[w])] /\ task' = task
        BY <2>5, <3>4 DEF ExpireRaises
      <4> QED BY <3>1, <3>2, <4>1
    <3>5. CASE wpc[w] = "complCache"
      <4>1. cache' = [cache EXCEPT ![JobFp(w)] = CompletedBy(job[w])] /\ task' = task
        BY <2>5, <3>5 DEF ExpireRaises
      <4>2. ArtifactsAvailable(JobFp(w))
        BY <3>5
      <4>3. /\ \A f \in Fingerprint : cache'[f].status = "completed" =>
                   cache[f].status = "completed" \/ f = JobFp(w)
            /\ \A f \in Fingerprint : ArtifactsAvailable(f)' <=> ArtifactsAvailable(f)
        BY <3>1, <4>1
      <4>4. CompletedMeansStored'
        BY <4>1, <4>2, <4>3
      <4> QED BY <3>2, <4>4
    <3> QED BY <2>5, <3>3, <3>4, <3>5 DEF ExpireRaises
  <2> QED BY <1>4, <2>1, <2>2, <2>3, <2>4, <2>5 DEF WorkerSuffers
<1>5. ASSUME NEW f \in Fingerprint, LeaseExpires(f) PROVE StoredInv'
  BY <1>5 DEF LeaseExpires
<1>7. CASE UNCHANGED vars
  BY <1>7
<1> QED BY <1>1, <1>2, <1>3, <1>4, <1>5, <1>7 DEF Next, AllDone, ArtifactLost

\* The invariant holds initially.
LEMMA StoredInit == Init => StoredInv
  BY TypeInit, ConstantsAssumption
  DEF Init, SharedInit, GatewayInit, ConsumerInit, StoredInv, CompletedMeansStored,
      HandlerSawObjects, WorkerHasJob, WorkerStored, NoEntry

\* Unless storage loses objects, a task reported completed by any path, and a cache entry
\* offered for reuse, has all its derived objects: under every other fault.
THEOREM CompletedIsStored ==
  ASSUME "artifactLoss" \notin Faults
  PROVE  Spec => []CompletedMeansStored
<1>1. StoredInv /\ [Next]_vars => StoredInv'
  BY TypeStep, ObjectsGrow, StoredStep DEF StoredInv
<1>2. StoredInv => CompletedMeansStored
  BY DEF StoredInv
<1> QED BY StoredInit, <1>1, <1>2, PTL DEF Spec

-----------------------------------------------------------------------------
(* The lists.                                                              *)

\* A job waits in the list of its own operation.
InItsQueue ==
  \A o \in Op : \A i \in DOMAIN queue[o] : QueueOf(queue[o][i]) = o

\* RPUSH of one copy changes one list, at its end.
LEMMA EnqueueOne ==
  ASSUME TypeOK, NEW t \in Task, Enqueue(t, <<t>>)
  PROVE  LET q == QueueOf(t)
             n == Len(queue[q])
         IN  /\ q \in Op /\ n \in Nat
             /\ \A p \in Op \ {q} : queue'[p] = queue[p]
             /\ DOMAIN queue[q] = 1 .. n /\ DOMAIN queue'[q] = 1 .. n + 1
             /\ \A i \in 1 .. n : queue'[q][i] = queue[q][i]
             /\ queue'[q][n + 1] = t
             /\ \A u \in Task : InQueue(u)' <=> InQueue(u) \/ u = t
<1> DEFINE o == QueueOf(t)
<1> DEFINE n == Len(queue[o])
<1> USE ConstantsAssumption DEF InQueue, QueueOf
<1>1. o \in Op /\ queue[o] \in Seq(Task) /\ <<t>> \in Seq(Task)
  <2>1. o \in Op
    BY DEF QueueOf
  <2>2. queue[o] \in Seq(Task)
    <3> HIDE DEF o
    <3> QED BY <2>1 DEF TypeOK
  <2>3. <<t>> \in Seq(Task)
    OBVIOUS
  <2> QED BY <2>1, <2>2, <2>3
<1>2. /\ queue'[o] = queue[o] \o <<t>>
      /\ \A p \in Op \ {o} : queue'[p] = queue[p]
  BY <1>1 DEF TypeOK, Enqueue
<1>3. /\ DOMAIN queue'[o] = 1 .. n + 1
      /\ DOMAIN queue[o] = 1 .. n
      /\ \A i \in 1 .. n : queue'[o][i] = queue[o][i]
      /\ queue'[o][n + 1] = t
  BY <1>1, <1>2, ConcatProperties, Z3
<1>4. \A u \in Task : InQueue(u)' <=> InQueue(u) \/ u = t
  <2> TAKE u \in Task
  <2>1. CASE QueueOf(u) = o
    <3>1. InQueue(u)' <=> \E i \in 1 .. n + 1 : queue'[o][i] = u
      BY <2>1, <1>3
    <3>2. InQueue(u) <=> \E i \in 1 .. n : queue[o][i] = u
      BY <2>1, <1>3
    <3>3. n \in Nat
      BY <1>1
    <3> HIDE DEF n, o
    <3> QED BY <3>1, <3>2, <3>3, <1>3
  <2>2. CASE QueueOf(u) # o
    BY <1>2, <2>2
  <2> QED BY <2>1, <2>2
<1> QED BY <1>1, <1>2, <1>3, <1>4

\* BLPOP hands the head of one list to one worker.
LEMMA PopOne ==
  ASSUME TypeOK, InItsQueue, NoCopyInQueue, NEW w \in Worker, Pop(w)
  PROVE  \E o \in Op : \E t \in Task : \E n \in Nat \ {0} :
           /\ QueueOf(t) = o /\ InQueue(t)
           /\ job' = [job EXCEPT ![w] = t]
           /\ \A p \in Op \ {o} : queue'[p] = queue[p]
           /\ DOMAIN queue[o] = 1 .. n /\ DOMAIN queue'[o] = 1 .. n - 1
           /\ \A i \in 1 .. n - 1 : queue'[o][i] = queue[o][i + 1]
           /\ \A u \in Task : InQueue(u)' <=> InQueue(u) /\ u # t
<1> USE ConstantsAssumption DEF InQueue, QueueOf, InItsQueue, NoCopyInQueue
<1>1. PICK o \in Op : /\ queue[o] # <<>>
                      /\ job' = [job EXCEPT ![w] = Head(queue[o])]
                      /\ queue' = [queue EXCEPT ![o] = Tail(@)]
  BY DEF Pop
<1> DEFINE n == Len(queue[o])
<1> DEFINE t == Head(queue[o])
<1>2. queue[o] \in Seq(Task)
  BY DEF TypeOK
<1>3. /\ t \in Task /\ t = queue[o][1] /\ n \in Nat \ {0}
      /\ DOMAIN queue[o] = 1 .. n
      /\ queue'[o] = Tail(queue[o])
      /\ DOMAIN queue'[o] = 1 .. n - 1
      /\ \A i \in 1 .. n - 1 : queue'[o][i] = queue[o][i + 1]
  BY <1>1, <1>2, HeadTailProperties DEF TypeOK
<1>4. \A p \in Op \ {o} : queue'[p] = queue[p]
  BY <1>1 DEF TypeOK
<1>5. QueueOf(t) = o /\ InQueue(t)
  BY <1>3
<1>6. \A u \in Task : InQueue(u)' <=> InQueue(u) /\ u # t
  <2> TAKE u \in Task
  <2>1. CASE QueueOf(u) = o
    <3>1. InQueue(u)' <=> \E i \in 1 .. n - 1 : queue[o][i + 1] = u
      <4>1. InQueue(u)' <=> \E i \in 1 .. n - 1 : queue'[o][i] = u
        BY <2>1, <1>3
      <4> HIDE DEF n
      <4> QED BY <4>1, <1>3
    <3>2. InQueue(u) <=> \E i \in 1 .. n : queue[o][i] = u
      BY <2>1, <1>3
    <3>3. \A i \in 2 .. n : queue[o][i] # t
      BY <1>3
    <3> HIDE DEF n, t
    <3>4. ASSUME NEW i \in 1 .. n, queue[o][i] = u, u # t
          PROVE  \E k \in 1 .. n - 1 : queue[o][k + 1] = u
      <4>1. i # 1
        BY <1>3, <3>4
      <4>2. i - 1 \in 1 .. n - 1 /\ (i - 1) + 1 = i
        BY <1>3, <4>1
      <4> QED BY <3>4, <4>2
    <3>5. ASSUME NEW k \in 1 .. n - 1, queue[o][k + 1] = u
          PROVE  u # t /\ \E i \in 1 .. n : queue[o][i] = u
      <4>1. k + 1 \in 2 .. n /\ k + 1 \in 1 .. n
        BY <1>3
      <4> QED BY <3>3, <3>5, <4>1
    <3> QED BY <3>1, <3>2, <3>4, <3>5
  <2>2. CASE QueueOf(u) # o
    BY <1>4, <1>5, <2>2
  <2> QED BY <2>1, <2>2
<1> HIDE DEF t, n, InQueue, QueueOf, InItsQueue, NoCopyInQueue
<1>7. job' = [job EXCEPT ![w] = t]
  BY <1>1 DEF t
<1> QED BY <1>3, <1>4, <1>5, <1>6, <1>7

-----------------------------------------------------------------------------
(* Who touches a list.                                                     *)

\* A step of t's handler that touches no list, t not having finished with its push.
QuietHandler(t) ==
  /\ UNCHANGED <<queue, job>>
  /\ pc[t] # "enqueued"
  /\ \E s \in (HandlerStep \cup Answer) : pc' = [pc EXCEPT ![t] = s]

\* Every step of a handler but the push is one.
LEMMA HandlerSteps ==
  ASSUME TypeOK, "lostReply" \notin Faults, NEW t \in Task
  PROVE  /\ HandlerProceeds(t) => PushJob(t) \/ QuietHandler(t)
         /\ HandlerSuffers(t) => QuietHandler(t)
<1> USE DEF QuietHandler, At, Go, OnlyRedis, OnlyControl, redisVars, storageVars, workerVars,
            HandlerStep, Answer
<1>1. ASSUME HandlerProceeds(t) PROVE PushJob(t) \/ QuietHandler(t)
  BY <1>1 DEF HandlerProceeds, Upload, LookupCache, CheckArtifacts, ReuseArtifact,
     AliasCompletedCache, PurgeRegistration, GetLock, OwnerState, AttachToOwner,
     DropStaleEntry, AcquireLock, GetLockOwner, LockOwnerState, DeleteLock, AcquireLockAgain,
     PutTask, PutCache, UndoLock, FailRegistration, ClearRegistration, Reject, Elect, RemoveRaw
<1>2. ASSUME HandlerSuffers(t) PROVE QuietHandler(t)
  BY <1>2 DEF HandlerSuffers, RedisCommandFails, StorageCallFails, ExpireFails,
     AcquireLockRetried, PushRetried, PushUnacknowledged, Abort, AfterRedisError,
     AfterStorageError, StorageStep
<1> QED BY <1>1, <1>2

\* A worker takes from a list only by popping, and otherwise only lets go of its job.
LEMMA WorkerSteps ==
  ASSUME TypeOK, NEW w \in Worker, WorkerProceeds(w) \/ WorkerSuffers(w)
  PROVE  /\ pc' = pc
         /\ \/ Pop(w)
            \/ UNCHANGED <<queue, job>>
            \/ queue' = queue /\ job' = [job EXCEPT ![w] = NoTask]
<1> USE DEF Doing, Then, OnlyRedisOf, OnlyWorker, redisVars, storageVars, handlerVars,
            NextIteration
<1>1. CASE WorkerProceeds(w)
  BY <1>1 DEF WorkerProceeds, Pop, CheckCache, CheckObjects, ApplyCachedCompletion,
     RejectBoolFields, RemoveRedundantRaw, DropUnusableEntry, MarkProcessingTask,
     MarkProcessingCache, DownloadRaw, RunService, UploadIndex, UploadMeta, UploadResult,
     CompleteTask, CompleteCache, ReleaseOwnedLock, FailTask, ClearOwnedCache, Store
<1>2. CASE WorkerSuffers(w)
  BY <1>2 DEF WorkerSuffers, ServiceRaises, CallRaises, ExpireRaises, HandlerRaises, WorkerCrashes
<1> QED BY <1>1, <1>2

-----------------------------------------------------------------------------
(* Each job is delivered once.                                             *)

\* A job in a list or on a worker was pushed by a handler that has finished.
PushedByEnqueued ==
  \A t \in Task : InQueue(t) \/ OnWorker(t) => pc[t] = "enqueued"

OnceInv == TypeOK /\ PushedByEnqueued /\ InItsQueue /\ DeliveredOnce

\* Every step preserves the invariant.
LEMMA OnceStep ==
  ASSUME OnceInv, TypeOK', "lostReply" \notin Faults, [Next]_vars
  PROVE  OnceInv'
<1> USE ConstantsAssumption
    DEF OnceInv, PushedByEnqueued, DeliveredOnce, InItsQueue, NoCopyInQueue, NoCopyOnWorker,
        NoSharedJob, InQueue, OnWorker, QueueOf
<1>1. ASSUME NEW t \in Task, QuietHandler(t) PROVE OnceInv'
  BY <1>1 DEF QuietHandler, TypeOK
<1>2. ASSUME NEW t \in Task, PushJob(t) PROVE OnceInv'
  <2> DEFINE o == QueueOf(t)
  <2> DEFINE n == Len(queue[o])
  <2>1. Enqueue(t, <<t>>) /\ pc' = [pc EXCEPT ![t] = "enqueued"] /\ pc[t] = "push" /\ job' = job
    BY <1>2 DEF PushJob, At, Go, OnlyRedis, workerVars
  <2>2. /\ o \in Op /\ n \in Nat
        /\ \A p \in Op \ {o} : queue'[p] = queue[p]
        /\ DOMAIN queue[o] = 1 .. n /\ DOMAIN queue'[o] = 1 .. n + 1
        /\ \A i \in 1 .. n : queue'[o][i] = queue[o][i]
        /\ queue'[o][n + 1] = t
    <3> HIDE DEF InQueue, QueueOf
    <3> QED BY <2>1, EnqueueOne
  <2>3. \A u \in Task : InQueue(u)' <=> InQueue(u) \/ u = t
    <3> HIDE DEF InQueue, QueueOf
    <3> QED BY <2>1, EnqueueOne
  <2>4. ~InQueue(t) /\ ~OnWorker(t)
    BY <2>1
  <2>5. PushedByEnqueued'
    <3>1. \A u \in Task : OnWorker(u)' => OnWorker(u)
      BY <2>1
    <3>2. pc'[t] = "enqueued" /\ \A u \in Task \ {t} : pc'[u] = pc[u]
      BY <2>1 DEF TypeOK
    <3> HIDE DEF InQueue, OnWorker
    <3> QED BY <2>3, <3>1, <3>2
  <2>6. NoCopyOnWorker' /\ NoSharedJob'
    <3> HIDE DEF InQueue
    <3> QED BY <2>1, <2>3, <2>4
  <2>7. InItsQueue'
    <3> SUFFICES ASSUME NEW p \in Op, NEW i \in DOMAIN queue'[p]
                 PROVE  QueueOf(queue'[p][i]) = p
      OBVIOUS
    <3>1. CASE p = o
      BY <2>2, <3>1
    <3>2. CASE p # o
      BY <2>2, <3>2
    <3> QED BY <3>1, <3>2
  <2>8. NoCopyInQueue'
    <3> SUFFICES ASSUME NEW p \in Op, NEW i \in DOMAIN queue'[p], NEW j \in DOMAIN queue'[p],
                        queue'[p][i] = queue'[p][j]
                 PROVE  i = j
      OBVIOUS
    <3>1. CASE p = o
      <4>1. \A k \in 1 .. n : queue[o][k] # t
        BY <2>2, <2>4
      <4>2. i \in 1 .. n + 1 /\ j \in 1 .. n + 1
        BY <2>2, <3>1
      <4> QED BY <2>2, <3>1, <4>1, <4>2
    <3>2. CASE p # o
      BY <2>2, <3>2
    <3> QED BY <3>1, <3>2
  <2> QED BY <2>5, <2>6, <2>7, <2>8
<1>3. ASSUME NEW w \in Worker, Pop(w) PROVE OnceInv'
  <2>1. PICK o \in Op, t \in Task, n \in Nat \ {0} :
           /\ QueueOf(t) = o /\ InQueue(t)
           /\ job' = [job EXCEPT ![w] = t]
           /\ \A p \in Op \ {o} : queue'[p] = queue[p]
           /\ DOMAIN queue[o] = 1 .. n /\ DOMAIN queue'[o] = 1 .. n - 1
           /\ \A i \in 1 .. n - 1 : queue'[o][i] = queue[o][i + 1]
           /\ \A u \in Task : InQueue(u)' <=> InQueue(u) /\ u # t
    <3> HIDE DEF InQueue, QueueOf, InItsQueue, NoCopyInQueue
    <3> QED BY <1>3, PopOne
  <2>2. pc' = pc
    BY <1>3 DEF Pop, handlerVars
  <2>3. ~OnWorker(t)
    BY <2>1
  <2>4. \A u \in Task : OnWorker(u)' => OnWorker(u) \/ u = t
    BY <2>1 DEF TypeOK
  <2>5. PushedByEnqueued' /\ NoCopyOnWorker'
    <3> HIDE DEF InQueue, OnWorker
    <3> QED BY <2>1, <2>2, <2>3, <2>4
  <2>6. NoSharedJob'
    BY <2>1, <2>3 DEF TypeOK
  <2>7. InItsQueue' /\ NoCopyInQueue'
    <3> SUFFICES ASSUME NEW p \in Op
                 PROVE  /\ \A i \in DOMAIN queue'[p] : QueueOf(queue'[p][i]) = p
                        /\ \A i, j \in DOMAIN queue'[p] : queue'[p][i] = queue'[p][j] => i = j
      OBVIOUS
    <3>1. CASE p = o
      <4>1. \A i \in 1 .. n - 1 : i + 1 \in 1 .. n
        BY <2>1
      <4>2. \A i \in 1 .. n - 1 : QueueOf(queue'[o][i]) = o
        BY <2>1, <4>1
      <4>3. \A i, j \in 1 .. n - 1 : queue'[o][i] = queue'[o][j] => i = j
        <5> SUFFICES ASSUME NEW i \in 1 .. n - 1, NEW j \in 1 .. n - 1,
                            queue'[o][i] = queue'[o][j]
                     PROVE  i = j
          OBVIOUS
        <5>1. queue[o][i + 1] = queue[o][j + 1]
          BY <2>1
        <5>2. i + 1 = j + 1
          BY <2>1, <4>1, <5>1
        <5> QED BY <2>1, <5>2
      <4> QED BY <2>1, <3>1, <4>2, <4>3
    <3>2. CASE p # o
      BY <2>1, <3>2
    <3> QED BY <3>1, <3>2
  <2> QED BY <2>5, <2>6, <2>7
<1>4. ASSUME NEW w \in Worker, pc' = pc, queue' = queue, job' = [job EXCEPT ![w] = NoTask]
      PROVE  OnceInv'
  <2>1. \A u \in Task : /\ InQueue(u)' <=> InQueue(u)
                        /\ OnWorker(u)' => OnWorker(u)
    BY <1>4 DEF TypeOK
  <2>2. NoSharedJob'
    BY <1>4 DEF TypeOK
  <2>3. PushedByEnqueued' /\ NoCopyOnWorker'
    <3> HIDE DEF InQueue, OnWorker
    <3> QED BY <1>4, <2>1
  <2>4. InItsQueue' /\ NoCopyInQueue'
    BY <1>4
  <2> QED BY <2>2, <2>3, <2>4
<1>5. ASSUME UNCHANGED <<pc, queue, job>> PROVE OnceInv'
  BY <1>5
<1>6. ASSUME NEW t \in Task, HandlerProceeds(t) \/ HandlerSuffers(t) PROVE OnceInv'
  BY <1>1, <1>2, <1>6, HandlerSteps
<1>7. ASSUME NEW w \in Worker, WorkerProceeds(w) \/ WorkerSuffers(w) PROVE OnceInv'
  BY <1>3, <1>4, <1>5, <1>7, WorkerSteps
<1> QED BY <1>5, <1>6, <1>7
  DEF Next, AllDone, LeaseExpires, ArtifactLost, vars, redisVars, handlerVars, workerVars

\* The invariant holds initially.
LEMMA OnceInit == Init => OnceInv
  BY TypeInit, ConstantsAssumption
  DEF Init, SharedInit, GatewayInit, ConsumerInit, OnceInv, PushedByEnqueued, DeliveredOnce,
      InItsQueue, NoCopyInQueue, NoCopyOnWorker, NoSharedJob, InQueue, OnWorker, QueueOf

\* The invariant holds in every reachable state.
LEMMA OnceInvariant ==
  ASSUME "lostReply" \notin Faults
  PROVE  Spec => []OnceInv
<1>1. OnceInv /\ [Next]_vars => OnceInv'
  BY TypeStep, OnceStep DEF OnceInv
<1> QED BY OnceInit, <1>1, PTL DEF Spec

\* Unless a push is repeated or falsely reported as failed, every job is in one place at a
\* time: requests, fingerprints, workers, crashes and all other faults notwithstanding.
THEOREM JobDeliveredOnce ==
  ASSUME "lostReply" \notin Faults
  PROVE  Spec => []DeliveredOnce
<1>1. OnceInv => DeliveredOnce
  BY DEF OnceInv
<1> QED BY OnceInvariant, <1>1, PTL

-----------------------------------------------------------------------------
(* A job finds its input.                                                  *)

\* The points from which a handler may still push its job.
BeforePush ==
  {"lookup", "stat", "reuse", "purge", "getLock", "ownerState", "attach", "dropStale", "setnx",
   "getOwner", "ownerStateAgain", "delLock", "setnxAgain", "putTask", "putCache", "push"}

InputInv ==
  \A t \in Task \ DirectText : pc[t] \in BeforePush \/ InQueue(t) => t \in raw

\* No handler removes an upload its own job may need, nor touches another's.
LEMMA HandlerKeepsInput ==
  ASSUME OnceInv, InputInv, "lostReply" \notin Faults, NEW t \in Task,
         HandlerProceeds(t) \/ HandlerSuffers(t)
  PROVE  InputInv'
<1> USE DEF At, Go, OnlyRedis, OnlyControl, redisVars, storageVars, workerVars, BeforePush,
            InputInv, OnceInv, TypeOK
<1>1. CASE PushJob(t)
  <2>1. \A u \in Task : InQueue(u)' <=> InQueue(u) \/ u = t
    BY <1>1, EnqueueOne DEF PushJob
  <2> QED BY <1>1, <2>1 DEF PushJob
<1>2. ASSUME HandlerProceeds(t), ~PushJob(t) PROVE InputInv'
  <2>1. \A u \in Task : InQueue(u)' <=> InQueue(u)
    BY <1>2, HandlerSteps DEF QuietHandler, InQueue
  <2>2. pc[t] # "enqueued"
    BY <1>2, HandlerSteps DEF QuietHandler
  <2>3. ~InQueue(t)
    BY <2>2 DEF PushedByEnqueued
  <2> QED BY <1>2, <2>1, <2>3
    DEF HandlerProceeds, Upload, LookupCache, CheckArtifacts, ReuseArtifact,
     AliasCompletedCache, PurgeRegistration, GetLock, OwnerState, AttachToOwner,
     DropStaleEntry, AcquireLock, GetLockOwner, LockOwnerState, DeleteLock, AcquireLockAgain,
     PutTask, PutCache, UndoLock, FailRegistration, ClearRegistration, Reject, Elect, RemoveRaw
<1>3. ASSUME HandlerSuffers(t) PROVE InputInv'
  <2>1. \A u \in Task : InQueue(u)' <=> InQueue(u)
    BY <1>3, HandlerSteps DEF QuietHandler, InQueue
  <2> QED BY <1>3, <2>1
    DEF HandlerSuffers, RedisCommandFails, StorageCallFails, ExpireFails,
     AcquireLockRetried, PushRetried, PushUnacknowledged, Abort, AfterRedisError,
     AfterStorageError, StorageStep, HandlerStep
<1> QED BY <1>1, <1>2, <1>3

\* No worker removes an upload that a waiting job needs: the one it removes is its own job's.
LEMMA WorkerKeepsInput ==
  ASSUME OnceInv, WorkerHasJob, InputInv, NEW w \in Worker,
         WorkerProceeds(w) \/ WorkerSuffers(w)
  PROVE  InputInv'
<1>1. pc' = pc
  BY WorkerSteps DEF OnceInv
<1>2. \A u \in Task : InQueue(u)' => InQueue(u)
  <2>1. CASE Pop(w)
    BY <2>1, PopOne DEF OnceInv, DeliveredOnce
  <2>2. CASE queue' = queue
    BY <2>2 DEF InQueue
  <2> QED BY <2>1, <2>2, WorkerSteps DEF OnceInv
<1>3. CASE RemoveRedundantRaw(w)
  <2>1. OnWorker(job[w]) /\ job[w] \in Task /\ raw' = raw \ {job[w]}
    BY <1>3 DEF RemoveRedundantRaw, Doing, WorkerHasJob, OnWorker, OnceInv, TypeOK
  <2>2. ~InQueue(job[w]) /\ pc[job[w]] = "enqueued"
    BY <2>1 DEF OnceInv, DeliveredOnce, NoCopyOnWorker, PushedByEnqueued
  <2> QED BY <1>1, <1>2, <2>1, <2>2 DEF InputInv, BeforePush
<1>4. ASSUME ~RemoveRedundantRaw(w) PROVE raw' = raw
  <2> USE DEF OnlyRedisOf, OnlyWorker, storageVars
  <2>1. CASE WorkerProceeds(w)
    BY <1>4, <2>1 DEF WorkerProceeds, Pop, CheckCache, CheckObjects, ApplyCachedCompletion,
     RejectBoolFields, DropUnusableEntry, MarkProcessingTask,
     MarkProcessingCache, DownloadRaw, RunService, UploadIndex, UploadMeta, UploadResult,
     CompleteTask, CompleteCache, ReleaseOwnedLock, FailTask, ClearOwnedCache, Store
  <2>2. CASE WorkerSuffers(w)
    BY <2>2 DEF WorkerSuffers, ServiceRaises, CallRaises, ExpireRaises, HandlerRaises, WorkerCrashes
  <2> QED BY <2>1, <2>2
<1> QED BY <1>1, <1>2, <1>3, <1>4 DEF InputInv

\* A worker in the middle of an iteration keeps its job to the end of it.
LEMMA WorkerHasJobStep ==
  ASSUME TypeOK, WorkerHasJob, [Next]_vars
  PROVE  WorkerHasJob'
<1> USE DEF WorkerHasJob, TypeOK
<1>1. ASSUME NEW t \in Task, HandlerProceeds(t) \/ HandlerSuffers(t) PROVE UNCHANGED workerVars
  <2> USE DEF OnlyRedis, OnlyControl
  <2>1. CASE HandlerProceeds(t)
    BY <2>1 DEF HandlerProceeds, Upload, LookupCache, CheckArtifacts, ReuseArtifact,
     AliasCompletedCache, PurgeRegistration, GetLock, OwnerState, AttachToOwner,
     DropStaleEntry, AcquireLock, GetLockOwner, LockOwnerState, DeleteLock, AcquireLockAgain,
     PutTask, PutCache, PushJob, UndoLock, FailRegistration, ClearRegistration, Reject, Elect,
     RemoveRaw
  <2>2. CASE HandlerSuffers(t)
    BY <2>2 DEF HandlerSuffers, RedisCommandFails, StorageCallFails, ExpireFails,
     AcquireLockRetried, PushRetried, PushUnacknowledged, Abort
  <2> QED BY <1>1, <2>1, <2>2
<1>2. ASSUME NEW w \in Worker, WorkerProceeds(w) \/ WorkerSuffers(w) PROVE WorkerHasJob'
  <2> USE DEF Doing, Then, OnlyRedisOf, OnlyWorker, NextIteration, TryStep, ExceptStep
  <2>1. CASE Pop(w)
    <3>1. /\ wpc' = [wpc EXCEPT ![w] = "check"]
          /\ \E o \in Op : queue[o] # <<>> /\ job' = [job EXCEPT ![w] = Head(queue[o])]
      BY <2>1 DEF Pop
    <3> QED BY <3>1, HeadTailProperties
  <2>2. CASE WorkerProceeds(w) /\ ~Pop(w)
    BY <2>2 DEF WorkerProceeds, CheckCache, CheckObjects, ApplyCachedCompletion,
     RejectBoolFields, RemoveRedundantRaw, DropUnusableEntry, MarkProcessingTask,
     MarkProcessingCache, DownloadRaw, RunService, UploadIndex, UploadMeta, UploadResult,
     CompleteTask, CompleteCache, ReleaseOwnedLock, FailTask, ClearOwnedCache, Store
  <2>3. CASE WorkerSuffers(w)
    BY <2>3 DEF WorkerSuffers, ServiceRaises, CallRaises, ExpireRaises, HandlerRaises, WorkerCrashes
  <2> QED BY <1>2, <2>1, <2>2, <2>3
<1>3. ASSUME UNCHANGED workerVars PROVE WorkerHasJob'
  BY <1>3 DEF workerVars
<1> QED BY <1>1, <1>2, <1>3
  DEF Next, AllDone, LeaseExpires, ArtifactLost, vars, workerVars

\* Every step preserves the invariant.
LEMMA InputStep ==
  ASSUME OnceInv, WorkerHasJob, InputInv, "lostReply" \notin Faults, [Next]_vars
  PROVE  InputInv'
<1>1. ASSUME NEW t \in Task, HandlerProceeds(t) \/ HandlerSuffers(t) PROVE InputInv'
  BY <1>1, HandlerKeepsInput
<1>2. ASSUME NEW w \in Worker, WorkerProceeds(w) \/ WorkerSuffers(w) PROVE InputInv'
  BY <1>2, WorkerKeepsInput
<1>3. ASSUME UNCHANGED <<pc, queue, raw>> PROVE InputInv'
  BY <1>3 DEF InputInv, InQueue
<1> QED BY <1>1, <1>2, <1>3
  DEF Next, AllDone, LeaseExpires, ArtifactLost, vars, redisVars, storageVars, handlerVars

\* Unless a push is repeated or falsely reported as failed, no handler and no worker deletes
\* an upload that a waiting job is still to download, whatever else fails.
THEOREM JobInputKept ==
  ASSUME "lostReply" \notin Faults
  PROVE  Spec => []JobKeepsItsInput
<1>1. Init => OnceInv /\ WorkerHasJob /\ InputInv
  BY OnceInit, ConstantsAssumption
  DEF Init, SharedInit, GatewayInit, ConsumerInit, WorkerHasJob, InputInv, BeforePush, InQueue,
      QueueOf
<1>2. OnceInv /\ WorkerHasJob /\ InputInv /\ [Next]_vars
        => (OnceInv /\ WorkerHasJob /\ InputInv)'
  BY TypeStep, OnceStep, WorkerHasJobStep, InputStep DEF OnceInv
<1>3. InputInv => JobKeepsItsInput
  BY DEF InputInv, JobKeepsItsInput
<1> QED BY <1>1, <1>2, <1>3, PTL DEF Spec
=============================================================================
