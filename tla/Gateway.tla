------------------------------- MODULE Gateway -------------------------------
(***************************************************************************)
(* The ingestion handlers of the gateway and resolveOrRegisterProcessing,  *)
(* one action per command sent to Redis or to storage: between two         *)
(* commands of one handler, other handlers and the workers run.            *)
(*                                                                         *)
(* pc[t] names the command the handler of request t issues next.  A        *)
(* handler ends in one of the answers                                      *)
(*   enqueued  202, its own task id, the job pushed                        *)
(*   attached  202, owner[t]'s task id, "already being processed"          *)
(*   cached    200, its own task id, aliased to the completed artifact     *)
(*   rejected  500                                                         *)
(*   gone      no answer: the client or the gateway went away              *)
(***************************************************************************)
EXTENDS SharedState

Answer == {"enqueued", "attached", "cached", "rejected", "gone"}

HandlerStep ==
  {"upload", "lookup", "stat", "reuse", "alias", "purge", "getLock", "ownerState",
   "attach", "dropStale", "setnx", "getOwner", "ownerStateAgain", "delLock", "setnxAgain",
   "putTask", "putCache", "push", "undo", "regFail", "regClear", "reject"}

GatewayInit ==
  /\ pc = [t \in Task |-> "upload"]
  /\ owner = [t \in Task |-> NoTask]

At(t, step) == pc[t] = step
Go(t, step) == pc' = [pc EXCEPT ![t] = step]

\* A command that touches neither storage nor anything a worker holds.
OnlyRedis == UNCHANGED <<storageVars, owner, workerVars>>

\* What a handler does without a command: only its own control moves.
OnlyControl == UNCHANGED <<redisVars, storageVars, owner, workerVars>>

-----------------------------------------------------------------------------
(* The handler: the upload of the raw input, hashed as it streams.         *)

Upload(t) ==
  /\ At(t, "upload")
  /\ raw' = IF t \in DirectText THEN raw ELSE raw \cup {t}
  /\ Go(t, "lookup")
  /\ UNCHANGED <<redisVars, objects, owner, workerVars>>

-----------------------------------------------------------------------------
(* resolveOrRegisterProcessing: look up, then reuse, attach or clean up.   *)

LookupCache(t) ==
  /\ At(t, "lookup")
  /\ LET entry == cache[FpOf[t]] IN
       Go(t, CASE entry.status = "completed"  -> "stat"
               [] entry.status = "processing" -> "getLock"
               [] OTHER                       -> "setnx")
  /\ OnlyControl

CheckArtifacts(t) ==
  /\ At(t, "stat")
  /\ Go(t, IF ArtifactsAvailable(FpOf[t]) THEN "reuse" ELSE "purge")
  /\ OnlyControl

\* removeRawObject: the upload is redundant, or the request failed.
RemoveRaw(t) ==
  /\ raw' = raw \ {t}
  /\ UNCHANGED <<redisVars, objects, owner, workerVars>>

ReuseArtifact(t) == At(t, "reuse") /\ Go(t, "alias") /\ RemoveRaw(t)

AliasCompletedCache(t) ==
  /\ At(t, "alias")
  /\ SetStatus(t, "completed")
  /\ Go(t, "cached")
  /\ UNCHANGED <<cache, lock, queue>> /\ OnlyRedis

\* DEL of the cache entry and of the lock, whoever owns them by now.
PurgeRegistration(t) ==
  /\ At(t, "purge")
  /\ SetCache(FpOf[t], NoEntry)
  /\ SetLock(FpOf[t], NoTask)
  /\ Go(t, "setnx")
  /\ UNCHANGED <<task, queue>> /\ OnlyRedis

GetLock(t) ==
  /\ At(t, "getLock")
  /\ owner' = [owner EXCEPT ![t] = lock[FpOf[t]]]
  /\ Go(t, IF lock[FpOf[t]] = NoTask THEN "dropStale" ELSE "ownerState")
  /\ UNCHANGED <<redisVars, storageVars, workerVars>>

\* existingProcessingResolution: an owner without a task record counts as processing.
OwnerState(t) ==
  /\ At(t, "ownerState")
  /\ Go(t, IF task[owner[t]] = "failed" THEN "purge" ELSE "attach")
  /\ OnlyControl

\* Mutant of AttachToOwner: the redundant upload stays.
AttachKeepingRaw(t) == At(t, "attach") /\ Go(t, "attached") /\ OnlyControl

AttachToOwner(t) == At(t, "attach") /\ Go(t, "attached") /\ RemoveRaw(t)

DropStaleEntry(t) ==
  /\ At(t, "dropStale")
  /\ SetCache(FpOf[t], NoEntry)
  /\ Go(t, "setnx")
  /\ UNCHANGED <<lock, task, queue>> /\ OnlyRedis

-----------------------------------------------------------------------------
(* resolveOrRegisterProcessing: the election and its recovery path.        *)

\* Mutant of Elect: SET without NX.
ElectUnconditionally(t, won, lost) ==
  /\ SetLock(FpOf[t], t) /\ Go(t, won)
  /\ UNCHANGED <<cache, task, queue>> /\ OnlyRedis

\* SET NX by t, going on to won or to lost.
Elect(t, won, lost) ==
  /\ IF lock[FpOf[t]] = NoTask
       THEN SetLock(FpOf[t], t) /\ Go(t, won)
       ELSE UNCHANGED lock /\ Go(t, lost)
  /\ UNCHANGED <<cache, task, queue>> /\ OnlyRedis

\* Mutant of AcquireLock: a lost election is an error.
AcquireLockOrReject(t) == At(t, "setnx") /\ Elect(t, "putTask", "reject")

AcquireLock(t) == At(t, "setnx") /\ Elect(t, "putTask", "getOwner")

\* GET of the lock that was not acquired, then the owner's state or the removal.
GetLockOwner(t) ==
  /\ At(t, "getOwner")
  /\ owner' = [owner EXCEPT ![t] = lock[FpOf[t]]]
  /\ Go(t, IF lock[FpOf[t]] = NoTask THEN "delLock" ELSE "ownerStateAgain")
  /\ UNCHANGED <<redisVars, storageVars, workerVars>>

LockOwnerState(t) ==
  /\ At(t, "ownerStateAgain")
  /\ Go(t, IF task[owner[t]] = "failed" THEN "delLock" ELSE "attach")
  /\ OnlyControl

\* DEL of the lock read a moment ago as absent or failed, whoever owns it by now.
DeleteLock(t) ==
  /\ At(t, "delLock")
  /\ SetLock(FpOf[t], NoTask)
  /\ Go(t, "setnxAgain")
  /\ UNCHANGED <<cache, task, queue>> /\ OnlyRedis

AcquireLockAgain(t) == At(t, "setnxAgain") /\ Elect(t, "putTask", "reject")

-----------------------------------------------------------------------------
(* Registration by the elected owner, and the push of its job.             *)

PutTask(t) ==
  /\ At(t, "putTask")
  /\ SetStatus(t, "queued")
  /\ Go(t, "putCache")
  /\ UNCHANGED <<cache, lock, queue>> /\ OnlyRedis

PutCache(t) ==
  /\ At(t, "putCache")
  /\ SetCache(FpOf[t], ProcessingBy(t))
  /\ Go(t, "push")
  /\ UNCHANGED <<lock, task, queue>> /\ OnlyRedis

Enqueue(t, copies) == queue' = [queue EXCEPT ![QueueOf(t)] = @ \o copies]

\* Mutant of PushJob: the job never reaches the list.
PushNothing(t) == At(t, "push") /\ Go(t, "enqueued") /\ OnlyControl

\* Mutant of PushJob: the upload is cleaned up when the request ends.
PushDroppingRaw(t) ==
  /\ At(t, "push")
  /\ Enqueue(t, <<t>>)
  /\ raw' = raw \ {t}
  /\ Go(t, "enqueued")
  /\ UNCHANGED <<cache, lock, task, objects, owner, workerVars>>

PushJob(t) ==
  /\ At(t, "push")
  /\ Enqueue(t, <<t>>)
  /\ Go(t, "enqueued")
  /\ UNCHANGED <<cache, lock, task>> /\ OnlyRedis

-----------------------------------------------------------------------------
(* Error paths.                                                            *)

\* The DEL of the lock after a registration write returned an error.
UndoLock(t) ==
  /\ At(t, "undo")
  /\ SetLock(FpOf[t], NoTask)
  /\ Go(t, "reject")
  /\ UNCHANGED <<cache, task, queue>> /\ OnlyRedis

\* failRegisteredProcessing, first the task's status and then both keys.
FailRegistration(t) ==
  /\ At(t, "regFail")
  /\ SetStatus(t, "failed")
  /\ Go(t, "regClear")
  /\ UNCHANGED <<cache, lock, queue>> /\ OnlyRedis

ClearRegistration(t) ==
  /\ At(t, "regClear")
  /\ SetCache(FpOf[t], NoEntry)
  /\ SetLock(FpOf[t], NoTask)
  /\ Go(t, "reject")
  /\ UNCHANGED <<task, queue>> /\ OnlyRedis

Reject(t) == At(t, "reject") /\ Go(t, "rejected") /\ RemoveRaw(t)

\* Where a handler goes when the Redis command of its step returns an error.
AfterRedisError(step) ==
  CASE step \in {"lookup", "alias", "purge", "getLock", "dropStale", "setnx", "getOwner",
                 "delLock", "setnxAgain", "undo", "regClear"} -> "reject"
    [] step \in {"ownerState", "ownerStateAgain"}             -> "attach"
    [] step \in {"putTask", "putCache"}                       -> "undo"
    [] step = "push"                                          -> "regFail"
    [] step = "regFail"                                       -> "regClear"

\* The failed removals are logged and otherwise ignored.
AfterStorageError(step) ==
  CASE step = "upload" -> "rejected"
    [] step = "stat"   -> "reject"
    [] step = "reuse"  -> "alias"
    [] step = "attach" -> "attached"
    [] step = "reject" -> "rejected"

StorageStep == {"upload", "stat", "reuse", "attach", "reject"}

RedisCommandFails(t) ==
  /\ "redisError" \in Faults
  /\ pc[t] \in HandlerStep \ StorageStep
  /\ Go(t, AfterRedisError(pc[t]))
  /\ OnlyControl

StorageCallFails(t) ==
  /\ "storageError" \in Faults
  /\ pc[t] \in StorageStep
  /\ Go(t, AfterStorageError(pc[t]))
  /\ OnlyControl

\* setHashWithTTL: the HSET succeeds, the EXPIRE returns an error.
ExpireFails(t) ==
  /\ "redisError" \in Faults
  /\ pc[t] \in {"alias", "putTask", "putCache"}
  /\ IF At(t, "putCache")
       THEN SetCache(FpOf[t], ProcessingBy(t)) /\ UNCHANGED task
       ELSE SetStatus(t, IF At(t, "alias") THEN "completed" ELSE "queued") /\ UNCHANGED cache
  /\ Go(t, AfterRedisError(pc[t]))
  /\ UNCHANGED <<lock, queue>> /\ OnlyRedis

(***************************************************************************)
(* go-redis retries a command whose connection broke.  SET NX executed     *)
(* before the break answers the retry with "not acquired"; an RPUSH        *)
(* executed before it pushes a second copy, or fails for good although the *)
(* job is in the list.                                                     *)
(***************************************************************************)
AcquireLockRetried(t) ==
  /\ "lostReply" \in Faults
  /\ pc[t] \in {"setnx", "setnxAgain"}
  /\ lock[FpOf[t]] = NoTask
  /\ SetLock(FpOf[t], t)
  /\ Go(t, IF At(t, "setnx") THEN "getOwner" ELSE "reject")
  /\ UNCHANGED <<cache, task, queue>> /\ OnlyRedis

PushRetried(t) ==
  /\ "lostReply" \in Faults
  /\ At(t, "push")
  /\ Enqueue(t, <<t, t>>)
  /\ Go(t, "enqueued")
  /\ UNCHANGED <<cache, lock, task>> /\ OnlyRedis

PushUnacknowledged(t) ==
  /\ "lostReply" \in Faults
  /\ At(t, "push")
  /\ Enqueue(t, <<t>>)
  /\ Go(t, "regFail")
  /\ UNCHANGED <<cache, lock, task>> /\ OnlyRedis

\* The request context is cancelled, or the process dies: no cleanup takes effect.
Abort(t) ==
  /\ "abort" \in Faults
  /\ pc[t] \in HandlerStep \ {"upload"}
  /\ Go(t, "gone")
  /\ OnlyControl
=============================================================================
