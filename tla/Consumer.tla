------------------------------ MODULE Consumer ------------------------------
(***************************************************************************)
(* The worker loop of start_worker for the three queues whose jobs are     *)
(* fingerprinted, one action per Redis command or storage call.  wpc[w]    *)
(* names what worker w does next and job[w] the task it popped.  A job     *)
(* leaves its list when it is popped: nothing puts it back.                *)
(***************************************************************************)
EXTENDS SharedState

TryStep ==
  {"check", "stat", "apply", "dropRaw", "dropCache", "markTask", "markCache", "download",
   "index", "meta", "run", "result", "complTask", "complCache", "release"}

ExceptStep == {"failTask", "clearCache", "failRelease"}

WorkerStep == {"idle"} \cup TryStep \cup ExceptStep

ConsumerInit ==
  /\ wpc = [w \in Worker |-> "idle"]
  /\ job = [w \in Worker |-> NoTask]

Doing(w, step) == wpc[w] = step
Then(w, step)  == wpc' = [wpc EXCEPT ![w] = step]

JobFp(w) == FpOf[job[w]]

OnlyRedisOf == UNCHANGED <<storageVars, handlerVars, job>>
OnlyWorker  == UNCHANGED <<redisVars, storageVars, handlerVars, job>>

\* The end of an iteration of the loop.
NextIteration(w) ==
  /\ wpc' = [wpc EXCEPT ![w] = "idle"]
  /\ job' = [job EXCEPT ![w] = NoTask]

-----------------------------------------------------------------------------
(* BLPOP serves the first non-empty list in the order of its arguments.    *)

ServedBefore(o) ==
  CASE o = "transcription" -> {}
    [] o = "summarization" -> {"transcription"}
    [] o = "indexing"      -> {"transcription", "summarization"}

\* Mutant of Pop: the job is read and stays in its list.
PopWithoutRemoval(w) ==
  /\ Doing(w, "idle")
  /\ \E o \in Op :
       /\ queue[o] # <<>>
       /\ \A p \in ServedBefore(o) : queue[p] = <<>>
       /\ job' = [job EXCEPT ![w] = Head(queue[o])]
  /\ Then(w, "check")
  /\ UNCHANGED <<redisVars, storageVars, handlerVars>>

Pop(w) ==
  /\ Doing(w, "idle")
  /\ \E o \in Op :
       /\ queue[o] # <<>>
       /\ \A p \in ServedBefore(o) : queue[p] = <<>>
       /\ job' = [job EXCEPT ![w] = Head(queue[o])]
       /\ queue' = [queue EXCEPT ![o] = Tail(@)]
  /\ Then(w, "check")
  /\ UNCHANGED <<cache, lock, task, storageVars, handlerVars>>

-----------------------------------------------------------------------------
(* The recheck of the completed cache.                                     *)

CheckCache(w) ==
  /\ Doing(w, "check")
  /\ Then(w, IF cache[JobFp(w)].status = "completed" THEN "stat" ELSE "markTask")
  /\ OnlyWorker

CheckObjects(w) ==
  /\ Doing(w, "stat")
  /\ Then(w, IF ArtifactsAvailable(JobFp(w)) THEN "apply" ELSE "dropCache")
  /\ OnlyWorker

\* _apply_cached_completion, when the client accepts the bool fields of the mapping.
ApplyCachedCompletion(w) ==
  /\ Doing(w, "apply")
  /\ "boolRejected" \notin Faults
  /\ SetStatus(job[w], "completed")
  /\ Then(w, "dropRaw")
  /\ UNCHANGED <<cache, lock, queue>> /\ OnlyRedisOf

\* hset raises before it sends anything.
RejectBoolFields(w) ==
  /\ Doing(w, "apply")
  /\ "boolRejected" \in Faults
  /\ Then(w, "failTask")
  /\ OnlyWorker

RemoveRedundantRaw(w) ==
  /\ Doing(w, "dropRaw")
  /\ raw' = raw \ {job[w]}
  /\ Then(w, "release")
  /\ UNCHANGED <<redisVars, objects, handlerVars, job>>

DropUnusableEntry(w) ==
  /\ Doing(w, "dropCache")
  /\ SetCache(JobFp(w), NoEntry)
  /\ Then(w, "markTask")
  /\ UNCHANGED <<lock, task, queue>> /\ OnlyRedisOf

-----------------------------------------------------------------------------
(* The computation.                                                        *)

MarkProcessingTask(w) ==
  /\ Doing(w, "markTask")
  /\ SetStatus(job[w], "processing")
  /\ Then(w, "markCache")
  /\ UNCHANGED <<cache, lock, queue>> /\ OnlyRedisOf

\* _mark_processing_cache writes over whatever entry is there.
MarkProcessingCache(w) ==
  /\ Doing(w, "markCache")
  /\ SetCache(JobFp(w), ProcessingBy(job[w]))
  /\ Then(w, IF job[w] \in DirectText THEN "run" ELSE "download")
  /\ UNCHANGED <<lock, task, queue>> /\ OnlyRedisOf

\* Without its raw object the download raises.
DownloadRaw(w) ==
  /\ Doing(w, "download")
  /\ Then(w, IF job[w] \in raw THEN "run" ELSE "failTask")
  /\ OnlyWorker

\* Mutant of RunService: completion is published before the upload.
RunServiceWithoutUpload(w) == Doing(w, "run") /\ Then(w, "complTask") /\ OnlyWorker

\* The service; indexing also uploads the index and then its metadata.
RunService(w) ==
  /\ Doing(w, "run")
  /\ Then(w, IF QueueOf(job[w]) = "indexing" THEN "index" ELSE "result")
  /\ OnlyWorker

ServiceRaises(w) ==
  /\ "taskFailure" \in Faults
  /\ Doing(w, "run")
  /\ Then(w, "failTask")
  /\ OnlyWorker

Store(w, object, step) ==
  /\ objects' = [objects EXCEPT ![JobFp(w)] = @ \cup {object}]
  /\ Then(w, step)
  /\ UNCHANGED <<redisVars, raw, handlerVars, job>>

\* Mutant of UploadMeta: the result is not uploaded.
UploadMetaOnly(w) == Doing(w, "meta") /\ Store(w, "meta", "complTask")

UploadIndex(w)  == Doing(w, "index")  /\ Store(w, "index", "meta")
UploadMeta(w)   == Doing(w, "meta")   /\ Store(w, "meta", "result")
UploadResult(w) == Doing(w, "result") /\ Store(w, "result", "complTask")

\* Mutant of CompleteTask: a status no reader knows.
CompleteTaskMisspelled(w) ==
  /\ Doing(w, "complTask")
  /\ SetStatus(job[w], "complete")
  /\ Then(w, "complCache")
  /\ UNCHANGED <<cache, lock, queue>> /\ OnlyRedisOf

\* _mark_completed, first the task and then the cache.
CompleteTask(w) ==
  /\ Doing(w, "complTask")
  /\ SetStatus(job[w], "completed")
  /\ Then(w, "complCache")
  /\ UNCHANGED <<cache, lock, queue>> /\ OnlyRedisOf

CompleteCache(w) ==
  /\ Doing(w, "complCache")
  /\ SetCache(JobFp(w), CompletedBy(job[w]))
  /\ Then(w, "release")
  /\ UNCHANGED <<lock, task, queue>> /\ OnlyRedisOf

\* Mutant of ReleaseOwnedLock: the lock is left to its time to live.
ReleaseNothing(w) ==
  /\ wpc[w] \in {"release", "failRelease"}
  /\ NextIteration(w)
  /\ UNCHANGED <<redisVars, storageVars, handlerVars>>

\* release_owned_lock: compare and delete in one script.
ReleaseOwnedLock(w) ==
  /\ wpc[w] \in {"release", "failRelease"}
  /\ IF lock[JobFp(w)] = job[w] THEN SetLock(JobFp(w), NoTask) ELSE UNCHANGED lock
  /\ NextIteration(w)
  /\ UNCHANGED <<cache, task, queue, storageVars, handlerVars>>

-----------------------------------------------------------------------------
(* The except clause, and what can go wrong around it.                     *)

\* Mutant of FailTask: the client is not told.
FailTaskSilently(w) == Doing(w, "failTask") /\ Then(w, "clearCache") /\ OnlyWorker

FailTask(w) ==
  /\ Doing(w, "failTask")
  /\ SetStatus(job[w], "failed")
  /\ Then(w, "clearCache")
  /\ UNCHANGED <<cache, lock, queue>> /\ OnlyRedisOf

\* Mutant of ClearOwnedCache: the entry stays "processing".
ClearNothing(w) == Doing(w, "clearCache") /\ Then(w, "failRelease") /\ OnlyWorker

\* clear_owned_cache: compare owner and status and delete in one script.
ClearOwnedCache(w) ==
  /\ Doing(w, "clearCache")
  /\ IF cache[JobFp(w)] = ProcessingBy(job[w])
       THEN SetCache(JobFp(w), NoEntry)
       ELSE UNCHANGED cache
  /\ Then(w, "failRelease")
  /\ UNCHANGED <<lock, task, queue>> /\ OnlyRedisOf

\* An exception in the try clause; a failed raw removal alone is swallowed.
CallRaises(w) ==
  /\ "workerError" \in Faults
  /\ wpc[w] \in TryStep
  /\ Then(w, IF Doing(w, "dropRaw") THEN "release" ELSE "failTask")
  /\ OnlyWorker

\* The HSET of a step takes effect and its EXPIRE raises.
ExpireRaises(w) ==
  /\ "workerError" \in Faults
  /\ \/ /\ wpc[w] \in {"markTask", "complTask", "apply"}
        /\ Doing(w, "apply") => "boolRejected" \notin Faults
        /\ SetStatus(job[w], IF Doing(w, "markTask") THEN "processing" ELSE "completed")
        /\ UNCHANGED cache
     \/ /\ wpc[w] \in {"markCache", "complCache"}
        /\ SetCache(JobFp(w), IF Doing(w, "markCache") THEN ProcessingBy(job[w])
                                                     ELSE CompletedBy(job[w]))
        /\ UNCHANGED task
  /\ Then(w, "failTask")
  /\ UNCHANGED <<lock, queue>> /\ OnlyRedisOf

\* An exception in the except clause ends the process, which is started again.
HandlerRaises(w) ==
  /\ "workerError" \in Faults
  /\ wpc[w] \in ExceptStep
  /\ NextIteration(w)
  /\ UNCHANGED <<redisVars, storageVars, handlerVars>>

WorkerCrashes(w) ==
  /\ "workerCrash" \in Faults
  /\ ~Doing(w, "idle")
  /\ NextIteration(w)
  /\ UNCHANGED <<redisVars, storageVars, handlerVars>>
=============================================================================
