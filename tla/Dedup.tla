-------------------------------- MODULE Dedup --------------------------------
(***************************************************************************)
(* Content-addressed deduplication end to end: the handlers of every       *)
(* request, the workers, and the environment, over one Redis and one       *)
(* object store.                                                           *)
(***************************************************************************)
EXTENDS Gateway, Consumer

Init == SharedInit /\ GatewayInit /\ ConsumerInit

\* The steps of the handlers that scheduling alone brings about.
HandlerProceeds(t) ==
  \/ Upload(t)
  \/ LookupCache(t)
  \/ CheckArtifacts(t)
  \/ ReuseArtifact(t)
  \/ AliasCompletedCache(t)
  \/ PurgeRegistration(t)
  \/ GetLock(t)
  \/ OwnerState(t)
  \/ AttachToOwner(t)
  \/ DropStaleEntry(t)
  \/ AcquireLock(t)
  \/ GetLockOwner(t)
  \/ LockOwnerState(t)
  \/ DeleteLock(t)
  \/ AcquireLockAgain(t)
  \/ PutTask(t)
  \/ PutCache(t)
  \/ PushJob(t)
  \/ UndoLock(t)
  \/ FailRegistration(t)
  \/ ClearRegistration(t)
  \/ Reject(t)

HandlerSuffers(t) ==
  \/ RedisCommandFails(t)
  \/ StorageCallFails(t)
  \/ ExpireFails(t)
  \/ AcquireLockRetried(t)
  \/ PushRetried(t)
  \/ PushUnacknowledged(t)
  \/ Abort(t)

WorkerProceeds(w) ==
  \/ Pop(w)
  \/ CheckCache(w)
  \/ CheckObjects(w)
  \/ ApplyCachedCompletion(w)
  \/ RejectBoolFields(w)
  \/ RemoveRedundantRaw(w)
  \/ DropUnusableEntry(w)
  \/ MarkProcessingTask(w)
  \/ MarkProcessingCache(w)
  \/ DownloadRaw(w)
  \/ RunService(w)
  \/ UploadIndex(w)
  \/ UploadMeta(w)
  \/ UploadResult(w)
  \/ CompleteTask(w)
  \/ CompleteCache(w)
  \/ ReleaseOwnedLock(w)
  \/ FailTask(w)
  \/ ClearOwnedCache(w)

WorkerSuffers(w) ==
  \/ ServiceRaises(w)
  \/ CallRaises(w)
  \/ ExpireRaises(w)
  \/ HandlerRaises(w)
  \/ WorkerCrashes(w)

\* Every request is answered and every job is done: nothing is left to happen.
AllDone ==
  /\ \A t \in Task : pc[t] \in Answer
  /\ \A o \in Op : queue[o] = <<>>
  /\ \A w \in Worker : wpc[w] = "idle"
  /\ UNCHANGED vars

Next ==
  \/ \E t \in Task : HandlerProceeds(t) \/ HandlerSuffers(t)
  \/ \E w \in Worker : WorkerProceeds(w) \/ WorkerSuffers(w)
  \/ \E f \in Fingerprint : LeaseExpires(f)
  \/ \E f \in Fingerprint : \E k \in {"index", "meta", "result"} : ArtifactLost(f, k)
  \/ AllDone

Spec == Init /\ [][Next]_vars

(***************************************************************************)
(* Handlers are goroutines the Go runtime schedules, workers loop for as   *)
(* long as the container runs and are restarted when it stops: a step that *)
(* stays possible is taken.  No fault is ever bound to happen.             *)
(***************************************************************************)
Fairness ==
  /\ \A t \in Task : WF_vars(HandlerProceeds(t))
  /\ \A w \in Worker : WF_vars(WorkerProceeds(w))

FairSpec == Spec /\ Fairness

-----------------------------------------------------------------------------
(* Vocabulary of the properties.                                           *)

Registering(t) == pc[t] \in {"putTask", "putCache", "push", "undo", "regFail", "regClear"}

\* Some handler, list or worker still has to do something for t.
InFlight(t) == Registering(t) \/ InQueue(t) \/ OnWorker(t)

Terminal(t) == task[t] \in {"completed", "failed"}

Pending(t) == InFlight(t) /\ ~Terminal(t)

-----------------------------------------------------------------------------
(* Safety.                                                                 *)

\* Every variable has its type.
TypeOK ==
  /\ cache \in [Fingerprint -> CacheEntry]
  /\ lock \in [Fingerprint -> Task \cup {NoTask}]
  /\ task \in [Task -> Status]
  /\ queue \in [Op -> Seq(Task)]
  /\ raw \in SUBSET Task
  /\ objects \in [Fingerprint -> SUBSET {"index", "meta", "result"}]
  /\ pc \in [Task -> HandlerStep \cup Answer]
  /\ owner \in [Task -> Task \cup {NoTask}]
  /\ wpc \in [Worker -> WorkerStep]
  /\ job \in [Worker -> Task \cup {NoTask}]

(***************************************************************************)
(* A task is reported completed, and a cache entry offered for reuse, only *)
(* when every object the fingerprint needs is in storage: the worker       *)
(* uploads before it publishes, and both rechecks look before they alias.  *)
(***************************************************************************)
CompletedMeansStored ==
  /\ \A t \in Task : task[t] = "completed" => ArtifactsAvailable(FpOf[t])
  /\ \A f \in Fingerprint : cache[f].status = "completed" => ArtifactsAvailable(f)

(***************************************************************************)
(* A processing lock is never left behind: its owner is registering,       *)
(* queued or on a worker, so the lock will be released by someone.         *)
(***************************************************************************)
LeaseHasLiveOwner ==
  \A f \in Fingerprint :
    lock[f] # NoTask => FpOf[lock[f]] = f /\ InFlight(lock[f])

(***************************************************************************)
(* A "processing" cache entry is never left behind either, whichever task  *)
(* wrote itself over whichever other.                                      *)
(***************************************************************************)
EntryHasLiveOwner ==
  \A f \in Fingerprint : cache[f].status = "processing" => InFlight(cache[f].owner)

(***************************************************************************)
(* A task the client sees as queued or processing is not forgotten: there  *)
(* is a handler, a list or a worker from which it gets its terminal state. *)
(***************************************************************************)
NoStuckTask ==
  \A t \in Task : task[t] \in {"queued", "processing"} => InFlight(t)

(***************************************************************************)
(* RPUSH and BLPOP hand each job to one worker once: no job is in its list *)
(* twice, in the list and on a worker, or on two workers.                  *)
(***************************************************************************)
NoCopyInQueue ==
  \A o \in Op : \A i, j \in DOMAIN queue[o] : queue[o][i] = queue[o][j] => i = j

NoCopyOnWorker == \A t \in Task : ~(InQueue(t) /\ OnWorker(t))

NoSharedJob ==
  \A v, w \in Worker : v # w /\ job[v] = job[w] => job[w] = NoTask

DeliveredOnce == NoCopyInQueue /\ NoCopyOnWorker /\ NoSharedJob

(***************************************************************************)
(* A job waiting in a list still has the upload it will download, although *)
(* handlers and workers delete uploads they take for redundant.            *)
(***************************************************************************)
JobKeepsItsInput ==
  \A t \in Task \ DirectText : InQueue(t) => t \in raw

(***************************************************************************)
(* A request that is answered without work of its own leaves no upload.    *)
(***************************************************************************)
RedundantRawRemoved ==
  \A t \in Task : pc[t] \in {"attached", "cached", "rejected"} => t \notin raw

(***************************************************************************)
(* A duplicate is sent to poll a task that is being processed or has       *)
(* ended, never one nobody works on.                                       *)
(***************************************************************************)
AttachesToLiveOwner ==
  [][\A t \in Task : pc[t] # "attached" /\ pc'[t] = "attached" =>
       InFlight(owner[t]) \/ Terminal(owner[t])]_vars

(***************************************************************************)
(* SET NX elects one owner: two duplicates are never both to be computed.  *)
(***************************************************************************)
OneOwner ==
  \A t, u \in Task : t # u /\ FpOf[t] = FpOf[u] => ~(Pending(t) /\ Pending(u))

(***************************************************************************)
(* A request is not answered with an error merely because a duplicate is   *)
(* under way.                                                              *)
(***************************************************************************)
DuplicateNotRejected == \A t \in Task : pc[t] # "rejected"

(***************************************************************************)
(* No model runs for a fingerprint whose derived objects are all stored.   *)
(***************************************************************************)
NoRepeatedWork == \A w \in Worker : wpc[w] = "run" => ~ArtifactsAvailable(JobFp(w))

-----------------------------------------------------------------------------
(* The promise to the client, and liveness.                                *)

Promise == INSTANCE TaskLifecycle
  WITH status <- task, stored <- {f \in Fingerprint : ArtifactsAvailable(f)}

(***************************************************************************)
(* The whole system implements the task life cycle its clients see: no     *)
(* interleaving of duplicates moves a status backwards or out of a         *)
(* terminal state, or reports a completion with nothing to fetch.          *)
(***************************************************************************)
KeepsPromise == Promise!Lifecycle

(***************************************************************************)
(* A request answered "queued" gets its result or its error.               *)
(***************************************************************************)
EnqueuedFinishes == \A t \in Task : pc[t] = "enqueued" ~> Terminal(t)

(***************************************************************************)
(* So does one answered "already being processed", from the other task.    *)
(***************************************************************************)
AttachedFinishes ==
  \A t \in Task : pc[t] = "attached" ~> pc[t] = "attached" /\ Terminal(owner[t])

(***************************************************************************)
(* Whoever holds a processing lock gives it up, without waiting for the    *)
(* lock's time to live.                                                    *)
(***************************************************************************)
LeaseReleased == \A t \in Task : lock[FpOf[t]] = t ~> lock[FpOf[t]] # t
=============================================================================
