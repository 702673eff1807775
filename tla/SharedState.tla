----------------------------- MODULE SharedState -----------------------------
(***************************************************************************)
(* The state that the gateway's request handlers and the workers share     *)
(* through Redis and S3-compatible storage, the control state of both      *)
(* sides, and the vocabulary the modules of either side are written in.    *)
(*                                                                         *)
(* A task is one ingestion request (POST /transcribe, /summarize or        *)
(* /glean/index): the handler draws a fresh task id for each, so requests  *)
(* and task ids are the same thing here.  A fingerprint is what            *)
(* processingFingerprint computes of the operation, the content and its    *)
(* parameters; two requests are duplicates when their fingerprints agree.  *)
(***************************************************************************)
EXTENDS Naturals, Sequences

CONSTANTS
  Task,         \* the ingestion requests, each with its own task id
  Fingerprint,  \* processing identities
  FpOf,         \* the fingerprint of each request
  OpOf,         \* the operation of each fingerprint
  DirectText,   \* requests whose text travels in the JSON body: no raw object
  Worker,       \* consumer processes
  NoTask,       \* nobody: an absent lock, a worker with no job
  Faults        \* the faults that may occur, a subset of FaultKind

Op == {"transcription", "summarization", "indexing"}

(***************************************************************************)
(* abort        the client disconnects, so the request context is          *)
(*              cancelled and no later command of the handler, cleanup     *)
(*              included, takes effect; or the gateway dies                *)
(* redisError   a Redis command of a handler returns an error              *)
(* storageError an object-storage call of a handler returns an error       *)
(* lostReply    Redis executes a command whose reply is lost, and the      *)
(*              client retries it or gives up                              *)
(* taskFailure  the service that processes a task raises                   *)
(* workerError  a Redis or storage call of a worker raises                 *)
(* workerCrash  a worker dies and is restarted                             *)
(* boolRejected the worker's Redis client refuses a bool as a hash value   *)
(* leaseExpiry  a processing lock reaches its TTL                          *)
(* artifactLoss a derived object disappears from storage                   *)
(***************************************************************************)
FaultKind == {"abort", "redisError", "storageError", "lostReply", "taskFailure",
              "workerError", "workerCrash", "boolRejected", "leaseExpiry", "artifactLoss"}

ASSUME ConstantsAssumption ==
  /\ FpOf \in [Task -> Fingerprint]
  /\ OpOf \in [Fingerprint -> Op]
  /\ DirectText \subseteq {t \in Task : OpOf[FpOf[t]] = "summarization"}
  /\ NoTask \notin Task
  /\ Faults \subseteq FaultKind

VARIABLES
  cache,    \* lexos:cache:<op>:<fingerprint>, the reusable processing metadata
  lock,     \* lexos:lock:<op>:<fingerprint>, the processing lease
  task,     \* task:<id>, the status the client polls
  queue,    \* the Redis lists between gateway and workers
  raw,      \* requests whose uploaded input is in storage under raw/<id>/
  objects,  \* the derived objects stored under cache/<op>/<fingerprint>/
  pc,       \* where each request's handler stands, or how it ended
  owner,    \* the lock owner a handler last read
  wpc,      \* where each worker stands in its loop
  job       \* the task each worker has popped

redisVars   == <<cache, lock, task, queue>>
storageVars == <<raw, objects>>
handlerVars == <<pc, owner>>
workerVars  == <<wpc, job>>
vars        == <<cache, lock, task, queue, raw, objects, pc, owner, wpc, job>>

-----------------------------------------------------------------------------
Status == {"absent", "queued", "processing", "completed", "failed"}

CacheEntry == [status : {"absent", "processing", "completed"}, owner : Task \cup {NoTask}]

NoEntry           == [status |-> "absent", owner |-> NoTask]
ProcessingBy(t)   == [status |-> "processing", owner |-> t]
CompletedBy(t)    == [status |-> "completed", owner |-> t]

QueueOf(t) == OpOf[FpOf[t]]

\* The objects a completed entry of fingerprint f refers to.
Required(f) == IF OpOf[f] = "indexing" THEN {"index", "meta", "result"} ELSE {"result"}

ArtifactsAvailable(f) == Required(f) \subseteq objects[f]

InQueue(t)   == \E i \in DOMAIN queue[QueueOf(t)] : queue[QueueOf(t)][i] = t
OnWorker(t)  == \E w \in Worker : job[w] = t

\* setHashWithTTL, and the worker's hset and expire: the retention it sets is not modelled.
SetStatus(t, s) == task' = [task EXCEPT ![t] = s]

SetCache(f, e) == cache' = [cache EXCEPT ![f] = e]

SetLock(f, t) == lock' = [lock EXCEPT ![f] = t]

\* Storage, external to the repository, may lose a derived object at any time.
ArtifactLost(f, k) ==
  /\ "artifactLoss" \in Faults
  /\ k \in objects[f]
  /\ objects' = [objects EXCEPT ![f] = @ \ {k}]
  /\ UNCHANGED <<redisVars, raw, handlerVars, workerVars>>

\* Redis removes a lock whose time to live has passed, whoever still relies on it.
LeaseExpires(f) ==
  /\ "leaseExpiry" \in Faults
  /\ lock[f] # NoTask
  /\ SetLock(f, NoTask)
  /\ UNCHANGED <<cache, task, queue, storageVars, handlerVars, workerVars>>

SharedInit ==
  /\ cache = [f \in Fingerprint |-> NoEntry]
  /\ lock = [f \in Fingerprint |-> NoTask]
  /\ task = [t \in Task |-> "absent"]
  /\ queue = [o \in Op |-> <<>>]
  /\ raw = {}
  /\ objects = [f \in Fingerprint |-> {}]
=============================================================================
