----------------------------- MODULE LeaseProofs -----------------------------
(***************************************************************************)
(* No "processing" cache entry, no task the client polls and no processing *)
(* lock is left behind, for any number of duplicate requests and workers:  *)
(* whatever the interleaving, lock expiry included, somebody still works   *)
(* on it.  Proved of the runs in which no handler and no worker is cut off *)
(* between two of its commands; for the locks, and for what a duplicate    *)
(* reads of them, no reply is lost either.                                 *)
(***************************************************************************)
EXTENDS DedupProofs

\* The faults that cut a handler or a worker off do not occur.
Uncut == Faults \cap {"abort", "redisError", "workerError", "workerCrash"} = {}

\* Nor is a reply lost: a lock acquired unnoticed is nobody's.
Calm == Uncut /\ "lostReply" \notin Faults

-----------------------------------------------------------------------------
(* Statuses and entries.  That the task is in flight is not enough: a      *)
(* worker that has published its outcome will not publish another.         *)

\* The handler of u is at one of steps, its job waits, or a worker has it and is not at one
\* of over.
Attended(u, steps, over) ==
  \/ pc[u] \in steps
  \/ InQueue(u)
  \/ \E w \in Worker : job[w] = u /\ wpc[w] \notin over

\* The points at which a worker has published an outcome for its task.
Settled == {"dropRaw", "complCache", "release", "clearCache", "failRelease"}

\* The points at which a worker has seen that the entry is not its task's.
GivenUp == {"stat", "apply", "dropRaw", "release", "failRelease"}

\* Somebody is still to publish an outcome for a task shown queued or processing.
StatusAttended ==
  \A t \in Task :
    task[t] \in {"queued", "processing"} =>
      Attended(t, {"putCache", "push", "regFail"}, Settled)

\* Somebody is still to take the name in a "processing" entry out of it.
EntryAttended ==
  \A f \in Fingerprint :
    cache[f].status = "processing" =>
      /\ cache[f].owner \in Task /\ FpOf[cache[f].owner] = f
      /\ Attended(cache[f].owner, {"push", "regFail", "regClear"}, GivenUp)

AttendedInv == TypeOK /\ WorkerHasJob /\ StatusAttended /\ EntryAttended

\* RPUSH, of however many copies, keeps what is in the lists.
LEMMA EnqueueKeeps ==
  ASSUME TypeOK, NEW t \in Task, NEW copies \in {<<t>>, <<t, t>>}, Enqueue(t, copies)
  PROVE  InQueue(t)' /\ \A u \in Task : InQueue(u) => InQueue(u)'
<1> DEFINE q == QueueOf(t)
<1>1. q \in Op /\ queue[q] \in Seq(Task)
  <2>1. q \in Op
    BY ConstantsAssumption DEF QueueOf
  <2> HIDE DEF q
  <2> QED BY <2>1 DEF TypeOK
<1>2. /\ queue'[q] = queue[q] \o copies
      /\ \A p \in Op \ {q} : queue'[p] = queue[p]
  BY <1>1 DEF TypeOK, Enqueue
<1>3. copies \in Seq(Task) /\ Len(copies) \in Nat \ {0} /\ copies[1] = t
  <2>1. CASE copies = <<t>>
    BY <2>1
  <2>2. CASE copies = <<t, t>>
    BY <2>2
  <2> QED BY <2>1, <2>2
<1>4. /\ \A i \in DOMAIN queue[q] : i \in DOMAIN queue'[q] /\ queue'[q][i] = queue[q][i]
      /\ \E i \in DOMAIN queue'[q] : queue'[q][i] = t
  <2> DEFINE n == Len(queue[q])
  <2>1. n \in Nat /\ DOMAIN queue[q] = 1 .. n
    BY <1>1
  <2>2. /\ DOMAIN queue'[q] = 1 .. n + Len(copies)
        /\ \A i \in 1 .. n : queue'[q][i] = queue[q][i]
        /\ queue'[q][n + 1] = t
    BY <1>1, <1>2, <1>3, ConcatProperties, Z3
  <2> HIDE DEF n, q
  <2> QED BY <1>3, <2>1, <2>2
<1> QED BY <1>2, <1>4, ConstantsAssumption DEF InQueue, QueueOf

\* BLPOP takes from the lists only what it hands over.
LEMMA PopKeeps ==
  ASSUME TypeOK, NEW w \in Worker, Pop(w)
  PROVE  \E t \in Task : /\ job' = [job EXCEPT ![w] = t]
                         /\ wpc' = [wpc EXCEPT ![w] = "check"]
                         /\ \A u \in Task : InQueue(u) => InQueue(u)' \/ u = t
<1>1. PICK o \in Op : /\ queue[o] # <<>>
                      /\ job' = [job EXCEPT ![w] = Head(queue[o])]
                      /\ queue' = [queue EXCEPT ![o] = Tail(@)]
  BY DEF Pop
<1> DEFINE n == Len(queue[o])
<1> DEFINE t == Head(queue[o])
<1>2. queue[o] \in Seq(Task)
  BY DEF TypeOK
<1>3. /\ t \in Task /\ t = queue[o][1] /\ n \in Nat \ {0}
      /\ DOMAIN queue[o] = 1 .. n /\ DOMAIN queue'[o] = 1 .. n - 1
      /\ \A i \in 1 .. n - 1 : queue'[o][i] = queue[o][i + 1]
  BY <1>1, <1>2, HeadTailProperties DEF TypeOK
<1>4. \A p \in Op \ {o} : queue'[p] = queue[p]
  BY <1>1 DEF TypeOK
<1>5. job' = [job EXCEPT ![w] = t] /\ wpc' = [wpc EXCEPT ![w] = "check"]
  BY <1>1 DEF Pop, Then
<1> HIDE DEF n, t
<1>6. ASSUME NEW i \in 1 .. n, queue[o][i] # t
      PROVE  i - 1 \in DOMAIN queue'[o] /\ queue'[o][i - 1] = queue[o][i]
  <2>1. i - 1 \in 1 .. n - 1 /\ (i - 1) + 1 = i
    BY <1>3, <1>6
  <2> QED BY <1>3, <2>1
<1>7. ASSUME NEW u \in Task, InQueue(u), u # t PROVE InQueue(u)'
  <2>1. PICK i \in DOMAIN queue[QueueOf(u)] : queue[QueueOf(u)][i] = u
    BY <1>7 DEF InQueue
  <2>2. CASE QueueOf(u) = o
    BY <1>3, <1>6, <1>7, <2>1, <2>2 DEF InQueue, QueueOf
  <2>3. CASE QueueOf(u) # o
    BY <1>4, <2>1, <2>3, ConstantsAssumption DEF InQueue, QueueOf
  <2> QED BY <2>2, <2>3
<1> QED BY <1>3, <1>5, <1>7

\* No handler leaves a status or an entry with nobody behind it.
LEMMA HandlerAttends ==
  ASSUME AttendedInv, Uncut, NEW t \in Task, HandlerProceeds(t) \/ HandlerSuffers(t)
  PROVE  (StatusAttended /\ EntryAttended)'
<1> USE ConstantsAssumption
    DEF AttendedInv, SetStatus, SetCache, NoEntry, ProcessingBy, At, Go, OnlyRedis, OnlyControl,
        redisVars, storageVars, workerVars
<1> DEFINE Keeps == UNCHANGED <<wpc, job>> /\ \A u \in Task : InQueue(u) => InQueue(u)'
<1>0. /\ pc \in [Task -> HandlerStep \cup Answer] /\ task \in [Task -> Status]
      /\ cache \in [Fingerprint -> CacheEntry]
  BY DEF TypeOK
<1>1. ASSUME Keeps, UNCHANGED task, \A f \in Fingerprint : cache'[f] \in {cache[f], NoEntry},
             pc[t] \notin {"putCache", "push", "regFail", "regClear"},
             \A u \in Task \ {t} : pc'[u] = pc[u]
      PROVE  (StatusAttended /\ EntryAttended)'
  <2>1. ASSUME NEW u \in Task, NEW steps, NEW over, Attended(u, steps, over),
               u = t => pc[u] \notin steps
        PROVE  Attended(u, steps, over)'
    BY <1>1, <2>1 DEF Attended
  <2>2. StatusAttended'
    BY <1>1, <2>1 DEF StatusAttended
  <2>3. EntryAttended'
    BY <1>1, <2>1 DEF EntryAttended
  <2> QED BY <2>2, <2>3
<1>2. ASSUME UNCHANGED queue PROVE \A u \in Task : InQueue(u) => InQueue(u)'
  BY <1>2 DEF InQueue
<1>3. CASE AliasCompletedCache(t)
  BY <1>0, <1>2, <1>3 DEF AliasCompletedCache, StatusAttended, EntryAttended, Attended
<1>4. CASE PutTask(t)
  BY <1>0, <1>2, <1>4 DEF PutTask, StatusAttended, EntryAttended, Attended
<1>5. CASE PutCache(t)
  BY <1>0, <1>2, <1>5 DEF PutCache, StatusAttended, EntryAttended, Attended
<1>6. CASE PushJob(t) \/ PushRetried(t) \/ PushUnacknowledged(t)
  <2>1. InQueue(t)' /\ \A u \in Task : InQueue(u) => InQueue(u)'
    BY <1>6, EnqueueKeeps DEF PushJob, PushRetried, PushUnacknowledged
  <2>2. UNCHANGED <<cache, task, wpc, job>> /\ \A u \in Task \ {t} : pc'[u] = pc[u]
    BY <1>0, <1>6 DEF PushJob, PushRetried, PushUnacknowledged
  <2> QED BY <2>1, <2>2 DEF StatusAttended, EntryAttended, Attended
<1>7. CASE FailRegistration(t)
  BY <1>0, <1>2, <1>7 DEF FailRegistration, StatusAttended, EntryAttended, Attended
<1>8. CASE ClearRegistration(t)
  BY <1>0, <1>2, <1>8 DEF ClearRegistration, StatusAttended, EntryAttended, Attended
<1>9. CASE PurgeRegistration(t) \/ DropStaleEntry(t)
  BY <1>0, <1>1, <1>2, <1>9 DEF PurgeRegistration, DropStaleEntry
<1>10. CASE HandlerProceeds(t)
            /\ ~(AliasCompletedCache(t) \/ PutTask(t) \/ PutCache(t) \/ PushJob(t)
                 \/ FailRegistration(t) \/ ClearRegistration(t) \/ PurgeRegistration(t)
                 \/ DropStaleEntry(t))
  <2>1. /\ UNCHANGED <<cache, task, queue, wpc, job>>
        /\ pc[t] \notin {"putCache", "push", "regFail", "regClear"}
        /\ \A u \in Task \ {t} : pc'[u] = pc[u]
    BY <1>0, <1>10
      DEF HandlerProceeds, Upload, LookupCache, CheckArtifacts, ReuseArtifact, GetLock,
          OwnerState, AttachToOwner, AcquireLock, GetLockOwner, LockOwnerState, DeleteLock,
          AcquireLockAgain, UndoLock, Reject, Elect, RemoveRaw
  <2> QED BY <1>1, <1>2, <2>1
<1>11. CASE HandlerSuffers(t) /\ ~(PushRetried(t) \/ PushUnacknowledged(t))
  <2>1. StorageCallFails(t) \/ AcquireLockRetried(t)
    BY <1>11 DEF Uncut, HandlerSuffers, RedisCommandFails, ExpireFails, Abort
  <2>2. /\ UNCHANGED <<cache, task, queue, wpc, job>>
        /\ pc[t] \notin {"putCache", "push", "regFail", "regClear"}
        /\ \A u \in Task \ {t} : pc'[u] = pc[u]
    BY <1>0, <2>1 DEF StorageCallFails, StorageStep, AcquireLockRetried
  <2> QED BY <1>1, <1>2, <2>2
<1> QED BY <1>3, <1>4, <1>5, <1>6, <1>7, <1>8, <1>9, <1>10, <1>11

\* How a worker's step moves statuses and entries: before it comes to a settled point it
\* gives its own task an outcome, before it gives an entry up it finds it another's.
WorkerAttention(w) ==
  /\ \/ /\ task' = task
        /\ wpc'[w] \notin Settled \/ wpc[w] \in Settled
     \/ \E s \in Status : /\ task' = [task EXCEPT ![job[w]] = s]
                          /\ wpc'[w] \notin Settled \/ s \in {"completed", "failed"}
  /\ \/ /\ cache' = cache
        /\ \/ wpc'[w] \notin GivenUp
           \/ wpc[w] \in GivenUp
           \/ cache[JobFp(w)] # ProcessingBy(job[w])
     \/ cache' = [cache EXCEPT ![JobFp(w)] = ProcessingBy(job[w])] /\ wpc'[w] \notin GivenUp
     \/ \E e \in {NoEntry, CompletedBy(job[w])} : cache' = [cache EXCEPT ![JobFp(w)] = e]

LEMMA WorkerAttentive ==
  ASSUME AttendedInv, Uncut, NEW w \in Worker, WorkerProceeds(w) \/ WorkerSuffers(w)
  PROVE  \/ Pop(w) /\ UNCHANGED <<cache, task, pc>> /\ job[w] = NoTask
         \/ /\ ReleaseOwnedLock(w) /\ UNCHANGED <<cache, task, pc, queue>>
            /\ wpc[w] \in Settled \cap GivenUp
         \/ /\ job[w] \in Task /\ WorkerAttention(w) /\ UNCHANGED <<pc, queue, job>>
            /\ \A v \in Worker \ {w} : wpc'[v] = wpc[v]
<1> USE ConstantsAssumption
    DEF AttendedInv, WorkerHasJob, WorkerAttention, Settled, GivenUp, TypeOK, Status, CacheEntry,
        NoEntry, ProcessingBy, CompletedBy, JobFp, SetStatus, SetCache, Doing, Then, OnlyRedisOf,
        OnlyWorker, redisVars, storageVars, handlerVars, workerVars
<1>1. CASE Pop(w)
  BY <1>1 DEF Pop
<1>2. CASE CheckCache(w)
  BY <1>2 DEF CheckCache
<1>3. CASE CheckObjects(w)
  BY <1>3 DEF CheckObjects
<1>4. CASE ApplyCachedCompletion(w)
  BY <1>4 DEF ApplyCachedCompletion
<1>5. CASE RejectBoolFields(w)
  BY <1>5 DEF RejectBoolFields
<1>6. CASE RemoveRedundantRaw(w)
  BY <1>6 DEF RemoveRedundantRaw
<1>7. CASE DropUnusableEntry(w)
  BY <1>7 DEF DropUnusableEntry
<1>8. CASE MarkProcessingTask(w)
  BY <1>8 DEF MarkProcessingTask
<1>9. CASE MarkProcessingCache(w)
  BY <1>9 DEF MarkProcessingCache
<1>10. CASE DownloadRaw(w)
  BY <1>10 DEF DownloadRaw
<1>11. CASE RunService(w) \/ ServiceRaises(w)
  BY <1>11 DEF RunService, ServiceRaises
<1>12. CASE UploadIndex(w) \/ UploadMeta(w) \/ UploadResult(w)
  BY <1>12 DEF UploadIndex, UploadMeta, UploadResult, Store
<1>13. CASE CompleteTask(w)
  BY <1>13 DEF CompleteTask
<1>14. CASE CompleteCache(w)
  BY <1>14 DEF CompleteCache
<1>15. CASE ReleaseOwnedLock(w)
  BY <1>15 DEF ReleaseOwnedLock
<1>16. CASE FailTask(w)
  BY <1>16 DEF FailTask
<1>17. CASE ClearOwnedCache(w)
  BY <1>17 DEF ClearOwnedCache
<1>18. WorkerSuffers(w) => ServiceRaises(w)
  BY DEF Uncut, WorkerSuffers, CallRaises, ExpireRaises, HandlerRaises, WorkerCrashes
<1> HIDE DEF AttendedInv, WorkerAttention
<1> QED BY <1>1, <1>2, <1>3, <1>4, <1>5, <1>6, <1>7, <1>8, <1>9, <1>10, <1>11, <1>12, <1>13,
     <1>14, <1>15, <1>16, <1>17, <1>18 DEF WorkerProceeds

\* No worker leaves a status or an entry with nobody behind it.
LEMMA WorkerAttends ==
  ASSUME AttendedInv, Uncut, NEW w \in Worker, WorkerProceeds(w) \/ WorkerSuffers(w)
  PROVE  (StatusAttended /\ EntryAttended)'
<1> USE ConstantsAssumption DEF AttendedInv
<1>0. /\ wpc \in [Worker -> WorkerStep] /\ job \in [Worker -> Task \cup {NoTask}]
      /\ task \in [Task -> Status] /\ cache \in [Fingerprint -> CacheEntry]
  BY DEF TypeOK
<1>1. CASE Pop(w) /\ UNCHANGED <<cache, task, pc>> /\ job[w] = NoTask
  <2>1. PICK t \in Task : /\ job' = [job EXCEPT ![w] = t]
                         /\ wpc' = [wpc EXCEPT ![w] = "check"]
                         /\ \A u \in Task : InQueue(u) => InQueue(u)' \/ u = t
    BY <1>1, PopKeeps
  <2>2. ASSUME NEW u \in Task, NEW steps, NEW over, Attended(u, steps, over), "check" \notin over
        PROVE  Attended(u, steps, over)'
    BY <1>0, <1>1, <2>1, <2>2 DEF Attended
  <2>3. "check" \notin Settled /\ "check" \notin GivenUp
    BY DEF Settled, GivenUp
  <2> QED BY <1>1, <2>2, <2>3 DEF StatusAttended, EntryAttended
<1>2. CASE /\ ReleaseOwnedLock(w) /\ UNCHANGED <<cache, task, pc, queue>>
           /\ wpc[w] \in Settled \cap GivenUp
  <2>1. /\ wpc' = [wpc EXCEPT ![w] = "idle"] /\ job' = [job EXCEPT ![w] = NoTask]
    BY <1>2 DEF ReleaseOwnedLock, NextIteration
  <2>2. ASSUME NEW u \in Task, NEW steps, NEW over, Attended(u, steps, over), wpc[w] \in over
        PROVE  Attended(u, steps, over)'
    BY <1>0, <1>2, <2>1, <2>2 DEF Attended, InQueue
  <2> QED BY <1>2, <2>2 DEF StatusAttended, EntryAttended
<1>3. CASE /\ job[w] \in Task /\ WorkerAttention(w) /\ UNCHANGED <<pc, queue, job>>
           /\ \A v \in Worker \ {w} : wpc'[v] = wpc[v]
  <2>1. ASSUME NEW u \in Task, NEW steps, NEW over, Attended(u, steps, over),
               u # job[w] \/ wpc'[w] \notin over \/ wpc[w] \in over
        PROVE  Attended(u, steps, over)'
    BY <1>3, <2>1 DEF Attended, InQueue
  <2>2. ASSUME NEW steps, NEW over, wpc'[w] \notin over PROVE Attended(job[w], steps, over)'
    BY <1>3, <2>2 DEF Attended
  <2>3. StatusAttended'
    <3> SUFFICES ASSUME NEW u \in Task, task'[u] \in {"queued", "processing"}
                 PROVE  Attended(u, {"putCache", "push", "regFail"}, Settled)'
      BY DEF StatusAttended
    <3>1. CASE task' = task /\ (wpc'[w] \notin Settled \/ wpc[w] \in Settled)
      BY <2>1, <3>1 DEF StatusAttended
    <3>2. ASSUME NEW s \in Status, task' = [task EXCEPT ![job[w]] = s],
                 wpc'[w] \notin Settled \/ s \in {"completed", "failed"}
          PROVE  Attended(u, {"putCache", "push", "regFail"}, Settled)'
      BY <1>0, <1>3, <2>1, <2>2, <3>2 DEF StatusAttended
    <3> QED BY <1>3, <3>1, <3>2 DEF WorkerAttention
  <2>4. EntryAttended'
    <3>0. JobFp(w) \in Fingerprint
      BY <1>3 DEF JobFp
    <3> DEFINE Held(u) == \/ pc[u] \in {"push", "regFail", "regClear"}
                          \/ InQueue(u)
                          \/ \E v \in Worker : job[v] = u /\ wpc'[v] \notin GivenUp
    <3> DEFINE Good(f, e) ==
          e.status = "processing" => e.owner \in Task /\ FpOf[e.owner] = f /\ Held(e.owner)
    <3>a. ASSUME \A f \in Fingerprint : Good(f, cache'[f]) PROVE EntryAttended'
      BY <1>3, <3>a DEF EntryAttended, Attended, InQueue
    <3>1. ASSUME NEW f \in Fingerprint,
                 \/ f # JobFp(w)
                 \/ wpc'[w] \notin GivenUp \/ wpc[w] \in GivenUp
                 \/ cache[f] # ProcessingBy(job[w])
          PROVE  Good(f, cache[f])
      <4> SUFFICES ASSUME cache[f].status = "processing" PROVE Good(f, cache[f])
        OBVIOUS
      <4>1. /\ cache[f].owner \in Task /\ FpOf[cache[f].owner] = f
            /\ Attended(cache[f].owner, {"push", "regFail", "regClear"}, GivenUp)
        BY DEF EntryAttended
      <4>2. f = JobFp(w) /\ cache[f].owner = job[w] => cache[f] = ProcessingBy(job[w])
        BY <1>0 DEF CacheEntry, ProcessingBy
      <4>3. cache[f].owner = job[w] => f = JobFp(w)
        BY <4>1 DEF JobFp
      <4>4. Held(cache[f].owner)
        BY <1>3, <3>1, <4>1, <4>2, <4>3 DEF Attended
      <4> QED BY <4>1, <4>4
    <3>2. CASE /\ cache' = cache
               /\ \/ wpc'[w] \notin GivenUp
                  \/ wpc[w] \in GivenUp
                  \/ cache[JobFp(w)] # ProcessingBy(job[w])
      <4>1. \A f \in Fingerprint : Good(f, cache'[f])
        BY <3>1, <3>2
      <4> QED BY <3>a, <4>1
    <3>3. CASE cache' = [cache EXCEPT ![JobFp(w)] = ProcessingBy(job[w])] /\ wpc'[w] \notin GivenUp
      <4>1. Good(JobFp(w), ProcessingBy(job[w]))
        BY <1>3, <3>3 DEF ProcessingBy, JobFp
      <4>2. \A f \in Fingerprint :
              cache'[f] = IF f = JobFp(w) THEN ProcessingBy(job[w]) ELSE cache[f]
        BY <1>0, <3>3
      <4>3. \A f \in Fingerprint : Good(f, cache'[f])
        BY <3>1, <4>1, <4>2
      <4> QED BY <3>a, <4>3
    <3>4. ASSUME NEW e \in {NoEntry, CompletedBy(job[w])},
                 cache' = [cache EXCEPT ![JobFp(w)] = e]
          PROVE  EntryAttended'
      <4>1. \A f \in Fingerprint : cache'[f] = IF f = JobFp(w) THEN e ELSE cache[f]
        BY <1>0, <3>4
      <4>2. \A f \in Fingerprint : Good(f, cache'[f])
        BY <3>1, <4>1 DEF NoEntry, CompletedBy
      <4> QED BY <3>a, <4>2
    <3> QED BY <1>3, <3>2, <3>3, <3>4 DEF WorkerAttention
  <2> QED BY <2>3, <2>4
<1> QED BY <1>1, <1>2, <1>3, WorkerAttentive

\* The invariant holds in every reachable state.
LEMMA AttendedInvariant ==
  ASSUME Uncut
  PROVE  Spec => []AttendedInv
<1>1. Init => AttendedInv
  <2> SUFFICES ASSUME Init PROVE AttendedInv
    OBVIOUS
  <2>1. TypeOK /\ WorkerHasJob
    BY TypeInit DEF Init, ConsumerInit, WorkerHasJob
  <2>2. StatusAttended /\ EntryAttended
    BY DEF Init, SharedInit, NoEntry, StatusAttended, EntryAttended
  <2> QED BY <2>1, <2>2 DEF AttendedInv
<1>2. ASSUME AttendedInv, [Next]_vars PROVE AttendedInv'
  <2>1. TypeOK' /\ WorkerHasJob'
    BY <1>2, TypeStep, WorkerHasJobStep DEF AttendedInv
  <2>2. (StatusAttended /\ EntryAttended)'
    <3>1. ASSUME NEW t \in Task, HandlerProceeds(t) \/ HandlerSuffers(t)
          PROVE  (StatusAttended /\ EntryAttended)'
      BY <1>2, <3>1, HandlerAttends
    <3>2. ASSUME NEW w \in Worker, WorkerProceeds(w) \/ WorkerSuffers(w)
          PROVE  (StatusAttended /\ EntryAttended)'
      BY <1>2, <3>2, WorkerAttends
    <3>3. CASE UNCHANGED <<cache, task, queue, pc, wpc, job>>
      BY <1>2, <3>3 DEF AttendedInv, StatusAttended, EntryAttended, Attended, InQueue
    <3> QED BY <1>2, <3>1, <3>2, <3>3
      DEF Next, AllDone, ArtifactLost, LeaseExpires, vars, redisVars, storageVars, handlerVars,
          workerVars
  <2> QED BY <2>1, <2>2 DEF AttendedInv
<1> QED BY <1>1, <1>2, PTL DEF Spec

\* Attended is in flight.
LEMMA AttendedInFlight ==
  ASSUME NEW u, NEW steps \in SUBSET {"putTask", "putCache", "push", "undo", "regFail", "regClear"},
         NEW over, Attended(u, steps, over)
  PROVE  InFlight(u)
BY DEF Attended, InFlight, Registering, OnWorker

-----------------------------------------------------------------------------
(* The theorems.                                                           *)

\* A "processing" cache entry always names a task that is under way.
THEOREM EntryOwnerLives ==
  ASSUME Uncut
  PROVE  Spec => []EntryHasLiveOwner
<1>1. AttendedInv => EntryHasLiveOwner
  BY AttendedInFlight DEF AttendedInv, EntryAttended, EntryHasLiveOwner
<1> QED BY AttendedInvariant, <1>1, PTL

\* A task the client sees queued or processing is always under way.
THEOREM NoTaskForgotten ==
  ASSUME Uncut
  PROVE  Spec => []NoStuckTask
<1>1. AttendedInv => NoStuckTask
  BY AttendedInFlight DEF AttendedInv, StatusAttended, NoStuckTask
<1> QED BY AttendedInvariant, <1>1, PTL

-----------------------------------------------------------------------------
(* Locks.  Here the delivery of each job to one worker is needed.          *)

\* No registration is ever undone.
NoErrorPath == \A t \in Task : pc[t] \notin {"undo", "regFail", "regClear"}

\* A worker about to let go of its job has given the task a terminal status.
StatusSettled ==
  \A w \in Worker : wpc[w] \in Settled => Terminal(job[w])

LiveInv ==
  /\ OnceInv
  /\ WorkerHasJob
  /\ NoErrorPath
  /\ LeaseHasLiveOwner
  /\ StatusSettled

-----------------------------------------------------------------------------
(* Work in flight stays in flight until a worker lets go of it.            *)

LEMMA HandlerKeepsInFlight ==
  ASSUME LiveInv, Calm, NEW t \in Task, HandlerProceeds(t) \/ HandlerSuffers(t)
  PROVE  \A u \in Task : InFlight(u) => InFlight(u)'
<1>0. TypeOK /\ "lostReply" \notin Faults
  BY DEF LiveInv, OnceInv, Calm
<1>1. CASE PushJob(t)
  <2>1. /\ pc' = [pc EXCEPT ![t] = "enqueued"] /\ job' = job
        /\ \A u \in Task : InQueue(u)' <=> InQueue(u) \/ u = t
    BY <1>0, <1>1, EnqueueOne DEF PushJob, Go, OnlyRedis, workerVars
  <2>2. \A u \in Task : OnWorker(u)' <=> OnWorker(u)
    BY <2>1 DEF OnWorker
  <2> QED BY <1>0, <2>1, <2>2 DEF InFlight, Registering, TypeOK
<1>2. CASE QuietHandler(t)
  <2>1. \A u \in Task : (InQueue(u)' <=> InQueue(u)) /\ (OnWorker(u)' <=> OnWorker(u))
    BY <1>2 DEF QuietHandler, InQueue, OnWorker
  <2>2. \A u \in Task \ {t} : pc'[u] = pc[u]
    BY <1>0, <1>2 DEF QuietHandler, TypeOK
  <2>3. pc[t] \in {"putTask", "putCache"} => pc'[t] \in {"putCache", "push"}
    <3>1. CASE HandlerProceeds(t)
      <4>1. pc[t] \in {"putTask", "putCache"} => PutTask(t) \/ PutCache(t)
        BY <3>1
          DEF HandlerProceeds, Upload, LookupCache, CheckArtifacts, ReuseArtifact,
              AliasCompletedCache, PurgeRegistration, GetLock, OwnerState, AttachToOwner,
              DropStaleEntry, AcquireLock, GetLockOwner, LockOwnerState, DeleteLock,
              AcquireLockAgain, PushJob, UndoLock, FailRegistration, ClearRegistration, Reject,
              Elect, RemoveRaw, At
      <4> QED BY <1>0, <4>1 DEF PutTask, PutCache, At, Go, TypeOK
    <3>2. CASE HandlerSuffers(t)
      BY <1>0, <3>2
        DEF Calm, Uncut, HandlerSuffers, RedisCommandFails, StorageCallFails, ExpireFails,
            AcquireLockRetried, PushRetried, PushUnacknowledged, Abort, StorageStep
    <3> QED BY <3>1, <3>2
  <2>4. pc[t] = "push" => PushJob(t)
    <3>1. CASE HandlerProceeds(t)
      BY <1>0, <3>1
        DEF HandlerProceeds, Upload, LookupCache, CheckArtifacts, ReuseArtifact,
            AliasCompletedCache, PurgeRegistration, GetLock, OwnerState, AttachToOwner,
            DropStaleEntry, AcquireLock, GetLockOwner, LockOwnerState, DeleteLock,
            AcquireLockAgain, PutTask, PutCache, UndoLock, FailRegistration, ClearRegistration,
            Reject, Elect, RemoveRaw, At
    <3>2. CASE HandlerSuffers(t)
      BY <1>0, <3>2
        DEF Calm, Uncut, HandlerSuffers, RedisCommandFails, StorageCallFails, ExpireFails,
            AcquireLockRetried, PushRetried, PushUnacknowledged, Abort, StorageStep
    <3> QED BY <3>1, <3>2
  <2>5. Registering(t) => Registering(t)' \/ PushJob(t)
    BY <2>3, <2>4 DEF LiveInv, NoErrorPath, Registering
  <2> QED BY <1>1, <2>1, <2>2, <2>5 DEF InFlight, Registering
<1> QED BY <1>0, <1>1, <1>2, HandlerSteps

LEMMA WorkerKeepsInFlight ==
  ASSUME LiveInv, Calm, NEW w \in Worker, WorkerProceeds(w) \/ WorkerSuffers(w)
  PROVE  \A u \in Task :
           InFlight(u) => InFlight(u)' \/ (wpc[w] \in {"release", "failRelease"} /\ u = job[w])
<1>0. TypeOK
  BY DEF LiveInv, OnceInv
<1>1. \A u \in Task : Registering(u)' <=> Registering(u)
  BY <1>0, WorkerSteps DEF Registering
<1>2. CASE Pop(w)
  <2>1. PICK t \in Task : /\ job' = [job EXCEPT ![w] = t]
                         /\ \A u \in Task : InQueue(u)' <=> InQueue(u) /\ u # t
    BY <1>0, <1>2, PopOne DEF LiveInv, OnceInv, DeliveredOnce
  <2>2. job[w] \notin Task
    BY <1>2, ConstantsAssumption DEF Pop, Doing, LiveInv, WorkerHasJob
  <2>3. \A u \in Task : OnWorker(u) => OnWorker(u)'
    BY <1>0, <2>1, <2>2 DEF OnWorker, TypeOK
  <2>4. OnWorker(t)'
    BY <1>0, <2>1 DEF OnWorker, TypeOK
  <2> QED BY <1>1, <2>1, <2>3, <2>4 DEF InFlight
<1>3. CASE UNCHANGED <<queue, job>>
  BY <1>1, <1>3 DEF InFlight, InQueue, OnWorker
<1>4. CASE queue' = queue /\ job' = [job EXCEPT ![w] = NoTask] /\ ~Pop(w) /\ job' # job
  <2>1. wpc[w] \in {"release", "failRelease"}
    <3> USE DEF OnlyRedisOf, OnlyWorker
    <3>1. CASE WorkerProceeds(w)
      BY <1>4, <3>1 DEF WorkerProceeds, CheckCache, CheckObjects, ApplyCachedCompletion,
         RejectBoolFields, RemoveRedundantRaw, DropUnusableEntry, MarkProcessingTask,
         MarkProcessingCache, DownloadRaw, RunService, UploadIndex, UploadMeta, UploadResult,
         CompleteTask, CompleteCache, ReleaseOwnedLock, FailTask, ClearOwnedCache, Store
    <3>2. CASE WorkerSuffers(w)
      BY <1>4, <3>2
        DEF Calm, Uncut, WorkerSuffers, ServiceRaises, CallRaises, ExpireRaises, HandlerRaises,
            WorkerCrashes
    <3> QED BY <3>1, <3>2
  <2>2. \A u \in Task : InQueue(u)' <=> InQueue(u)
    BY <1>4 DEF InQueue
  <2>3. \A u \in Task : OnWorker(u) => OnWorker(u)' \/ u = job[w]
    BY <1>0, <1>4 DEF OnWorker, TypeOK
  <2> QED BY <1>1, <2>1, <2>2, <2>3 DEF InFlight
<1> QED BY <1>0, <1>2, <1>3, <1>4, WorkerSteps

-----------------------------------------------------------------------------
(* Every step preserves the invariant.                                     *)

LEMMA LiveStep ==
  ASSUME LiveInv, OnceInv', WorkerHasJob', Calm, [Next]_vars
  PROVE  LiveInv'
<1> USE ConstantsAssumption
    DEF LiveInv, LeaseHasLiveOwner, NoErrorPath, StatusSettled, Settled, OnceInv, TypeOK,
        WorkerHasJob,
        JobFp, Terminal, vars, redisVars, storageVars, handlerVars, workerVars,
        NoEntry, ProcessingBy, CompletedBy, SetStatus, SetCache, SetLock
<1>1. ASSUME NEW t \in Task, HandlerProceeds(t) PROVE LiveInv'
  <2> USE DEF At, Go, OnlyRedis, OnlyControl
  <2>a. \A u \in Task : InFlight(u) => InFlight(u)'
    BY <1>1, HandlerKeepsInFlight
  <2>b. pc'[t] \in {"putTask", "putCache", "push"} => InFlight(t)'
    BY DEF InFlight, Registering
  <2>c. \A w \in Worker : job[w] \in Task => pc[job[w]] = "enqueued"
    BY DEF PushedByEnqueued, OnWorker
  <2>1. CASE Upload(t)
    BY <2>1, <2>a, <2>b, <2>c DEF Upload
  <2>2. CASE LookupCache(t)
    BY <2>2, <2>a, <2>b, <2>c DEF LookupCache
  <2>3. CASE CheckArtifacts(t)
    BY <2>3, <2>a, <2>b, <2>c DEF CheckArtifacts
  <2>4. CASE ReuseArtifact(t)
    BY <2>4, <2>a, <2>b, <2>c DEF ReuseArtifact, RemoveRaw
  <2>5. CASE AliasCompletedCache(t)
    BY <2>5, <2>a, <2>b, <2>c DEF AliasCompletedCache
  <2>6. CASE PurgeRegistration(t)
    BY <2>6, <2>a, <2>b, <2>c DEF PurgeRegistration
  <2>7. CASE GetLock(t)
    BY <2>7, <2>a, <2>b, <2>c DEF GetLock
  <2>8. CASE OwnerState(t)
    BY <2>8, <2>a, <2>b, <2>c DEF OwnerState
  <2>9. CASE AttachToOwner(t)
    BY <2>9, <2>a, <2>b, <2>c DEF AttachToOwner, RemoveRaw
  <2>10. CASE DropStaleEntry(t)
    BY <2>10, <2>a, <2>b, <2>c DEF DropStaleEntry
  <2>11. CASE AcquireLock(t)
    <3>1. CASE lock[FpOf[t]] = NoTask
      <4>1. /\ lock' = [lock EXCEPT ![FpOf[t]] = t] /\ pc' = [pc EXCEPT ![t] = "putTask"]
            /\ UNCHANGED <<cache, task, wpc, job>>
        BY <2>11, <3>1 DEF AcquireLock, Elect
      <4>2. InFlight(t)'
        BY <2>b, <4>1
      <4>3. LeaseHasLiveOwner'
        BY <2>a, <4>1, <4>2
      <4>4. NoErrorPath'
        BY <4>1
      <4>5. StatusSettled'
        BY <2>a, <4>1
      <4> QED BY <4>3, <4>4, <4>5
    <3>2. CASE lock[FpOf[t]] # NoTask
      BY <2>11, <2>a, <2>b, <2>c, <3>2 DEF AcquireLock, Elect
    <3> QED BY <3>1, <3>2
  <2>12. CASE GetLockOwner(t)
    BY <2>12, <2>a, <2>b, <2>c DEF GetLockOwner
  <2>13. CASE LockOwnerState(t)
    BY <2>13, <2>a, <2>b, <2>c DEF LockOwnerState
  <2>14. CASE DeleteLock(t)
    BY <2>14, <2>a, <2>b, <2>c DEF DeleteLock
  <2>15. CASE AcquireLockAgain(t)
    <3>1. CASE lock[FpOf[t]] = NoTask
      <4>1. /\ lock' = [lock EXCEPT ![FpOf[t]] = t] /\ pc' = [pc EXCEPT ![t] = "putTask"]
            /\ UNCHANGED <<cache, task, wpc, job>>
        BY <2>15, <3>1 DEF AcquireLockAgain, Elect
      <4>2. InFlight(t)'
        BY <2>b, <4>1
      <4>3. LeaseHasLiveOwner'
        BY <2>a, <4>1, <4>2
      <4>4. NoErrorPath'
        BY <4>1
      <4>5. StatusSettled'
        BY <2>a, <4>1
      <4> QED BY <4>3, <4>4, <4>5
    <3>2. CASE lock[FpOf[t]] # NoTask
      BY <2>15, <2>a, <2>b, <2>c, <3>2 DEF AcquireLockAgain, Elect
    <3> QED BY <3>1, <3>2
  <2>16. CASE PutTask(t)
    BY <2>16, <2>a, <2>b, <2>c DEF PutTask
  <2>17. CASE PutCache(t)
    BY <2>17, <2>a, <2>b, <2>c DEF PutCache
  <2>18. CASE PushJob(t)
    BY <2>18, <2>a, <2>b, <2>c DEF PushJob, Enqueue
  <2>19. CASE UndoLock(t)
    BY <2>19, <2>a, <2>b, <2>c DEF UndoLock
  <2>20. CASE FailRegistration(t)
    BY <2>20, <2>a, <2>b, <2>c DEF FailRegistration
  <2>21. CASE ClearRegistration(t)
    BY <2>21, <2>a, <2>b, <2>c DEF ClearRegistration
  <2>22. CASE Reject(t)
    BY <2>22, <2>a, <2>b, <2>c DEF Reject, RemoveRaw
  <2> QED BY <1>1, <2>1, <2>2, <2>3, <2>4, <2>5, <2>6, <2>7, <2>8, <2>9, <2>10, <2>11, <2>12,
     <2>13, <2>14, <2>15, <2>16, <2>17, <2>18, <2>19, <2>20, <2>21, <2>22
    DEF HandlerProceeds
<1>2. ASSUME NEW t \in Task, HandlerSuffers(t) PROVE LiveInv'
  <2>a. \A u \in Task : InFlight(u) => InFlight(u)'
    BY <1>2, HandlerKeepsInFlight
  <2>1. StorageCallFails(t)
    BY <1>2
      DEF Calm, Uncut, HandlerSuffers, RedisCommandFails, ExpireFails, AcquireLockRetried,
          PushRetried, PushUnacknowledged, Abort
  <2> QED BY <2>1, <2>a
    DEF StorageCallFails, AfterStorageError, StorageStep, Go, OnlyControl, HandlerStep
<1>3. ASSUME NEW w \in Worker, WorkerProceeds(w) PROVE LiveInv'
  <2> USE DEF Doing, Then, OnlyRedisOf, OnlyWorker
  <2>a. \A u \in Task :
          InFlight(u) => InFlight(u)' \/ (wpc[w] \in {"release", "failRelease"} /\ u = job[w])
    BY <1>3, WorkerKeepsInFlight
  <2>b. \A v \in Worker : job[v] \in Task => InFlight(job[v])
    BY DEF InFlight, OnWorker
  <2>c. \A v \in Worker : v # w /\ job[w] \in Task => job[v] # job[w]
    BY DEF DeliveredOnce, NoSharedJob
  <2>1. CASE Pop(w)
    BY <2>1, <2>a, <2>b, <2>c DEF Pop
  <2>2. CASE CheckCache(w)
    BY <2>2, <2>a, <2>b, <2>c DEF CheckCache
  <2>3. CASE CheckObjects(w)
    BY <2>3, <2>a, <2>b, <2>c DEF CheckObjects
  <2>4. CASE ApplyCachedCompletion(w)
    BY <2>4, <2>a, <2>b, <2>c DEF ApplyCachedCompletion
  <2>5. CASE RejectBoolFields(w)
    BY <2>5, <2>a, <2>b, <2>c DEF RejectBoolFields
  <2>6. CASE RemoveRedundantRaw(w)
    BY <2>6, <2>a, <2>b, <2>c DEF RemoveRedundantRaw
  <2>7. CASE DropUnusableEntry(w)
    BY <2>7, <2>a, <2>b, <2>c DEF DropUnusableEntry
  <2>8. CASE MarkProcessingTask(w)
    BY <2>8, <2>a, <2>b, <2>c DEF MarkProcessingTask
  <2>9. CASE MarkProcessingCache(w)
    BY <2>9, <2>a, <2>b, <2>c DEF MarkProcessingCache
  <2>10. CASE DownloadRaw(w)
    BY <2>10, <2>a, <2>b, <2>c DEF DownloadRaw
  <2>11. CASE RunService(w)
    BY <2>11, <2>a, <2>b, <2>c DEF RunService
  <2>12. CASE UploadIndex(w)
    BY <2>12, <2>a, <2>b, <2>c DEF UploadIndex, Store
  <2>13. CASE UploadMeta(w)
    BY <2>13, <2>a, <2>b, <2>c DEF UploadMeta, Store
  <2>14. CASE UploadResult(w)
    BY <2>14, <2>a, <2>b, <2>c DEF UploadResult, Store
  <2>15. CASE CompleteTask(w)
    BY <2>15, <2>a, <2>b, <2>c DEF CompleteTask
  <2>16. CASE CompleteCache(w)
    BY <2>16, <2>a, <2>b, <2>c DEF CompleteCache
  <2>17. CASE ReleaseOwnedLock(w)
    <3>1. /\ wpc[w] \in {"release", "failRelease"} /\ job[w] \in Task
          /\ wpc' = [wpc EXCEPT ![w] = "idle"] /\ job' = [job EXCEPT ![w] = NoTask]
          /\ UNCHANGED <<cache, task, pc>>
      BY <2>17 DEF ReleaseOwnedLock, NextIteration
    <3>2. \A u \in Task \ {job[w]} : InFlight(u) => InFlight(u)'
      BY <2>a
    <3>3. \A f \in Fingerprint : lock'[f] # NoTask => lock'[f] = lock[f] /\ lock'[f] # job[w]
      <4>1. CASE lock[JobFp(w)] = job[w]
        BY <2>17, <3>1, <4>1 DEF ReleaseOwnedLock
      <4>2. CASE lock[JobFp(w)] # job[w]
        BY <2>17, <3>1, <4>2 DEF ReleaseOwnedLock
      <4> QED BY <4>1, <4>2
    <3>4. LeaseHasLiveOwner'
      BY <3>2, <3>3
    <3>5. (NoErrorPath /\ StatusSettled)'
      BY <3>1
    <3> QED BY <3>4, <3>5
  <2>18. CASE FailTask(w)
    BY <2>18, <2>a, <2>b, <2>c DEF FailTask
  <2>19. CASE ClearOwnedCache(w)
    BY <2>19, <2>a, <2>b, <2>c DEF ClearOwnedCache
  <2> QED BY <1>3, <2>1, <2>2, <2>3, <2>4, <2>5, <2>6, <2>7, <2>8, <2>9, <2>10, <2>11, <2>12,
     <2>13, <2>14, <2>15, <2>16, <2>17, <2>18, <2>19
    DEF WorkerProceeds
<1>4. ASSUME NEW w \in Worker, WorkerSuffers(w) PROVE LiveInv'
  <2>1. ServiceRaises(w)
    BY <1>4
      DEF Calm, Uncut, WorkerSuffers, CallRaises, ExpireRaises, HandlerRaises, WorkerCrashes
  <2>2. \A u \in Task : InFlight(u) => InFlight(u)'
    BY <1>4, <2>1, WorkerKeepsInFlight DEF ServiceRaises, Doing
  <2> QED BY <2>1, <2>2 DEF ServiceRaises, Doing, Then, OnlyWorker
<1>5. ASSUME UNCHANGED <<cache, task, queue, pc, wpc, job>>,
             \A f \in Fingerprint : lock'[f] \in {lock[f], NoTask}
      PROVE LiveInv'
  <2>1. \A u \in Task : InFlight(u)' <=> InFlight(u)
    BY <1>5 DEF InFlight, Registering, InQueue, OnWorker
  <2> QED BY <1>5, <2>1
<1> QED BY <1>1, <1>2, <1>3, <1>4, <1>5 DEF Next, AllDone, ArtifactLost, LeaseExpires

\* The invariant holds in every reachable state.
LEMMA LiveInvariant ==
  ASSUME Calm
  PROVE  Spec => []LiveInv
<1>1. Init => LiveInv
  BY OnceInit, ConstantsAssumption
  DEF Init, SharedInit, GatewayInit, ConsumerInit, LiveInv, WorkerHasJob, NoErrorPath,
      LeaseHasLiveOwner, StatusSettled, Settled
<1>2. LiveInv /\ [Next]_vars => LiveInv'
  BY TypeStep, OnceStep, WorkerHasJobStep, LiveStep DEF LiveInv, OnceInv, Calm
<1> QED BY <1>1, <1>2, PTL DEF Spec

\* A processing lock always has an owner that will release it.
THEOREM LeaseOwnerLives ==
  ASSUME Calm
  PROVE  Spec => []LeaseHasLiveOwner
<1>1. LiveInv => LeaseHasLiveOwner
  BY DEF LiveInv
<1> QED BY LiveInvariant, <1>1, PTL

-----------------------------------------------------------------------------
(* Where duplicates are sent.                                              *)

\* The owner a handler has read is under way or has ended, however much later it uses it.
OwnerFollowed ==
  \A t \in Task :
    pc[t] \in {"ownerState", "ownerStateAgain", "attach"} =>
      owner[t] \in Task /\ (InFlight(owner[t]) \/ Terminal(owner[t]))

\* A task is never left without a status of its own and without anyone working on it.
LEMMA StaysAccountedFor ==
  ASSUME LiveInv, Calm, [Next]_vars
  PROVE  \A u \in Task : InFlight(u) \/ Terminal(u) => InFlight(u)' \/ Terminal(u)'
<1> USE DEF vars, redisVars, storageVars, handlerVars, workerVars, SetStatus, Terminal
<1>0. TypeOK
  BY DEF LiveInv, OnceInv
<1>1. ASSUME NEW t \in Task, HandlerProceeds(t) \/ HandlerSuffers(t)
      PROVE  \A u \in Task : InFlight(u) \/ Terminal(u) => InFlight(u)' \/ Terminal(u)'
  <2> USE DEF At, Go, OnlyRedis, OnlyControl
  <2>1. \A u \in Task : InFlight(u) => InFlight(u)'
    BY <1>1, HandlerKeepsInFlight
  <2>2. \/ task' = task
        \/ \E s \in {"completed", "failed"} : task' = [task EXCEPT ![t] = s]
        \/ PutTask(t)
    <3>1. CASE HandlerProceeds(t)
      BY <3>1
        DEF HandlerProceeds, Upload, LookupCache, CheckArtifacts, ReuseArtifact,
            AliasCompletedCache, PurgeRegistration, GetLock, OwnerState, AttachToOwner,
            DropStaleEntry, AcquireLock, GetLockOwner, LockOwnerState, DeleteLock,
            AcquireLockAgain, PutCache, PushJob, UndoLock, FailRegistration, ClearRegistration,
            Reject, Elect, RemoveRaw
    <3>2. CASE HandlerSuffers(t)
      BY <3>2
        DEF Calm, Uncut, HandlerSuffers, RedisCommandFails, StorageCallFails, ExpireFails,
            AcquireLockRetried, PushRetried, PushUnacknowledged, Abort
    <3> QED BY <1>1, <3>1, <3>2
  <2>3. ASSUME PutTask(t) PROVE InFlight(t)' /\ \A u \in Task \ {t} : task'[u] = task[u]
    BY <1>0, <2>3 DEF PutTask, InFlight, Registering, TypeOK
  <2> QED BY <1>0, <2>1, <2>2, <2>3 DEF TypeOK
<1>2. ASSUME NEW w \in Worker, WorkerProceeds(w) \/ WorkerSuffers(w)
      PROVE  \A u \in Task : InFlight(u) \/ Terminal(u) => InFlight(u)' \/ Terminal(u)'
  <2> USE DEF Doing, Then, OnlyRedisOf, OnlyWorker
  <2>1. \A u \in Task :
          InFlight(u) => InFlight(u)' \/ (wpc[w] \in {"release", "failRelease"} /\ Terminal(u))
    BY <1>2, WorkerKeepsInFlight DEF LiveInv, StatusSettled, Settled
  <2>2. \/ task' = task
        \/ wpc[w] \notin {"release", "failRelease"}
           /\ \E s \in {"completed", "failed"} : task' = [task EXCEPT ![job[w]] = s]
        \/ MarkProcessingTask(w)
    <3>1. CASE WorkerProceeds(w)
      BY <3>1
        DEF WorkerProceeds, Pop, CheckCache, CheckObjects, ApplyCachedCompletion,
            RejectBoolFields, RemoveRedundantRaw, DropUnusableEntry, MarkProcessingCache,
            DownloadRaw, RunService, UploadIndex, UploadMeta, UploadResult, CompleteTask,
            CompleteCache, ReleaseOwnedLock, FailTask, ClearOwnedCache, Store
    <3>2. CASE WorkerSuffers(w)
      BY <3>2
        DEF Calm, Uncut, WorkerSuffers, ServiceRaises, CallRaises, ExpireRaises, HandlerRaises,
            WorkerCrashes
    <3> QED BY <1>2, <3>1, <3>2
  <2>3. ASSUME MarkProcessingTask(w)
        PROVE  /\ wpc[w] \notin {"release", "failRelease"} /\ InFlight(job[w])' /\ job' = job
               /\ \A u \in Task \ {job[w]} : task'[u] = task[u]
    BY <1>0, <2>3 DEF MarkProcessingTask, InFlight, OnWorker, LiveInv, TypeOK
  <2>4. CASE task' = task
    BY <2>1, <2>4
  <2>5. CASE MarkProcessingTask(w)
    BY <2>1, <2>3, <2>5
  <2>6. ASSUME wpc[w] \notin {"release", "failRelease"}, NEW s \in {"completed", "failed"},
               task' = [task EXCEPT ![job[w]] = s], NEW u \in Task, InFlight(u) \/ Terminal(u)
        PROVE  InFlight(u)' \/ Terminal(u)'
    <3>1. Terminal(u) => Terminal(u)'
      <4> HIDE DEF LiveInv
      <4> QED BY <1>0, <2>6 DEF TypeOK
    <3> QED BY <2>1, <2>6, <3>1
  <2> QED BY <2>2, <2>4, <2>5, <2>6
<1>3. ASSUME UNCHANGED <<task, queue, pc, job>>
      PROVE  \A u \in Task : InFlight(u) \/ Terminal(u) => InFlight(u)' \/ Terminal(u)'
  BY <1>3 DEF InFlight, Registering, InQueue, OnWorker
<1> QED BY <1>1, <1>2, <1>3 DEF Next, AllDone, ArtifactLost, LeaseExpires

\* Every step preserves the invariant.
LEMMA OwnerStep ==
  ASSUME LiveInv, OwnerFollowed, Calm, [Next]_vars
  PROVE  OwnerFollowed'
<1> USE ConstantsAssumption
    DEF OwnerFollowed, vars, redisVars, storageVars, handlerVars, workerVars
<1>0. TypeOK
  BY DEF LiveInv, OnceInv
<1>1. \A u \in Task : InFlight(u) \/ Terminal(u) => InFlight(u)' \/ Terminal(u)'
  BY StaysAccountedFor
<1>2. ASSUME NEW t \in Task, HandlerProceeds(t) \/ HandlerSuffers(t) PROVE OwnerFollowed'
  <2> USE DEF At, Go, OnlyRedis, OnlyControl
  <2>1. CASE GetLock(t) \/ GetLockOwner(t)
    <3>1. /\ owner' = [owner EXCEPT ![t] = lock[FpOf[t]]]
          /\ pc'[t] \in {"ownerState", "ownerStateAgain", "attach"} => lock[FpOf[t]] # NoTask
          /\ \A u \in Task \ {t} : pc'[u] = pc[u]
      BY <1>0, <2>1 DEF GetLock, GetLockOwner, TypeOK
    <3>2. lock[FpOf[t]] # NoTask => lock[FpOf[t]] \in Task /\ InFlight(lock[FpOf[t]])
      BY <1>0 DEF LiveInv, LeaseHasLiveOwner, TypeOK
    <3> QED BY <1>0, <1>1, <3>1, <3>2 DEF TypeOK
  <2>2. CASE ~(GetLock(t) \/ GetLockOwner(t))
    <3>1. owner' = owner /\ \A u \in Task \ {t} : pc'[u] = pc[u]
      <4>1. CASE HandlerProceeds(t)
        BY <1>0, <2>2, <4>1
          DEF HandlerProceeds, Upload, LookupCache, CheckArtifacts, ReuseArtifact,
              AliasCompletedCache, PurgeRegistration, OwnerState, AttachToOwner,
              DropStaleEntry, AcquireLock, LockOwnerState, DeleteLock, AcquireLockAgain,
              PutTask, PutCache, PushJob, UndoLock, FailRegistration, ClearRegistration,
              Reject, Elect, RemoveRaw, TypeOK
      <4>2. CASE HandlerSuffers(t)
        BY <1>0, <4>2
          DEF HandlerSuffers, RedisCommandFails, StorageCallFails, ExpireFails,
              AcquireLockRetried, PushRetried, PushUnacknowledged, Abort, TypeOK
      <4> QED BY <1>2, <4>1, <4>2
    <3>2. pc'[t] \in {"ownerState", "ownerStateAgain", "attach"}
            => pc[t] \in {"ownerState", "ownerStateAgain", "attach"}
      <4>1. CASE LookupCache(t)
        BY <1>0, <4>1 DEF LookupCache, TypeOK
      <4>2. CASE HandlerProceeds(t) /\ ~LookupCache(t)
        BY <1>0, <2>2, <4>2
          DEF HandlerProceeds, Upload, CheckArtifacts, ReuseArtifact, AliasCompletedCache,
              PurgeRegistration, OwnerState, AttachToOwner, DropStaleEntry, AcquireLock,
              LockOwnerState, DeleteLock, AcquireLockAgain, PutTask, PutCache, PushJob,
              UndoLock, FailRegistration, ClearRegistration, Reject, Elect, RemoveRaw, TypeOK
      <4>3. CASE HandlerSuffers(t)
        BY <1>0, <4>3
          DEF Calm, Uncut, HandlerSuffers, RedisCommandFails, StorageCallFails, ExpireFails,
              AcquireLockRetried, PushRetried, PushUnacknowledged, Abort, AfterStorageError,
              StorageStep, TypeOK
      <4> QED BY <1>2, <4>1, <4>2, <4>3
    <3> QED BY <1>1, <3>1, <3>2
  <2> QED BY <2>1, <2>2
<1>3. ASSUME UNCHANGED <<pc, owner>> PROVE OwnerFollowed'
  BY <1>1, <1>3
<1>4. ASSUME NEW w \in Worker, WorkerProceeds(w) \/ WorkerSuffers(w) PROVE UNCHANGED <<pc, owner>>
  <2> USE DEF OnlyRedisOf, OnlyWorker
  <2>1. CASE WorkerProceeds(w)
    BY <2>1
      DEF WorkerProceeds, Pop, CheckCache, CheckObjects, ApplyCachedCompletion,
          RejectBoolFields, RemoveRedundantRaw, DropUnusableEntry, MarkProcessingTask,
          MarkProcessingCache, DownloadRaw, RunService, UploadIndex, UploadMeta, UploadResult,
          CompleteTask, CompleteCache, ReleaseOwnedLock, FailTask, ClearOwnedCache, Store
  <2>2. CASE WorkerSuffers(w)
    BY <2>2
      DEF WorkerSuffers, ServiceRaises, CallRaises, ExpireRaises, HandlerRaises, WorkerCrashes
  <2> QED BY <1>4, <2>1, <2>2
<1> QED BY <1>2, <1>3, <1>4 DEF Next, AllDone, ArtifactLost, LeaseExpires

\* A duplicate is only ever sent to a task that is under way or has ended, although its
\* handler reads the owner's id several commands before it answers.
THEOREM AttachedToLiveOwner ==
  ASSUME Calm
  PROVE  Spec => AttachesToLiveOwner
<1>1. Init => OwnerFollowed
  BY DEF Init, GatewayInit, OwnerFollowed
<1>2. LiveInv /\ OwnerFollowed /\ [Next]_vars => OwnerFollowed'
  BY OwnerStep
<1>3. LiveInv /\ OwnerFollowed /\ [Next]_vars
        => [\A t \in Task : pc[t] # "attached" /\ pc'[t] = "attached" =>
              InFlight(owner[t]) \/ Terminal(owner[t])]_vars
  <2> SUFFICES ASSUME LiveInv, OwnerFollowed, Next, NEW u \in Task,
                      pc[u] # "attached", pc'[u] = "attached"
               PROVE  InFlight(owner[u]) \/ Terminal(owner[u])
    BY DEF vars
  <2> USE DEF vars, redisVars, storageVars, handlerVars, workerVars
  <2>0. TypeOK
    BY DEF LiveInv, OnceInv
  <2>1. ASSUME NEW t \in Task, HandlerProceeds(t) \/ HandlerSuffers(t) PROVE pc[u] = "attach"
    <3> USE DEF At, Go, OnlyRedis, OnlyControl
    <3>1. CASE LookupCache(t)
      BY <2>0, <3>1 DEF LookupCache, TypeOK
    <3>2. CASE HandlerProceeds(t) /\ ~LookupCache(t)
      BY <2>0, <3>2
        DEF HandlerProceeds, Upload, CheckArtifacts, ReuseArtifact, AliasCompletedCache,
            PurgeRegistration, GetLock, OwnerState, AttachToOwner, DropStaleEntry, AcquireLock,
            GetLockOwner, LockOwnerState, DeleteLock, AcquireLockAgain, PutTask, PutCache,
            PushJob, UndoLock, FailRegistration, ClearRegistration, Reject, Elect, RemoveRaw,
            TypeOK
    <3>3. CASE HandlerSuffers(t)
      BY <2>0, <3>3
        DEF Calm, Uncut, HandlerSuffers, RedisCommandFails, StorageCallFails, ExpireFails,
            AcquireLockRetried, PushRetried, PushUnacknowledged, Abort, AfterStorageError,
            StorageStep, TypeOK
    <3> QED BY <2>1, <3>1, <3>2, <3>3
  <2>2. ASSUME NEW w \in Worker, WorkerProceeds(w) \/ WorkerSuffers(w) PROVE pc' = pc
    BY <2>0, <2>2, WorkerSteps
  <2> QED BY <2>1, <2>2 DEF Next, AllDone, ArtifactLost, LeaseExpires, OwnerFollowed
<1> QED BY LiveInvariant, <1>1, <1>2, <1>3, PTL DEF Spec, AttachesToLiveOwner
=============================================================================
