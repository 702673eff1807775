----------------------------- MODULE Retention ------------------------------
(***************************************************************************)
(* The lifetimes of what one fingerprint leaves behind: the objects under  *)
(* cache/, which the storage removes a fixed time after their upload, the  *)
(* cache entry, and the task records, among them those that point at the   *)
(* objects of another task.  Each is written at another moment and expires *)
(* by itself; HSET keeps the time to live of a key that exists and gives   *)
(* none to one it creates, and EXPIRE is a command of its own.             *)
(*                                                                         *)
(* A task is a process: the request that registers it and then, once the   *)
(* job is popped, its worker, so that there are as many workers as jobs at *)
(* work.  Each command on the entry, which all share, is a step.  Locks    *)
(* are left out: a request that cannot reuse the entry may always come to  *)
(* own the work, as it does once the lease of another owner has run out.   *)
(***************************************************************************)
EXTENDS Integers

CONSTANTS
  Task,       \* task ids
  NoTask,     \* the owner of no entry
  Part,       \* the objects of one result
  CacheTTL,   \* CACHE_TTL_SECONDS: seven days
  TaskTTL,    \* TASK_TTL_SECONDS: one day
  ObjectTTL,  \* maxAge of cache/ in lifecycle.json: eight days
  Delay,      \* the longest time from the lookup of an entry to the record it leads to,
              \* and from an HSET of the entry to its EXPIRE
  Lag,        \* the longest time from the first upload to the EXPIRE of the completed entry
  Horizon,    \* bound: the time at which the clock stops
  Forever     \* the expiry of a key without time to live

ASSUME RetentionAssumption ==
  /\ {CacheTTL, TaskTTL, ObjectTTL, Horizon} \subseteq Nat \ {0}
  /\ {Delay, Lag, Forever} \subseteq Nat
  /\ Lag < ObjectTTL
  /\ Forever > Horizon + CacheTTL + TaskTTL
  /\ NoTask \notin Task
  /\ Part # {}

VARIABLES
  now,     \* the time
  object,  \* when the storage removes each object, 0 before its upload
  entry,   \* the cache entry: status, owner, expiry
  record,  \* the task records: completed or not ("unfinished": queued, processing, failed,
           \* as nothing here depends on which), expiry
  role,    \* request or job
  pc,      \* the next command of each task's process
  since,   \* when the process read or marked the entry or began to upload
  stored,  \* the objects the process has uploaded and not yet published
  lost     \* history: an EXPIRE of the entry was not executed

timeVars    == <<since, stored>>
processVars == <<role, timeVars>>
vars == <<now, object, entry, record, processVars, pc, lost>>

Absent == [status |-> "absent", owner |-> NoTask, expiry |-> 0]
Unused == [status |-> "unfinished", expiry |-> 0]

EntryLives == entry.expiry > now

\* Mutant: the objects are taken to be there.
AvailableUnchecked == TRUE

\* cacheArtifactsAvailable
Available == \A p \in Part : object[p] > now

Goto(t, l) == pc' = [pc EXCEPT ![t] = l]
Within(t)  == since' = [since EXCEPT ![t] = now]

\* What is timed is over, and with it what was uploaded.
Leave(t, l) ==
  /\ Goto(t, l)
  /\ since' = [since EXCEPT ![t] = 0]
  /\ stored' = [stored EXCEPT ![t] = {}]

\* HSET of a key with this expiry.
Kept(expiry) == IF expiry > now THEN expiry ELSE Forever

PutRecord(t, s) ==
  record' = [record EXCEPT ![t] = [status |-> s, expiry |-> Kept(@.expiry)]]

\* HSET and EXPIRE: nobody else writes the record.
SetRecord(t, s) ==
  record' = [record EXCEPT ![t] = [status |-> s, expiry |-> now + TaskTTL]]

PutEntry(t, s) == entry' = [status |-> s, owner |-> t, expiry |-> Kept(entry.expiry)]

Init ==
  /\ now = 1
  /\ object = [p \in Part |-> 0]
  /\ entry = Absent
  /\ record = [t \in Task |-> Unused]
  /\ role = [t \in Task |-> "request"]
  /\ pc = [t \in Task |-> "unused"]
  /\ since = [t \in Task |-> 0]
  /\ stored = [t \in Task |-> {}]
  /\ lost = FALSE

-----------------------------------------------------------------------------
\* HGETALL of the entry by a request that arrives or a worker that pops the job.  A
\* request that finds work under way is about to delete what is stale of it; one that is
\* attached to it does nothing more.
Lookup(t) ==
  /\ pc[t] \in {"unused", "queued"}
  /\ role' = [role EXCEPT ![t] = IF pc[t] = "queued" THEN "job" ELSE @]
  /\ IF EntryLives /\ entry.status = "completed"
       THEN Goto(t, "check") /\ Within(t)
       ELSE /\ Goto(t, IF EntryLives /\ pc[t] = "unused" THEN "delete" ELSE "mark")
            /\ UNCHANGED since
  /\ UNCHANGED <<now, object, entry, record, stored, lost>>

Check(t) ==
  /\ pc[t] = "check"
  /\ IF Available THEN Goto(t, "alias") /\ UNCHANGED timeVars ELSE Leave(t, "delete")
  /\ UNCHANGED <<now, object, entry, record, role, lost>>

\* aliasCompletedCache, _apply_cached_completion
Alias(t) ==
  /\ pc[t] = "alias"
  /\ SetRecord(t, "completed")
  /\ Leave(t, "over")
  /\ UNCHANGED <<now, object, entry, role, lost>>

\* DEL of the entry, whoever has written it meanwhile.
Delete(t) ==
  /\ pc[t] = "delete"
  /\ entry' = Absent
  /\ Goto(t, "mark")
  /\ UNCHANGED <<now, object, record, processVars, lost>>

\* The record, and HSET of the entry as "processing": by the request and again by the
\* worker.
Mark(t) ==
  /\ pc[t] = "mark"
  /\ SetRecord(t, "unfinished")
  /\ PutEntry(t, "processing")
  /\ Within(t)
  /\ Goto(t, "renew")
  /\ UNCHANGED <<now, object, role, stored, lost>>

\* EXPIRE, which does nothing to a key that is gone.
ExpireEntry == entry' = IF EntryLives THEN [entry EXCEPT !.expiry = now + CacheTTL] ELSE entry

Renew(t) ==
  /\ pc[t] = "renew"
  /\ ExpireEntry
  /\ Leave(t, IF role[t] = "request" THEN "push" ELSE "work")
  /\ UNCHANGED <<now, object, record, role, lost>>

Push(t) ==
  /\ pc[t] = "push"
  /\ Goto(t, "queued")
  /\ UNCHANGED <<now, object, entry, record, processVars, lost>>

\* failRegisteredProcessing
PushFails(t) ==
  /\ pc[t] = "push"
  /\ SetRecord(t, "unfinished")
  /\ entry' = Absent
  /\ Goto(t, "over")
  /\ UNCHANGED <<now, object, processVars, lost>>

Upload(t, p) ==
  /\ pc[t] = "work"
  /\ p \notin stored[t]
  /\ object' = [object EXCEPT ![p] = now + ObjectTTL]
  /\ stored' = [stored EXCEPT ![t] = @ \cup {p}]
  /\ IF stored[t] = {} THEN Within(t) ELSE UNCHANGED since
  /\ UNCHANGED <<now, entry, record, role, pc, lost>>

\* _mark_completed: the record, then the entry.
Complete(t) ==
  /\ pc[t] = "work"
  /\ stored[t] = Part
  /\ SetRecord(t, "completed")
  /\ Goto(t, "publish")
  /\ UNCHANGED <<now, object, entry, processVars, lost>>

\* Mutant: the status is written with another spelling.
PublishMisspelled(t) ==
  /\ pc[t] = "publish"
  /\ PutEntry(t, "complete")
  /\ Goto(t, "seal")
  /\ UNCHANGED <<now, object, record, processVars, lost>>

Publish(t) ==
  /\ pc[t] = "publish"
  /\ PutEntry(t, "completed")
  /\ Goto(t, "seal")
  /\ UNCHANGED <<now, object, record, processVars, lost>>

\* Mutant: the entry is taken to have the time to live it was marked with.
SealNothing(t) ==
  /\ pc[t] = "seal"
  /\ Leave(t, "over")
  /\ UNCHANGED <<now, object, entry, record, role, lost>>

Seal(t) ==
  /\ pc[t] = "seal"
  /\ ExpireEntry
  /\ Leave(t, "over")
  /\ UNCHANGED <<now, object, record, role, lost>>

\* An exception in the worker, then clear_owned_cache.
Fail(t) ==
  /\ role[t] = "job"
  /\ pc[t] \notin {"unused", "queued", "clear", "over"}
  /\ SetRecord(t, "unfinished")
  /\ Leave(t, "clear")
  /\ lost' = (lost \/ pc[t] \in {"renew", "seal"})
  /\ UNCHANGED <<now, object, entry, role>>

Clear(t) ==
  /\ pc[t] = "clear"
  /\ entry' = IF entry.owner = t THEN Absent ELSE entry
  /\ Goto(t, "over")
  /\ UNCHANGED <<now, object, record, processVars, lost>>

\* A worker that dies, and a request whose command fails or whose client goes away:
\* nothing more is done.
Die(t) ==
  /\ pc[t] \notin {"unused", "queued", "over"}
  /\ Leave(t, "over")
  /\ lost' = (lost \/ pc[t] \in {"renew", "seal"})
  /\ UNCHANGED <<now, object, entry, record, role>>

\* The same between the HSET of the record and its EXPIRE.
DieBeforeExpiry(t) ==
  /\ \/ pc[t] = "alias" /\ PutRecord(t, "completed")
     \/ pc[t] = "work" /\ stored[t] = Part /\ PutRecord(t, "completed")
  /\ Leave(t, "over")
  /\ UNCHANGED <<now, object, entry, role, lost>>

\* Whether the process must be done with what it does within Delay, within Lag.
Reacting(t)   == pc[t] \in {"check", "alias", "renew"}
Completing(t) == pc[t] \in {"publish", "seal"} \/ (pc[t] = "work" /\ stored[t] # {})

\* Time passes, but not beyond the time the processes take.
Tick ==
  /\ now < Horizon
  /\ \A t \in Task :
       /\ Reacting(t) => now < since[t] + Delay
       /\ Completing(t) => now < since[t] + Lag
  /\ now' = now + 1
  /\ UNCHANGED <<object, entry, record, processVars, pc, lost>>

Next ==
  \/ Tick
  \/ \E t \in Task :
       \/ Lookup(t) \/ Check(t) \/ Alias(t) \/ Delete(t)
       \/ Mark(t) \/ Renew(t) \/ Push(t) \/ PushFails(t)
       \/ \E p \in Part : Upload(t, p)
       \/ Complete(t) \/ Publish(t) \/ Seal(t)
       \/ Fail(t) \/ Clear(t) \/ Die(t) \/ DieBeforeExpiry(t)

Spec == Init /\ [][Next]_vars

-----------------------------------------------------------------------------
Time == 0 .. (Horizon + CacheTTL + TaskTTL + ObjectTTL)

\* The types of the records and times.
TypeOK ==
  /\ now \in 1 .. Horizon
  /\ object \in [Part -> Time]
  /\ entry \in [status : {"absent", "processing", "completed"},
                owner : Task \cup {NoTask}, expiry : Time \cup {Forever}]
  /\ record \in [Task -> [status : {"unfinished", "completed"}, expiry : Time \cup {Forever}]]
  /\ role \in [Task -> {"request", "job"}]
  /\ pc \in [Task -> {"unused", "check", "alias", "delete", "mark", "renew", "push",
                      "queued", "work", "publish", "seal", "clear", "over"}]
  /\ since \in [Task -> 0 .. Horizon]
  /\ stored \in [Task -> SUBSET Part]
  /\ lost \in BOOLEAN

\* How long a completed task may outlive its objects: less than its own time to live
\* when an EXPIRE of the entry was lost, otherwise less than what the lifetimes of entry
\* and task exceed that of the objects, which is nothing in the deployed 7 + 1 = 8 days,
\* and the time that uploads and commands take.
OneRecord == TaskTTL + Delay
BothTTLs  == CacheTTL + TaskTTL + Lag + 2 * Delay - ObjectTTL
Grace     == IF ~lost /\ BothTTLs < OneRecord THEN BothTTLs ELSE OneRecord

\* A completed task expires within Grace of its objects, whoever deletes, overwrites and
\* completes the entry in whichever order, and wherever a process dies; save a record
\* whose own process died before it was given a time to live.
CompletedTaskServed ==
  \A t \in Task : record[t].status = "completed" /\ record[t].expiry # Forever =>
    \A p \in Part : record[t].expiry < object[p] + Grace

\* A completed entry has a time to live, or the process that completed it is about to
\* give it one, unless one died or failed at that point: also when a request or another
\* worker has deleted the entry before it was completed, so that HSET found none to keep.
CompletedEntryExpires ==
  EntryLives /\ entry.status = "completed" /\ entry.expiry > now + CacheTTL =>
    lost \/ \E t \in Task : entry.owner = t /\ pc[t] = "seal"
=============================================================================
