---------------------------- MODULE TaskLifecycle ----------------------------
(***************************************************************************)
(* What the client of an ingestion endpoint is promised of the task it     *)
(* polls with GET /task/{id}: the status moves forward only, a terminal    *)
(* status is final, and "completed" is reported only once every derived    *)
(* object of the request's fingerprint has been stored.  How requests are  *)
(* elected, queued, computed and deduplicated is not visible here.         *)
(***************************************************************************)
CONSTANTS Task, Fingerprint, FpOf

VARIABLES
  status,   \* the status of each task, "absent" before its record exists
  stored    \* the fingerprints whose derived objects are all in storage

lifecycleVars == <<status, stored>>

LifecycleInit ==
  /\ status = [t \in Task |-> "absent"]
  /\ stored = {}

Move(t, from, to) ==
  /\ status[t] \in from
  /\ status' = [status EXCEPT ![t] = to]
  /\ UNCHANGED stored

Store(f) ==
  /\ stored' = stored \cup {f}
  /\ UNCHANGED status

Queue(t) == Move(t, {"absent"}, "queued")

Start(t) == Move(t, {"queued"}, "processing")

\* A task completes by its own computation, or as an alias of a stored artifact.
Complete(t) ==
  /\ FpOf[t] \in stored
  /\ Move(t, {"absent", "queued", "processing"}, "completed")

Fail(t) == Move(t, {"queued", "processing"}, "failed")

LifecycleNext ==
  \/ \E f \in Fingerprint : Store(f)
  \/ \E t \in Task : Queue(t) \/ Start(t) \/ Complete(t) \/ Fail(t)

Lifecycle == LifecycleInit /\ [][LifecycleNext]_lifecycleVars
=============================================================================
