--------------------------- MODULE RetentionProofs --------------------------
(***************************************************************************)
(* Retention for all tasks and lifetimes: how long a completed task may    *)
(* outlive its objects, and which completed entries have no time to live.  *)
(* The argument follows the times back to an upload: from a record to the  *)
(* lookup that led to it, from there to the expiry of the entry, and from  *)
(* there to the commands that gave the entry its time to live.             *)
(***************************************************************************)
EXTENDS Retention, TLAPS

\* Whoever is timed has not used up its time.
Timely ==
  \A t \in Task :
    /\ Reacting(t)   => since[t] <= now /\ now <= since[t] + Delay
    /\ Completing(t) => since[t] <= now /\ now <= since[t] + Lag

\* Times to live are counted from the past.
Fresh ==
  /\ \A p \in Part : object[p] <= now + ObjectTTL
  /\ \A t \in Task : record[t].expiry # Forever => record[t].expiry <= now + TaskTTL
  /\ entry.expiry # Forever => entry.expiry <= now + CacheTTL

\* What a process has uploaded is there for its whole life, also when another process
\* uploads it again.
UploadsLast ==
  \A t \in Task :
    /\ pc[t] \in {"publish", "seal"} => stored[t] = Part
    /\ stored[t] # {} => pc[t] \in {"work", "publish", "seal"}
    /\ \A p \in stored[t] : since[t] + ObjectTTL <= object[p]

\* When a process that has uploaded p is done with its entry, at the latest.
Done(p) == object[p] - ObjectTTL + Lag

\* An entry marked "processing" before it was completed was marked before that.
MarkedBefore ==
  entry.status = "completed" =>
    \A t \in Task : pc[t] = "renew" => \A p \in Part : since[t] <= Done(p)

\* A completed entry has the time to live of its completion or of a mark that was late,
\* or its owner is about to give it one.
EntryDated ==
  entry.status = "completed" /\ ~lost =>
    /\ entry.expiry = Forever => entry.owner \in Task /\ pc[entry.owner] = "seal"
    /\ entry.expiry # Forever => \A p \in Part : entry.expiry <= Done(p) + Delay + CacheTTL

\* Who is about to point a task at the objects has seen the entry, and then the objects.
ReaderDated ==
  \A t \in Task : \A p \in Part :
    /\ pc[t] \in {"check", "alias"} /\ ~lost => since[t] < Done(p) + Delay + CacheTTL
    /\ pc[t] = "alias" => since[t] < object[p]

IInv ==
  /\ TypeOK
  /\ Timely
  /\ Fresh
  /\ UploadsLast
  /\ MarkedBefore
  /\ EntryDated
  /\ ReaderDated
  /\ CompletedTaskServed

-----------------------------------------------------------------------------
\* The lifetimes as numbers.
LEMMA Lifetimes ==
  /\ CacheTTL \in Nat /\ CacheTTL > 0
  /\ TaskTTL \in Nat /\ TaskTTL > 0
  /\ ObjectTTL \in Nat /\ ObjectTTL > 0
  /\ Delay \in Nat /\ Lag \in Nat /\ Lag < ObjectTTL
  /\ Horizon \in Nat /\ Horizon > 0
  /\ Forever \in Nat /\ Forever > Horizon + CacheTTL + TaskTTL
BY RetentionAssumption

\* The types of single values.
LEMMA Values ==
  ASSUME TypeOK
  PROVE  /\ now \in Nat /\ now > 0 /\ now <= Horizon
         /\ \A p \in Part : object[p] \in Nat
         /\ entry.expiry \in Nat
         /\ \A t \in Task : record[t].expiry \in Nat /\ since[t] \in Nat /\ stored[t] \subseteq Part
BY Lifetimes DEF TypeOK, Time

\* The steps of a task's process.
Step(t) ==
  \/ Lookup(t) \/ Check(t) \/ Alias(t) \/ Delete(t)
  \/ Mark(t) \/ Renew(t) \/ Push(t) \/ PushFails(t)
  \/ \E p \in Part : Upload(t, p)
  \/ Complete(t) \/ Publish(t) \/ Seal(t)
  \/ Fail(t) \/ Clear(t) \/ Die(t) \/ DieBeforeExpiry(t)

-----------------------------------------------------------------------------
LEMMA TypeStep ==
  ASSUME TypeOK, [Next]_vars
  PROVE  TypeOK'
<1> USE Lifetimes, Values DEF TypeOK, Time
<1>1. CASE Tick
  BY <1>1 DEF Tick, processVars, timeVars
<1>2. CASE UNCHANGED vars
  BY <1>2 DEF vars, processVars, timeVars
<1>3. ASSUME NEW t \in Task, Step(t) PROVE TypeOK'
  <2> USE DEF processVars, timeVars, Goto, Leave, Within
  <2>1. CASE Lookup(t)
    <3>1. role' \in [Task -> {"request", "job"}]
      BY <2>1 DEF Lookup
    <3>2. since' \in [Task -> 0 .. Horizon]
      BY <2>1 DEF Lookup
    <3>3. \E l \in {"check", "delete", "mark"} : Goto(t, l)
      BY <2>1, Zenon DEF Lookup
    <3>4. pc' \in [Task -> {"unused", "check", "alias", "delete", "mark", "renew", "push", "queued",
                           "work", "publish", "seal", "clear", "over"}]
      BY <3>3
    <3> QED
      BY <2>1, <3>1, <3>2, <3>4 DEF Lookup
  <2>2. CASE Check(t)
    <3>1. CASE Available
      <4>1. Goto(t, "alias") /\ UNCHANGED timeVars
        BY <2>2, <3>1, Zenon DEF Check
      <4>2. UNCHANGED <<now, object, entry, record, role, lost>>
        BY <2>2, Zenon DEF Check
      <4> QED
        BY <4>1, <4>2
    <3>2. CASE ~Available
      <4>1. Leave(t, "delete")
        BY <2>2, <3>2, Zenon DEF Check
      <4>2. UNCHANGED <<now, object, entry, record, role, lost>>
        BY <2>2, Zenon DEF Check
      <4> QED
        BY <4>1, <4>2
    <3> QED
      BY <3>1, <3>2
  <2>3. CASE Alias(t)
    BY <2>3 DEF Alias, SetRecord
  <2>4. CASE Delete(t)
    BY <2>4 DEF Delete, Absent
  <2>5. CASE Mark(t)
    BY <2>5 DEF Mark, SetRecord, PutEntry, Kept
  <2>6. CASE Renew(t)
    <3>1. entry' \in [status : {"absent", "processing", "completed"},
                     owner : Task \cup {NoTask}, expiry : Time \cup {Forever}]
      BY <2>6 DEF Renew, ExpireEntry
    <3>2. \E l \in {"push", "work"} : Leave(t, l)
      BY <2>6, Zenon DEF Renew
    <3> QED
      BY <2>6, <3>1, <3>2 DEF Renew
  <2>7. CASE Push(t)
    BY <2>7 DEF Push
  <2>8. CASE PushFails(t)
    BY <2>8 DEF PushFails, SetRecord, Absent
  <2>9. ASSUME NEW p \in Part, Upload(t, p) PROVE TypeOK'
    BY <2>9 DEF Upload
  <2>10. CASE Complete(t)
    BY <2>10 DEF Complete, SetRecord
  <2>11. CASE Publish(t)
    BY <2>11 DEF Publish, PutEntry, Kept
  <2>12. CASE Seal(t)
    BY <2>12 DEF Seal, ExpireEntry
  <2>13. CASE Fail(t)
    BY <2>13 DEF Fail, SetRecord
  <2>14. CASE Clear(t)
    BY <2>14 DEF Clear, Absent
  <2>15. CASE Die(t)
    BY <2>15 DEF Die
  <2>16. CASE DieBeforeExpiry(t)
    BY <2>16 DEF DieBeforeExpiry, PutRecord, Kept
  <2> QED
    BY <1>3, <2>1, <2>2, <2>3, <2>4, <2>5, <2>6, <2>7, <2>8, <2>9, <2>10, <2>11, <2>12, <2>13,
       <2>14, <2>15, <2>16 DEF Step
<1> QED
  BY <1>1, <1>2, <1>3 DEF Next, Step

LEMMA InitialTypes == Init => TypeOK
<1> SUFFICES ASSUME Init PROVE TypeOK
  OBVIOUS
<1>1. now \in 1 .. Horizon /\ object \in [Part -> Time]
  BY Lifetimes DEF Init, Time
<1>2. entry \in [status : {"absent", "processing", "completed"},
                owner : Task \cup {NoTask}, expiry : Time \cup {Forever}]
  BY Lifetimes DEF Init, Time, Absent
<1>3. record \in [Task -> [status : {"unfinished", "completed"}, expiry : Time \cup {Forever}]]
  BY Lifetimes DEF Init, Time, Unused
<1>4. since \in [Task -> 0 .. Horizon]
  BY Lifetimes DEF Init
<1> QED
  BY <1>1, <1>2, <1>3, <1>4 DEF Init, TypeOK

\* The variables keep their types, for any tasks, objects and lifetimes.
THEOREM RetentionTypes == Spec => []TypeOK
BY InitialTypes, TypeStep, PTL DEF Spec

-----------------------------------------------------------------------------
\* Time waits for whoever is timed.
LEMMA TimelyStep ==
  ASSUME IInv, TypeOK', [Next]_vars
  PROVE  Timely'
<1> USE Lifetimes, Values DEF TypeOK, IInv, processVars, timeVars, Goto, Leave, Within,
           Completing, Reacting, Timely
<1>1. CASE Tick
  BY <1>1 DEF Tick
<1>2. CASE UNCHANGED vars
  BY <1>2 DEF vars
<1>3. ASSUME NEW t \in Task, Step(t) PROVE Timely'
  <2>1. CASE Lookup(t)
    BY <2>1 DEF Lookup
  <2>2. CASE Check(t)
    BY <2>2 DEF Check
  <2>3. CASE Alias(t)
    BY <2>3 DEF Alias, SetRecord
  <2>4. CASE Delete(t)
    BY <2>4 DEF Delete, Absent
  <2>5. CASE Mark(t)
    BY <2>5 DEF Mark, SetRecord, PutEntry, Kept
  <2>6. CASE Renew(t)
    BY <2>6 DEF Renew, ExpireEntry, EntryLives
  <2>7. CASE Push(t)
    BY <2>7 DEF Push
  <2>8. CASE PushFails(t)
    BY <2>8 DEF PushFails, SetRecord, Absent
  <2>9. ASSUME NEW p \in Part, Upload(t, p) PROVE Timely'
    BY <2>9 DEF Upload
  <2>10. CASE Complete(t)
    <3>1. stored[t] # {}
      BY <2>10, RetentionAssumption DEF Complete
    <3> QED
      BY <2>10, <3>1 DEF Complete, SetRecord
  <2>11. CASE Publish(t)
    BY <2>11 DEF Publish, PutEntry, Kept
  <2>12. CASE Seal(t)
    BY <2>12 DEF Seal, ExpireEntry, EntryLives
  <2>13. CASE Fail(t)
    BY <2>13 DEF Fail, SetRecord
  <2>14. CASE Clear(t)
    BY <2>14 DEF Clear, Absent
  <2>15. CASE Die(t)
    BY <2>15 DEF Die
  <2>16. CASE DieBeforeExpiry(t)
    BY <2>16 DEF DieBeforeExpiry, PutRecord, Kept
  <2> QED
    BY <1>3, <2>1, <2>2, <2>3, <2>4, <2>5, <2>6, <2>7, <2>8, <2>9, <2>10, <2>11, <2>12, <2>13, <2>14, <2>15, <2>16 DEF Step
<1> QED
  BY <1>1, <1>2, <1>3 DEF Next, Step

\* No expiry is further away than its time to live.
LEMMA FreshStep ==
  ASSUME IInv, TypeOK', [Next]_vars
  PROVE  Fresh'
<1> USE Lifetimes, Values DEF TypeOK, IInv, processVars, timeVars, Goto, Leave, Within,
           Fresh
<1>1. CASE Tick
  BY <1>1 DEF Tick
<1>2. CASE UNCHANGED vars
  BY <1>2 DEF vars
<1>3. ASSUME NEW t \in Task, Step(t) PROVE Fresh'
  <2>1. CASE Lookup(t)
    BY <2>1 DEF Lookup
  <2>2. CASE Check(t)
    BY <2>2 DEF Check
  <2>3. CASE Alias(t)
    BY <2>3 DEF Alias, SetRecord
  <2>4. CASE Delete(t)
    BY <2>4 DEF Delete, Absent
  <2>5. CASE Mark(t)
    BY <2>5 DEF Mark, SetRecord, PutEntry, Kept
  <2>6. CASE Renew(t)
    BY <2>6 DEF Renew, ExpireEntry, EntryLives
  <2>7. CASE Push(t)
    BY <2>7 DEF Push
  <2>8. CASE PushFails(t)
    BY <2>8 DEF PushFails, SetRecord, Absent
  <2>9. ASSUME NEW p \in Part, Upload(t, p) PROVE Fresh'
    BY <2>9 DEF Upload
  <2>10. CASE Complete(t)
    BY <2>10 DEF Complete, SetRecord
  <2>11. CASE Publish(t)
    BY <2>11 DEF Publish, PutEntry, Kept
  <2>12. CASE Seal(t)
    BY <2>12 DEF Seal, ExpireEntry, EntryLives
  <2>13. CASE Fail(t)
    BY <2>13 DEF Fail, SetRecord
  <2>14. CASE Clear(t)
    BY <2>14 DEF Clear, Absent
  <2>15. CASE Die(t)
    BY <2>15 DEF Die
  <2>16. CASE DieBeforeExpiry(t)
    BY <2>16 DEF DieBeforeExpiry, PutRecord, Kept
  <2> QED
    BY <1>3, <2>1, <2>2, <2>3, <2>4, <2>5, <2>6, <2>7, <2>8, <2>9, <2>10, <2>11, <2>12, <2>13, <2>14, <2>15, <2>16 DEF Step
<1> QED
  BY <1>1, <1>2, <1>3 DEF Next, Step

\* Another upload of an object only prolongs its life.
LEMMA UploadsLastStep ==
  ASSUME IInv, TypeOK', [Next]_vars
  PROVE  UploadsLast'
<1> USE Lifetimes, Values DEF TypeOK, IInv, processVars, timeVars, Goto, Leave, Within,
           Fresh, UploadsLast
<1>1. CASE Tick
  BY <1>1 DEF Tick
<1>2. CASE UNCHANGED vars
  BY <1>2 DEF vars
<1>3. ASSUME NEW t \in Task, Step(t) PROVE UploadsLast'
  <2>1. CASE Lookup(t)
    BY <2>1 DEF Lookup
  <2>2. CASE Check(t)
    BY <2>2 DEF Check
  <2>3. CASE Alias(t)
    BY <2>3 DEF Alias, SetRecord
  <2>4. CASE Delete(t)
    BY <2>4 DEF Delete, Absent
  <2>5. CASE Mark(t)
    BY <2>5 DEF Mark, SetRecord, PutEntry, Kept
  <2>6. CASE Renew(t)
    BY <2>6 DEF Renew, ExpireEntry, EntryLives
  <2>7. CASE Push(t)
    BY <2>7 DEF Push
  <2>8. CASE PushFails(t)
    BY <2>8 DEF PushFails, SetRecord, Absent
  <2>9. ASSUME NEW p \in Part, Upload(t, p) PROVE UploadsLast'
    BY <2>9 DEF Upload
  <2>10. CASE Complete(t)
    BY <2>10 DEF Complete, SetRecord
  <2>11. CASE Publish(t)
    BY <2>11 DEF Publish, PutEntry, Kept
  <2>12. CASE Seal(t)
    BY <2>12 DEF Seal, ExpireEntry, EntryLives
  <2>13. CASE Fail(t)
    BY <2>13 DEF Fail, SetRecord
  <2>14. CASE Clear(t)
    BY <2>14 DEF Clear, Absent
  <2>15. CASE Die(t)
    BY <2>15 DEF Die
  <2>16. CASE DieBeforeExpiry(t)
    BY <2>16 DEF DieBeforeExpiry, PutRecord, Kept
  <2> QED
    BY <1>3, <2>1, <2>2, <2>3, <2>4, <2>5, <2>6, <2>7, <2>8, <2>9, <2>10, <2>11, <2>12, <2>13, <2>14, <2>15, <2>16 DEF Step
<1> QED
  BY <1>1, <1>2, <1>3 DEF Next, Step

\* An entry is completed after the marks that are still without EXPIRE, and before the
\* lag of its own uploads is over.
LEMMA MarkedBeforeStep ==
  ASSUME IInv, TypeOK', [Next]_vars
  PROVE  MarkedBefore'
<1> USE Lifetimes, Values DEF TypeOK, IInv, processVars, timeVars, Goto, Leave, Within,
           Completing, Done, MarkedBefore, Reacting, Timely, UploadsLast
<1>1. CASE Tick
  BY <1>1 DEF Tick
<1>2. CASE UNCHANGED vars
  BY <1>2 DEF vars
<1>3. ASSUME NEW t \in Task, Step(t) PROVE MarkedBefore'
  <2>1. CASE Lookup(t)
    BY <2>1 DEF Lookup
  <2>2. CASE Check(t)
    BY <2>2 DEF Check
  <2>3. CASE Alias(t)
    BY <2>3 DEF Alias, SetRecord
  <2>4. CASE Delete(t)
    BY <2>4 DEF Delete, Absent
  <2>5. CASE Mark(t)
    BY <2>5 DEF Mark, SetRecord, PutEntry, Kept
  <2>6. CASE Renew(t)
    BY <2>6 DEF Renew, ExpireEntry, EntryLives
  <2>7. CASE Push(t)
    BY <2>7 DEF Push
  <2>8. CASE PushFails(t)
    BY <2>8 DEF PushFails, SetRecord, Absent
  <2>9. ASSUME NEW p \in Part, Upload(t, p) PROVE MarkedBefore'
    BY <2>9 DEF Upload
  <2>10. CASE Complete(t)
    BY <2>10 DEF Complete, SetRecord
  <2>11. CASE Publish(t)
    BY <2>11 DEF Publish, PutEntry, Kept
  <2>12. CASE Seal(t)
    BY <2>12 DEF Seal, ExpireEntry, EntryLives
  <2>13. CASE Fail(t)
    BY <2>13 DEF Fail, SetRecord
  <2>14. CASE Clear(t)
    BY <2>14 DEF Clear, Absent
  <2>15. CASE Die(t)
    BY <2>15 DEF Die
  <2>16. CASE DieBeforeExpiry(t)
    BY <2>16 DEF DieBeforeExpiry, PutRecord, Kept
  <2> QED
    BY <1>3, <2>1, <2>2, <2>3, <2>4, <2>5, <2>6, <2>7, <2>8, <2>9, <2>10, <2>11, <2>12, <2>13, <2>14, <2>15, <2>16 DEF Step
<1> QED
  BY <1>1, <1>2, <1>3 DEF Next, Step

\* EXPIRE of a completed entry comes from its completion, or from a mark before that.
LEMMA EntryDatedStep ==
  ASSUME IInv, TypeOK', [Next]_vars
  PROVE  EntryDated'
<1> USE Lifetimes, Values DEF TypeOK, IInv, processVars, timeVars, Goto, Leave, Within,
           Completing, Done, EntryDated, Fresh, MarkedBefore, Reacting, Timely,
           UploadsLast
<1>1. CASE Tick
  BY <1>1 DEF Tick
<1>2. CASE UNCHANGED vars
  BY <1>2 DEF vars
<1>3. ASSUME NEW t \in Task, Step(t) PROVE EntryDated'
  <2>1. CASE Lookup(t)
    BY <2>1 DEF Lookup
  <2>2. CASE Check(t)
    BY <2>2 DEF Check
  <2>3. CASE Alias(t)
    BY <2>3 DEF Alias, SetRecord
  <2>4. CASE Delete(t)
    BY <2>4 DEF Delete, Absent
  <2>5. CASE Mark(t)
    BY <2>5 DEF Mark, SetRecord, PutEntry, Kept
  <2>6. CASE Renew(t)
    BY <2>6 DEF Renew, ExpireEntry, EntryLives
  <2>7. CASE Push(t)
    BY <2>7 DEF Push
  <2>8. CASE PushFails(t)
    BY <2>8 DEF PushFails, SetRecord, Absent
  <2>9. ASSUME NEW p \in Part, Upload(t, p) PROVE EntryDated'
    BY <2>9 DEF Upload
  <2>10. CASE Complete(t)
    BY <2>10 DEF Complete, SetRecord
  <2>11. CASE Publish(t)
    BY <2>11 DEF Publish, PutEntry, Kept
  <2>12. CASE Seal(t)
    BY <2>12 DEF Seal, ExpireEntry, EntryLives
  <2>13. CASE Fail(t)
    BY <2>13 DEF Fail, SetRecord
  <2>14. CASE Clear(t)
    BY <2>14 DEF Clear, Absent
  <2>15. CASE Die(t)
    <3>1. CASE pc[t] \in {"renew", "seal"}
      BY <2>15, <3>1 DEF Die
    <3>2. CASE pc[t] \notin {"renew", "seal"}
      BY <2>15, <3>2 DEF Die
    <3> QED
      BY <3>1, <3>2
  <2>16. CASE DieBeforeExpiry(t)
    BY <2>16 DEF DieBeforeExpiry, PutRecord, Kept
  <2> QED
    BY <1>3, <2>1, <2>2, <2>3, <2>4, <2>5, <2>6, <2>7, <2>8, <2>9, <2>10, <2>11, <2>12, <2>13, <2>14, <2>15, <2>16 DEF Step
<1> QED
  BY <1>1, <1>2, <1>3 DEF Next, Step

\* A completed entry that lives was completed by an owner that is still within its lag,
\* or has a time to live that began no later than that.
LEMMA ReaderDatedStep ==
  ASSUME IInv, TypeOK', [Next]_vars
  PROVE  ReaderDated'
<1> USE Lifetimes, Values DEF TypeOK, IInv, processVars, timeVars, Goto, Leave, Within,
           Completing, Done, EntryDated, Reacting, ReaderDated, Timely, UploadsLast
<1>1. CASE Tick
  BY <1>1 DEF Tick
<1>2. CASE UNCHANGED vars
  BY <1>2 DEF vars
<1>3. ASSUME NEW t \in Task, Step(t) PROVE ReaderDated'
  <2>1. CASE Lookup(t)
    <3>1. CASE EntryLives /\ entry.status = "completed"
      <4>1. Goto(t, "check") /\ Within(t) /\ UNCHANGED <<object, lost>>
        BY <2>1, <3>1, Zenon DEF Lookup
      <4>2. ASSUME NEW q \in Part, ~lost PROVE now < Done(q) + Delay + CacheTTL
        <5>1. CASE entry.expiry = Forever
          BY <3>1, <4>2, <5>1
        <5>2. CASE entry.expiry # Forever
          BY <3>1, <4>2, <5>2 DEF EntryLives
        <5> QED
          BY <5>1, <5>2
      <4> QED
        BY <4>1, <4>2
    <3>2. CASE ~(EntryLives /\ entry.status = "completed")
      <4>1. \E l \in {"delete", "mark"} : Goto(t, l)
        BY <2>1, <3>2, Zenon DEF Lookup
      <4>2. UNCHANGED <<object, since, lost>>
        BY <2>1, <3>2, Zenon DEF Lookup
      <4> QED
        BY <4>1, <4>2
    <3> QED
      BY <3>1, <3>2
  <2>2. CASE Check(t)
    <3>1. pc[t] = "check" /\ UNCHANGED <<now, object, lost>>
      BY <2>2, Zenon DEF Check
    <3>2. CASE Available
      <4>1. Goto(t, "alias") /\ UNCHANGED timeVars
        BY <2>2, <3>2, Zenon DEF Check
      <4>2. \A p \in Part : since[t] < object[p]
        BY <3>1, <3>2 DEF Available
      <4> QED
        BY <3>1, <4>1, <4>2
    <3>3. CASE ~Available
      <4>1. Leave(t, "delete")
        BY <2>2, <3>3, Zenon DEF Check
      <4> QED
        BY <3>1, <4>1
    <3> QED
      BY <3>2, <3>3
  <2>3. CASE Alias(t)
    BY <2>3 DEF Alias, SetRecord
  <2>4. CASE Delete(t)
    BY <2>4 DEF Delete, Absent
  <2>5. CASE Mark(t)
    BY <2>5 DEF Mark, SetRecord, PutEntry, Kept
  <2>6. CASE Renew(t)
    BY <2>6 DEF Renew, ExpireEntry, EntryLives
  <2>7. CASE Push(t)
    BY <2>7 DEF Push
  <2>8. CASE PushFails(t)
    BY <2>8 DEF PushFails, SetRecord, Absent
  <2>9. ASSUME NEW p \in Part, Upload(t, p) PROVE ReaderDated'
    BY <2>9 DEF Upload
  <2>10. CASE Complete(t)
    BY <2>10 DEF Complete, SetRecord
  <2>11. CASE Publish(t)
    BY <2>11 DEF Publish, PutEntry, Kept
  <2>12. CASE Seal(t)
    BY <2>12 DEF Seal, ExpireEntry, EntryLives
  <2>13. CASE Fail(t)
    BY <2>13 DEF Fail, SetRecord
  <2>14. CASE Clear(t)
    BY <2>14 DEF Clear, Absent
  <2>15. CASE Die(t)
    BY <2>15 DEF Die
  <2>16. CASE DieBeforeExpiry(t)
    BY <2>16 DEF DieBeforeExpiry, PutRecord, Kept
  <2> QED
    BY <1>3, <2>1, <2>2, <2>3, <2>4, <2>5, <2>6, <2>7, <2>8, <2>9, <2>10, <2>11, <2>12, <2>13, <2>14, <2>15, <2>16 DEF Step
<1> QED
  BY <1>1, <1>2, <1>3 DEF Next, Step

\* A record is completed by its own uploads, or after a lookup that found entry and objects.
LEMMA CompletedTaskServedStep ==
  ASSUME IInv, TypeOK', [Next]_vars
  PROVE  CompletedTaskServed'
<1> USE Lifetimes, Values DEF TypeOK, IInv, processVars, timeVars, Goto, Leave, Within,
           BothTTLs, CompletedTaskServed, Completing, Done, Fresh, Grace, OneRecord,
           Reacting, ReaderDated, Timely, UploadsLast
<1>1. CASE Tick
  BY <1>1 DEF Tick
<1>2. CASE UNCHANGED vars
  BY <1>2 DEF vars
<1>3. ASSUME NEW t \in Task, Step(t) PROVE CompletedTaskServed'
  <2>1. CASE Lookup(t)
    BY <2>1 DEF Lookup
  <2>2. CASE Check(t)
    BY <2>2 DEF Check
  <2>3. CASE Alias(t)
    BY <2>3 DEF Alias, SetRecord
  <2>4. CASE Delete(t)
    BY <2>4 DEF Delete, Absent
  <2>5. CASE Mark(t)
    BY <2>5 DEF Mark, SetRecord, PutEntry, Kept
  <2>6. CASE Renew(t)
    BY <2>6 DEF Renew, ExpireEntry, EntryLives
  <2>7. CASE Push(t)
    BY <2>7 DEF Push
  <2>8. CASE PushFails(t)
    BY <2>8 DEF PushFails, SetRecord, Absent
  <2>9. ASSUME NEW p \in Part, Upload(t, p) PROVE CompletedTaskServed'
    BY <2>9 DEF Upload
  <2>10. CASE Complete(t)
    BY <2>10 DEF Complete, SetRecord
  <2>11. CASE Publish(t)
    BY <2>11 DEF Publish, PutEntry, Kept
  <2>12. CASE Seal(t)
    BY <2>12 DEF Seal, ExpireEntry, EntryLives
  <2>13. CASE Fail(t)
    BY <2>13 DEF Fail, SetRecord
  <2>14. CASE Clear(t)
    BY <2>14 DEF Clear, Absent
  <2>15. CASE Die(t)
    BY <2>15 DEF Die
  <2>16. CASE DieBeforeExpiry(t)
    BY <2>16 DEF DieBeforeExpiry, PutRecord, Kept
  <2> QED
    BY <1>3, <2>1, <2>2, <2>3, <2>4, <2>5, <2>6, <2>7, <2>8, <2>9, <2>10, <2>11, <2>12, <2>13, <2>14, <2>15, <2>16 DEF Step
<1> QED
  BY <1>1, <1>2, <1>3 DEF Next, Step

-----------------------------------------------------------------------------
LEMMA InitialInvariant == Init => IInv
<1> SUFFICES ASSUME Init PROVE IInv
  OBVIOUS
<1>1. TypeOK
  BY InitialTypes
<1>2. Timely /\ UploadsLast /\ ReaderDated
  BY DEF Init, Timely, Reacting, Completing, UploadsLast, ReaderDated
<1>3. Fresh
  BY Lifetimes DEF Init, Fresh, Absent, Unused
<1>4. MarkedBefore /\ EntryDated /\ CompletedTaskServed
  BY DEF Init, Absent, Unused, MarkedBefore, EntryDated, CompletedTaskServed
<1> QED
  BY <1>1, <1>2, <1>3, <1>4 DEF IInv

LEMMA Invariance == Spec => []IInv
<1>1. IInv /\ [Next]_vars => IInv'
  <2> SUFFICES ASSUME IInv, [Next]_vars PROVE IInv'
    OBVIOUS
  <2>1. TypeOK'
    BY TypeStep DEF IInv
  <2> QED
    BY <2>1, TimelyStep, FreshStep, UploadsLastStep, MarkedBeforeStep, EntryDatedStep,
       ReaderDatedStep, CompletedTaskServedStep DEF IInv
<1> QED
  BY InitialInvariant, <1>1, PTL DEF Spec

\* A completed task expires within Grace of its objects, for any tasks and lifetimes,
\* whatever processes delete, overwrite and complete the entry meanwhile.
THEOREM TasksServed == Spec => []CompletedTaskServed
<1>1. IInv => CompletedTaskServed
  BY DEF IInv
<1> QED
  BY Invariance, <1>1, PTL

\* A completed entry without time to live is one whose process is about to set it, or
\* one whose EXPIRE was lost.
THEOREM EntriesExpire == Spec => []CompletedEntryExpires
<1>1. IInv => CompletedEntryExpires
  BY Lifetimes, Values DEF IInv, Fresh, EntryDated, CompletedEntryExpires
<1> QED
  BY Invariance, <1>1, PTL
=============================================================================
