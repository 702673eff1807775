SPECIFICATION Spec
CONSTANTS
  t1 = t1
  t2 = t2
  t3 = t3
  f1 = f1
  f2 = f2
  Task = {t1, t2, t3}
  Fingerprint = {f1}
  FpOf <- Duplicates
  OpOf <- OneTranscription
  DirectText = {}
  Worker = {w1, w2}
  NoTask = NoTask
  Faults = {"taskFailure", "leaseExpiry"}
SYMMETRY Interchangeable
INVARIANTS
  LeaseHasLiveOwner
  EntryHasLiveOwner
  NoStuckTask
  DeliveredOnce
  JobKeepsItsInput
  RedundantRawRemoved
PROPERTIES
  AttachesToLiveOwner
  KeepsPromise
