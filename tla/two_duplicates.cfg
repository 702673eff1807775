SPECIFICATION Spec
CONSTANTS
  t1 = t1
  t2 = t2
  t3 = t3
  f1 = f1
  f2 = f2
  Task = {t1, t2}
  Fingerprint = {f1}
  FpOf <- Duplicates
  OpOf <- OneIndex
  DirectText = {}
  Worker = {w1, w2}
  NoTask = NoTask
  Faults = {"taskFailure", "artifactLoss", "workerCrash"}
SYMMETRY Interchangeable
INVARIANTS
  OneOwner
  DuplicateNotRejected
