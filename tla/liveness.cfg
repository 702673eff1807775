SPECIFICATION FairSpec
CONSTANTS
  t1 = t1
  t2 = t2
  t3 = t3
  f1 = f1
  f2 = f2
  Task = {t1, t2, t3}
  Fingerprint = {f1, f2}
  FpOf <- TwoDuplicatesAndText
  OpOf <- AudioAndSummary
  DirectText = {t3}
  Worker = {w1}
  NoTask = NoTask
  Faults = {"taskFailure", "leaseExpiry", "artifactLoss"}
PROPERTIES
  EnqueuedFinishes
  AttachedFinishes
  LeaseReleased
