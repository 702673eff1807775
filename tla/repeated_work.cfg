SPECIFICATION Spec
CONSTANTS
  t1 = t1
  t2 = t2
  t3 = t3
  f1 = f1
  f2 = f2
  Task = {t1, t2}
  Fingerprint = {f1}
  FpOf <- Duplicates
  OpOf <- OneTranscription
  DirectText = {}
  Worker = {w1}
  NoTask = NoTask
  Faults = {}
INVARIANT NoRepeatedWork
