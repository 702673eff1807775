SPECIFICATION FairSpec
CONSTANTS
  t1 = t1
  t2 = t2
  c1 = c1
  c2 = c2
  Task = {t1, t2}
  Content = {c1}
  Style = {"bullet_points"}
  Nothing = Nothing
  MaxUploads = 2
  Fingerprint <- Fingerprints
  FpOf <- SameContent
CHECK_DEADLOCK FALSE
INVARIANTS
  TypeOK
  NewestSubmissionFollowed
  AnnouncedOnce
  OutcomeAnnounced
  AskOnlyIndexed
PROPERTIES
  ShownAdvances
  DocumentStays
  OutcomeShown
  SkeletonEnds
