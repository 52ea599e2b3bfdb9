SPECIFICATION Spec
CONSTANTS
  r1 = r1
  r2 = r2
  r3 = r3
  r4 = r4
  Runs = {r1, r2, r3}
  Types <- AllTypes
  MaxRetries <- Retries
  MaxResumes <- Resumes
  HasAfterCommit <- AfterCommits
  PreclaimRetries = 3
  CaptureStalls = FALSE
SYMMETRY RunSymmetry
INVARIANTS TypeOK OwnerFollowsJob OneHolderPerToken StartsBounded
PROPERTIES SupersededRunIsInert ImplementsLifecycle
CHECK_DEADLOCK FALSE
