SPECIFICATION FairSpec
CONSTANTS
  r1 = r1
  r2 = r2
  r3 = r3
  r4 = r4
  Runs = {r1, r2}
  Types <- AllTypes
  MaxRetries <- Retries
  MaxResumes <- Resumes
  HasAfterCommit <- AfterCommits
  PreclaimRetries = 3
  CaptureStalls = FALSE

PROPERTIES OwnerReleasedEventually
CHECK_DEADLOCK FALSE
