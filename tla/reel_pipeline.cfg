SPECIFICATION FairSpec
CONSTANTS
  r1 = r1
  r2 = r2
  r3 = r3
  Runs = {r1, r2, r3}
  MaxResumes <- Resumes
INVARIANTS ReelHasItsJob FailurePageExplains MetaTellsContext
PROPERTIES ContextFixedAtHandOver BothLifecycles ReelSettles
CHECK_DEADLOCK FALSE
