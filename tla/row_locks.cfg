CONSTANTS
  e1 = e1
  g1 = g1
  r1 = r1
  Workers <- MCWorkers
  JobOf <- MCJobOf
  MaxClaims <- MCMaxClaims
SPECIFICATION Spec
INVARIANTS NoDeadlock OwnersFollowJobs
CHECK_DEADLOCK FALSE
