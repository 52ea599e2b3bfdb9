SPECIFICATION FetchSpec
CONSTANTS
  MaxRedirects = 3
  DupFails = FALSE
INVARIANTS CutOffNeverDelivered VettedHostsOnly
PROPERTIES ShutsItsOwnSocket DownloadEnds
CHECK_DEADLOCK FALSE
