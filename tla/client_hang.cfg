SPECIFICATION FairSpec
CONSTANTS
  N = 2
  Builds = {"release"}
PROPERTY FailedThreadIsReported
CHECK_DEADLOCK FALSE
