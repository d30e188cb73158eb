\* Three threads, in a debug build and in a release one.
SPECIFICATION FairSpec
CONSTANTS
  N = 3
  Builds = {"debug", "release"}
INVARIANTS TypeOK PhasesAligned SpeedsSeeEveryThread ReportIsWhole
PROPERTIES InLockstep RunEnds ZeroPanicEnds
CHECK_DEADLOCK FALSE
