SPECIFICATION Spec
CONSTANTS
  N = 1
  Builds = {"release"}
INVARIANT ShortIsZero
CHECK_DEADLOCK FALSE
