SPECIFICATION FairSpec
CONSTANT MaxPings = 3
INVARIANTS TypeOK PingsAfterRegistration OneLatePing StaysUnlisted
PROPERTY ShutdownEnds
CHECK_DEADLOCK FALSE
