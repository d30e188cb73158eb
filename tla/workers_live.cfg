\* Release build: a count wraps around. More connections than workers.
SPECIFICATION FairSpec
CONSTANTS
  c1 = c1
  c2 = c2
  c3 = c3
  NoConn = NoConn
  Workers = {w1}
  Conns = {c1, c2}
  TlsConns = {c2}
  MalformedConns = {c2}
  Pieces <- MCPieces
  UsizeModulus = 16
  OverflowChecks = FALSE

PROPERTIES QueuedIsTaken TakenIsReleased ConnectedIsQueued
CHECK_DEADLOCK FALSE
