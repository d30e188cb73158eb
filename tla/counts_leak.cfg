\* One worker and one connection, whose greeting fails.
SPECIFICATION Spec
CONSTANTS
  c1 = c1
  c2 = c2
  c3 = c3
  NoConn = NoConn
  Workers = {w1}
  Conns = {c1}
  TlsConns = {}
  MalformedConns = {}
  Pieces <- MCPieces
  UsizeModulus = 16
  OverflowChecks = FALSE
INVARIANT CountsExact
CHECK_DEADLOCK FALSE
