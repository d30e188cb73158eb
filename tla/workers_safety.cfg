\* Debug build: a count that underflows panics.
SPECIFICATION Spec
CONSTANTS
  c1 = c1
  c2 = c2
  c3 = c3
  NoConn = NoConn
  Workers = {w1, w2, w3}
  Conns = {c1, c2, c3}
  TlsConns = {c2}
  MalformedConns = {c2}
  Pieces <- OneRead
  UsizeModulus = 16
  OverflowChecks = TRUE
SYMMETRY PoolSymmetry
INVARIANTS TypeOK OnePlace CountsCoverHeld
PROPERTY ServiceSpec
CHECK_DEADLOCK FALSE
