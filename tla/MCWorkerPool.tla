---------------------------- MODULE MCWorkerPool ----------------------------
(* Instances of WorkerPool for TLC.                                        *)
EXTENDS WorkerPool, TLC

CONSTANTS c1, c2, c3

\* c1's request needs two reads, the others' one.
MCPieces == [c \in Conns |-> IF c = c1 THEN 2 ELSE 1]

OneRead == [c \in Conns |-> 1]

\* The plain connections are as alike as the workers, when all requests need one read.
Plain        == Conns \ (TlsConns \cup MalformedConns)
PoolSymmetry == Permutations(Workers) \cup Permutations(Plain)
=============================================================================
