----------------------------- MODULE WorkerPool -----------------------------
(***************************************************************************)
(* The mio server's thread pool: the accept loop of MioServer::run, the    *)
(* shared FIFO global_queue, the worker threads of worker.rs and the shared*)
(* worker_connection_counts.                                               *)
(*                                                                         *)
(* A worker with no connection pops one from the queue, counts it, builds  *)
(* its stream, waits up to 3 s for the HTTP upgrade request, and then      *)
(* drives the session by polling; handlers, end of stream and a 15 s idle  *)
(* sweep end it.  Time is left out: the greeting's deadline may pass at any*)
(* moment, the idle one in a session that has gone quiet.                  *)
(* What the handlers say to the client is left to a session model; here a  *)
(* handler call has one of the outcomes it can have for the worker.        *)
(*                                                                         *)
(* Both mutexes are held for a few statements without blocking, and are    *)
(* nested in one order only (queue, then counts), so a critical section is *)
(* one step.  A panic inside one poisons the mutex, and every later        *)
(* lock().unwrap() panics in turn.                                         *)
(***************************************************************************)
EXTENDS Integers, Sequences, FiniteSets

CONSTANTS Workers,         \* worker threads
          Conns,           \* connections clients may open
          NoConn,          \* no stream in a worker's local variable
          TlsConns,        \* those that come in on the TLS listener
          MalformedConns,  \* those whose WebSocket upgrade does not parse
          Pieces,          \* Pieces[c]: reads of <= 1024 bytes its request needs
          UsizeModulus,    \* 2^64 in the program
          OverflowChecks   \* TRUE in a debug build, FALSE in a release one

ASSUME WorkerPoolAssumption ==
    /\ NoConn \notin Conns
    /\ TlsConns \subseteq Conns
    /\ MalformedConns \subseteq Conns
    /\ Pieces \in [Conns -> Nat \ {0}]
    /\ UsizeModulus \in Nat \ {0, 1}
    /\ OverflowChecks \in BOOLEAN

\* A server does not live to see 2^64 connections.
ASSUME FewConnsAssumption == IsFiniteSet(Conns) /\ Cardinality(Conns) < UsizeModulus

Listeners == {"tcp", "tls"}
Locks     == {"queue", "counts"}

VARIABLES
    main,         \* the accept loop: where it stands, or how it ended
    shutdown,     \* shutdown_signal
    backlog,      \* backlog[l]: the kernel's accept queue of listener l
    queue,        \* global_queue
    poisoned,     \* mutexes a panic has poisoned
    counts,       \* worker_connection_counts
    pc,           \* pc[w]: where worker w stands
    hand,         \* hand[w]: the connection in run()'s local variable
    connections,  \* connections[w]: the values of w's connection map
    sent,         \* sent[c]: pieces of the upgrade request c has sent
    got,          \* got[c]: pieces of it a worker has read
    edge,         \* edge[c]: an edge-triggered readiness not yet delivered
    hungup,       \* clients that have closed their side
    quiet,        \* sessions that no event came for since last_active, for a while
    closed,       \* connections the server has dropped
    late          \* history: workers that removed one connection twice

clientVars == <<sent, edge, hungup>>
mainVars   == <<main, shutdown, backlog>>
workVars   == <<counts, pc, hand, connections, got, quiet>>
vars == <<mainVars, queue, poisoned, workVars, clientVars, closed, late>>

ListenerOf(c) == IF c \in TlsConns THEN "tls" ELSE "tcp"
Elems(s)      == {s[i] : i \in DOMAIN s}
Up            == main \notin {"exited", "crashed"}
Alive(w)      == pc[w] \notin {"spin", "dead"}
Holding(w)    == (IF hand[w] = NoConn THEN {} ELSE {hand[w]}) \cup connections[w]
Held          == UNION {Holding(w) : w \in Workers}
Accepted      == Elems(queue) \cup Held \cup closed
Opened        == Accepted \cup Elems(backlog["tcp"]) \cup Elems(backlog["tls"])
-----------------------------------------------------------------------------
Init ==
    /\ main = "check"
    /\ shutdown = FALSE
    /\ backlog = [l \in Listeners |-> <<>>]
    /\ queue = <<>>
    /\ poisoned = {}
    /\ counts = [w \in Workers |-> 0]
    /\ pc = [w \in Workers |-> "loop"]
    /\ hand = [w \in Workers |-> NoConn]
    /\ connections = [w \in Workers |-> {}]
    /\ sent = [c \in Conns |-> 0]
    /\ got = [c \in Conns |-> 0]
    /\ edge = [c \in Conns |-> FALSE]
    /\ hungup = {}
    /\ quiet = {}
    /\ closed = {}
    /\ late = {}
-----------------------------------------------------------------------------
(* Clients, as the code meets them through the sockets.                    *)

Connect(c) ==
    /\ Up
    /\ c \notin Opened
    /\ backlog' = [backlog EXCEPT ![ListenerOf(c)] = Append(@, c)]
    /\ UNCHANGED <<main, shutdown, queue, poisoned, workVars, clientVars, closed, late>>

\* Several pieces may arrive as one segment: one edge for all of them.
Send(c, n) ==
    /\ Up
    /\ c \in Opened \ (closed \cup hungup)
    /\ sent[c] + n <= Pieces[c]
    /\ sent' = [sent EXCEPT ![c] = @ + n]
    /\ edge' = [edge EXCEPT ![c] = TRUE]
    /\ UNCHANGED <<mainVars, queue, poisoned, workVars, hungup, closed, late>>

HangUp(c) ==
    /\ Up
    /\ c \in Opened \ (closed \cup hungup)
    /\ hungup' = hungup \cup {c}
    /\ edge' = [edge EXCEPT ![c] = TRUE]
    /\ UNCHANGED <<mainVars, queue, poisoned, workVars, sent, closed, late>>

CtrlC ==
    /\ Up
    /\ ~shutdown
    /\ shutdown' = TRUE
    /\ UNCHANGED <<main, backlog, queue, poisoned, workVars, clientVars, closed, late>>
-----------------------------------------------------------------------------
(* The accept loop: the flag, one TCP accept, one TLS accept, again.       *)

CheckShutdown ==
    /\ main = "check"
    /\ main' = IF shutdown THEN "deregister" ELSE "tcp"
    /\ UNCHANGED <<shutdown, backlog, queue, poisoned, workVars, clientVars, closed, late>>

\* The workers go on while main awaits shutdown(); then the process ends.
ProcessExit ==
    /\ main = "deregister"
    /\ main' = "exited"
    /\ UNCHANGED <<shutdown, backlog, queue, poisoned, workVars, clientVars, closed, late>>

\* Mutant: one accept per turn of the loop, and the TCP listener always comes first.
AfterAcceptTcpOnly(l) == "check"

AfterAccept(l) == IF l = "tcp" THEN "tls" ELSE "check"

\* Mutant: push_front instead of push_back.
AcceptInFront(l) ==
    /\ main = l
    /\ backlog[l] # <<>>
    /\ backlog' = [backlog EXCEPT ![l] = Tail(@)]
    /\ IF "queue" \in poisoned
       THEN /\ main' = "crashed"
            /\ UNCHANGED queue
       ELSE /\ main' = AfterAccept(l)
            /\ queue' = <<Head(backlog[l])>> \o queue
    /\ UNCHANGED <<shutdown, poisoned, workVars, clientVars, closed, late>>

\* A connection that died in a crashing accept loop is not counted as served.
Accept(l) ==
    /\ main = l
    /\ backlog[l] # <<>>
    /\ backlog' = [backlog EXCEPT ![l] = Tail(@)]
    /\ IF "queue" \in poisoned
       THEN /\ main' = "crashed"
            /\ UNCHANGED queue
       ELSE /\ main' = AfterAccept(l)
            /\ queue' = Append(queue, Head(backlog[l]))
    /\ UNCHANGED <<shutdown, poisoned, workVars, clientVars, closed, late>>

AcceptWouldBlock(l) ==
    /\ main = l
    /\ backlog[l] = <<>>
    /\ main' = AfterAccept(l)
    /\ UNCHANGED <<shutdown, backlog, queue, poisoned, workVars, clientVars, closed, late>>

\* Any other error of accept() is returned from run() and ends the process.
AcceptError(l) ==
    /\ main = l
    /\ main' = "crashed"
    /\ UNCHANGED <<shutdown, backlog, queue, poisoned, workVars, clientVars, closed, late>>
-----------------------------------------------------------------------------
(* Worker::run: taking a connection.                                       *)

Succ(n) == (n + 1) % UsizeModulus

\* Mutant: no is_empty() check before taking the next connection.
IdleAlways(w) == pc[w] = "loop"

Idle(w) == pc[w] = "loop" /\ connections[w] = {}

\* Mutant: the count is not raised.
TakeUncounted(w) ==
    /\ Up
    /\ Idle(w)
    /\ poisoned = {}
    /\ queue # <<>>
    /\ queue' = Tail(queue)
    /\ hand' = [hand EXCEPT ![w] = Head(queue)]
    /\ pc' = [pc EXCEPT ![w] = "setup"]
    /\ UNCHANGED <<mainVars, poisoned, counts, connections, got, quiet, clientVars,
                   closed, late>>

Take(w) ==
    /\ Up
    /\ Idle(w)
    /\ poisoned = {}
    /\ queue # <<>>
    /\ queue' = Tail(queue)
    /\ counts' = [counts EXCEPT ![w] = Succ(@)]
    /\ hand' = [hand EXCEPT ![w] = Head(queue)]
    /\ pc' = [pc EXCEPT ![w] = "setup"]
    /\ UNCHANGED <<mainVars, poisoned, connections, got, quiet, clientVars, closed, late>>

\* lock().unwrap() on a poisoned queue.
TakePanicQueue(w) ==
    /\ Up
    /\ Idle(w)
    /\ "queue" \in poisoned
    /\ pc' = [pc EXCEPT ![w] = "dead"]
    /\ UNCHANGED <<mainVars, queue, poisoned, counts, hand, connections, got,
                   quiet, clientVars, closed, late>>

\* lock().unwrap() on poisoned counts, after the pop and with the queue locked.
TakePanicCounts(w) ==
    /\ Up
    /\ Idle(w)
    /\ poisoned = {"counts"}
    /\ queue # <<>>
    /\ queue' = Tail(queue)
    /\ closed' = closed \cup {Head(queue)}
    /\ poisoned' = {"queue", "counts"}
    /\ pc' = [pc EXCEPT ![w] = "dead"]
    /\ UNCHANGED <<mainVars, counts, hand, connections, got, quiet, clientVars, late>>
-----------------------------------------------------------------------------
(* Worker::run: building and registering the stream, and the greeting.     *)

\* `continue` and a panic both drop the stream; neither touches counts.
DropHand(w, next) ==
    /\ pc' = [pc EXCEPT ![w] = next]
    /\ hand' = [hand EXCEPT ![w] = NoConn]
    /\ closed' = closed \cup {hand[w]}
    /\ UNCHANGED <<mainVars, queue, poisoned, counts, connections, quiet, clientVars, late>>

Setup(w) ==
    /\ Up
    /\ pc[w] = "setup"
    /\ pc' = [pc EXCEPT ![w] = "greet"]
    /\ UNCHANGED <<mainVars, queue, poisoned, counts, hand, connections, got,
                   quiet, clientVars, closed, late>>

\* Stream::new_rustls_server(...).unwrap(): certificate, key or socket option.
SetupPanic(w) ==
    /\ Up
    /\ pc[w] = "setup"
    /\ hand[w] \in TlsConns
    /\ DropHand(w, "dead")
    /\ UNCHANGED got

RegisterError(w) ==
    /\ Up
    /\ pc[w] = "setup"
    /\ DropHand(w, "loop")
    /\ UNCHANGED got

\* One readable event is one read of at most 1024 bytes.  The readiness is edge
\* triggered: what is left in the socket waits for the next segment.
GreetRead(w) ==
    LET c == hand[w] IN
    /\ Up
    /\ pc[w] = "greet"
    /\ edge[c]
    /\ edge' = [edge EXCEPT ![c] = FALSE]
    /\ got' = [got EXCEPT ![c] = IF @ < sent[c] THEN @ + 1 ELSE @]
    /\ pc' = [pc EXCEPT ![w] = IF got'[c] = Pieces[c] THEN "upgrade" ELSE "greet"]
    /\ UNCHANGED <<mainVars, queue, poisoned, counts, hand, connections, quiet,
                   sent, hungup, closed, late>>

\* read() fails with another error than WouldBlock, or poll() fails.
GreetError(w) ==
    /\ Up
    /\ pc[w] = "greet"
    /\ DropHand(w, "loop")
    /\ UNCHANGED got

\* Mutant: the deadline applies only to a client that has sent nothing.
GreetTimeoutIfSilent(w) ==
    /\ Up
    /\ pc[w] = "greet"
    /\ got[hand[w]] = 0
    /\ DropHand(w, "loop")
    /\ UNCHANGED got

GreetTimeout(w) ==
    /\ Up
    /\ pc[w] = "greet"
    /\ DropHand(w, "loop")
    /\ UNCHANGED got

\* The deadline passes between the check and `timeout - start_time.elapsed()`.
GreetDeadlinePanic(w) ==
    /\ Up
    /\ pc[w] = "greet"
    /\ DropHand(w, "dead")
    /\ UNCHANGED got

\* The request is complete: answer it, register for writability (which the socket has
\* at once), keep the session.
Upgrade(w) ==
    /\ Up
    /\ pc[w] = "upgrade"
    /\ hand[w] \notin MalformedConns
    /\ connections' = [connections EXCEPT ![w] = @ \cup {hand[w]}]
    /\ hand' = [hand EXCEPT ![w] = NoConn]
    /\ pc' = [pc EXCEPT ![w] = "loop"]
    /\ edge' = [edge EXCEPT ![hand[w]] = TRUE]
    /\ UNCHANGED <<mainVars, queue, poisoned, counts, got, quiet, sent, hungup, closed, late>>

UpgradeReregisterError(w) ==
    /\ Up
    /\ pc[w] = "upgrade"
    /\ hand[w] \notin MalformedConns
    /\ DropHand(w, "loop")
    /\ UNCHANGED got

\* Handshake::parse(...).unwrap() or finish_server_handshake(...).unwrap().
UpgradePanic(w) ==
    /\ Up
    /\ pc[w] = "upgrade"
    /\ hand[w] \in MalformedConns
    /\ DropHand(w, "dead")
    /\ UNCHANGED got
-----------------------------------------------------------------------------
(* Worker::process_all_connections.                                        *)

Serving(w) == pc[w] = "loop" /\ connections[w] # {}

\* Mutant: the count is a signed integer.
RemoveSigned(w, k) ==
    /\ connections' = [connections EXCEPT ![w] = {}]
    /\ closed' = closed \cup connections[w]
    /\ counts' = [counts EXCEPT ![w] = @ - k]
    /\ late' = IF k > 1 THEN late \cup {w} ELSE late
    /\ UNCHANGED <<mainVars, queue, poisoned, pc, hand, got>>

\* `k` entries of connections_to_remove, all for the one connection: the handler's
\* verdict and the idle sweep may each have pushed it.  Every entry decrements.
Remove(w, k) ==
    /\ connections' = [connections EXCEPT ![w] = {}]
    /\ closed' = closed \cup connections[w]
    /\ \/ /\ "counts" \in poisoned
          /\ pc' = [pc EXCEPT ![w] = "dead"]
          /\ UNCHANGED <<counts, poisoned>>
       \/ /\ "counts" \notin poisoned
          /\ OverflowChecks
          /\ counts[w] < k
          /\ counts' = [counts EXCEPT ![w] = 0]
          /\ poisoned' = poisoned \cup {"counts"}
          /\ pc' = [pc EXCEPT ![w] = "dead"]
       \/ /\ "counts" \notin poisoned
          /\ ~OverflowChecks \/ counts[w] >= k
          /\ counts' = [counts EXCEPT ![w] = (@ - k) % UsizeModulus]
          /\ UNCHANGED <<poisoned, pc>>
    /\ late' = IF k > 1 THEN late \cup {w} ELSE late
    /\ UNCHANGED <<mainVars, queue, hand, got>>

\* An event of w's connection sets last_active.  A client causes them when it likes and
\* as often as it likes; one that has closed leaves one last readiness behind, and what
\* the handlers draw from it on registering again is taken in that one.
Ready(w) ==
    /\ Up
    /\ Serving(w)
    /\ \E c \in connections[w] :
          /\ c \notin hungup \/ edge[c]
          /\ edge' = [edge EXCEPT ![c] = FALSE]
    /\ quiet' = quiet \ connections[w]
    /\ UNCHANGED <<sent, hungup>>

\* A handler returns Ok(n > 0) or WouldBlock within 15 s of the event.
HandlerContinues(w) ==
    /\ Ready(w)
    /\ UNCHANGED <<mainVars, queue, poisoned, counts, pc, hand, connections, got,
                   closed, late>>

\* It returns Ok(0) or an error: one entry, two when the call itself took 15 s.
HandlerCloses(w) ==
    /\ Ready(w)
    /\ Remove(w, 1)

HandlerClosesLate(w) ==
    /\ Ready(w)
    /\ Remove(w, 2)

\* It returns Ok(n > 0) or WouldBlock after more than 15 s in its own loop:
\* the sweep measures from the event and removes a session that is not idle.
HandlerContinuesLate(w) ==
    /\ Ready(w)
    /\ Remove(w, 1)

\* Time passes between two events: from here on the 15 s may be over at any moment.
GoesQuiet(w) ==
    /\ Up
    /\ Serving(w)
    /\ quiet' = quiet \cup connections[w]
    /\ UNCHANGED <<mainVars, queue, poisoned, counts, pc, hand, connections, got,
                   clientVars, closed, late>>

\* Mutant: the comparison of elapsed() with 15 s is the wrong way round.
IdleSweepActive(w) ==
    /\ Up
    /\ Serving(w)
    /\ connections[w] \cap quiet = {}
    /\ Remove(w, 1)
    /\ UNCHANGED <<quiet, clientVars>>

\* Nothing came for 15 s.
IdleSweep(w) ==
    /\ Up
    /\ Serving(w)
    /\ connections[w] \subseteq quiet
    /\ quiet' = quiet \ connections[w]
    /\ Remove(w, 1)
    /\ UNCHANGED clientVars

\* A handler panics, or poll() fails and run() returns: the thread is gone and
\* its connections are dropped with it; counts keep them.
WorkerEnds(w) ==
    /\ Up
    /\ Serving(w)
    /\ pc' = [pc EXCEPT ![w] = "dead"]
    /\ closed' = closed \cup connections[w]
    /\ connections' = [connections EXCEPT ![w] = {}]
    /\ quiet' = quiet \ connections[w]
    /\ UNCHANGED <<mainVars, queue, poisoned, counts, hand, got, clientVars, late>>

\* handle_greeting_receive_token loops on read() = 0: after the client hangs up
\* before its token line ended, the handler never returns.
TokenSpin(w) ==
    /\ Ready(w)
    /\ connections[w] \cap hungup # {}
    /\ pc' = [pc EXCEPT ![w] = "spin"]
    /\ UNCHANGED <<mainVars, queue, poisoned, counts, hand, connections, got,
                   closed, late>>
-----------------------------------------------------------------------------
Client ==
    \/ \E c \in Conns : Connect(c) \/ HangUp(c)
    \/ \E c \in Conns : \E n \in 1..Pieces[c] : Send(c, n)
    \/ CtrlC

AcceptLoop ==
    \/ CheckShutdown \/ ProcessExit
    \/ \E l \in Listeners : Accept(l) \/ AcceptWouldBlock(l) \/ AcceptError(l)

TakeStep(w) == Take(w) \/ TakePanicQueue(w) \/ TakePanicCounts(w)

GreetStep(w) ==
    \/ Setup(w) \/ SetupPanic(w) \/ RegisterError(w)
    \/ GreetRead(w) \/ GreetError(w) \/ GreetTimeout(w) \/ GreetDeadlinePanic(w)
    \/ Upgrade(w) \/ UpgradeReregisterError(w) \/ UpgradePanic(w)

ServeStep(w) ==
    \/ HandlerContinues(w) \/ HandlerCloses(w) \/ HandlerClosesLate(w)
    \/ HandlerContinuesLate(w) \/ GoesQuiet(w) \/ IdleSweep(w) \/ WorkerEnds(w)
    \/ TokenSpin(w)

Next ==
    \/ Client
    \/ AcceptLoop
    \/ \E w \in Workers : TakeStep(w) \/ GreetStep(w) \/ ServeStep(w)

Spec == Init /\ [][Next]_vars

(***************************************************************************)
(* The threads are scheduled fairly and time passes: the accept loop keeps *)
(* turning, a worker goes on, the greeting's deadline passes, and so does  *)
(* the idle one once a session stays quiet; every event starts the idle   *)
(* time anew.  Nothing obliges a client to act or to be silent, a call to  *)
(* fail or a handler to panic.                                             *)
(***************************************************************************)
Fairness ==
    /\ WF_vars(CheckShutdown)
    /\ \A l \in Listeners : WF_vars(Accept(l) \/ AcceptWouldBlock(l))
    /\ \A w \in Workers :
          /\ WF_vars(TakeStep(w))
          /\ WF_vars(Setup(w))
          /\ WF_vars(GreetTimeout(w))
          /\ WF_vars(Upgrade(w)) /\ WF_vars(UpgradePanic(w))
          /\ WF_vars(GoesQuiet(w))
          /\ WF_vars(IdleSweep(w))

FairSpec == Spec /\ Fairness
-----------------------------------------------------------------------------
(* Properties                                                              *)

\* Every variable keeps its type (worker.rs Worker, server.rs MioServer).
TypeOK ==
    /\ main \in {"check", "tcp", "tls", "deregister", "exited", "crashed"}
    /\ shutdown \in BOOLEAN
    /\ backlog \in [Listeners -> Seq(Conns)]
    /\ queue \in Seq(Conns)
    /\ poisoned \subseteq Locks
    /\ counts \in [Workers -> 0..(UsizeModulus - 1)]
    /\ pc \in [Workers -> {"loop", "setup", "greet", "upgrade", "spin", "dead"}]
    /\ hand \in [Workers -> Conns \cup {NoConn}]
    /\ connections \in [Workers -> SUBSET Conns]
    /\ sent \in [Conns -> Nat]
    /\ got \in [Conns -> Nat]
    /\ edge \in [Conns -> BOOLEAN]
    /\ hungup \subseteq Conns
    /\ quiet \subseteq Conns
    /\ closed \subseteq Conns
    /\ late \subseteq Workers

NoRepeat(s) == \A i, j \in DOMAIN s : s[i] = s[j] => i = j

\* A connection waits once, or is with one worker, or is closed: popping under the
\* queue's lock never gives one connection to two workers, a worker that holds one
\* takes no other, and a closed connection is neither queued nor served again.
OnePlace ==
    /\ NoRepeat(queue)
    /\ \A l \in Listeners : NoRepeat(backlog[l]) /\ Elems(backlog[l]) \cap Accepted = {}
    /\ Elems(queue) \cap closed = {}
    /\ \A w \in Workers :
          /\ Holding(w) \cap (Elems(queue) \cup closed) = {}
          /\ \A c, d \in Holding(w) : c = d
          /\ \A v \in Workers \ {w} : Holding(v) \cap Holding(w) = {}

\* What makes OnePlace inductive: run()'s local stream is there exactly while the
\* connection is set up and greeted, its map is empty meanwhile and after the thread's
\* end, and a listener's backlog holds that listener's connections.
PoolInv ==
    /\ TypeOK
    /\ OnePlace
    /\ \A l \in Listeners : \A c \in Elems(backlog[l]) : ListenerOf(c) = l
    /\ \A w \in Workers :
          /\ pc[w] \in {"setup", "greet", "upgrade"} <=> hand[w] # NoConn
          /\ pc[w] \in {"setup", "greet", "upgrade", "dead"} => connections[w] = {}

\* worker_connection_counts errs upwards only: a worker counts at least what it
\* holds, so the decrement of a removal cannot underflow and poison the mutexes,
\* unless some handler call failed after running past the idle limit (late).
CountsCoverHeld ==
    /\ \A w \in Workers \ late : counts[w] >= Cardinality(Holding(w))
    /\ late = {} => poisoned = {}

\* The pool implements the line-and-slots service: connections are taken in the
\* order they were queued, one per worker, and finish once.
TheOne(S) == IF S = {} THEN NoConn ELSE CHOOSE c \in S : TRUE
SlotOf(w) == TheOne(Holding(w))

Service == INSTANCE Dispatch WITH
    Slots <- Workers, line <- queue, slot <- [w \in Workers |-> SlotOf(w)],
    finished <- closed

ServiceSpec == Service!Spec

\* The client of c keeps its session at w by never being silent for 15 s.
StaysActive(c, w) == <>[](c \in connections[w]) /\ []<>(c \notin quiet)

\* What can keep a worker from the queue for good: a panic, a handler that never
\* returns, or a client that stays active for ever.
Occupied(w) == <>[]~Alive(w) \/ \E c \in Conns : StaysActive(c, w)

\* A connection the accept loop queued does not wait for ever: some worker takes it,
\* or the process ends, unless every single worker is occupied for good (worker.rs:200
\* renews last_active on each event, so an active client is never swept).
QueuedIsTaken ==
    (\E w \in Workers : ~Occupied(w)) =>
        \A c \in Conns : (c \in Elems(queue)) ~> (c \notin Elems(queue) \/ ~Up)

\* What a worker takes it lets go: greeting and idle deadlines end every session,
\* unless its client stays active for ever, the worker hangs in a handler, or the
\* process ends.
TakenIsReleased ==
    \A c \in Conns : \A w \in Workers :
        ~StaysActive(c, w) =>
            ((c \in Holding(w)) ~> (c \in closed \/ pc[w] = "spin" \/ ~Up))

\* The two listeners take turns: a client that connected is queued, whatever comes
\* in on the other listener, unless the accept loop ends.
ConnectedIsQueued ==
    \A c \in Conns :
        (c \in Elems(backlog[ListenerOf(c)])) ~> (c \in Accepted \/ ~Up \/ main = "deregister")

\* "Worker {}: connection count increased to {}", "... decreased to {}" (worker.rs):
\* between two steps of its loop a worker's count is the number of its connections.
CountsExact ==
    \A w \in Workers : pc[w] = "loop" => counts[w] = Cardinality(connections[w])
=============================================================================
