-------------------------- MODULE WorkerPool_proofs --------------------------
(***************************************************************************)
(* What TLAPS proves about WorkerPool, for every set of workers and        *)
(* connections: type correctness, that a connection is in one place, that  *)
(* the counts cover what the workers hold, and that the pool implements    *)
(* the line-and-slots service of Dispatch.                                 *)
(***************************************************************************)
EXTENDS WorkerPool, FiniteSetTheorems, TLAPS
-----------------------------------------------------------------------------
(* Facts about sequences used as queues.                                   *)

LEMMA ElemsOfAppend ==
    ASSUME NEW S, NEW s \in Seq(S), NEW e \in S
    PROVE  /\ Append(s, e) \in Seq(S)
           /\ Elems(Append(s, e)) = Elems(s) \cup {e}
<1>1. /\ Append(s, e) \in Seq(S)
      /\ DOMAIN Append(s, e) = DOMAIN s \cup {Len(s) + 1}
      /\ Append(s, e)[Len(s) + 1] = e
      /\ \A i \in DOMAIN s : Append(s, e)[i] = s[i]
  OBVIOUS
<1>2. QED
  BY <1>1 DEF Elems

LEMMA HeadAndTail ==
    ASSUME NEW S, NEW s \in Seq(S), s # <<>>
    PROVE  /\ Head(s) \in S
           /\ Tail(s) \in Seq(S)
           /\ Elems(s) = Elems(Tail(s)) \cup {Head(s)}
<1>1. Head(s) \in S /\ Tail(s) \in Seq(S) /\ Len(s) \in Nat \ {0}
  OBVIOUS
<1>2. Elems(Tail(s)) \cup {Head(s)} \subseteq Elems(s)
  BY <1>1 DEF Elems
<1>3. ASSUME NEW i \in DOMAIN s PROVE s[i] \in Elems(Tail(s)) \cup {Head(s)}
  <2>1. CASE i = 1
    BY <2>1
  <2>2. CASE i # 1
    <3>1. i - 1 \in DOMAIN Tail(s) /\ Tail(s)[i - 1] = s[i]
      BY <1>1, <2>2
    <3>2. QED
      BY <3>1 DEF Elems
  <2>3. QED
    BY <2>1, <2>2
<1>4. QED
  BY <1>1, <1>2, <1>3 DEF Elems

LEMMA AppendKeepsNoRepeat ==
    ASSUME NEW S, NEW s \in Seq(S), NEW e \in S, NoRepeat(s), e \notin Elems(s)
    PROVE  NoRepeat(Append(s, e))
BY DEF NoRepeat, Elems

LEMMA TailKeepsNoRepeat ==
    ASSUME NEW S, NEW s \in Seq(S), s # <<>>, NoRepeat(s)
    PROVE  /\ NoRepeat(Tail(s))
           /\ Head(s) \notin Elems(Tail(s))
<1>1. \A i \in DOMAIN Tail(s) : i + 1 \in DOMAIN s /\ Tail(s)[i] = s[i + 1] /\ i \in Nat
  OBVIOUS
<1>2. 1 \in DOMAIN s /\ Head(s) = s[1]
  OBVIOUS
<1>3. \A i \in DOMAIN Tail(s) : i + 1 # 1
  BY <1>1
<1>4. Head(s) \notin Elems(Tail(s))
  BY <1>1, <1>2, <1>3 DEF NoRepeat, Elems
<1>5. NoRepeat(Tail(s))
  <2>1. SUFFICES ASSUME NEW i \in DOMAIN Tail(s), NEW j \in DOMAIN Tail(s),
                        Tail(s)[i] = Tail(s)[j]
                 PROVE  i = j
    BY DEF NoRepeat
  <2>2. i + 1 = j + 1
    BY <1>1, <2>1 DEF NoRepeat
  <2>3. QED
    BY <1>1, <2>2
<1>6. QED
  BY <1>4, <1>5
-----------------------------------------------------------------------------
(* Type correctness.                                                       *)

\* The initial state and every step of the accept loop, the workers and the
\* clients keep every variable in its type (server.rs MioServer, worker.rs Worker).
LEMMA TypeOKInit == Init => TypeOK
<1>1. 0 \in 0..(UsizeModulus - 1)
  BY WorkerPoolAssumption
<1>2. <<>> \in Seq(Conns)
  OBVIOUS
<1>3. SUFFICES ASSUME Init PROVE TypeOK
  OBVIOUS
<1>4. /\ backlog \in [Listeners -> Seq(Conns)]
      /\ queue \in Seq(Conns)
      /\ counts \in [Workers -> 0..(UsizeModulus - 1)]
      /\ pc \in [Workers -> {"loop", "setup", "greet", "upgrade", "spin", "dead"}]
  BY <1>1, <1>2, <1>3 DEF Init
<1>5. /\ hand \in [Workers -> Conns \cup {NoConn}]
      /\ connections \in [Workers -> SUBSET Conns]
  BY <1>1, <1>3 DEF Init
<1>6. QED
  BY <1>3, <1>4, <1>5 DEF Init, TypeOK

LEMMA CountRange ==
    ASSUME NEW n \in 0..(UsizeModulus - 1), NEW k \in {1, 2}
    PROVE  /\ Succ(n) \in 0..(UsizeModulus - 1)
           /\ (n - k) % UsizeModulus \in 0..(UsizeModulus - 1)
           /\ 0 \in 0..(UsizeModulus - 1)
<1>1. UsizeModulus \in Nat /\ UsizeModulus > 0
  BY WorkerPoolAssumption
<1>2. n + 1 \in Int /\ n - k \in Int
  OBVIOUS
<1>3. QED
  BY <1>1, <1>2 DEF Succ

\* A worker that is greeting has a connection in hand (PoolInv's last conjunct).
LEMMA HandIsConn ==
    ASSUME PoolInv, NEW w \in Workers, pc[w] \in {"setup", "greet", "upgrade"}
    PROVE  hand[w] \in Conns
BY DEF PoolInv, TypeOK

\* The variables of a session's clients and of its idle time keep their types.
ClientTypes ==
    /\ sent \in [Conns -> Nat]
    /\ edge \in [Conns -> BOOLEAN]
    /\ hungup \subseteq Conns
    /\ quiet \subseteq Conns

\* A delivered event only uses up a readiness and ends a quiet time.
LEMMA ReadyKeepsTypes ==
    ASSUME TypeOK, NEW w \in Workers, Ready(w)
    PROVE  ClientTypes'
<1>1. PICK c \in connections[w] : edge' = [edge EXCEPT ![c] = FALSE]
  BY DEF Ready
<1>2. QED
  BY <1>1 DEF Ready, TypeOK, ClientTypes

\* Remove keeps the types, whichever way the decrement goes.
LEMMA RemoveKeepsTypes ==
    ASSUME TypeOK, NEW w \in Workers, NEW k \in {1, 2}, Remove(w, k),
           ClientTypes'
    PROVE  TypeOK'
<1>1. /\ (counts[w] - k) % UsizeModulus \in 0..(UsizeModulus - 1)
      /\ 0 \in 0..(UsizeModulus - 1)
  BY CountRange DEF TypeOK
<1>2. counts' \in [Workers -> 0..(UsizeModulus - 1)]
  BY <1>1 DEF Remove, TypeOK
<1>3. /\ poisoned' \subseteq Locks
      /\ pc' \in [Workers -> {"loop", "setup", "greet", "upgrade", "spin", "dead"}]
  BY DEF Remove, TypeOK, Locks
<1>4. /\ connections' \in [Workers -> SUBSET Conns]
      /\ closed' \subseteq Conns
      /\ late' \subseteq Workers
  BY DEF Remove, TypeOK
<1>5. QED
  BY <1>2, <1>3, <1>4 DEF Remove, TypeOK, ClientTypes, mainVars

LEMMA TypeOKStep == PoolInv /\ [Next]_vars => TypeOK'
<1> SUFFICES ASSUME PoolInv, [Next]_vars PROVE TypeOK'
  OBVIOUS
<1>0. TypeOK
  BY DEF PoolInv
<1> USE DEF TypeOK, mainVars, workVars, clientVars
<1>1. ASSUME NEW c \in Conns, Connect(c) PROVE TypeOK'
  <2>1. ListenerOf(c) \in Listeners
    BY DEF ListenerOf, Listeners
  <2>2. backlog' \in [Listeners -> Seq(Conns)]
    BY <1>0, <1>1, <2>1, ElemsOfAppend DEF Connect
  <2>3. QED
    BY <1>0, <1>1, <2>2 DEF Connect
<1>2. ASSUME NEW c \in Conns, NEW n \in 1..Pieces[c], Send(c, n) PROVE TypeOK'
  <2>1. n \in Nat
    BY WorkerPoolAssumption
  <2>2. sent' \in [Conns -> Nat]
    BY <1>0, <1>2, <2>1 DEF Send
  <2>3. QED
    BY <1>0, <1>2, <2>2 DEF Send
<1>3. ASSUME NEW c \in Conns, HangUp(c) PROVE TypeOK'
  BY <1>0, <1>3 DEF HangUp
<1>4. CASE CtrlC
  BY <1>0, <1>4 DEF CtrlC
<1>5. CASE CheckShutdown \/ ProcessExit
  BY <1>0, <1>5 DEF CheckShutdown, ProcessExit
<1>6. ASSUME NEW l \in Listeners, Accept(l) PROVE TypeOK'
  <2>1. /\ Tail(backlog[l]) \in Seq(Conns)
        /\ Append(queue, Head(backlog[l])) \in Seq(Conns)
    BY <1>0, <1>6, HeadAndTail, ElemsOfAppend DEF Accept
  <2>2. backlog' \in [Listeners -> Seq(Conns)] /\ queue' \in Seq(Conns)
    BY <1>0, <1>6, <2>1 DEF Accept
  <2>3. QED
    BY <1>0, <1>6, <2>2 DEF Accept, AfterAccept, Listeners
<1>7. ASSUME NEW l \in Listeners, AcceptWouldBlock(l) \/ AcceptError(l) PROVE TypeOK'
  BY <1>0, <1>7 DEF AcceptWouldBlock, AcceptError, AfterAccept, Listeners
<1>8. ASSUME NEW w \in Workers, TakeStep(w) PROVE TypeOK'
  <2>1. queue # <<>> => Head(queue) \in Conns /\ Tail(queue) \in Seq(Conns)
    BY <1>0, HeadAndTail
  <2>2. Succ(counts[w]) \in 0..(UsizeModulus - 1)
    BY <1>0, CountRange
  <2>3. CASE Take(w)
    BY <1>0, <2>1, <2>2, <2>3 DEF Take, Idle
  <2>4. CASE TakePanicQueue(w)
    BY <1>0, <2>4 DEF TakePanicQueue
  <2>5. CASE TakePanicCounts(w)
    BY <1>0, <2>1, <2>5 DEF TakePanicCounts, Locks
  <2>6. QED
    BY <1>0, <1>8, <2>3, <2>4, <2>5 DEF TakeStep
<1>9. ASSUME NEW w \in Workers, pc[w] \in {"setup", "greet", "upgrade"},
             NEW n \in {"loop", "dead"}, DropHand(w, n), UNCHANGED got
      PROVE  TypeOK'
  BY <1>0, <1>9, HandIsConn DEF DropHand
<1>10. ASSUME NEW w \in Workers, GreetStep(w) PROVE TypeOK'
  <2>1. CASE Setup(w)
    BY <1>0, <2>1 DEF Setup
  <2>2. CASE GreetRead(w)
    BY <1>0, <2>2, HandIsConn DEF GreetRead
  <2>3. CASE Upgrade(w)
    BY <1>0, <2>3, HandIsConn DEF Upgrade
  <2>4. CASE SetupPanic(w) \/ RegisterError(w) \/ GreetError(w) \/ GreetTimeout(w)
             \/ GreetDeadlinePanic(w) \/ UpgradeReregisterError(w) \/ UpgradePanic(w)
    BY <1>9, <2>4 DEF SetupPanic, RegisterError, GreetError, GreetTimeout,
                      GreetDeadlinePanic, UpgradeReregisterError, UpgradePanic
  <2>5. QED
    BY <1>10, <2>1, <2>2, <2>3, <2>4 DEF GreetStep
<1>11. ASSUME NEW w \in Workers, ServeStep(w) PROVE TypeOK'
  <2>1. ASSUME NEW k \in {1, 2}, Remove(w, k), Ready(w) \/ IdleSweep(w) PROVE TypeOK'
    <3>1. ClientTypes'
      BY <1>0, <2>1, ReadyKeepsTypes DEF IdleSweep, ClientTypes
    <3>2. QED
      BY <1>0, <2>1, <3>1, RemoveKeepsTypes
  <2>2. CASE HandlerCloses(w) \/ HandlerClosesLate(w) \/ HandlerContinuesLate(w) \/ IdleSweep(w)
    BY <2>1, <2>2 DEF HandlerCloses, HandlerClosesLate, HandlerContinuesLate, IdleSweep
  <2>3. CASE HandlerContinues(w) \/ TokenSpin(w)
    <3>1. ClientTypes'
      BY <1>0, <2>3, ReadyKeepsTypes DEF HandlerContinues, TokenSpin
    <3>2. QED
      BY <1>0, <2>3, <3>1 DEF HandlerContinues, TokenSpin, ClientTypes
  <2>4. CASE WorkerEnds(w)
    BY <1>0, <2>4 DEF WorkerEnds
  <2>5. CASE GoesQuiet(w)
    BY <1>0, <2>5 DEF GoesQuiet
  <2>6. QED
    BY <1>11, <2>2, <2>3, <2>4, <2>5 DEF ServeStep
<1>12. CASE UNCHANGED vars
  BY <1>0, <1>12 DEF vars
<1>13. QED
  BY <1>1, <1>2, <1>3, <1>4, <1>5, <1>6, <1>7, <1>8, <1>10, <1>11, <1>12
     DEF Next, Client, AcceptLoop
-----------------------------------------------------------------------------
(* One place: the inductive invariant.                                     *)

\* The part of PoolInv beside the types.
PlaceInv ==
    /\ OnePlace
    /\ \A l \in Listeners : \A c \in Elems(backlog[l]) : ListenerOf(c) = l
    /\ \A w \in Workers :
          /\ pc[w] \in {"setup", "greet", "upgrade"} <=> hand[w] # NoConn
          /\ pc[w] \in {"setup", "greet", "upgrade", "dead"} => connections[w] = {}

placeVars == <<backlog, queue, hand, connections, closed>>

LEMMA PlaceInvInit == Init => PlaceInv
<1> SUFFICES ASSUME Init PROVE PlaceInv
  OBVIOUS
<1>1. \A w \in Workers : Holding(w) = {}
  BY DEF Init, Holding
<1>2. Elems(queue) = {} /\ \A l \in Listeners : Elems(backlog[l]) = {}
  BY DEF Init, Elems
<1>3. NoRepeat(queue) /\ \A l \in Listeners : NoRepeat(backlog[l])
  BY DEF Init, NoRepeat
<1>4. closed = {}
  BY DEF Init
<1>5. OnePlace
  BY <1>1, <1>2, <1>3, <1>4 DEF OnePlace
<1>6. QED
  BY <1>2, <1>5 DEF Init, PlaceInv

LEMMA AcceptedIff ==
    ASSUME NEW c
    PROVE  c \in Accepted <=> \/ c \in Elems(queue)
                              \/ c \in closed
                              \/ \E w \in Workers : c \in Holding(w)
BY DEF Accepted, Held

\* Steps that only move program counters, flags and client state.
LEMMA PlaceFrame ==
    ASSUME PlaceInv, UNCHANGED placeVars,
           \A w \in Workers : \/ pc'[w] = pc[w]
                              \/ /\ {pc[w], pc'[w]} \subseteq {"setup", "greet", "upgrade"}
                              \/ /\ pc[w] = "loop"
                                 /\ pc'[w] \in {"spin", "dead"}
                                 /\ pc'[w] = "dead" => connections[w] = {}
    PROVE  PlaceInv'
<1>1. OnePlace'
  BY DEF PlaceInv, OnePlace, placeVars, Accepted, Held, Holding, Elems, NoRepeat
<1>2. \A l \in Listeners : \A c \in Elems(backlog[l])' : ListenerOf(c) = l
  BY DEF PlaceInv, placeVars, Elems
<1>3. ASSUME NEW w \in Workers
      PROVE  /\ pc'[w] \in {"setup", "greet", "upgrade"} <=> hand'[w] # NoConn
             /\ pc'[w] \in {"setup", "greet", "upgrade", "dead"} => connections'[w] = {}
  BY DEF PlaceInv, placeVars
<1>4. QED
  BY <1>1, <1>2, <1>3 DEF PlaceInv, ListenerOf

\* Worker w gives up what it holds: run()'s local stream or its map's entry.
LEMMA PlaceRelease ==
    ASSUME PlaceInv, TypeOK, NEW w \in Workers,
           UNCHANGED <<backlog, queue>>,
           hand' = [hand EXCEPT ![w] = NoConn],
           connections' = [connections EXCEPT ![w] = {}],
           closed' = closed \cup Holding(w),
           \A v \in Workers \ {w} : pc'[v] = pc[v],
           pc'[w] \in {"loop", "dead"}
    PROVE  PlaceInv'
<1>1. /\ Holding(w)' = {}
      /\ \A v \in Workers \ {w} : Holding(v)' = Holding(v)
  BY DEF Holding, TypeOK
<1>2. Elems(queue)' = Elems(queue) /\ \A l \in Listeners : Elems(backlog[l])' = Elems(backlog[l])
  BY DEF Elems
<1>3. Accepted' = Accepted
  BY <1>1, <1>2 DEF Accepted, Held
<1>4. OnePlace'
  BY <1>1, <1>2, <1>3 DEF PlaceInv, OnePlace, NoRepeat
<1>5. QED
  BY <1>2, <1>4 DEF PlaceInv, ListenerOf, TypeOK

\* Worker w pops the oldest connection, and keeps it or loses it to a poisoned lock.
LEMMA PlaceTake ==
    ASSUME PlaceInv, TypeOK, NEW w \in Workers, Take(w) \/ TakePanicCounts(w)
    PROVE  PlaceInv'
<1>1. /\ Elems(queue) = Elems(queue)' \cup {Head(queue)}
      /\ Head(queue) \notin Elems(queue)'
      /\ NoRepeat(queue)'
      /\ Head(queue) \in Conns
  <2>1. queue # <<>> /\ queue' = Tail(queue) /\ queue \in Seq(Conns) /\ NoRepeat(queue)
    BY DEF Take, TakePanicCounts, TypeOK, PlaceInv, OnePlace
  <2>2. /\ Head(queue) \in Conns
        /\ Elems(queue) = Elems(Tail(queue)) \cup {Head(queue)}
    BY <2>1, HeadAndTail
  <2>3. NoRepeat(Tail(queue)) /\ Head(queue) \notin Elems(Tail(queue))
    BY <2>1, TailKeepsNoRepeat
  <2>4. Elems(queue)' = Elems(Tail(queue)) /\ NoRepeat(queue)' = NoRepeat(Tail(queue))
    BY <2>1 DEF Elems, NoRepeat
  <2>5. QED
    BY <2>2, <2>3, <2>4
<1>2. \A l \in Listeners : Elems(backlog[l])' = Elems(backlog[l]) /\ backlog'[l] = backlog[l]
  BY DEF Take, TakePanicCounts, Elems, mainVars
<1>3. hand[w] = NoConn /\ connections[w] = {} /\ pc[w] = "loop" /\ Holding(w) = {}
  BY DEF Take, TakePanicCounts, Idle, PlaceInv, Holding
<1>4. \A v \in Workers \ {w} : Holding(v)' = Holding(v) /\ pc'[v] = pc[v]
  BY DEF Take, TakePanicCounts, Holding, TypeOK
<1>5. CASE Take(w)
  <2>1. Holding(w)' = {Head(queue)} /\ closed' = closed
    BY <1>1, <1>3, <1>5, WorkerPoolAssumption DEF Take, Holding, TypeOK
  <2>2. Accepted' = Accepted
    BY <1>1, <1>3, <1>4, <2>1 DEF Accepted, Held
  <2>3. OnePlace'
    BY <1>1, <1>2, <1>4, <2>1, <2>2 DEF PlaceInv, OnePlace, NoRepeat
  <2>4. QED
    BY <1>1, <1>2, <1>3, <1>4, <1>5, <2>3, WorkerPoolAssumption
       DEF PlaceInv, ListenerOf, TypeOK, Take
<1>6. CASE TakePanicCounts(w)
  <2>1. Holding(w)' = {} /\ closed' = closed \cup {Head(queue)}
    BY <1>3, <1>6 DEF TakePanicCounts, Holding
  <2>2. Accepted' = Accepted
    BY <1>1, <1>3, <1>4, <2>1 DEF Accepted, Held
  <2>3. OnePlace'
    BY <1>1, <1>2, <1>4, <2>1, <2>2 DEF PlaceInv, OnePlace, NoRepeat
  <2>4. QED
    BY <1>2, <1>3, <1>4, <1>6, <2>3 DEF PlaceInv, ListenerOf, TypeOK, TakePanicCounts
<1>7. QED
  BY <1>5, <1>6

LEMMA PlaceConnect ==
    ASSUME PlaceInv, TypeOK, NEW c \in Conns, Connect(c)
    PROVE  PlaceInv'
<1> DEFINE k == ListenerOf(c)
<1>1. k \in Listeners /\ c \notin Accepted /\ \A l \in Listeners : c \notin Elems(backlog[l])
  BY DEF Connect, Opened, ListenerOf, Listeners
<1>2. /\ backlog'[k] = Append(backlog[k], c)
      /\ \A l \in Listeners \ {k} : backlog'[l] = backlog[l]
      /\ \A l \in Listeners : backlog[l] \in Seq(Conns)
  BY <1>1 DEF Connect, TypeOK
<1>3. NoRepeat(Append(backlog[k], c)) /\ Elems(Append(backlog[k], c)) = Elems(backlog[k]) \cup {c}
  BY <1>1, <1>2, AppendKeepsNoRepeat, ElemsOfAppend DEF PlaceInv, OnePlace
<1>4. /\ \A l \in Listeners : NoRepeat(backlog'[l])
      /\ Elems(backlog'[k]) = Elems(backlog[k]) \cup {c}
      /\ \A l \in Listeners \ {k} : Elems(backlog'[l]) = Elems(backlog[l])
  BY <1>1, <1>2, <1>3 DEF PlaceInv, OnePlace
<1>5. /\ UNCHANGED <<queue, hand, connections, closed, pc>>
      /\ \A w \in Workers : Holding(w)' = Holding(w)
      /\ Elems(queue)' = Elems(queue)
  BY DEF Connect, workVars, Holding, Elems
<1>6. Accepted' = Accepted
  BY <1>5 DEF Accepted, Held
<1>7. \A l \in Listeners : NoRepeat(backlog[l])' /\ Elems(backlog[l])' \cap Accepted' = {}
  BY <1>1, <1>4, <1>6 DEF PlaceInv, OnePlace, NoRepeat, Elems
<1>8. OnePlace'
  BY <1>5, <1>7 DEF PlaceInv, OnePlace, NoRepeat, Elems
<1>9. \A l \in Listeners : \A d \in Elems(backlog'[l]) : ListenerOf(d) = l
  BY <1>1, <1>4 DEF PlaceInv
<1>10. QED
  BY <1>5, <1>8, <1>9 DEF PlaceInv, ListenerOf, Elems

\* The accept loop moves a backlog's oldest connection to the end of the queue.
LEMMA PlaceAccept ==
    ASSUME PlaceInv, TypeOK, NEW k \in Listeners, Accept(k)
    PROVE  PlaceInv'
<1> DEFINE c == Head(backlog[k])
<1>1. /\ backlog[k] \in Seq(Conns) /\ backlog[k] # <<>> /\ NoRepeat(backlog[k])
      /\ backlog'[k] = Tail(backlog[k])
      /\ \A l \in Listeners \ {k} : backlog'[l] = backlog[l]
  BY DEF Accept, TypeOK, PlaceInv, OnePlace
<1>2. /\ c \in Conns
      /\ Elems(backlog[k]) = Elems(Tail(backlog[k])) \cup {c}
      /\ NoRepeat(Tail(backlog[k]))
      /\ c \notin Elems(Tail(backlog[k]))
  BY <1>1, HeadAndTail, TailKeepsNoRepeat
<1>3. /\ UNCHANGED <<hand, connections, closed, pc>>
      /\ \A w \in Workers : Holding(w)' = Holding(w)
  BY DEF Accept, workVars, Holding
<1>4. /\ \A l \in Listeners : NoRepeat(backlog'[l]) /\ Elems(backlog'[l]) \subseteq Elems(backlog[l])
      /\ \A l \in Listeners : c \notin Elems(backlog'[l])
  <2>1. \A l \in Listeners \ {k} : c \notin Elems(backlog[l])
    BY <1>2 DEF PlaceInv
  <2>2. QED
    BY <1>1, <1>2, <2>1 DEF PlaceInv, OnePlace
<1>5. /\ c \notin Accepted
      /\ \A l \in Listeners : Elems(backlog'[l]) \cap Accepted = {}
  BY <1>2, <1>4 DEF PlaceInv, OnePlace
<1>6. \A l \in Listeners : \A d \in Elems(backlog'[l]) : ListenerOf(d) = l
  BY <1>4 DEF PlaceInv
<1>7. CASE "queue" \in poisoned
  <2>1. queue' = queue /\ Accepted' = Accepted /\ Elems(queue)' = Elems(queue)
    BY <1>3, <1>7 DEF Accept, Accepted, Held, Elems
  <2>2. OnePlace'
    BY <1>3, <1>4, <1>5, <2>1 DEF PlaceInv, OnePlace, NoRepeat, Elems
  <2>3. QED
    BY <1>3, <1>6, <2>2 DEF PlaceInv, ListenerOf, Elems
<1>8. CASE "queue" \notin poisoned
  <2>1. /\ queue' = Append(queue, c)
        /\ NoRepeat(Append(queue, c))
        /\ Elems(Append(queue, c)) = Elems(queue) \cup {c}
    BY <1>2, <1>5, <1>8, AppendKeepsNoRepeat, ElemsOfAppend
       DEF Accept, Accepted, TypeOK, PlaceInv, OnePlace
  <2>2. Elems(queue)' = Elems(queue) \cup {c} /\ NoRepeat(queue)'
    BY <2>1 DEF Elems, NoRepeat
  <2>3. Accepted' = Accepted \cup {c}
    BY <1>3, <2>2 DEF Accepted, Held
  <2>4. \A w \in Workers : c \notin Holding(w)
    BY <1>5 DEF Accepted, Held
  <2>5. \A l \in Listeners : NoRepeat(backlog[l])' /\ Elems(backlog[l])' \cap Accepted' = {}
    BY <1>4, <1>5, <2>3 DEF NoRepeat, Elems
  <2>6. Elems(queue)' \cap closed' = {}
    BY <1>3, <1>5, <2>2 DEF PlaceInv, OnePlace, Accepted
  <2>7. OnePlace'
    BY <1>3, <2>2, <2>4, <2>5, <2>6 DEF PlaceInv, OnePlace
  <2>8. QED
    BY <1>3, <1>6, <2>7 DEF PlaceInv, ListenerOf, Elems
<1>9. QED
  BY <1>7, <1>8

\* The greeted connection goes from run()'s local variable into the map.
LEMMA PlaceUpgrade ==
    ASSUME PlaceInv, TypeOK, NEW w \in Workers, Upgrade(w)
    PROVE  PlaceInv'
<1>1. hand[w] # NoConn /\ connections[w] = {}
  BY DEF Upgrade, PlaceInv
<1>2. /\ connections'[w] = {hand[w]} /\ hand'[w] = NoConn /\ pc'[w] = "loop"
      /\ \A v \in Workers \ {w} :
            connections'[v] = connections[v] /\ hand'[v] = hand[v] /\ pc'[v] = pc[v]
  BY <1>1 DEF Upgrade, TypeOK
<1>3. \A v \in Workers : Holding(v)' = Holding(v)
  BY <1>1, <1>2 DEF Holding
<1>4. UNCHANGED <<backlog, queue, closed>>
  BY DEF Upgrade, mainVars
<1>5. Accepted' = Accepted
  BY <1>3, <1>4 DEF Accepted, Held, Elems
<1>6. OnePlace'
  BY <1>3, <1>4, <1>5 DEF PlaceInv, OnePlace, NoRepeat, Elems
<1>7. QED
  BY <1>2, <1>4, <1>6 DEF PlaceInv, ListenerOf, Elems

\* A dropped stream leaves run()'s local variable and is closed.
LEMMA PlaceDropHand ==
    ASSUME PlaceInv, TypeOK, NEW w \in Workers, NEW n \in {"loop", "dead"},
           pc[w] \in {"setup", "greet", "upgrade"}, DropHand(w, n)
    PROVE  PlaceInv'
<1>1. connections[w] = {} /\ hand[w] # NoConn /\ Holding(w) = {hand[w]}
  BY DEF PlaceInv, Holding
<1>2. connections' = [connections EXCEPT ![w] = {}]
  BY <1>1 DEF DropHand, TypeOK
<1>3. /\ UNCHANGED <<backlog, queue>>
      /\ hand' = [hand EXCEPT ![w] = NoConn]
      /\ closed' = closed \cup Holding(w)
      /\ \A v \in Workers \ {w} : pc'[v] = pc[v]
      /\ pc'[w] \in {"loop", "dead"}
  BY <1>1 DEF DropHand, TypeOK, mainVars
<1>4. QED
  BY <1>2, <1>3, PlaceRelease

\* A session's end empties the map and closes its connection.
LEMMA PlaceEndSession ==
    ASSUME PlaceInv, TypeOK, NEW w \in Workers, Serving(w),
           WorkerEnds(w) \/ \E k \in {1, 2} : Remove(w, k)
    PROVE  PlaceInv'
<1>1. hand[w] = NoConn /\ Holding(w) = connections[w]
  BY DEF PlaceInv, Serving, Holding
<1>2. hand' = [hand EXCEPT ![w] = NoConn]
  BY <1>1 DEF WorkerEnds, Remove, TypeOK
<1>3. /\ UNCHANGED <<backlog, queue>>
      /\ connections' = [connections EXCEPT ![w] = {}]
      /\ closed' = closed \cup Holding(w)
      /\ \A v \in Workers \ {w} : pc'[v] = pc[v]
      /\ pc'[w] \in {"loop", "dead"}
  BY <1>1 DEF WorkerEnds, Remove, Serving, TypeOK, mainVars
<1>4. QED
  BY <1>2, <1>3, PlaceRelease

LEMMA PlaceInvStep == PoolInv /\ [Next]_vars => PlaceInv'
<1> SUFFICES ASSUME PoolInv, [Next]_vars PROVE PlaceInv'
  OBVIOUS
<1>0. TypeOK /\ PlaceInv
  BY DEF PoolInv, PlaceInv
<1>1. ASSUME NEW c \in Conns, Connect(c) PROVE PlaceInv'
  BY <1>0, <1>1, PlaceConnect
<1>2. ASSUME NEW c \in Conns, HangUp(c) \/ \E n \in 1..Pieces[c] : Send(c, n) PROVE PlaceInv'
  BY <1>0, <1>2, PlaceFrame DEF HangUp, Send, placeVars, mainVars, workVars
<1>3. CASE CtrlC \/ CheckShutdown \/ ProcessExit
  BY <1>0, <1>3, PlaceFrame DEF CtrlC, CheckShutdown, ProcessExit, placeVars, workVars
<1>4. ASSUME NEW l \in Listeners, Accept(l) PROVE PlaceInv'
  BY <1>0, <1>4, PlaceAccept
<1>5. ASSUME NEW l \in Listeners, AcceptWouldBlock(l) \/ AcceptError(l) PROVE PlaceInv'
  BY <1>0, <1>5, PlaceFrame DEF AcceptWouldBlock, AcceptError, placeVars, workVars
<1>6. ASSUME NEW w \in Workers, TakeStep(w) PROVE PlaceInv'
  <2>1. CASE Take(w) \/ TakePanicCounts(w)
    BY <1>0, <2>1, PlaceTake
  <2>2. CASE TakePanicQueue(w)
    BY <1>0, <2>2, PlaceFrame DEF TakePanicQueue, Idle, placeVars, mainVars, TypeOK
  <2>3. QED
    BY <1>6, <2>1, <2>2 DEF TakeStep
<1>7. ASSUME NEW w \in Workers, GreetStep(w) PROVE PlaceInv'
  <2>1. CASE Setup(w)
    BY <1>0, <2>1, PlaceFrame DEF Setup, placeVars, mainVars, TypeOK
  <2>2. CASE GreetRead(w)
    BY <1>0, <2>2, PlaceFrame DEF GreetRead, placeVars, mainVars, TypeOK
  <2>3. CASE Upgrade(w)
    BY <1>0, <2>3, PlaceUpgrade
  <2>4. CASE SetupPanic(w) \/ RegisterError(w) \/ GreetError(w) \/ GreetTimeout(w)
             \/ GreetDeadlinePanic(w) \/ UpgradeReregisterError(w) \/ UpgradePanic(w)
    BY <1>0, <2>4, PlaceDropHand
       DEF SetupPanic, RegisterError, GreetError, GreetTimeout,
           GreetDeadlinePanic, UpgradeReregisterError, UpgradePanic
  <2>5. QED
    BY <1>7, <2>1, <2>2, <2>3, <2>4 DEF GreetStep
<1>8. ASSUME NEW w \in Workers, ServeStep(w) PROVE PlaceInv'
  <2>1. CASE HandlerCloses(w) \/ HandlerClosesLate(w) \/ HandlerContinuesLate(w)
             \/ IdleSweep(w) \/ WorkerEnds(w)
    BY <1>0, <2>1, PlaceEndSession
       DEF HandlerCloses, HandlerClosesLate, HandlerContinuesLate, IdleSweep, WorkerEnds, Ready
  <2>2. CASE HandlerContinues(w) \/ GoesQuiet(w)
    BY <1>0, <2>2, PlaceFrame DEF HandlerContinues, GoesQuiet, placeVars, mainVars
  <2>3. CASE TokenSpin(w)
    BY <1>0, <2>3, PlaceFrame DEF TokenSpin, Ready, Serving, placeVars, mainVars, TypeOK
  <2>4. QED
    BY <1>8, <2>1, <2>2, <2>3 DEF ServeStep
<1>9. CASE UNCHANGED vars
  BY <1>0, <1>9, PlaceFrame DEF vars, placeVars, mainVars, workVars
<1>10. QED
  BY <1>1, <1>2, <1>3, <1>4, <1>5, <1>6, <1>7, <1>8, <1>9 DEF Next, Client, AcceptLoop

\* PoolInv is an inductive invariant of the pool, for every set of workers and
\* connections (worker.rs run and process_all_connections, server.rs run).
THEOREM PoolInvHolds == Spec => []PoolInv
<1>1. Init => PoolInv
  BY TypeOKInit, PlaceInvInit DEF PoolInv, PlaceInv
<1>2. PoolInv /\ [Next]_vars => PoolInv'
  BY TypeOKStep, PlaceInvStep DEF PoolInv, PlaceInv
<1>3. QED
  BY <1>1, <1>2, PTL DEF Spec

\* Every variable keeps its type.
THEOREM TypeCorrect == Spec => []TypeOK
<1>1. PoolInv => TypeOK
  BY DEF PoolInv
<1>2. QED
  BY <1>1, PoolInvHolds, PTL

\* No connection is ever queued twice, with two workers, or served after it closed
\* (the pop under the queue's lock and the is_empty() guard of Worker::run).
THEOREM OnePlaceHolds == Spec => []OnePlace
<1>1. PoolInv => OnePlace
  BY DEF PoolInv
<1>2. QED
  BY <1>1, PoolInvHolds, PTL
-----------------------------------------------------------------------------
(* The counts.                                                             *)

\* Connections that a worker has taken so far.
Passed == Held \cup closed

\* What makes CountsCoverHeld inductive: no worker that never removed a connection
\* twice has counted more than all that were ever taken, so its count never wraps.
CountsInv ==
    /\ \A w \in Workers \ late : /\ Holding(w) # {} => counts[w] >= 1
                                 /\ counts[w] <= Cardinality(Passed)
    /\ late = {} => poisoned = {}

LEMMA CountsInvInit == Init => CountsInv
<1> SUFFICES ASSUME Init PROVE CountsInv
  OBVIOUS
<1>1. \A w \in Workers : Holding(w) = {} /\ counts[w] = 0
  BY DEF Init, Holding
<1>2. Passed = {} /\ Cardinality({}) = 0
  BY <1>1, FS_EmptySet DEF Passed, Held, Init
<1>3. QED
  BY <1>1, <1>2 DEF Init, CountsInv

LEMMA FewAtOnce ==
    ASSUME NEW S \in SUBSET Conns
    PROVE  IsFiniteSet(S) /\ Cardinality(S) \in Nat /\ Cardinality(S) < UsizeModulus
<1>1. /\ IsFiniteSet(S) /\ Cardinality(S) <= Cardinality(Conns)
      /\ Cardinality(S) \in Nat /\ Cardinality(Conns) \in Nat
  BY FewConnsAssumption, FS_Subset, FS_CardinalityType
<1>2. QED
  BY <1>1, FewConnsAssumption, WorkerPoolAssumption

\* What was taken is taken for good, and is at most all there is.
LEMMA PassedGrows ==
    ASSUME TypeOK, TypeOK', Passed \subseteq Passed'
    PROVE  /\ Cardinality(Passed) \in Nat /\ Cardinality(Passed') \in Nat
           /\ Cardinality(Passed) <= Cardinality(Passed')
           /\ Cardinality(Passed') < UsizeModulus
<1>1. Passed \subseteq Conns /\ Passed' \subseteq Conns
  BY DEF Passed, Held, Holding, TypeOK
<1>2. IsFiniteSet(Passed') /\ Cardinality(Passed') \in Nat /\ Cardinality(Passed') < UsizeModulus
  BY <1>1, FewAtOnce
<1>3. Cardinality(Passed) \in Nat
  BY <1>1, FewAtOnce
<1>4. QED
  BY <1>2, <1>3, FS_Subset

\* Steps that change no count: what a worker holds it held, or its count covers it.
LEMMA CountsFrame ==
    ASSUME CountsInv, TypeOK, TypeOK', counts' = counts, late' = late,
           poisoned' = poisoned \/ late # {},
           Passed \subseteq Passed',
           \A w \in Workers : Holding(w)' \subseteq Holding(w)
    PROVE  CountsInv'
<1>1. /\ Cardinality(Passed) \in Nat /\ Cardinality(Passed') \in Nat
      /\ Cardinality(Passed) <= Cardinality(Passed')
  BY PassedGrows
<1>2. QED
  BY <1>1 DEF CountsInv, TypeOK

\* worker.rs counts the connection it popped, under the same lock: the new count is
\* covered by what was taken, and does not wrap.
LEMMA CountsTake ==
    ASSUME CountsInv, PoolInv, TypeOK', NEW w \in Workers, Take(w)
    PROVE  CountsInv'
<1> DEFINE c == Head(queue)
<1>1. TypeOK /\ queue \in Seq(Conns) /\ queue # <<>> /\ c \in Conns /\ c \in Elems(queue)
  <2>1. TypeOK /\ queue # <<>>
    BY DEF PoolInv, Take
  <2>2. queue \in Seq(Conns)
    BY <2>1 DEF TypeOK
  <2>3. QED
    BY <2>1, <2>2, HeadAndTail
<1>2. c \notin Passed
  <2>1. Elems(queue) \cap closed = {}
    BY DEF PoolInv, OnePlace
  <2>2. ASSUME NEW v \in Workers PROVE c \notin Holding(v)
    BY <1>1, <2>2 DEF PoolInv, OnePlace
  <2>3. QED
    BY <1>1, <2>1, <2>2 DEF Passed, Held
<1>3. Holding(w) = {} /\ Holding(w)' = {c}
  BY <1>1, WorkerPoolAssumption DEF Take, Idle, PoolInv, Holding, TypeOK
<1>4. \A v \in Workers \ {w} : Holding(v)' = Holding(v)
  BY <1>1 DEF Take, Holding, TypeOK
<1>5. Passed' = Passed \cup {c}
  BY <1>3, <1>4 DEF Passed, Held, Take
<1>6. /\ Cardinality(Passed) \in Nat /\ Cardinality(Passed') < UsizeModulus
      /\ Cardinality(Passed') = Cardinality(Passed) + 1
  <2>1. Passed \subseteq Conns
    BY <1>1 DEF Passed, Held, Holding, TypeOK
  <2>2. IsFiniteSet(Passed) /\ Cardinality(Passed) \in Nat
    BY <2>1, FewAtOnce
  <2>3. Cardinality(Passed') = Cardinality(Passed) + 1
    BY <1>2, <1>5, <2>2, FS_AddElement
  <2>4. QED
    BY <1>1, <1>5, <2>2, <2>3, PassedGrows
<1>7. w \notin late => counts'[w] = counts[w] + 1 /\ counts[w] \in Nat
  <2>1. w \notin late => /\ counts[w] \in Nat /\ counts[w] <= Cardinality(Passed)
                         /\ counts'[w] = (counts[w] + 1) % UsizeModulus
    BY <1>1 DEF CountsInv, TypeOK, Take, Succ
  <2>2. ASSUME NEW n \in Nat, n + 1 < UsizeModulus PROVE (n + 1) % UsizeModulus = n + 1
    BY <2>2, WorkerPoolAssumption
  <2>3. w \notin late => counts[w] + 1 < UsizeModulus
    BY <1>6, <2>1, WorkerPoolAssumption
  <2>4. QED
    BY <2>1, <2>2, <2>3
<1>8. \A v \in Workers \ {w} : counts'[v] = counts[v] /\ counts[v] \in Nat
  BY <1>1 DEF Take, TypeOK
<1>9. late' = late /\ poisoned' = poisoned
  BY DEF Take
<1>10. QED
  BY <1>3, <1>4, <1>6, <1>7, <1>8, <1>9 DEF CountsInv

\* A removal by a worker that never removed a connection twice finds its count at 1 at
\* least: it neither underflows nor panics.
LEMMA CountsRemove ==
    ASSUME CountsInv, PoolInv, TypeOK', NEW w \in Workers, NEW k \in {1, 2},
           Serving(w), Remove(w, k)
    PROVE  CountsInv'
<1>1. TypeOK /\ Holding(w) = connections[w] /\ hand[w] = NoConn
  BY DEF PoolInv, Serving, Holding
<1>2. Holding(w)' = {} /\ \A v \in Workers \ {w} : Holding(v)' = Holding(v)
  BY <1>1 DEF Remove, Holding, TypeOK
<1>3. Passed' = Passed
  BY <1>1, <1>2 DEF Remove, Passed, Held
<1>4. /\ Cardinality(Passed) \in Nat /\ Cardinality(Passed') = Cardinality(Passed)
  BY <1>1, <1>3, PassedGrows
<1>5. \A v \in Workers \ {w} : counts'[v] = counts[v] /\ counts[v] \in Nat
  BY <1>1 DEF Remove, TypeOK
<1>6. late \subseteq late' /\ (w \notin late' => k = 1 /\ w \notin late)
  BY DEF Remove
<1>7. w \notin late' => counts'[w] <= counts[w] /\ counts[w] \in Nat /\ counts'[w] \in Nat
                        /\ poisoned' = poisoned
  <2>1. SUFFICES ASSUME w \notin late'
                 PROVE  counts'[w] <= counts[w] /\ counts[w] \in Nat /\ counts'[w] \in Nat
                        /\ poisoned' = poisoned
    OBVIOUS
  <2>2. k = 1 /\ counts[w] \in 0..(UsizeModulus - 1) /\ counts[w] >= 1
    BY <1>1, <1>6, <2>1 DEF CountsInv, Serving, TypeOK
  <2>3. ASSUME NEW n \in 0..(UsizeModulus - 1), n >= 1 PROVE (n - 1) % UsizeModulus = n - 1
    BY <2>3, WorkerPoolAssumption
  <2>4. counts'[w] = counts[w] \/ counts'[w] = counts[w] - 1
    BY <1>1, <2>2, <2>3 DEF Remove, TypeOK
  <2>5. poisoned' = poisoned
    BY <2>2 DEF Remove
  <2>6. QED
    BY <2>2, <2>4, <2>5
<1>8. late' = {} => poisoned' = {}
  BY <1>6, <1>7 DEF CountsInv
<1>9. QED
  BY <1>2, <1>4, <1>5, <1>6, <1>7, <1>8 DEF CountsInv

LEMMA CountsInvStep == CountsInv /\ PoolInv /\ TypeOK' /\ [Next]_vars => CountsInv'
<1> SUFFICES ASSUME CountsInv, PoolInv, TypeOK', [Next]_vars PROVE CountsInv'
  OBVIOUS
<1>0. TypeOK
  BY DEF PoolInv
<1> DEFINE Same == UNCHANGED <<hand, connections, closed, counts, late, poisoned>>
<1>1. CASE Same
  <2>1. \A w \in Workers : Holding(w)' = Holding(w)
    BY <1>1 DEF Holding
  <2>2. Passed' = Passed
    BY <1>1, <2>1 DEF Passed, Held
  <2>3. QED
    BY <1>0, <1>1, <2>1, <2>2, CountsFrame
<1>2. ASSUME NEW w \in Workers, counts' = counts, late' = late,
             poisoned' = poisoned \/ late # {},
             Holding(w)' \subseteq Holding(w), closed' = closed \cup (closed' \ closed),
             Holding(w) \ Holding(w)' \subseteq closed',
             \A v \in Workers \ {w} : Holding(v)' = Holding(v)
      PROVE  CountsInv'
  <2>1. Passed \subseteq Passed'
    BY <1>2 DEF Passed, Held
  <2>2. QED
    BY <1>0, <1>2, <2>1, CountsFrame
<1>3. CASE Client
  BY <1>1, <1>3 DEF Client, Connect, HangUp, Send, CtrlC, workVars
<1>4. CASE AcceptLoop
  BY <1>1, <1>4 DEF AcceptLoop, CheckShutdown, ProcessExit, Accept, AcceptWouldBlock,
                    AcceptError, workVars
<1>5. ASSUME NEW w \in Workers, TakeStep(w) PROVE CountsInv'
  <2>1. CASE Take(w)
    BY <2>1, CountsTake
  <2>2. CASE TakePanicQueue(w)
    BY <1>1, <2>2 DEF TakePanicQueue
  <2>3. CASE TakePanicCounts(w)
    <3>1. \A v \in Workers : Holding(v)' = Holding(v)
      BY <2>3 DEF TakePanicCounts, Holding
    <3>2. late # {}
      BY <2>3 DEF TakePanicCounts, CountsInv
    <3>3. QED
      BY <1>2, <2>3, <3>1, <3>2 DEF TakePanicCounts
  <2>4. QED
    BY <1>5, <2>1, <2>2, <2>3 DEF TakeStep
<1>6. ASSUME NEW w \in Workers, GreetStep(w) PROVE CountsInv'
  <2>1. CASE Setup(w) \/ GreetRead(w)
    BY <1>1, <2>1 DEF Setup, GreetRead
  <2>2. CASE Upgrade(w)
    <3>1. \A v \in Workers : Holding(v)' = Holding(v)
      BY <1>0, <2>2 DEF Upgrade, PoolInv, TypeOK, Holding
    <3>2. QED
      BY <1>2, <2>2, <3>1 DEF Upgrade
  <2>3. CASE SetupPanic(w) \/ RegisterError(w) \/ GreetError(w) \/ GreetTimeout(w)
             \/ GreetDeadlinePanic(w) \/ UpgradeReregisterError(w) \/ UpgradePanic(w)
    <3>1. pc[w] \in {"setup", "greet", "upgrade"} /\ \E n \in {"loop", "dead"} : DropHand(w, n)
      BY <2>3 DEF SetupPanic, RegisterError, GreetError, GreetTimeout,
                  GreetDeadlinePanic, UpgradeReregisterError, UpgradePanic
    <3>2. Holding(w) = {hand[w]} /\ hand[w] # NoConn /\ connections[w] = {}
      BY <3>1 DEF PoolInv, Holding
    <3>3. /\ Holding(w)' = {} /\ closed' = closed \cup Holding(w)
          /\ \A v \in Workers \ {w} : Holding(v)' = Holding(v)
      BY <1>0, <3>1, <3>2 DEF DropHand, TypeOK, Holding
    <3>4. counts' = counts /\ late' = late /\ poisoned' = poisoned
      BY <3>1 DEF DropHand
    <3>5. QED
      BY <1>2, <3>3, <3>4
  <2>4. QED
    BY <1>6, <2>1, <2>2, <2>3 DEF GreetStep
<1>7. ASSUME NEW w \in Workers, ServeStep(w) PROVE CountsInv'
  <2>1. CASE HandlerContinues(w) \/ GoesQuiet(w) \/ TokenSpin(w)
    BY <1>1, <2>1 DEF HandlerContinues, GoesQuiet, TokenSpin
  <2>2. CASE HandlerCloses(w) \/ HandlerClosesLate(w) \/ HandlerContinuesLate(w) \/ IdleSweep(w)
    BY <2>2, CountsRemove DEF HandlerCloses, HandlerClosesLate, HandlerContinuesLate,
                              IdleSweep, Ready
  <2>3. CASE WorkerEnds(w)
    <3>1. /\ Holding(w) = connections[w] /\ Holding(w)' = {} /\ closed' = closed \cup Holding(w)
          /\ \A v \in Workers \ {w} : Holding(v)' = Holding(v)
      BY <1>0, <2>3 DEF WorkerEnds, Serving, PoolInv, TypeOK, Holding
    <3>2. QED
      BY <1>2, <2>3, <3>1 DEF WorkerEnds
  <2>4. QED
    BY <1>7, <2>1, <2>2, <2>3 DEF ServeStep
<1>8. CASE UNCHANGED vars
  BY <1>1, <1>8 DEF vars, workVars
<1>9. QED
  BY <1>3, <1>4, <1>5, <1>6, <1>7, <1>8 DEF Next

\* worker_connection_counts errs upwards only, however many workers and connections:
\* as long as no handler call fails after running past the idle limit, the decrement
\* of a removal never underflows (worker.rs 248-262) and no lock is poisoned.
THEOREM CountsCoverHeldHolds == Spec => []CountsCoverHeld
<1>1. Init => CountsInv
  BY CountsInvInit
<1>2. PoolInv /\ PoolInv' /\ CountsInv /\ [Next]_vars => CountsInv'
  BY CountsInvStep DEF PoolInv
<1>3. PoolInv /\ CountsInv => CountsCoverHeld
  <2> SUFFICES ASSUME PoolInv, CountsInv, NEW w \in Workers \ late
               PROVE  counts[w] >= Cardinality(Holding(w))
    BY DEF CountsInv, CountsCoverHeld
  <2>1. \A c, d \in Holding(w) : c = d
    BY DEF PoolInv, OnePlace
  <2>2. Holding(w) = {} \/ \E c : Holding(w) = {c}
    BY <2>1
  <2>3. Cardinality(Holding(w)) \in {0, 1} /\ (Cardinality(Holding(w)) = 1 => Holding(w) # {})
    BY <2>2, FS_EmptySet, FS_Singleton
  <2>4. counts[w] \in Nat
    BY DEF PoolInv, TypeOK
  <2>5. QED
    BY <2>3, <2>4 DEF CountsInv
<1>4. QED
  BY <1>1, <1>2, <1>3, PoolInvHolds, PTL DEF Spec
-----------------------------------------------------------------------------
(* The pool implements the service of Dispatch.                            *)

LEMMA TheOneOf ==
    /\ TheOne({}) = NoConn
    /\ \A c : TheOne({c}) = c
BY DEF TheOne

LEMMA SlotIsWhatIsHeld ==
    ASSUME OnePlace, TypeOK, NEW w \in Workers
    PROVE  /\ Holding(w) = {} => SlotOf(w) = NoConn
           /\ Holding(w) # {} => Holding(w) = {SlotOf(w)} /\ SlotOf(w) # NoConn
<1>1. Holding(w) \subseteq Conns
  BY DEF Holding, TypeOK
<1>2. CASE Holding(w) = {}
  BY <1>2 DEF SlotOf, TheOne
<1>3. CASE Holding(w) # {}
  <2>1. SlotOf(w) \in Holding(w)
    BY <1>3 DEF SlotOf, TheOne
  <2>2. QED
    BY <1>1, <1>3, <2>1, WorkerPoolAssumption DEF OnePlace
<1>4. QED
  BY <1>2, <1>3

LEMMA ServiceAccepted ==
    ASSUME OnePlace, TypeOK
    PROVE  Service!Accepted = Accepted
<1>1. Service!InSlot = Held
  BY SlotIsWhatIsHeld DEF Service!InSlot, Held
<1>2. QED
  BY <1>1 DEF Service!Accepted, Service!InLine, Accepted, Elems

\* A step that leaves the queue, the closed connections and what each worker holds.
LEMMA ServiceStutter ==
    ASSUME queue' = queue, closed' = closed, \A w \in Workers : Holding(w)' = Holding(w)
    PROVE  UNCHANGED Service!dvars
<1>1. \A w \in Workers : SlotOf(w)' = SlotOf(w)
  BY DEF SlotOf
<1>2. QED
  BY <1>1 DEF Service!dvars

\* A step that only takes from worker w what it holds, and closes it.
LEMMA ServiceFinish ==
    ASSUME PoolInv, PoolInv', NEW w \in Workers, queue' = queue, Holding(w) # {},
           Holding(w)' = {}, closed' = closed \cup Holding(w),
           \A v \in Workers \ {w} : Holding(v)' = Holding(v)
    PROVE  Service!Finish(w)
<1>1. SlotOf(w)' = NoConn /\ \A v \in Workers \ {w} : SlotOf(v)' = SlotOf(v)
  BY TheOneOf DEF SlotOf
<1>2. Holding(w) = {SlotOf(w)} /\ SlotOf(w) # NoConn
  BY SlotIsWhatIsHeld DEF PoolInv
<1>3. [v \in Workers |-> SlotOf(v)]' = [[v \in Workers |-> SlotOf(v)] EXCEPT ![w] = NoConn]
  BY <1>1
<1>4. QED
  BY <1>2, <1>3 DEF Service!Finish

LEMMA ServiceTake ==
    ASSUME PoolInv, PoolInv', NEW w \in Workers, Take(w)
    PROVE  Service!Serve(w)
<1>1. queue # <<>> /\ queue' = Tail(queue) /\ closed' = closed /\ Head(queue) \in Conns
  BY HeadAndTail DEF Take, PoolInv, TypeOK
<1>2. /\ Holding(w) = {} /\ Holding(w)' = {Head(queue)}
      /\ \A v \in Workers \ {w} : Holding(v)' = Holding(v)
  BY <1>1, WorkerPoolAssumption DEF Take, Idle, PoolInv, TypeOK, Holding
<1>3. SlotOf(w) = NoConn /\ SlotOf(w)' = Head(queue)
  BY <1>2, TheOneOf DEF SlotOf
<1>4. \A v \in Workers \ {w} : SlotOf(v)' = SlotOf(v)
  BY <1>2 DEF SlotOf
<1>5. [v \in Workers |-> SlotOf(v)]' = [[v \in Workers |-> SlotOf(v)] EXCEPT ![w] = Head(queue)]
  BY <1>3, <1>4
<1>6. QED
  BY <1>1, <1>3, <1>5 DEF Service!Serve

LEMMA ServiceAccept ==
    ASSUME PoolInv, PoolInv', NEW l \in Listeners, Accept(l)
    PROVE  (\E c \in Conns : Service!Enter(c)) \/ UNCHANGED Service!dvars
<1>1. closed' = closed /\ \A w \in Workers : Holding(w)' = Holding(w)
  BY DEF Accept, workVars, Holding
<1>2. CASE queue' = queue
  BY <1>1, <1>2, ServiceStutter
<1>3. CASE queue' = Append(queue, Head(backlog[l]))
  <2> DEFINE c == Head(backlog[l])
  <2>1. c \in Conns /\ c \in Elems(backlog[l])
    BY HeadAndTail DEF Accept, PoolInv, TypeOK
  <2>2. c \notin Service!Accepted
    BY <2>1, ServiceAccepted DEF PoolInv, OnePlace
  <2>3. \A w \in Workers : SlotOf(w)' = SlotOf(w)
    BY <1>1 DEF SlotOf
  <2>4. Service!Enter(c)
    BY <1>1, <1>3, <2>2, <2>3 DEF Service!Enter
  <2>5. QED
    BY <2>1, <2>4
<1>4. QED
  BY <1>2, <1>3 DEF Accept

LEMMA ServiceStep ==
    ASSUME PoolInv, PoolInv', [Next]_vars
    PROVE  [Service!Next]_(Service!dvars)
<1>0. TypeOK /\ PlaceInv
  BY DEF PoolInv, PlaceInv
<1>1. CASE Client \/ UNCHANGED vars
  <2>1. queue' = queue /\ closed' = closed /\ hand' = hand /\ connections' = connections
    BY <1>1 DEF Client, Connect, Send, HangUp, CtrlC, vars, workVars
  <2>2. QED
    BY <2>1, ServiceStutter DEF Holding
<1>2. CASE AcceptLoop
  <2>1. CASE \E l \in Listeners : Accept(l)
    BY <2>1, ServiceAccept DEF Service!Next
  <2>2. CASE CheckShutdown \/ ProcessExit
             \/ \E l \in Listeners : AcceptWouldBlock(l) \/ AcceptError(l)
    <3>1. queue' = queue /\ closed' = closed /\ hand' = hand /\ connections' = connections
      BY <2>2 DEF CheckShutdown, ProcessExit, AcceptWouldBlock, AcceptError, workVars
    <3>2. QED
      BY <3>1, ServiceStutter DEF Holding
  <2>3. QED
    BY <1>2, <2>1, <2>2 DEF AcceptLoop
<1>3. ASSUME NEW w \in Workers, TakeStep(w) PROVE [Service!Next]_(Service!dvars)
  <2>1. CASE Take(w)
    BY <2>1, ServiceTake DEF Service!Next
  <2>2. CASE TakePanicQueue(w)
    BY <2>2, ServiceStutter DEF TakePanicQueue, Holding
  <2>3. CASE TakePanicCounts(w)
    <3>1. /\ queue # <<>> /\ queue' = Tail(queue) /\ closed' = closed \cup {Head(queue)}
          /\ \A v \in Workers : SlotOf(v)' = SlotOf(v)
      BY <2>3 DEF TakePanicCounts, Holding, SlotOf
    <3>2. Service!Lose
      BY <3>1 DEF Service!Lose
    <3>3. QED
      BY <3>2 DEF Service!Next
  <2>4. QED
    BY <1>3, <2>1, <2>2, <2>3 DEF TakeStep
<1>4. ASSUME NEW w \in Workers, GreetStep(w) PROVE [Service!Next]_(Service!dvars)
  <2>1. CASE Setup(w) \/ GreetRead(w)
    BY <2>1, ServiceStutter DEF Setup, GreetRead, Holding
  <2>2. CASE Upgrade(w)
    <3>1. \A v \in Workers : Holding(v)' = Holding(v)
      BY <1>0, <2>2 DEF Upgrade, PlaceInv, TypeOK, Holding
    <3>2. QED
      BY <2>2, <3>1, ServiceStutter DEF Upgrade
  <2>3. CASE SetupPanic(w) \/ RegisterError(w) \/ GreetError(w) \/ GreetTimeout(w)
             \/ GreetDeadlinePanic(w) \/ UpgradeReregisterError(w) \/ UpgradePanic(w)
    <3>1. pc[w] \in {"setup", "greet", "upgrade"} /\ \E n \in {"loop", "dead"} : DropHand(w, n)
      BY <2>3 DEF SetupPanic, RegisterError, GreetError, GreetTimeout,
                  GreetDeadlinePanic, UpgradeReregisterError, UpgradePanic
    <3>2. Holding(w) = {hand[w]} /\ hand[w] # NoConn /\ connections[w] = {}
      BY <1>0, <3>1 DEF PlaceInv, Holding
    <3>3. /\ queue' = queue /\ Holding(w)' = {} /\ closed' = closed \cup Holding(w)
          /\ \A v \in Workers \ {w} : Holding(v)' = Holding(v)
      BY <1>0, <3>1, <3>2 DEF DropHand, TypeOK, Holding
    <3>4. QED
      BY <3>2, <3>3, ServiceFinish DEF Service!Next
  <2>4. QED
    BY <1>4, <2>1, <2>2, <2>3 DEF GreetStep
<1>5. ASSUME NEW w \in Workers, ServeStep(w) PROVE [Service!Next]_(Service!dvars)
  <2>1. CASE HandlerContinues(w) \/ GoesQuiet(w) \/ TokenSpin(w)
    BY <2>1, ServiceStutter DEF HandlerContinues, GoesQuiet, TokenSpin, Holding
  <2>2. CASE HandlerCloses(w) \/ HandlerClosesLate(w) \/ HandlerContinuesLate(w)
             \/ IdleSweep(w) \/ WorkerEnds(w)
    <3>1. Serving(w) /\ (WorkerEnds(w) \/ \E k \in {1, 2} : Remove(w, k))
      BY <2>2 DEF HandlerCloses, HandlerClosesLate, HandlerContinuesLate, IdleSweep,
                  WorkerEnds, Ready
    <3>2. Holding(w) = connections[w] /\ connections[w] # {} /\ hand[w] = NoConn
      BY <1>0, <3>1 DEF PlaceInv, Serving, Holding
    <3>3. /\ queue' = queue /\ Holding(w)' = {} /\ closed' = closed \cup Holding(w)
          /\ \A v \in Workers \ {w} : Holding(v)' = Holding(v)
      BY <1>0, <3>1, <3>2 DEF WorkerEnds, Remove, TypeOK, Holding
    <3>4. QED
      BY <3>2, <3>3, ServiceFinish DEF Service!Next
  <2>3. QED
    BY <1>5, <2>1, <2>2 DEF ServeStep
<1>6. QED
  BY <1>1, <1>2, <1>3, <1>4, <1>5 DEF Next

\* The pool implements the service: connections leave the queue in the order they
\* entered it, each to one worker, and finish once.
THEOREM ImplementsService == Spec => ServiceSpec
<1>1. Init => Service!Init
  <2>1. Init => \A w \in Workers : Holding(w) = {}
    BY DEF Init, Holding
  <2>2. QED
    BY <2>1, TheOneOf DEF Init, Service!Init, SlotOf
<1>2. PoolInv /\ PoolInv' /\ [Next]_vars => [Service!Next]_(Service!dvars)
  BY ServiceStep
<1>3. QED
  BY <1>1, <1>2, PoolInvHolds, PTL DEF Spec, ServiceSpec, Service!Spec
=============================================================================
