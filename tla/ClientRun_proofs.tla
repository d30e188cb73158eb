--------------------------- MODULE ClientRun_proofs ---------------------------
(***************************************************************************)
(* What holds of the client's threads for every number of threads: types,  *)
(* the barriers' lockstep, phases that never overlap, speeds computed from *)
(* every list, and a report that is all or nothing.                        *)
(*                                                                         *)
(* ClientInv ties the barrier to the threads.  A thread that does not wait *)
(* is in the round of the barrier's generation, one that waits is in the   *)
(* round it waits for, which is this generation or the one before, and the *)
(* count is that of the threads waiting in this generation.  So when the   *)
(* last one arrives every other waits, and none is a generation behind.    *)
(***************************************************************************)
EXTENDS ClientRun, FiniteSetTheorems, TLAPS

Speeds == [kind : {"unset", "zero", "wrapped", "speed"}, from : SUBSET Threads]

Shape ==
    /\ TypeOK
    /\ shown \in [ping : BOOLEAN, down : Speeds, up : Speeds]

Waiters == {t \in Threads : waiting[t] = barGen}

\* The barrier and the rounds of the threads.
Gates ==
    /\ \A t \in Threads :
          IF waiting[t] = NotWaiting THEN Round[stage[t]] = barGen
          ELSE /\ stage[t] \in Barriers
               /\ waiting[t] = Round[stage[t]]
               /\ barGen = waiting[t] \/ barGen = waiting[t] + 1
    /\ barCount = Cardinality(Waiters)
    /\ barCount < N

\* What a thread has done by the stage it is at.
DownPushed == {"bar4", "calcDown", "bar5", "perf", "pushUp", "bar6", "calcUp", "finish"}
UpPushed   == {"bar6", "calcUp", "finish"}
PingShown  == {"bar3", "time", "pushDown"} \cup DownPushed
DownShown  == DownPushed \ {"bar4", "calcDown"}

Done ==
    \A t \in Threads :
        /\ stage[t] \in DownPushed => stats[t].down # "unset"
        /\ stage[t] \in UpPushed => stats[t].up # "unset"
        /\ running[t] => stage[t] \in Phases
        /\ status[t] = "err" => stage[t] = "connect"
        /\ status[t] = "ok" => stage[t] = "finish"

Shown ==
    /\ SpeedsSeeEveryThread
    /\ stage[0] \in PingShown => shown.ping
    /\ stage[0] \in DownShown => shown.down # NoSpeed
    /\ stage[0] = "finish" => shown.up # NoSpeed

JoinedWell ==
    /\ \A t \in Threads : t < joined => status[t] \in {"ok", "err"}
    /\ main = "reported" => joined = N

ClientInv == Shape /\ Gates /\ Done /\ Shown /\ JoinedWell
-----------------------------------------------------------------------------
(* The order of the stages, for any thread and for thread 0.               *)

LEMMA ConstantFacts ==
    /\ N \in Nat /\ N > 0 /\ 0 \in Threads
    /\ IsFiniteSet(Threads) /\ Cardinality(Threads) = N
<1>1. N \in Nat /\ N > 0 /\ 0 \in Threads
  BY ClientRunAssumption DEF ClientRunAssumption, Threads
<1>2. IsFiniteSet(0..(N - 1)) /\ Cardinality(0..(N - 1)) = N
  BY <1>1, FS_Interval
<1>3. QED
  BY <1>1, <1>2 DEF Threads

LEMMA StageList ==
    Stages = {"connect", "greet", "bar1", "chunks", "bar2", "ping", "median", "bar3", "time",
              "pushDown", "bar4", "calcDown", "bar5", "perf", "pushUp", "bar6", "calcUp",
              "finish"}
BY DEF Stages, After

\* The others go from chunks' barrier to bar3, and from bar4 and bar6 past the speeds.
LEMMA FollowTable ==
    ASSUME NEW t \in Threads
    PROVE  /\ FollowIn(t, "connect") = "greet"
           /\ FollowIn(t, "greet") = "bar1"
           /\ FollowIn(t, "bar1") = "chunks"
           /\ FollowIn(t, "chunks") = "bar2"
           /\ FollowIn(t, "bar2") = IF t = 0 THEN "ping" ELSE "bar3"
           /\ FollowIn(t, "ping") = IF t = 0 THEN "median" ELSE "bar3"
           /\ FollowIn(t, "median") = "bar3"
           /\ FollowIn(t, "bar3") = "time"
           /\ FollowIn(t, "time") = "pushDown"
           /\ FollowIn(t, "pushDown") = "bar4"
           /\ FollowIn(t, "bar4") = IF t = 0 THEN "calcDown" ELSE "bar5"
           /\ FollowIn(t, "calcDown") = "bar5"
           /\ FollowIn(t, "bar5") = "perf"
           /\ FollowIn(t, "perf") = "pushUp"
           /\ FollowIn(t, "pushUp") = "bar6"
           /\ FollowIn(t, "bar6") = IF t = 0 THEN "calcUp" ELSE "finish"
           /\ FollowIn(t, "calcUp") = "finish"
BY DEF FollowIn, Own, After

LEMMA Follow ==
    ASSUME NEW t \in Threads, NEW s \in Stages, s # "finish"
    PROVE  /\ FollowIn(t, s) \in Stages \ {"connect"}
           /\ Round[s] \in 0..6
           /\ s \in Barriers => Round[s] < 6 /\ Round[FollowIn(t, s)] = Round[s] + 1
           /\ s \notin Barriers => Round[FollowIn(t, s)] = Round[s]
           /\ FollowIn(t, s) \in DownPushed => s \in DownPushed \cup {"pushDown"}
           /\ FollowIn(t, s) \in UpPushed => s \in UpPushed \cup {"pushUp"}
BY FollowTable, StageList DEF Round, Barriers, DownPushed, UpPushed

LEMMA FollowZero ==
    ASSUME NEW s \in Stages, s # "finish"
    PROVE  /\ FollowIn(0, s) \in PingShown => s \in PingShown \cup {"median"}
           /\ FollowIn(0, s) \in DownShown => s \in DownShown \cup {"calcDown"}
           /\ FollowIn(0, s) = "finish" => s = "calcUp"
BY FollowTable, StageList, ConstantFacts DEF PingShown, DownShown, DownPushed
-----------------------------------------------------------------------------
(* Gates: the barrier and the rounds.                                      *)

LEMMA WaitersOf ==
    IsFiniteSet(Waiters) /\ Cardinality(Waiters) \in Nat
BY ConstantFacts, FS_Subset, FS_CardinalityType DEF Waiters

\* A step that is neither an arrival at a barrier nor a wake-up.
LEMMA GatesKept ==
    ASSUME ClientInv, NEW t \in Threads, UNCHANGED barVars,
           stage' = stage \/ (stage[t] \notin Barriers \cup {"finish"} /\ Advance(t))
    PROVE  Gates'
<1>1. \A u \in Threads : waiting'[u] = waiting[u] /\ barGen' = barGen /\ barCount' = barCount
  BY DEF barVars
<1>2. Waiters' = Waiters /\ barCount' = barCount /\ barGen' = barGen
  BY DEF barVars, Waiters
<1>3. \A u \in Threads : IF waiting[u] = NotWaiting THEN Round[stage'[u]] = Round[stage[u]]
                         ELSE stage'[u] = stage[u]
  <2>1. CASE stage' = stage
    BY <2>1
  <2>2. CASE stage[t] \notin Barriers \cup {"finish"} /\ Advance(t)
    <3>1. waiting[t] = NotWaiting
      BY <2>2 DEF ClientInv, Gates
    <3>2. Round[FollowIn(t, stage[t])] = Round[stage[t]]
      BY <2>2, Follow DEF ClientInv, Shape, TypeOK
    <3>3. stage' = [stage EXCEPT ![t] = FollowIn(t, stage[t])] /\ stage \in [Threads -> Stages]
      BY <2>2 DEF Advance, ClientInv, Shape, TypeOK
    <3>4. QED
      BY <3>1, <3>2, <3>3
  <2>3. QED
    BY <2>1, <2>2
<1>4. QED
  BY <1>1, <1>2, <1>3 DEF ClientInv, Gates

\* The last thread to arrive finds all the others waiting.
LEMMA OthersWait ==
    ASSUME ClientInv, NEW t \in Threads, waiting[t] # barGen, ~(barCount + 1 < N)
    PROVE  \A u \in Threads \ {t} : waiting[u] = barGen
<1>1. Waiters \subseteq Threads \ {t}
  BY DEF Waiters
<1>2. IsFiniteSet(Threads \ {t}) /\ Cardinality(Threads \ {t}) = N - 1
  BY ConstantFacts, FS_RemoveElement
<1>3. Cardinality(Waiters) = N - 1
  BY WaitersOf, ConstantFacts DEF ClientInv, Gates
<1>4. Waiters = Threads \ {t}
  BY <1>1, <1>2, <1>3, FS_Subset
<1>5. QED
  BY <1>4 DEF Waiters

LEMMA ArriveGates ==
    ASSUME ClientInv, NEW t \in Threads, Arrive(t)
    PROVE  Gates'
<1>1. /\ stage \in [Threads -> Stages] /\ stage[t] \in Barriers /\ waiting[t] = NotWaiting
      /\ waiting \in [Threads -> 0..5 \cup {NotWaiting}]
      /\ Round[stage[t]] = barGen /\ barGen \in 0..5 /\ waiting[t] # barGen
  <2>1. stage \in [Threads -> Stages] /\ stage[t] \in Barriers /\ waiting[t] = NotWaiting
        /\ waiting \in [Threads -> 0..5 \cup {NotWaiting}]
    BY DEF Arrive, ClientInv, Shape, TypeOK
  <2>2. Round[stage[t]] = barGen
    BY <2>1 DEF ClientInv, Gates
  <2>3. barGen \in 0..5
    BY <2>1, <2>2 DEF Barriers, Round
  <2>4. QED
    BY <2>1, <2>2, <2>3 DEF NotWaiting
<1>2. CASE barCount + 1 < N
  <2>1. barCount' = barCount + 1 /\ waiting' = [waiting EXCEPT ![t] = barGen]
        /\ barGen' = barGen /\ stage' = stage
    BY <1>2 DEF Arrive
  <2>2. Waiters' = Waiters \cup {t} /\ t \notin Waiters
    BY <1>1, <2>1 DEF Waiters
  <2>3. Cardinality(Waiters') = Cardinality(Waiters) + 1
    BY <2>2, WaitersOf, FS_AddElement
  <2>4. barCount' = Cardinality(Waiters') /\ barCount' < N
    BY <1>2, <2>1, <2>3 DEF ClientInv, Gates
  <2>5. \A u \in Threads :
           IF waiting'[u] = NotWaiting THEN Round[stage'[u]] = barGen'
           ELSE /\ stage'[u] \in Barriers
                /\ waiting'[u] = Round[stage'[u]]
                /\ barGen' = waiting'[u] \/ barGen' = waiting'[u] + 1
    BY <1>1, <2>1 DEF ClientInv, Gates, NotWaiting
  <2>6. QED
    BY <2>4, <2>5 DEF Gates
<1>3. CASE ~(barCount + 1 < N)
  <2>1. barCount' = 0 /\ barGen' = barGen + 1 /\ waiting' = waiting
        /\ stage' = [stage EXCEPT ![t] = FollowIn(t, stage[t])]
    BY <1>3 DEF Arrive, Advance
  <2>2. \A u \in Threads \ {t} : waiting[u] = barGen
    BY <1>1, <1>3, OthersWait
  <2>3. stage[t] \in Stages \ {"finish"} /\ Round[FollowIn(t, stage[t])] = barGen + 1
    BY <1>1, Follow DEF Barriers
  <2>4. \A u \in Threads : waiting[u] # barGen'
    BY <1>1, <2>1, <2>2 DEF NotWaiting
  <2>5. Waiters' = {}
    BY <2>1, <2>4 DEF Waiters
  <2>6. barCount' = Cardinality(Waiters') /\ barCount' < N
    BY <2>1, <2>5, FS_EmptySet, ConstantFacts
  <2>7. \A u \in Threads :
           IF waiting'[u] = NotWaiting THEN Round[stage'[u]] = barGen'
           ELSE /\ stage'[u] \in Barriers
                /\ waiting'[u] = Round[stage'[u]]
                /\ barGen' = waiting'[u] \/ barGen' = waiting'[u] + 1
    <3>1. Round[stage'[t]] = barGen' /\ waiting'[t] = NotWaiting
      BY <1>1, <2>1, <2>3
    <3>2. \A u \in Threads \ {t} :
             /\ waiting[u] # NotWaiting /\ stage'[u] = stage[u] /\ waiting'[u] = waiting[u]
             /\ barGen' = waiting[u] + 1
      BY <1>1, <2>1, <2>2 DEF NotWaiting
    <3>3. QED
      BY <3>1, <3>2 DEF ClientInv, Gates
  <2>8. QED
    BY <2>6, <2>7 DEF Gates
<1>4. QED
  BY <1>2, <1>3

LEMMA LeaveGates ==
    ASSUME ClientInv, NEW t \in Threads, Leave(t)
    PROVE  Gates'
<1>1. /\ stage \in [Threads -> Stages] /\ waiting[t] \notin {NotWaiting, barGen}
      /\ waiting' = [waiting EXCEPT ![t] = NotWaiting]
      /\ stage' = [stage EXCEPT ![t] = FollowIn(t, stage[t])]
      /\ barCount' = barCount /\ barGen' = barGen /\ barGen \in 0..6
      /\ waiting \in [Threads -> 0..5 \cup {NotWaiting}]
  BY DEF Leave, Advance, ClientInv, Shape, TypeOK
<1>2. stage[t] \in Barriers /\ barGen = Round[stage[t]] + 1
  BY <1>1 DEF ClientInv, Gates
<1>3. Round[FollowIn(t, stage[t])] = barGen
  BY <1>1, <1>2, Follow DEF Barriers
<1>4. Waiters' = Waiters
  BY <1>1 DEF Waiters, NotWaiting
<1>5. \A u \in Threads :
         IF waiting'[u] = NotWaiting THEN Round[stage'[u]] = barGen'
         ELSE /\ stage'[u] \in Barriers
              /\ waiting'[u] = Round[stage'[u]]
              /\ barGen' = waiting'[u] \/ barGen' = waiting'[u] + 1
  <2>1. Round[stage'[t]] = barGen' /\ waiting'[t] = NotWaiting
    BY <1>1, <1>3
  <2>2. \A u \in Threads \ {t} : stage'[u] = stage[u] /\ waiting'[u] = waiting[u]
    BY <1>1
  <2>3. QED
    BY <1>1, <2>1, <2>2 DEF ClientInv, Gates
<1>6. QED
  BY <1>1, <1>4, <1>5 DEF ClientInv, Gates
-----------------------------------------------------------------------------
(* The other parts of ClientInv, for a step that takes thread t onwards.   *)

LEMMA Advanced ==
    ASSUME ClientInv, NEW t \in Threads, Advance(t), stage[t] # "finish"
    PROVE  /\ stage' \in [Threads -> Stages]
           /\ stage'[t] = FollowIn(t, stage[t])
           /\ \A u \in Threads \ {t} : stage'[u] = stage[u]
           /\ stage'[t] # "connect"
BY Follow DEF ClientInv, Shape, TypeOK, Advance

LEMMA DoneKept ==
    ASSUME ClientInv, NEW t \in Threads, Advance(t), stage[t] # "finish", status[t] = "live",
           status' = status, ~running'[t],
           \A u \in Threads \ {t} : running'[u] => running[u],
           \A u \in Threads : /\ stats[u].down # "unset" => stats'[u].down # "unset"
                              /\ stats[u].up # "unset" => stats'[u].up # "unset",
           stage[t] = "pushDown" => stats'[t].down # "unset",
           stage[t] = "pushUp" => stats'[t].up # "unset"
    PROVE  Done'
<1>1. stage[t] \in Stages
  BY DEF ClientInv, Shape, TypeOK
<1>2. /\ stage'[t] \in DownPushed => stage[t] \in DownPushed \cup {"pushDown"}
      /\ stage'[t] \in UpPushed => stage[t] \in UpPushed \cup {"pushUp"}
  BY <1>1, Advanced, Follow
<1>3. \A u \in Threads \ {t} : stage'[u] = stage[u]
  BY Advanced
<1>4. QED
  BY <1>2, <1>3 DEF ClientInv, Done

LEMMA ShownKept ==
    ASSUME ClientInv, NEW t \in Threads, Advance(t), stage[t] # "finish",
           \A dir \in {"down", "up"} :
              /\ shown[dir] # NoSpeed => shown'[dir] # NoSpeed
              /\ shown'[dir] # NoSpeed => shown'[dir].from = Threads,
           shown.ping => shown'.ping,
           stage[t] = "median" => shown'.ping,
           stage[t] = "calcDown" => shown'.down # NoSpeed,
           stage[t] = "calcUp" => shown'.up # NoSpeed
    PROVE  Shown'
<1>1. stage \in [Threads -> Stages] /\ 0 \in Threads
  BY ConstantFacts DEF ClientInv, Shape, TypeOK
<1>2. stage'[0] = stage[0] \/ (t = 0 /\ stage'[0] = FollowIn(0, stage[0]))
  BY <1>1, Advanced
<1>3. /\ stage'[0] \in PingShown => stage[0] \in PingShown \/ (t = 0 /\ stage[0] = "median")
      /\ stage'[0] \in DownShown => stage[0] \in DownShown \/ (t = 0 /\ stage[0] = "calcDown")
      /\ stage'[0] = "finish" => stage[0] = "finish" \/ (t = 0 /\ stage[0] = "calcUp")
  BY <1>1, <1>2, FollowZero
<1>4. QED
  BY <1>3 DEF ClientInv, Shown, SpeedsSeeEveryThread

\* A thread that ends, well or not, takes nothing along.
LEMMA EndKeeps ==
    ASSUME ClientInv, NEW t \in Threads, Live(t),
           NEW how \in {"ok", "err", "panic", "spin"}, End(t, how),
           how = "err" => stage[t] = "connect",
           how = "ok" => stage[t] = "finish",
           running' = running \/ running' = [running EXCEPT ![t] = FALSE]
    PROVE  ClientInv'
<1>1. Shape'
  <2>1. Shape /\ TypeOK
    BY DEF ClientInv, Shape
  <2>2. /\ status' \in [Threads -> {"live", "ok", "err", "panic", "spin"}]
        /\ running' \in [Threads -> BOOLEAN]
    BY <2>1 DEF TypeOK, End
  <2>3. QED
    BY <2>1, <2>2 DEF Shape, TypeOK, End, barVars, mainVars
<1>2. Gates'
  BY GatesKept DEF End
<1>3. Done'
  BY DEF ClientInv, Shape, TypeOK, Done, End
<1>4. Shown'
  BY DEF ClientInv, Shown, SpeedsSeeEveryThread, End
<1>5. JoinedWell'
  BY DEF ClientInv, Shape, TypeOK, JoinedWell, End, Live, mainVars
<1>6. QED
  BY <1>1, <1>2, <1>3, <1>4, <1>5 DEF ClientInv

\* JoinedWell only looks at statuses and at main.
LEMMA JoinedKept ==
    ASSUME ClientInv, status' = status, UNCHANGED mainVars
    PROVE  JoinedWell'
BY DEF ClientInv, JoinedWell, mainVars
-----------------------------------------------------------------------------
(* One lemma per group of actions.                                         *)

LEMMA ConnectStep ==
    ASSUME ClientInv, NEW t \in Threads, Connect(t) \/ ConnectFails(t)
    PROVE  ClientInv'
<1>1. CASE Connect(t)
  <2>1. stage[t] = "connect" /\ Advance(t) /\ ~running[t] /\ status[t] = "live"
    BY <1>1 DEF Connect, Live, ClientInv, Done, Shape, TypeOK, Phases
  <2>2. Shape'
    BY <1>1, <2>1, Advanced DEF Connect, ClientInv, Shape, TypeOK, barVars, mainVars, Speeds
  <2>3. Gates'
    BY <1>1, <2>1, GatesKept DEF Connect, Barriers
  <2>4. Done'
    BY <1>1, <2>1, DoneKept DEF Connect
  <2>5. Shown'
    BY <1>1, <2>1, ShownKept DEF Connect, ClientInv, Shown, SpeedsSeeEveryThread
  <2>6. QED
    BY <1>1, <2>2, <2>3, <2>4, <2>5, JoinedKept DEF Connect, ClientInv
<1>2. CASE ConnectFails(t)
  BY <1>2, EndKeeps DEF ConnectFails
<1>3. QED
  BY <1>1, <1>2

LEMMA StartPhaseStep ==
    ASSUME ClientInv, NEW t \in Threads, StartPhase(t)
    PROVE  ClientInv'
<1>1. stage[t] \in Phases /\ ~running[t] /\ status[t] = "live" /\ status' = status
      /\ UNCHANGED mainVars
  BY DEF StartPhase, Live
<1>2. CASE failed[t]
  <2>1. Advance(t) /\ running' = running
    BY <1>2 DEF StartPhase
  <2>2. Shape'
    BY <1>1, <2>1, Advanced DEF StartPhase, ClientInv, Shape, TypeOK, Phases, barVars, mainVars,
                               Speeds
  <2>3. Gates'
    BY <1>1, <2>1, GatesKept DEF StartPhase, Phases, Barriers
  <2>4. Done'
    BY <1>1, <2>1, DoneKept DEF StartPhase, Phases
  <2>5. Shown'
    BY <1>1, <2>1, ShownKept DEF StartPhase, Phases, ClientInv, Shown, SpeedsSeeEveryThread
  <2>6. QED
    BY <1>1, <2>2, <2>3, <2>4, <2>5, JoinedKept DEF ClientInv
<1>3. CASE ~failed[t]
  <2>1. running' = [running EXCEPT ![t] = TRUE] /\ stage' = stage
    BY <1>3 DEF StartPhase
  <2>2. Shape'
    BY <1>1, <2>1 DEF StartPhase, ClientInv, Shape, TypeOK, barVars, mainVars, Speeds
  <2>3. Gates'
    BY <2>1, GatesKept DEF StartPhase
  <2>4. Done'
    BY <1>1, <2>1 DEF StartPhase, ClientInv, Shape, TypeOK, Done
  <2>5. Shown'
    BY <2>1 DEF StartPhase, ClientInv, Shown, SpeedsSeeEveryThread
  <2>6. QED
    BY <1>1, <2>2, <2>3, <2>4, <2>5, JoinedKept DEF ClientInv
<1>4. QED
  BY <1>2, <1>3

LEMMA PhaseFlaggedStep ==
    ASSUME ClientInv, NEW t \in Threads, PhaseFlagged(t)
    PROVE  ClientInv'
<1>1. Shape'
  BY DEF PhaseFlagged, ClientInv, Shape, TypeOK, barVars, mainVars, Speeds
<1>2. Gates'
  BY GatesKept DEF PhaseFlagged
<1>3. Done' /\ Shown'
  BY DEF PhaseFlagged, ClientInv, Done, Shown, SpeedsSeeEveryThread
<1>4. QED
  BY <1>1, <1>2, <1>3, JoinedKept DEF PhaseFlagged, ClientInv

LEMMA MeasuresType ==
    ASSUME ClientInv, NEW t \in Threads, Measures(t)
    PROVE  measured' \in [Threads -> [down : Data, up : Data]]
<1>1. PICK d \in Data :
         measured' = CASE stage[t] = "time" -> [measured EXCEPT ![t].down = d]
                       [] stage[t] = "perf" -> [measured EXCEPT ![t].up = d]
                       [] OTHER             -> measured
  BY DEF Measures
<1>2. measured \in [Threads -> [down : Data, up : Data]]
  BY DEF ClientInv, Shape, TypeOK
<1>3. CASE stage[t] = "time"
  BY <1>1, <1>2, <1>3
<1>4. CASE stage[t] = "perf"
  BY <1>1, <1>2, <1>4
<1>5. CASE stage[t] \notin {"time", "perf"}
  BY <1>1, <1>2, <1>5
<1>6. QED
  BY <1>3, <1>4, <1>5

\* A phase that returns, whatever its outcome.
LEMMA PhaseReturns ==
    ASSUME ClientInv, NEW t \in Threads, LeavePhase(t) \/ PhaseErrs(t), Advance(t),
           failed' \in [Threads -> BOOLEAN], median' \in BOOLEAN,
           measured' \in [Threads -> [down : Data, up : Data]],
           UNCHANGED <<status, barVars, stats, shown, mainVars, build>>
    PROVE  ClientInv'
<1>1. /\ stage[t] \in Phases /\ running \in [Threads -> BOOLEAN] /\ status[t] = "live"
      /\ running' = [running EXCEPT ![t] = FALSE]
  BY DEF LeavePhase, PhaseErrs, Live, ClientInv, Done, Shape, TypeOK
<1>2. Shape'
  BY <1>1, Advanced DEF ClientInv, Shape, TypeOK, Phases, barVars, mainVars, Speeds
<1>3. Gates'
  BY <1>1, GatesKept DEF Phases, Barriers
<1>4. Done'
  BY <1>1, DoneKept DEF Phases
<1>5. Shown'
  BY <1>1, ShownKept DEF Phases, ClientInv, Shown, SpeedsSeeEveryThread
<1>6. QED
  BY <1>2, <1>3, <1>4, <1>5, JoinedKept DEF ClientInv

LEMMA PhaseEndsStep ==
    ASSUME ClientInv, NEW t \in Threads, PhaseEnds(t)
    PROVE  ClientInv'
<1>1. failed \in [Threads -> BOOLEAN] /\ median \in BOOLEAN
      /\ measured \in [Threads -> [down : Data, up : Data]]
  BY DEF ClientInv, Shape, TypeOK
<1>2. CASE PhaseCompletes(t)
  BY <1>1, <1>2, MeasuresType, PhaseReturns DEF PhaseCompletes
<1>3. CASE PhaseTimesOut(t)
  <2>1. CASE OverflowChecks /\ End(t, "panic")
    BY <1>3, <2>1, EndKeeps DEF PhaseTimesOut, LeavePhase
  <2>2. CASE ~(OverflowChecks /\ End(t, "panic"))
    BY <1>1, <1>3, <2>2, MeasuresType, PhaseReturns DEF PhaseTimesOut
  <2>3. QED
    BY <2>1, <2>2
<1>4. CASE PhaseErrs(t)
  <2>1. CASE stage[t] = "greet"
    BY <1>1, <1>4, <2>1, PhaseReturns DEF PhaseErrs
  <2>2. CASE stage[t] # "greet"
    BY <1>4, <2>2, EndKeeps DEF PhaseErrs
  <2>3. QED
    BY <2>1, <2>2
<1>5. CASE PhaseSpins(t)
  BY <1>5, EndKeeps DEF PhaseSpins
<1>6. QED
  BY <1>2, <1>3, <1>4, <1>5 DEF PhaseEnds

\* A thread that arrives has run its phase, and so has one that wakes up.
LEMMA ArriveStep ==
    ASSUME ClientInv, NEW t \in Threads, Arrive(t)
    PROVE  ClientInv'
<1>1. /\ stage[t] \in Barriers /\ stage \in [Threads -> Stages] /\ ~running[t]
      /\ status[t] = "live" /\ barCount \in 0..N /\ barGen \in 0..5
      /\ waiting \in [Threads -> 0..5 \cup {NotWaiting}]
  <2>1. /\ stage[t] \in Barriers /\ stage \in [Threads -> Stages] /\ status[t] = "live"
        /\ barCount \in 0..N /\ waiting \in [Threads -> 0..5 \cup {NotWaiting}]
        /\ waiting[t] = NotWaiting
    BY DEF Arrive, Live, ClientInv, Shape, TypeOK
  <2>2. ~running[t]
    BY <2>1 DEF ClientInv, Done, Phases, Barriers
  <2>3. barGen \in 0..5
    BY <2>1 DEF ClientInv, Gates, Barriers, Round
  <2>4. QED
    BY <2>1, <2>2, <2>3
<1>2. UNCHANGED <<status, running, failed, median, measured, stats, shown, mainVars, build>>
  BY DEF Arrive
<1>3. Gates'
  BY ArriveGates
<1>4. stage' = stage \/ Advance(t)
  BY DEF Arrive
<1>5. Shape'
  <2>1. stage' \in [Threads -> Stages]
    BY <1>1, <1>4, Advanced DEF Barriers
  <2>2. barCount' \in 0..N /\ barGen' \in 0..6 /\ waiting' \in [Threads -> 0..5 \cup {NotWaiting}]
    BY <1>1, ConstantFacts DEF Arrive
  <2>3. QED
    BY <1>2, <2>1, <2>2 DEF ClientInv, Shape, TypeOK, mainVars, Speeds
<1>6. Done'
  <2>1. CASE stage' = stage
    BY <1>2, <2>1 DEF ClientInv, Done
  <2>2. CASE Advance(t)
    BY <1>1, <1>2, <2>2, DoneKept DEF Barriers
  <2>3. QED
    BY <1>4, <2>1, <2>2
<1>7. Shown'
  <2>1. CASE stage' = stage
    BY <1>2, <2>1 DEF ClientInv, Shown, SpeedsSeeEveryThread
  <2>2. CASE Advance(t)
    BY <1>1, <1>2, <2>2, ShownKept DEF Barriers, ClientInv, Shown, SpeedsSeeEveryThread
  <2>3. QED
    BY <1>4, <2>1, <2>2
<1>8. QED
  BY <1>2, <1>3, <1>5, <1>6, <1>7, JoinedKept DEF ClientInv

LEMMA LeaveStep ==
    ASSUME ClientInv, NEW t \in Threads, Leave(t)
    PROVE  ClientInv'
<1>1. /\ Advance(t) /\ status[t] = "live" /\ waiting[t] # NotWaiting
      /\ waiting' = [waiting EXCEPT ![t] = NotWaiting]
      /\ UNCHANGED <<status, running, failed, median, measured, barCount, barGen, stats,
                     shown, mainVars, build>>
  BY DEF Leave, Live
<1>2. stage[t] \in Barriers /\ ~running[t]
  BY <1>1 DEF ClientInv, Gates, Done, Phases, Barriers
<1>3. Gates'
  BY LeaveGates
<1>4. Shape'
  BY <1>1, <1>2, Advanced DEF ClientInv, Shape, TypeOK, Barriers, mainVars, Speeds
<1>5. Done'
  BY <1>1, <1>2, DoneKept DEF Barriers
<1>6. Shown'
  BY <1>1, <1>2, ShownKept DEF Barriers, ClientInv, Shown, SpeedsSeeEveryThread
<1>7. QED
  BY <1>1, <1>3, <1>4, <1>5, <1>6, JoinedKept DEF ClientInv

LEMMA PublishMedianStep ==
    ASSUME ClientInv, NEW t \in Threads, PublishMedian(t)
    PROVE  ClientInv'
<1>1. stage[t] = "median" /\ Live(t)
  BY DEF PublishMedian
<1>2. CASE median
  <2>1. /\ Advance(t) /\ status[t] = "live" /\ ~running[t]
        /\ shown' = [shown EXCEPT !.ping = TRUE]
        /\ UNCHANGED <<status, running, failed, median, measured, barVars, stats, mainVars, build>>
    BY <1>1, <1>2 DEF PublishMedian, End, Live, ClientInv, Done, Phases
  <2>2. shown \in [ping : BOOLEAN, down : Speeds, up : Speeds]
    BY DEF ClientInv, Shape
  <2>3. shown'.ping /\ shown'.down = shown.down /\ shown'.up = shown.up
    BY <2>1, <2>2
  <2>4. Shape'
    <3>1. stage' \in [Threads -> Stages]
      BY <1>1, <2>1, Advanced
    <3>2. shown' \in [ping : BOOLEAN, down : Speeds, up : Speeds]
      BY <2>1, <2>2
    <3>3. shown'.ping \in BOOLEAN
          /\ \A dir \in {"down", "up"} : /\ shown'[dir].kind \in {"unset", "zero", "wrapped", "speed"}
                                         /\ shown'[dir].from \subseteq Threads
      BY <3>2 DEF Speeds
    <3>4. QED
      BY <2>1, <3>1, <3>2, <3>3 DEF ClientInv, Shape, TypeOK, barVars, mainVars, Speeds, Threads
  <2>5. Gates'
    BY <1>1, <2>1, GatesKept DEF Barriers
  <2>6. Done'
    BY <1>1, <2>1, DoneKept
  <2>7. Shown'
    BY <1>1, <2>1, <2>3, ShownKept DEF ClientInv, Shown, SpeedsSeeEveryThread
  <2>8. QED
    BY <2>1, <2>4, <2>5, <2>6, <2>7, JoinedKept DEF ClientInv
<1>3. CASE ~median
  BY <1>1, <1>3, EndKeeps DEF PublishMedian
<1>4. QED
  BY <1>2, <1>3

LEMMA PushStep ==
    ASSUME ClientInv, NEW t \in Threads, PushDownload(t) \/ PushUpload(t)
    PROVE  ClientInv'
<1>1. /\ Advance(t) /\ status[t] = "live" /\ stage[t] \in {"pushDown", "pushUp"}
      /\ UNCHANGED <<status, running, failed, median, measured, barVars, shown, mainVars, build>>
  BY DEF PushDownload, PushUpload, Live
<1>2. ~running[t]
  BY <1>1 DEF ClientInv, Done, Phases
<1>3. /\ stats' \in [Threads -> [down : Data \cup {"unset"}, up : Data \cup {"unset"}]]
      /\ \A u \in Threads : /\ stats[u].down # "unset" => stats'[u].down # "unset"
                            /\ stats[u].up # "unset" => stats'[u].up # "unset"
      /\ stage[t] = "pushDown" => stats'[t].down # "unset"
      /\ stage[t] = "pushUp" => stats'[t].up # "unset"
  <2>1. /\ measured[t].down \in Data /\ measured[t].up \in Data
        /\ stats \in [Threads -> [down : Data \cup {"unset"}, up : Data \cup {"unset"}]]
        /\ "unset" \notin Data
    BY DEF ClientInv, Shape, TypeOK, Data
  <2>2. CASE PushDownload(t)
    BY <2>1, <2>2 DEF PushDownload
  <2>3. CASE PushUpload(t)
    BY <2>1, <2>3 DEF PushUpload
  <2>4. QED
    BY <2>2, <2>3
<1>4. Shape'
  BY <1>1, <1>3, Advanced DEF ClientInv, Shape, TypeOK, barVars, mainVars, Speeds
<1>5. Gates'
  BY <1>1, GatesKept DEF Barriers
<1>6. Done'
  BY <1>1, <1>2, <1>3, DoneKept
<1>7. Shown'
  BY <1>1, ShownKept DEF ClientInv, Shown, SpeedsSeeEveryThread
<1>8. QED
  BY <1>1, <1>4, <1>5, <1>6, <1>7, JoinedKept DEF ClientInv

\* In the round after a push every thread has pushed.
LEMMA AllPushed ==
    ASSUME ClientInv, NEW t \in Threads, NEW dir \in {"down", "up"},
           stage[t] = IF dir = "down" THEN "calcDown" ELSE "calcUp"
    PROVE  Pushed(dir) = Threads
<1>1. stage \in [Threads -> Stages]
  BY DEF ClientInv, Shape, TypeOK
<1>2. barGen = IF dir = "down" THEN 4 ELSE 6
  BY DEF ClientInv, Gates, Barriers, Round
<1>3. ASSUME NEW u \in Threads
      PROVE  stage[u] \in (IF dir = "down" THEN DownPushed ELSE UpPushed)
  <2>1. stage[u] \in Stages
    BY <1>1
  <2>2. Round[stage[u]] = barGen \/ (stage[u] \in Barriers /\ Round[stage[u]] + 1 = barGen)
    <3>1. CASE waiting[u] = NotWaiting
      BY <3>1 DEF ClientInv, Gates
    <3>2. CASE waiting[u] # NotWaiting
      BY <3>2 DEF ClientInv, Gates
    <3>3. QED
      BY <3>1, <3>2
  <2>3. QED
    BY <1>2, <2>1, <2>2, StageList DEF Round, Barriers, DownPushed, UpPushed
<1>4. \A u \in Threads : stats[u][dir] # "unset"
  BY <1>3 DEF ClientInv, Done
<1>5. QED
  BY <1>4 DEF Pushed

LEMMA CalculateStep ==
    ASSUME ClientInv, NEW t \in Threads, CalculateDownload(t) \/ CalculateUpload(t)
    PROVE  ClientInv'
<1>1. PICK dir \in {"down", "up"} :
         /\ stage[t] = (IF dir = "down" THEN "calcDown" ELSE "calcUp")
         /\ Live(t) /\ Calculate(t, dir)
  BY DEF CalculateDownload, CalculateUpload
<1>2. ~running[t] /\ status[t] = "live" /\ stage[t] \in {"calcDown", "calcUp"}
  BY <1>1 DEF Live, ClientInv, Done, Phases
<1>3. CASE OverflowChecks /\ HasShort(dir)
  BY <1>1, <1>3, EndKeeps DEF Calculate
<1>4. CASE ~(OverflowChecks /\ HasShort(dir))
  <2>1. /\ shown' = [shown EXCEPT ![dir] = Speed(dir)] /\ Advance(t)
        /\ UNCHANGED <<status, running, failed, median, measured, barVars, stats, mainVars, build>>
    BY <1>1, <1>4 DEF Calculate
  <2>2. Speed(dir) \in Speeds /\ Speed(dir).from = Threads /\ Speed(dir) # NoSpeed
    <3>1. Pushed(dir) = Threads
      BY <1>1, AllPushed
    <3>2. Speed(dir).from = Threads /\ Speed(dir).kind \in {"zero", "wrapped", "speed"}
      BY <3>1 DEF Speed
    <3>3. Speed(dir) = [kind |-> Speed(dir).kind, from |-> Threads]
      BY <3>1 DEF Speed
    <3>4. QED
      BY <3>2, <3>3 DEF Speeds, NoSpeed
  <2>3. shown \in [ping : BOOLEAN, down : Speeds, up : Speeds]
    BY DEF ClientInv, Shape
  <2>4. /\ shown' \in [ping : BOOLEAN, down : Speeds, up : Speeds]
        /\ shown'.ping = shown.ping /\ shown'[dir] = Speed(dir)
        /\ \A d \in {"down", "up"} : d # dir => shown'[d] = shown[d]
    BY <2>1, <2>2, <2>3
  <2>5. Shape'
    <3>1. stage' \in [Threads -> Stages]
      BY <1>2, <2>1, Advanced
    <3>2. shown'.ping \in BOOLEAN
          /\ \A d \in {"down", "up"} : /\ shown'[d].kind \in {"unset", "zero", "wrapped", "speed"}
                                       /\ shown'[d].from \subseteq Threads
      BY <2>4 DEF Speeds
    <3>3. QED
      BY <2>1, <2>4, <3>1, <3>2 DEF ClientInv, Shape, TypeOK, barVars, mainVars, Speeds, Threads
  <2>6. Gates'
    BY <1>2, <2>1, GatesKept DEF Barriers
  <2>7. Done'
    BY <1>2, <2>1, DoneKept
  <2>8. Shown'
    <3>1. \A d \in {"down", "up"} : /\ shown[d] # NoSpeed => shown'[d] # NoSpeed
                                    /\ shown'[d] # NoSpeed => shown'[d].from = Threads
      BY <2>2, <2>4 DEF ClientInv, Shown, SpeedsSeeEveryThread
    <3>2. /\ stage[t] = "calcDown" => shown'.down # NoSpeed
          /\ stage[t] = "calcUp" => shown'.up # NoSpeed
      BY <1>1, <2>2, <2>4
    <3>3. QED
      BY <1>2, <2>1, <2>4, <3>1, <3>2, ShownKept
  <2>9. QED
    BY <2>1, <2>5, <2>6, <2>7, <2>8, JoinedKept DEF ClientInv
<1>5. QED
  BY <1>3, <1>4

LEMMA StepInv ==
    ASSUME ClientInv, NEW t \in Threads, Step(t)
    PROVE  ClientInv'
<1>1. CASE Finish(t)
  BY <1>1, EndKeeps DEF Finish
<1>2. CASE ~Finish(t)
  BY <1>2, ConnectStep, StartPhaseStep, PhaseFlaggedStep, PhaseEndsStep, ArriveStep, LeaveStep,
     PublishMedianStep, PushStep, CalculateStep DEF Step
<1>3. QED
  BY <1>1, <1>2

LEMMA JoinStep ==
    ASSUME ClientInv, Join \/ Report
    PROVE  ClientInv'
<1>1. /\ UNCHANGED <<stage, status, running, failed, median, measured, barVars, stats, shown, build>>
      /\ joined' \in 0..N /\ main' \in {"join", "panicked", "reported"}
  <2>1. joined \in 0..N
    BY DEF ClientInv, Shape, TypeOK
  <2>2. QED
    BY <2>1, ConstantFacts DEF Join, Report, threadVars
<1>2. Shape'
  BY <1>1 DEF ClientInv, Shape, TypeOK, barVars, Speeds
<1>3. Gates'
  BY <1>1, ConstantFacts, GatesKept
<1>4. Done' /\ Shown'
  BY <1>1 DEF ClientInv, Done, Shown, SpeedsSeeEveryThread
<1>5. JoinedWell'
  <2>1. joined \in 0..N /\ N \in Nat /\ (\A t \in Threads : t \in Nat)
    BY ConstantFacts DEF ClientInv, Shape, TypeOK, Threads
  <2>2. status' = status
    BY <1>1
  <2>3. CASE Join
    BY <2>1, <2>2, <2>3 DEF Join, ClientInv, JoinedWell
  <2>4. CASE Report
    BY <2>1, <2>2, <2>4 DEF Report, ClientInv, JoinedWell
  <2>5. QED
    BY <2>3, <2>4
<1>6. QED
  BY <1>2, <1>3, <1>4, <1>5 DEF ClientInv

LEMMA InitInv ==
    ASSUME Init
    PROVE  ClientInv
<1>1. Waiters = {}
  BY DEF Init, Waiters, NotWaiting
<1>2. barCount = Cardinality(Waiters) /\ barCount < N
  BY <1>1, FS_EmptySet, ConstantFacts DEF Init
<1>3. Gates
  BY <1>2 DEF Init, Gates, Round
<1>4. Shape
  <2>1. shown \in [ping : BOOLEAN, down : Speeds, up : Speeds]
    BY DEF Init, Speeds, NoSpeed
  <2>2. /\ shown.ping \in BOOLEAN
        /\ \A dir \in {"down", "up"} :
              /\ shown[dir].kind \in {"unset", "zero", "wrapped", "speed"}
              /\ shown[dir].from \subseteq Threads
    BY <2>1 DEF Speeds
  <2>3. /\ stage \in [Threads -> Stages] /\ status \in [Threads -> {"live"}]
        /\ waiting \in [Threads -> {NotWaiting}]
    BY StageList DEF Init
  <2>4. measured \in [Threads -> [down : Data, up : Data]]
    BY DEF Init, Data
  <2>5. stats \in [Threads -> [down : Data \cup {"unset"}, up : Data \cup {"unset"}]]
    BY DEF Init
  <2>6. /\ stage \in [Threads -> Stages]
        /\ status \in [Threads -> {"live", "ok", "err", "panic", "spin"}]
        /\ running \in [Threads -> BOOLEAN] /\ failed \in [Threads -> BOOLEAN]
        /\ waiting \in [Threads -> 0..5 \cup {NotWaiting}]
    BY <2>3 DEF Init
  <2>7. /\ median \in BOOLEAN /\ barCount \in 0..N /\ barGen \in 0..6
        /\ main \in {"join", "panicked", "reported"} /\ joined \in 0..N /\ build \in Builds
    <3>1. /\ median = FALSE /\ barCount = 0 /\ barGen = 0 /\ main = "join" /\ joined = 0
          /\ build \in Builds
      BY DEF Init
    <3>2. 0 \in 0..N /\ 0 \in 0..6
      BY ConstantFacts
    <3>3. QED
      BY <3>1, <3>2
  <2>8. QED
    BY <2>1, <2>2, <2>4, <2>5, <2>6, <2>7 DEF Shape, TypeOK
<1>5. Done
  BY DEF Init, Done, DownPushed, UpPushed, Phases
<1>6. Shown /\ JoinedWell
  BY ConstantFacts DEF Init, Shown, SpeedsSeeEveryThread, JoinedWell, PingShown, DownShown,
                       DownPushed, Threads
<1>7. QED
  BY <1>3, <1>4, <1>5, <1>6 DEF ClientInv

LEMMA NextInv ==
    ASSUME ClientInv, [Next]_vars
    PROVE  ClientInv'
<1>1. CASE Next
  BY <1>1, StepInv, JoinStep DEF Next
<1>2. CASE UNCHANGED vars
  <2>1. UNCHANGED <<stage, status, running, failed, median, measured, barCount, barGen, waiting,
                    stats, shown, main, joined, build>>
    BY <1>2 DEF vars, threadVars, barVars, mainVars
  <2>2. Gates'
    BY <2>1 DEF ClientInv, Gates, Waiters
  <2>3. QED
    BY <2>1, <2>2 DEF ClientInv, Shape, TypeOK, Done, Shown, SpeedsSeeEveryThread, JoinedWell,
                      Speeds
<1>3. QED
  BY <1>1, <1>2
-----------------------------------------------------------------------------
(* What follows.                                                           *)

\* The inductive invariant holds in every state the client reaches (run_threads and
\* the barrier it hands to its threads).
THEOREM InvariantHolds == Spec => []ClientInv
<1>1. Init => ClientInv
  BY InitInv
<1>2. ClientInv /\ [Next]_vars => ClientInv'
  BY NextInv
<1>3. QED
  BY <1>1, <1>2, PTL DEF Spec

\* Every variable of the client keeps its type, for every number of threads: the
\* barrier never counts past N and is never used a seventh time.
THEOREM TypesHold == Spec => []TypeOK
<1>1. ClientInv => TypeOK
  BY DEF ClientInv, Shape
<1>2. QED
  BY <1>1, InvariantHolds, PTL

\* No two connections are ever measured in different phases (run_threads: a barrier
\* stands between any two phases that must not overlap).
THEOREM PhasesNeverMix == Spec => []PhasesAligned
<1>1. ASSUME ClientInv
      PROVE  PhasesAligned
  <2>1. SUFFICES ASSUME NEW t \in Threads, NEW u \in Threads, running[t], running[u]
                 PROVE  stage[t] = stage[u]
    BY DEF PhasesAligned
  <2>2. stage[t] \in Phases /\ stage[u] \in Phases
    BY <1>1, <2>1 DEF ClientInv, Done
  <2>3. Round[stage[t]] = barGen /\ Round[stage[u]] = barGen
    BY <1>1, <2>2 DEF ClientInv, Gates, Phases, Barriers
  <2>4. QED
    BY <2>2, <2>3 DEF Phases, Round
<1>2. QED
  BY <1>1, InvariantHolds, PTL

\* Thread 0 never computes a speed from the lists of some of the threads only
\* (SharedStats and the barrier before calculate_download_speed_from_stats).
THEOREM SpeedsAreWhole == Spec => []SpeedsSeeEveryThread
<1>1. ClientInv => SpeedsSeeEveryThread
  BY DEF ClientInv, Shown
<1>2. QED
  BY <1>1, InvariantHolds, PTL

\* The main task reports all of its threads as finished, with all the results, or all
\* of them as failed to connect: one that ended well was let through by every other.
THEOREM ReportsAreWhole == Spec => []ReportIsWhole
<1>1. ASSUME ClientInv
      PROVE  ReportIsWhole
  <2>1. SUFFICES ASSUME main = "reported"
                 PROVE  \/ \A t \in Threads : status[t] = "err"
                        \/ /\ \A t \in Threads : status[t] = "ok"
                           /\ shown.ping /\ shown.down # NoSpeed /\ shown.up # NoSpeed
    BY DEF ReportIsWhole
  <2>2. \A t \in Threads : status[t] \in {"ok", "err"}
    BY <1>1, <2>1, ConstantFacts DEF ClientInv, JoinedWell, Threads
  <2>3. \A t \in Threads : /\ status[t] = "err" => barGen = 0
                           /\ status[t] = "ok" => barGen = 6
    BY <1>1 DEF ClientInv, Done, Gates, Round, Barriers
  <2>4. \/ \A t \in Threads : status[t] = "err"
        \/ \A t \in Threads : status[t] = "ok"
    BY <2>2, <2>3
  <2>5. status[0] = "ok" => shown.ping /\ shown.down # NoSpeed /\ shown.up # NoSpeed
    BY <1>1, ConstantFacts DEF ClientInv, Done, Shown, PingShown, DownShown, DownPushed
  <2>6. QED
    BY <2>4, <2>5, ConstantFacts
<1>2. QED
  BY <1>1, InvariantHolds, PTL
-----------------------------------------------------------------------------
(* The barrier implements Lockstep.                                        *)

\* Between two barriers a thread stays in its round.
LEMMA RoundsKept ==
    ASSUME ClientInv, NEW t \in Threads, waiting' = waiting,
           stage' = stage \/ (stage[t] \notin Barriers \cup {"finish"} /\ Advance(t))
    PROVE  UNCHANGED Rounds!lvars
<1>1. \A u \in Threads : Round[stage'[u]] = Round[stage[u]]
  <2>1. CASE stage[t] \notin Barriers \cup {"finish"} /\ Advance(t)
    <3>1. Round[FollowIn(t, stage[t])] = Round[stage[t]]
      BY <2>1, Follow DEF ClientInv, Shape, TypeOK
    <3>2. QED
      BY <2>1, <3>1, Advanced
  <2>2. QED
    BY <2>1
<1>2. QED
  BY <1>1 DEF Rounds!lvars

LEMMA OtherSteps ==
    ASSUME ClientInv, NEW t \in Threads, Step(t), ~Arrive(t), ~Leave(t)
    PROVE  UNCHANGED Rounds!lvars
<1>1. waiting' = waiting
  BY DEF Step, Connect, ConnectFails, StartPhase, PhaseFlagged, PhaseEnds, PhaseCompletes,
         PhaseTimesOut, PhaseErrs, PhaseSpins, PublishMedian, PushDownload, PushUpload,
         CalculateDownload, CalculateUpload, Calculate, Finish, End, barVars
<1>2. running[t] => stage[t] \in Phases
  BY DEF ClientInv, Done
<1>3. stage' = stage \/ (stage[t] \notin Barriers \cup {"finish"} /\ Advance(t))
  BY <1>2 DEF Step, Connect, ConnectFails, StartPhase, PhaseFlagged, PhaseEnds, PhaseCompletes,
              PhaseTimesOut, PhaseErrs, PhaseSpins, PublishMedian, PushDownload, PushUpload,
              CalculateDownload, CalculateUpload, Calculate, Finish, End, LeavePhase, Barriers,
              Phases
<1>4. QED
  BY <1>1, <1>3, RoundsKept

LEMMA ArriveRefines ==
    ASSUME ClientInv, NEW t \in Threads, Arrive(t)
    PROVE  Rounds!Next
<1>1. /\ stage \in [Threads -> Stages] /\ stage[t] \in Barriers /\ waiting[t] = NotWaiting
      /\ waiting \in [Threads -> 0..5 \cup {NotWaiting}] /\ barGen \in 0..6
  BY DEF Arrive, ClientInv, Shape, TypeOK
<1>2. Round[stage[t]] = barGen /\ waiting[t] # barGen
  BY <1>1 DEF ClientInv, Gates, NotWaiting
<1>3. CASE barCount + 1 < N
  <2>1. waiting' = [waiting EXCEPT ![t] = barGen] /\ stage' = stage /\ barGen # NotWaiting
    BY <1>1, <1>3 DEF Arrive, NotWaiting
  <2>2. Rounds!Arrive(t)
    BY <1>1, <2>1 DEF Rounds!Arrive
  <2>3. QED
    BY <2>2 DEF Rounds!Next
<1>4. CASE ~(barCount + 1 < N)
  <2>1. waiting' = waiting /\ Advance(t)
    BY <1>4 DEF Arrive
  <2>2. \A u \in Threads \ {t} : waiting[u] = barGen
    BY <1>2, <1>4, OthersWait
  <2>3. \A u \in Threads \ {t} : waiting[u] # NotWaiting /\ Round[stage[u]] = Round[stage[t]]
    BY <1>1, <1>2, <2>2 DEF ClientInv, Gates, NotWaiting
  <2>4. /\ Round[stage'[t]] = Round[stage[t]] + 1
        /\ \A u \in Threads \ {t} : stage'[u] = stage[u]
    BY <1>1, <2>1, Advanced, Follow DEF Barriers
  <2>5. Rounds!ArriveLast(t)
    <3>1. \A u \in Threads \ {t} : Rounds!Done(u, Round[stage[t]])
      BY <2>3 DEF Rounds!Done
    <3>2. [u \in Threads |-> Round[stage'[u]]]
             = [[u \in Threads |-> Round[stage[u]]] EXCEPT ![t] = @ + 1]
      BY <2>4
    <3>3. QED
      BY <1>1, <2>1, <3>1, <3>2 DEF Rounds!ArriveLast
  <2>6. QED
    BY <2>5 DEF Rounds!Next
<1>5. QED
  BY <1>3, <1>4

LEMMA LeaveRefines ==
    ASSUME ClientInv, NEW t \in Threads, Leave(t)
    PROVE  Rounds!Next
<1>1. /\ stage \in [Threads -> Stages] /\ waiting[t] \notin {NotWaiting, barGen}
      /\ waiting' = [waiting EXCEPT ![t] = NotWaiting] /\ Advance(t) /\ barGen \in 0..6
      /\ waiting \in [Threads -> 0..5 \cup {NotWaiting}]
  BY DEF Leave, ClientInv, Shape, TypeOK
<1>2. stage[t] \in Barriers /\ waiting[t] = Round[stage[t]] /\ barGen = Round[stage[t]] + 1
  BY <1>1 DEF ClientInv, Gates
<1>3. Round[stage[t]] \in 0..5
  BY <1>1, <1>2 DEF NotWaiting
<1>4. ASSUME NEW u \in Threads
      PROVE  Round[stage[u]] > Round[stage[t]]
             \/ (Round[stage[u]] = Round[stage[t]] /\ waiting[u] # NotWaiting)
  <2>1. CASE waiting[u] = NotWaiting
    <3>1. Round[stage[u]] = barGen
      BY <2>1 DEF ClientInv, Gates
    <3>2. QED
      BY <1>2, <1>3, <3>1
  <2>2. CASE waiting[u] # NotWaiting
    <3>1. barGen = waiting[u] \/ barGen = waiting[u] + 1
      BY <2>2 DEF ClientInv, Gates
    <3>2. waiting[u] = Round[stage[u]] /\ waiting[u] \in 0..5
      BY <1>1, <2>2 DEF ClientInv, Gates
    <3>3. QED
      BY <1>2, <1>3, <2>2, <3>1, <3>2
  <2>3. QED
    BY <2>1, <2>2
<1>5. /\ Round[stage'[t]] = Round[stage[t]] + 1
      /\ \A u \in Threads \ {t} : stage'[u] = stage[u]
  BY <1>1, <1>2, Advanced, Follow DEF Barriers
<1>6. Rounds!Go(t)
  <2>1. \A u \in Threads : Rounds!Done(u, Round[stage[t]])
    BY <1>4 DEF Rounds!Done
  <2>2. [u \in Threads |-> Round[stage'[u]]]
           = [[u \in Threads |-> Round[stage[u]]] EXCEPT ![t] = @ + 1]
    BY <1>5
  <2>3. [u \in Threads |-> waiting'[u] # NotWaiting]
           = [[u \in Threads |-> waiting[u] # NotWaiting] EXCEPT ![t] = FALSE]
    BY <1>1
  <2>4. QED
    BY <1>1, <2>1, <2>2, <2>3 DEF Rounds!Go
<1>7. QED
  BY <1>6 DEF Rounds!Next

\* The client's threads go through the rounds between the barriers in step: run_threads
\* with the standard library's Barrier implements Lockstep, for every number of threads.
THEOREM BarrierIsLockstep == Spec => InLockstep
<1>1. ASSUME Init
      PROVE  Rounds!Init
  <2>1. \A t \in Threads : Round[stage[t]] = 0 /\ waiting[t] = NotWaiting
    BY <1>1 DEF Init, Round
  <2>2. QED
    BY <2>1 DEF Rounds!Init
<1>2. ClientInv /\ [Next]_vars => [Rounds!Next]_(Rounds!lvars)
  <2>1. SUFFICES ASSUME ClientInv, [Next]_vars
                 PROVE  Rounds!Next \/ UNCHANGED Rounds!lvars
    OBVIOUS
  <2>2. ASSUME NEW t \in Threads, Step(t)
        PROVE  Rounds!Next \/ UNCHANGED Rounds!lvars
    BY <2>1, <2>2, ArriveRefines, LeaveRefines, OtherSteps
  <2>3. CASE Join \/ Report \/ UNCHANGED vars
    <3>1. stage' = stage /\ waiting' = waiting
      BY <2>3 DEF Join, Report, vars, threadVars, barVars
    <3>2. QED
      BY <3>1 DEF Rounds!lvars
  <2>4. QED
    BY <2>1, <2>2, <2>3 DEF Next
<1>3. QED
  BY <1>1, <1>2, InvariantHolds, PTL DEF Spec, InLockstep, Rounds!Spec
=============================================================================
