----------------------------- MODULE ClientRun -----------------------------
(***************************************************************************)
(* The measurement client's run_threads: one OS thread per connection, the *)
(* barrier that separates the phases, the shared statistics, and the main  *)
(* task that joins the threads in order.                                   *)
(*                                                                         *)
(* A thread runs its phases through TestState::process_phase.  What is said*)
(* on the wire is left out: a phase completes, is flagged as failed by a   *)
(* handler, runs out of time, fails in poll(), or never returns because a  *)
(* handler loops on read() = 0 after the server closed the connection.     *)
(* What a thread measured is "none", "short" (its last point lies within   *)
(* the first second, which calculator.rs skips) or "long".                 *)
(*                                                                         *)
(* The stats mutex is held for a push, or by thread 0 between two barriers *)
(* where nobody else wants it: a critical section is one step.             *)
(***************************************************************************)
EXTENDS Naturals, FiniteSets

CONSTANTS N,       \* config.thread_count
          Builds   \* the builds of the client that are considered

ASSUME ClientRunAssumption ==
    /\ N \in Nat \ {0}
    /\ Builds \subseteq {"debug", "release"}

Threads  == 0..(N - 1)
Phases   == {"greet", "chunks", "ping", "time", "perf"}
Barriers == {"bar1", "bar2", "bar3", "bar4", "bar5", "bar6"}
Data     == {"none", "short", "long"}
NoSpeed  == [kind |-> "unset", from |-> {}]
NotWaiting == 7            \* no generation: the barrier is used six times

VARIABLES
    stage,     \* stage[t]: where thread t stands in its closure
    status,    \* status[t]: "live", or how the thread ended
    running,   \* running[t]: inside the loop of process_phase
    failed,    \* failed[t]: measurement_state.failed
    median,    \* measurement_state.ping_median of thread 0 is set
    measured,  \* measured[t]: download and upload points of thread t
    barCount,  \* the barrier: how many wait
    barGen,    \* the barrier: its generation
    waiting,   \* waiting[t]: the generation t waits in, or NotWaiting
    stats,     \* SharedStats: the lists pushed, by the thread that pushed them
    shown,     \* ping_median, download_speed and upload_speed
    main,      \* the task in run_threads: "join", "panicked" or "reported"
    joined,    \* handles joined so far
    build      \* the build that runs

threadVars == <<stage, status, running, failed, median, measured>>
barVars    == <<barCount, barGen, waiting>>
mainVars   == <<main, joined>>
vars == <<threadVars, barVars, stats, shown, mainVars, build>>

\* Mutants: a barrier is forgotten, after the ping and after the download.
AfterNoBar3 == [connect |-> "greet", greet |-> "bar1", bar1 |-> "chunks",
                chunks |-> "bar2", bar2 |-> "ping", ping |-> "median",
                median |-> "time", bar3 |-> "time", time |-> "pushDown",
                pushDown |-> "bar4", bar4 |-> "calcDown", calcDown |-> "bar5",
                bar5 |-> "perf", perf |-> "pushUp", pushUp |-> "bar6",
                bar6 |-> "calcUp", calcUp |-> "finish"]
AfterNoBar4 == [connect |-> "greet", greet |-> "bar1", bar1 |-> "chunks",
                chunks |-> "bar2", bar2 |-> "ping", ping |-> "median",
                median |-> "bar3", bar3 |-> "time", time |-> "pushDown",
                pushDown |-> "calcDown", bar4 |-> "calcDown",
                calcDown |-> "bar5", bar5 |-> "perf", perf |-> "pushUp",
                pushUp |-> "bar6", bar6 |-> "calcUp", calcUp |-> "finish"]

\* The stages of thread 0 in the order of the closure; the others skip its own.
After == [connect |-> "greet", greet |-> "bar1", bar1 |-> "chunks",
          chunks |-> "bar2", bar2 |-> "ping", ping |-> "median",
          median |-> "bar3", bar3 |-> "time", time |-> "pushDown",
          pushDown |-> "bar4", bar4 |-> "calcDown", calcDown |-> "bar5",
          bar5 |-> "perf", perf |-> "pushUp", pushUp |-> "bar6",
          bar6 |-> "calcUp", calcUp |-> "finish"]
Stages == DOMAIN After \cup {"finish"}

Own(t, s)      == t = 0 \/ s \notin {"ping", "median", "calcDown", "calcUp"}
FollowIn(t, s) == LET next == After[s] IN
                  IF Own(t, next) THEN next
                  ELSE IF Own(t, After[next]) THEN After[next]
                  ELSE After[After[next]]

OverflowChecks == build = "debug"   \* unsigned arithmetic panics and does not wrap

Live(t)    == main = "join" /\ status[t] = "live"
Advance(t) == stage' = [stage EXCEPT ![t] = FollowIn(t, stage[t])]
End(t, how) ==
    /\ status' = [status EXCEPT ![t] = how]
    /\ UNCHANGED <<stage, failed, median, measured, barVars, stats, shown, mainVars, build>>
-----------------------------------------------------------------------------
Init ==
    /\ stage = [t \in Threads |-> "connect"]
    /\ status = [t \in Threads |-> "live"]
    /\ running = [t \in Threads |-> FALSE]
    /\ failed = [t \in Threads |-> FALSE]
    /\ median = FALSE
    /\ measured = [t \in Threads |-> [down |-> "none", up |-> "none"]]
    /\ barCount = 0
    /\ barGen = 0
    /\ waiting = [t \in Threads |-> NotWaiting]
    /\ stats = [t \in Threads |-> [down |-> "unset", up |-> "unset"]]
    /\ shown = [ping |-> FALSE, down |-> NoSpeed, up |-> NoSpeed]
    /\ main = "join"
    /\ joined = 0
    /\ build \in Builds
-----------------------------------------------------------------------------
(* TestState::new and the phases.                                          *)

Connect(t) ==
    /\ Live(t)
    /\ stage[t] = "connect"
    /\ Advance(t)
    /\ UNCHANGED <<status, running, failed, median, measured, barVars, stats, shown, mainVars, build>>

\* The closure returns Err before its first barrier.
ConnectFails(t) ==
    /\ Live(t)
    /\ stage[t] = "connect"
    /\ End(t, "err")
    /\ UNCHANGED running

\* The stream is reregistered; process_phase then returns at once when an earlier phase
\* has failed.
StartPhase(t) ==
    /\ Live(t)
    /\ stage[t] \in Phases
    /\ ~running[t]
    /\ IF failed[t]
       THEN Advance(t) /\ UNCHANGED running
       ELSE running' = [running EXCEPT ![t] = TRUE] /\ UNCHANGED stage
    /\ UNCHANGED <<status, failed, median, measured, barVars, stats, shown, mainVars, build>>

LeavePhase(t) ==
    /\ Live(t)
    /\ running[t]
    /\ running' = [running EXCEPT ![t] = FALSE]

\* A phase measures up to the moment it ends, well or not.
Measures(t) ==
    \E d \in Data :
        measured' = CASE stage[t] = "time" -> [measured EXCEPT ![t].down = d]
                      [] stage[t] = "perf" -> [measured EXCEPT ![t].up = d]
                      [] OTHER             -> measured

\* The phase reaches its last state, flagged as failed or not.
PhaseCompletes(t) ==
    /\ LeavePhase(t)
    /\ Advance(t)
    /\ Measures(t)
    /\ measured'[t].down = "none" => stage[t] # "time"
    /\ median' = (median \/ stage[t] = "ping")
    /\ UNCHANGED <<status, failed, barVars, stats, shown, mainVars, build>>

\* A handler returned Ok(0) or an error: failed is set and the loop goes on.
PhaseFlagged(t) ==
    /\ Live(t)
    /\ running[t]
    /\ ~failed[t]
    /\ failed' = [failed EXCEPT ![t] = TRUE]
    /\ UNCHANGED <<stage, status, running, median, measured, barVars, stats, shown, mainVars, build>>

\* No event for the whole duration.  `now - time` is negative: it panics, or wraps
\* around to a number that is greater than the duration.
PhaseTimesOut(t) ==
    /\ LeavePhase(t)
    /\ \/ /\ OverflowChecks
          /\ End(t, "panic")
       \/ /\ ~OverflowChecks
          /\ failed' = [failed EXCEPT ![t] = TRUE]
          /\ Advance(t)
          /\ Measures(t)
          /\ UNCHANGED <<status, median, barVars, stats, shown, mainVars, build>>

\* reregister() fails at the start of a phase, also where an earlier one has failed, or
\* poll() does within it.  run_threads only logs it after the greeting and unwraps it
\* after every other phase.
PhaseErrs(t) ==
    /\ Live(t)
    /\ stage[t] \in Phases
    /\ running' = [running EXCEPT ![t] = FALSE]
    /\ \/ /\ stage[t] = "greet"
          /\ Advance(t)
          /\ UNCHANGED <<status, failed, median, measured, barVars, stats, shown, mainVars, build>>
       \/ /\ stage[t] # "greet"
          /\ End(t, "panic")

\* The server closed the connection: the receiving handler loops on read() = 0.
PhaseSpins(t) ==
    /\ Live(t)
    /\ running[t]
    /\ End(t, "spin")
    /\ UNCHANGED running
-----------------------------------------------------------------------------
(* Barrier::wait of the standard library.                                  *)

\* Mutant: the count is not reset when the barrier opens.
ArriveNoReset(t) ==
    /\ Live(t)
    /\ stage[t] \in Barriers
    /\ waiting[t] = NotWaiting
    /\ barCount' = barCount + 1
    /\ IF barCount + 1 < N
       THEN /\ waiting' = [waiting EXCEPT ![t] = barGen]
            /\ UNCHANGED <<barGen, stage>>
       ELSE /\ barGen' = barGen + 1
            /\ Advance(t)
            /\ UNCHANGED waiting
    /\ UNCHANGED <<status, running, failed, median, measured, stats, shown, mainVars, build>>

\* Mutant: a barrier for the threads that have connected so far.
ArriveOfTheConnected(t) ==
    /\ Live(t)
    /\ stage[t] \in Barriers
    /\ waiting[t] = NotWaiting
    /\ IF barCount + 1 < Cardinality({u \in Threads : status[u] # "err"})
       THEN /\ barCount' = barCount + 1
            /\ waiting' = [waiting EXCEPT ![t] = barGen]
            /\ UNCHANGED <<barGen, stage>>
       ELSE /\ barCount' = 0
            /\ barGen' = barGen + 1
            /\ Advance(t)
            /\ UNCHANGED waiting
    /\ UNCHANGED <<status, running, failed, median, measured, stats, shown, mainVars, build>>

\* Mutant: a thread whose test failed does not take part any more.
ArriveUnlessFailed(t) ==
    /\ Live(t)
    /\ stage[t] \in Barriers
    /\ waiting[t] = NotWaiting
    /\ IF failed[t]
       THEN /\ Advance(t)
            /\ UNCHANGED barVars
       ELSE IF barCount + 1 < N
       THEN /\ barCount' = barCount + 1
            /\ waiting' = [waiting EXCEPT ![t] = barGen]
            /\ UNCHANGED <<barGen, stage>>
       ELSE /\ barCount' = 0
            /\ barGen' = barGen + 1
            /\ Advance(t)
            /\ UNCHANGED waiting
    /\ UNCHANGED <<status, running, failed, median, measured, stats, shown, mainVars, build>>

Arrive(t) ==
    /\ Live(t)
    /\ stage[t] \in Barriers
    /\ waiting[t] = NotWaiting
    /\ IF barCount + 1 < N
       THEN /\ barCount' = barCount + 1
            /\ waiting' = [waiting EXCEPT ![t] = barGen]
            /\ UNCHANGED <<barGen, stage>>
       ELSE /\ barCount' = 0
            /\ barGen' = barGen + 1
            /\ Advance(t)
            /\ UNCHANGED waiting
    /\ UNCHANGED <<status, running, failed, median, measured, stats, shown, mainVars, build>>

\* Mutant: any wake-up of the condition variable lets the thread go.
LeaveOnAnyWakeUp(t) ==
    /\ Live(t)
    /\ waiting[t] # NotWaiting
    /\ waiting' = [waiting EXCEPT ![t] = NotWaiting]
    /\ Advance(t)
    /\ UNCHANGED <<status, running, failed, median, measured, barCount, barGen, stats,
                   shown, mainVars, build>>

Leave(t) ==
    /\ Live(t)
    /\ waiting[t] \notin {NotWaiting, barGen}
    /\ waiting' = [waiting EXCEPT ![t] = NotWaiting]
    /\ Advance(t)
    /\ UNCHANGED <<status, running, failed, median, measured, barCount, barGen, stats,
                   shown, mainVars, build>>
-----------------------------------------------------------------------------
(* The shared results.                                                     *)

\* ping_median.unwrap(): a ping phase that failed, or was skipped, has none.
PublishMedian(t) ==
    /\ Live(t)
    /\ stage[t] = "median"
    /\ \/ /\ median
          /\ shown' = [shown EXCEPT !.ping = TRUE]
          /\ Advance(t)
          /\ UNCHANGED <<status, running, failed, median, measured, barVars, stats, mainVars, build>>
       \/ /\ ~median
          /\ End(t, "panic")
          /\ UNCHANGED running

PushDownload(t) ==
    /\ Live(t)
    /\ stage[t] = "pushDown"
    /\ stats' = [stats EXCEPT ![t].down = measured[t].down]
    /\ Advance(t)
    /\ UNCHANGED <<status, running, failed, median, measured, barVars, shown, mainVars, build>>

PushUpload(t) ==
    /\ Live(t)
    /\ stage[t] = "pushUp"
    /\ stats' = [stats EXCEPT ![t].up = measured[t].up]
    /\ Advance(t)
    /\ UNCHANGED <<status, running, failed, median, measured, barVars, shown, mainVars, build>>

\* The lists pushed: t_star_original is their earliest last point.
Pushed(dir) == {t \in Threads : stats[t][dir] # "unset"}
HasShort(dir) == \E t \in Threads : stats[t][dir] = "short"

\* calculate_speed_from_measurements: zero without a point, and t_star_original minus
\* one second, unsigned, otherwise.  A speed is kept with the threads it comes from.
Speed(dir) ==
    [kind |-> CASE \A t \in Pushed(dir) : stats[t][dir] = "none" -> "zero"
                [] HasShort(dir) -> "wrapped"
                [] OTHER         -> "speed",
     from |-> Pushed(dir)]

Calculate(t, dir) ==
    \/ /\ ~(OverflowChecks /\ HasShort(dir))
       /\ shown' = [shown EXCEPT ![dir] = Speed(dir)]
       /\ Advance(t)
       /\ UNCHANGED <<status, running, failed, median, measured, barVars, stats, mainVars, build>>
    \/ /\ OverflowChecks /\ HasShort(dir)
       /\ End(t, "panic")
       /\ UNCHANGED running

CalculateDownload(t) ==
    /\ Live(t)
    /\ stage[t] = "calcDown"
    /\ Calculate(t, "down")

CalculateUpload(t) ==
    /\ Live(t)
    /\ stage[t] = "calcUp"
    /\ Calculate(t, "up")

Finish(t) ==
    /\ Live(t)
    /\ stage[t] = "finish"
    /\ End(t, "ok")
    /\ UNCHANGED running
-----------------------------------------------------------------------------
(* run_threads: joining.                                                   *)

\* Mutant: the handles are popped from the end of the vector.
JoinFromTheEnd ==
    /\ main = "join"
    /\ joined < N
    /\ status[N - 1 - joined] \in {"ok", "err", "panic"}
    /\ \/ /\ status[N - 1 - joined] = "panic"
          /\ main' = "panicked"
          /\ UNCHANGED joined
       \/ /\ status[N - 1 - joined] # "panic"
          /\ joined' = joined + 1
          /\ UNCHANGED main
    /\ UNCHANGED <<threadVars, barVars, stats, shown, build>>

\* h.join().unwrap() panics in turn, and takes the whole process with it.
Join ==
    /\ main = "join"
    /\ joined < N
    /\ status[joined] \in {"ok", "err", "panic"}
    /\ \/ /\ status[joined] = "panic"
          /\ main' = "panicked"
          /\ UNCHANGED joined
       \/ /\ status[joined] # "panic"
          /\ joined' = joined + 1
          /\ UNCHANGED main
    /\ UNCHANGED <<threadVars, barVars, stats, shown, build>>

Report ==
    /\ main = "join"
    /\ joined = N
    /\ main' = "reported"
    /\ UNCHANGED <<threadVars, barVars, stats, shown, joined, build>>
-----------------------------------------------------------------------------
PhaseEnds(t) ==
    PhaseCompletes(t) \/ PhaseTimesOut(t) \/ PhaseErrs(t) \/ PhaseSpins(t)

Step(t) ==
    \/ Connect(t) \/ ConnectFails(t)
    \/ StartPhase(t) \/ PhaseFlagged(t) \/ PhaseEnds(t)
    \/ Arrive(t) \/ Leave(t)
    \/ PublishMedian(t) \/ PushDownload(t) \/ PushUpload(t)
    \/ CalculateDownload(t) \/ CalculateUpload(t) \/ Finish(t)

Next == (\E t \in Threads : Step(t)) \/ Join \/ Report

Spec == Init /\ [][Next]_vars

(***************************************************************************)
(* The threads and the main task are scheduled fairly.  A phase ends in    *)
(* one way or another: a server that keeps a phase going for ever with     *)
(* events that lead nowhere is left out.                                   *)
(***************************************************************************)
Fairness ==
    /\ \A t \in Threads :
          /\ WF_vars(Connect(t) \/ ConnectFails(t))
          /\ WF_vars(StartPhase(t)) /\ WF_vars(PhaseEnds(t))
          /\ WF_vars(Arrive(t)) /\ WF_vars(Leave(t))
          /\ WF_vars(PublishMedian(t))
          /\ WF_vars(PushDownload(t)) /\ WF_vars(PushUpload(t))
          /\ WF_vars(CalculateDownload(t)) /\ WF_vars(CalculateUpload(t))
          /\ WF_vars(Finish(t))
    /\ WF_vars(Join) /\ WF_vars(Report)

FairSpec == Spec /\ Fairness
-----------------------------------------------------------------------------
(* Properties                                                              *)

\* Every variable keeps its type (runnner.rs run_threads, state.rs MeasurementState).
TypeOK ==
    /\ stage \in [Threads -> Stages]
    /\ status \in [Threads -> {"live", "ok", "err", "panic", "spin"}]
    /\ running \in [Threads -> BOOLEAN]
    /\ failed \in [Threads -> BOOLEAN]
    /\ median \in BOOLEAN
    /\ measured \in [Threads -> [down : Data, up : Data]]
    /\ barCount \in 0..N
    /\ barGen \in 0..6
    /\ waiting \in [Threads -> 0..5 \cup {NotWaiting}]
    /\ stats \in [Threads -> [down : Data \cup {"unset"}, up : Data \cup {"unset"}]]
    /\ shown.ping \in BOOLEAN
    /\ \A dir \in {"down", "up"} :
          /\ shown[dir].kind \in {"unset", "zero", "wrapped", "speed"}
          /\ shown[dir].from \subseteq Threads
    /\ main \in {"join", "panicked", "reported"}
    /\ joined \in 0..N
    /\ build \in Builds

\* No two connections are measured in different phases at once: latency is not taken
\* while another thread still loads the line, nor download while one uploads, even
\* when threads have failed, panicked or hang in an earlier phase.
PhasesAligned ==
    \A t, u \in Threads : running[t] /\ running[u] => stage[t] = stage[u]

\* Thread 0 computes a speed only when every thread has pushed its list.
SpeedsSeeEveryThread ==
    \A dir \in {"down", "up"} : shown[dir] # NoSpeed => shown[dir].from = Threads

\* join() and filter(is_ok) never mix threads that ended well with threads that could
\* not connect, and what is saved after joining is there if there is anything to save.
ReportIsWhole ==
    main = "reported" =>
        \/ \A t \in Threads : status[t] = "err"
        \/ /\ \A t \in Threads : status[t] = "ok"
           /\ shown.ping /\ shown.down # NoSpeed /\ shown.up # NoSpeed

\* The threads go through the rounds between the barriers in step.
Round == [connect |-> 0, greet |-> 0, bar1 |-> 0, chunks |-> 1, bar2 |-> 1,
          ping |-> 2, median |-> 2, bar3 |-> 2, time |-> 3, pushDown |-> 3, bar4 |-> 3,
          calcDown |-> 4, bar5 |-> 4, perf |-> 5, pushUp |-> 5, bar6 |-> 5,
          calcUp |-> 6, finish |-> 6]

Rounds == INSTANCE Lockstep WITH
    round   <- [t \in Threads |-> Round[stage[t]]],
    arrived <- [t \in Threads |-> waiting[t] # NotWaiting]

InLockstep == Rounds!Spec

\* The client ends unless it lost a thread: one that could not connect, panicked or
\* hangs on a closed connection.  Failed phases alone do not keep it from ending.
RunEnds ==
    <>(main # "join" \/ \E t \in Threads : status[t] \in {"err", "panic", "spin"})

\* Handles are joined from thread 0 on, which is why a missing ping median ends the
\* client and does not leave it with the other threads at the barrier.
ZeroPanicEnds == (status[0] = "panic") ~> (main = "panicked")

\* "Failed threads: {}" (runnner.rs): when a thread has returned Err, and none hangs
\* in its phase or panicked, the client gets to the line that counts it.
FailedThreadIsReported ==
    (\E t \in Threads : status[t] = "err")
        ~> (main = "reported" \/ \E t \in Threads : status[t] \in {"spin", "panic"})

\* "if there is not enough time after the skip, return 0" (calculator.rs).
ShortIsZero ==
    \A dir \in {"down", "up"} :
        HasShort(dir) => shown[dir].kind \in {"unset", "zero"}
=============================================================================
