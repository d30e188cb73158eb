---------------------------- MODULE Registration ----------------------------
(***************************************************************************)
(* The mio server's life on the control server: the task that run() spawns *)
(* registers the server and then pings every 10 seconds, the main task     *)
(* runs the accept loop and, after Ctrl-C, deregisters and returns, which  *)
(* ends the process and every other task wherever it awaits.               *)
(*                                                                         *)
(* A request is on its way until the control server handles it or it is    *)
(* lost; the answer, or an error, comes back at any later moment, and an   *)
(* error says nothing about whether the request was handled.  The HTTP     *)
(* client has no timeout.  server_registration is TRUE: without it none of *)
(* this happens.                                                           *)
(***************************************************************************)
EXTENDS Naturals

CONSTANT MaxPings          \* bound: pings the task sends

ASSUME RegistrationAssumption == MaxPings \in Nat

Requests == {"register", "ping", "deregister"}

VARIABLES
    main,      \* main task: "run", "deregister", "exited"
    task,      \* spawned task: "new", "register", "top", "tick", "ping", "done"
    shutdown,  \* shutdown_signal
    onWay,     \* requests sent and neither handled nor lost
    handled,   \* handled[r]: the request of kind r last sent was handled
    listed,    \* external: the control server lists this server
    pings,     \* pings sent
    latePings, \* history: pings sent after shutdown was requested
    unlisted,  \* history: deregister_server returned Ok
    settled    \* history: when it was called, no registration was under way

vars == <<main, task, shutdown, onWay, handled, listed, pings, latePings, unlisted,
          settled>>

TaskRuns == main # "exited" /\ task # "done"
-----------------------------------------------------------------------------
Init ==
    /\ main = "run"
    /\ task = "new"
    /\ shutdown = FALSE
    /\ onWay = {}
    /\ handled = [r \in Requests |-> FALSE]
    /\ listed = FALSE
    /\ pings = 0
    /\ latePings = 0
    /\ unlisted = FALSE
    /\ settled = FALSE

Sends(r) ==
    /\ onWay' = onWay \cup {r}
    /\ handled' = [handled EXCEPT ![r] = FALSE]
-----------------------------------------------------------------------------
(* The control server and the network.                                     *)

Handle(r) ==
    /\ r \in onWay
    /\ onWay' = onWay \ {r}
    /\ handled' = [handled EXCEPT ![r] = TRUE]
    /\ listed' = CASE r = "register"   -> TRUE
                   [] r = "deregister" -> FALSE
                   [] r = "ping"       -> listed
    /\ UNCHANGED <<main, task, shutdown, pings, latePings, unlisted,
                   settled>>

\* Lost, or answered with an error status: nothing changes there.
Refuse(r) ==
    /\ r \in onWay
    /\ onWay' = onWay \ {r}
    /\ UNCHANGED <<main, task, shutdown, handled, listed, pings, latePings, unlisted,
                   settled>>
-----------------------------------------------------------------------------
(* The spawned task: register_server, start_ping_job, ping_server.         *)

SendRegister ==
    /\ TaskRuns
    /\ task = "new"
    /\ Sends("register")
    /\ task' = "register"
    /\ UNCHANGED <<main, shutdown, listed, pings, latePings, unlisted,
                   settled>>

RegisterAnswered ==
    /\ TaskRuns
    /\ task = "register"
    /\ handled["register"]
    /\ task' = "top"
    /\ UNCHANGED <<main, shutdown, onWay, handled, listed, pings, latePings, unlisted,
                   settled>>

\* Mutant: the ping job is started whatever register_server returned.
RegisterFailsAndPings ==
    /\ TaskRuns
    /\ task = "register"
    /\ task' = "top"
    /\ UNCHANGED <<main, shutdown, onWay, handled, listed, pings, latePings, unlisted,
                   settled>>

\* register_server returns Err: there is no second attempt.
RegisterFails ==
    /\ TaskRuns
    /\ task = "register"
    /\ task' = "done"
    /\ UNCHANGED <<main, shutdown, onWay, handled, listed, pings, latePings, unlisted,
                   settled>>

\* Mutant: the flag is not read.
PingJobLoopForEver ==
    /\ TaskRuns
    /\ task = "top"
    /\ task' = "tick"
    /\ UNCHANGED <<main, shutdown, onWay, handled, listed, pings, latePings, unlisted,
                   settled>>

\* The flag is read at the top of the loop, before the wait for the next tick.
PingJobLoop ==
    /\ TaskRuns
    /\ task = "top"
    /\ task' = IF shutdown THEN "done" ELSE "tick"
    /\ UNCHANGED <<main, shutdown, onWay, handled, listed, pings, latePings, unlisted,
                   settled>>

\* Mutant: a tick that was missed is made up for with a second ping.
SendPingBurst ==
    /\ TaskRuns
    /\ task = "tick"
    /\ pings < MaxPings
    /\ Sends("ping")
    /\ task' = "ping"
    /\ pings' = pings + 2
    /\ latePings' = IF shutdown THEN latePings + 1 ELSE latePings
    /\ UNCHANGED <<main, shutdown, listed, unlisted, settled>>

SendPing ==
    /\ TaskRuns
    /\ task = "tick"
    /\ pings < MaxPings
    /\ Sends("ping")
    /\ task' = "ping"
    /\ pings' = pings + 1
    /\ latePings' = IF shutdown THEN latePings + 1 ELSE latePings
    /\ UNCHANGED <<main, shutdown, listed, unlisted, settled>>

\* ping_server returns, well or not: its error is only logged.
PingReturns ==
    /\ TaskRuns
    /\ task = "ping"
    /\ "ping" \notin onWay
    /\ task' = "top"
    /\ UNCHANGED <<main, shutdown, onWay, handled, listed, pings, latePings, unlisted,
                   settled>>

\* Mutant: a ping that fails registers the server anew.
PingFailsReregisters ==
    /\ TaskRuns
    /\ task = "ping"
    /\ Sends("register")
    /\ task' = "register"
    /\ UNCHANGED <<main, shutdown, listed, pings, latePings, unlisted, settled>>

PingFails ==
    /\ TaskRuns
    /\ task = "ping"
    /\ task' = "top"
    /\ UNCHANGED <<main, shutdown, onWay, handled, listed, pings, latePings, unlisted,
                   settled>>
-----------------------------------------------------------------------------
(* The main task and the Ctrl-C task.                                      *)

CtrlC ==
    /\ main = "run"
    /\ ~shutdown
    /\ shutdown' = TRUE
    /\ UNCHANGED <<main, task, onWay, handled, listed, pings, latePings, unlisted,
                   settled>>

\* The accept loop sees the flag; shutdown() sends the DELETE.
StopServing ==
    /\ main = "run"
    /\ shutdown
    /\ Sends("deregister")
    /\ main' = "deregister"
    /\ settled' = (task \notin {"new", "register"} /\ "register" \notin onWay)
    /\ UNCHANGED <<task, shutdown, listed, pings, latePings, unlisted>>

\* run() returns Err and main passes it on with `?`: no shutdown().
ServingFails ==
    /\ main = "run"
    /\ main' = "exited"
    /\ UNCHANGED <<task, shutdown, onWay, handled, listed, pings, latePings, unlisted,
                   settled>>

DeregisterAnswered ==
    /\ main = "deregister"
    /\ handled["deregister"]
    /\ main' = "exited"
    /\ unlisted' = TRUE
    /\ UNCHANGED <<task, shutdown, onWay, handled, listed, pings, latePings, settled>>

\* Mutant: deregistering is tried until it succeeds.
DeregisterFailsRetries ==
    /\ main = "deregister"
    /\ Sends("deregister")
    /\ UNCHANGED <<main, task, shutdown, listed, pings, latePings, unlisted, settled>>

\* `let _ =`: an error of deregister_server is not looked at.
DeregisterFails ==
    /\ main = "deregister"
    /\ main' = "exited"
    /\ UNCHANGED <<task, shutdown, onWay, handled, listed, pings, latePings, unlisted,
                   settled>>
-----------------------------------------------------------------------------
ControlServer == \E r \in Requests : Handle(r) \/ Refuse(r)

Task ==
    \/ SendRegister \/ RegisterAnswered \/ RegisterFails
    \/ PingJobLoop \/ SendPing \/ PingReturns \/ PingFails

Main ==
    \/ CtrlC \/ StopServing \/ ServingFails
    \/ DeregisterAnswered \/ DeregisterFails

Next == ControlServer \/ Task \/ Main

Spec == Init /\ [][Next]_vars

(***************************************************************************)
(* The tasks are scheduled, and the control server or the network ends     *)
(* every request: it is handled or refused, and its answer or an error     *)
(* arrives.  Nothing obliges anyone to press Ctrl-C.                       *)
(***************************************************************************)
Fairness ==
    /\ \A r \in Requests : WF_vars(Handle(r) \/ Refuse(r))
    /\ WF_vars(SendRegister)
    /\ WF_vars(RegisterAnswered \/ RegisterFails)
    /\ WF_vars(PingJobLoop)
    /\ WF_vars(SendPing)
    /\ WF_vars(PingReturns \/ PingFails)
    /\ WF_vars(StopServing)
    /\ WF_vars(DeregisterAnswered \/ DeregisterFails)

FairSpec == Spec /\ Fairness
-----------------------------------------------------------------------------
(* Properties                                                              *)

\* Every variable keeps its type (main.rs, auto_registration.rs).
TypeOK ==
    /\ main \in {"run", "deregister", "exited"}
    /\ task \in {"new", "register", "top", "tick", "ping", "done"}
    /\ shutdown \in BOOLEAN
    /\ onWay \subseteq Requests
    /\ handled \in [Requests -> BOOLEAN]
    /\ listed \in BOOLEAN
    /\ pings \in 0..MaxPings
    /\ latePings \in 0..MaxPings
    /\ unlisted \in BOOLEAN
    /\ settled \in BOOLEAN

\* The control server is never pinged for a server whose registration it has not
\* handled: the ping job starts only after register_server has returned Ok.
PingsAfterRegistration == pings > 0 => handled["register"]

\* The flag is read before every wait: at most the one ping already waited for goes
\* out after shutdown was requested.
OneLatePing == latePings <= 1

\* A server that deregistered with success stays off the list, unless its own
\* registration was still under way when it asked to be taken off.
StaysUnlisted == unlisted /\ settled => ~listed

\* After Ctrl-C the process ends, whatever the control server answers.
ShutdownEnds == shutdown ~> main = "exited"
=============================================================================
