------------------------- MODULE Registration_proofs -------------------------
(***************************************************************************)
(* What holds of the server's registration for every number of pings:      *)
(* types, pings only after a handled registration, one late ping, and a    *)
(* deregistration that is not undone.                                      *)
(*                                                                         *)
(* None of these is inductive alone.  RegInv adds where the spawned task   *)
(* can be: the registration is behind it once it pings, it is past its     *)
(* loop's test of the flag only while no late ping went out, and once      *)
(* main has deregistered with nothing under way, no registration can be.   *)
(***************************************************************************)
EXTENDS Registration, TLAPS

RegistrationBehind ==
    /\ task \in {"top", "tick", "ping"} => handled["register"]
    /\ task \in {"new", "register"} => pings = 0
    /\ PingsAfterRegistration

LateOnce ==
    /\ OneLatePing
    /\ latePings <= pings
    /\ latePings > 0 => shutdown /\ task \in {"ping", "top", "done"}

NothingUnderWay ==
    /\ settled => task \notin {"new", "register"} /\ "register" \notin onWay
    /\ settled /\ handled["deregister"] => ~listed
    /\ unlisted => main = "exited" /\ handled["deregister"]

RegInv == TypeOK /\ RegistrationBehind /\ LateOnce /\ NothingUnderWay
-----------------------------------------------------------------------------
LEMMA RegInvInit == Init => RegInv
<1> SUFFICES ASSUME Init PROVE RegInv
  OBVIOUS
<1>1. handled \in [Requests -> BOOLEAN]
  BY Zenon DEF Init
<1>2. TypeOK
  <2>1. pings \in 0..MaxPings /\ latePings \in 0..MaxPings
    BY RegistrationAssumption DEF RegistrationAssumption, Init
  <2>2. QED
    BY <1>1, <2>1 DEF Init, TypeOK
<1>3. RegistrationBehind
  BY DEF Init, RegistrationBehind, PingsAfterRegistration
<1>4. LateOnce
  BY DEF Init, LateOnce, OneLatePing
<1>5. NothingUnderWay
  BY DEF Init, NothingUnderWay
<1>6. QED
  BY <1>2, <1>3, <1>4, <1>5 DEF RegInv

\* A step of the control server: a request is handled or lost.
LEMMA ControlServerStep ==
    ASSUME RegInv, ControlServer
    PROVE  RegInv'
<1>1. PICK r \in Requests : Handle(r) \/ Refuse(r)
  BY DEF ControlServer
<1>2. CASE Handle(r)
  <2>1. TypeOK'
    BY <1>1, <1>2 DEF RegInv, TypeOK, Handle, Requests
  <2>2. RegistrationBehind'
    BY <1>1, <1>2 DEF RegInv, TypeOK, RegistrationBehind, PingsAfterRegistration, Handle,
                      Requests
  <2>3. LateOnce'
    BY <1>2 DEF RegInv, LateOnce, OneLatePing, Handle
  <2>4. NothingUnderWay'
    BY <1>1, <1>2 DEF RegInv, TypeOK, NothingUnderWay, Handle, Requests
  <2>5. QED
    BY <2>1, <2>2, <2>3, <2>4 DEF RegInv
<1>3. CASE Refuse(r)
  <2>1. TypeOK'
    BY <1>3 DEF RegInv, TypeOK, Refuse
  <2>2. RegistrationBehind' /\ LateOnce' /\ NothingUnderWay'
    BY <1>3 DEF RegInv, RegistrationBehind, PingsAfterRegistration, LateOnce, OneLatePing,
                NothingUnderWay, Refuse
  <2>3. QED
    BY <2>1, <2>2 DEF RegInv
<1>4. QED
  BY <1>1, <1>2, <1>3

\* A step of the spawned task.
LEMMA TaskStep ==
    ASSUME RegInv, Task
    PROVE  RegInv'
<1> USE DEF TaskRuns
<1>1. CASE SendRegister
  <2>1. TypeOK'
    BY <1>1 DEF RegInv, TypeOK, SendRegister, Sends, Requests
  <2>2. RegistrationBehind'
    BY <1>1 DEF RegInv, TypeOK, RegistrationBehind, PingsAfterRegistration, SendRegister
  <2>3. LateOnce'
    BY <1>1 DEF RegInv, TypeOK, LateOnce, OneLatePing, SendRegister
  <2>4. NothingUnderWay'
    BY <1>1 DEF RegInv, TypeOK, NothingUnderWay, SendRegister, Sends, Requests
  <2>5. QED
    BY <2>1, <2>2, <2>3, <2>4 DEF RegInv
<1>2. CASE RegisterAnswered \/ RegisterFails
  <2>1. TypeOK'
    BY <1>2 DEF RegInv, TypeOK, RegisterAnswered, RegisterFails
  <2>2. RegistrationBehind'
    BY <1>2 DEF RegInv, RegistrationBehind, PingsAfterRegistration, RegisterAnswered,
                RegisterFails
  <2>3. LateOnce' /\ NothingUnderWay'
    BY <1>2 DEF RegInv, LateOnce, OneLatePing, NothingUnderWay, RegisterAnswered,
                RegisterFails
  <2>4. QED
    BY <2>1, <2>2, <2>3 DEF RegInv
<1>3. CASE PingJobLoop \/ PingReturns \/ PingFails
  <2>1. TypeOK'
    BY <1>3 DEF RegInv, TypeOK, PingJobLoop, PingReturns, PingFails
  <2>2. RegistrationBehind'
    BY <1>3 DEF RegInv, RegistrationBehind, PingsAfterRegistration, PingJobLoop,
                PingReturns, PingFails
  <2>3. LateOnce' /\ NothingUnderWay'
    BY <1>3 DEF RegInv, LateOnce, OneLatePing, NothingUnderWay, PingJobLoop, PingReturns,
                PingFails
  <2>4. QED
    BY <2>1, <2>2, <2>3 DEF RegInv
<1>4. CASE SendPing
  <2>1. latePings = 0
    BY <1>4 DEF RegInv, TypeOK, LateOnce, SendPing
  <2>2. LateOnce'
    BY <1>4, <2>1 DEF RegInv, TypeOK, LateOnce, OneLatePing, SendPing
  <2>3. TypeOK'
    <3>1. pings' \in 0..MaxPings /\ latePings' \in 0..MaxPings
      BY <1>4, <2>1, RegistrationAssumption DEF RegistrationAssumption, RegInv, TypeOK, SendPing
    <3>2. onWay' \subseteq Requests /\ handled' \in [Requests -> BOOLEAN]
      BY <1>4 DEF RegInv, TypeOK, SendPing, Sends, Requests
    <3>3. QED
      BY <1>4, <3>1, <3>2 DEF RegInv, TypeOK, SendPing
  <2>4. RegistrationBehind'
    BY <1>4 DEF RegInv, TypeOK, RegistrationBehind, PingsAfterRegistration, SendPing, Sends,
                Requests
  <2>5. NothingUnderWay'
    BY <1>4 DEF RegInv, TypeOK, NothingUnderWay, SendPing, Sends, Requests
  <2>6. QED
    BY <2>2, <2>3, <2>4, <2>5 DEF RegInv
<1>5. QED
  BY <1>1, <1>2, <1>3, <1>4 DEF Task

\* A step of the main task, or Ctrl-C.
LEMMA MainStep ==
    ASSUME RegInv, Main
    PROVE  RegInv'
<1>1. CASE CtrlC
  BY <1>1 DEF RegInv, TypeOK, RegistrationBehind, PingsAfterRegistration, LateOnce,
              OneLatePing, NothingUnderWay, CtrlC
<1>2. CASE StopServing
  <2>1. TypeOK'
    BY <1>2 DEF RegInv, TypeOK, StopServing, Sends, Requests
  <2>2. RegistrationBehind' /\ LateOnce'
    BY <1>2 DEF RegInv, TypeOK, RegistrationBehind, PingsAfterRegistration, LateOnce,
                OneLatePing, StopServing, Sends, Requests
  <2>3. NothingUnderWay'
    BY <1>2 DEF RegInv, TypeOK, NothingUnderWay, StopServing, Sends, Requests
  <2>4. QED
    BY <2>1, <2>2, <2>3 DEF RegInv
<1>3. CASE ServingFails \/ DeregisterAnswered \/ DeregisterFails
  <2>1. TypeOK'
    BY <1>3 DEF RegInv, TypeOK, ServingFails, DeregisterAnswered, DeregisterFails
  <2>2. RegistrationBehind' /\ LateOnce'
    BY <1>3 DEF RegInv, RegistrationBehind, PingsAfterRegistration, LateOnce, OneLatePing,
                ServingFails, DeregisterAnswered, DeregisterFails
  <2>3. NothingUnderWay'
    BY <1>3 DEF RegInv, NothingUnderWay, ServingFails, DeregisterAnswered, DeregisterFails
  <2>4. QED
    BY <2>1, <2>2, <2>3 DEF RegInv
<1>4. QED
  BY <1>1, <1>2, <1>3 DEF Main

LEMMA RegInvStep == RegInv /\ [Next]_vars => RegInv'
<1> SUFFICES ASSUME RegInv, [Next]_vars PROVE RegInv'
  OBVIOUS
<1>1. CASE Next
  BY <1>1, ControlServerStep, TaskStep, MainStep DEF Next
<1>2. CASE UNCHANGED vars
  BY <1>2 DEF vars, RegInv, TypeOK, RegistrationBehind, PingsAfterRegistration, LateOnce,
              OneLatePing, NothingUnderWay
<1>3. QED
  BY <1>1, <1>2
-----------------------------------------------------------------------------
LEMMA RegInvHolds == Spec => []RegInv
  BY RegInvInit, RegInvStep, PTL DEF Spec

\* The state of registering, pinging and deregistering (auto_registration.rs, main.rs)
\* keeps its type.
THEOREM RegistrationTyped == Spec => []TypeOK
<1>1. RegInv => TypeOK
  BY DEF RegInv
<1>2. QED
  BY RegInvHolds, <1>1, PTL

\* start_ping_job pings only for a server whose registration was handled.
THEOREM PingsAfterRegistrationHolds == Spec => []PingsAfterRegistration
<1>1. RegInv => PingsAfterRegistration
  BY DEF RegInv, RegistrationBehind
<1>2. QED
  BY RegInvHolds, <1>1, PTL

\* start_ping_job reads the flag before each wait: one ping at most is late.
THEOREM OneLatePingHolds == Spec => []OneLatePing
<1>1. RegInv => OneLatePing
  BY DEF RegInv, LateOnce
<1>2. QED
  BY RegInvHolds, <1>1, PTL

\* A deregister_server that returned Ok is not undone by the spawned task.
THEOREM StaysUnlistedHolds == Spec => []StaysUnlisted
<1>1. RegInv => StaysUnlisted
  BY DEF RegInv, NothingUnderWay, StaysUnlisted
<1>2. QED
  BY RegInvHolds, <1>1, PTL
=============================================================================
