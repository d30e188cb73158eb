------------------------------ MODULE Lockstep ------------------------------
(***************************************************************************)
(* What the client's six barriers promise: its threads go through their    *)
(* rounds together.  A thread that has done its part of a round waits, and *)
(* goes on only when every thread has done its part of that round.         *)
(*                                                                         *)
(* ClientRun implements this specification.  It is an abstraction of       *)
(* src/src/client/runnner.rs, not a translation of any one function.       *)
(***************************************************************************)
EXTENDS Naturals

CONSTANT Threads

VARIABLES round,    \* round[t]: the round thread t is in
          arrived   \* arrived[t]: it has done its part and waits

lvars == <<round, arrived>>

Done(t, r) == round[t] > r \/ (round[t] = r /\ arrived[t])
-----------------------------------------------------------------------------
Init ==
    /\ round = [t \in Threads |-> 0]
    /\ arrived = [t \in Threads |-> FALSE]

Arrive(t) ==
    /\ ~arrived[t]
    /\ arrived' = [arrived EXCEPT ![t] = TRUE]
    /\ UNCHANGED round

Go(t) ==
    /\ arrived[t]
    /\ \A u \in Threads : Done(u, round[t])
    /\ round' = [round EXCEPT ![t] = @ + 1]
    /\ arrived' = [arrived EXCEPT ![t] = FALSE]

\* The last thread of a round does not wait.
ArriveLast(t) ==
    /\ ~arrived[t]
    /\ \A u \in Threads \ {t} : Done(u, round[t])
    /\ round' = [round EXCEPT ![t] = @ + 1]
    /\ UNCHANGED arrived

Next == \E t \in Threads : Arrive(t) \/ Go(t) \/ ArriveLast(t)

Spec == Init /\ [][Next]_lvars
=============================================================================
