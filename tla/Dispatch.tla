------------------------------ MODULE Dispatch ------------------------------
(***************************************************************************)
(* What the mio server's thread pool promises about the connections it     *)
(* accepts: one first-in first-out line, a fixed number of service slots,  *)
(* a connection is in the line or in one slot, never in two places, and    *)
(* once it is finished it never comes back.                                *)
(*                                                                         *)
(* WorkerPool implements this specification.  It is an abstraction of the  *)
(* code under src/src/mioserver/, not a translation of any one function.   *)
(***************************************************************************)
EXTENDS Sequences

CONSTANTS Conns,     \* connections that may ever be accepted
          Slots,     \* who may serve one connection at a time
          NoConn     \* an empty slot; not one of Conns

VARIABLES line,      \* accepted and waiting, oldest first
          slot,      \* the connection each slot serves, or NoConn
          finished   \* closed by the server

dvars == <<line, slot, finished>>

InLine   == {line[i] : i \in DOMAIN line}
InSlot   == {slot[s] : s \in Slots} \ {NoConn}
Accepted == InLine \cup InSlot \cup finished
-----------------------------------------------------------------------------
Init ==
    /\ line = <<>>
    /\ slot = [s \in Slots |-> NoConn]
    /\ finished = {}

Enter(c) ==
    /\ c \notin Accepted
    /\ line' = Append(line, c)
    /\ UNCHANGED <<slot, finished>>

\* Only the oldest waiting connection leaves the line, and only for a free slot.
Serve(s) ==
    /\ slot[s] = NoConn
    /\ line # <<>>
    /\ slot' = [slot EXCEPT ![s] = Head(line)]
    /\ line' = Tail(line)
    /\ UNCHANGED finished

Finish(s) ==
    /\ slot[s] # NoConn
    /\ slot' = [slot EXCEPT ![s] = NoConn]
    /\ finished' = finished \cup {slot[s]}
    /\ UNCHANGED line

\* A connection may be lost at the moment it is taken; it is still the oldest.
Lose ==
    /\ line # <<>>
    /\ line' = Tail(line)
    /\ finished' = finished \cup {Head(line)}
    /\ UNCHANGED slot

Next ==
    \/ \E c \in Conns : Enter(c)
    \/ \E s \in Slots : Serve(s) \/ Finish(s)
    \/ Lose

Spec == Init /\ [][Next]_dvars
=============================================================================
