----------------------------- MODULE ByteStream -----------------------------
(***************************************************************************)
(* What the phase handlers of client and server rely on when they call     *)
(* Stream::write and Stream::read: a reliable ordered stream each way.     *)
(*                                                                         *)
(* The bytes of a direction are numbered from 1.  A side that was told by  *)
(* write() that its first said[e] bytes are taken goes on with the next.   *)
(* Its peer reads each byte once and in order.  While a call lasts the peer*)
(* may hear more than the caller knows of, but not once it has returned.   *)
(***************************************************************************)
EXTENDS Naturals, Sequences

CONSTANT Sides

VARIABLES said,    \* said[e]: bytes that side e was told are taken
          busy,    \* busy[e]: side e is in a call of write()
          heard    \* heard[e]: the bytes that side e has read, in that order

bvars == <<said, busy, heard>>

\* The bytes a+1 to b.
Run(a, b) == [i \in 1..(b - a) |-> a + i]

Init ==
    /\ said = [e \in Sides |-> 0]
    /\ busy = [e \in Sides |-> FALSE]
    /\ heard = [e \in Sides |-> <<>>]

Call(e) ==
    /\ ~busy[e]
    /\ busy' = [busy EXCEPT ![e] = TRUE]
    /\ UNCHANGED <<said, heard>>

\* A call that takes one step only returns without having been busy.
Return(e) ==
    /\ said'[e] \in Nat
    /\ said'[e] >= said[e]
    /\ \A f \in Sides \ {e} : Len(heard[f]) <= said'[e]
    /\ said' = [said EXCEPT ![e] = said'[e]]
    /\ busy' = [busy EXCEPT ![e] = FALSE]
    /\ UNCHANGED heard

Hear(e) ==
    /\ heard'[e] = Run(0, Len(heard'[e]))
    /\ Len(heard'[e]) > Len(heard[e])
    /\ \E f \in Sides \ {e} : busy[f] \/ Len(heard'[e]) <= said[f]
    /\ heard' = [heard EXCEPT ![e] = heard'[e]]
    /\ UNCHANGED <<said, busy>>

Next == \E e \in Sides : Call(e) \/ Return(e) \/ Hear(e)

Spec == Init /\ [][Next]_bvars
=============================================================================
