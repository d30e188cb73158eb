------------------------------ MODULE MCStreams ------------------------------
(***************************************************************************)
(* A dialogue for Streams: a short part that fits the socket, parts that   *)
(* do not, and several buffers written in a row, as the chunks are.        *)
(***************************************************************************)
EXTENDS Streams

MCScript == <<[by |-> "client", size |-> 2], [by |-> "server", size |-> 4],
              [by |-> "server", size |-> 5], [by |-> "server", size |-> 2],
              [by |-> "client", size |-> 6], [by |-> "client", size |-> 4],
              [by |-> "server", size |-> 2]>>
=============================================================================
