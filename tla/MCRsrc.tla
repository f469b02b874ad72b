------------------------------- MODULE MCRsrc -------------------------------
(* Instances of the resource pool for TLC. *)
EXTENDS Rsrc

(* The kinds of pools the program makes: dynamic ones like those of netbufs  *)
(* and queues, one for variable lengths, static ones like that of Ethernet   *)
(* headers; with limits, and one call that is refused.                      *)
Args(size, init, incr, max) == [size |-> size, init |-> init, incr |-> incr, max |-> max]
AllArgs == {Args(8, 0, 1, 0), Args(8, 1, 1, 2), Args(0, 0, 1, 2), Args(8, 3, 1, 0),
            Args(8, 2, 2, 3), Args(8, 2, 0, 0), Args(8, 3, 2, 2), Args(0, 2, 1, 0)}
=============================================================================
