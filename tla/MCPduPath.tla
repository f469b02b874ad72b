----------------------------- MODULE MCPduPath -----------------------------
(* Instances of the way of a PDU for TLC. *)
EXTENDS PduPath

FourBufs == 1 .. 4
=============================================================================
