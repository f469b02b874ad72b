------------------------------- MODULE MCTap -------------------------------
(* An instance of the TAP interface for TLC. *)
EXTENDS Tap

TwoReaders == {"r1", "r2"}
ThreePipes == 1 .. 3
=============================================================================
