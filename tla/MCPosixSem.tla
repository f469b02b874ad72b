----------------------------- MODULE MCPosixSem -----------------------------
(* The semaphore of a queue of one item: two threads wait, one posts. *)
EXTENDS PosixSem

TwoWaitersOnePost == {"w1", "w2", "p"}
=============================================================================
